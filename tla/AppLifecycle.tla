---------------------------- MODULE AppLifecycle ----------------------------
(***************************************************************************)
(* The life of the WAF's runtimes (internal/app/app.go): Run opens the     *)
(* listeners, requests capture the current runtime, reloads publish the    *)
(* next and retire the last, and the end of Run closes them all.           *)
(*                                                                         *)
(* A runtime is the number of its build.  current is an atomic pointer,    *)
(* retired is guarded by oldMu, a reload holds reloadMu; closeRuntimes     *)
(* does not.                                                               *)
(***************************************************************************)
EXTENDS Naturals, Sequences

CONSTANTS Request,    \* requests served concurrently
          Sighup,        \* the goroutine that handles SIGHUP
          None,       \* no runtime, nobody
          MaxBuilds   \* bound on the runtimes built

ASSUME AppConstants ==
    Sighup \notin Request /\ None \notin Nat \cup Request \cup {Sighup} /\ MaxBuilds \in Nat \ {0}

VARIABLES current, retired,  \* App.current and App.retired
          closed,            \* runtimes whose Close has run
          builds,            \* runtimes built so far
          reloadMu,          \* who holds it
          task,              \* where each request and the Sighup goroutine is
          phase, turn,       \* where Run is; the listener it opens or shuts down
          overdue,           \* the 15 s of the shutdown are over
          closing,           \* the runtimes closeRuntimes has collected
          overlap            \* a reload met closeRuntimes (history)

runtimes == <<current, retired, closed, builds>>
run == <<phase, turn, overdue, closing, overlap>>
vars == <<current, retired, closed, builds, reloadMu, task, phase, turn, overdue, closing, overlap>>

Proc == Request \cup {Sighup}
Listeners == <<"http", "https", "admin">>

Stage == {"idle", "begun", "serving", "upgraded", "status", "wait", "build", "compare", "swap",
          "retire", "release", "reply", "panicked"}
Task(pc, on, runtime) == [pc |-> pc, on |-> on, runtime |-> runtime]
Idle == Task("idle", 0, None)
Become(p, state) == task' = [task EXCEPT ![p] = state]
Goto(p, pc) == Become(p, Task(pc, task[p].on, task[p].runtime))
At(p, pc) == task[p].pc = pc
\* The requests that have captured a runtime.
Using(p) == task[p].pc \in {"serving", "upgraded"}
\* The requests http.Server.Shutdown waits for: a connection that a handler has
\* hijacked is no longer the server's.
Active(l) == {p \in Request : task[p].on = l /\ task[p].pc \notin {"idle", "upgraded", "panicked"}}

\* New has built the first runtime, and Run begins.
Init ==
    /\ current = 1 /\ builds = 1 /\ retired = {} /\ closed = {}
    /\ reloadMu = None
    /\ task = [p \in Proc |-> Idle]
    /\ phase = "listening" /\ turn = 1 /\ overdue = FALSE
    /\ closing = {} /\ overlap = FALSE

\* Run opens the enabled listeners in turn and then serves them all; SIGHUP is
\* handled already.  When one cannot be opened, Run closes the others and
\* returns at once, without closeRuntimes, and the process ends.
Listen ==
    /\ phase = "listening"
    /\ \/ turn < Len(Listeners) /\ turn' = turn + 1 /\ UNCHANGED phase
       \/ turn = Len(Listeners) /\ turn' = 0 /\ phase' = "serving"
       \/ phase' = "failed" /\ UNCHANGED turn
    /\ UNCHANGED <<runtimes, reloadMu, task, overdue, closing, overlap>>

-----------------------------------------------------------------------------
(* Handlers.                                                               *)

\* Shutdown closes the listeners one after the other.
Open(l) == phase = "serving" \/ (phase = "draining" /\ l > turn)

Begin(p, l) ==
    /\ At(p, "idle") /\ Open(l)
    /\ Become(p, Task("begun", l, None))
    /\ UNCHANGED <<runtimes, reloadMu, run>>

\* publicHandler loads the runtime once; without one the answer is 503.
Capture(p) ==
    /\ At(p, "begun") /\ Listeners[task[p].on] # "admin"
    /\ Become(p, IF current = None THEN Idle ELSE Task("serving", task[p].on, current))
    /\ UNCHANGED <<runtimes, reloadMu, run>>

\* The backend switches protocols: the reverse proxy hijacks the connection and
\* copies both ways until one end closes it.
Upgrade(p) ==
    /\ At(p, "serving") /\ Goto(p, "upgraded")
    /\ UNCHANGED <<runtimes, reloadMu, run>>

\* The deferred access log is the last use of the captured runtime.
Finish(p) ==
    /\ Using(p) /\ Become(p, Idle)
    /\ UNCHANGED <<runtimes, reloadMu, run>>

\* authorized loads the runtime, status and reload handlers load it again.
Authorize(p) ==
    /\ At(p, "begun") /\ Listeners[task[p].on] = "admin"
    /\ \/ Become(p, Idle)
       \/ current # None /\ (Goto(p, "status") \/ Goto(p, "wait"))
    /\ UNCHANGED <<runtimes, reloadMu, run>>

Respond(p) ==
    /\ At(p, "status") \/ At(p, "reply")
    /\ IF current = None THEN Goto(p, "panicked") ELSE Become(p, Idle)
    /\ UNCHANGED <<runtimes, reloadMu, run>>

-----------------------------------------------------------------------------
(* Reload.                                                                 *)

HandleHup ==
    /\ At(Sighup, "idle") /\ Goto(Sighup, "wait")
    /\ UNCHANGED <<runtimes, reloadMu, run>>

\* Mutant: a reload does not wait for the one in progress.
LockNot(p) ==
    /\ At(p, "wait") /\ Goto(p, "build")
    /\ UNCHANGED <<runtimes, reloadMu, run>>

Lock(p) ==
    /\ At(p, "wait") /\ reloadMu = None
    /\ reloadMu' = p /\ Goto(p, "build")
    /\ overlap' = (overlap \/ phase \in {"take", "close"})
    /\ UNCHANGED <<runtimes, phase, turn, overdue, closing>>

\* Reload returns an error, to the log or to the caller of the API.
Fails(p) == reloadMu' = None /\ Become(p, Idle)

Build(p) ==
    /\ At(p, "build")
    /\ \/ /\ builds < MaxBuilds /\ builds' = builds + 1
          /\ Become(p, Task("compare", task[p].on, builds + 1)) /\ UNCHANGED reloadMu
       \/ Fails(p) /\ UNCHANGED builds
    /\ UNCHANGED <<current, retired, closed, run>>

\* compatibleForHotReload: nothing is compared when there is no runtime.
Compare(p) ==
    /\ At(p, "compare")
    /\ \/ Goto(p, "swap") /\ UNCHANGED <<closed, reloadMu>>
       \/ current # None /\ closed' = closed \cup {task[p].runtime} /\ Fails(p)
    /\ UNCHANGED <<current, retired, builds, run>>

\* Mutant: the replaced runtime is closed at once.
SwapClose(p) ==
    /\ At(p, "swap") /\ current' = task[p].runtime
    /\ closed' = closed \cup ({current} \ {None}) /\ Goto(p, "release")
    /\ UNCHANGED <<retired, builds, reloadMu, run>>

Swap(p) ==
    /\ At(p, "swap") /\ current' = task[p].runtime
    /\ Become(p, Task(IF current = None THEN "release" ELSE "retire", task[p].on, current))
    /\ UNCHANGED <<retired, closed, builds, reloadMu, run>>

Retire(p) ==
    /\ At(p, "retire") /\ retired' = retired \cup {task[p].runtime}
    /\ Goto(p, "release")
    /\ UNCHANGED <<current, closed, builds, reloadMu, run>>

Release(p) ==
    /\ At(p, "release") /\ reloadMu' = None
    /\ IF p = Sighup THEN Become(p, Idle) ELSE Become(p, Task("reply", task[p].on, None))
    /\ UNCHANGED <<runtimes, run>>

-----------------------------------------------------------------------------
(* The end of Run.                                                         *)

\* The context is done, or a listener has failed.
Stop ==
    /\ phase = "serving" /\ phase' = "draining" /\ turn' = 1
    /\ UNCHANGED <<runtimes, reloadMu, task, overdue, closing, overlap>>

\* shutdownCtx, one for all listeners.
Deadline ==
    /\ phase = "draining" /\ ~overdue /\ overdue' = TRUE
    /\ UNCHANGED <<runtimes, reloadMu, task, phase, turn, closing, overlap>>

\* Mutant: Shutdown waits for its requests without a deadline.
DrainedOnly(l) == Active(l) = {}

\* Shutdown of a listener returns.
Drained(l) == Active(l) = {} \/ overdue

Drain ==
    /\ phase = "draining" /\ Drained(turn)
    /\ IF turn < Len(Listeners)
       THEN turn' = turn + 1 /\ UNCHANGED phase
       ELSE phase' = "swap" /\ UNCHANGED turn
    /\ UNCHANGED <<runtimes, reloadMu, task, overdue, closing, overlap>>

\* closeRuntimes takes the current runtime ...
TakeCurrent ==
    /\ phase = "swap" /\ phase' = "take"
    /\ current' = None /\ closing' = {current} \ {None}
    /\ overlap' = (overlap \/ reloadMu # None)
    /\ UNCHANGED <<retired, closed, builds, reloadMu, task, turn, overdue>>

\* Mutant: the retired runtimes are forgotten.
TakeNone ==
    /\ phase = "take" /\ phase' = "close" /\ retired' = {}
    /\ UNCHANGED <<current, closed, builds, reloadMu, task, turn, overdue, closing, overlap>>

\* ... and the retired ones ...
TakeRetired ==
    /\ phase = "take" /\ phase' = "close"
    /\ closing' = closing \cup retired /\ retired' = {}
    /\ UNCHANGED <<current, closed, builds, reloadMu, task, turn, overdue, overlap>>

\* ... closes them, and Run returns.  The process ends.
CloseEach ==
    /\ phase = "close"
    /\ IF closing = {}
       THEN phase' = "stopped" /\ UNCHANGED <<closed, closing>>
       ELSE \E r \in closing : /\ closed' = closed \cup {r} /\ closing' = closing \ {r}
                               /\ UNCHANGED phase
    /\ UNCHANGED <<current, retired, builds, reloadMu, task, turn, overdue, overlap>>

Handle(p) == Capture(p) \/ Upgrade(p) \/ Finish(p) \/ Authorize(p) \/ Respond(p)
Reload(p) ==
    Lock(p) \/ Build(p) \/ Compare(p) \/ Swap(p) \/ Retire(p) \/ Release(p)
Shutdown == Deadline \/ Drain \/ TakeCurrent \/ TakeRetired \/ CloseEach

Next ==
    \/ /\ phase \notin {"failed", "stopped"}
       /\ \/ \E p \in Request : Handle(p) \/ \E l \in 1 .. Len(Listeners) : Begin(p, l)
          \/ \E p \in Proc : Reload(p)
          \/ HandleHup
    \/ Listen \/ Stop \/ Shutdown

Spec == Init /\ [][Next]_vars

\* The timer of shutdownCtx fires and Run goes on; no handler and no reload has
\* to come to an end.
FairSpec ==
    Spec /\ WF_vars(Deadline) /\ WF_vars(Drain) /\ WF_vars(TakeCurrent \/ TakeRetired \/ CloseEach)

-----------------------------------------------------------------------------
TypeOK ==
    /\ builds \in 1 .. MaxBuilds
    /\ current \in 1 .. builds \cup {None}
    /\ retired \subseteq 1 .. builds /\ closed \subseteq 1 .. builds /\ closing \subseteq 1 .. builds
    /\ reloadMu \in Proc \cup {None}
    /\ task \in [Proc -> [pc : Stage, on : 0 .. Len(Listeners), runtime : 1 .. builds \cup {None}]]
    /\ phase \in {"listening", "failed", "serving", "draining", "swap", "take", "close", "stopped"}
    /\ turn \in 0 .. Len(Listeners)
    /\ overdue \in BOOLEAN /\ overlap \in BOOLEAN

\* "Requests that already captured the old runtime continue to completion"
\* (docs/ARCHITECTURE.md:47): the runtime of a request in progress is not
\* closed, however many reloads there are, and the admin handlers, which load
\* the current runtime twice and use it the second time without a test, find
\* one, also when the process is told to stop; unless the time for the shutdown
\* is over (publicHandler, adminHandler, closeRuntimes).  Shutdown does not wait
\* for an upgraded request: no reload closes its runtime, but closeRuntimes may
\* at any time once it has collected the runtimes.
RuntimeStaysUsable ==
    \A p \in Request :
        /\ (At(p, "serving") /\ task[p].runtime \in closed) \/ At(p, "panicked") => overdue
        /\ At(p, "upgraded") /\ task[p].runtime \in closed => phase \in {"close", "stopped"}

\* The runtimes that reloads have in their hands.
Held == {task[p].runtime : p \in {q \in Proc : task[q].pc \in {"compare", "swap", "retire"}}}

\* No runtime is ever lost sight of: what is not closed is current, retired,
\* collected for closing or in the hands of a reload, also when a reload and
\* closeRuntimes swap the current runtime under each other.  When Run returns
\* from serving, every runtime that was ever built is closed, published or not,
\* unless a reload overlapped closeRuntimes.  A Run that could not open a
\* listener leaves them open (Reload, closeRuntimes).
AllClosed ==
    /\ 1 .. builds \subseteq closed \cup closing \cup retired \cup {current} \cup Held
    /\ phase = "stopped" /\ ~overlap => closed = 1 .. builds

\* Reloads take effect in the order in which they read the configuration: a
\* runtime only gives way to one that was built later (reloadMu).
NewestWins == [][current' # current /\ current # None /\ current' # None => current' > current]_vars

\* Run returns after it was told to stop, although handlers may hang and
\* reloads go on.
Stops == phase = "draining" ~> phase = "stopped"
=============================================================================
