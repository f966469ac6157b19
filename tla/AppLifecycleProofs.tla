------------------------ MODULE AppLifecycleProofs ------------------------
(***************************************************************************)
(* For any number of requests and reloads: a captured runtime stays open,  *)
(* reloads take effect in order, and no runtime is lost sight of.          *)
(*                                                                         *)
(* The three rest on reloadMu: while a reload holds it, its runtime is the *)
(* last one built and nobody else has it (Fresh).  Shutdown empties the    *)
(* listeners in turn, so that in time nobody is left when closeRuntimes    *)
(* begins (Orderly).  Accounted says where each runtime is.                *)
(***************************************************************************)
EXTENDS AppLifecycle, TLAPS

\* The stages in which a reload has the lock.
Holding == {"build", "compare", "swap", "retire", "release"}
\* closeRuntimes has not begun.
Early == phase \in {"listening", "failed", "serving", "draining", "swap"}
\* closeRuntimes has closed nothing.
Whole == phase \notin {"close", "stopped"}

\* Only the holder of reloadMu is inside a reload.
Mutex == \A p \in Proc : task[p].pc \in Holding => reloadMu = p

\* What a reload has built and not published is the last runtime, and its own.
Fresh ==
    \A p \in Proc : task[p].pc \in {"compare", "swap"} =>
        /\ task[p].runtime = builds
        /\ current # None => current < builds
        /\ builds \notin closed \cup retired \cup closing
        /\ \A q \in Request : Using(q) => task[q].runtime # builds

\* There is a runtime to retire.
Replaced == \A p \in Proc : At(p, "retire") => task[p].runtime # None

\* Until closeRuntimes begins there is a current runtime, and until it closes
\* the first, what is current or captured is open.
Usable ==
    /\ Early => current # None /\ closing = {}
    /\ Whole => /\ current \notin closed
                /\ \A q \in Request : Using(q) => task[q].runtime \notin closed

\* In time, only upgraded requests are left on a listener that has been shut down.
Orderly ==
    ~overdue => \A q \in Request :
        /\ ~At(q, "panicked")
        /\ ~At(q, "idle") /\ ~At(q, "upgraded") =>
              /\ task[q].on \in 1 .. 3
              /\ phase = "serving" \/ (phase = "draining" /\ task[q].on >= turn)

\* Where a runtime can be.
Accounted ==
    \A r \in 1 .. builds :
        \/ r \in closed \cup retired \cup closing \cup {current}
        \/ \E p \in Proc : task[p].pc \in {"compare", "swap", "retire"} /\ task[p].runtime = r

\* Without a reload that overlaps it, closeRuntimes has everything to itself.
Quiet ==
    ~Early /\ ~overlap =>
        /\ reloadMu = None /\ current = None
        /\ phase # "take" => retired = {}
        /\ phase = "stopped" => closing = {}

\* The inductive invariant.
Inv == TypeOK /\ Mutex /\ Fresh /\ Replaced /\ Usable /\ Orderly /\ Accounted /\ Quiet

-----------------------------------------------------------------------------
(* The table of tasks.                                                      *)

\* The fields of a task.
LEMMA Fields ==
    ASSUME NEW a, NEW b, NEW c
    PROVE  Task(a, b, c).pc = a /\ Task(a, b, c).on = b /\ Task(a, b, c).runtime = c
BY Zenon DEF Task

\* A task of its parts.
LEMMA TaskType ==
    ASSUME NEW a \in Stage, NEW b \in 0 .. 3, NEW c \in 1 .. builds \cup {None}
    PROVE  Task(a, b, c) \in [pc : Stage, on : 0 .. Len(Listeners), runtime : 1 .. builds \cup {None}]
BY Zenon DEF Task, Listeners

\* The parts of a task.
LEMMA TaskOf ==
    ASSUME TypeOK, NEW p \in Proc
    PROVE  /\ task[p].pc \in Stage /\ task[p].on \in 0 .. 3
           /\ task[p].runtime \in 1 .. builds \cup {None}
BY Zenon DEF TypeOK, Listeners

\* A step of p leaves the others where they are.
LEMMA BecomeTask ==
    ASSUME TypeOK, NEW p \in Proc, NEW s, Become(p, s)
    PROVE  task'[p] = s /\ \A q \in Proc \ {p} : task'[q] = task[q]
BY Zenon DEF TypeOK, Become

\* ... and keeps the types when the runtimes are the same.
LEMMA BecomeType ==
    ASSUME TypeOK, NEW p \in Proc, NEW a \in Stage, NEW b \in 0 .. 3,
           NEW c \in 1 .. builds \cup {None}, Become(p, Task(a, b, c)), builds' = builds
    PROVE  task' \in [Proc -> [pc : Stage, on : 0 .. Len(Listeners),
                               runtime : 1 .. builds' \cup {None}]]
<1>1. Task(a, b, c) \in [pc : Stage, on : 0 .. Len(Listeners), runtime : 1 .. builds \cup {None}]
  BY TaskType, Zenon
<1> QED BY <1>1, Zenon DEF TypeOK, Become

-----------------------------------------------------------------------------
(* Handlers: they change nothing but their own task.                        *)

\* A handler moves to a stage outside the reload, captures at most the current
\* runtime and ends in a panic only when there is none.
LEMMA HandlerStep ==
    ASSUME Inv, NEW p \in Request, NEW a \in Stage, NEW b \in 0 .. 3,
           NEW c \in 1 .. builds \cup {None}, Become(p, Task(a, b, c)),
           UNCHANGED <<runtimes, reloadMu, run>>,
           a \notin Holding, task[p].pc \notin Holding,
           a = "serving" => c = current /\ current # None,
           a = "upgraded" => Using(p) /\ c = task[p].runtime,
           ~overdue /\ a \notin {"idle", "upgraded"} =>
               /\ a # "panicked" /\ b \in 1 .. 3
               /\ phase = "serving" \/ (phase = "draining" /\ b >= turn)
    PROVE  Inv'
<1>1. TypeOK'
  <2>1. /\ p \in Proc /\ TypeOK
        /\ UNCHANGED <<current, retired, closed, builds, phase, turn, overdue, closing, overlap>>
    BY Zenon DEF Inv, runtimes, run, Proc
  <2>2. task' \in [Proc -> [pc : Stage, on : 0 .. Len(Listeners), runtime : 1 .. builds' \cup {None}]]
    BY <2>1, BecomeType, Zenon
  <2> QED BY <2>1, <2>2, Zenon DEF TypeOK
<1>2. /\ p \in Proc /\ task'[p].pc = a /\ task'[p].on = b /\ task'[p].runtime = c
      /\ \A q \in Proc \ {p} : task'[q] = task[q]
  BY BecomeTask, Fields DEF Inv, Proc
<1>3. Request \subseteq Proc
  BY Zenon DEF Proc
<1>4. Mutex'
  BY <1>2, Zenon DEF Inv, Mutex, run
<1>5. Fresh' /\ Replaced'
  BY <1>2, <1>3 DEF Inv, Fresh, Replaced, At, Using, Holding, runtimes, run
<1>6. Usable'
  BY <1>2, <1>3, Zenon DEF Inv, Usable, Early, Whole, Using, runtimes, run
<1>7. Orderly'
  BY <1>2, <1>3, Zenon DEF Inv, Orderly, At, run
<1>8. Accounted'
  BY <1>2 DEF Inv, Accounted, Holding, runtimes, run
<1>9. Quiet'
  BY Zenon DEF Inv, Quiet, Early, runtimes, run
<1> QED BY <1>1, <1>4, <1>5, <1>6, <1>7, <1>8, <1>9, Zenon DEF Inv

\* Every step of a handler keeps the invariant.
LEMMA HandleInv ==
    ASSUME Inv, NEW p \in Request, Handle(p) \/ \E l \in 1 .. Len(Listeners) : Begin(p, l)
    PROVE  Inv'
<1>0. /\ p \in Proc /\ task[p].pc \in Stage /\ task[p].on \in 0 .. 3
      /\ task[p].runtime \in 1 .. builds \cup {None}
      /\ current \in 1 .. builds \cup {None} /\ turn \in 0 .. 3
      /\ None \in 1 .. builds \cup {None} /\ Len(Listeners) = 3
  BY TaskOf, Zenon DEF Inv, TypeOK, Proc, Listeners
<1>1. ASSUME NEW l \in 1 .. Len(Listeners), Begin(p, l) PROVE Inv'
  <2>1. /\ Become(p, Task("begun", l, None)) /\ task[p].pc = "idle"
        /\ UNCHANGED <<runtimes, reloadMu, run>>
        /\ phase = "serving" \/ (phase = "draining" /\ l >= turn)
    BY <1>0, <1>1 DEF Begin, At, Open
  <2>2. "begun" \in Stage /\ l \in 0 .. 3 /\ l \in 1 .. 3
    BY <1>0 DEF Stage
  <2> QED BY <1>0, <2>1, <2>2, HandlerStep, Zenon DEF Holding
<1>a. ~overdue /\ ~At(p, "idle") /\ ~At(p, "upgraded") =>
          /\ task[p].on \in 1 .. 3
          /\ phase = "serving" \/ (phase = "draining" /\ task[p].on >= turn)
  BY Zenon DEF Inv, Orderly
<1>b. "idle" \in Stage /\ "upgraded" \in Stage /\ "serving" \in Stage /\ "status" \in Stage /\ "wait" \in Stage
      /\ "panicked" \in Stage /\ 0 \in 0 .. 3
  BY DEF Stage
<1>c. ASSUME Become(p, Idle), UNCHANGED <<runtimes, reloadMu, run>>, task[p].pc \notin Holding
      PROVE  Inv'
  <2>1. Become(p, Task("idle", 0, None))
    BY <1>c, Zenon DEF Idle
  <2> QED BY <1>0, <1>b, <1>c, <2>1, HandlerStep, Zenon DEF Holding
<1>2. CASE Capture(p)
  <2>1. /\ task[p].pc = "begun" /\ UNCHANGED <<runtimes, reloadMu, run>>
        /\ \/ Become(p, Idle)
           \/ current # None /\ Become(p, Task("serving", task[p].on, current))
    BY <1>2, Zenon DEF Capture, At
  <2>2. CASE Become(p, Idle)
    BY <2>1, <2>2, <1>c, Zenon DEF Holding
  <2>3. CASE current # None /\ Become(p, Task("serving", task[p].on, current))
    BY <1>0, <1>a, <1>b, <2>1, <2>3, HandlerStep, Zenon DEF Holding, At
  <2> QED BY <2>1, <2>2, <2>3, Zenon
<1>3. CASE Upgrade(p)
  <2>1. /\ task[p].pc = "serving" /\ UNCHANGED <<runtimes, reloadMu, run>>
        /\ Become(p, Task("upgraded", task[p].on, task[p].runtime))
    BY <1>3, Zenon DEF Upgrade, At, Goto
  <2> QED BY <1>0, <1>b, <2>1, HandlerStep, Zenon DEF Holding, Using
<1>6. CASE Finish(p)
  BY <1>6, <1>c, Zenon DEF Finish, Using, Holding
<1>4. CASE Authorize(p)
  <2>1. /\ task[p].pc = "begun" /\ UNCHANGED <<runtimes, reloadMu, run>>
        /\ \/ Become(p, Idle)
           \/ \E a \in {"status", "wait"} : Become(p, Task(a, task[p].on, task[p].runtime))
    BY <1>4, Zenon DEF Authorize, At, Goto
  <2>2. CASE Become(p, Idle)
    BY <2>1, <2>2, <1>c, Zenon DEF Holding
  <2>3. ASSUME NEW a \in {"status", "wait"}, Become(p, Task(a, task[p].on, task[p].runtime))
        PROVE  Inv'
    <3>1. a \in Stage /\ a \notin Holding /\ a \notin {"serving", "upgraded", "panicked"}
      BY Zenon DEF Stage, Holding
    <3> QED BY <1>0, <1>a, <2>1, <2>3, <3>1, HandlerStep, Zenon DEF Holding, At
  <2> QED BY <2>1, <2>2, <2>3, Zenon
<1>5. CASE Respond(p)
  <2>1. /\ task[p].pc \in {"status", "reply"} /\ UNCHANGED <<runtimes, reloadMu, run>>
        /\ \/ Become(p, Idle)
           \/ current = None /\ Become(p, Task("panicked", task[p].on, task[p].runtime))
    BY <1>5, Zenon DEF Respond, At, Goto
  <2>2. CASE Become(p, Idle)
    BY <2>1, <2>2, <1>c, Zenon DEF Holding
  <2>3. CASE current = None /\ Become(p, Task("panicked", task[p].on, task[p].runtime))
    <3>1. overdue
      BY <1>a, <2>1, <2>3, Zenon DEF Inv, Usable, Early, Whole, At, Using
    <3> QED BY <1>0, <1>b, <2>1, <2>3, <3>1, HandlerStep, Zenon DEF Holding
  <2> QED BY <2>1, <2>2, <2>3, Zenon
<1> QED BY <1>1, <1>2, <1>3, <1>4, <1>5, <1>6, Zenon DEF Handle

-----------------------------------------------------------------------------
(* Reload.                                                                  *)

\* What a step of p that leaves the runtimes alone keeps, when p ends outside
\* the stages in which it has one.
LEMMA ReloadStep ==
    ASSUME Inv, NEW p \in Proc, NEW a \in {"idle", "wait", "build", "reply"},
           NEW b \in 0 .. 3, NEW c \in 1 .. builds \cup {None}, Become(p, Task(a, b, c)),
           UNCHANGED runtimes, UNCHANGED <<phase, turn, overdue, closing>>,
           task[p].pc \notin {"compare", "swap", "retire"},
           a # "idle" => (b = task[p].on /\ ~At(p, "idle") /\ ~At(p, "upgraded")) \/ p = Sighup
    PROVE  /\ task' \in [Proc -> [pc : Stage, on : 0 .. Len(Listeners),
                                  runtime : 1 .. builds' \cup {None}]]
           /\ task'[p].pc = a /\ \A q \in Proc \ {p} : task'[q] = task[q]
           /\ Fresh' /\ Replaced' /\ Usable' /\ Orderly' /\ Accounted'
<1>1. /\ task'[p].pc = a /\ task'[p].on = b /\ task'[p].runtime = c
      /\ \A q \in Proc \ {p} : task'[q] = task[q]
  BY BecomeTask, Fields DEF Inv
<1>2. Request \subseteq Proc /\ Sighup \notin Request
  BY AppConstants, Zenon DEF Proc
<1>3. task' \in [Proc -> [pc : Stage, on : 0 .. Len(Listeners), runtime : 1 .. builds' \cup {None}]]
  BY BecomeType, Zenon DEF Inv, Stage, runtimes
<1>4. Fresh' /\ Replaced'
  BY <1>1, <1>2, Zenon DEF Inv, Fresh, Replaced, At, Using, runtimes
<1>5. Usable'
  BY <1>1, <1>2, Zenon DEF Inv, Usable, Early, Whole, At, Using, runtimes
<1>6. Orderly'
  BY <1>1, <1>2, Zenon DEF Inv, Orderly, At
<1>7. Accounted'
  BY <1>1 DEF Inv, Accounted, runtimes
<1> QED BY <1>1, <1>3, <1>4, <1>5, <1>6, <1>7, Zenon

\* SIGHUP asks for a reload.
LEMMA HupInv == ASSUME Inv, HandleHup PROVE Inv'
<1>1. /\ Sighup \in Proc /\ At(Sighup, "idle") /\ UNCHANGED <<runtimes, reloadMu, run>>
      /\ Become(Sighup, Task("wait", task[Sighup].on, task[Sighup].runtime))
  BY Zenon DEF HandleHup, Proc, Goto
<1>2. task[Sighup].on \in 0 .. 3 /\ task[Sighup].runtime \in 1 .. builds \cup {None}
  BY <1>1, TaskOf, Zenon DEF Inv
<1>3. /\ task' \in [Proc -> [pc : Stage, on : 0 .. Len(Listeners), runtime : 1 .. builds' \cup {None}]]
      /\ task'[Sighup].pc = "wait" /\ \A q \in Proc \ {Sighup} : task'[q] = task[q]
      /\ Fresh' /\ Replaced' /\ Usable' /\ Orderly' /\ Accounted'
  BY <1>1, <1>2, ReloadStep, Zenon DEF run, At
<1>4. TypeOK'
  BY <1>1, <1>3, Zenon DEF Inv, TypeOK, runtimes, run
<1>5. Mutex' /\ Quiet'
  BY <1>1, <1>3, Zenon DEF Inv, Mutex, Quiet, Early, Holding, runtimes, run
<1> QED BY <1>3, <1>4, <1>5, Zenon DEF Inv

\* A reload begins when no other is in progress.
LEMMA LockInv ==
    ASSUME Inv, NEW p \in Proc, Lock(p), phase \notin {"failed", "stopped"}
    PROVE  Inv'
<1>1. /\ task[p].pc = "wait" /\ reloadMu = None /\ reloadMu' = p
      /\ Become(p, Task("build", task[p].on, task[p].runtime))
      /\ overlap' = (overlap \/ phase \in {"take", "close"})
      /\ UNCHANGED <<runtimes, phase, turn, overdue, closing>>
  BY Zenon DEF Lock, Goto, At
<1>2. task[p].on \in 0 .. 3 /\ task[p].runtime \in 1 .. builds \cup {None}
  BY TaskOf, Zenon DEF Inv
<1>3. /\ task' \in [Proc -> [pc : Stage, on : 0 .. Len(Listeners), runtime : 1 .. builds' \cup {None}]]
      /\ task'[p].pc = "build" /\ \A q \in Proc \ {p} : task'[q] = task[q]
      /\ Fresh' /\ Replaced' /\ Usable' /\ Orderly' /\ Accounted'
  BY <1>1, <1>2, ReloadStep, Zenon DEF At
<1>4. TypeOK'
  BY <1>1, <1>3, Zenon DEF Inv, TypeOK, runtimes
<1>5. Mutex'
  BY <1>1, <1>3, AppConstants, Zenon DEF Inv, Mutex, Proc
<1>6. Quiet'
  BY <1>1, Zenon DEF Inv, TypeOK, Quiet, Early
<1> QED BY <1>3, <1>4, <1>5, <1>6, Zenon DEF Inv

\* Whoever is inside a reload is alone, and no orderly closeRuntimes is under way.
LEMMA Alone ==
    ASSUME Inv, NEW p \in Proc, task[p].pc \in Holding
    PROVE  /\ reloadMu = p /\ (Early \/ overlap)
           /\ \A q \in Proc \ {p} : task[q].pc \notin Holding
<1>1. reloadMu = p /\ \A q \in Proc \ {p} : task[q].pc \notin Holding
  BY Zenon DEF Inv, Mutex
<1>2. Early \/ overlap
  BY <1>1, AppConstants, Zenon DEF Inv, Quiet, Proc
<1> QED BY <1>1, <1>2, Zenon

\* A reload that fails gives up the lock.
LEMMA FailsInv ==
    ASSUME Inv, NEW p \in Proc, At(p, "build"), Fails(p), UNCHANGED <<runtimes, run>>
    PROVE  Inv'
<1>1. /\ Become(p, Task("idle", 0, None)) /\ reloadMu' = None /\ task[p].pc = "build"
      /\ (Early \/ overlap) /\ \A q \in Proc \ {p} : task[q].pc \notin Holding
  BY Alone, Zenon DEF Fails, Idle, At, Holding
<1>2. /\ task' \in [Proc -> [pc : Stage, on : 0 .. Len(Listeners), runtime : 1 .. builds' \cup {None}]]
      /\ task'[p].pc = "idle" /\ \A q \in Proc \ {p} : task'[q] = task[q]
      /\ Fresh' /\ Replaced' /\ Usable' /\ Orderly' /\ Accounted'
  <2>1. /\ 0 \in 0 .. 3 /\ None \in 1 .. builds \cup {None} /\ "idle" \in {"idle", "wait", "build", "reply"}
        /\ UNCHANGED runtimes /\ UNCHANGED <<phase, turn, overdue, closing>>
        /\ task[p].pc \notin {"compare", "swap", "retire"}
    BY <1>1 DEF run
  <2> QED BY <1>1, <2>1, ReloadStep, Zenon
<1>3. TypeOK'
  BY <1>1, <1>2, Zenon DEF Inv, TypeOK, runtimes, run
<1>4. Mutex' /\ Quiet'
  BY <1>1, <1>2, Zenon DEF Mutex, Quiet, Early, Holding, runtimes, run
<1> QED BY <1>2, <1>3, <1>4, Zenon DEF Inv

\* What a reload builds is the last runtime built.
LEMMA BuildInv == ASSUME Inv, NEW p \in Proc, Build(p) PROVE Inv'
<1>1. CASE Fails(p) /\ UNCHANGED builds
  BY <1>1, FailsInv, Zenon DEF Build, runtimes
<1>2. CASE /\ builds < MaxBuilds /\ builds' = builds + 1
           /\ Become(p, Task("compare", task[p].on, builds + 1)) /\ UNCHANGED reloadMu
  <2>1. /\ task[p].pc = "build" /\ UNCHANGED <<current, retired, closed, run>>
        /\ builds \in 1 .. MaxBuilds /\ builds' \in 1 .. MaxBuilds /\ MaxBuilds \in Nat
        /\ Request \subseteq Proc /\ Sighup \notin Request
    BY <1>2, AppConstants DEF Build, At, Inv, TypeOK, Proc
  <2>2. /\ task'[p].pc = "compare" /\ task'[p].on = task[p].on /\ task'[p].runtime = builds + 1
        /\ \A q \in Proc \ {p} : task'[q] = task[q]
    BY <1>2, BecomeTask, Fields DEF Inv
  <2>3. reloadMu = p /\ (Early \/ overlap) /\ \A q \in Proc \ {p} : task[q].pc \notin Holding
    BY <2>1, Alone, Zenon DEF Holding
  <2>4. TypeOK'
    <3>1. \A q \in Proc : task[q] \in [pc : Stage, on : 0 .. Len(Listeners), runtime : 1 .. builds' \cup {None}]
      <4>1. 1 .. builds \subseteq 1 .. builds'
        BY <1>2, <2>1
      <4> QED BY <4>1, Zenon DEF Inv, TypeOK
    <3>2. Task("compare", task[p].on, builds + 1)
             \in [pc : Stage, on : 0 .. Len(Listeners), runtime : 1 .. builds' \cup {None}]
      BY <1>2, <2>1, TaskOf DEF Inv, Task, Stage, Listeners
    <3>3. task' \in [Proc -> [pc : Stage, on : 0 .. Len(Listeners), runtime : 1 .. builds' \cup {None}]]
      BY <1>2, <3>1, <3>2, Zenon DEF Inv, TypeOK, Become
    <3> QED BY <1>2, <2>1, <3>3, SMTT(30) DEF Inv, TypeOK, run
  <2>5. Mutex'
    BY <1>2, <2>2, <2>3, Zenon DEF Mutex
  <2>6. Fresh'
    <3>1. ASSUME NEW q \in Request, Using(q)' PROVE task'[q].runtime # builds'
      BY <1>2, <2>1, <2>2, <3>1, TaskOf, AppConstants DEF Inv, Using
    <3>2. builds' \notin (closed \cup retired \cup closing)' /\ (current # None => current < builds')
      BY <1>2, <2>1 DEF Inv, TypeOK, run
    <3> QED BY <1>2, <2>1, <2>2, <2>3, <3>1, <3>2, Zenon DEF Fresh, Holding
  <2>7. Replaced' /\ Usable'
    BY <2>1, <2>2, Zenon DEF Inv, Replaced, Usable, Early, Whole, At, Using, run
  <2>8. Orderly'
    BY <2>1, <2>2, Zenon DEF Inv, Orderly, At, run
  <2>9. Accounted'
    BY <1>2, <2>1, <2>2 DEF Inv, Accounted, run
  <2>10. Quiet'
    BY <2>1, <2>3, Zenon DEF Quiet, Early, run
  <2> QED BY <2>4, <2>5, <2>6, <2>7, <2>8, <2>9, <2>10, Zenon DEF Inv
<1> QED BY <1>1, <1>2, Zenon DEF Build

\* The runtime of a reload that may not take effect is closed.
LEMMA CompareInv == ASSUME Inv, NEW p \in Proc, Compare(p) PROVE Inv'
<1>1. /\ task[p].pc = "compare" /\ UNCHANGED <<current, retired, builds, run>>
      /\ Request \subseteq Proc /\ Sighup \notin Request /\ p # None
      /\ task[p].on \in 0 .. 3 /\ task[p].runtime \in 1 .. builds \cup {None}
  BY AppConstants, TaskOf, Zenon DEF Compare, At, Inv, Proc
<1>2. reloadMu = p /\ (Early \/ overlap) /\ \A q \in Proc \ {p} : task[q].pc \notin Holding
  BY <1>1, Alone, Zenon DEF Holding
<1>3. /\ task[p].runtime = builds
      /\ current # None => current < builds
      /\ builds \notin closed \cup retired \cup closing
      /\ \A q \in Request : Using(q) => task[q].runtime # builds
  BY <1>1, Zenon DEF Inv, Fresh
<1>4. builds \in Nat /\ builds \in 1 .. builds
  BY AppConstants DEF Inv, TypeOK
<1>5. CASE Goto(p, "swap") /\ UNCHANGED <<closed, reloadMu>>
  <2>1. /\ task'[p].pc = "swap" /\ task'[p].on = task[p].on /\ task'[p].runtime = task[p].runtime
        /\ \A q \in Proc \ {p} : task'[q] = task[q]
    BY <1>5, BecomeTask, Fields DEF Inv, Goto
  <2>2. TypeOK'
    <3>1. task' \in [Proc -> [pc : Stage, on : 0 .. Len(Listeners), runtime : 1 .. builds' \cup {None}]]
      BY <1>1, <1>5, BecomeType, Zenon DEF Inv, Goto, Stage
    <3> QED BY <1>1, <1>5, <3>1, Zenon DEF Inv, TypeOK, run
  <2>3. Mutex' /\ Fresh' /\ Replaced' /\ Usable'
    BY <1>1, <1>5, <2>1 DEF Inv, Mutex, Fresh, Replaced, Usable, Early, Whole, Holding, At, Using, run
  <2>4. Orderly' /\ Accounted' /\ Quiet'
    BY <1>1, <1>5, <2>1 DEF Inv, Orderly, Accounted, Quiet, Early, At, run
  <2> QED BY <2>2, <2>3, <2>4, Zenon DEF Inv
<1>6. CASE current # None /\ closed' = closed \cup {task[p].runtime} /\ Fails(p)
  <2>1. /\ task'[p].pc = "idle" /\ reloadMu' = None
        /\ \A q \in Proc \ {p} : task'[q] = task[q]
    BY <1>6, BecomeTask, Fields DEF Inv, Fails, Idle
  <2>2. TypeOK'
    <3>1. "idle" \in Stage /\ 0 \in 0 .. 3 /\ None \in 1 .. builds \cup {None}
          /\ Become(p, Task("idle", 0, None)) /\ builds' = builds
      BY <1>1, <1>6 DEF Fails, Idle, Stage
    <3>2. task' \in [Proc -> [pc : Stage, on : 0 .. Len(Listeners), runtime : 1 .. builds' \cup {None}]]
      BY <3>1, BecomeType, Zenon DEF Inv
    <3>3. closed' \subseteq 1 .. builds
      BY <1>3, <1>4, <1>6, Zenon DEF Inv, TypeOK
    <3> QED BY <1>1, <2>1, <3>2, <3>3, Zenon DEF Inv, TypeOK, run
  <2>3. Mutex' /\ Fresh' /\ Replaced' /\ Quiet'
    BY <1>1, <1>2, <2>1 DEF Mutex, Fresh, Replaced, At, Using, Quiet, Early, Holding, run
  <2>4. Usable'
    BY <1>1, <1>3, <1>4, <1>6, <2>1 DEF Inv, Usable, Early, Whole, At, Using, run
  <2>5. Orderly'
    BY <1>1, <2>1, Zenon DEF Inv, Orderly, At, run
  <2>6. Accounted'
    BY <1>1, <1>3, <1>6, <2>1 DEF Inv, Accounted, run
  <2> QED BY <2>2, <2>3, <2>4, <2>5, <2>6, Zenon DEF Inv
<1> QED BY <1>5, <1>6, Zenon DEF Compare

\* The new runtime is published, and the replaced one is in the hands of the reload.
LEMMA SwapInv == ASSUME Inv, NEW p \in Proc, Swap(p) PROVE Inv'
<1>1. /\ task[p].pc = "swap" /\ UNCHANGED <<retired, closed, builds, reloadMu, run>>
      /\ current' = task[p].runtime
      /\ Request \subseteq Proc /\ Sighup \notin Request /\ p # None
      /\ task[p].on \in 0 .. 3 /\ current \in 1 .. builds \cup {None}
  BY AppConstants, TaskOf, Zenon DEF Swap, At, Inv, TypeOK, Proc
<1>2. reloadMu = p /\ (Early \/ overlap) /\ \A q \in Proc \ {p} : task[q].pc \notin Holding
  BY <1>1, Alone, Zenon DEF Holding
<1>3. task[p].runtime = builds /\ builds \notin closed \cup retired \cup closing
  BY <1>1, Zenon DEF Inv, Fresh
<1>4. builds \in Nat /\ builds \in 1 .. builds /\ None \notin Nat
  BY AppConstants DEF Inv, TypeOK
<1> DEFINE next == IF current = None THEN "release" ELSE "retire"
<1>5. /\ task'[p].pc = next /\ task'[p].on = task[p].on /\ task'[p].runtime = current
      /\ \A q \in Proc \ {p} : task'[q] = task[q]
  BY BecomeTask, Fields DEF Inv, Swap
<1>6. TypeOK'
  <2>1. next \in Stage /\ Become(p, Task(next, task[p].on, current)) /\ builds' = builds
    BY <1>1, Zenon DEF Swap, Stage
  <2>2. task' \in [Proc -> [pc : Stage, on : 0 .. Len(Listeners), runtime : 1 .. builds' \cup {None}]]
    BY <1>1, <2>1, BecomeType, Zenon DEF Inv
  <2> QED BY <1>1, <1>3, <1>4, <2>2, Zenon DEF Inv, TypeOK, run
<1>7. Mutex' /\ Fresh' /\ Replaced' /\ Quiet'
  BY <1>1, <1>2, <1>5 DEF Mutex, Fresh, Replaced, At, Using, Quiet, Early, Holding, run
<1>8. Usable'
  BY <1>1, <1>3, <1>4, <1>5, Zenon DEF Inv, Usable, Early, Whole, At, Using, run
<1>9. Orderly'
  BY <1>1, <1>5, Zenon DEF Inv, Orderly, At, run
<1>10. Accounted'
  <2> SUFFICES ASSUME NEW r \in 1 .. builds
               PROVE  \/ r \in closed \cup retired \cup closing \cup {current'}
                      \/ \E q \in Proc : task'[q].pc \in {"compare", "swap", "retire"} /\ task'[q].runtime = r
    BY <1>1, Zenon DEF Accounted, run
  <2>1. CASE r = current
    BY <1>4, <1>5, <2>1
  <2>2. CASE r # current
    <3>1. \/ r \in closed \cup retired \cup closing
          \/ \E q \in Proc : task[q].pc \in {"compare", "swap", "retire"} /\ task[q].runtime = r
      BY <2>2, Zenon DEF Inv, Accounted
    <3> QED BY <1>1, <1>2, <3>1, Zenon DEF Holding
  <2> QED BY <2>1, <2>2, Zenon
<1> QED BY <1>6, <1>7, <1>8, <1>9, <1>10, Zenon DEF Inv

\* ... until it is among the retired ones.
LEMMA RetireInv == ASSUME Inv, NEW p \in Proc, Retire(p) PROVE Inv'
<1>1. /\ task[p].pc = "retire" /\ UNCHANGED <<current, closed, builds, reloadMu, run>>
      /\ retired' = retired \cup {task[p].runtime}
      /\ Request \subseteq Proc /\ Sighup \notin Request
      /\ task[p].on \in 0 .. 3 /\ task[p].runtime \in 1 .. builds \cup {None}
  BY AppConstants, TaskOf, Zenon DEF Retire, At, Inv, Proc
<1>2. reloadMu = p /\ (Early \/ overlap) /\ \A q \in Proc \ {p} : task[q].pc \notin Holding
  BY <1>1, Alone, Zenon DEF Holding
<1>3. task[p].runtime # None
  BY <1>1, Zenon DEF Inv, Replaced, At
<1>4. /\ task'[p].pc = "release" /\ task'[p].on = task[p].on
      /\ \A q \in Proc \ {p} : task'[q] = task[q]
  BY BecomeTask, Fields DEF Inv, Retire, Goto
<1>5. TypeOK'
  <2>1. "release" \in Stage /\ Become(p, Task("release", task[p].on, task[p].runtime)) /\ builds' = builds
    BY <1>1, Zenon DEF Retire, Goto, Stage
  <2>2. task' \in [Proc -> [pc : Stage, on : 0 .. Len(Listeners), runtime : 1 .. builds' \cup {None}]]
    BY <1>1, <2>1, BecomeType, Zenon DEF Inv
  <2> QED BY <1>1, <1>3, <2>2, Zenon DEF Inv, TypeOK, run
<1>6. Mutex' /\ Fresh' /\ Replaced' /\ Quiet'
  BY <1>1, <1>2, <1>4 DEF Mutex, Fresh, Replaced, At, Using, Quiet, Early, Holding, run
<1>7. Usable'
  BY <1>1, <1>4, Zenon DEF Inv, Usable, Early, Whole, At, Using, run
<1>8. Orderly'
  BY <1>1, <1>4, Zenon DEF Inv, Orderly, At, run
<1>9. Accounted'
  BY <1>1, <1>4 DEF Inv, Accounted, run
<1> QED BY <1>5, <1>6, <1>7, <1>8, <1>9, Zenon DEF Inv

\* The reload is over.
LEMMA ReleaseInv == ASSUME Inv, NEW p \in Proc, Release(p) PROVE Inv'
<1>1. /\ task[p].pc = "release" /\ reloadMu' = None /\ UNCHANGED <<runtimes, run>>
      /\ task[p].on \in 0 .. 3 /\ None \in 1 .. builds \cup {None} /\ 0 \in 0 .. 3
  BY TaskOf DEF Release, At, Inv
<1>2. (Early \/ overlap) /\ \A q \in Proc \ {p} : task[q].pc \notin Holding
  BY <1>1, Alone, Zenon DEF Holding
<1>3. PICK a \in {"idle", "reply"}, b \in 0 .. 3 :
         Become(p, Task(a, b, None)) /\ (a # "idle" => b = task[p].on)
  BY <1>1, Zenon DEF Release, Idle
<1>4. /\ task' \in [Proc -> [pc : Stage, on : 0 .. Len(Listeners), runtime : 1 .. builds' \cup {None}]]
      /\ task'[p].pc = a /\ \A q \in Proc \ {p} : task'[q] = task[q]
      /\ Fresh' /\ Replaced' /\ Usable' /\ Orderly' /\ Accounted'
  <2>1. /\ a \in {"idle", "wait", "build", "reply"} /\ ~At(p, "idle")
        /\ UNCHANGED runtimes /\ UNCHANGED <<phase, turn, overdue, closing>>
        /\ task[p].pc \notin {"compare", "swap", "retire"} /\ ~At(p, "upgraded")
    BY <1>1, <1>3, Zenon DEF At, run
  <2> QED BY <1>1, <1>3, <2>1, ReloadStep, Zenon
<1>5. TypeOK'
  BY <1>1, <1>4, Zenon DEF Inv, TypeOK, runtimes, run
<1>6. Mutex' /\ Quiet'
  BY <1>1, <1>2, <1>3, <1>4, Zenon DEF Mutex, Quiet, Early, Holding, runtimes, run
<1> QED BY <1>4, <1>5, <1>6, Zenon DEF Inv

-----------------------------------------------------------------------------
(* The end of Run.                                                          *)

\* Opening the listeners concerns no runtime.
LEMMA ListenInv == ASSUME Inv, Listen PROVE Inv'
<1>1. /\ UNCHANGED <<runtimes, reloadMu, task, overdue, closing, overlap>>
      /\ phase = "listening" /\ phase' \in {"listening", "failed", "serving"}
  BY Zenon DEF Listen
<1>2. turn' \in 0 .. Len(Listeners)
  BY DEF Listen, Inv, TypeOK, Listeners
<1>3. TypeOK'
  BY <1>1, <1>2, Zenon DEF Inv, TypeOK, runtimes
<1>4. Mutex' /\ Fresh' /\ Replaced' /\ Usable' /\ Accounted' /\ Quiet'
  BY <1>1, Zenon DEF Inv, Mutex, Fresh, Replaced, Usable, Accounted, Quiet, Early, Whole, At, Using, runtimes
<1>5. Orderly'
  BY <1>1, Zenon DEF Inv, Orderly, At
<1> QED BY <1>3, <1>4, <1>5, Zenon DEF Inv

\* Run is told to stop; the time for it runs out.
LEMMA StopInv == ASSUME Inv, Stop \/ Deadline PROVE Inv'
<1>1. /\ UNCHANGED <<runtimes, reloadMu, task, closing, overlap>>
      /\ phase \in {"serving", "draining"} /\ phase' = "draining"
      /\ \/ phase = "serving" /\ turn' = 1 /\ overdue' = overdue
         \/ phase = "draining" /\ turn' = turn /\ overdue' = TRUE
  BY Zenon DEF Stop, Deadline
<1>2. TypeOK'
  <2>1. turn' \in 0 .. Len(Listeners)
    BY <1>1 DEF Inv, TypeOK, Listeners
  <2>2. overdue' \in BOOLEAN
    BY <1>1, Zenon DEF Inv, TypeOK
  <2> QED BY <1>1, <2>1, <2>2, Zenon DEF Inv, TypeOK, runtimes
<1>3. Mutex' /\ Fresh' /\ Replaced' /\ Usable' /\ Accounted' /\ Quiet'
  BY <1>1, Zenon DEF Inv, Mutex, Fresh, Replaced, Usable, Accounted, Quiet, Early, Whole, At, Using, runtimes
<1>4. Orderly'
  BY <1>1 DEF Inv, Orderly, At
<1> QED BY <1>2, <1>3, <1>4, Zenon DEF Inv

\* A listener is left behind only when it has no request or it is too late.
LEMMA DrainInv == ASSUME Inv, Drain PROVE Inv'
<1>1. /\ UNCHANGED <<runtimes, reloadMu, task, overdue, closing, overlap>>
      /\ phase = "draining" /\ turn \in 0 .. 3
      /\ \/ turn < 3 /\ turn' = turn + 1 /\ phase' = phase
         \/ turn >= 3 /\ turn' = turn /\ phase' = "swap"
  BY DEF Drain, Inv, TypeOK, Listeners
<1>2. ~overdue => \A q \in Request : task[q].on = turn => task[q].pc \in {"idle", "upgraded", "panicked"}
  BY Zenon DEF Drain, Drained, Active
<1>3. TypeOK'
  BY <1>1 DEF Inv, TypeOK, runtimes, Listeners
<1>4. Mutex' /\ Fresh' /\ Replaced' /\ Usable' /\ Accounted' /\ Quiet'
  BY <1>1, Zenon DEF Inv, Mutex, Fresh, Replaced, Usable, Accounted, Quiet, Early, Whole, At, Using, runtimes
<1>5. Orderly'
  BY <1>1, <1>2 DEF Inv, Orderly, At
<1> QED BY <1>3, <1>4, <1>5, Zenon DEF Inv

\* closeRuntimes loses no runtime.
LEMMA CloseInv == ASSUME Inv, TakeCurrent \/ TakeRetired \/ CloseEach PROVE Inv'
<1>1. CASE TakeCurrent
  <2>1. /\ phase = "swap" /\ phase' = "take" /\ current' = None /\ closing' = {current} \ {None}
        /\ overlap' = (overlap \/ reloadMu # None)
        /\ UNCHANGED <<retired, closed, builds, reloadMu, task, turn, overdue>> /\ closing = {}
    BY <1>1, Zenon DEF TakeCurrent, Inv, Usable, Early
  <2>2. TypeOK'
    BY <2>1, Zenon DEF Inv, TypeOK
  <2>3. Fresh'
    BY <2>1, AppConstants DEF Inv, TypeOK, Fresh, At, Using
  <2>4. Usable'
    <3>1. None \notin closed
      <4>1. closed \subseteq 1 .. builds
        BY Zenon DEF Inv, TypeOK
      <4>2. None \notin 1 .. builds
        BY AppConstants
      <4> QED BY <4>1, <4>2, Zenon
    <3> QED BY <2>1, <3>1, Zenon DEF Inv, Usable, Early, Whole, Using
  <2>5. Mutex' /\ Replaced' /\ Orderly' /\ Accounted' /\ Quiet'
    BY <2>1, Zenon DEF Inv, Mutex, Replaced, Orderly, Accounted, Quiet, Early, At
  <2> QED BY <2>2, <2>3, <2>4, <2>5, Zenon DEF Inv
<1>2. CASE TakeRetired
  <2>1. /\ phase = "take" /\ phase' = "close" /\ closing' = closing \cup retired /\ retired' = {}
        /\ UNCHANGED <<current, closed, builds, reloadMu, task, turn, overdue, overlap>>
    BY <1>2, Zenon DEF TakeRetired
  <2>2. TypeOK'
    BY <2>1, Zenon DEF Inv, TypeOK
  <2>3. Mutex' /\ Fresh' /\ Replaced' /\ Usable' /\ Orderly' /\ Accounted' /\ Quiet'
    BY <2>1, Zenon DEF Inv, Mutex, Fresh, Replaced, Usable, Orderly, Accounted, Quiet, Early, Whole, At, Using
  <2> QED BY <2>2, <2>3, Zenon DEF Inv
<1>3. CASE CloseEach
  <2>1. /\ phase = "close"
        /\ UNCHANGED <<current, retired, builds, reloadMu, task, turn, overdue, overlap>>
    BY <1>3, Zenon DEF CloseEach
  <2>2. CASE closing = {} /\ phase' = "stopped" /\ UNCHANGED <<closed, closing>>
    <3>1. TypeOK'
      BY <2>1, <2>2, Zenon DEF Inv, TypeOK
    <3>2. Mutex' /\ Fresh' /\ Replaced' /\ Usable' /\ Orderly' /\ Accounted' /\ Quiet'
      BY <2>1, <2>2, Zenon DEF Inv, Mutex, Fresh, Replaced, Usable, Orderly, Accounted, Quiet, Early, Whole, At, Using
    <3> QED BY <3>1, <3>2, Zenon DEF Inv
  <2>3. ASSUME NEW r \in closing, closed' = closed \cup {r}, closing' = closing \ {r}, UNCHANGED phase
        PROVE  Inv'
    <3>1. TypeOK'
      BY <2>1, <2>3, Zenon DEF Inv, TypeOK
    <3>2. Fresh'
      BY <2>1, <2>3, Zenon DEF Inv, Fresh, At, Using
    <3>3. Accounted'
      BY <2>1, <2>3, Zenon DEF Inv, Accounted
    <3>4. Mutex' /\ Replaced' /\ Usable' /\ Orderly' /\ Quiet'
      BY <2>1, <2>3, Zenon DEF Inv, Mutex, Replaced, Usable, Orderly, Quiet, Early, Whole, At, Using
    <3> QED BY <3>1, <3>2, <3>3, <3>4, Zenon DEF Inv
  <2> QED BY <1>3, <2>2, <2>3, Zenon DEF CloseEach
<1> QED BY <1>1, <1>2, <1>3, Zenon

-----------------------------------------------------------------------------
(* The theorems.                                                            *)

\* The first runtime is current.
LEMMA InitInv == Init => Inv
<1> SUFFICES ASSUME Init PROVE Inv
  BY Zenon
<1>1. \A p \in Proc : task[p].pc = "idle"
  BY Fields DEF Init, Idle
<1>2. TypeOK
  <2>1. Idle \in [pc : Stage, on : 0 .. Len(Listeners), runtime : 1 .. builds \cup {None}]
    BY DEF Idle, Task, Stage, Listeners
  <2>2. builds \in 1 .. MaxBuilds /\ current \in 1 .. builds /\ turn \in 0 .. Len(Listeners)
    BY AppConstants DEF Init, Listeners
  <2>3. task \in [Proc -> [pc : Stage, on : 0 .. Len(Listeners), runtime : 1 .. builds \cup {None}]]
    BY <2>1, Zenon DEF Init
  <2>4. overdue \in BOOLEAN /\ overlap \in BOOLEAN
    BY Zenon DEF Init
  <2> QED BY <2>2, <2>3, <2>4, Zenon DEF Init, TypeOK
<1>3. Request \subseteq Proc
  BY Zenon DEF Proc
<1>4. Mutex /\ Fresh /\ Replaced /\ Orderly
  BY <1>1, <1>3, Zenon DEF Mutex, Fresh, Replaced, Orderly, At, Using, Holding
<1>5. Usable /\ Accounted /\ Quiet
  BY <1>1, <1>3, AppConstants DEF Init, Usable, Accounted, Quiet, Early, Whole, At, Using
<1> QED BY <1>2, <1>4, <1>5, Zenon DEF Inv

\* Every step keeps the invariant.
LEMMA NextInv == Inv /\ [Next]_vars => Inv'
<1> SUFFICES ASSUME Inv, [Next]_vars PROVE Inv'
  BY Zenon
<1>1. ASSUME NEW p \in Request, Handle(p) \/ \E l \in 1 .. Len(Listeners) : Begin(p, l) PROVE Inv'
  BY <1>1, HandleInv, Zenon
<1>2. ASSUME NEW p \in Proc, Reload(p), phase \notin {"failed", "stopped"} PROVE Inv'
  BY <1>2, LockInv, BuildInv, CompareInv, SwapInv, RetireInv, ReleaseInv, Zenon DEF Reload
<1>3. CASE HandleHup
  BY <1>3, HupInv, Zenon
<1>4. CASE Listen \/ Stop \/ Shutdown
  BY <1>4, ListenInv, StopInv, DrainInv, CloseInv, Zenon DEF Shutdown
<1>5. CASE UNCHANGED vars
  BY <1>5 DEF vars, Inv, TypeOK, Mutex, Fresh, Replaced, Usable, Orderly, Accounted, Quiet, Early, Whole, At, Using
<1> QED BY <1>1, <1>2, <1>3, <1>4, <1>5, Zenon DEF Next

\* The invariant holds in every reachable state.
THEOREM AlwaysInv == Spec => []Inv
BY InitInv, NextInv, PTL DEF Spec

\* For any number of requests and reloads, a captured runtime stays open and the
\* admin handlers find a runtime, until the time for the shutdown is over; that
\* of an upgraded request, until closeRuntimes closes what it has collected
\* (publicHandler, adminHandler, closeRuntimes).
THEOREM CapturedStaysOpen == Spec => []RuntimeStaysUsable
<1>1. Inv => RuntimeStaysUsable
  <2> SUFFICES ASSUME Inv, NEW p \in Request
               PROVE  /\ ~overdue => ~At(p, "panicked") /\ (At(p, "serving") => task[p].runtime \notin closed)
                      /\ At(p, "upgraded") /\ Whole => task[p].runtime \notin closed
    BY Zenon DEF RuntimeStaysUsable, Whole
  <2>1. ~overdue => ~At(p, "panicked") /\ (At(p, "serving") => Whole)
    BY Zenon DEF Inv, Orderly, At, Whole
  <2>2. Using(p) /\ Whole => task[p].runtime \notin closed
    BY Zenon DEF Inv, Usable
  <2> QED BY <2>1, <2>2, Zenon DEF Using, At
<1> QED BY <1>1, AlwaysInv, PTL

\* For any number of reloads, no runtime is lost sight of, also when a reload and
\* closeRuntimes overlap, and when Run returns from serving without such an
\* overlap every runtime is closed (Reload, closeRuntimes).
THEOREM NoneLeaks == Spec => []AllClosed
<1>1. Inv => AllClosed
  <2> SUFFICES ASSUME Inv PROVE AllClosed
    BY Zenon
  <2>1. 1 .. builds \subseteq closed \cup closing \cup retired \cup {current} \cup Held
    BY Zenon DEF Inv, Accounted, Held
  <2>2. ASSUME phase = "stopped", ~overlap PROVE closed = 1 .. builds
    <3>1. reloadMu = None /\ current = None /\ retired = {} /\ closing = {}
      BY <2>2, Zenon DEF Inv, Quiet, Early
    <3>2. \A p \in Proc : task[p].pc \notin Holding
      BY <3>1, AppConstants, Zenon DEF Inv, Mutex, Proc
    <3>3. \A r \in 1 .. builds : r # None
      BY AppConstants DEF Inv, TypeOK
    <3>4. 1 .. builds \subseteq closed
      BY <3>1, <3>2, <3>3, Zenon DEF Inv, Accounted, Holding
    <3> QED BY <3>4, Zenon DEF Inv, TypeOK
  <2> QED BY <2>1, <2>2, Zenon DEF AllClosed
<1> QED BY <1>1, AlwaysInv, PTL

\* For any number of concurrent reloads, a runtime only gives way to one that was
\* built later: reloadMu orders the builds and their publication (Reload).
THEOREM InOrder == Spec => NewestWins
<1>1. Inv /\ [Next]_vars =>
        [current' # current /\ current # None /\ current' # None => current' > current]_vars
  <2> SUFFICES ASSUME Inv, Next, current' # current, current # None, current' # None
               PROVE  current' > current
    BY Zenon DEF vars
  <2>1. ASSUME NEW p \in Proc, Swap(p) PROVE current' > current
    <3>1. current' = builds /\ current < builds
      BY <2>1, Zenon DEF Swap, At, Using, Inv, Fresh
    <3>2. builds \in Nat /\ current \in Nat
      BY AppConstants DEF Inv, TypeOK
    <3> QED BY <3>1, <3>2, Zenon
  <2>2. ~TakeCurrent
    BY Zenon DEF TakeCurrent
  <2> QED
    BY <2>1, <2>2, Zenon DEF Next, Handle, Begin, Capture, Upgrade, Finish, Authorize, Respond, Reload, HandleHup, Lock,
                      Build, Compare, Retire, Release, Listen, Stop, Shutdown, Deadline, Drain, TakeRetired,
                      CloseEach, runtimes
<1> QED BY <1>1, AlwaysInv, PTL DEF Spec, NewestWins
=============================================================================
