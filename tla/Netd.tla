------------------------------- MODULE Netd -------------------------------
(***************************************************************************)
(* cherrywaf-netd: the privileged helper that installs a Netplan file,     *)
(* and the confirm-or-roll-back protocol around it                         *)
(* (cmd/cherrywaf-netd/main.go).                                           *)
(*                                                                         *)
(* Two kinds of process run the code.  Daemon is the socket-activated      *)
(* server; daemon.mu serialises its handlers, so it has one operation in   *)
(* progress at a time.  For every token t, process t is the transient      *)
(* systemd service `cherrywaf-netd rollback --token t` that the rollback   *)
(* timer starts: a process of its own, with a daemon struct and a mutex of *)
(* its own, so nothing serialises it against Daemon.                       *)
(***************************************************************************)
EXTENDS Naturals, FiniteSets

CONSTANTS Plan,     \* Netplan files that apply can render
          Token,    \* change tokens; their number bounds the applies
          Daemon,   \* the serving process
          NoFile,   \* netplan when the file does not exist
          NoTrial,  \* the state of a trial when there is none
          Faults,   \* what may go wrong, a subset of FaultKind
          MaxBoots, \* reboots in a run
          Overlap   \* may an operator's request and the timer's rollback
                    \* of the same change overlap?

\* "write": a file write or removal; "generate", "schedule", "apply": the
\* commands run on a candidate; "recover": the same netplan commands run on a
\* restored file; "stop": systemctl stop.
FaultKind == {"write", "generate", "schedule", "apply", "recover", "stop", "crash", "reboot"}

ASSUME NetdConstants ==
    /\ Daemon \notin Token
    /\ NoFile \notin Plan
    /\ NoTrial \notin Plan \cup {NoFile}
    /\ Faults \subseteq FaultKind
    /\ MaxBoots \in Nat
    /\ Overlap \in BOOLEAN

VARIABLES
    netplan,    \* content of the Netplan file
    live,       \* the configuration the interfaces run with
    pending,    \* tokens t with dataDir/t.json on disk
    backups,    \* tokens t with backups/t.yaml or backups/t.absent on disk
    saved,      \* what that backup holds: netplan when apply read it
    timers,     \* armed transient timers
    pc,         \* next step of each process
    op,         \* the handler Daemon runs
    cur,        \* the token it runs it for
    cand,       \* the plan it applies
    used,       \* tokens drawn so far
    known,      \* tokens a client can name: t.json was once listed by status
    confirmed,  \* tokens whose confirm returned success
    boots       \* reboots so far

files == <<netplan, pending, backups, saved>>
daemonVars == <<op, cur, cand, used>>
history == <<known, confirmed, boots>>
vars == <<netplan, live, pending, backups, saved, timers, pc, op, cur, cand,
          used, known, confirmed, boots>>

FileState == Plan \cup {NoFile}
Process == Token \cup {Daemon}

\* restoreFiles is called from three places; it reads the backup, then writes
\* the Netplan file, then its caller goes on.
RestoreCall == {"undo", "discard", "restore"}
WriteBack == [undo |-> "undoWrite", discard |-> "discardWrite", restore |-> "restoreWrite"]
AfterRestore == [undoWrite |-> "idle", discardWrite |-> "clean1", restoreWrite |-> "regenerate"]

RollbackStep == {"idle", "restore", "restoreWrite", "regenerate", "reapply", "clean1", "clean2"}
Step == RollbackStep \cup
        {"backup", "install", "record", "generate", "schedule", "activate",
         "stopTimer", "stopService", "undo", "undoWrite", "discard", "discardWrite"}

Of(p) == IF p = Daemon THEN cur ELSE p

Goto(p, step) == pc' = [pc EXCEPT ![p] = step]

Init ==
    /\ netplan \in FileState
    /\ live = netplan
    /\ pending = {}
    /\ backups = {}
    /\ saved = [t \in Token |-> NoFile]
    /\ timers = {}
    /\ pc = [p \in Process |-> "idle"]
    /\ op = "apply"
    /\ cur \in Token
    /\ cand \in Plan
    /\ used = {}
    /\ known = {}
    /\ confirmed = {}
    /\ boots = 0

----------------------------------------------------------------------------
\* apply: refused while a change is pending; draws a fresh token and reads the
\* current file.
ApplyBegin(t, plan) ==
    /\ pc[Daemon] = "idle"
    /\ pending = {}
    /\ t \notin used
    /\ op' = "apply"
    /\ cur' = t
    /\ cand' = plan
    /\ used' = used \cup {t}
    /\ saved' = [saved EXCEPT ![t] = netplan]
    /\ Goto(Daemon, "backup")
    /\ UNCHANGED <<netplan, live, pending, backups, timers, history>>

\* writes backups/t.yaml or backups/t.absent
WriteBackup ==
    /\ pc[Daemon] = "backup"
    /\ \/ backups' = backups \cup {cur} /\ Goto(Daemon, "install")
       \/ "write" \in Faults /\ UNCHANGED backups /\ Goto(Daemon, "idle")
    /\ UNCHANGED <<netplan, live, pending, saved, timers, daemonVars, history>>

\* writes the candidate; on an error cleanupChange drops the backup
Install ==
    /\ pc[Daemon] = "install"
    /\ \/ netplan' = cand /\ Goto(Daemon, "record")
       \/ "write" \in Faults /\ UNCHANGED netplan /\ Goto(Daemon, "clean1")
    /\ UNCHANGED <<live, pending, backups, saved, timers, daemonVars, history>>

\* Mutant: apply goes on without writing t.json.
RecordNothing ==
    /\ pc[Daemon] = "record"
    /\ Goto(Daemon, "generate")
    /\ UNCHANGED <<files, live, timers, daemonVars, history>>

\* writes t.json, which status lists from now on; on an error the file is
\* restored and the backup stays behind
Record ==
    /\ pc[Daemon] = "record"
    /\ \/ /\ pending' = pending \cup {cur}
          /\ known' = known \cup {cur}
          /\ Goto(Daemon, "generate")
       \/ /\ "write" \in Faults
          /\ Goto(Daemon, "undo")
          /\ UNCHANGED <<pending, known>>
    /\ UNCHANGED <<netplan, live, backups, saved, timers, daemonVars, confirmed, boots>>

\* `netplan generate`, a validation that leaves the interfaces alone
Generate ==
    /\ pc[Daemon] = "generate"
    /\ \/ Goto(Daemon, "schedule")
       \/ "generate" \in Faults /\ Goto(Daemon, "discard")
    /\ UNCHANGED <<files, live, timers, daemonVars, history>>

\* Mutant: the rollback timer is not armed.
ScheduleNothing ==
    /\ pc[Daemon] = "schedule"
    /\ Goto(Daemon, "activate")
    /\ UNCHANGED <<files, live, timers, daemonVars, history>>

\* `systemd-run --on-active 60s`; a call that fails or times out may still
\* have armed the timer
Schedule ==
    /\ pc[Daemon] = "schedule"
    /\ \/ timers' = timers \cup {cur} /\ Goto(Daemon, "activate")
       \/ /\ "schedule" \in Faults
          /\ timers' \in {timers, timers \cup {cur}}
          /\ Goto(Daemon, "discard")
    /\ UNCHANGED <<files, live, daemonVars, history>>

\* `netplan apply`; the handler returns the token to the client.  A call that
\* fails may have changed the interfaces.
Activate ==
    /\ pc[Daemon] = "activate"
    /\ \/ live' = netplan /\ Goto(Daemon, "idle")
       \/ /\ "apply" \in Faults
          /\ live' \in {live, netplan}
          /\ Goto(Daemon, "stopTimer")
    /\ UNCHANGED <<files, timers, daemonVars, history>>

\* cancelRollbackTimer ignores the outcome of both systemctl calls
StopTimer ==
    /\ pc[Daemon] = "stopTimer"
    /\ \/ timers' = timers \ {cur}
       \/ "stop" \in Faults /\ UNCHANGED timers
    /\ Goto(Daemon, "stopService")
    /\ UNCHANGED <<files, live, daemonVars, history>>

\* Mutant: cancelRollbackTimer stops the timer but not the service.
LeaveService ==
    /\ pc[Daemon] = "stopService"
    /\ Goto(Daemon, IF op = "confirm" THEN "clean1" ELSE "restore")
    /\ UNCHANGED <<files, live, timers, daemonVars, history>>

\* stopping the service kills the rollback process wherever it is
StopService ==
    LET after == IF op = "confirm" THEN "clean1" ELSE "restore"
    IN  /\ pc[Daemon] = "stopService"
        /\ \/ pc' = [pc EXCEPT ![cur] = "idle", ![Daemon] = after]
           \/ "stop" \in Faults /\ Goto(Daemon, after)
        /\ UNCHANGED <<files, live, timers, daemonVars, history>>

----------------------------------------------------------------------------
\* restoreFiles: the read of the backup
ReadBackup(p) ==
    /\ pc[p] \in RestoreCall
    /\ Goto(p, IF Of(p) \in backups THEN WriteBack[pc[p]] ELSE "idle")
    /\ UNCHANGED <<files, live, timers, daemonVars, history>>

\* restoreFiles: the write (or removal) of the Netplan file
RestoreFile(p) ==
    /\ pc[p] \in DOMAIN AfterRestore
    /\ \/ netplan' = saved[Of(p)] /\ Goto(p, AfterRestore[pc[p]])
       \/ "write" \in Faults /\ UNCHANGED netplan /\ Goto(p, "idle")
    /\ UNCHANGED <<live, pending, backups, saved, timers, daemonVars, history>>

\* Mutant: a rollback that forgets `netplan apply`.
RegenerateOnly(p) ==
    /\ pc[p] = "regenerate"
    /\ Goto(p, "clean1")
    /\ UNCHANGED <<files, live, timers, daemonVars, history>>

\* rollback and recoverAppliedChange: `netplan generate` on the restored file
Regenerate(p) ==
    /\ pc[p] = "regenerate"
    /\ \/ Goto(p, "reapply")
       \/ "recover" \in Faults /\ Goto(p, "idle")
    /\ UNCHANGED <<files, live, timers, daemonVars, history>>

\* ... and `netplan apply`
Reapply(p) ==
    /\ pc[p] = "reapply"
    /\ \/ live' = netplan /\ Goto(p, "clean1")
       \/ /\ "recover" \in Faults
          /\ live' \in {live, netplan}
          /\ Goto(p, "idle")
    /\ UNCHANGED <<files, timers, daemonVars, history>>

\* Mutant: cleanupChange removes the backup before t.json.
RemoveBackupFirst(p) ==
    /\ pc[p] = "clean1"
    /\ backups' = backups \ {Of(p)}
    /\ Goto(p, "clean2")
    /\ UNCHANGED <<netplan, live, pending, saved, timers, daemonVars, history>>

\* cleanupChange removes t.json first ...
RemovePending(p) ==
    /\ pc[p] = "clean1"
    /\ \/ pending' = pending \ {Of(p)} /\ Goto(p, "clean2")
       \/ "write" \in Faults /\ UNCHANGED pending /\ Goto(p, "idle")
    /\ UNCHANGED <<netplan, live, backups, saved, timers, daemonVars, history>>

\* Mutant: cleanupChange leaves the backup behind.
LeaveBackup(p) ==
    /\ pc[p] = "clean2"
    /\ Goto(p, "idle")
    /\ UNCHANGED <<files, live, timers, daemonVars, history>>

\* ... and the backup last; the handler returns
RemoveBackup(p) ==
    /\ pc[p] = "clean2"
    /\ \/ /\ backups' = backups \ {Of(p)}
          /\ confirmed' = IF p = Daemon /\ op = "confirm"
                          THEN confirmed \cup {cur} ELSE confirmed
       \/ "write" \in Faults /\ UNCHANGED <<backups, confirmed>>
    /\ Goto(p, "idle")
    /\ UNCHANGED <<netplan, live, pending, saved, timers, daemonVars, known, boots>>

----------------------------------------------------------------------------
\* confirm: only t.json is checked, not ConfirmBy
ConfirmBegin(t) ==
    /\ pc[Daemon] = "idle"
    /\ t \in known \cap pending
    /\ Overlap \/ pc[t] = "idle"
    /\ op' = "confirm"
    /\ cur' = t
    /\ Goto(Daemon, "stopTimer")
    /\ UNCHANGED <<files, live, timers, cand, used, history>>

\* rollback on request: t.json is not consulted, only the backup
RollbackBegin(t) ==
    /\ pc[Daemon] = "idle"
    /\ t \in known
    /\ Overlap \/ pc[t] = "idle"
    /\ op' = "rollback"
    /\ cur' = t
    /\ Goto(Daemon, "restore")
    /\ UNCHANGED <<files, live, timers, cand, used, history>>

\* The timer elapses and systemd starts the rollback process.  `netplan
\* apply` is killed after 30s and `systemctl stop` after 10s, the timer runs
\* 60s, so it cannot elapse while apply waits for the first two of these.
Fire(t) ==
    /\ t \in timers
    /\ pc[t] = "idle"
    /\ ~ (cur = t /\ op = "apply" /\ pc[Daemon] \in {"activate", "stopTimer"})
    /\ Overlap \/ cur # t \/ pc[Daemon] = "idle"
    /\ timers' = timers \ {t}
    /\ Goto(t, "restore")
    /\ UNCHANGED <<files, live, daemonVars, history>>

\* the daemon dies between two steps and systemd restarts it
Crash ==
    /\ "crash" \in Faults
    /\ pc[Daemon] # "idle"
    /\ Goto(Daemon, "idle")
    /\ UNCHANGED <<files, live, timers, daemonVars, history>>

\* transient timers do not survive a boot, which applies the file it finds
Reboot ==
    /\ "reboot" \in Faults
    /\ boots < MaxBoots
    /\ boots' = boots + 1
    /\ pc' = [p \in Process |-> "idle"]
    /\ timers' = {}
    /\ live' = netplan
    /\ UNCHANGED <<files, daemonVars, known, confirmed>>

ApplyStep == \/ WriteBackup \/ Install \/ Record \/ Generate \/ Schedule \/ Activate
CancelStep == StopTimer \/ StopService
RestoreStep(p) == \/ ReadBackup(p) \/ RestoreFile(p) \/ Regenerate(p) \/ Reapply(p)
                  \/ RemovePending(p) \/ RemoveBackup(p)

Next ==
    \/ \E t \in Token, plan \in Plan : ApplyBegin(t, plan)
    \/ \E t \in Token : ConfirmBegin(t) \/ RollbackBegin(t) \/ Fire(t)
    \/ ApplyStep
    \/ CancelStep
    \/ \E p \in Process : RestoreStep(p)
    \/ Crash
    \/ Reboot

Spec == Init /\ [][Next]_vars

\* A running process takes its next step, and an armed timer elapses; nothing
\* obliges an operator to send a request.
Fairness ==
    /\ WF_vars(ApplyStep \/ CancelStep \/ RestoreStep(Daemon))
    /\ \A t \in Token : WF_vars(RestoreStep(t)) /\ WF_vars(Fire(t))

FairSpec == Spec /\ Fairness

----------------------------------------------------------------------------
TypeOK ==
    /\ netplan \in FileState
    /\ live \in FileState
    /\ pending \subseteq known
    /\ known \subseteq used
    /\ used \subseteq Token
    /\ backups \subseteq used
    /\ saved \in [Token -> FileState]
    /\ timers \subseteq used
    /\ pc \in [Process -> Step]
    /\ \A t \in Token : pc[t] \in RollbackStep
    /\ op \in {"apply", "confirm", "rollback"}
    /\ cur \in Token
    /\ cand \in Plan
    /\ confirmed \subseteq known
    /\ boots \in 0..MaxBoots

\* A change that status lists as pending can be rolled back: its backup is on
\* disk, whatever failed or died on the way (apply writes the backup first,
\* cleanupChange removes it last).
PendingHasBackup == pending \subseteq backups

\* apply never opens a second change while one awaits its confirmation.
AtMostOnePending == \A s, t \in pending : s = t

\* Once confirm(t) has returned success nothing can undo the change any more:
\* no timer, no rollback process in flight, no backup an old token could
\* still restore.  It needs systemctl stop to work, since confirm ignores its
\* errors.
ConfirmedIsFinal ==
    "stop" \notin Faults =>
        \A t \in confirmed : /\ t \notin pending \cup backups \cup timers
                            /\ pc[t] = "idle"

\* With no operation in progress and no change pending, the file and the
\* interfaces agree, so a reboot changes nothing.
SettledAgree ==
    (pending = {} /\ \A p \in Process : pc[p] = "idle") => live = netplan

\* A rollback never overwrites the file of another change that is pending.
RollbackTouchesOwnChange ==
    [][\A p \in Process :
          (RestoreFile(p) /\ netplan' # netplan) => pending \subseteq {Of(p)}]_vars

\* The state of the trial: the pending change is on trial while the
\* interfaces run with something other than what its backup holds.
OnTrial == {saved[t] : t \in {s \in pending : saved[s] # live}}
Trial == IF OnTrial = {} THEN NoTrial ELSE CHOOSE c \in OnTrial : TRUE

Change == INSTANCE NetworkChange WITH
              Configuration <- FileState, trial <- Trial

\* apply, confirm, rollback and the timer together implement the trial: the
\* interfaces only ever move to a candidate or back to what ran before it.
ImplementsChange == Change!Spec

\* "The administrator must reconnect and confirm the change within 60
\* seconds. Otherwise the previous Netplan file is restored and applied
\* automatically" (docs/CONTROL_CENTER.md): no change stays pending.
Settles == \A t \in Token : t \in pending ~> t \notin pending

\* What TestDryRunNetworkConfirmKeepsCandidate asserts: when confirm returns
\* success the candidate is in the Netplan file.
ConfirmKeepsCandidate ==
    [][confirmed' # confirmed => netplan' = cand]_vars
=============================================================================
