---------------------------- MODULE NetdProofs ----------------------------
(***************************************************************************)
(* Safety of the network helper for any sets of plans and tokens and any   *)
(* combination of faults: a pending change can always be rolled back, at   *)
(* most one change is pending, and a confirmed change is final.  When      *)
(* only commands fail, the helper implements NetworkChange (below).        *)
(***************************************************************************)
EXTENDS Netd, TLAPS

\* A token that status never listed has no timer and no rollback process.
Unlisted == \A t \in Token \ known : t \notin timers /\ pc[t] = "idle"

\* Until apply has recorded its change, nothing is pending and nobody can
\* name the token.
Preparing ==
    pc[Daemon] \in {"backup", "install", "record"} =>
        /\ op = "apply"
        /\ pending = {}
        /\ cur \in used \ known
        /\ pc[Daemon] # "backup" => cur \in backups

\* Between t.json and the timer only the daemon works on the change.
Recorded ==
    pc[Daemon] \in {"generate", "schedule"} =>
        /\ op = "apply"
        /\ cur \in pending
        /\ cur \notin timers
        /\ pc[cur] = "idle"

Listed == pc[Daemon] \in {"activate", "stopTimer", "stopService"} => cur \in known

\* cleanupChange reaches the backup only after t.json is gone.
CleanOrder == \A p \in Process : pc[p] = "clean2" => Of(p) \notin pending

\* confirm has silenced timer and service before it removes anything.
Silenced ==
    op = "confirm" =>
        /\ pc[Daemon] \in {"idle", "stopTimer", "stopService", "clean1", "clean2"}
        /\ pc[Daemon] # "idle" => cur \in known
        /\ "stop" \notin Faults =>
              /\ pc[Daemon] \in {"stopService", "clean1", "clean2"} => cur \notin timers
              /\ pc[Daemon] \in {"clean1", "clean2"} => pc[cur] = "idle"

IInv == /\ TypeOK /\ Unlisted /\ Preparing /\ Recorded /\ Listed /\ CleanOrder
        /\ Silenced /\ PendingHasBackup /\ AtMostOnePending /\ ConfirmedIsFinal

\* Nothing is pending at the start.
LEMMA InitEstablishes == Init => IInv
BY NetdConstants DEF Init, IInv, TypeOK, Unlisted, Preparing, Recorded, Listed, CleanOrder,
   Silenced, PendingHasBackup, AtMostOnePending, ConfirmedIsFinal, FileState,
   Process, Step, RollbackStep, Of

\* Every step keeps the types.
LEMMA TypePreserved == IInv /\ [Next]_vars => TypeOK'
<1> SUFFICES ASSUME TypeOK, Preparing, Recorded, Silenced, [Next]_vars PROVE TypeOK'
    BY Zenon DEF IInv
<1> USE NetdConstants DEF TypeOK, FileState, Process, Step, RollbackStep, Goto,
        files, daemonVars, history
<1>1. ASSUME NEW t \in Token, NEW plan \in Plan, ApplyBegin(t, plan) PROVE TypeOK'
    BY <1>1 DEF ApplyBegin
<1>2. ASSUME NEW t \in Token, ConfirmBegin(t) PROVE TypeOK'
    BY <1>2 DEF ConfirmBegin
<1>3. ASSUME NEW t \in Token, RollbackBegin(t) PROVE TypeOK'
    BY <1>3, Zenon DEF RollbackBegin
<1>4. ASSUME NEW t \in Token, Fire(t) PROVE TypeOK'
    BY <1>4, Zenon DEF Fire
<1>5. CASE ApplyStep
    <2>1. CASE WriteBackup BY <2>1 DEF WriteBackup, Preparing
    <2>2. CASE Install BY <2>2 DEF Install
    <2>3. CASE Record BY <2>3 DEF Record, Preparing
    <2>4. CASE Generate BY <2>4 DEF Generate
    <2>5. CASE Schedule BY <2>5 DEF Schedule, Recorded
    <2>6. CASE Activate BY <2>6 DEF Activate
    <2> QED BY <1>5, <2>1, <2>2, <2>3, <2>4, <2>5, <2>6, Zenon DEF ApplyStep
<1>6. CASE CancelStep
    BY <1>6 DEF CancelStep, StopTimer, StopService
<1>7. ASSUME NEW p \in Process, RestoreStep(p) PROVE TypeOK'
    <2>1. CASE ReadBackup(p) BY <2>1 DEF ReadBackup, RestoreCall, WriteBack
    <2>2. CASE RestoreFile(p) BY <2>2 DEF RestoreFile, AfterRestore, Of
    <2>3. CASE Regenerate(p) BY <2>3 DEF Regenerate
    <2>4. CASE Reapply(p) BY <2>4 DEF Reapply
    <2>5. CASE RemovePending(p) BY <2>5 DEF RemovePending
    <2>6. CASE RemoveBackup(p) BY <2>6 DEF RemoveBackup, Silenced
    <2> QED BY <1>7, <2>1, <2>2, <2>3, <2>4, <2>5, <2>6, Zenon DEF RestoreStep
<1>8. CASE Crash
    BY <1>8, Zenon DEF Crash
<1>9. CASE Reboot
    BY <1>9 DEF Reboot
<1>10. CASE UNCHANGED vars
    BY <1>10, Zenon DEF vars
<1> QED BY <1>1, <1>2, <1>3, <1>4, <1>5, <1>6, <1>7, <1>8, <1>9, <1>10, Zenon DEF Next

\* A rollback process works on its own token; the daemon on cur.
LEMMA InvPreserved == IInv /\ [Next]_vars => IInv'
<1> SUFFICES ASSUME IInv, [Next]_vars PROVE IInv'
    BY Zenon
<1>0. TypeOK'
    BY TypePreserved, Zenon
<1> USE NetdConstants, <1>0 DEF IInv, TypeOK, Unlisted, Preparing, Recorded, Listed,
        CleanOrder, Silenced, PendingHasBackup, AtMostOnePending, ConfirmedIsFinal,
        Process, Of, Goto, files, daemonVars, history
<1>1. ASSUME NEW t \in Token, NEW plan \in Plan, ApplyBegin(t, plan) PROVE IInv'
    BY <1>1 DEF ApplyBegin
<1>2. ASSUME NEW t \in Token, ConfirmBegin(t) PROVE IInv'
    BY <1>2 DEF ConfirmBegin
<1>3. ASSUME NEW t \in Token, RollbackBegin(t) PROVE IInv'
    BY <1>3 DEF RollbackBegin
<1>4. ASSUME NEW t \in Token, Fire(t) PROVE IInv'
    BY <1>4 DEF Fire
<1>5. CASE ApplyStep
    <2>1. CASE WriteBackup BY <2>1 DEF WriteBackup
    <2>2. CASE Install BY <2>2 DEF Install
    <2>3. CASE Record BY <2>3 DEF Record
    <2>4. CASE Generate BY <2>4 DEF Generate
    <2>5. CASE Schedule BY <2>5 DEF Schedule
    <2>6. CASE Activate BY <2>6 DEF Activate
    <2> QED BY <1>5, <2>1, <2>2, <2>3, <2>4, <2>5, <2>6, Zenon DEF ApplyStep
<1>6. CASE StopTimer
    BY <1>6, Zenon DEF StopTimer
<1>7. CASE StopService
    BY <1>7 DEF StopService
<1>8. ASSUME NEW p \in Process, RestoreStep(p) PROVE IInv'
    <2>1. CASE ReadBackup(p) BY <2>1 DEF ReadBackup, RestoreCall, WriteBack
    <2>2. CASE RestoreFile(p) BY <2>2 DEF RestoreFile, AfterRestore
    <2>3. CASE Regenerate(p) BY <2>3 DEF Regenerate
    <2>4. CASE Reapply(p) BY <2>4 DEF Reapply
    <2>5. CASE RemovePending(p) BY <2>5 DEF RemovePending
    <2>6. CASE RemoveBackup(p) BY <2>6 DEF RemoveBackup
    <2> QED BY <1>8, <2>1, <2>2, <2>3, <2>4, <2>5, <2>6, Zenon DEF RestoreStep
<1>9. CASE Crash
    BY <1>9, Zenon DEF Crash
<1>10. CASE Reboot
    BY <1>10, Zenon DEF Reboot
<1>11. CASE UNCHANGED vars
    BY <1>11, Zenon DEF vars
<1> QED BY <1>1, <1>2, <1>3, <1>4, <1>5, <1>6, <1>7, <1>8, <1>9, <1>10, <1>11, Zenon
        DEF Next, CancelStep

\* The invariant holds in every reachable state.
LEMMA Invariance == Spec => []IInv
BY InitEstablishes, InvPreserved, PTL DEF Spec

\* Whatever fails, dies or reboots while apply, confirm and rollbacks
\* interleave, a change that netd lists as pending still has the backup that
\* restoreFiles needs.
THEOREM PendingCanRollBack == Spec => []PendingHasBackup
<1>1. IInv => PendingHasBackup BY DEF IInv
<1> QED BY <1>1, Invariance, PTL

\* apply's check of pendingChanges holds up against timer rollbacks that run
\* without its mutex: never are two changes pending.
THEOREM OnePending == Spec => []AtMostOnePending
<1>1. IInv => AtMostOnePending BY DEF IInv
<1> QED BY <1>1, Invariance, PTL

\* After a successful confirm no timer, rollback process or backup of the
\* change is left, provided systemctl stop works.
THEOREM ConfirmFinal == Spec => []ConfirmedIsFinal
<1>1. IInv => ConfirmedIsFinal BY DEF IInv
<1> QED BY <1>1, Invariance, PTL

\* The state of the helper and its files stays well formed.
THEOREM TypeCorrect == Spec => []TypeOK
<1>1. IInv => TypeOK BY DEF IInv
<1> QED BY <1>1, Invariance, PTL

----------------------------------------------------------------------------
(***************************************************************************)
(* The trial.  It is kept when operators leave a change alone while its    *)
(* rollback runs and nothing but the commands fails: a crash, a reboot or  *)
(* a failed write leaves netd with a change it no longer knows about.      *)
(***************************************************************************)
Unhurried == ~Overlap /\ Faults \cap {"write", "crash", "reboot"} = {}

\* One process at a time works on a change.
Alone == \A t \in Token : pc[t] # "idle" => cur # t \/ pc[Daemon] = "idle"

\* A backup is on disk only for the pending change, or while apply or
\* cleanupChange is between two of its writes.
NoStrayBackup ==
    \A t \in backups : \/ t \in pending
                       \/ pc[t] = "clean2"
                       \/ cur = t /\ pc[Daemon] \in {"install", "record", "clean2"}

\* The steps that work on the files and the timer of a change.
Working == {"generate", "schedule", "activate", "stopTimer", "stopService", "discard",
            "discardWrite", "restoreWrite", "regenerate", "reapply", "clean1"}

\* Once past its first step a process works on the pending change.
WorkIsPending ==
    /\ \A p \in Process : pc[p] \in Working => Of(p) \in pending
    /\ pc[Daemon] \notin {"undo", "undoWrite"}

\* The inductive invariant behind RollbackTouchesOwnChange.
OwnInv == Alone /\ NoStrayBackup /\ WorkIsPending

\* Nobody works at the start.
LEMMA OwnInit == Init => OwnInv
BY DEF Init, OwnInv, Alone, NoStrayBackup, WorkIsPending, Working, Process

\* Every step keeps it.
LEMMA OwnPreserved == ASSUME Unhurried, IInv, OwnInv, [Next]_vars PROVE OwnInv'
<1>0. TypeOK' /\ TypeOK /\ Unlisted /\ Preparing /\ PendingHasBackup /\ AtMostOnePending
    BY TypePreserved, Zenon DEF IInv
<1> USE NetdConstants, <1>0 DEF Unhurried, TypeOK, OwnInv, Alone, NoStrayBackup,
        WorkIsPending, Working, Process, Of, Goto, files, daemonVars, history
<1>1. ASSUME NEW t \in Token, NEW plan \in Plan, ApplyBegin(t, plan) PROVE OwnInv'
    BY <1>1 DEF ApplyBegin, Unlisted
<1>2. ASSUME NEW t \in Token, ConfirmBegin(t) PROVE OwnInv'
    BY <1>2 DEF ConfirmBegin
<1>3. ASSUME NEW t \in Token, RollbackBegin(t) PROVE OwnInv'
    BY <1>3 DEF RollbackBegin
<1>4. ASSUME NEW t \in Token, Fire(t) PROVE OwnInv'
    BY <1>4 DEF Fire
<1>5. CASE ApplyStep
    <2>1. CASE WriteBackup BY <2>1 DEF WriteBackup
    <2>2. CASE Install BY <2>2 DEF Install
    <2>3. CASE Record BY <2>3, <1>0 DEF Record
    <2>4. CASE Generate BY <2>4 DEF Generate
    <2>5. CASE Schedule BY <2>5 DEF Schedule
    <2>6. CASE Activate BY <2>6 DEF Activate
    <2> QED BY <1>5, <2>1, <2>2, <2>3, <2>4, <2>5, <2>6, Zenon DEF ApplyStep
<1>6. CASE StopTimer
    BY <1>6 DEF StopTimer
<1>7. CASE StopService
    BY <1>7 DEF StopService
<1>8. ASSUME NEW p \in Process, RestoreStep(p) PROVE OwnInv'
    <2>1. CASE ReadBackup(p) BY <2>1 DEF ReadBackup, RestoreCall, WriteBack
    <2>2. CASE RestoreFile(p) BY <2>2 DEF RestoreFile, AfterRestore
    <2>3. CASE Regenerate(p) BY <2>3 DEF Regenerate
    <2>4. CASE Reapply(p) BY <2>4 DEF Reapply
    <2>5. CASE RemovePending(p) BY <2>5 DEF RemovePending
    <2>6. CASE RemoveBackup(p) BY <2>6 DEF RemoveBackup
    <2> QED BY <1>8, <2>1, <2>2, <2>3, <2>4, <2>5, <2>6, Zenon DEF RestoreStep
<1>9. CASE UNCHANGED vars
    BY <1>9, Zenon DEF vars
<1>10. ~Crash /\ ~Reboot
    BY DEF Crash, Reboot
<1> QED BY <1>1, <1>2, <1>3, <1>4, <1>5, <1>6, <1>7, <1>8, <1>9, <1>10, Zenon
        DEF Next, CancelStep

\* It holds in every reachable state.
LEMMA OwnInvariance == ASSUME Unhurried PROVE Spec => [](IInv /\ OwnInv)
<1>1. IInv /\ OwnInv /\ [Next]_vars => (IInv /\ OwnInv)'
    BY InvPreserved, OwnPreserved, Zenon
<1> QED BY InitEstablishes, OwnInit, <1>1, PTL DEF Spec

\* The change a process works on is the only pending one.
LEMMA WorksOnThePending ==
    ASSUME IInv, OwnInv, NEW p \in Process, pc[p] \in Working
    PROVE  /\ Of(p) \in Token
           /\ pending = {Of(p)}
           /\ \A q \in Process : pc[q] \in Working => q = p
<1>1. Of(p) \in pending /\ Of(p) \in Token
    BY Zenon DEF OwnInv, WorkIsPending, IInv, TypeOK, Process, Of
<1>2. pending = {Of(p)}
    BY <1>1, Zenon DEF IInv, AtMostOnePending
<1>3. ASSUME NEW q \in Process, pc[q] \in Working PROVE q = p
    <2>1. Of(q) = Of(p)
        BY <1>2, <1>3, Zenon DEF OwnInv, WorkIsPending
    <2> QED BY <1>3, <2>1, NetdConstants DEF OwnInv, Alone, Working, Process, Of
<1> QED BY <1>1, <1>2, <1>3, Zenon

\* restoreFiles, called for a stale token or by a late timer, leaves the file
\* of another pending change alone.
THEOREM RollbackOwnChange == ASSUME Unhurried PROVE Spec => RollbackTouchesOwnChange
<1>1. ASSUME IInv, OwnInv, NEW p \in Process, RestoreFile(p) PROVE pending \subseteq {Of(p)}
    <2>1. pc[p] \in Working
        BY <1>1 DEF RestoreFile, AfterRestore, OwnInv, WorkIsPending, Working, Process,
           IInv, TypeOK, RollbackStep
    <2> QED BY <1>1, <2>1, WorksOnThePending, Zenon
<1>2. IInv /\ OwnInv /\ [Next]_vars =>
        [\A p \in Process : (RestoreFile(p) /\ netplan' # netplan) => pending \subseteq {Of(p)}]_vars
    BY <1>1, Zenon
<1> QED BY <1>2, OwnInvariance, PTL DEF Spec, RollbackTouchesOwnChange

----------------------------------------------------------------------------
\* ... and when the recovery of a change does not fail either, the trial is
\* what NetworkChange promises.
Recovering == Unhurried /\ "recover" \notin Faults

\* The steps of an apply before `netplan apply` has run.
Trying == {"backup", "install", "record", "generate", "schedule", "activate",
           "discard", "discardWrite"}

\* Up to `netplan apply` the interfaces run with what apply saved.
SavedIsLive == pc[Daemon] \in Trying => op = "apply" /\ saved[cur] = live

\* The netplan commands of a rollback run on the restored file.
Restored == \A p \in Process : pc[p] \in {"regenerate", "reapply"} => netplan = saved[Of(p)]

\* p is changing the file or the interfaces.
Changing(p) ==
    \/ pc[p] \in {"generate", "schedule", "activate", "discard", "discardWrite", "restore",
                  "restoreWrite", "regenerate", "reapply"}
    \/ p = Daemon /\ op = "apply" /\ pc[p] \in {"stopTimer", "stopService"}

\* File and interfaces differ only while somebody works on the change.
Agreement ==
    \/ live = netplan
    \/ pc[Daemon] = "record"
    \/ \E p \in Process : Of(p) \in pending /\ Changing(p)

\* The inductive invariant behind SettledAgree and the refinement.
TrialInv == SavedIsLive /\ Restored /\ Agreement

\* The file and the interfaces agree at the start.
LEMMA TrialInit == Init => TrialInv
BY DEF Init, TrialInv, SavedIsLive, Restored, Agreement, Trying, Process

\* Every step keeps it.
LEMMA TrialPreserved ==
    ASSUME Recovering, IInv, OwnInv, TrialInv, [Next]_vars PROVE TrialInv'
<1>0. TypeOK' /\ TypeOK /\ Unlisted /\ Preparing /\ PendingHasBackup /\ AtMostOnePending
    BY TypePreserved, Zenon DEF IInv
<1>a. \A p, q \in Process : pc[p] \in Working /\ pc[q] \in Working => p = q
    BY WorksOnThePending, Zenon
<1> USE NetdConstants, <1>0, <1>a DEF Recovering, Unhurried, TypeOK, OwnInv, Alone,
        WorkIsPending, Working, Process, Of, Goto, files, daemonVars, history,
        TrialInv, SavedIsLive, Restored, Agreement, Trying, Changing
<1>1. ASSUME NEW t \in Token, NEW plan \in Plan, ApplyBegin(t, plan) PROVE TrialInv'
    BY <1>1 DEF ApplyBegin, Unlisted
<1>2. ASSUME NEW t \in Token, ConfirmBegin(t) PROVE TrialInv'
    BY <1>2 DEF ConfirmBegin
<1>3. ASSUME NEW t \in Token, RollbackBegin(t) PROVE TrialInv'
    BY <1>3 DEF RollbackBegin
<1>4. ASSUME NEW t \in Token, Fire(t) PROVE TrialInv'
    BY <1>4 DEF Fire
<1>5. CASE ApplyStep
    <2>1. CASE WriteBackup BY <2>1 DEF WriteBackup
    <2>2. CASE Install BY <2>2 DEF Install, Preparing
    <2>3. CASE Record BY <2>3 DEF Record
    <2>4. CASE Generate BY <2>4 DEF Generate
    <2>5. CASE Schedule BY <2>5 DEF Schedule
    <2>6. CASE Activate BY <2>6 DEF Activate
    <2> QED BY <1>5, <2>1, <2>2, <2>3, <2>4, <2>5, <2>6, Zenon DEF ApplyStep
<1>6. CASE StopTimer
    BY <1>6 DEF StopTimer
<1>7. CASE StopService
    BY <1>7 DEF StopService
<1>8. ASSUME NEW p \in Process, RestoreStep(p) PROVE TrialInv'
    <2>1. CASE ReadBackup(p) BY <2>1, SMTT(30) DEF ReadBackup, RestoreCall, WriteBack, PendingHasBackup
    <2>2. CASE RestoreFile(p)
        <3>1. /\ netplan' = saved[Of(p)]
              /\ UNCHANGED <<live, pending, saved, op, cur>>
              /\ \/ p = Daemon /\ pc[p] = "discardWrite" /\ pc' = [pc EXCEPT ![p] = "clean1"]
                 \/ pc[p] = "restoreWrite" /\ pc' = [pc EXCEPT ![p] = "regenerate"]
            BY <2>2, SMTT(30) DEF RestoreFile, AfterRestore, RollbackStep
        <3>2. SavedIsLive'
            BY <3>1
        <3>3. Restored'
            BY <3>1
        <3>4. Agreement'
            BY <3>1
        <3> QED BY <3>2, <3>3, <3>4
    <2>3. CASE Regenerate(p) BY <2>3 DEF Regenerate
    <2>4. CASE Reapply(p) BY <2>4 DEF Reapply, Preparing
    <2>5. CASE RemovePending(p) BY <2>5 DEF RemovePending, AtMostOnePending
    <2>6. CASE RemoveBackup(p) BY <2>6 DEF RemoveBackup
    <2> QED BY <1>8, <2>1, <2>2, <2>3, <2>4, <2>5, <2>6, Zenon DEF RestoreStep
<1>9. CASE UNCHANGED vars
    BY <1>9, Zenon DEF vars
<1>10. ~Crash /\ ~Reboot
    BY DEF Crash, Reboot
<1> QED BY <1>1, <1>2, <1>3, <1>4, <1>5, <1>6, <1>7, <1>8, <1>9, <1>10, Zenon
        DEF Next, CancelStep

\* It holds in every reachable state.
LEMMA TrialInvariance == ASSUME Recovering PROVE Spec => [](IInv /\ OwnInv /\ TrialInv)
<1>1. Unhurried
    BY Zenon DEF Recovering
<1>2. TrialInv /\ IInv /\ OwnInv /\ [Next]_vars => TrialInv'
    BY TrialPreserved, Zenon
<1> QED BY <1>1, <1>2, OwnInvariance, TrialInit, PTL DEF Spec

\* Whenever netd is at rest with nothing pending the file and the interfaces
\* agree, through failed applies, confirms and rollbacks.
THEOREM AgreeAtRest == ASSUME Recovering PROVE Spec => []SettledAgree
<1>1. IInv /\ OwnInv /\ TrialInv => SettledAgree
    BY DEF TrialInv, Agreement, SettledAgree, Changing, Process
<1> QED BY <1>1, TrialInvariance, PTL

----------------------------------------------------------------------------
\* The trial that a step leaves alone.
LEMMA SameTrial ==
    ASSUME UNCHANGED <<live, pending>>, \A t \in pending : saved'[t] = saved[t]
    PROVE  UNCHANGED <<live, Trial>>
<1>1. OnTrial' = OnTrial
    BY Zenon DEF OnTrial
<1>2. Trial' = Trial
    BY <1>1, SMT DEF Trial
<1> QED BY <1>2, Zenon

\* With one change pending its backup says what the trial returns to.
LEMMA TrialOfPending ==
    ASSUME NEW t \in Token, pending = {t}
    PROVE  Trial = IF saved[t] = live THEN NoTrial ELSE saved[t]
<1>1. OnTrial = IF saved[t] = live THEN {} ELSE {saved[t]}
    BY Zenon DEF OnTrial
<1> QED BY <1>1, Zenon DEF Trial

\* Without a pending change there is no trial.
LEMMA TrialOfNone == ASSUME pending = {} PROVE Trial = NoTrial
<1>1. OnTrial = {}
    BY Zenon DEF OnTrial
<1> QED BY <1>1, Zenon DEF Trial

\* Every step of netd is a step of the trial or leaves it alone.
LEMMA StepImplements ==
    ASSUME Recovering, IInv, OwnInv, TrialInv, IInv', [Next]_vars
    PROVE  [Change!Next]_<<live, Trial>>
<1>0. TypeOK /\ TypeOK'
    BY Zenon DEF IInv
<1>1. ASSUME UNCHANGED <<live, pending, saved>> PROVE [Change!Next]_<<live, Trial>>
    BY <1>1, SameTrial, Zenon
<1>2. ASSUME NEW t \in Token, NEW plan \in Plan, ApplyBegin(t, plan)
      PROVE  [Change!Next]_<<live, Trial>>
    BY <1>2, SameTrial, Zenon DEF ApplyBegin
<1>3. CASE Record
    <2>1. (pending = {} /\ pending' = {cur}) \/ UNCHANGED pending
        BY <1>0, <1>3, Zenon DEF Record, IInv, Preparing
    <2>2. saved[cur] = live /\ UNCHANGED <<live, saved, cur>>
        BY <1>3, Zenon DEF Record, TrialInv, SavedIsLive, Trying, daemonVars
    <2>3. CASE UNCHANGED pending
        BY <1>1, <2>2, <2>3, Zenon
    <2>4. CASE pending = {} /\ pending' = {cur}
        <3>1. OnTrial = {} /\ OnTrial' = {}
            BY <2>2, <2>4, Zenon DEF OnTrial
        <3> QED BY <2>2, <3>1, Zenon DEF Trial
    <2> QED BY <2>1, <2>3, <2>4, Zenon
<1>4. CASE Activate
    <2>1. /\ pending = {cur} /\ pending' = {cur} /\ cur \in Token
          /\ saved[cur] = live /\ UNCHANGED <<saved, cur>>
          /\ live' \in {live, netplan} /\ netplan \in FileState
        <3>1. pc[Daemon] \in Working /\ pc[Daemon] \in Trying /\ Daemon \in Process
            BY <1>4, Zenon DEF Activate, Working, Trying, Process
        <3>2. pending = {cur}
            BY <3>1, WorksOnThePending, Zenon DEF Of
        <3> QED BY <1>0, <1>4, <3>1, <3>2, Zenon
                DEF Activate, TypeOK, TrialInv, SavedIsLive, files, daemonVars
    <2>2. CASE live' = live
        BY <1>1, <2>1, <2>2, Zenon
    <2>3. CASE live' # live
        <3>1. Trial = NoTrial
            BY <2>1, TrialOfPending, Zenon
        <3>2. OnTrial' = {live}
            BY <2>1, <2>3, Zenon DEF OnTrial
        <3>3. Trial' = live
            BY <3>2, Zenon DEF Trial
        <3>4. live' \in FileState
            BY <2>1, <2>3, Zenon
        <3> QED BY <3>1, <3>3, <3>4, Zenon DEF Change!Next, Change!Try
    <2> QED BY <2>2, <2>3
<1>5. ASSUME NEW p \in Process, Reapply(p) PROVE [Change!Next]_<<live, Trial>>
    <2>1. /\ pending = {Of(p)} /\ pending' = {Of(p)} /\ Of(p) \in Token
          /\ UNCHANGED saved /\ live' = saved[Of(p)]
        <3>1. pc[p] \in Working /\ pc[p] \in {"regenerate", "reapply"}
            BY <1>5, Zenon DEF Reapply, Working
        <3>2. pending = {Of(p)} /\ Of(p) \in Token /\ netplan = saved[Of(p)]
            BY <3>1, WorksOnThePending, Zenon DEF TrialInv, Restored
        <3> QED BY <1>5, <3>2, Zenon DEF Reapply, files, Recovering
    <2>2. CASE live' = live
        BY <1>1, <2>1, <2>2, Zenon
    <2>3. CASE live' # live
        <3>1. Trial = saved[Of(p)]
            BY <2>1, <2>3, TrialOfPending, Zenon
        <3>2. OnTrial' = {}
            BY <2>1, Zenon DEF OnTrial
        <3>3. Trial' = NoTrial
            BY <3>2, Zenon DEF Trial
        <3>4. saved[Of(p)] # NoTrial
            BY <1>0, <2>1, NetdConstants, Zenon DEF TypeOK, FileState
        <3> QED BY <2>1, <3>1, <3>3, <3>4, Zenon DEF Change!Next, Change!Revert
    <2> QED BY <2>2, <2>3
<1>6. ASSUME NEW p \in Process, RemovePending(p) PROVE [Change!Next]_<<live, Trial>>
    <2>1. CASE UNCHANGED pending
        BY <1>1, <1>6, <2>1, Zenon DEF RemovePending
    <2>2. CASE pending' = {} /\ UNCHANGED live
        <3>1. OnTrial' = {}
            BY <2>2, Zenon DEF OnTrial
        <3>2. Trial' = NoTrial
            BY <3>1, Zenon DEF Trial
        <3> QED BY <2>2, <3>2, Zenon DEF Change!Next, Change!Keep
    <2>3. pc[p] \in Working
        BY <1>6, Zenon DEF RemovePending, Working
    <2>4. pending = {Of(p)}
        BY <2>3, WorksOnThePending, Zenon
    <2> QED BY <1>6, <2>1, <2>2, <2>4, Zenon DEF RemovePending
<1>7. ASSUME NEW t \in Token, ConfirmBegin(t) \/ RollbackBegin(t) \/ Fire(t)
      PROVE  UNCHANGED <<live, pending, saved>>
    BY <1>7, Zenon DEF ConfirmBegin, RollbackBegin, Fire, files
<1>8. CASE WriteBackup \/ Install \/ Generate \/ Schedule \/ CancelStep
    BY <1>1, <1>8, Zenon DEF WriteBackup, Install, Generate, Schedule, CancelStep, StopTimer,
       StopService, files
<1>9. ASSUME NEW p \in Process, ReadBackup(p) \/ RestoreFile(p) \/ Regenerate(p) \/ RemoveBackup(p)
      PROVE  UNCHANGED <<live, pending, saved>>
    BY <1>9, Zenon DEF ReadBackup, RestoreFile, Regenerate, RemoveBackup, files
<1>10. CASE UNCHANGED vars
    BY <1>1, <1>10, Zenon DEF vars
<1>11. ~Crash /\ ~Reboot
    BY Zenon DEF Crash, Reboot, Recovering, Unhurried
<1> QED BY <1>1, <1>2, <1>3, <1>4, <1>5, <1>6, <1>7, <1>8, <1>9, <1>10, <1>11, Zenon
        DEF Next, ApplyStep, RestoreStep

\* netd implements NetworkChange: however applies, confirms, rollbacks and
\* timers interleave, the interfaces only move to a candidate or back to what
\* ran before it, and a trial ends in no other way than these two.
THEOREM TrialImplemented == ASSUME Recovering PROVE Spec => ImplementsChange
<1>1. Init => Change!Init
    <2>1. ASSUME Init PROVE live \in FileState /\ pending = {}
        BY <2>1, Zenon DEF Init
    <2> QED BY <2>1, TrialOfNone, Zenon DEF Change!Init
<1>2. IInv /\ OwnInv /\ TrialInv /\ IInv' /\ [Next]_vars => [Change!Next]_<<live, Trial>>
    BY StepImplements, Zenon
<1> QED BY <1>1, <1>2, TrialInvariance, PTL DEF Spec, ImplementsChange, Change!Spec
=============================================================================
