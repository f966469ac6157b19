------------------------ MODULE ConfigTransaction ------------------------
(***************************************************************************)
(* How a change of the WAF's configuration takes effect: the Control       *)
(* Center's transaction over the configuration file and the GUI rule file  *)
(* (internal/control/config_manager.go, rules_manager.go, backup.go), the  *)
(* hot reload it asks of the WAF process (internal/app/app.go), and what   *)
(* else can happen meanwhile: other requests, a reload asked by SIGHUP or  *)
(* left over from a call that timed out, a restart of either process.      *)
(*                                                                         *)
(* A configuration is what the transaction can tell apart: its body, which *)
(* fixes the listeners, and whether its rules.files names the GUI rule     *)
(* file.  Rule files are opaque; Clash holds the bodies and rule files     *)
(* that are valid by themselves and do not build together (a rule ID they  *)
(* share, waf.New).                                                        *)
(***************************************************************************)
EXTENDS Naturals, Sequences, FiniteSets

CONSTANTS Body,        \* the configurations, apart from the GUI rule file
          Listener,    \* what compatibleForHotReload compares
          Listen,      \* the listeners of a body
          RuleFile,    \* contents of the GUI rule file
          Clash,       \* <<body, rule file>> that do not build together
          Request,     \* API requests in flight
          Absent,      \* the GUI rule file does not exist
          Down,        \* the WAF process is not serving
          None,        \* nobody
          Faults,      \* what may go wrong or interfere, see FaultKind
          KeepRevisions, \* pruneRevisions(50)
          MaxTxns,     \* bound on the transactions of a behaviour
          MaxLate,     \* bound on reloads nobody waits for
          MaxBackups   \* bound on the backups kept

FaultKind == {"write",    \* a file of the candidate cannot be written
              "undo",     \* a file cannot be written back
              "reload",   \* the WAF fails to build although Validate did not
              "timeout",  \* the reload call times out, the reload may go on
              "hup",      \* SIGHUP or cherrywafctl reload
              "restart",  \* the WAF process is restarted
              "crash"}    \* the Control Center is restarted

Config == [body : Body, gui : BOOLEAN]
Pair == [config : Config, rules : RuleFile \cup {Absent}]
P(c, x) == [config |-> c, rules |-> x]
NoPair == P(None, Absent)

ASSUME TransactionConstants ==
    /\ Listen \in [Body -> Listener]
    /\ Clash \subseteq Body \X RuleFile
    /\ Faults \subseteq FaultKind
    /\ KeepRevisions \in Nat \ {0}
    /\ MaxTxns \in Nat /\ MaxLate \in Nat /\ MaxBackups \in Nat
    /\ Absent \notin RuleFile
    /\ None \notin Request /\ None \notin Config
    /\ Down \notin Pair \cup Request /\ NoPair # Down

VARIABLES config,   \* the configuration file
          rules,    \* the GUI rule file, or Absent
          revs,     \* listed revisions, newest CreatedAt first
          backups,  \* contents of the backup archives
          mu,       \* the holder of configMu
          req,      \* where each request is, and what it has read
          running,  \* what the published runtime was built from, or Down
          loading,  \* the reload that holds reloadMu
          late,     \* reloads asked for whose answer nobody awaits
          txns,     \* transactions begun
          base,     \* the files as the latest transaction found them
          last,     \* how the latest transaction ended
          broken    \* the files were left half-way, to repair by hand (history)

files == <<config, rules>>
store == <<revs, backups>>
waf == <<running, loading, late>>
txn == <<mu, req, last>>
vars == <<config, rules, revs, backups, mu, req, running, loading, late,
          txns, base, last, broken>>

Disk == P(config, rules)

\* Mutant: a rule file that is named and missing is taken for an empty one.
BuildsWithoutFile(p) == p.config.gui => <<p.config.body, p.rules>> \notin Clash

\* core.build succeeds: the rule files that the configuration names exist and
\* hold no rule ID twice.
Builds(p) ==
    p.config.gui => /\ p.rules # Absent
                    /\ <<p.config.body, p.rules>> \notin Clash

\* What a runtime depends on: a rule file that is not named is not read.
Effective(p) == IF p.config.gui THEN p ELSE P(p.config, Absent)

-----------------------------------------------------------------------------
(* A request: its place, the file contents it works on, the pair it is to  *)
(* bring about, and why it is undoing its writes.                          *)

Stage == {"idle", "readRules", "lock", "revision", "rules", "config",
          "validate", "reload", "undoConfig", "undoRules", "again"}
Undo == {"none", "write", "invalid", "reload", "failed"}

Local(pc, keep, rev, new, asked, undo) ==
    [pc |-> pc, keep |-> keep, rev |-> rev, new |-> new, asked |-> asked,
     undo |-> undo]
Idle == Local("idle", FALSE, 0, NoPair, NoPair, "none")

RequestState ==
    [pc : Stage, keep : BOOLEAN, rev : Nat, new : Pair \cup {NoPair},
     asked : Pair \cup {NoPair}, undo : Undo]

Result == {"none", "ok", "restart", "rolledback", "reverted", "unreloaded",
           "failed", "lost"}
Ended(result, asked) == [result |-> result, asked |-> asked]

Revision(id, p) == [id |-> id, pair |-> p]
NoLoad == [for |-> None, config |-> None]

Init ==
    /\ config \in Config /\ rules \in RuleFile \cup {Absent}
    /\ Builds(Disk)
    /\ running = Disk
    /\ revs = <<>> /\ backups = {}
    /\ mu = None /\ req = [r \in Request |-> Idle]
    /\ loading = NoLoad /\ late = 0
    /\ txns = 0 /\ base = Disk /\ last = Ended("none", NoPair) /\ broken = FALSE

Become(r, l) == req' = [req EXCEPT ![r] = l]
At(r, pc) == req[r].pc = pc
Goto(r, pc) ==
    Become(r, Local(pc, req[r].keep, req[r].rev, req[r].new, req[r].asked,
                    req[r].undo))

\* The handler returns: configMu is released and the answer sent.
Finish(r, result) ==
    /\ Become(r, Idle)
    /\ mu' = None
    /\ last' = Ended(result, req[r].asked)

\* The handler returns an error before it has changed a file.
Abort(r) == Become(r, Idle) /\ mu' = None /\ UNCHANGED last

\* restore() starts; why decides whether the WAF is reloaded after it.
StartUndo(r, why) ==
    /\ Become(r, Local("undoConfig", req[r].keep, req[r].rev, req[r].new,
                       req[r].asked, why))
    /\ UNCHANGED <<mu, last>>

-----------------------------------------------------------------------------
(* The requests up to configMu.                                            *)

Begin(r) == At(r, "idle") /\ txns < MaxTxns /\ txns' = txns + 1

\* applyBundleLocked reads the files it may have to restore.
Enter(r, keep, rev, new, asked) ==
    /\ mu = None /\ mu' = r
    /\ Become(r, Local("revision", keep, rev, new, asked, "none"))
    /\ base' = Disk

\* handleConfigApply: the candidate is validated against the files on disk;
\* an invalid one is refused and changes nothing.
ApplyConfig(r, c) ==
    /\ Begin(r)
    /\ Builds(P(c, rules))
    /\ Enter(r, TRUE, 0, P(c, rules), P(c, rules))
    /\ UNCHANGED <<files, store, waf, last, broken>>

\* handleRulesApply: the configuration on disk, made to name the rule file.
ApplyRules(r, x) ==
    /\ Begin(r)
    /\ LET new == P([body |-> config.body, gui |-> TRUE], x)
       IN  Enter(r, FALSE, 0, new, new)
    /\ UNCHANGED <<files, store, waf, last, broken>>

\* handleRevisionRestore reads config.json without the lock ...
ReadRevision(r, i) ==
    /\ Begin(r)
    /\ Become(r, Local("readRules", FALSE, revs[i].id,
                       P(revs[i].pair.config, Absent), revs[i].pair, "none"))
    /\ UNCHANGED <<files, store, waf, mu, last, base, broken>>

\* ... and then rules.json, which is missing when the revision has none, and
\* when it has been pruned since.
ReadRevisionRules(r) ==
    /\ At(r, "readRules")
    /\ LET kept == \E i \in DOMAIN revs : revs[i].id = req[r].rev
           x == IF kept THEN req[r].asked.rules ELSE Absent
       IN  Become(r, Local("lock", FALSE, req[r].rev,
                           P(req[r].new.config, x), req[r].asked, "none"))
    /\ UNCHANGED <<files, store, waf, mu, last, base, txns, broken>>

\* restoreBackup reads the whole archive before it takes the lock.
ReadBackup(r, p) ==
    /\ Begin(r)
    /\ Become(r, Local("lock", FALSE, 0, p, p, "none"))
    /\ UNCHANGED <<files, store, waf, mu, last, base, broken>>

Lock(r) ==
    /\ At(r, "lock")
    /\ Enter(r, FALSE, req[r].rev, req[r].new, req[r].asked)
    /\ UNCHANGED <<files, store, waf, last, txns, broken>>

-----------------------------------------------------------------------------
(* applyBundleLocked, under configMu.                                      *)

\* Mutant: the oldest revisions are kept.
PruneNewest(s) == IF Len(s) > KeepRevisions THEN SubSeq(s, 2, Len(s)) ELSE s

\* Revisions are listed newest first, by the wall clock.
PruneRevisions(s) == SubSeq(s, 1, IF Len(s) > KeepRevisions THEN KeepRevisions
                                                            ELSE Len(s))

CreateRevision(r) ==
    /\ At(r, "revision")
    /\ revs' = PruneRevisions(<<Revision(txns, base)>> \o revs)
    /\ Goto(r, IF req[r].keep THEN "config" ELSE "rules")
    /\ UNCHANGED <<files, backups, waf, mu, last, base, txns, broken>>

\* The rule file is written, or removed when the candidate has none.
WriteRules(r) ==
    /\ At(r, "rules")
    /\ rules' = req[r].new.rules
    /\ Goto(r, "config")
    /\ UNCHANGED <<config, store, waf, mu, last, base, txns, broken>>

\* Making the revision or writing the rules fails: nothing is to be undone.
TransactionFails(r) ==
    /\ "write" \in Faults
    /\ At(r, "revision") \/ At(r, "rules")
    /\ Abort(r)
    /\ UNCHANGED <<files, store, waf, base, txns, broken>>

\* Mutant: the new rule file stays when the configuration cannot be written.
WriteConfigOnly(r) ==
    /\ At(r, "config")
    /\ \/ /\ config' = req[r].new.config
          /\ Goto(r, "validate")
          /\ UNCHANGED <<mu, last>>
       \/ /\ "write" \in Faults
          /\ Abort(r)
          /\ UNCHANGED config
    /\ UNCHANGED <<rules, store, waf, base, txns, broken>>

WriteConfig(r) ==
    /\ At(r, "config")
    /\ \/ /\ config' = req[r].new.config
          /\ Goto(r, "validate")
          /\ UNCHANGED <<mu, last>>
       \/ /\ "write" \in Faults
          /\ StartUndo(r, "write")
          /\ UNCHANGED config
    /\ UNCHANGED <<rules, store, waf, base, txns, broken>>

Validate(r) ==
    /\ At(r, "validate")
    /\ \/ Builds(Disk) /\ Goto(r, "reload") /\ UNCHANGED <<mu, last>>
       \/ ~Builds(Disk) /\ StartUndo(r, "invalid")
    /\ UNCHANGED <<files, store, waf, base, txns, broken>>

\* restore(): both files are written back, whatever becomes of the first.
RestoreConfig(r) ==
    /\ At(r, "undoConfig")
    /\ \/ /\ config' = base.config
          /\ Goto(r, "undoRules") /\ UNCHANGED broken
       \/ /\ "undo" \in Faults /\ broken' = TRUE
          /\ Become(r, Local("undoRules", req[r].keep, req[r].rev, req[r].new,
                             req[r].asked, "failed"))
          /\ UNCHANGED config
    /\ UNCHANGED <<rules, store, waf, mu, last, base, txns>>

\* Mutant: the rule file is not written back.
RestoreNoRules(r) ==
    /\ At(r, "undoRules")
    /\ \/ req[r].undo = "reload" /\ Goto(r, "again") /\ UNCHANGED <<mu, last>>
       \/ req[r].undo # "reload" /\ Finish(r, "rolledback")
    /\ UNCHANGED <<files, store, waf, base, txns, broken>>

\* Only a failed reload is followed by a second one; a failed write is
\* reported as such, however the restoring of the files went.
RestoreRules(r) ==
    /\ At(r, "undoRules")
    /\ \/ /\ rules' = base.rules /\ UNCHANGED broken
          /\ \/ req[r].undo = "reload" /\ Goto(r, "again") /\ UNCHANGED <<mu, last>>
             \/ req[r].undo = "invalid" /\ Finish(r, "rolledback")
             \/ req[r].undo \in {"write", "failed"} /\ Finish(r, "failed")
       \/ /\ "undo" \in Faults /\ broken' = TRUE
          /\ Finish(r, "failed")
          /\ UNCHANGED rules
    /\ UNCHANGED <<config, store, waf, base, txns>>

Awaiting(r) == At(r, "reload") \/ At(r, "again")

\* Mutant: the second reload is taken to have succeeded.
AnswerTrusting(r, answer) ==
    \/ At(r, "reload") /\ answer \in {"ok", "restart"} /\ Finish(r, answer)
    \/ At(r, "reload") /\ answer = "error" /\ StartUndo(r, "reload")
    \/ At(r, "again") /\ Finish(r, "reverted")

\* Mutant: the second reload is asked for until it succeeds.
AnswerInsisting(r, answer) ==
    \/ At(r, "reload") /\ answer \in {"ok", "restart"} /\ Finish(r, answer)
    \/ At(r, "reload") /\ answer = "error" /\ StartUndo(r, "reload")
    \/ At(r, "again") /\ answer = "ok" /\ Finish(r, "reverted")
    \/ At(r, "again") /\ answer # "ok" /\ UNCHANGED txn

\* What the transaction makes of the WAF's answer to its reload call.
Answer(r, answer) ==
    \/ At(r, "reload") /\ answer \in {"ok", "restart"} /\ Finish(r, answer)
    \/ At(r, "reload") /\ answer = "error" /\ StartUndo(r, "reload")
    \/ At(r, "again") /\ answer = "ok" /\ Finish(r, "reverted")
    \/ At(r, "again") /\ answer # "ok" /\ Finish(r, "unreloaded")

\* The client gives up; the WAF may still be reloading, or start to later.
Timeout(r) ==
    /\ "timeout" \in Faults
    /\ Awaiting(r)
    /\ Answer(r, "error")
    /\ IF loading.for = r
       THEN loading' = [for |-> Down, config |-> loading.config] /\ UNCHANGED late
       ELSE UNCHANGED loading /\ late' = IF late < MaxLate THEN late + 1 ELSE late
    /\ UNCHANGED <<files, store, running, base, txns, broken>>

\* No WAF process answers on the admin listener.
Refused(r) ==
    /\ running = Down
    /\ Awaiting(r)
    /\ Answer(r, "error")
    /\ UNCHANGED <<files, store, waf, base, txns, broken>>

-----------------------------------------------------------------------------
(* Backups, which are taken under configMu.                                *)

CreateBackup ==
    /\ mu = None
    /\ Cardinality(backups) < MaxBackups
    /\ backups' = backups \cup {Disk}
    /\ UNCHANGED <<files, revs, waf, txn, base, txns, broken>>

DeleteBackup(p) ==
    /\ backups' = backups \ {p}
    /\ UNCHANGED <<files, revs, waf, txn, base, txns, broken>>

-----------------------------------------------------------------------------
(* The WAF process.  App.Reload runs under reloadMu: the configuration is  *)
(* read first and the rule files it names after it.                        *)

LoadConfig(for) ==
    /\ loading = NoLoad /\ running # Down
    /\ \/ for \in Request /\ Awaiting(for) /\ UNCHANGED late
       \/ for = Down /\ late > 0 /\ late' = late - 1
    /\ loading' = [for |-> for, config |-> config]
    /\ UNCHANGED <<files, store, txn, running, base, txns, broken>>

Compatible(p) == Listen[p.config.body] = Listen[running.config.body]

\* A runtime that builds and keeps the listeners is published; otherwise the
\* old one stays.
Publish(p, answer) ==
    \/ answer = "ok" /\ Builds(p) /\ Compatible(p) /\ running' = p
    \/ answer = "restart" /\ Builds(p) /\ ~Compatible(p) /\ UNCHANGED running
    \/ answer = "error" /\ (~Builds(p) \/ "reload" \in Faults) /\ UNCHANGED running

LoadRules ==
    /\ loading # NoLoad
    /\ \E answer \in {"ok", "restart", "error"} :
          /\ Publish(P(loading.config, rules), answer)
          /\ IF loading.for = Down THEN UNCHANGED txn
                                   ELSE Answer(loading.for, answer)
    /\ loading' = NoLoad
    /\ UNCHANGED <<files, store, late, base, txns, broken>>

Hup ==
    /\ "hup" \in Faults
    /\ running # Down /\ late < MaxLate
    /\ late' = late + 1
    /\ UNCHANGED <<files, store, txn, running, loading, base, txns, broken>>

\* The process stops and starts on the files as they are; it does not come up
\* on files that do not build.  Calls in progress are cut off.
RestartWAF ==
    /\ "restart" \in Faults
    /\ running' = IF Builds(Disk) THEN Disk ELSE Down
    /\ loading' = NoLoad /\ late' = 0
    /\ IF loading.for \in Request THEN Answer(loading.for, "error")
                                  ELSE UNCHANGED txn
    /\ UNCHANGED <<files, store, base, txns, broken>>

\* The Control Center stops and starts; nothing tells it what it was doing.
Crash ==
    /\ "crash" \in Faults /\ broken' = TRUE
    /\ mu # None
    /\ req' = [r \in Request |-> Idle]
    /\ mu' = None
    /\ last' = Ended("lost", NoPair)
    /\ loading' = IF loading.for \in Request
                  THEN [for |-> Down, config |-> loading.config] ELSE loading
    /\ late' = IF (\E r \in Request : Awaiting(r) /\ loading.for # r) /\ late < MaxLate
               THEN late + 1 ELSE late
    /\ UNCHANGED <<files, store, running, base, txns>>

-----------------------------------------------------------------------------
Read(r) ==
    \/ \E i \in DOMAIN revs : ReadRevision(r, i)
    \/ \E p \in backups : ReadBackup(r, p)
    \/ ReadRevisionRules(r)

Transact(r) ==
    \/ CreateRevision(r) \/ WriteRules(r) \/ TransactionFails(r)
    \/ WriteConfig(r) \/ Validate(r)
    \/ RestoreConfig(r) \/ RestoreRules(r)
    \/ Timeout(r) \/ Refused(r)

Next ==
    \/ \E r \in Request :
          \/ \E c \in Config : ApplyConfig(r, c)
          \/ \E x \in RuleFile : ApplyRules(r, x)
          \/ Read(r) \/ Lock(r) \/ Transact(r)
    \/ CreateBackup
    \/ \E p \in backups : DeleteBackup(p)
    \/ \E for \in Request \cup {Down} : LoadConfig(for)
    \/ LoadRules \/ Hup \/ RestartWAF \/ Crash

Spec == Init /\ [][Next]_vars

\* File operations return, and a reload call is answered or times out.
Fairness == \A r \in Request :
    WF_vars(Transact(r)) /\ WF_vars(ReadRevisionRules(r)) /\ SF_vars(Lock(r))

FairSpec == Spec /\ Fairness

-----------------------------------------------------------------------------
(* What the transaction promises.                                          *)

TypeOK ==
    /\ config \in Config /\ rules \in RuleFile \cup {Absent}
    /\ revs \in Seq([id : Nat, pair : Pair]) /\ Len(revs) <= KeepRevisions
    /\ backups \subseteq Pair
    /\ mu \in Request \cup {None}
    /\ req \in [Request -> RequestState]
    /\ running \in Pair \cup {Down}
    /\ loading = NoLoad \/ loading \in [for : Request \cup {Down}, config : Config]
    /\ late \in 0 .. MaxLate /\ txns \in 0 .. MaxTxns
    /\ base \in Pair
    /\ last \in [result : Result, asked : Pair \cup {NoPair}]
    /\ broken \in BOOLEAN

\* No transaction is under way.
AtRest == mu = None

\* When a request is answered "applied", or "reload failed and changes were
\* rolled back", the WAF serves exactly the files on disk, and goes on doing so
\* while other reloads come and go (applyBundleLocked against App.Reload).
AnsweredIsServed ==
    AtRest /\ last.result \in {"ok", "reverted"} /\ running # Down
        => Effective(running) = Effective(Disk)

\* A request that is answered "applied" or "restart required" has brought about
\* what it asked for: the restored revision too, which handleRevisionRestore
\* reads without the lock while pruneRevisions may be removing it.
AppliedAsAsked ==
    AtRest /\ last.result \in {"ok", "restart"}
        => Effective(Disk) = Effective(last.asked)

\* A request whose answer says that its changes were rolled back, or that only
\* the second reload failed, has left both files as it found them (restore).
RolledBack ==
    AtRest /\ last.result \in {"rolledback", "reverted", "unreloaded"}
        => Disk = base

\* Whatever a transaction has done to the files, and wherever it was cut off,
\* the files as it found them are a listed revision (createRevisionLocked runs
\* before the first write, pruneRevisions keeps the newest).
UndoAvailable ==
    Disk # base => \E i \in DOMAIN revs : revs[i].pair = base

\* Unless a file could not be written back or the Control Center was killed,
\* what is left for later builds does build: the files between transactions, so
\* that the WAF comes up after a restart, also after a listener change that was
\* only saved, and every backup, which never captures the files of a transaction
\* half-way (applyBundleLocked, createBackup).
FilesBuild == ~broken => (AtRest => Builds(Disk)) /\ \A p \in backups : Builds(p)

\* Every request is answered and configMu is released, also when the WAF hangs.
Answered == \A r \in Request : req[r].pc # "idle" ~> req[r].pc = "idle"
====
