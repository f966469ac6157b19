---------------------- MODULE ConfigTransactionProofs ----------------------
(***************************************************************************)
(* For any files, requests and faults: what the answer to a transaction    *)
(* says of the files and of the WAF is true, and the files as a            *)
(* transaction found them can be restored.                                 *)
(*                                                                         *)
(* The properties speak of the time between transactions.  The invariant   *)
(* says how far the holder of configMu has come with the files (Written),  *)
(* that a reload somebody waits for has read them as they are (Awaited),   *)
(* and keeps what the last answer said until the next transaction writes   *)
(* (Settled): one that gives up before that leaves the answer standing.    *)
(* That the files build between transactions needs that what a transaction *)
(* would restore builds while it runs (BuildInv).                          *)
(***************************************************************************)
EXTENDS ConfigTransaction, TLAPS

\* The stages under configMu; those after the revision was made; those after the
\* first write; and those in which no file has been written.
Holding == {"revision", "rules", "config", "validate", "reload", "undoConfig", "undoRules", "again"}
Backed == {"rules", "config", "validate", "reload", "undoConfig", "undoRules", "again"}
Writing == {"config", "validate", "reload", "undoConfig", "undoRules", "again"}
Unwritten == {"idle", "readRules", "lock", "revision", "rules"}
Calm == \A r \in Request : req[r].pc \in Unwritten

\* The files hold a pair.
Is(p) == config = p.config /\ rules = p.rules

\* The newest revision is what the transaction found.
Saved == Len(revs) > 0 /\ revs[1].pair = base

\* The types of what is stored.
Stored ==
    /\ config \in Config /\ rules \in RuleFile \cup {Absent}
    /\ base \in Pair /\ txns \in Nat
    /\ revs \in Seq([id : Nat, pair : Pair]) /\ backups \subseteq Pair

\* The types the proof needs.
Types ==
    /\ Stored
    /\ DOMAIN req = Request
    /\ \A r \in Request : req[r].pc \in Stage
    /\ mu \in Request \cup {None}

\* configMu.
Mutex == \A r \in Request : req[r].pc \in Holding <=> mu = r

\* A request is about to write what it was asked for, apart from a rule file
\* that was pruned while it was reading.
Wanted(r) ==
    ~At(r, "idle") =>
        /\ req[r].new \in Pair /\ req[r].asked \in Pair
        /\ req[r].new.config = req[r].asked.config
        /\ req[r].new.rules \in {req[r].asked.rules, Absent}

\* How far a request has come with the files.
Written(r) ==
    /\ At(r, "revision") \/ At(r, "rules") \/ At(r, "again") => Is(base)
    /\ At(r, "revision") /\ req[r].keep => req[r].new.rules = base.rules
    /\ At(r, "config") => config = base.config /\ rules = req[r].new.rules
    /\ At(r, "validate") \/ At(r, "reload") => Is(req[r].new)
    /\ At(r, "reload") => Builds(req[r].new)
    /\ At(r, "undoConfig") => req[r].undo # "failed"
    /\ At(r, "undoRules") /\ req[r].undo # "failed" => config = base.config
    /\ req[r].pc \in Backed => Saved

\* A reload that somebody waits for has read the files as they are.
Awaited ==
    /\ loading # NoLoad => /\ running # Down /\ loading.config \in Config
                           /\ loading.for \in Request \cup {Down}
    /\ loading.for \in Request => Awaiting(loading.for) /\ loading.config = config

\* What the last answer said holds until a file is written.
Settled ==
    Calm =>
        /\ last.result \in {"rolledback", "reverted", "unreloaded"} => Is(base)
        /\ last.result \in {"ok", "restart"} =>
              last.asked \in Pair /\ Effective(Disk) = Effective(last.asked)
        /\ last.result \in {"ok", "reverted"} =>
              /\ running # Down => Effective(running) = Effective(Disk)
              /\ loading # NoLoad => loading.config = config

\* The inductive invariant.
Inv ==
    /\ Types /\ Mutex
    /\ \A r \in Request : Wanted(r) /\ Written(r)
    /\ Is(base) \/ Saved
    /\ Awaited /\ Settled

-----------------------------------------------------------------------------
(* Records and sequences.                                                   *)

\* A request that is not there.
LEMMA IdleFields == Idle.pc = "idle"
BY Zenon DEF Idle, Local

\* The fields of an answer.
LEMMA EndedFields ==
    ASSUME NEW a, NEW b
    PROVE  Ended(a, b).result = a /\ Ended(a, b).asked = b
BY Zenon DEF Ended

\* The fields of a pair.
LEMMA PairFields ==
    ASSUME NEW c, NEW x
    PROVE  /\ P(c, x).config = c /\ P(c, x).rules = x
           /\ c \in Config /\ x \in RuleFile \cup {Absent} => P(c, x) \in Pair
BY Zenon DEF P, Pair

\* The files are the pair that they hold.
LEMMA DiskIs ==
    ASSUME NEW p \in Pair, Is(p)
    PROVE  Disk = p
BY Zenon DEF Is, Disk, P, Pair

\* The files are a pair.
LEMMA DiskPair ==
    ASSUME Types
    PROVE  Disk \in Pair /\ Disk.config = config /\ Disk.rules = rules
BY PairFields, Zenon DEF Types, Stored, Disk

\* A step of one request.
Alone(r) == DOMAIN req' = Request /\ \A q \in Request \ {r} : req'[q] = req[q]

\* Nothing that is stored changes.
Frame == UNCHANGED <<config, rules, revs, backups, base, txns>>

\* The holder of configMu goes on with it, or is done.
Moves(r) ==
    \/ req'[r].pc \in Holding /\ mu' = mu
    \/ req'[r].pc = "idle" /\ mu' = None

\* It goes on to another stage after the first write.
Onward(r) ==
    /\ Alone(r) /\ req'[r].pc \in Writing /\ mu' = mu
    /\ req'[r].new = req[r].new /\ req'[r].asked = req[r].asked

\* Nobody waits for the reload in progress.
Detached ==
    /\ loading.for \notin Request
    /\ loading # NoLoad => /\ running # Down /\ loading.config \in Config
                           /\ loading.for = Down

\* What an answer says is true as it is given.
Truthful(r, result) ==
    /\ result \in {"rolledback", "reverted", "unreloaded"} => Is(base)'
    /\ result \in {"ok", "restart"} => Effective(Disk') = Effective(req[r].asked)
    /\ result \in {"ok", "reverted"} => running' = Disk' /\ loading' = NoLoad

\* It leaves the others where they are.
LEMMA Becomes ==
    ASSUME Types, NEW r \in Request, NEW s, Become(r, s)
    PROVE  Alone(r) /\ req'[r] = s
BY Zenon DEF Types, Become, Alone

\* Goto changes the stage only.
LEMMA Goes ==
    ASSUME Types, NEW r \in Request, NEW pc, Goto(r, pc)
    PROVE  /\ Alone(r) /\ req'[r].pc = pc /\ req'[r].keep = req[r].keep
           /\ req'[r].new = req[r].new /\ req'[r].asked = req[r].asked
           /\ req'[r].undo = req[r].undo
<1> DEFINE s == Local(pc, req[r].keep, req[r].rev, req[r].new, req[r].asked, req[r].undo)
<1>1. /\ s.pc = pc /\ s.keep = req[r].keep /\ s.new = req[r].new
      /\ s.asked = req[r].asked /\ s.undo = req[r].undo
  BY Zenon DEF Local
<1>2. Become(r, s)
  BY Zenon DEF Goto
<1> HIDE DEF s
<1> QED BY <1>1, <1>2, Becomes, Zenon

\* ... and the steps of restore() also the reason.
LEMMA Undoes ==
    ASSUME Types, NEW r \in Request, NEW pc, NEW why,
           Become(r, Local(pc, req[r].keep, req[r].rev, req[r].new, req[r].asked, why))
    PROVE  /\ Alone(r) /\ req'[r].pc = pc /\ req'[r].undo = why
           /\ req'[r].new = req[r].new /\ req'[r].asked = req[r].asked
<1> DEFINE s == Local(pc, req[r].keep, req[r].rev, req[r].new, req[r].asked, why)
<1>1. s.pc = pc /\ s.undo = why /\ s.new = req[r].new /\ s.asked = req[r].asked
  BY Zenon DEF Local
<1>2. Become(r, s)
  BY Zenon
<1> HIDE DEF s
<1> QED BY <1>1, <1>2, Becomes, Zenon

\* A new revision is listed first and is never the one that is pruned.
LEMMA PruneKeepsNewest ==
    ASSUME NEW S, NEW s \in Seq(S), NEW e \in S
    PROVE  /\ PruneRevisions(<<e>> \o s) \in Seq(S)
           /\ Len(PruneRevisions(<<e>> \o s)) > 0
           /\ PruneRevisions(<<e>> \o s)[1] = e
<1> DEFINE l == <<e>> \o s
           n == IF Len(l) > KeepRevisions THEN KeepRevisions ELSE Len(l)
<1>1. l \in Seq(S) /\ Len(l) = Len(s) + 1 /\ l[1] = e /\ Len(s) \in Nat
  OBVIOUS
<1>2. n \in 1 .. Len(l)
  BY <1>1, TransactionConstants
<1>3. PruneRevisions(<<e>> \o s) = SubSeq(l, 1, n)
  BY Zenon DEF PruneRevisions
<1> HIDE DEF l, n
<1>4. /\ SubSeq(l, 1, n) \in Seq(S) /\ Len(SubSeq(l, 1, n)) = n
      /\ SubSeq(l, 1, n)[1] = l[1]
  BY <1>1, <1>2
<1> QED BY <1>1, <1>2, <1>3, <1>4, SMTT(30)

-----------------------------------------------------------------------------
(* The holder of configMu.                                                  *)

\* How the sets of stages relate.
LEMMA Stages ==
    /\ Holding \subseteq Stage /\ Backed \subseteq Holding /\ Writing \subseteq Backed
    /\ Writing \cap Unwritten = {} /\ "idle" \in Stage \ Holding
    /\ "readRules" \in Stage \ Holding /\ "lock" \in Stage \ Holding
    /\ Stage \ Holding = {"idle", "readRules", "lock"}
BY Zenon DEF Holding, Backed, Writing, Unwritten, Stage

\* Who is in a stage under configMu holds it.
LEMMA Holds ==
    ASSUME Inv, NEW r \in Request, req[r].pc \in Holding
    PROVE  mu = r
BY Zenon DEF Inv, Mutex

\* Meanwhile the others have no part in the files.
LEMMA OthersWait ==
    ASSUME Inv, NEW r \in Request, mu = r, NEW q \in Request \ {r}, req'[q] = req[q]
    PROVE  Wanted(q)' /\ Written(q)' /\ req'[q].pc \in Stage \ Holding
<1>1. req[q].pc \in Stage \ Holding
  BY Zenon DEF Inv, Mutex, Types
<1>2. Wanted(q)'
  BY Zenon DEF Inv, Wanted, At
<1>3. Written(q)'
  BY <1>1, Zenon DEF Written, At, Holding, Backed
<1> QED BY <1>1, <1>2, <1>3, Zenon

\* ... and no reload is awaited unless the holder awaits it.
LEMMA NotAwaited ==
    ASSUME Inv, NEW r \in Request, mu = r, loading.for \in Request
    PROVE  loading.for = r /\ Awaiting(r)
<1>1. Awaiting(loading.for)
  BY Zenon DEF Inv, Awaited
<1>2. req[loading.for].pc \in Holding
  BY <1>1, Zenon DEF Awaiting, At, Holding
<1> QED BY <1>1, <1>2, Holds, Zenon

\* Its steps elsewhere are no matter of the reload in progress.
LEMMA NobodyAwaits ==
    ASSUME Inv, NEW r \in Request, mu = r, ~Awaiting(r), UNCHANGED <<loading, running>>
    PROVE  Awaited'
<1>1. loading.for \notin Request
  BY NotAwaited, Zenon
<1> QED BY <1>1, Zenon DEF Inv, Awaited

\* What is left to show for a step of the holder.
LEMMA HolderStep ==
    ASSUME Inv, NEW r \in Request, mu = r, Alone(r), Moves(r), Stored',
           Wanted(r)', Written(r)', (Is(base) \/ Saved)', Awaited', Settled'
    PROVE  Inv'
<1>1. DOMAIN req' = Request /\ \A q \in Request \ {r} : req'[q] = req[q]
  BY Zenon DEF Alone
<1>2. \A q \in Request \ {r} : Wanted(q)' /\ Written(q)' /\ req'[q].pc \in Stage \ Holding
  BY <1>1, OthersWait, Zenon
<1>3. \A q \in Request : Wanted(q)' /\ Written(q)'
  BY <1>2, Zenon
<1>4. Types'
  <2>1. req'[r].pc \in Stage /\ mu' \in Request \cup {None}
    BY Stages, Zenon DEF Moves
  <2> QED BY <1>1, <1>2, <2>1, Zenon DEF Types
<1>5. Mutex'
  BY <1>1, <1>2, TransactionConstants, Stages, Zenon DEF Mutex, Moves
<1> QED BY <1>3, <1>4, <1>5, Zenon DEF Inv

\* What the last answer said concerns nobody once a file may have been written.
LEMMA NotCalm ==
    ASSUME NEW r \in Request, req'[r].pc \notin Unwritten
    PROVE  Settled'
BY Zenon DEF Settled, Calm

\* Until then it stays true if nothing changes that it speaks of.
LEMMA StillSettled ==
    ASSUME Inv, NEW r \in Request, Alone(r), req[r].pc \in Unwritten,
           UNCHANGED <<config, rules, base, last, running, loading>>
    PROVE  Settled'
<1>1. Calm' => Calm
  BY Zenon DEF Alone, Calm
<1>2. Disk' = Disk
  BY Zenon DEF Disk
<1>3. CASE Calm
  BY <1>2, <1>3, Zenon DEF Inv, Settled, Is
<1> QED BY <1>1, <1>3, Zenon DEF Settled

-----------------------------------------------------------------------------
(* Requests up to configMu.                                                 *)

\* A request that reads without the lock touches nothing but its own state.
LEMMA ReadingStep ==
    ASSUME Inv, NEW r \in Request, NEW s, Become(r, s),
           req[r].pc \in {"idle", "readRules"}, s.pc \in {"readRules", "lock"},
           s.new \in Pair, s.asked \in Pair, s.new.config = s.asked.config,
           s.new.rules \in {s.asked.rules, Absent}, txns' \in Nat,
           UNCHANGED <<config, rules, revs, backups, running, loading, late, mu, last, base>>
    PROVE  Inv'
<1>1. /\ DOMAIN req' = Request /\ req'[r] = s
      /\ \A q \in Request \ {r} : req'[q] = req[q]
  BY Becomes, Zenon DEF Inv, Alone
<1>2. Types'
  <2>1. Stored'
    BY Zenon DEF Inv, Types, Stored
  <2> QED BY <1>1, <2>1, Zenon DEF Inv, Types, Stage
<1>3. Mutex'
  BY <1>1, Stages, Zenon DEF Inv, Mutex
<1>4. Wanted(r)' /\ Written(r)'
  BY <1>1, Zenon DEF Wanted, Written, At, Backed
<1>5. \A q \in Request \ {r} : Wanted(q)' /\ Written(q)'
  BY <1>1, SMTT(30) DEF Inv, Wanted, Written, At, Is, Saved
<1>6. (Is(base) \/ Saved)'
  BY Zenon DEF Inv, Is, Saved
<1>7. Awaited'
  BY <1>1, Zenon DEF Inv, Awaited, Awaiting, At
<1>8. Settled'
  BY <1>1, StillSettled, Zenon DEF Alone, Unwritten
<1>9. \A q \in Request : Wanted(q)' /\ Written(q)'
  BY <1>4, <1>5, Zenon
<1> QED BY <1>2, <1>3, <1>6, <1>7, <1>8, <1>9, Zenon DEF Inv

\* What is listed in a sequence.
LEMMA Listed ==
    ASSUME NEW S, NEW s \in Seq(S), NEW i \in DOMAIN s
    PROVE  s[i] \in S
OBVIOUS

\* A revision that is listed holds a pair.
LEMMA RevisionPair ==
    ASSUME Types, NEW i \in DOMAIN revs
    PROVE  revs[i].pair \in Pair
<1> DEFINE S == [id : Nat, pair : Pair]
<1>1. revs \in Seq(S)
  BY Zenon DEF Types, Stored
<1>2. revs[i] \in S => revs[i].pair \in Pair
  BY Zenon
<1> HIDE DEF S
<1> QED BY <1>1, <1>2, Listed, Zenon

\* handleRevisionRestore and restoreBackup before configMu.
LEMMA ReadKeeps ==
    ASSUME Inv, NEW r \in Request, Read(r)
    PROVE  Inv'
<1>1. ASSUME NEW i \in DOMAIN revs, ReadRevision(r, i) PROVE Inv'
  <2> DEFINE p == revs[i].pair
             s == Local("readRules", FALSE, revs[i].id, P(p.config, Absent), p, "none")
  <2>1. p \in Pair /\ p.config \in Config
    BY RevisionPair, Zenon DEF Inv, Pair
  <2>2. /\ Become(r, s) /\ req[r].pc = "idle" /\ txns' = txns + 1
        /\ UNCHANGED <<config, rules, revs, backups, running, loading, late, mu, last, base>>
    BY <1>1, Zenon DEF ReadRevision, Begin, At, files, store, waf
  <2>3. P(p.config, Absent) \in Pair /\ P(p.config, Absent).config = p.config
        /\ P(p.config, Absent).rules = Absent
    BY <2>1, PairFields, Zenon
  <2>4. s.pc = "readRules" /\ s.new = P(p.config, Absent) /\ s.asked = p
    BY Zenon DEF Local
  <2>5. txns' \in Nat
    BY <2>2 DEF Inv, Types, Stored
  <2> HIDE DEF s, p
  <2> QED BY <2>1, <2>2, <2>3, <2>4, <2>5, ReadingStep, Zenon
<1>2. ASSUME NEW p \in backups, ReadBackup(r, p) PROVE Inv'
  <2> DEFINE s == Local("lock", FALSE, 0, p, p, "none")
  <2>1. p \in Pair
    BY Zenon DEF Inv, Types, Stored
  <2>2. /\ Become(r, s) /\ req[r].pc = "idle" /\ txns' = txns + 1
        /\ UNCHANGED <<config, rules, revs, backups, running, loading, late, mu, last, base>>
    BY <1>2, Zenon DEF ReadBackup, Begin, At, files, store, waf
  <2>3. s.pc = "lock" /\ s.new = p /\ s.asked = p
    BY Zenon DEF Local
  <2>4. txns' \in Nat
    BY <2>2 DEF Inv, Types, Stored
  <2> HIDE DEF s
  <2> QED BY <2>1, <2>2, <2>3, <2>4, ReadingStep, Zenon
<1>3. CASE ReadRevisionRules(r)
  <2> DEFINE asked == req[r].asked
             kept == \E i \in DOMAIN revs : revs[i].id = req[r].rev
             x == IF kept THEN asked.rules ELSE Absent
             new == P(req[r].new.config, x)
             s == Local("lock", FALSE, req[r].rev, new, asked, "none")
  <2>1. /\ Become(r, s) /\ req[r].pc = "readRules" /\ txns' = txns
        /\ UNCHANGED <<config, rules, revs, backups, running, loading, late, mu, last, base>>
    BY <1>3, Zenon DEF ReadRevisionRules, At, files, store, waf
  <2>2. asked \in Pair /\ req[r].new \in Pair /\ req[r].new.config = asked.config
    BY <2>1, Zenon DEF Inv, Wanted, At
  <2>3. x \in {asked.rules, Absent} /\ x \in RuleFile \cup {Absent} /\ asked.config \in Config
    BY <2>2, Zenon DEF Pair
  <2>4. s.pc = "lock" /\ s.new = new /\ s.asked = asked
    BY Zenon DEF Local
  <2> HIDE DEF x
  <2>5. new \in Pair /\ new.config = asked.config /\ new.rules = x
    BY <2>2, <2>3, PairFields, Zenon
  <2>6. txns' \in Nat
    BY <2>1, Zenon DEF Inv, Types, Stored
  <2> HIDE DEF s, new, asked
  <2> QED BY <2>1, <2>2, <2>3, <2>4, <2>5, <2>6, ReadingStep, Zenon
<1> QED BY <1>1, <1>2, <1>3, Zenon DEF Read

\* configMu is taken and the files are read.
LEMMA EnterKeeps ==
    ASSUME Inv, NEW r \in Request,
           NEW keep \in BOOLEAN, NEW rev, NEW new \in Pair, NEW asked \in Pair,
           Enter(r, keep, rev, new, asked), req[r].pc \in {"idle", "lock"},
           new.config = asked.config, new.rules \in {asked.rules, Absent},
           keep => new.rules = rules, txns' \in Nat,
           UNCHANGED <<config, rules, revs, backups, running, loading, late, last>>
    PROVE  Inv'
<1> DEFINE s == Local("revision", keep, rev, new, asked, "none")
<1>0. Become(r, s) /\ mu = None /\ mu' = r /\ base' = Disk
  BY Zenon DEF Enter
<1>1. /\ DOMAIN req' = Request /\ req'[r] = s
      /\ \A q \in Request \ {r} : req'[q] = req[q]
  BY <1>0, Becomes, Zenon DEF Inv, Alone
<1>2. s.pc = "revision" /\ s.keep = keep /\ s.new = new /\ s.asked = asked
  BY Zenon DEF Local
<1>3. Is(base)' /\ base' \in Pair /\ base'.rules = rules
  BY <1>0, DiskPair, Zenon DEF Inv, Is
<1>4. \A q \in Request : req[q].pc \in Stage \ Holding
  BY <1>0, TransactionConstants, Zenon DEF Inv, Types, Mutex
<1> HIDE DEF s
<1>5. Types'
  <2>1. Stored'
    BY <1>3, Zenon DEF Inv, Types, Stored
  <2> QED BY <1>0, <1>1, <1>2, <1>4, <2>1, Zenon DEF Types, Stage
<1>6. Mutex'
  BY <1>0, <1>1, <1>2, <1>4, Zenon DEF Mutex, Holding
<1>7. Wanted(r)' /\ Written(r)'
  BY <1>1, <1>2, <1>3, Zenon DEF Wanted, Written, At, Backed
<1>8. \A q \in Request \ {r} : Wanted(q)' /\ Written(q)'
  BY <1>1, <1>4, SMTT(30) DEF Inv, Wanted, Written, At, Holding, Backed
<1>9. Awaited'
  <2>1. loading.for \notin Request
    BY <1>4, Zenon DEF Inv, Awaited, Awaiting, At, Holding
  <2> QED BY <2>1, Zenon DEF Inv, Awaited
<1>10. Settled'
  <2>1. Calm
    BY <1>4, Stages, Zenon DEF Calm, Unwritten
  <2>2. Disk' = Disk
    BY Zenon DEF Disk
  <2> QED BY <1>3, <2>1, <2>2, Zenon DEF Inv, Settled
<1>11. \A q \in Request : Wanted(q)' /\ Written(q)'
  BY <1>7, <1>8, Zenon
<1> QED BY <1>3, <1>5, <1>6, <1>9, <1>10, <1>11, Zenon DEF Inv

\* The operations begin, or go on after reading.
LEMMA BeginKeeps ==
    ASSUME Inv, NEW r \in Request,
           \/ \E c \in Config : ApplyConfig(r, c)
           \/ \E x \in RuleFile : ApplyRules(r, x)
           \/ Lock(r)
    PROVE  Inv'
<1>0. txns \in Nat /\ config \in Config /\ rules \in RuleFile \cup {Absent}
  BY Zenon DEF Inv, Types, Stored
<1>1. ASSUME NEW c \in Config, ApplyConfig(r, c) PROVE Inv'
  <2>1. P(c, rules) \in Pair /\ P(c, rules).rules = rules
    BY <1>0, PairFields, Zenon
  <2>2. /\ Enter(r, TRUE, 0, P(c, rules), P(c, rules)) /\ req[r].pc = "idle" /\ txns' = txns + 1
        /\ UNCHANGED <<config, rules, revs, backups, running, loading, late, last>>
    BY <1>1, Zenon DEF ApplyConfig, Begin, At, files, store, waf
  <2>3. /\ P(c, rules).rules \in {P(c, rules).rules, Absent} /\ txns' \in Nat
        /\ req[r].pc \in {"idle", "lock"}
    BY <1>0, <2>2
  <2> QED BY <2>1, <2>2, <2>3, EnterKeeps, Zenon
<1>2. ASSUME NEW x \in RuleFile, ApplyRules(r, x) PROVE Inv'
  <2> DEFINE new == P([body |-> config.body, gui |-> TRUE], x)
  <2>1. new \in Pair
    <3>1. [body |-> config.body, gui |-> TRUE] \in Config
      BY <1>0, Zenon DEF Config
    <3> QED BY <3>1, PairFields, Zenon
  <2>2. /\ Enter(r, FALSE, 0, new, new) /\ req[r].pc = "idle" /\ txns' = txns + 1
        /\ UNCHANGED <<config, rules, revs, backups, running, loading, late, last>>
    BY <1>2, Zenon DEF ApplyRules, Begin, At, files, store, waf
  <2>3. txns' \in Nat
    BY <1>0, <2>2, SMTT(30)
  <2>4. new.rules \in {new.rules, Absent} /\ req[r].pc \in {"idle", "lock"}
    BY <2>2, Zenon
  <2> HIDE DEF new
  <2> QED BY <2>1, <2>2, <2>3, <2>4, EnterKeeps, Zenon
<1>3. CASE Lock(r)
  <2>1. /\ Enter(r, FALSE, req[r].rev, req[r].new, req[r].asked) /\ req[r].pc = "lock"
        /\ txns' = txns /\ UNCHANGED <<config, rules, revs, backups, running, loading, late, last>>
    BY <1>3, Zenon DEF Lock, At, files, store, waf
  <2>2. /\ req[r].new \in Pair /\ req[r].asked \in Pair
        /\ req[r].new.config = req[r].asked.config
        /\ req[r].new.rules \in {req[r].asked.rules, Absent}
    BY <2>1, Zenon DEF Inv, Wanted, At
  <2>3. txns' \in Nat
    BY <1>0, <2>1, Zenon
  <2> QED BY <2>1, <2>2, <2>3, EnterKeeps, Zenon
<1> QED BY <1>1, <1>2, <1>3, Zenon

-----------------------------------------------------------------------------
(* applyBundleLocked.                                                       *)

\* The pairs a request works on.
LEMMA Pairs ==
    ASSUME Inv, NEW r \in Request, req[r].pc \in Holding
    PROVE  /\ mu = r /\ Wanted(r) /\ Written(r) /\ Types
           /\ req[r].new \in Pair /\ req[r].asked \in Pair /\ base \in Pair
           /\ req[r].new.config \in Config /\ req[r].new.rules \in RuleFile \cup {Absent}
           /\ base.config \in Config /\ base.rules \in RuleFile \cup {Absent}
<1>1. mu = r /\ Wanted(r) /\ Written(r) /\ Types /\ req[r].pc # "idle"
  BY Holds, Stages, Zenon DEF Inv
<1>2. req[r].new \in Pair /\ req[r].asked \in Pair /\ base \in Pair
  BY <1>1, Zenon DEF Wanted, At, Types, Stored
<1> QED BY <1>1, <1>2, Zenon DEF Pair

\* The revision stays the newest one while the files are written.
LEMMA StaysSaved ==
    ASSUME Inv, NEW r \in Request, req[r].pc \in Backed, UNCHANGED <<revs, base>>
    PROVE  Saved'
BY Pairs, Stages, Zenon DEF Written, Saved

\* createRevisionLocked and pruneRevisions.
LEMMA CreateRevisionKeeps ==
    ASSUME Inv, NEW r \in Request, CreateRevision(r)
    PROVE  Inv'
<1> DEFINE to == IF req[r].keep THEN "config" ELSE "rules"
<1>1. /\ req[r].pc = "revision" /\ Goto(r, to)
      /\ revs' = PruneRevisions(<<Revision(txns, base)>> \o revs)
      /\ UNCHANGED <<config, rules, backups, running, loading, mu, last, base, txns>>
  BY Zenon DEF CreateRevision, At, files, waf
<1>0. req[r].pc \in Holding
  BY <1>1, Zenon DEF Holding
<1>2. Wanted(r) /\ Written(r) /\ Types /\ mu = r
  BY <1>0, Pairs, Zenon
<1>3. /\ Alone(r) /\ req'[r].pc = to /\ req'[r].keep = req[r].keep
      /\ req'[r].new = req[r].new /\ req'[r].asked = req[r].asked
  BY <1>1, <1>2, Goes, Zenon
<1>4. /\ Revision(txns, base) \in [id : Nat, pair : Pair]
      /\ Revision(txns, base).pair = base
  BY <1>2, Zenon DEF Types, Stored, Revision
<1>5. revs' \in Seq([id : Nat, pair : Pair]) /\ Saved'
  <2> DEFINE S == [id : Nat, pair : Pair]
             e == Revision(txns, base)
  <2>1. revs \in Seq(S) /\ e \in S /\ revs' = PruneRevisions(<<e>> \o revs)
    BY <1>1, <1>2, <1>4, Zenon DEF Types, Stored
  <2> HIDE DEF S, e
  <2>2. revs' \in Seq(S) /\ Len(revs') > 0 /\ revs'[1] = e
    BY <2>1, PruneKeepsNewest, Zenon
  <2> QED BY <1>1, <1>4, <2>2, Zenon DEF Saved, S, e
<1>6. Wanted(r)'
  BY <1>1, <1>2, <1>3, Zenon DEF Wanted, At
<1>7. Written(r)'
  BY <1>1, <1>2, <1>3, <1>5, Zenon DEF Written, At, Is
<1>8. Awaited'
  BY <1>1, <1>2, NobodyAwaits, Zenon DEF Awaiting, At
<1>9. Settled'
  BY <1>1, <1>3, StillSettled, Zenon DEF Unwritten
<1>10. Moves(r) /\ Stored'
  BY <1>1, <1>2, <1>3, <1>5, Zenon DEF Moves, Holding, Types, Stored
<1> QED BY <1>2, <1>3, <1>5, <1>6, <1>7, <1>8, <1>9, <1>10, HolderStep, Zenon

\* The rule file is written.
LEMMA WriteRulesKeeps ==
    ASSUME Inv, NEW r \in Request, WriteRules(r)
    PROVE  Inv'
<1>1. /\ req[r].pc = "rules" /\ Goto(r, "config") /\ rules' = req[r].new.rules
      /\ UNCHANGED <<config, revs, backups, running, loading, mu, last, base, txns>>
  BY Zenon DEF WriteRules, At, store, waf
<1>2. /\ Wanted(r) /\ Written(r) /\ Types /\ mu = r
      /\ req[r].new.rules \in RuleFile \cup {Absent}
  <2>1. req[r].pc \in Holding
    BY <1>1, Zenon DEF Holding
  <2> QED BY <2>1, Pairs, Zenon
<1>3. /\ Alone(r) /\ req'[r].pc = "config" /\ req'[r].keep = req[r].keep
      /\ req'[r].new = req[r].new /\ req'[r].asked = req[r].asked
  BY <1>1, <1>2, Goes, Zenon
<1>4. Saved'
  BY <1>1, <1>2, Zenon DEF Written, Saved, Backed
<1>5. Wanted(r)'
  BY <1>1, <1>2, <1>3, Zenon DEF Wanted, At
<1>6. Written(r)'
  BY <1>1, <1>2, <1>3, <1>4, Zenon DEF Written, At, Is
<1>7. Awaited'
  BY <1>1, <1>2, NobodyAwaits, Zenon DEF Awaiting, At
<1>8. Settled'
  BY <1>3, NotCalm, Zenon DEF Unwritten
<1>9. Moves(r) /\ Stored'
  BY <1>1, <1>2, <1>3, Zenon DEF Moves, Holding, Types, Stored
<1> QED BY <1>2, <1>3, <1>4, <1>5, <1>6, <1>7, <1>8, <1>9, HolderStep, Zenon

\* The transaction gives up before it has written.
LEMMA TransactionFailsKeeps ==
    ASSUME Inv, NEW r \in Request, TransactionFails(r)
    PROVE  Inv'
<1>1. /\ req[r].pc \in {"revision", "rules"} /\ Become(r, Idle) /\ mu' = None
      /\ UNCHANGED <<config, rules, revs, backups, running, loading, last, base, txns>>
  BY Zenon DEF TransactionFails, Abort, At, files, store, waf
<1>2. Types /\ mu = r
  <2>1. req[r].pc \in Holding
    BY <1>1, Zenon DEF Holding
  <2> QED BY <2>1, Pairs, Zenon
<1>3. Alone(r) /\ req'[r].pc = "idle"
  BY <1>1, <1>2, Becomes, IdleFields, Zenon
<1>4. Wanted(r)' /\ Written(r)'
  BY <1>3, Zenon DEF Wanted, Written, At, Backed
<1>5. (Is(base) \/ Saved)'
  BY <1>1, Zenon DEF Inv, Is, Saved
<1>6. Awaited'
  BY <1>1, <1>2, NobodyAwaits, Zenon DEF Awaiting, At
<1>7. Settled'
  BY <1>1, <1>3, StillSettled, Zenon DEF Unwritten
<1>8. Moves(r) /\ Stored'
  BY <1>1, <1>2, <1>3, Zenon DEF Moves, Types, Stored
<1> QED BY <1>2, <1>3, <1>4, <1>5, <1>6, <1>7, <1>8, HolderStep, Zenon

\* What is left to show for a step to another stage after the first write.
LEMMA OnwardStep ==
    ASSUME Inv, NEW r \in Request, req[r].pc \in Backed, ~Awaiting(r), Onward(r),
           Stored', Saved', Written(r)', UNCHANGED <<running, loading>>
    PROVE  Inv'
<1>1. Wanted(r) /\ mu = r /\ ~At(r, "idle")
  BY Pairs, Stages, Zenon DEF At
<1>2. Wanted(r)'
  BY <1>1, Zenon DEF Onward, Wanted, At
<1>3. Awaited'
  BY <1>1, NobodyAwaits, Zenon
<1>4. Alone(r) /\ Moves(r) /\ Settled'
  BY Stages, NotCalm, Zenon DEF Onward, Moves
<1> QED BY <1>1, <1>2, <1>3, <1>4, HolderStep, Zenon

\* restore() begins.
LEMMA UndoStep ==
    ASSUME Inv, NEW r \in Request, req[r].pc \in Backed, NEW why, why # "failed",
           StartUndo(r, why), Frame, Awaited'
    PROVE  Inv'
<1>1. Wanted(r) /\ Types /\ mu = r /\ ~At(r, "idle")
  BY Pairs, Stages, Zenon DEF At
<1>2. /\ Alone(r) /\ req'[r].pc = "undoConfig" /\ req'[r].undo = why /\ mu' = mu
      /\ req'[r].new = req[r].new /\ req'[r].asked = req[r].asked
  BY <1>1, Undoes, SMTT(30) DEF StartUndo
<1>3. Saved' /\ Stored'
  BY <1>1, StaysSaved, Zenon DEF Frame, Types, Stored
<1>4. Written(r)' /\ Wanted(r)'
  BY <1>1, <1>2, <1>3, Zenon DEF Written, Wanted, At
<1>5. Moves(r) /\ Settled'
  BY <1>2, Stages, NotCalm, Zenon DEF Writing, Moves
<1> QED BY <1>1, <1>2, <1>3, <1>4, <1>5, HolderStep, Zenon

\* The configuration is written, or restore() begins.
LEMMA WriteConfigKeeps ==
    ASSUME Inv, NEW r \in Request, WriteConfig(r)
    PROVE  Inv'
<1>1. req[r].pc = "config" /\ UNCHANGED <<rules, revs, backups, running, loading, mu, base, txns>>
  BY Zenon DEF WriteConfig, StartUndo, At, store, waf
<1>2. /\ Written(r) /\ Types /\ ~Awaiting(r) /\ req[r].new.config \in Config
      /\ req[r].pc \in Backed /\ mu = r
  <2>1. req[r].pc \in Backed /\ ~Awaiting(r)
    BY <1>1, Zenon DEF Backed, Awaiting, At
  <2> QED BY <2>1, Stages, Pairs, Zenon
<1>3. CASE config' = req[r].new.config /\ Goto(r, "validate")
  <2>1. /\ Alone(r) /\ req'[r].pc = "validate"
        /\ req'[r].new = req[r].new /\ req'[r].asked = req[r].asked
    BY <1>2, <1>3, Goes, Zenon
  <2>2. Stored' /\ Saved'
    BY <1>1, <1>2, <1>3, StaysSaved, Zenon DEF Types, Stored
  <2>3. Written(r)'
    BY <1>1, <1>2, <1>3, <2>1, <2>2, Zenon DEF Written, At, Is
  <2>4. Onward(r)
    BY <1>1, <2>1, Zenon DEF Onward, Writing
  <2> QED BY <1>1, <1>2, <2>2, <2>3, <2>4, OnwardStep, Zenon
<1>4. CASE config' = config /\ StartUndo(r, "write")
  <2>1. Frame /\ Awaited'
    BY <1>1, <1>2, <1>4, NobodyAwaits, Zenon DEF Frame
  <2> QED BY <1>2, <1>4, <2>1, UndoStep, Zenon
<1> QED BY <1>3, <1>4, Zenon DEF WriteConfig

\* Validation of the files as they are now.
LEMMA ValidateKeeps ==
    ASSUME Inv, NEW r \in Request, Validate(r)
    PROVE  Inv'
<1>1. /\ req[r].pc = "validate"
      /\ UNCHANGED <<config, rules, revs, backups, running, loading, mu, base, txns>>
  BY Zenon DEF Validate, StartUndo, At, files, store, waf
<1>2. /\ Written(r) /\ Types /\ ~Awaiting(r) /\ req[r].new \in Pair
      /\ req[r].pc \in Backed /\ mu = r
  <2>1. req[r].pc \in Backed /\ ~Awaiting(r)
    BY <1>1, Zenon DEF Backed, Awaiting, At
  <2> QED BY <2>1, Stages, Pairs, Zenon
<1>3. CASE Builds(Disk) /\ Goto(r, "reload")
  <2>1. /\ Alone(r) /\ req'[r].pc = "reload"
        /\ req'[r].new = req[r].new /\ req'[r].asked = req[r].asked
    BY <1>2, <1>3, Goes, Zenon
  <2>2. Stored' /\ Saved'
    BY <1>1, <1>2, StaysSaved, Zenon DEF Types, Stored
  <2>3. Is(req[r].new) /\ Builds(req[r].new)
    BY <1>1, <1>2, <1>3, DiskIs, Zenon DEF Written, At
  <2>4. Is(req[r].new)' /\ Builds(req[r].new)'
    BY <1>1, <2>1, <2>3, Zenon DEF Is, Builds
  <2>5. Written(r)'
    BY <2>1, <2>2, <2>4, Zenon DEF Written, At
  <2>6. Onward(r)
    BY <1>1, <2>1, Zenon DEF Onward, Writing
  <2> QED BY <1>1, <1>2, <2>2, <2>5, <2>6, OnwardStep, Zenon
<1>4. CASE StartUndo(r, "invalid")
  <2>1. Frame /\ Awaited'
    BY <1>1, <1>2, NobodyAwaits, Zenon DEF Frame
  <2> QED BY <1>2, <1>4, <2>1, UndoStep, Zenon
<1> QED BY <1>3, <1>4, Zenon DEF Validate

\* restore() writes the configuration back.
LEMMA RestoreConfigKeeps ==
    ASSUME Inv, NEW r \in Request, RestoreConfig(r)
    PROVE  Inv'
<1>1. /\ req[r].pc = "undoConfig"
      /\ UNCHANGED <<rules, revs, backups, running, loading, mu, base, txns>>
  BY Zenon DEF RestoreConfig, At, store, waf
<1>2. /\ Written(r) /\ Types /\ ~Awaiting(r) /\ base.config \in Config
      /\ req[r].pc \in Backed
  <2>1. req[r].pc \in Backed /\ ~Awaiting(r)
    BY <1>1, Zenon DEF Backed, Awaiting, At
  <2> QED BY <2>1, Stages, Pairs, Zenon
<1>3. CASE config' = base.config /\ Goto(r, "undoRules")
  <2>1. /\ Alone(r) /\ req'[r].pc = "undoRules"
        /\ req'[r].new = req[r].new /\ req'[r].asked = req[r].asked
    BY <1>2, <1>3, Goes, Zenon
  <2>2. Stored' /\ Saved'
    BY <1>1, <1>2, <1>3, StaysSaved, Zenon DEF Types, Stored
  <2>3. Written(r)'
    BY <1>1, <1>3, <2>1, <2>2, Zenon DEF Written, At
  <2>4. Onward(r)
    BY <1>1, <2>1, Zenon DEF Onward, Writing
  <2> QED BY <1>1, <1>2, <2>2, <2>3, <2>4, OnwardStep, Zenon
<1>4. CASE /\ config' = config
           /\ Become(r, Local("undoRules", req[r].keep, req[r].rev, req[r].new,
                              req[r].asked, "failed"))
  <2>1. /\ Alone(r) /\ req'[r].pc = "undoRules" /\ req'[r].undo = "failed"
        /\ req'[r].new = req[r].new /\ req'[r].asked = req[r].asked
    BY <1>2, <1>4, Undoes, Zenon
  <2>2. Stored' /\ Saved'
    BY <1>1, <1>2, <1>4, StaysSaved, Zenon DEF Types, Stored
  <2>3. Written(r)'
    BY <2>1, <2>2, Zenon DEF Written, At
  <2>4. Onward(r)
    BY <1>1, <2>1, Zenon DEF Onward, Writing
  <2> QED BY <1>1, <1>2, <2>2, <2>3, <2>4, OnwardStep, Zenon
<1> QED BY <1>3, <1>4, Zenon DEF RestoreConfig

\* What is left to show for the answer.
LEMMA FinishStep ==
    ASSUME Inv, NEW r \in Request, req[r].pc \in Backed, NEW result, Finish(r, result),
           Stored', Saved', Detached', Truthful(r, result)
    PROVE  Inv'
<1>1. Types /\ mu = r /\ req[r].asked \in Pair
  BY Pairs, Stages, Zenon
<1>2. Become(r, Idle) /\ mu' = None /\ last' = Ended(result, req[r].asked)
  BY Zenon DEF Finish
<1>3. Alone(r) /\ req'[r].pc = "idle" /\ Moves(r)
  BY <1>1, <1>2, Becomes, IdleFields, Zenon DEF Moves
<1>4. Wanted(r)' /\ Written(r)'
  BY <1>3, Zenon DEF Wanted, Written, At, Backed
<1>5. Awaited'
  BY Zenon DEF Awaited, Detached
<1>6. last'.result = result /\ last'.asked = req[r].asked
  BY <1>2, EndedFields, SMTT(30)
<1>7. Settled'
  BY <1>1, <1>6, Zenon DEF Settled, Truthful
<1> QED BY <1>1, <1>3, <1>4, <1>5, <1>7, HolderStep, Zenon

\* restore() writes the rules back, and the error is returned.
LEMMA RestoreRulesKeeps ==
    ASSUME Inv, NEW r \in Request, RestoreRules(r)
    PROVE  Inv'
<1>1. /\ req[r].pc = "undoRules"
      /\ UNCHANGED <<config, revs, backups, running, loading, base, txns>>
  BY Zenon DEF RestoreRules, At, store, waf
<1>2. /\ Written(r) /\ Types /\ mu = r /\ ~Awaiting(r) /\ base.rules \in RuleFile \cup {Absent}
      /\ req[r].pc \in Backed
  <2>1. req[r].pc \in Backed /\ ~Awaiting(r)
    BY <1>1, Zenon DEF Backed, Awaiting, At
  <2> QED BY <2>1, Stages, Pairs, Zenon
<1>3. Detached'
  BY <1>1, <1>2, NotAwaited, Zenon DEF Inv, Awaited, Detached
<1>4. rules' \in {rules, base.rules} => Stored' /\ Saved'
  BY <1>1, <1>2, StaysSaved, Zenon DEF Types, Stored
<1>5. CASE rules' = base.rules /\ req[r].undo = "reload" /\ Goto(r, "again") /\ UNCHANGED mu
  <2>1. /\ Alone(r) /\ req'[r].pc = "again"
        /\ req'[r].new = req[r].new /\ req'[r].asked = req[r].asked
    BY <1>2, <1>5, Goes, ZenonT(30)
  <2>2. Is(base)'
    BY <1>1, <1>2, <1>5, Zenon DEF Written, At, Is
  <2>3. Written(r)'
    BY <1>4, <1>5, <2>1, <2>2, Zenon DEF Written, At
  <2>4. Onward(r)
    BY <1>5, <2>1, Zenon DEF Onward, Writing
  <2> QED BY <1>1, <1>2, <1>4, <1>5, <2>3, <2>4, OnwardStep, Zenon
<1>6. CASE rules' = base.rules /\ req[r].undo = "invalid" /\ Finish(r, "rolledback")
  <2>1. Is(base)'
    BY <1>1, <1>2, <1>6, Zenon DEF Written, At, Is
  <2>2. Truthful(r, "rolledback")
    BY <2>1, Zenon DEF Truthful
  <2> QED BY <1>2, <1>3, <1>4, <1>6, <2>2, FinishStep, Zenon
<1>7. CASE rules' \in {rules, base.rules} /\ Finish(r, "failed")
  <2>1. Truthful(r, "failed")
    BY Zenon DEF Truthful
  <2> QED BY <1>2, <1>3, <1>4, <1>7, <2>1, FinishStep, Zenon
<1> QED BY <1>5, <1>6, <1>7, Zenon DEF RestoreRules

\* What the transaction makes of the WAF's answer, when "ok" means that the WAF
\* serves the files.
LEMMA AnswerKeeps ==
    ASSUME Inv, NEW r \in Request, Awaiting(r), NEW answer, Answer(r, answer),
           Frame, Detached', answer = "ok" => running' = Disk /\ loading' = NoLoad
    PROVE  Inv'
<1>1. /\ Written(r) /\ Wanted(r) /\ Types /\ mu = r /\ req[r].pc \in Backed
      /\ req[r].new \in Pair /\ req[r].asked \in Pair /\ ~At(r, "idle")
  <2>1. req[r].pc \in Backed
    BY Zenon DEF Backed, Awaiting, At
  <2> QED BY <2>1, Stages, Pairs, Zenon DEF At
<1>2. Disk' = Disk /\ Stored' /\ Saved'
  BY <1>1, StaysSaved, Zenon DEF Disk, Frame, Types, Stored
<1>3. CASE At(r, "reload") /\ answer \in {"ok", "restart"} /\ Finish(r, answer)
  <2>1. Is(req[r].new) /\ Builds(req[r].new)
    BY <1>1, <1>3, Zenon DEF Written
  <2>2. Disk = req[r].new
    BY <1>1, <2>1, DiskIs, Zenon
  <2>3. Effective(Disk) = Effective(req[r].asked)
    <3>1. /\ req[r].new.config = req[r].asked.config
          /\ req[r].new.rules \in {req[r].asked.rules, Absent}
      BY <1>1, Zenon DEF Wanted
    <3>2. CASE req[r].new.config.gui
      <4>1. req[r].new.rules = req[r].asked.rules
        BY <2>1, <3>1, <3>2, Zenon DEF Builds
      <4>2. req[r].new = req[r].asked
        BY <1>1, <3>1, <4>1, SMTT(30) DEF Pair
      <4> QED BY <2>2, <4>2, Zenon
    <3>3. CASE ~req[r].new.config.gui
      BY <2>2, <3>1, <3>3, Zenon DEF Effective
    <3> QED BY <3>2, <3>3, Zenon
  <2>4. Truthful(r, answer)
    BY <1>2, <1>3, <2>3, Zenon DEF Truthful
  <2> QED BY <1>1, <1>2, <1>3, <2>4, FinishStep, Zenon
<1>4. CASE At(r, "reload") /\ answer = "error" /\ StartUndo(r, "reload")
  <2>1. Awaited'
    BY Zenon DEF Awaited, Detached
  <2> QED BY <1>1, <1>4, <2>1, UndoStep, Zenon
<1>5. CASE At(r, "again") /\ answer = "ok" /\ Finish(r, "reverted")
  <2>1. Is(base)'
    BY <1>1, <1>5, Zenon DEF Written, Is, Frame
  <2>2. Truthful(r, "reverted")
    BY <1>2, <1>5, <2>1, Zenon DEF Truthful
  <2> QED BY <1>1, <1>2, <1>5, <2>2, FinishStep, Zenon
<1>6. CASE At(r, "again") /\ answer # "ok" /\ Finish(r, "unreloaded")
  <2>1. Is(base)'
    BY <1>1, <1>6, Zenon DEF Written, Is, Frame
  <2>2. Truthful(r, "unreloaded")
    BY <2>1, Zenon DEF Truthful
  <2> QED BY <1>1, <1>2, <1>6, <2>2, FinishStep, Zenon
<1> QED BY <1>3, <1>4, <1>5, <1>6, Zenon DEF Answer

\* The call fails without the WAF's doing.
LEMMA CallFailsKeeps ==
    ASSUME Inv, NEW r \in Request, Timeout(r) \/ Refused(r)
    PROVE  Inv'
<1>1. Awaiting(r) /\ Answer(r, "error") /\ Frame /\ running' = running
  BY Zenon DEF Timeout, Refused, Frame, files, store, waf
<1>2. mu = r
  <2>1. req[r].pc \in Backed
    BY <1>1, Zenon DEF Backed, Awaiting, At
  <2> QED BY <2>1, Stages, Pairs, Zenon
<1>3. /\ loading # NoLoad => /\ running # Down /\ loading.config \in Config
                              /\ loading.for \in Request \cup {Down}
      /\ NoLoad.for = None /\ None \notin Request /\ Down \notin Request
  BY TransactionConstants, Zenon DEF Inv, Awaited, NoLoad
<1>4. Detached'
  <2>1. CASE Refused(r)
    BY <1>3, <2>1, Zenon DEF Refused, waf, Detached
  <2>2. CASE Timeout(r) /\ loading.for = r
    <3>1. loading' = [for |-> Down, config |-> loading.config] /\ loading # NoLoad
      BY <1>3, <2>2, Zenon DEF Timeout
    <3> QED BY <1>1, <1>3, <3>1, Zenon DEF Detached
  <2>3. CASE Timeout(r) /\ loading.for # r
    <3>1. loading' = loading
      BY <2>3, Zenon DEF Timeout
    <3>2. loading.for \notin Request
      BY <1>2, <2>3, NotAwaited, Zenon
    <3> QED BY <1>1, <1>3, <3>1, <3>2, Zenon DEF Detached
  <2> QED BY <2>1, <2>2, <2>3, Zenon
<1> QED BY <1>1, <1>4, AnswerKeeps, Zenon

\* The steps of a transaction.
LEMMA TransactKeeps ==
    ASSUME Inv, NEW r \in Request, Transact(r)
    PROVE  Inv'
BY CreateRevisionKeeps, WriteRulesKeeps, TransactionFailsKeeps, WriteConfigKeeps,
   ValidateKeeps, RestoreConfigKeeps, RestoreRulesKeeps, CallFailsKeeps, Zenon DEF Transact

-----------------------------------------------------------------------------
(* The WAF, the backups, and a crash.                                       *)

\* A step that leaves the files and the requests alone.
Aside == UNCHANGED <<config, rules, revs, mu, req, last, base, txns>>

\* What is left to show for it.
LEMMA OutsideStep ==
    ASSUME Inv, Aside, backups' \subseteq Pair, Awaited',
           running' \in {running, Disk, Down} \/ ~Calm \/ last.result \notin {"ok", "reverted"},
           loading' # NoLoad => loading' = loading \/ loading'.config = config
    PROVE  Inv'
<1>1. Types' /\ Mutex' /\ (Is(base) \/ Saved)'
  BY Zenon DEF Aside, Inv, Types, Stored, Mutex, Is, Saved
<1>2. \A r \in Request : Wanted(r)' /\ Written(r)'
  BY ZenonT(30) DEF Aside, Inv, Wanted, Written, At, Is, Saved, Builds
<1>3. Settled'
  <2>1. Disk' = Disk /\ (Calm' => Calm)
    BY Zenon DEF Aside, Disk, Calm
  <2> QED BY <2>1, Zenon DEF Aside, Inv, Settled, Is
<1> QED BY <1>1, <1>2, <1>3, Zenon DEF Inv

\* A reload reads the configuration.
LEMMA LoadConfigKeeps ==
    ASSUME Inv, NEW for \in Request \cup {Down}, LoadConfig(for)
    PROVE  Inv'
<1> DEFINE l == [for |-> for, config |-> config]
<1>1. /\ loading' = l /\ running # Down /\ UNCHANGED <<running, backups>> /\ Aside
      /\ for \in Request => Awaiting(for)
  BY TransactionConstants, Zenon DEF LoadConfig, files, store, txn, Aside
<1>2. l.for = for /\ l.config = config /\ config \in Config /\ backups \subseteq Pair
  BY Zenon DEF Inv, Types, Stored
<1> HIDE DEF l
<1>3. Awaited'
  BY <1>1, <1>2, Zenon DEF Aside, Awaited, Awaiting, At
<1> QED BY <1>1, <1>2, <1>3, OutsideStep, Zenon

\* ... and then the rules, and publishes what it has built.
LEMMA LoadRulesKeeps ==
    ASSUME Inv, LoadRules
    PROVE  Inv'
<1> DEFINE p == P(loading.config, rules)
<1>1. loading # NoLoad /\ loading' = NoLoad /\ Frame
  BY Zenon DEF LoadRules, files, store, Frame
<1>2. PICK answer \in {"ok", "restart", "error"} :
         /\ Publish(p, answer)
         /\ IF loading.for = Down THEN UNCHANGED txn ELSE Answer(loading.for, answer)
  BY Zenon DEF LoadRules
<1>3. /\ running # Down /\ loading.config \in Config /\ loading.for \in Request \cup {Down}
      /\ loading.for \in Request => Awaiting(loading.for) /\ loading.config = config
  BY <1>1, Zenon DEF Inv, Awaited
<1>4. NoLoad.for = None /\ None \notin Request /\ Down \notin Request
  BY TransactionConstants, Zenon DEF NoLoad
<1>5. running' \in {running, p} /\ (answer = "ok" => running' = p)
  BY <1>2, Zenon DEF Publish
<1>6. loading.config = config => p = Disk
  BY Zenon DEF Disk
<1> HIDE DEF p
<1>7. CASE loading.for = Down
  <2>1. Aside
    BY <1>1, <1>2, <1>7, Zenon DEF txn, Frame, Aside
  <2>2. Awaited'
    BY <1>1, <1>4, Zenon DEF Awaited
  <2>3. running' \in {running, Disk, Down} \/ ~Calm \/ last.result \notin {"ok", "reverted"}
    BY <1>1, <1>5, <1>6, Zenon DEF Inv, Settled
  <2>4. backups' \subseteq Pair
    BY <1>1, Zenon DEF Inv, Types, Stored, Frame
  <2> QED BY <1>1, <2>1, <2>2, <2>3, <2>4, OutsideStep, Zenon
<1>8. CASE loading.for \in Request
  <2>1. Awaiting(loading.for) /\ Answer(loading.for, answer)
    BY <1>2, <1>3, <1>4, <1>8, Zenon
  <2>2. answer = "ok" => running' = Disk /\ loading' = NoLoad
    BY <1>1, <1>3, <1>5, <1>6, <1>8, Zenon
  <2>3. Detached'
    BY <1>1, <1>4, Zenon DEF Detached
  <2> QED BY <1>1, <1>8, <2>1, <2>2, <2>3, AnswerKeeps, Zenon
<1> QED BY <1>3, <1>7, <1>8, Zenon

\* The WAF starts on the files as they are.
LEMMA RestartKeeps ==
    ASSUME Inv, RestartWAF
    PROVE  Inv'
<1>1. running' \in {Disk, Down} /\ loading' = NoLoad /\ Frame
  BY Zenon DEF RestartWAF, files, store, Frame
<1>2. NoLoad.for = None /\ None \notin Request
  BY TransactionConstants, Zenon DEF NoLoad
<1>3. CASE loading.for \in Request
  <2>1. Awaiting(loading.for) /\ Answer(loading.for, "error")
    BY <1>3, Zenon DEF Inv, Awaited, RestartWAF
  <2>2. Detached'
    BY <1>1, <1>2, Zenon DEF Detached
  <2> QED BY <1>1, <1>3, <2>1, <2>2, AnswerKeeps, Zenon
<1>4. CASE loading.for \notin Request
  <2>1. Aside
    BY <1>1, <1>4, Zenon DEF RestartWAF, txn, Frame, Aside
  <2>2. Awaited' /\ backups' \subseteq Pair
    BY <1>1, <1>2, Zenon DEF Awaited, Inv, Types, Stored, Frame
  <2> QED BY <1>1, <2>1, <2>2, OutsideStep, Zenon
<1> QED BY <1>3, <1>4, Zenon

\* The Control Center stops wherever it is.
LEMMA CrashKeeps ==
    ASSUME Inv, Crash
    PROVE  Inv'
<1>1. /\ req' = [r \in Request |-> Idle] /\ mu' = None /\ last' = Ended("lost", NoPair)
      /\ UNCHANGED <<config, rules, revs, backups, running, base, txns>>
  BY Zenon DEF Crash, files, store
<1>2. /\ DOMAIN req' = Request
      /\ \A r \in Request : req'[r].pc = "idle"
  BY <1>1, IdleFields, Zenon
<1>3. Types' /\ Mutex' /\ (Is(base) \/ Saved)'
  BY <1>1, <1>2, TransactionConstants, Stages, Zenon DEF Inv, Types, Stored, Mutex, Is, Saved
<1>4. \A r \in Request : Wanted(r)' /\ Written(r)'
  BY <1>2, Zenon DEF Wanted, Written, At, Backed
<1>5. Awaited'
  <2>1. /\ loading # NoLoad => /\ running # Down /\ loading.config \in Config
                                /\ loading.for \in Request \cup {Down}
        /\ NoLoad.for = None /\ None \notin Request /\ Down \notin Request
    BY TransactionConstants, Zenon DEF Inv, Awaited, NoLoad
  <2>2. CASE loading.for \in Request
    <3>1. loading' = [for |-> Down, config |-> loading.config] /\ loading # NoLoad
      BY <2>1, <2>2, Zenon DEF Crash
    <3> QED BY <1>1, <2>1, <3>1, Zenon DEF Awaited
  <2>3. CASE loading.for \notin Request
    <3>1. loading' = loading
      BY <2>3, Zenon DEF Crash
    <3> QED BY <1>1, <2>1, <2>3, <3>1, Zenon DEF Awaited
  <2> QED BY <2>2, <2>3, Zenon
<1>6. Settled'
  BY <1>1, EndedFields DEF Settled
<1> QED BY <1>3, <1>4, <1>5, <1>6, Zenon DEF Inv

-----------------------------------------------------------------------------
(* The theorems.                                                            *)

\* The initial states.
LEMMA InitInv == Init => Inv
<1> SUFFICES ASSUME Init PROVE Inv
  BY Zenon
<1>1. Types
  BY PairFields, IdleFields DEF Init, Types, Stored, Disk, Stage
<1>2. \A r \in Request : req[r].pc = "idle"
  BY IdleFields, Zenon DEF Init
<1>3. Mutex /\ \A r \in Request : Wanted(r) /\ Written(r)
  BY <1>2, TransactionConstants, Stages, Zenon DEF Init, Mutex, Wanted, Written, At, Backed
<1>4. Is(base)
  BY PairFields, Zenon DEF Init, Is, Disk
<1>5. Awaited
  BY TransactionConstants, Zenon DEF Init, Awaited, NoLoad
<1>6. Settled
  BY EndedFields DEF Init, Settled
<1> QED BY <1>1, <1>3, <1>4, <1>5, <1>6, Zenon DEF Inv

\* Every step keeps the invariant.
LEMMA NextInv == Inv /\ [Next]_vars => Inv'
<1> SUFFICES ASSUME Inv, [Next]_vars PROVE Inv'
  BY Zenon
<1>1. ASSUME NEW r \in Request, \E c \in Config : ApplyConfig(r, c) PROVE Inv'
  BY <1>1, BeginKeeps, Zenon
<1>2. ASSUME NEW r \in Request, \E x \in RuleFile : ApplyRules(r, x) PROVE Inv'
  BY <1>2, BeginKeeps, Zenon
<1>3. ASSUME NEW r \in Request, Read(r) \/ Lock(r) \/ Transact(r) PROVE Inv'
  BY <1>3, ReadKeeps, BeginKeeps, TransactKeeps, Zenon
<1>4. CASE CreateBackup \/ \E p \in backups : DeleteBackup(p)
  <2>1. Aside /\ UNCHANGED <<running, loading>> /\ backups' \subseteq backups \cup {Disk}
    BY <1>4, Zenon DEF CreateBackup, DeleteBackup, files, waf, txn, Aside
  <2>2. backups' \subseteq Pair
    BY <2>1, DiskPair, Zenon DEF Inv, Types, Stored
  <2>3. Awaited'
    BY <2>1, Zenon DEF Aside, Inv, Awaited, Awaiting, At
  <2> QED BY <2>1, <2>2, <2>3, OutsideStep, Zenon
<1>5. ASSUME NEW for \in Request \cup {Down}, LoadConfig(for) PROVE Inv'
  BY <1>5, LoadConfigKeeps, Zenon
<1>6. CASE LoadRules
  BY <1>6, LoadRulesKeeps, Zenon
<1>7. CASE Hup \/ UNCHANGED vars
  <2>1. Aside /\ UNCHANGED <<backups, running, loading>>
    BY <1>7, Zenon DEF Hup, vars, files, store, txn, Aside
  <2>2. backups' \subseteq Pair /\ Awaited'
    BY <2>1, Zenon DEF Aside, Inv, Types, Stored, Awaited, Awaiting, At
  <2> QED BY <2>1, <2>2, OutsideStep, Zenon
<1>8. CASE RestartWAF
  BY <1>8, RestartKeeps, Zenon
<1>9. CASE Crash
  BY <1>9, CrashKeeps, Zenon
<1> QED BY <1>1, <1>2, <1>3, <1>4, <1>5, <1>6, <1>7, <1>8, <1>9, Zenon DEF Next

\* The invariant holds throughout.
THEOREM AlwaysInv == Spec => []Inv
<1> QED BY InitInv, NextInv, PTL DEF Spec

\* Between transactions nobody has written a file that is not answered for.
LEMMA RestIsCalm == Inv /\ AtRest => Calm
BY TransactionConstants, Stages, Zenon DEF Inv, Types, Mutex, AtRest, Calm, Unwritten

\* "applied" and "rolled back" mean that the WAF serves the files, whatever
\* reloads, restarts and time-outs happen meanwhile (applyBundleLocked).
THEOREM AnswersAreServed == Spec => []AnsweredIsServed
<1>1. Inv => AnsweredIsServed
  BY RestIsCalm, Zenon DEF Inv, Settled, AnsweredIsServed
<1> QED BY <1>1, AlwaysInv, PTL

\* A change that is answered "applied" or "restart required" is the one that was
\* asked for, also when the revision was pruned while it was read.
THEOREM AppliesWhatWasAsked == Spec => []AppliedAsAsked
<1>1. Inv => AppliedAsAsked
  BY RestIsCalm, Zenon DEF Inv, Settled, AppliedAsAsked
<1> QED BY <1>1, AlwaysInv, PTL

\* An answer that says so means that both files are as they were (restore).
THEOREM RollsBack == Spec => []RolledBack
<1>1. Inv => RolledBack
  BY RestIsCalm, DiskIs, Zenon DEF Inv, Types, Stored, Settled, RolledBack
<1> QED BY <1>1, AlwaysInv, PTL

\* The files as the latest transaction found them are on disk or the newest
\* listed revision, wherever it was cut off (createRevisionLocked).
THEOREM CanBeUndone == Spec => []UndoAvailable
<1>1. Inv => UndoAvailable
  <2> SUFFICES ASSUME Inv, Disk # base PROVE \E i \in DOMAIN revs : revs[i].pair = base
    BY Zenon DEF UndoAvailable
  <2>1. Saved /\ revs \in Seq([id : Nat, pair : Pair])
    BY DiskIs, Zenon DEF Inv, Types, Stored
  <2>2. 1 \in DOMAIN revs
    BY <2>1 DEF Saved
  <2> QED BY <2>1, <2>2, Zenon DEF Saved
<1> QED BY <1>1, AlwaysInv, PTL

-----------------------------------------------------------------------------
(* What is left for later builds.                                           *)

\* restore() has written back what it has come to.
Whole(r) == At(r, "undoRules") => req[r].undo # "failed"

\* Until the files are left half-way: they build between transactions, what a
\* transaction would restore builds while it runs, and the backups build.
BuildInv ==
    ~broken => /\ AtRest => Builds(Disk)
               /\ ~AtRest => Builds(base)
               /\ \A r \in Request : Whole(r)
               /\ \A p \in backups : Builds(p)

\* The files build at the start.
LEMMA BuildInit == Init => BuildInv
BY IdleFields, Zenon DEF Init, BuildInv, AtRest, Whole, At

\* A request becomes something else.
LEMMA WholeStep ==
    ASSUME Inv, BuildInv, NEW r \in Request, NEW s, Become(r, s), broken => broken',
           s.pc = "undoRules" => s.undo # "failed"
    PROVE  ~broken' => \A q \in Request : Whole(q)'
<1>1. Alone(r) /\ req'[r] = s
  BY Becomes, Zenon DEF Inv
<1> QED BY <1>1, Zenon DEF BuildInv, Whole, At, Alone

\* configMu stays with its holder.
LEMMA HeldStep ==
    ASSUME BuildInv, mu # None, UNCHANGED <<mu, base, backups>>, broken => broken',
           ~broken' => \A q \in Request : Whole(q)'
    PROVE  BuildInv'
BY Zenon DEF BuildInv, AtRest, Builds

\* configMu is released.
LEMMA DoneStep ==
    ASSUME Inv, BuildInv, NEW r \in Request, Become(r, Idle), mu' = None, UNCHANGED backups,
           broken => broken', ~broken' => Builds(P(config', rules'))
    PROVE  BuildInv'
<1>1. ~broken' => \A q \in Request : Whole(q)'
  BY WholeStep, IdleFields, Zenon
<1> QED BY <1>1, Zenon DEF BuildInv, AtRest, Disk, Builds

\* What the transaction found is back.
LEMMA BaseBuilds == ASSUME Inv, BuildInv, Is(base), mu # None PROVE ~broken => Builds(Disk)
<1>1. Disk = base
  BY DiskIs, Zenon DEF Inv, Types, Stored
<1> QED BY <1>1, Zenon DEF BuildInv, AtRest

\* A request goes on under configMu.
LEMMA GoesOn ==
    ASSUME Inv, BuildInv, NEW r \in Request, mu = r, NEW pc, NEW k, NEW v, NEW n, NEW a, NEW u,
           Become(r, Local(pc, k, v, n, a, u)), UNCHANGED <<mu, base, backups>>, broken => broken',
           pc = "undoRules" => u # "failed"
    PROVE  BuildInv'
<1> DEFINE s == Local(pc, k, v, n, a, u)
<1>2. s.pc = pc /\ s.undo = u /\ Become(r, s)
  BY Zenon DEF Local
<1> HIDE DEF s
<1>1. ~broken' => \A q \in Request : Whole(q)'
  BY <1>2, WholeStep, Zenon
<1> QED BY <1>1, HeldStep, TransactionConstants, Zenon

\* What the transaction makes of an answer of the WAF.
LEMMA AnswerBuilds ==
    ASSUME Inv, BuildInv, NEW r \in Request, Awaiting(r), NEW answer, Answer(r, answer),
           UNCHANGED <<config, rules, base, backups, broken>>
    PROVE  BuildInv'
<1>1. /\ Written(r) /\ mu = r /\ mu # None /\ req[r].new \in Pair
      /\ P(config', rules') = Disk
  <2>1. req[r].pc \in Backed
    BY Zenon DEF Backed, Awaiting, At
  <2> QED BY <2>1, Stages, Pairs, TransactionConstants, Zenon DEF Disk
<1>2. ASSUME NEW result, Finish(r, result) PROVE BuildInv'
  <2>1. ~broken => Builds(Disk)
    <3>1. CASE At(r, "reload")
      <4>1. Is(req[r].new) /\ Builds(req[r].new)
        BY <1>1, <3>1, Zenon DEF Written
      <4>2. Disk = req[r].new
        BY <1>1, <4>1, DiskIs, Zenon
      <4> QED BY <4>1, <4>2, Zenon
    <3>2. CASE At(r, "again")
      BY <1>1, <3>2, BaseBuilds, Zenon DEF Written
    <3> QED BY <3>1, <3>2, Zenon DEF Awaiting
  <2> QED BY <1>1, <1>2, <2>1, DoneStep, Zenon DEF Finish
<1>3. CASE StartUndo(r, "reload")
  BY <1>1, <1>3, GoesOn, Zenon DEF StartUndo
<1> QED BY <1>2, <1>3, Zenon DEF Answer

\* A transaction takes configMu, when the files build.
LEMMA EnterBuilds ==
    ASSUME Inv, BuildInv, NEW r \in Request, NEW k, NEW v, NEW n, NEW a, Enter(r, k, v, n, a),
           UNCHANGED <<backups, broken>>
    PROVE  BuildInv'
<1> DEFINE s == Local("revision", k, v, n, a, "none")
<1>1. s.pc = "revision" /\ Become(r, s) /\ mu = None /\ mu' = r /\ base' = Disk
  BY Zenon DEF Local, Enter
<1> HIDE DEF s
<1>2. ~broken' => \A q \in Request : Whole(q)'
  BY <1>1, WholeStep, Zenon
<1>3. mu' # None
  BY <1>1, TransactionConstants, Zenon
<1> QED BY <1>1, <1>2, <1>3, Zenon DEF BuildInv, AtRest, Builds

\* What was read is kept.
LEMMA ReadBuilds ==
    ASSUME Inv, BuildInv, NEW r \in Request, Read(r)
    PROVE  BuildInv'
<1>1. UNCHANGED <<config, rules, mu, base, backups, broken>>
  BY Zenon DEF Read, ReadRevision, ReadRevisionRules, ReadBackup, files, store
<1>2. ASSUME NEW pc \in {"readRules", "lock"}, NEW k, NEW v, NEW n, NEW a, NEW u,
             Become(r, Local(pc, k, v, n, a, u))
      PROVE  BuildInv'
  <2> DEFINE s == Local(pc, k, v, n, a, u)
  <2>1. s.pc # "undoRules" /\ Become(r, s)
    <3>1. s.pc = pc
      BY Zenon DEF Local
    <3> QED BY <1>2, <3>1, Zenon
  <2> HIDE DEF s
  <2>2. ~broken' => \A q \in Request : Whole(q)'
    BY <1>1, <2>1, WholeStep, Zenon
  <2> QED BY <1>1, <2>2, Zenon DEF BuildInv, AtRest, Disk, Builds
<1> QED BY <1>2, Zenon DEF Read, ReadRevision, ReadRevisionRules, ReadBackup

\* The steps of a transaction.
LEMMA TransactBuilds ==
    ASSUME Inv, BuildInv, NEW r \in Request, Transact(r)
    PROVE  BuildInv'
<1>1. UNCHANGED <<base, backups>>
  BY Zenon DEF Transact, CreateRevision, WriteRules, TransactionFails, WriteConfig, Validate,
     RestoreConfig, RestoreRules, Timeout, Refused, store
<1>2. ASSUME req[r].pc \in Holding
      PROVE  mu = r /\ mu # None /\ Written(r) /\ (At(r, "undoRules") /\ ~broken => req[r].undo # "failed")
  BY <1>2, Pairs, TransactionConstants, Zenon DEF BuildInv, Whole
<1>3. ASSUME NEW pc \in {"rules", "config", "validate", "reload", "again"}, req[r].pc \in Holding, Goto(r, pc),
             UNCHANGED <<mu, broken>>
      PROVE  BuildInv'
  BY <1>1, <1>2, <1>3, GoesOn, Zenon DEF Goto
<1>4. ASSUME NEW why, req[r].pc \in Holding, StartUndo(r, why), UNCHANGED broken PROVE BuildInv'
  BY <1>1, <1>2, <1>4, GoesOn, Zenon DEF StartUndo
<1>5. CASE CreateRevision(r) \/ WriteRules(r) \/ Validate(r)
  <2>1. req[r].pc \in Holding /\ UNCHANGED broken
    BY <1>5, Zenon DEF CreateRevision, WriteRules, Validate, At, Holding
  <2> QED BY <1>3, <1>4, <1>5, <2>1, Zenon DEF CreateRevision, WriteRules, Validate
<1>6. CASE WriteConfig(r)
  <2>1. req[r].pc \in Holding /\ UNCHANGED broken
    BY <1>6, Zenon DEF WriteConfig, At, Holding
  <2> QED BY <1>3, <1>4, <1>6, <2>1, Zenon DEF WriteConfig
<1>7. CASE TransactionFails(r)
  <2>1. /\ At(r, "revision") \/ At(r, "rules")
        /\ Abort(r) /\ UNCHANGED <<config, rules, broken>>
    BY <1>7, Zenon DEF TransactionFails, files
  <2>3. req[r].pc \in Holding
    BY <2>1, Zenon DEF At, Holding
  <2>2. ~broken => Builds(Disk)
    BY <1>2, <2>1, <2>3, BaseBuilds, Zenon DEF Written
  <2> QED BY <1>1, <2>1, <2>2, DoneStep, Zenon DEF Abort, Disk
<1>8. CASE RestoreConfig(r)
  <2>1. req[r].pc = "undoConfig" /\ req[r].pc \in Holding /\ UNCHANGED mu
    BY <1>8, Zenon DEF RestoreConfig, At, Holding
  <2>2. CASE Goto(r, "undoRules") /\ UNCHANGED broken
    <3>1. req[r].undo # "failed"
      BY <1>2, <2>1, Zenon DEF Written, At
    <3> QED BY <1>1, <1>2, <2>1, <2>2, <3>1, GoesOn, Zenon DEF Goto
  <2>3. CASE broken' = TRUE
    BY <2>3, Zenon DEF BuildInv
  <2> QED BY <1>8, <2>2, <2>3, Zenon DEF RestoreConfig
<1>9. CASE RestoreRules(r)
  <2>1. req[r].pc = "undoRules" /\ req[r].pc \in Holding /\ UNCHANGED config
    BY <1>9, Zenon DEF RestoreRules, At, Holding
  <2>2. CASE rules' = base.rules /\ UNCHANGED broken /\ \E result : Finish(r, result)
    <3>1. ~broken => config' = base.config /\ rules' = base.rules
      BY <1>2, <2>1, <2>2, Zenon DEF Written, At
    <3>2. ~broken => P(config', rules') = base
      BY <3>1, Zenon DEF P, Inv, Types, Stored, Pair
    <3>3. ~broken' => Builds(P(config', rules'))
      BY <1>2, <2>1, <2>2, <3>2, Zenon DEF BuildInv, AtRest
    <3> QED BY <1>1, <2>2, <3>3, DoneStep, Zenon DEF Finish
  <2>3. CASE broken' = TRUE
    BY <2>3, Zenon DEF BuildInv
  <2>4. CASE Goto(r, "again") /\ UNCHANGED mu /\ UNCHANGED broken
    BY <1>3, <2>1, <2>4, Zenon
  <2> QED BY <1>9, <2>2, <2>3, <2>4, Zenon DEF RestoreRules
<1>10. CASE Timeout(r) \/ Refused(r)
  <2>1. Awaiting(r) /\ Answer(r, "error") /\ UNCHANGED <<config, rules, broken>>
    BY <1>10, Zenon DEF Timeout, Refused, files
  <2> QED BY <1>1, <2>1, AnswerBuilds, Zenon
<1> QED BY <1>5, <1>6, <1>7, <1>8, <1>9, <1>10, Zenon DEF Transact

\* A step that leaves the files and the requests alone.
LEMMA OutsideBuilds ==
    ASSUME BuildInv, UNCHANGED <<config, rules, mu, req, base, broken>>,
           ~broken => \A p \in backups' : Builds(p)
    PROVE  BuildInv'
BY Zenon DEF BuildInv, AtRest, Disk, Builds, Whole, At

\* Every step keeps what builds.
LEMMA BuildPreserved == ASSUME Inv, BuildInv, [Next]_vars PROVE BuildInv'
<1>1. ASSUME NEW r \in Request,
             (\E c \in Config : ApplyConfig(r, c)) \/ (\E x \in RuleFile : ApplyRules(r, x)) \/ Lock(r)
      PROVE  BuildInv'
  <2>1. UNCHANGED <<backups, broken>> /\ \E k, v, n, a : Enter(r, k, v, n, a)
    BY <1>1, Zenon DEF ApplyConfig, ApplyRules, Lock, store
  <2> QED BY <2>1, EnterBuilds, Zenon
<1>2. CASE CreateBackup
  <2>1. mu = None /\ backups' = backups \cup {Disk}
    BY <1>2, Zenon DEF CreateBackup
  <2>2. ~broken => \A p \in backups' : Builds(p)
    BY <2>1, Zenon DEF BuildInv, AtRest
  <2> QED BY <1>2, <2>2, OutsideBuilds, Zenon DEF CreateBackup, files, txn
<1>3. ASSUME NEW p, DeleteBackup(p) PROVE BuildInv'
  <2>1. ~broken => \A q \in backups' : Builds(q)
    BY <1>3, Zenon DEF DeleteBackup, BuildInv
  <2> QED BY <1>3, <2>1, OutsideBuilds, Zenon DEF DeleteBackup, files, txn
<1>4. ASSUME UNCHANGED <<config, rules, mu, req, base, broken, backups>> PROVE BuildInv'
  BY <1>4, OutsideBuilds, Zenon DEF BuildInv
<1>5. ASSUME NEW f, LoadConfig(f) PROVE BuildInv'
  BY <1>4, <1>5, Zenon DEF LoadConfig, files, store, txn
<1>6. CASE Hup \/ UNCHANGED vars
  BY <1>4, <1>6, Zenon DEF Hup, files, store, txn, vars
<1>7. CASE LoadRules \/ RestartWAF
  <2>1. UNCHANGED <<config, rules, base, backups, broken>>
    BY <1>7, Zenon DEF LoadRules, RestartWAF, files, store
  <2>2. UNCHANGED txn \/ (loading.for \in Request /\ \E answer : Answer(loading.for, answer))
    BY <1>7, Zenon DEF LoadRules, RestartWAF, Inv, Awaited
  <2>3. CASE UNCHANGED txn
    BY <1>4, <2>1, <2>3, Zenon DEF txn
  <2>4. CASE loading.for \in Request /\ \E answer : Answer(loading.for, answer)
    BY <2>1, <2>4, AnswerBuilds, Zenon DEF Inv, Awaited
  <2> QED BY <2>2, <2>3, <2>4, Zenon
<1>8. CASE Crash
  BY <1>8, Zenon DEF Crash, BuildInv
<1> QED BY <1>1, <1>2, <1>3, <1>5, <1>6, <1>7, <1>8, ReadBuilds, TransactBuilds, Zenon DEF Next

\* As long as every file can be written back and the Control Center is not
\* killed, the files between transactions and every backup build, whatever else
\* fails (applyBundleLocked, its restore closure, createBackup).
THEOREM LeftFilesBuild == Spec => []FilesBuild
<1>1. BuildInv => FilesBuild
  BY Zenon DEF BuildInv, FilesBuild
<1> QED BY <1>1, BuildInit, BuildPreserved, AlwaysInv, PTL DEF Spec
====
