------------------------ MODULE CertificatesProofs ------------------------
(***************************************************************************)
(* For any number of directories, certificates, operations and faults:     *)
(* pairs match between operations, no reload publishes a pair that does    *)
(* not, and what an operation answers is true of the files and the WAF.    *)
(*                                                                         *)
(* PairsMatch speaks of the time between operations.  The invariant says   *)
(* what holds at each stage of one: the pairs an operation does not touch  *)
(* match (Others), what it would restore matches (Saved), and how far it   *)
(* has written (Written).  Three more invariants rest on it: what an       *)
(* operation has saved and not yet put back (Intact), what a build that    *)
(* the operation waits for has read (ReadNew), and that what was read is   *)
(* still on disk when the build ends (Current).                            *)
(***************************************************************************)
EXTENDS Certificates, TLAPS

\* The files of a directory are a pair.
Match(d) == cert[d] \in Cert /\ key[d] = KeyOf[cert[d]]
\* c is a configuration: how it uses each directory, for which domains, and its
\* listeners.
IsConf(c) ==
    /\ DOMAIN c = {"use", "domains", "listen"}
    /\ c.use \in [Dir -> Use] /\ c.domains \in [Dir -> SUBSET Domain]
\* The configuration c with an enabled virtual host for the pair of directory d.
Upsert(c, d, domains) == [c EXCEPT !.use[d] = "enabled", !.domains[d] = domains]
\* The managed directories whose pair the configuration in force serves.
InForce == Managed \cap Enabled(conf)

\* The types the proof needs.
Types ==
    /\ cert \in [Dir -> Cert \cup {Absent}] /\ key \in [Dir -> Key \cup {Absent}]
    /\ IsConf(conf)

\* A pair that a virtual host with these domains may be served with.
Usable(pair, domains) ==
    pair # Absent /\ pair.key = KeyOf[pair.cert] /\ domains \subseteq Covers[pair.cert]

\* What a build has loaded.
Loading ==
    \/ loading = NoLoad
    \/ /\ IsConf(loading.conf)
       /\ loading.todo \subseteq Dir /\ loading.dir \in loading.todo \cup {None}
       /\ loading.got \in [Dir -> [cert : Cert, key : Key] \cup {Absent}]
       /\ \A d \in Enabled(loading.conf) \ loading.todo :
             Usable(loading.got[d], loading.conf.domains[d])

\* A command of cherrywafctl installs no managed pair.
Tooling ==
    /\ tool.pc = "key" => tool.dir \in Dir \ Managed /\ tool.new \in Cert
    /\ tool.pc = "upsert" => /\ tool.dir \in Dir /\ IsConf(tool.read)
                             /\ \E domains \in SUBSET Domain :
                                   tool.new = Upsert(tool.read, tool.dir, domains)

OfPair == {"cert", "key", "meta", "undoCert", "undoKey", "undoMeta"}
OfConfig == {"config", "validate", "undoConfig"}

\* Which stages an operation goes through, and what it installs.
Staged ==
    /\ op.pc \in OfPair \cup {"remove"} => op.dir \in Managed
    /\ op.pc \in OfConfig \cup {"idle"} => op.dir = None
    /\ op.pc \in {"reload", "again"} => op.dir \in Managed \cup {None}
    /\ op.pc \in OfPair \cup {"reload"} /\ op.dir # None
          => /\ op.new \in Cert /\ DomainOf[op.dir] \in Covers[op.new]
             /\ base.cert \in Cert \cup {Absent} /\ base.key \in Key \cup {Absent}
    /\ op.pc = "config" => IsConf(op.new)
    /\ op.pc \in OfConfig \cup {"reload"} /\ op.dir = None => IsConf(base)

\* The pairs an operation does not touch match, unless its configuration is unchecked.
Others == op.pc \notin {"validate", "undoConfig"} => \A d \in InForce \ {op.dir} : Match(d)

\* What an operation would restore matches.
Saved ==
    /\ op.pc \in OfPair \cup {"reload"} /\ op.dir \in InForce
          => base.cert \in Cert /\ base.key = KeyOf[base.cert]
    /\ op.pc \in OfConfig \cup {"reload"} /\ op.dir = None
          => \A d \in Managed \cap Enabled(base) : Match(d)

\* How far it has written or restored.
Written ==
    /\ op.pc = "key" => cert[op.dir] = op.new
    /\ op.pc = "undoKey" => cert[op.dir] = base.cert
    /\ op.pc = "undoMeta" => cert[op.dir] = base.cert /\ key[op.dir] = base.key
    /\ op.pc \in {"cert", "meta", "reload", "again"} /\ op.dir \in InForce => Match(op.dir)
    /\ op.pc = "remove" => op.dir \notin InForce

\* The inductive invariant.
Inv == Types /\ Loading /\ Tooling /\ Staged /\ (~broken => Others /\ Saved /\ Written)

-----------------------------------------------------------------------------
(* Helpers.                                                                 *)

\* The fields of a build ...
LEMMA LoadFields ==
    ASSUME NEW f, NEW c, NEW t, NEW d, NEW r, NEW g
    PROVE  /\ Load(f, c, t, d, r, g).for = f /\ Load(f, c, t, d, r, g).conf = c
           /\ Load(f, c, t, d, r, g).todo = t /\ Load(f, c, t, d, r, g).dir = d
           /\ Load(f, c, t, d, r, g).got = g
BY Zenon DEF Load

\* ... and of none.
LEMMA NoLoadFields == NoLoad.for = "nobody" /\ NoLoad.todo = {} /\ NoLoad.dir = None
BY Zenon DEF NoLoad, Load

\* No operation.
LEMMA IdleFields == Idle.pc = "idle" /\ Idle.dir = None /\ Idle.cause = None
BY Zenon DEF Idle, Op

\* vhost upsert changes how the configuration uses one directory.
LEMMA Upserted ==
    ASSUME NEW c, IsConf(c), NEW d \in Dir, NEW domains \in SUBSET Domain
    PROVE  /\ IsConf(Upsert(c, d, domains))
           /\ Enabled(Upsert(c, d, domains)) \subseteq Enabled(c) \cup {d}
<1> DEFINE n == Upsert(c, d, domains)
<1>1. /\ DOMAIN n = DOMAIN c /\ n.use = [c.use EXCEPT ![d] = "enabled"]
      /\ n.domains = [c.domains EXCEPT ![d] = domains]
  BY Zenon DEF IsConf, Upsert
<1> HIDE DEF n
<1>2. n.use \in [Dir -> Use] /\ \A e \in Dir : e # d => n.use[e] = c.use[e]
  BY <1>1, Zenon DEF IsConf, Use
<1>3. n.domains \in [Dir -> SUBSET Domain]
  BY <1>1, Zenon DEF IsConf
<1>4. IsConf(n) /\ Enabled(n) \subseteq Enabled(c) \cup {d}
  BY <1>1, <1>2, <1>3, Zenon DEF IsConf, Enabled
<1> QED BY <1>4, Zenon DEF n

\* A pair that loads matches.
LEMMA GoodMatches == ASSUME NEW d, Good(d) PROVE Match(d)
BY Zenon DEF Good, GoodPair, Match

\* A mishap never repairs what is broken, and two kinds break it.
LEMMA Breaks ==
    ASSUME NEW kind, May(kind)
    PROVE  (broken => broken') /\ (kind \in {"undo", "crash"} => broken')
BY Zenon DEF May

\* Answers: every pair in force matches when an operation ends.
LEMMA AnswerKeeps ==
    ASSUME Staged, NEW r, Answer(r), UNCHANGED <<base, conf, cert, key>>,
           ~broken' => \A d \in InForce : Match(d)
    PROVE  Staged' /\ (~broken' => (Others /\ Saved /\ Written)')
<1>1. op'.pc = "idle" /\ op'.dir = None
  BY Zenon DEF Answer, Idle, Op
<1>2. Staged'
  BY <1>1, Zenon DEF Staged, OfPair, OfConfig
<1>3. ~broken' => (Others /\ Saved /\ Written)'
  BY <1>1, Zenon DEF Others, Saved, Written, OfPair, OfConfig, InForce, Match
<1> QED BY <1>2, <1>3, Zenon

\* What the operation makes of an answer of the WAF.
LEMMA ReplyKeeps ==
    ASSUME Inv, NEW a, NEW c, Reply(a, c), UNCHANGED <<base, conf, cert, key>>, broken => broken'
    PROVE  Staged' /\ (~broken' => (Others /\ Saved /\ Written)')
<1>1. op.pc \in {"reload", "again"}
  BY Zenon DEF Reply, At
<1>2. ~broken => \A d \in InForce : Match(d)
  BY <1>1, Zenon DEF Inv, Others, Written
<1>3. ASSUME NEW r, Answer(r) PROVE Staged' /\ (~broken' => (Others /\ Saved /\ Written)')
  BY <1>2, <1>3, AnswerKeeps, Zenon DEF Inv
<1>4. CASE op.pc = "reload" /\ StartUndo(IF op.dir = None THEN "undoConfig" ELSE "undoCert", "reload", c)
  <2>1. /\ op'.pc = IF op.dir = None THEN "undoConfig" ELSE "undoCert"
        /\ op'.dir = op.dir /\ op'.new = op.new /\ op.pc = "reload"
    BY <1>4, Zenon DEF StartUndo, Op
  <2>2. Staged'
    BY <2>1, Zenon DEF Inv, Staged, OfPair, OfConfig
  <2>3. ~broken' => Others' /\ Saved' /\ Written'
    BY <1>2, <2>1, Zenon DEF Inv, Staged, Others, Saved, Written, OfPair, OfConfig, InForce, Match
  <2> QED BY <2>2, <2>3, Zenon
<1> QED BY <1>3, <1>4, Zenon DEF Reply, At

\* The end of a build, for whomever it was.
LEMMA EndLoadKeeps ==
    ASSUME Inv, NEW a, NEW c, EndLoad(a, c), UNCHANGED <<base, conf, cert, key, tool>>, broken => broken'
    PROVE  Inv'
<1>1. Types' /\ Tooling' /\ Loading'
  BY Zenon DEF Inv, Types, IsConf, Tooling, Loading, EndLoad
<1>2. Staged' /\ (~broken' => (Others /\ Saved /\ Written)')
  <2>1. CASE loading.for = "op"
    BY <2>1, ReplyKeeps, Zenon DEF EndLoad
  <2>2. CASE loading.for # "op"
    <3>1. UNCHANGED op
      BY <2>2, Zenon DEF EndLoad
    <3>2. Staged'
      BY <3>1, Zenon DEF Inv, Staged
    <3>3. ~broken' => (Others /\ Saved /\ Written)'
      BY <3>1, Zenon DEF Inv, Others, Saved, Written, InForce, Match
    <3> QED BY <3>2, <3>3, Zenon
  <2> QED BY <2>1, <2>2, Zenon
<1> QED BY <1>1, <1>2, Zenon DEF Inv

\* A step that changes neither the operation nor the files.
LEMMA Aside ==
    ASSUME Inv, UNCHANGED <<op, base, conf, cert, key>>, broken => broken', Tooling', Loading'
    PROVE  Inv'
<1>1. Types' /\ Staged'
  BY Zenon DEF Inv, Types, IsConf, Staged
<1>2. ~broken' => (Others /\ Saved /\ Written)'
  BY Zenon DEF Inv, Others, Saved, Written, InForce, Match
<1> QED BY <1>1, <1>2, Zenon DEF Inv

\* A step of the operation that keeps the rest, for one that changes no file.
LEMMA OpStep ==
    ASSUME Inv, UNCHANGED <<tool, loading, cert, key, conf>>,
           Staged', ~broken' => (Others /\ Saved /\ Written)'
    PROVE  Inv'
<1>1. Types' /\ Tooling' /\ Loading'
  BY Zenon DEF Inv, Types, IsConf, Tooling, Loading
<1> QED BY <1>1, Zenon DEF Inv

-----------------------------------------------------------------------------
(* Operations begin.                                                        *)

\* An upload saves a pair that matches when it is in force.
LEMMA BeginUploadInv ==
    ASSUME Inv, NEW d \in Managed, NEW c \in Cert, BeginUpload(d, c)
    PROVE  Inv'
<1>1. /\ op.pc = "idle" /\ op'.pc = "cert" /\ op'.dir = d /\ op'.new = c
      /\ base' = Files(d) /\ UNCHANGED <<cert, key, conf, tool, loading, broken>>
  BY Zenon DEF BeginUpload, Begin, At, files, world, wafVars, Op
<1>2. base'.cert = cert[d] /\ base'.key = key[d] /\ d \in Dir /\ d # None
  BY <1>1, CertificateConstants, Zenon DEF Files
<1>2b. DomainOf[d] \in Covers[c]
  BY Zenon DEF BeginUpload, Uncovered
<1>3. Staged'
  BY <1>1, <1>2, <1>2b, Zenon DEF Inv, Types, Staged, OfPair, OfConfig
<1>4. ~broken => \A e \in InForce : Match(e)
  BY <1>1, CertificateConstants, Zenon DEF Inv, Others, Staged, InForce
<1>5. ~broken' => Others' /\ Saved' /\ Written'
  BY <1>1, <1>2, <1>4, Zenon DEF Others, Saved, Written, OfPair, OfConfig, InForce, Match
<1> QED BY <1>1, <1>3, <1>5, OpStep, Zenon

\* A pair that is deleted is not in force.
LEMMA BeginDeleteInv ==
    ASSUME Inv, NEW d \in Managed, BeginDelete(d)
    PROVE  Inv'
<1>1. /\ op.pc = "idle" /\ op'.pc = "remove" /\ op'.dir = d
      /\ UNCHANGED <<cert, key, conf, tool, loading, broken>> /\ conf.use[d] = "no"
  BY Zenon DEF BeginDelete, Begin, At, InUse, files, world, wafVars, Op
<1>2. Staged'
  BY <1>1, Zenon DEF Staged, OfPair, OfConfig
<1>3. ~broken => \A e \in InForce : Match(e)
  BY <1>1, CertificateConstants, Zenon DEF Inv, Others, Staged, InForce
<1>4. d \notin InForce
  BY <1>1, Zenon DEF InForce, Enabled
<1>5. ~broken' => Others' /\ Saved' /\ Written'
  BY <1>1, <1>3, <1>4, Zenon DEF Others, Saved, Written, OfPair, OfConfig, InForce, Match
<1> QED BY <1>1, <1>2, <1>5, OpStep, Zenon

\* A configuration transaction saves a configuration whose pairs match.
LEMMA BeginConfigInv ==
    ASSUME Inv, NEW c \in Candidate, ApplyConfig(c) \/ RestoreConfig(c)
    PROVE  Inv'
<1>1. /\ op.pc = "idle" /\ op'.pc = "config" /\ op'.dir = None /\ op'.new = c /\ base' = conf
      /\ UNCHANGED <<cert, key, conf, tool, loading, broken>>
  <2>1. Begin("config", None, c, conf) /\ UNCHANGED <<files, world, wafVars, tool>>
    BY Zenon DEF ApplyConfig, RestoreConfig
  <2> QED BY <2>1, Zenon DEF Begin, At, files, world, wafVars, Op
<1>2. IsConf(c) /\ IsConf(conf)
  BY CertificateConstants, Zenon DEF IsConf, Inv, Types
<1>3. Staged'
  <2>1. IsConf(op'.new) /\ IsConf(base')
    BY <1>1, <1>2, Zenon
  <2> QED BY <1>1, <2>1, Zenon DEF Staged, OfPair, OfConfig, IsConf
<1>4. ~broken => \A e \in InForce : Match(e)
  BY <1>1, CertificateConstants, Zenon DEF Inv, Others, Staged, InForce
<1>5. ~broken' => Others' /\ Saved' /\ Written'
  BY <1>1, <1>4, CertificateConstants, Zenon DEF Others, Saved, Written, OfPair, OfConfig, InForce, Match
<1> QED BY <1>1, <1>3, <1>5, OpStep, Zenon

-----------------------------------------------------------------------------
(* Operations write.                                                        *)

\* A step of the operation that keeps the rest.
LEMMA FileStep ==
    ASSUME Inv, UNCHANGED <<tool, loading>>,
           Types', Staged', ~broken' => (Others /\ Saved /\ Written)'
    PROVE  Inv'
<1>1. Tooling' /\ Loading'
  BY Zenon DEF Inv, Tooling, Loading, IsConf
<1> QED BY <1>1, Zenon DEF Inv

\* A managed directory is a directory, and is not None.
LEMMA OfManaged == \A d \in Managed : d \in Dir /\ d # None
BY CertificateConstants, Zenon

\* A failed write makes the operation restore what it saved.
LEMMA StartUndoInv ==
    ASSUME Inv, op.pc \in {"key", "meta"}, NEW c, StartUndo("undoCert", "write", c),
           UNCHANGED <<cert, key, conf, base, tool, loading>>, broken => broken'
    PROVE  Inv'
<1>1. op'.pc = "undoCert" /\ op'.dir = op.dir /\ op'.new = op.new
  BY Zenon DEF StartUndo, Op
<1>2. Staged'
  BY <1>1, Zenon DEF Inv, Staged, OfPair, OfConfig
<1>3. ~broken' => Others' /\ Saved' /\ Written'
  BY <1>1, OfManaged, Zenon DEF Inv, Staged, Others, Saved, Written, OfPair, OfConfig, InForce, Match
<1> QED BY <1>2, <1>3, OpStep, Zenon

\* The certificate is written first ...
LEMMA WriteCertInv == ASSUME Inv, WriteCert PROVE Inv'
<1>1. /\ op.pc = "cert" /\ UNCHANGED <<key, conf, base, tool, loading>>
      /\ op.dir \in Dir /\ op.dir \in Managed /\ op.dir # None
      /\ op.new \in Cert /\ cert \in [Dir -> Cert \cup {Absent}]
  BY OfManaged, Zenon DEF WriteCert, At, wafVars, Inv, Types, Staged, OfPair
<1>2. CASE cert' = [cert EXCEPT ![op.dir] = op.new] /\ Goto("key") /\ UNCHANGED <<last, faultVars>>
  <2>1. /\ op'.pc = "key" /\ op'.dir = op.dir /\ op'.new = op.new /\ broken' = broken
        /\ cert'[op.dir] = op.new /\ \A d \in Dir \ {op.dir} : cert'[d] = cert[d]
    BY <1>1, <1>2, Zenon DEF Goto, faultVars, Op
  <2>2. Types'
    BY <1>1, <1>2, Zenon DEF Inv, Types, IsConf
  <2>3. Staged'
    BY <1>1, <2>1, Zenon DEF Inv, Staged, OfPair, OfConfig
  <2>4. ~broken' => Others' /\ Saved' /\ Written'
    BY <1>1, <2>1, OfManaged, Zenon DEF Inv, Others, Saved, Written, OfPair, OfConfig, InForce, Match
  <2> QED BY <1>1, <2>2, <2>3, <2>4, FileStep, Zenon
<1>3. CASE May("write") /\ Answer("unwritten") /\ UNCHANGED cert
  <2>1. (broken => broken') /\ (~broken => \A d \in InForce : Match(d))
    BY <1>1, <1>3, Breaks, Zenon DEF Inv, Others, Written
  <2> QED BY <1>1, <1>3, <2>1, AnswerKeeps, OpStep, Zenon DEF Inv
<1> QED BY <1>2, <1>3, Zenon DEF WriteCert

\* ... and with its key the pair matches again.
LEMMA WriteKeyInv == ASSUME Inv, WriteKey PROVE Inv'
<1>1. /\ op.pc = "key" /\ UNCHANGED <<cert, conf, base, tool, loading>>
      /\ op.dir \in Dir /\ op.dir \in Managed /\ op.dir # None
      /\ op.new \in Cert /\ KeyOf[op.new] \in Key /\ key \in [Dir -> Key \cup {Absent}]
  BY OfManaged, CertificateConstants, Zenon DEF WriteKey, At, wafVars, Inv, Types, Staged, OfPair
<1>2. CASE key' = [key EXCEPT ![op.dir] = KeyOf[op.new]] /\ Goto("meta") /\ UNCHANGED <<last, faultVars>>
  <2>1. /\ op'.pc = "meta" /\ op'.dir = op.dir /\ op'.new = op.new /\ broken' = broken
        /\ key'[op.dir] = KeyOf[op.new] /\ \A d \in Dir \ {op.dir} : key'[d] = key[d]
    BY <1>1, <1>2, Zenon DEF Goto, faultVars, Op
  <2>2. Types'
    BY <1>1, <1>2, Zenon DEF Inv, Types, IsConf
  <2>3. Staged'
    BY <1>1, <2>1, Zenon DEF Inv, Staged, OfPair, OfConfig
  <2>4. ~broken' => Others' /\ Saved' /\ Written'
    BY <1>1, <2>1, OfManaged, Zenon DEF Inv, Others, Saved, Written, OfPair, OfConfig, InForce, Match
  <2> QED BY <1>1, <2>2, <2>3, <2>4, FileStep, Zenon
<1>3. CASE May("write") /\ StartUndo("undoCert", "write", "mishap") /\ UNCHANGED key
  BY <1>1, <1>3, StartUndoInv, Breaks, Zenon
<1> QED BY <1>2, <1>3, Zenon DEF WriteKey

\* The metadata do not matter to the pair.
LEMMA WriteMetaInv == ASSUME Inv, WriteMeta PROVE Inv'
<1>1. /\ op.pc = "meta" /\ UNCHANGED <<cert, key, conf, base, tool, loading>>
      /\ op.dir \in Managed /\ op.dir # None
  BY OfManaged, Zenon DEF WriteMeta, At, wafVars, Inv, Staged, OfPair
<1>2. CASE Goto("reload") /\ UNCHANGED faultVars
  <2>1. op'.pc = "reload" /\ op'.dir = op.dir /\ op'.new = op.new /\ broken' = broken
    BY <1>2, Zenon DEF Goto, faultVars, Op
  <2>2. Staged'
    BY <1>1, <2>1, Zenon DEF Inv, Staged, OfPair, OfConfig
  <2>3. ~broken' => Others' /\ Saved' /\ Written'
    BY <1>1, <2>1, Zenon DEF Inv, Others, Saved, Written, OfPair, OfConfig, InForce, Match
  <2> QED BY <1>1, <2>2, <2>3, OpStep, Zenon
<1>3. CASE Answer("stored") /\ UNCHANGED faultVars
  <2>1. (broken => broken') /\ (~broken => \A d \in InForce : Match(d))
    BY <1>1, <1>3, Zenon DEF faultVars, Inv, Others, Written
  <2> QED BY <1>1, <1>3, <2>1, AnswerKeeps, OpStep, Zenon DEF Inv
<1>4. CASE May("write") /\ StartUndo("undoCert", "write", "mishap")
  BY <1>1, <1>4, StartUndoInv, Breaks, Zenon
<1> QED BY <1>2, <1>3, <1>4, Zenon DEF WriteMeta

\* A directory that is removed is not in use, whatever is left of it.
LEMMA RemoveInv == ASSUME Inv, Remove PROVE Inv'
<1>1. /\ op.pc = "remove" /\ UNCHANGED <<conf, base, tool, loading>> /\ (broken => broken')
      /\ op.dir \in Dir /\ op.dir \in Managed
      /\ cert' = cert \/ cert' = [cert EXCEPT ![op.dir] = Absent]
      /\ key' = key \/ key' = [key EXCEPT ![op.dir] = Absent]
      /\ op' = op \/ \E r : Answer(r)
  <2>1. op.pc = "remove" /\ UNCHANGED <<conf, base, tool, loading>>
    BY Zenon DEF Remove, At, wafVars
  <2>2. op.dir \in Dir /\ op.dir \in Managed
    BY <2>1, OfManaged, Zenon DEF Inv, Staged
  <2>3. \/ May("write") /\ Answer("failed") /\ UNCHANGED <<cert, key, meta>>
        \/ /\ UNCHANGED faultVars
           /\ cert' = cert \/ cert' = [cert EXCEPT ![op.dir] = Absent]
           /\ key' = key \/ key' = [key EXCEPT ![op.dir] = Absent]
           /\ Answer("deleted") \/ UNCHANGED <<op, last>>
    BY Zenon DEF Remove
  <2>4. CASE May("write") /\ Answer("failed") /\ UNCHANGED <<cert, key, meta>>
    BY <2>1, <2>2, <2>4, Breaks, Zenon
  <2>5. CASE /\ UNCHANGED faultVars
             /\ cert' = cert \/ cert' = [cert EXCEPT ![op.dir] = Absent]
             /\ key' = key \/ key' = [key EXCEPT ![op.dir] = Absent]
             /\ Answer("deleted") \/ UNCHANGED <<op, last>>
    BY <2>1, <2>2, <2>5, Zenon DEF faultVars
  <2> QED BY <2>3, <2>4, <2>5, Zenon
<1>2. \A d \in Dir \ {op.dir} : cert'[d] = cert[d] /\ key'[d] = key[d]
  BY <1>1, Zenon DEF Inv, Types
<1>3. Types'
  BY <1>1, Zenon DEF Inv, Types, IsConf
<1>4. ~broken => (\A d \in InForce : Match(d))' /\ op.dir \notin InForce
  BY <1>1, <1>2, OfManaged, Zenon DEF Inv, Others, Written, InForce, Match
<1>5. CASE UNCHANGED op
  <2>1. Staged'
    BY <1>1, <1>5, Zenon DEF Inv, Staged, OfPair, OfConfig
  <2>2. ~broken' => Others' /\ Saved' /\ Written'
    BY <1>1, <1>4, <1>5, Zenon DEF Others, Saved, Written, OfPair, OfConfig, InForce
  <2> QED BY <1>1, <1>3, <2>1, <2>2, FileStep, Zenon
<1>6. ASSUME NEW r, Answer(r) PROVE Inv'
  <2>1. op'.pc = "idle" /\ op'.dir = None
    BY <1>6, Zenon DEF Answer, Idle, Op
  <2>2. Staged'
    BY <2>1, Zenon DEF Staged, OfPair, OfConfig
  <2>3. ~broken' => Others' /\ Saved' /\ Written'
    BY <1>1, <1>4, <2>1, Zenon DEF Others, Saved, Written, OfPair, OfConfig
  <2> QED BY <1>1, <1>3, <2>2, <2>3, FileStep, Zenon
<1> QED BY <1>1, <1>5, <1>6, Zenon

\* While a candidate is not validated, only the old configuration is known to have its pairs.
LEMMA WriteConfigInv == ASSUME Inv, WriteConfig PROVE Inv'
<1>1. /\ op.pc = "config" /\ UNCHANGED <<cert, key, base, tool, loading>>
      /\ op.dir = None /\ IsConf(op.new) /\ IsConf(base)
  BY Zenon DEF WriteConfig, At, wafVars, Inv, Staged, OfConfig
<1>2. CASE conf' = op.new /\ Goto("validate") /\ UNCHANGED faultVars
  <2>1. op'.pc = "validate" /\ op'.dir = op.dir /\ broken' = broken
    BY <1>2, Zenon DEF Goto, faultVars, Op
  <2>2. Types'
    BY <1>1, <1>2, Zenon DEF Inv, Types, IsConf
  <2>3. Staged'
    BY <1>1, <2>1, Zenon DEF Staged, OfPair, OfConfig, IsConf
  <2>4. ~broken' => Others' /\ Saved' /\ Written'
    BY <1>1, <2>1, Zenon DEF Inv, Others, Saved, Written, OfPair, OfConfig, Enabled, Match
  <2> QED BY <1>1, <2>2, <2>3, <2>4, FileStep, Zenon
<1>3. CASE May("write") /\ StartUndo("undoConfig", "write", "mishap") /\ UNCHANGED conf
  <2>1. op'.pc = "undoConfig" /\ op'.dir = op.dir /\ (broken => broken')
    BY <1>3, Breaks, Zenon DEF StartUndo, Op
  <2>2. Staged'
    BY <1>1, <2>1, Zenon DEF Staged, OfPair, OfConfig, IsConf
  <2>3. ~broken' => Others' /\ Saved' /\ Written'
    BY <1>1, <2>1, Zenon DEF Inv, Others, Saved, Written, OfPair, OfConfig, Enabled, Match
  <2> QED BY <1>1, <1>3, <2>2, <2>3, OpStep, Zenon
<1> QED BY <1>2, <1>3, Zenon DEF WriteConfig

\* A configuration that loads has matching pairs.
LEMMA ValidateInv == ASSUME Inv, Validate PROVE Inv'
<1>1. /\ op.pc = "validate" /\ UNCHANGED <<cert, key, conf, base, tool, loading, broken>>
      /\ op.dir = None /\ IsConf(base)
  BY Zenon DEF Validate, At, files, world, wafVars, Inv, Staged, OfConfig
<1>2. PICK next \in {"reload", "undoConfig"} :
         /\ op'.pc = next /\ op'.dir = op.dir
         /\ next = "reload" => Loads(conf)
  <2>1. CASE Loads(conf) /\ Goto("reload")
    <3>1. op'.pc = "reload" /\ op'.dir = op.dir
      BY <2>1, Zenon DEF Goto, Op
    <3> QED BY <2>1, <3>1, Zenon
  <2>2. CASE StartUndo("undoConfig", "invalid", "candidate")
    <3>1. op'.pc = "undoConfig" /\ op'.dir = op.dir
      BY <2>2, Zenon DEF StartUndo, Op
    <3> QED BY <3>1, Zenon
  <2> QED BY <2>1, <2>2, Zenon DEF Validate
<1>3. next = "reload" => \A d \in InForce : Match(d)
  BY <1>2, GoodMatches, Zenon DEF Loads, InForce
<1>4. Staged'
  BY <1>1, <1>2, Zenon DEF Staged, OfPair, OfConfig, IsConf
<1>5. ~broken' => Others'
  BY <1>1, <1>2, <1>3, Zenon DEF Others, InForce, Match
<1>6. ~broken' => Saved'
  BY <1>1, <1>2, CertificateConstants, Zenon DEF Inv, Saved, OfPair, OfConfig, InForce, Match
<1>7. ~broken' => Written'
  BY <1>1, <1>2, CertificateConstants, Zenon DEF Written, InForce
<1> QED BY <1>1, <1>4, <1>5, <1>6, <1>7, OpStep, Zenon

-----------------------------------------------------------------------------
(* Operations restore.                                                      *)

\* The saved certificate is back ...
LEMMA RestoreCertInv == ASSUME Inv, RestoreCert PROVE Inv'
<1>1. /\ op.pc = "undoCert" /\ UNCHANGED <<key, conf, base, tool, loading>>
      /\ op.dir \in Dir /\ op.dir \in Managed /\ op.dir # None
      /\ base.cert \in Cert \cup {Absent} /\ cert \in [Dir -> Cert \cup {Absent}]
      /\ op'.pc = "undoKey" /\ op'.dir = op.dir /\ op'.new = op.new
  <2>1. PICK ok \in BOOLEAN : UndoGoto("undoKey", ok)
    BY Zenon DEF RestoreCert
  <2>2. op'.pc = "undoKey" /\ op'.dir = op.dir /\ op'.new = op.new
    BY <2>1, Zenon DEF UndoGoto, Op
  <2> QED BY <2>2, OfManaged, Zenon DEF RestoreCert, At, wafVars, Inv, Types, Staged, OfPair
<1>2. /\ broken => broken'
      /\ \/ cert' = [cert EXCEPT ![op.dir] = base.cert]
         \/ UNCHANGED cert /\ broken'
  <2>1. \/ cert' = [cert EXCEPT ![op.dir] = base.cert] /\ UNCHANGED faultVars
        \/ May("undo") /\ UNCHANGED cert
    BY Zenon DEF RestoreCert
  <2>2. CASE May("undo") /\ UNCHANGED cert
    BY <2>2, Breaks, Zenon
  <2>3. CASE cert' = [cert EXCEPT ![op.dir] = base.cert] /\ UNCHANGED faultVars
    BY <2>3, Zenon DEF faultVars
  <2> QED BY <2>1, <2>2, <2>3, Zenon
<1>3. Types'
  BY <1>1, <1>2, Zenon DEF Inv, Types, IsConf
<1>4. Staged'
  BY <1>1, Zenon DEF Inv, Staged, OfPair, OfConfig
<1>5. ASSUME ~broken' PROVE Others' /\ Saved' /\ Written'
  <2>1. ~broken /\ cert'[op.dir] = base.cert /\ \A d \in Dir \ {op.dir} : cert'[d] = cert[d]
    BY <1>1, <1>2, <1>5, Zenon
  <2> QED BY <1>1, <2>1, OfManaged, Zenon DEF Inv, Others, Saved, Written, OfPair, OfConfig, InForce, Match
<1> QED BY <1>1, <1>3, <1>4, <1>5, FileStep, Zenon

\* ... and so is its key.
LEMMA RestoreKeyInv == ASSUME Inv, RestoreKey PROVE Inv'
<1>1. /\ op.pc = "undoKey" /\ UNCHANGED <<cert, conf, base, tool, loading>>
      /\ op.dir \in Dir /\ op.dir \in Managed /\ op.dir # None
      /\ base.key \in Key \cup {Absent} /\ key \in [Dir -> Key \cup {Absent}]
      /\ op'.pc = "undoMeta" /\ op'.dir = op.dir /\ op'.new = op.new
  <2>1. PICK ok \in BOOLEAN : UndoGoto("undoMeta", ok)
    BY Zenon DEF RestoreKey
  <2>2. op'.pc = "undoMeta" /\ op'.dir = op.dir /\ op'.new = op.new
    BY <2>1, Zenon DEF UndoGoto, Op
  <2> QED BY <2>2, OfManaged, Zenon DEF RestoreKey, At, wafVars, Inv, Types, Staged, OfPair
<1>2. /\ broken => broken'
      /\ \/ key' = [key EXCEPT ![op.dir] = base.key]
         \/ UNCHANGED key /\ broken'
  <2>1. \/ key' = [key EXCEPT ![op.dir] = base.key] /\ UNCHANGED faultVars
        \/ May("undo") /\ UNCHANGED key
    BY Zenon DEF RestoreKey, RestoreOptional
  <2>2. CASE May("undo") /\ UNCHANGED key
    BY <2>2, Breaks, Zenon
  <2>3. CASE key' = [key EXCEPT ![op.dir] = base.key] /\ UNCHANGED faultVars
    BY <2>3, Zenon DEF faultVars
  <2> QED BY <2>1, <2>2, <2>3, Zenon
<1>3. Types'
  BY <1>1, <1>2, Zenon DEF Inv, Types, IsConf
<1>4. Staged'
  BY <1>1, Zenon DEF Inv, Staged, OfPair, OfConfig
<1>5. ASSUME ~broken' PROVE Others' /\ Saved' /\ Written'
  <2>1. ~broken /\ key'[op.dir] = base.key /\ \A d \in Dir \ {op.dir} : key'[d] = key[d]
    BY <1>1, <1>2, <1>5, Zenon
  <2> QED BY <1>1, <2>1, OfManaged, Zenon DEF Inv, Others, Saved, Written, OfPair, OfConfig, InForce, Match
<1> QED BY <1>1, <1>3, <1>4, <1>5, FileStep, Zenon

\* When all is restored, every pair in force matches.
LEMMA RestoredKeeps ==
    ASSUME NEW ok, Restored(ok), UNCHANGED base,
           op.dir \in Managed \cup {None},
           ~broken' => (\A d \in InForce : Match(d))'
    PROVE  Staged' /\ (~broken' => (Others /\ Saved /\ Written)')
<1>1. \/ op'.pc = "idle" /\ op'.dir = None
      \/ op'.pc = "again" /\ op'.dir = op.dir
  <2>1. Goto("again") \/ \E r : Answer(r)
    BY Zenon DEF Restored
  <2>2. CASE Goto("again")
    BY <2>2, Zenon DEF Goto, Op
  <2>3. ASSUME NEW r, Answer(r) PROVE op'.pc = "idle" /\ op'.dir = None
    BY <2>3, Zenon DEF Answer, Idle, Op
  <2> QED BY <2>1, <2>2, <2>3, Zenon
<1>2. Staged'
  BY <1>1, Zenon DEF Staged, OfPair, OfConfig
<1>3. ~broken' => Others' /\ Saved' /\ Written'
  BY <1>1, Zenon DEF Others, Saved, Written, OfPair, OfConfig
<1> QED BY <1>2, <1>3, Zenon

\* The saved pair is in force again.
LEMMA RestoreMetaInv == ASSUME Inv, RestoreMeta PROVE Inv'
<1>1. /\ op.pc = "undoMeta" /\ UNCHANGED <<cert, key, conf, base, tool, loading>>
      /\ op.dir \in Managed /\ (broken => broken') /\ \E ok \in BOOLEAN : Restored(ok)
  <2>1. op.pc = "undoMeta" /\ UNCHANGED <<cert, key, conf, base, tool, loading>> /\ op.dir \in Managed
    BY Zenon DEF RestoreMeta, At, wafVars, Inv, Staged, OfPair
  <2>2. UNCHANGED faultVars \/ May("undo")
    BY Zenon DEF RestoreMeta
  <2>3. broken => broken'
    BY <2>2, Breaks, Zenon DEF faultVars
  <2>4. Restored(TRUE) \/ Restored(FALSE)
    BY Zenon DEF RestoreMeta
  <2> QED BY <2>1, <2>3, <2>4, Zenon
<1>2. ~broken => \A d \in InForce : Match(d)
  BY <1>1, Zenon DEF Inv, Others, Saved, Written, OfPair, Match
<1>3. ~broken' => (\A d \in InForce : Match(d))'
  BY <1>1, <1>2, Zenon DEF InForce, Match
<1> QED BY <1>1, <1>3, RestoredKeeps, OpStep, Zenon

\* The saved configuration is in force again.
LEMMA RestoreConfigInv == ASSUME Inv, RestoreConfigFile PROVE Inv'
<1>1. /\ op.pc = "undoConfig" /\ UNCHANGED <<cert, key, base, tool, loading>>
      /\ op.dir = None /\ IsConf(base) /\ \E ok \in BOOLEAN : Restored(ok)
      /\ broken => broken'
      /\ conf' = base \/ (conf' = conf /\ broken')
  <2>1. /\ op.pc = "undoConfig" /\ UNCHANGED <<cert, key, base, tool, loading>>
        /\ op.dir = None /\ IsConf(base)
    BY Zenon DEF RestoreConfigFile, At, wafVars, Inv, Staged, OfConfig
  <2>2. \/ conf' = base /\ UNCHANGED faultVars
        \/ May("undo") /\ UNCHANGED conf
    BY Zenon DEF RestoreConfigFile
  <2>3. Restored(TRUE) \/ Restored(FALSE)
    BY Zenon DEF RestoreConfigFile
  <2>4. CASE conf' = base /\ UNCHANGED faultVars
    BY <2>1, <2>3, <2>4, Zenon DEF faultVars
  <2>5. CASE May("undo") /\ UNCHANGED conf
    BY <2>1, <2>3, <2>5, Breaks, Zenon
  <2> QED BY <2>2, <2>4, <2>5, Zenon
<1>2. Types'
  BY <1>1, Zenon DEF Inv, Types, IsConf
<1>3. ~broken' => (\A d \in InForce : Match(d))'
  BY <1>1, Zenon DEF Inv, Saved, OfConfig, InForce, Match, Enabled
<1> QED BY <1>1, <1>2, <1>3, RestoredKeeps, FileStep, Zenon

-----------------------------------------------------------------------------
(* The WAF.                                                                 *)

\* A build whose caller is gone goes on.
LEMMA Orphaned ==
    ASSUME Loading, loading.for = "op",
           loading' = Load("late", loading.conf, loading.todo, loading.dir, loading.read, loading.got)
    PROVE  Loading'
<1>1. loading # NoLoad
  BY NoLoadFields, Zenon
<1>2. /\ loading'.conf = loading.conf /\ loading'.todo = loading.todo
      /\ loading'.dir = loading.dir /\ loading'.got = loading.got
  BY LoadFields, SMTT(30)
<1> QED BY <1>1, <1>2, ZenonT(30) DEF Loading, IsConf, Enabled

\* The WAF does not answer in time, or not at all.
LEMMA AnsweredInv == ASSUME Inv, Timeout \/ Refused PROVE Inv'
<1>1. /\ \E c : Reply("error", c)
      /\ UNCHANGED <<cert, key, conf, base, tool>>
      /\ UNCHANGED loading \/ (loading.for = "op" /\ loading' = Load("late", loading.conf, loading.todo,
                                                       loading.dir, loading.read, loading.got))
  BY Zenon DEF Timeout, Refused, files, wafVars
<1>2. broken => broken'
  <2>1. May("timeout") \/ UNCHANGED world
    BY Zenon DEF Timeout, Refused
  <2> QED BY <2>1, Breaks, Zenon DEF world
<1>3. Loading'
  BY <1>1, Orphaned, Zenon DEF Inv, Loading, IsConf
<1>4. Types' /\ Tooling'
  BY <1>1, Zenon DEF Inv, Types, IsConf, Tooling
<1> QED BY <1>1, <1>2, <1>3, <1>4, ReplyKeeps, Zenon DEF Inv

\* A build begins with nothing loaded.
LEMMA LoadConfigInv == ASSUME Inv, NEW for, LoadConfig(for) PROVE Inv'
<1>1. /\ loading' = Load(for, conf, Enabled(conf), None, Absent, NoServed)
      /\ UNCHANGED <<cert, key, conf, op, base, tool, broken>>
  BY Zenon DEF LoadConfig, files, world, opVars
<1>2. /\ loading'.conf = conf /\ loading'.todo = Enabled(conf) /\ loading'.dir = None
      /\ loading'.got = NoServed
  BY <1>1, Zenon DEF Load
<1>2b. IsConf(loading'.conf)
  BY <1>2, Zenon DEF Inv, Types
<1>3. Loading'
  BY <1>2, <1>2b, Zenon DEF Loading, IsConf, Enabled, NoServed
<1>4. Tooling'
  BY <1>1, Zenon DEF Inv, Tooling
<1> QED BY <1>1, <1>3, <1>4, Aside, Zenon

\* Reading a certificate loads no pair yet.
LEMMA ReadCertInv == ASSUME Inv, NEW d \in Dir, ReadCert(d) PROVE Inv'
<1>1. d \in loading.todo /\ UNCHANGED <<cert, key, conf, base, tool, broken>>
  BY Zenon DEF ReadCert, files, world
<1>2. CASE /\ loading' = Load(loading.for, loading.conf, loading.todo, d, cert[d], loading.got)
           /\ UNCHANGED <<op, last>>
  <2>1. /\ loading'.conf = loading.conf /\ loading'.todo = loading.todo
        /\ loading'.dir = d /\ loading'.got = loading.got
    BY <1>2, Zenon DEF Load
  <2>2. loading # NoLoad
    BY <1>1, NoLoadFields, Zenon
  <2>3. Loading'
    BY <1>1, <2>1, <2>2, Zenon DEF Inv, Loading, IsConf, Enabled
  <2>4. Tooling'
    BY <1>1, Zenon DEF Inv, Tooling
  <2> QED BY <1>1, <1>2, <2>3, <2>4, Aside, Zenon
<1>3. CASE EndLoad("error", d)
  BY <1>1, <1>3, EndLoadKeeps, Zenon
<1> QED BY <1>2, <1>3, Zenon DEF ReadCert

\* Only a matching pair gets into a build.
LEMMA ReadKeyInv == ASSUME Inv, ReadKey PROVE Inv'
<1> DEFINE d == loading.dir
           pair == [cert |-> loading.read, key |-> key[d]]
<1>1. d # None /\ UNCHANGED <<cert, key, conf, base, tool, broken>>
  BY Zenon DEF ReadKey, files, world
<1>2. CASE /\ LoadsPair(loading.read, key[d]) /\ Uncovered(loading.read, loading.conf.domains[d]) = {}
           /\ loading' = Load(loading.for, loading.conf, loading.todo \ {d}, None, Absent,
                              [loading.got EXCEPT ![d] = pair])
           /\ UNCHANGED <<op, last>>
  <2>1. /\ loading'.conf = loading.conf /\ loading'.todo = loading.todo \ {d}
        /\ loading'.dir = None /\ loading'.got = [loading.got EXCEPT ![d] = pair]
    BY <1>2, Zenon DEF Load
  <2>2. loading # NoLoad
    BY <1>1, NoLoadFields, Zenon
  <2>3. /\ d \in Dir /\ loading.todo \subseteq Dir
        /\ loading.got \in [Dir -> [cert : Cert, key : Key] \cup {Absent}]
    BY <1>1, <2>2, Zenon DEF Inv, Loading, IsConf
  <2>4. loading.read \in Cert /\ key[d] = KeyOf[loading.read] /\ key[d] \in Key
    BY <1>2, CertificateConstants, Zenon DEF LoadsPair, GoodPair
  <2>5. pair \in [cert : Cert, key : Key] /\ pair.key = KeyOf[pair.cert] /\ pair # Absent
    BY <2>4, CertificateConstants, SMTT(30)
  <2>5b. loading.conf.domains[d] \subseteq Covers[pair.cert]
    BY <1>2, Zenon DEF Uncovered
  <2>5c. Usable(pair, loading.conf.domains[d])
    BY <2>5, <2>5b, Zenon DEF Usable
  <2> HIDE DEF pair, d
  <2>6. /\ loading'.got \in [Dir -> [cert : Cert, key : Key] \cup {Absent}]
        /\ loading'.got[d] = pair /\ \A e \in Dir \ {d} : loading'.got[e] = loading.got[e]
    BY <2>1, <2>3, <2>5, Zenon
  <2>7. ASSUME NEW e \in Enabled(loading'.conf) \ loading'.todo
        PROVE  Usable(loading'.got[e], loading'.conf.domains[e])
    <3>1. e \in Dir /\ e \in Enabled(loading.conf) /\ (e = d \/ e \notin loading.todo)
      BY <2>1, Zenon DEF Enabled
    <3> QED BY <2>1, <2>2, <2>5c, <2>6, <3>1, Zenon DEF Inv, Loading, IsConf
  <2>7b. IsConf(loading'.conf)
    BY <2>1, <2>2, Zenon DEF Inv, Loading
  <2>8. Loading'
    BY <2>1, <2>3, <2>6, <2>7, <2>7b, Zenon DEF Loading, IsConf, Enabled
  <2>9. Tooling'
    BY <1>1, Zenon DEF Inv, Tooling
  <2> QED BY <1>1, <1>2, <2>8, <2>9, Aside, Zenon
<1>3. ASSUME NEW c, EndLoad("error", c) PROVE Inv'
  BY <1>1, <1>3, EndLoadKeeps, Zenon
<1> QED BY <1>2, <1>3, Zenon DEF ReadKey

\* A build ends, well or not.
LEMMA PublishInv == ASSUME Inv, Publish \/ LoadFails \/ StopWAF PROVE Inv'
<1>1. UNCHANGED <<cert, key, conf, base, tool>> /\ \E a, c : EndLoad(a, c)
  BY Zenon DEF Publish, LoadFails, StopWAF, files
<1>2. broken => broken'
  <2>1. UNCHANGED world \/ May("reload") \/ May("restart")
    BY Zenon DEF Publish, LoadFails, StopWAF
  <2> QED BY <2>1, Breaks, Zenon DEF world
<1> QED BY <1>1, <1>2, EndLoadKeeps, Zenon

\* Signals and time change no file.
LEMMA WorldInv == ASSUME Inv, Hup \/ \E c \in Cert : Expire(c) PROVE Inv'
<1>1. UNCHANGED <<cert, key, conf, op, base, tool, loading>>
  BY Zenon DEF Hup, Expire, files, opVars, wafVars
<1>2. broken => broken'
  <2>1. May("hup") \/ May("expiry")
    BY Zenon DEF Hup, Expire
  <2> QED BY <2>1, Breaks, Zenon
<1>3. Tooling' /\ Loading'
  BY <1>1, Zenon DEF Inv, Tooling, Loading, IsConf
<1> QED BY <1>1, <1>2, <1>3, Aside, Zenon

\* A crash of the Control Center leaves the files broken.
LEMMA CrashInv == ASSUME Inv, Crash PROVE Inv'
<1>1. /\ op'.pc = "idle" /\ op'.dir = None /\ broken'
      /\ UNCHANGED <<cert, key, conf, base, tool>>
  BY Breaks, Zenon DEF Crash, Idle, files, Op
<1>2. Loading'
  BY Orphaned, Zenon DEF Crash, Inv, Loading, IsConf
<1>3. Types' /\ Tooling'
  BY <1>1, Zenon DEF Inv, Types, IsConf, Tooling
<1>4. Staged'
  BY <1>1, Zenon DEF Staged, OfPair, OfConfig
<1> QED BY <1>1, <1>2, <1>3, <1>4, Zenon DEF Inv

-----------------------------------------------------------------------------
(* cherrywafctl.                                                            *)

\* Writing a pair that is not managed.
LEMMA Unmanaged ==
    ASSUME Inv, NEW d \in Dir \ Managed, UNCHANGED <<conf, op, base, loading>>, broken => broken',
           Types', Tooling',
           \A e \in Dir \ {d} : cert'[e] = cert[e] /\ key'[e] = key[e]
    PROVE  Inv'
<1>1. \A e \in Managed : cert'[e] = cert[e] /\ key'[e] = key[e]
  BY CertificateConstants, Zenon
<1>2. Staged' /\ Loading'
  BY Zenon DEF Inv, Staged, Loading, IsConf
<1>3. ~broken' => Others' /\ Saved' /\ Written'
  BY <1>1, Zenon DEF Inv, Staged, Others, Saved, Written, OfPair, OfConfig, InForce, Match
<1> QED BY <1>2, <1>3, Zenon DEF Inv

\* cert install writes a certificate that is not managed ...
LEMMA ToolInstallInv ==
    ASSUME Inv, NEW d \in Dir \ Managed, NEW c \in Cert, ToolInstall(d, c)
    PROVE  Inv'
<1>1. /\ tool' = Command("key", d, c, None) /\ May("tool")
      /\ cert' = [cert EXCEPT ![d] = c] /\ UNCHANGED <<key, conf, op, base, loading>>
  BY Zenon DEF ToolInstall, Run, opVars, wafVars
<1>2. tool'.pc = "key" /\ tool'.dir = d /\ tool'.new = c
  BY <1>1, Zenon DEF Command
<1>3. Tooling'
  BY <1>2, Zenon DEF Tooling
<1>4. Types' /\ \A e \in Dir \ {d} : cert'[e] = cert[e]
  BY <1>1, Zenon DEF Inv, Types, IsConf
<1> QED BY <1>1, <1>3, <1>4, Breaks, Unmanaged, Zenon

\* ... and its key.
LEMMA ToolInstallKeyInv == ASSUME Inv, ToolInstallKey PROVE Inv'
<1>1. /\ tool.pc = "key" /\ tool' = NoTool /\ UNCHANGED <<cert, conf, op, base, loading, broken>>
      /\ key' = key \/ key' = [key EXCEPT ![tool.dir] = KeyOf[tool.new]]
  BY Zenon DEF ToolInstallKey, opVars, wafVars, faultVars
<1>2. tool.dir \in Dir \ Managed /\ KeyOf[tool.new] \in Key
  BY <1>1, CertificateConstants, Zenon DEF Inv, Tooling
<1>3. Tooling'
  BY <1>1, Zenon DEF Tooling, NoTool, Command
<1>4. Types' /\ \A e \in Dir \ {tool.dir} : key'[e] = key[e]
  BY <1>1, <1>2, Zenon DEF Inv, Types, IsConf
<1> QED BY <1>1, <1>2, <1>3, <1>4, Unmanaged, Zenon

\* vhost upsert has read the configuration.
LEMMA ToolUpsertInv == ASSUME Inv, NEW d \in Dir, NEW n \in Domain, ToolUpsert(d, n) PROVE Inv'
<1>1. /\ May("tool") /\ UNCHANGED <<cert, key, conf, op, base, loading>>
      /\ \E domains \in {{n}, conf.domains[d] \cup {n}} :
            tool' = Command("upsert", d, Upsert(conf, d, domains), conf)
  BY Zenon DEF ToolUpsert, Run, files, opVars, wafVars, Upsert
<1>1b. {{n}, conf.domains[d] \cup {n}} \subseteq SUBSET Domain
  BY SMT DEF Inv, Types, IsConf
<1>1c. PICK domains \in SUBSET Domain : tool' = Command("upsert", d, Upsert(conf, d, domains), conf)
  BY <1>1, <1>1b, Zenon
<1>2. /\ tool'.pc = "upsert" /\ tool'.dir = d /\ tool'.read = conf
      /\ tool'.new = Upsert(conf, d, domains)
  BY <1>1c, Zenon DEF Command
<1>2b. tool'.new = Upsert(tool'.read, tool'.dir, domains) /\ IsConf(tool'.read)
  BY <1>2, Zenon DEF Inv, Types
<1>3. Tooling'
  BY <1>2, <1>2b, Zenon DEF Tooling, Upsert, IsConf
<1>4. Loading'
  BY <1>1, Zenon DEF Inv, Loading, IsConf
<1> QED BY <1>1, <1>3, <1>4, Breaks, Aside, Zenon

\* The write is harmless when nothing came between it and the read.
LEMMA ToolUpsertWriteInv == ASSUME Inv, ToolUpsertWrite PROVE Inv'
<1>1. /\ tool.pc = "upsert" /\ tool' = NoTool /\ conf' = tool.new
      /\ UNCHANGED <<cert, key, op, base, loading>>
      /\ broken' = (broken \/ ~At("idle") \/ conf # tool.read \/ ~Good(tool.dir))
  BY Zenon DEF ToolUpsertWrite, wafVars
<1>2. IsConf(conf') /\ Enabled(conf') \subseteq Enabled(tool.read) \cup {tool.dir}
  <2>1. tool.dir \in Dir /\ IsConf(tool.read)
    BY <1>1, Zenon DEF Inv, Tooling
  <2>2. PICK domains \in SUBSET Domain : tool.new = Upsert(tool.read, tool.dir, domains)
    BY <1>1, Zenon DEF Inv, Tooling
  <2> DEFINE n == Upsert(tool.read, tool.dir, domains)
  <2>3. IsConf(n) /\ Enabled(n) \subseteq Enabled(tool.read) \cup {tool.dir}
    BY <2>1, Upserted, Zenon
  <2>4. conf' = n
    BY <1>1, <2>2, Zenon
  <2> HIDE DEF n
  <2> QED BY <2>3, <2>4, Zenon
<1>3. Types'
  BY <1>1, <1>2, Zenon DEF Inv, Types, IsConf
<1>4. Tooling'
  BY <1>1, Zenon DEF Tooling, NoTool, Command
<1>5. Loading' /\ Staged'
  BY <1>1, Zenon DEF Inv, Loading, IsConf, Staged
<1>6. ASSUME ~broken' PROVE Others' /\ Saved' /\ Written'
  <2>1. ~broken /\ op.pc = "idle" /\ conf = tool.read /\ Good(tool.dir)
    BY <1>1, <1>6, Zenon DEF At
  <2>2. op.dir = None
    BY <2>1, Zenon DEF Inv, Staged
  <2>3. \A d \in InForce : Match(d)
    BY <2>1, <2>2, CertificateConstants, Zenon DEF Inv, Others, InForce
  <2>4. \A d \in Managed \cap Enabled(conf') : Match(d)
    BY <1>2, <2>1, <2>3, GoodMatches, Zenon DEF InForce
  <2> QED BY <1>1, <2>1, <2>4, Zenon DEF Others, Saved, Written, OfPair, OfConfig, InForce, Match
<1> QED BY <1>3, <1>4, <1>5, <1>6, Zenon DEF Inv

-----------------------------------------------------------------------------
(* The theorems.                                                            *)

\* The WAF runs with the configuration on disk.
LEMMA InitInv == Init => Inv
<1> SUFFICES ASSUME Init PROVE Inv
  BY Zenon
<1>1. Types
  <2>1. IsConf(conf)
    BY CertificateConstants, Zenon DEF Init, IsConf
  <2>2. key \in [Dir -> Key \cup {Absent}]
    BY CertificateConstants, Zenon DEF Init
  <2> QED BY <2>1, <2>2, Zenon DEF Init, Types
<1>2. op.pc = "idle" /\ op.dir = None /\ tool.pc = "idle" /\ loading = NoLoad
  BY Zenon DEF Init, Idle, NoTool, Op, Command
<1>3. Loading /\ Tooling /\ Staged
  BY <1>2, Zenon DEF Loading, IsConf, Tooling, Staged, OfPair, OfConfig
<1>4. \A d \in InForce : Match(d)
  BY GoodMatches, Zenon DEF Init, Loads, InForce
<1>5. Others /\ Saved /\ Written
  BY <1>2, <1>4, Zenon DEF Others, Saved, Written, OfPair, OfConfig
<1> QED BY <1>1, <1>3, <1>5, Zenon DEF Inv

\* Every step keeps the invariant.
LEMMA NextInv == Inv /\ [Next]_vars => Inv'
<1> SUFFICES ASSUME Inv, [Next]_vars PROVE Inv'
  BY Zenon
<1>1. ASSUME NEW d \in Managed, NEW c \in Cert, BeginUpload(d, c) PROVE Inv'
  BY <1>1, BeginUploadInv, Zenon
<1>2. ASSUME NEW d \in Managed, BeginDelete(d) PROVE Inv'
  BY <1>2, BeginDeleteInv, Zenon
<1>3. ASSUME NEW c \in Candidate, ApplyConfig(c) \/ RestoreConfig(c) PROVE Inv'
  BY <1>3, BeginConfigInv, Zenon
<1>4. CASE Operate
  BY <1>4, WriteCertInv, WriteKeyInv, WriteMetaInv, RemoveInv, WriteConfigInv, ValidateInv,
     RestoreCertInv, RestoreKeyInv, RestoreMetaInv, RestoreConfigInv, AnsweredInv, Zenon DEF Operate
<1>5. CASE WAFStep
  BY <1>5, LoadConfigInv, ReadCertInv, ReadKeyInv, PublishInv, Zenon DEF WAFStep
<1>6. CASE Hup \/ StopWAF \/ Crash \/ \E c \in Cert : Expire(c)
  BY <1>6, WorldInv, PublishInv, CrashInv, Zenon
<1>7. ASSUME NEW d \in Dir \ Managed, NEW c \in Cert, ToolInstall(d, c) PROVE Inv'
  BY <1>7, ToolInstallInv, Zenon
<1>8. ASSUME NEW d \in Dir, NEW n \in Domain, ToolUpsert(d, n) PROVE Inv'
  BY <1>8, ToolUpsertInv, Zenon
<1>9. CASE ToolInstallKey \/ ToolUpsertWrite
  BY <1>9, ToolInstallKeyInv, ToolUpsertWriteInv, Zenon
<1>10. CASE UNCHANGED vars
  <2>1. Tooling' /\ Loading' /\ UNCHANGED <<op, base, conf, cert, key, broken>>
    BY <1>10, Zenon DEF vars, Inv, Tooling, Loading, IsConf
  <2> QED BY <2>1, Aside, Zenon
<1> QED BY <1>1, <1>2, <1>3, <1>4, <1>5, <1>6, <1>7, <1>8, <1>9, <1>10, Zenon DEF Next

\* The invariant holds in every reachable state.
THEOREM AlwaysInv == Spec => []Inv
BY InitInv, NextInv, PTL DEF Spec

\* For any number of directories, operations and faults, the managed pairs of
\* enabled virtual hosts match between operations (installCertificate,
\* handleCertificateDelete, configMu).
THEOREM PairsAlwaysMatch == Spec => []PairsMatch
<1>1. Inv => PairsMatch
  BY CertificateConstants, Zenon DEF Inv, Staged, Others, PairsMatch, At, InForce, Match
<1> QED BY <1>1, AlwaysInv, PTL

\* Whatever half-written files a build meets, a runtime is only replaced by one
\* whose pairs match and cover the domains of their virtual hosts, and that asks
\* for the same listeners (App.Reload, certstore.Load).
THEOREM ReloadsAreSafe == Spec => ReloadIsSafe
<1> DEFINE A == running' # running /\ running' # Down
                  => /\ \A d \in Enabled(running'.conf) :
                           running'.pair[d] # Absent
                           /\ running'.pair[d].key = KeyOf[running'.pair[d].cert]
                           /\ running'.conf.domains[d] \subseteq Covers[running'.pair[d].cert]
                     /\ running # Down => running'.conf.listen = running.conf.listen
<1>1. Inv /\ [Next]_vars => [A]_vars
  <2> SUFFICES ASSUME Inv, Next, running' # running, running' # Down PROVE A
    BY Zenon DEF vars
  <2>1. Publish
    BY Zenon DEF Next, Operate, WAFStep, BeginUpload, BeginDelete, ApplyConfig, RestoreConfig, WriteCert,
           WriteKey, WriteMeta, Remove, WriteConfig, Validate, RestoreCert, RestoreKey, RestoreMeta,
           RestoreConfigFile, Timeout, Refused, LoadConfig, ReadCert, ReadKey, LoadFails, Hup, StopWAF,
           ToolInstall, ToolUpsert, ToolInstallKey, ToolUpsertWrite, Expire, Crash, wafVars
  <2>2. /\ loading # NoLoad /\ loading.todo = {}
        /\ running = Down \/ running.conf.listen = loading.conf.listen
        /\ running' = Runtime(loading.conf, loading.got)
    BY <2>1, Zenon DEF Publish
  <2>3. running'.conf = loading.conf /\ running'.pair = loading.got
    BY <2>2, Zenon DEF Runtime
  <2>4. \A d \in Enabled(loading.conf) :
           Usable(loading.got[d], loading.conf.domains[d])
    BY <2>2, Zenon DEF Inv, Loading, IsConf
  <2> QED BY <2>2, <2>3, <2>4, Zenon DEF Usable
<1> QED BY <1>1, AlwaysInv, PTL DEF Spec, ReloadIsSafe

-----------------------------------------------------------------------------
(* What an operation leaves behind.  The steps that matter are those of the *)
(* operation itself, the answers it gets and the write of vhost upsert; all *)
(* others stand by.                                                         *)

\* A step leaves the pair of d alone.
Same(d) == cert'[d] = cert[d] /\ key'[d] = key[d]

\* A step of somebody else.
Bystander ==
    UNCHANGED <<op, base, last, conf, meta>> /\ (broken => broken') /\ \A d \in Managed : Same(d)

\* The operation is answered.
Answered(a, c) ==
    Reply(a, c) /\ (broken => broken') /\ UNCHANGED <<base, cert, key, meta, conf>>

\* An operation begins ...
Begins ==
    \/ \E d \in Managed, c \in Cert : BeginUpload(d, c)
    \/ \E d \in Managed : BeginDelete(d)
    \/ \E c \in Candidate : ApplyConfig(c) \/ RestoreConfig(c)

\* ... and does one of its steps.
Works ==
    \/ WriteCert \/ WriteKey \/ WriteMeta \/ Remove \/ WriteConfig \/ Validate
    \/ RestoreCert \/ RestoreKey \/ RestoreMeta \/ RestoreConfigFile

\* The end of a build answers the operation or is none of its business.
LEMMA EndLoadFrame ==
    ASSUME NEW a, NEW c, EndLoad(a, c), UNCHANGED <<base, cert, key, meta, conf>>, broken => broken'
    PROVE  Bystander \/ (loading.for = "op" /\ Answered(a, c))
<1>1. CASE loading.for = "op"
  BY <1>1, Zenon DEF EndLoad, Answered
<1>2. CASE loading.for # "op"
  BY <1>2, Zenon DEF EndLoad, Bystander, Same
<1> QED BY <1>1, <1>2, Zenon

\* Every step is of one of these kinds.
LEMMA Kinds ==
    ASSUME Inv, [Next]_vars
    PROVE  \/ Begins \/ Works \/ Bystander \/ ToolUpsertWrite \/ Crash
           \/ \E a, c : Answered(a, c)
<1> DEFINE Kind == \/ Begins \/ Works \/ Bystander \/ ToolUpsertWrite \/ Crash
                   \/ \E a, c : Answered(a, c)
<1>1. ASSUME Begins \/ Works \/ ToolUpsertWrite \/ Crash PROVE Kind
  BY <1>1, Zenon
<1>2. ASSUME Timeout PROVE Kind
  <2>1. Answered("error", "mishap")
    BY <1>2, Breaks, Zenon DEF Timeout, files, Answered
  <2> QED BY <2>1, Zenon
<1>3. ASSUME Refused PROVE Kind
  <2>1. Answered("error", "mishap")
    BY <1>3, Zenon DEF Refused, files, world, Answered
  <2> QED BY <2>1, Zenon
<1>4. ASSUME NEW for, LoadConfig(for) PROVE Kind
  <2>1. Bystander
    BY <1>4, Zenon DEF LoadConfig, files, world, opVars, Bystander, Same
  <2> QED BY <2>1, Zenon
<1>5. ASSUME NEW d, ReadCert(d) PROVE Kind
  <2>1. UNCHANGED <<base, cert, key, meta, conf, broken>>
    BY <1>5, Zenon DEF ReadCert, files, world
  <2>2. CASE UNCHANGED <<op, last>>
    BY <2>1, <2>2, Zenon DEF Bystander, Same
  <2>3. CASE EndLoad("error", d)
    BY <2>1, <2>3, EndLoadFrame, Zenon
  <2> QED BY <1>5, <2>2, <2>3, Zenon DEF ReadCert
<1>6. ASSUME ReadKey PROVE Kind
  <2>1. UNCHANGED <<base, cert, key, meta, conf, broken>>
    BY <1>6, Zenon DEF ReadKey, files, world
  <2>2. CASE UNCHANGED <<op, last>>
    BY <2>1, <2>2, Zenon DEF Bystander, Same
  <2>3. ASSUME NEW c, EndLoad("error", c) PROVE Kind
    BY <2>1, <2>3, EndLoadFrame, Zenon
  <2> QED BY <1>6, <2>2, <2>3, Zenon DEF ReadKey
<1>7. ASSUME Publish \/ LoadFails \/ StopWAF PROVE Kind
  <2>1. UNCHANGED <<base, cert, key, meta, conf>> /\ \E a, c : EndLoad(a, c)
    BY <1>7, Zenon DEF Publish, LoadFails, StopWAF, files
  <2>2. UNCHANGED world \/ May("reload") \/ May("restart")
    BY <1>7, Zenon DEF Publish, LoadFails, StopWAF
  <2>3. broken => broken'
    BY <2>2, Breaks, Zenon DEF world
  <2> QED BY <2>1, <2>3, EndLoadFrame, Zenon
<1>8. ASSUME Hup \/ \E c \in Cert : Expire(c) PROVE Kind
  <2>1. May("hup") \/ May("expiry")
    BY <1>8, Zenon DEF Hup, Expire
  <2>2. Bystander
    BY <1>8, <2>1, Breaks, Zenon DEF Hup, Expire, files, opVars, Bystander, Same
  <2> QED BY <2>2, Zenon
<1>9. ASSUME NEW d \in Dir \ Managed, NEW c \in Cert, ToolInstall(d, c) PROVE Kind
  <2>1. \A e \in Managed : cert'[e] = cert[e]
    BY <1>9, OfManaged, Zenon DEF ToolInstall, Inv, Types
  <2>2. Bystander
    BY <1>9, <2>1, Breaks, Zenon DEF ToolInstall, Run, opVars, Bystander, Same
  <2> QED BY <2>2, Zenon
<1>10. ASSUME ToolInstallKey PROVE Kind
  <2>1. tool.dir \in Dir \ Managed
    BY <1>10, Zenon DEF ToolInstallKey, Inv, Tooling
  <2>2. \A e \in Managed : key'[e] = key[e]
    BY <1>10, <2>1, OfManaged, Zenon DEF ToolInstallKey, Inv, Types
  <2>3. Bystander
    BY <1>10, <2>2, SMTT(30) DEF ToolInstallKey, faultVars, opVars, Bystander, Same
  <2> QED BY <2>3, Zenon
<1>11. ASSUME NEW d \in Dir, NEW n \in Domain, ToolUpsert(d, n) PROVE Kind
  <2>1. May("tool") /\ UNCHANGED <<cert, key, meta, conf, op, base, last>>
    BY <1>11, Zenon DEF ToolUpsert, Run, files, opVars
  <2>2. Bystander
    BY <2>1, Breaks, Zenon DEF Bystander, Same
  <2> QED BY <2>2, Zenon
<1>12. ASSUME UNCHANGED vars PROVE Kind
  <2>1. Bystander
    BY <1>12, Zenon DEF vars, Bystander, Same
  <2> QED BY <2>1, Zenon
<1> HIDE DEF Kind
<1>13. Kind
  BY <1>1, <1>2, <1>3, <1>4, <1>5, <1>6, <1>7, <1>8, <1>9, <1>10, <1>11, <1>12, Zenon
     DEF Next, Operate, WAFStep, Begins, Works
<1> QED BY <1>13, Zenon DEF Kind

-----------------------------------------------------------------------------
(* A pair that some virtual host names is not deleted.                      *)

\* The check of certificateInUse holds for as long as os.RemoveAll runs.
Removing == op.pc = "remove" /\ ~broken => conf.use[op.dir] = "no"

\* Where an operation goes from a stage.
LEMMA RemoveBegins ==
    ASSUME Inv, [Next]_vars, op'.pc = "remove"
    PROVE  \/ \E d \in Managed : BeginDelete(d)
           \/ UNCHANGED <<op, conf>> /\ (broken => broken')
           \/ UNCHANGED op /\ broken'
<1>1. ASSUME NEW r, Answer(r) PROVE FALSE
  BY <1>1, Zenon DEF Answer, Idle, Op
<1>2. ASSUME NEW pc \in Stage \ {"remove"}, NEW n, NEW u, NEW c, op' = Op(pc, op.dir, n, u, c)
      PROVE  FALSE
  BY <1>2, Zenon DEF Op
<1>3. ASSUME Begins PROVE \E d \in Managed : BeginDelete(d)
  <2>1. ASSUME NEW d, NEW c, BeginUpload(d, c) PROVE FALSE
    BY <2>1, Zenon DEF BeginUpload, Begin, Op
  <2>2. ASSUME NEW c, ApplyConfig(c) \/ RestoreConfig(c) PROVE FALSE
    <3>1. Begin("config", None, c, conf)
      BY <2>2, Zenon DEF ApplyConfig, RestoreConfig
    <3> QED BY <3>1, Zenon DEF Begin, Op
  <2> QED BY <1>3, <2>1, <2>2, Zenon DEF Begins
<1>4. ASSUME Works PROVE Remove
  <2> USE <1>1, <1>2 DEF Stage
  <2>1. ~WriteCert /\ ~WriteKey /\ ~WriteMeta
    BY Zenon DEF WriteCert, WriteKey, WriteMeta, Goto, StartUndo
  <2>2. ~WriteConfig /\ ~Validate
    BY Zenon DEF WriteConfig, Validate, Goto, StartUndo
  <2>3. \A pc \in {"undoKey", "undoMeta"} : \A ok : ~UndoGoto(pc, ok)
    BY Zenon DEF UndoGoto
  <2>6. ~RestoreCert /\ ~RestoreKey
    BY <2>3, Zenon DEF RestoreCert, RestoreKey
  <2>4. \A ok : ~Restored(ok)
    BY Zenon DEF Restored, Goto
  <2>5. ~RestoreMeta /\ ~RestoreConfigFile
    BY <2>4, Zenon DEF RestoreMeta, RestoreConfigFile
  <2> QED BY <1>4, <2>1, <2>2, <2>5, <2>6, Zenon DEF Works
<1>5. ASSUME Remove PROVE UNCHANGED <<op, conf>> /\ (broken => broken')
  <2>1. UNCHANGED conf
    BY <1>5, Zenon DEF Remove
  <2>2. UNCHANGED op /\ UNCHANGED faultVars
    BY <1>1, <1>5, Zenon DEF Remove
  <2> QED BY <2>1, <2>2, Zenon DEF faultVars
<1>6. ASSUME NEW a, NEW c, Answered(a, c) PROVE FALSE
  <2> USE <1>1, <1>2 DEF Stage
  <2>1. ASSUME NEW pc \in {"undoConfig", "undoCert"} PROVE ~StartUndo(pc, "reload", c)
    BY Zenon DEF StartUndo
  <2> QED BY <1>6, <2>1, Zenon DEF Answered, Reply
<1>7. ASSUME ToolUpsertWrite PROVE UNCHANGED op /\ broken'
  <2>1. UNCHANGED op
    BY <1>7, Zenon DEF ToolUpsertWrite
  <2>2. ~At("idle")
    BY <2>1, Zenon DEF At
  <2> QED BY <1>7, <2>1, <2>2, Zenon DEF ToolUpsertWrite
<1>8. ~Crash
  BY IdleFields, Zenon DEF Crash
<1> QED BY <1>3, <1>4, <1>5, <1>6, <1>7, <1>8, Kinds, Zenon DEF Bystander

\* A pair is removed only where the configuration does not use it.
LEMMA RemovingPreserved == ASSUME Inv, Removing, [Next]_vars PROVE Removing'
<1> SUFFICES ASSUME op'.pc = "remove", ~broken' PROVE conf'.use[op'.dir] = "no"
  BY Zenon DEF Removing
<1>1. ASSUME NEW d \in Managed, BeginDelete(d) PROVE conf'.use[op'.dir] = "no"
  BY <1>1, Zenon DEF BeginDelete, Begin, InUse, files, Op
<1> QED BY <1>1, RemoveBegins, Zenon DEF Removing

\* The certificate of a managed directory disappears in two ways.
LEMMA CertGoes ==
    ASSUME Inv, [Next]_vars, NEW d \in Managed, cert[d] # Absent, cert'[d] = Absent
    PROVE  op.dir = d /\ (op.pc = "remove" \/ base.cert = Absent)
<1>1. cert' # cert
  BY Zenon
<1>2. Remove \/ RestoreCert \/ WriteCert
  BY <1>1, Kinds, Zenon DEF Begins, Works, Bystander, Same, Answered, Crash, BeginUpload, BeginDelete,
     ApplyConfig, RestoreConfig, WriteKey, WriteMeta, WriteConfig, Validate, RestoreKey, RestoreMeta,
     RestoreConfigFile, ToolUpsertWrite, files
<1>3. d \in Dir /\ cert \in [Dir -> Cert \cup {Absent}]
  BY OfManaged, Zenon DEF Inv, Types
<1>4. CASE Remove
  <2>1. op.pc = "remove" /\ cert' = [cert EXCEPT ![op.dir] = Absent]
    BY <1>1, <1>4, Zenon DEF Remove, At
  <2> QED BY <1>3, <2>1, Zenon
<1>5. CASE RestoreCert
  <2>1. op.pc = "undoCert" /\ cert' = [cert EXCEPT ![op.dir] = base.cert]
    BY <1>1, <1>5, Zenon DEF RestoreCert, At
  <2>2. op.dir \in Dir
    BY <2>1, OfManaged, Zenon DEF Inv, Staged, OfPair
  <2> QED BY <1>3, <2>1, <2>2, Zenon
<1>6. CASE WriteCert
  <2>1. op.pc = "cert" /\ cert' = [cert EXCEPT ![op.dir] = op.new]
    BY <1>1, <1>6, Zenon DEF WriteCert, At
  <2>2. op.dir \in Dir /\ op.new \in Cert
    BY <2>1, OfManaged, Zenon DEF Inv, Staged, OfPair
  <2> QED BY <1>3, <2>1, <2>2, CertificateConstants, Zenon
<1> QED BY <1>2, <1>4, <1>5, <1>6, Zenon

\* handleCertificateDelete holds configMu from the check of certificateInUse to
\* the last file it removes, so a configuration that begins to name the pair
\* cannot slip in between.
THEOREM ReferencedPairStays == Spec => ReferencedStays
<1> DEFINE A == \A d \in Managed : cert[d] # Absent /\ cert'[d] = Absent /\ ~broken
                    => conf.use[d] = "no" \/ base.cert = Absent
<1>1. Init => Removing
  BY IdleFields, Zenon DEF Init, Removing
<1>2. Inv /\ Removing /\ [Next]_vars => Removing'
  BY RemovingPreserved, Zenon
<1>3. Inv /\ Removing /\ [Next]_vars => [A]_vars
  BY CertGoes, Zenon DEF Removing
<1> QED BY <1>1, <1>2, <1>3, AlwaysInv, PTL DEF Spec, ReferencedStays

-----------------------------------------------------------------------------
(* What an operation undoes.                                                *)

\* The answers of an operation that was undone.
Refusals == {"unwritten", "rolledback", "reverted", "unreloaded"}

\* The files of an operation are as it found them.
AsFound(d) == IF d = None THEN conf = base ELSE Files(d) = base

\* A step makes, or leaves, them so.
Back(d) ==
    IF d = None THEN conf' = base' ELSE [cert |-> cert'[d], key |-> key'[d], meta |-> meta'[d]] = base'

\* They are so before the first write, after the last of restore(), and in the
\* end if the operation says so.
Intact ==
    /\ op.pc \in {"cert", "again"} => AsFound(op.dir)
    /\ op.pc = "idle" /\ last.result \in Refusals => AsFound(last.dir)

\* What was saved are the three files, and the latest operation had a subject.
SavedFiles ==
    /\ DOMAIN meta = Dir
    /\ op.pc \in OfPair \cup {"reload"} /\ op.dir # None
          => base = [cert |-> base.cert, key |-> base.key, meta |-> base.meta]
\* The last answer names the directory it was about.
LastIs ==
    /\ last.result \in Refusals => last.dir \in Managed \cup {None}
    /\ last = [result |-> last.result, dir |-> last.dir, new |-> last.new, cause |-> last.cause]

\* The inductive invariant behind Undone.
UndoInv == SavedFiles /\ LastIs /\ (~broken => Intact)

\* Nothing has been changed at the start.
LEMMA UndoInit == Init => UndoInv
<1> SUFFICES ASSUME Init PROVE UndoInv
  BY Zenon
<1>1. /\ op.pc = "idle" /\ last = [result |-> "none", dir |-> None, new |-> None, cause |-> None]
      /\ DOMAIN meta = Dir
  BY IdleFields, Zenon DEF Init
<1>2. last.result = "none" /\ LastIs
  BY <1>1, Zenon DEF LastIs
<1> QED BY <1>1, <1>2, Zenon DEF UndoInv, SavedFiles, Intact, Refusals, OfPair

\* An operation ends.
LEMMA AnswerIntact ==
    ASSUME Inv, UndoInv, DOMAIN meta' = Dir, NEW r, Answer(r), op.dir \in Managed \cup {None},
           ~broken' /\ r \in Refusals => Back(op.dir)
    PROVE  UndoInv'
<1>1. op'.pc = "idle" /\ last'.result = r /\ last'.dir = op.dir
  BY IdleFields, Zenon DEF Answer, Ended
<1>2. LastIs'
  BY Zenon DEF Answer, Ended, LastIs
<1>3. SavedFiles'
  BY <1>1, Zenon DEF SavedFiles, OfPair
<1>4. ~broken' => Intact'
  BY <1>1, Zenon DEF Intact, AsFound, Back, Files
<1> QED BY <1>2, <1>3, <1>4, Zenon DEF UndoInv

\* An operation goes on.
LEMMA GoOnIntact ==
    ASSUME Inv, UndoInv, NEW pc \in Stage \ {"idle", "cert"}, NEW n, NEW u, NEW c,
           op' = Op(pc, op.dir, n, u, c), UNCHANGED <<last, base>>, DOMAIN meta' = Dir,
           op.pc \in OfPair \cup OfConfig \cup {"reload"},
           ~broken' /\ pc = "again" => Back(op.dir)
    PROVE  UndoInv'
<1>1. op'.pc = pc /\ op'.dir = op.dir
  BY Zenon DEF Op
<1>2. LastIs'
  BY Zenon DEF LastIs, UndoInv
<1>3. op.pc \in OfConfig => op.dir = None
  BY Zenon DEF Inv, Staged
<1>4. SavedFiles'
  BY <1>1, <1>3, Zenon DEF UndoInv, SavedFiles
<1>5. ~broken' => Intact'
  BY <1>1, Zenon DEF Intact, AsFound, Back, Files
<1> QED BY <1>2, <1>4, <1>5, Zenon DEF UndoInv

\* The operation begins, and saves what it is about to replace.
LEMMA BeginsIntact == ASSUME Inv, UndoInv, Begins PROVE UndoInv'
<1>1. ASSUME NEW pc \in {"cert", "remove", "config"}, NEW d, NEW n, NEW o, Begin(pc, d, n, o),
             UNCHANGED files, pc = "cert" => d # None /\ o = Files(d)
      PROVE  UndoInv'
  <2>1. op'.pc = pc /\ op'.dir = d /\ base' = o /\ UNCHANGED last
    BY <1>1, Zenon DEF Begin, Op
  <2>2. LastIs'
    BY <2>1, Zenon DEF LastIs, UndoInv
  <2>3. SavedFiles'
    <3>1. Files(d) = [cert |-> Files(d).cert, key |-> Files(d).key, meta |-> Files(d).meta]
      BY Zenon DEF Files
    <3>2. DOMAIN meta' = Dir
      BY <1>1, Zenon DEF UndoInv, SavedFiles, files
    <3> QED BY <1>1, <2>1, <3>1, <3>2, Zenon DEF SavedFiles, OfPair
  <2>4. pc = "cert" => Back(d)
    BY <1>1, <2>1, Zenon DEF Back, Files, files
  <2>5. Intact'
    BY <2>1, <2>4, Zenon DEF Intact, AsFound, Back, Files
  <2> QED BY <2>2, <2>3, <2>5, Zenon DEF UndoInv
<1>2. ASSUME NEW d \in Managed, NEW c, BeginUpload(d, c) PROVE UndoInv'
  BY <1>1, <1>2, OfManaged, Zenon DEF BeginUpload
<1>3. ASSUME NEW d, BeginDelete(d) PROVE UndoInv'
  BY <1>1, <1>3, Zenon DEF BeginDelete
<1>4. ASSUME NEW c, ApplyConfig(c) \/ RestoreConfig(c) PROVE UndoInv'
  <2>1. Begin("config", None, c, conf) /\ UNCHANGED files
    BY <1>4, Zenon DEF ApplyConfig, RestoreConfig
  <2> QED BY <1>1, <2>1, Zenon
<1> QED BY <1>2, <1>3, <1>4, Zenon DEF Begins

\* restore() has come to its end.
LEMMA RestoredIntact ==
    ASSUME Inv, UndoInv, NEW ok, Restored(ok), op.pc \in {"undoMeta", "undoConfig"},
           UNCHANGED base, DOMAIN meta' = Dir, ~broken' => Back(op.dir)
    PROVE  UndoInv'
<1>1. op.dir \in Managed \cup {None} /\ op.pc \in OfPair \cup OfConfig \cup {"reload"}
  BY Zenon DEF Inv, Staged, OfPair, OfConfig
<1>2. CASE Goto("again") /\ UNCHANGED last
  BY <1>1, <1>2, GoOnIntact, Zenon DEF Goto, Stage
<1>3. ASSUME NEW r, Answer(r) PROVE UndoInv'
  BY <1>1, <1>3, AnswerIntact, Zenon
<1> QED BY <1>2, <1>3, Zenon DEF Restored

\* The steps of an operation.
LEMMA WorksIntact == ASSUME Inv, UndoInv, Works PROVE UndoInv'
<1> DEFINE On == OfPair \cup OfConfig \cup {"reload"}
<1>1. /\ op.pc \in On \cup {"remove"} => op.dir \in Managed \cup {None}
      /\ op.pc \in OfPair \cup {"remove"} => op.dir \in Managed /\ op.dir \in Dir /\ op.dir # None
      /\ op.pc \in OfConfig => op.dir = None
      /\ DOMAIN meta = Dir
  BY OfManaged, Zenon DEF Inv, Staged, UndoInv, SavedFiles
<1>2. ASSUME NEW pc \in Stage \ {"idle", "cert", "again"}, NEW n, NEW u, NEW c,
             op' = Op(pc, op.dir, n, u, c), UNCHANGED <<last, base>>, DOMAIN meta' = Dir, op.pc \in On
      PROVE  UndoInv'
  BY <1>2, GoOnIntact, Zenon
<1>3. ASSUME NEW r, Answer(r), r \notin Refusals, op.pc \in On \cup {"remove"}, DOMAIN meta' = Dir
      PROVE  UndoInv'
  BY <1>1, <1>3, AnswerIntact, Zenon
<1>4. CASE WriteCert
  <2>1. op.pc = "cert" /\ UNCHANGED <<base, key, meta, conf>>
    BY <1>4, Zenon DEF WriteCert, At
  <2>2. CASE Goto("key") /\ UNCHANGED last
    BY <1>1, <1>2, <2>1, <2>2, Zenon DEF Goto, Stage, OfPair
  <2>3. CASE May("write") /\ Answer("unwritten") /\ UNCHANGED cert
    <3>1. ~broken' => AsFound(op.dir)
      BY <2>1, <2>3, Breaks, Zenon DEF UndoInv, Intact
    <3>2. ~broken' => Back(op.dir)
      BY <2>1, <2>3, <3>1, Zenon DEF AsFound, Back, Files
    <3> QED BY <1>1, <2>1, <2>3, <3>2, AnswerIntact, Zenon DEF OfPair
  <2> QED BY <1>4, <2>2, <2>3, Zenon DEF WriteCert
<1>5. CASE WriteKey
  <2>1. op.pc = "key" /\ UNCHANGED <<base, meta>>
    BY <1>5, Zenon DEF WriteKey, At
  <2>2. CASE Goto("meta") /\ UNCHANGED last
    BY <1>1, <1>2, <2>1, <2>2, Zenon DEF Goto, Stage, OfPair
  <2>3. CASE StartUndo("undoCert", "write", "mishap")
    BY <1>1, <1>2, <2>1, <2>3, Zenon DEF StartUndo, Stage, OfPair
  <2> QED BY <1>5, <2>2, <2>3, Zenon DEF WriteKey
<1>6. CASE WriteMeta
  <2>1. op.pc = "meta" /\ UNCHANGED base /\ DOMAIN meta' = Dir
    BY <1>1, <1>6, Zenon DEF WriteMeta, At
  <2>2. CASE Goto("reload") /\ UNCHANGED last
    BY <1>2, <2>1, <2>2, Zenon DEF Goto, Stage, OfPair
  <2>3. CASE Answer("stored")
    BY <1>3, <2>1, <2>3, Zenon DEF Refusals, OfPair
  <2>4. CASE StartUndo("undoCert", "write", "mishap")
    BY <1>2, <2>1, <2>4, Zenon DEF StartUndo, Stage, OfPair
  <2> QED BY <1>6, <2>2, <2>3, <2>4, Zenon DEF WriteMeta
<1>7. CASE Remove
  <2>1. op.pc = "remove" /\ UNCHANGED base /\ DOMAIN meta' = Dir
    BY <1>1, <1>7, Zenon DEF Remove, At
  <2>2. CASE Answer("deleted") \/ Answer("failed")
    BY <1>3, <2>1, <2>2, Zenon DEF Refusals
  <2>3. CASE UNCHANGED <<op, last>>
    BY <2>1, <2>3, Zenon DEF UndoInv, SavedFiles, LastIs, Intact, OfPair
  <2> QED BY <1>7, <2>2, <2>3, Zenon DEF Remove
<1>8. CASE WriteConfig \/ Validate
  <2>1. op.pc \in OfConfig /\ UNCHANGED <<base, meta>>
    BY <1>8, Zenon DEF WriteConfig, Validate, At, OfConfig, files
  <2>2. ASSUME NEW pc \in {"validate", "reload"}, Goto(pc), UNCHANGED last PROVE UndoInv'
    BY <1>1, <1>2, <2>1, <2>2, Zenon DEF Goto, Stage
  <2>3. ASSUME NEW u, NEW c, StartUndo("undoConfig", u, c) PROVE UndoInv'
    BY <1>1, <1>2, <2>1, <2>3, Zenon DEF StartUndo, Stage
  <2> QED BY <1>8, <2>2, <2>3, Zenon DEF WriteConfig, Validate
<1>9. CASE RestoreCert \/ RestoreKey
  <2>1. op.pc \in OfPair /\ UNCHANGED <<base, meta>>
    BY <1>9, Zenon DEF RestoreCert, RestoreKey, At, OfPair
  <2>2. ASSUME NEW pc \in {"undoKey", "undoMeta"}, NEW ok, UndoGoto(pc, ok) PROVE UndoInv'
    BY <1>1, <1>2, <2>1, <2>2, Zenon DEF UndoGoto, Stage
  <2> QED BY <1>9, <2>2, Zenon DEF RestoreCert, RestoreKey
<1>10. CASE RestoreMeta
  <2>1. op.pc = "undoMeta" /\ UNCHANGED <<base, cert, key>> /\ op.dir # None
    BY <1>1, <1>10, Zenon DEF RestoreMeta, At, OfPair
  <2>2. CASE meta' = [meta EXCEPT ![op.dir] = base.meta] /\ Restored(TRUE) /\ UNCHANGED faultVars
    <3>1. meta'[op.dir] = base.meta /\ DOMAIN meta' = Dir
      BY <1>1, <2>1, <2>2, Zenon DEF OfPair
    <3>2. ~broken => cert[op.dir] = base.cert /\ key[op.dir] = base.key
      BY <2>1, Zenon DEF Inv, Written
    <3>3. base = [cert |-> base.cert, key |-> base.key, meta |-> base.meta]
      BY <2>1, Zenon DEF UndoInv, SavedFiles, OfPair
    <3>4. ~broken' => Back(op.dir)
      BY <2>1, <2>2, <3>1, <3>2, <3>3, Zenon DEF Back, faultVars
    <3> QED BY <2>1, <2>2, <3>1, <3>4, RestoredIntact, Zenon
  <2>3. CASE May("undo") /\ Restored(FALSE) /\ UNCHANGED meta
    BY <1>1, <2>1, <2>3, Breaks, RestoredIntact, Zenon
  <2> QED BY <1>10, <2>2, <2>3, Zenon DEF RestoreMeta
<1>11. CASE RestoreConfigFile
  <2>1. op.pc = "undoConfig" /\ UNCHANGED <<base, meta>> /\ op.dir = None
    BY <1>1, <1>11, Zenon DEF RestoreConfigFile, At, OfConfig
  <2>2. CASE conf' = base /\ Restored(TRUE)
    <3>1. Back(op.dir)
      BY <2>1, <2>2, Zenon DEF Back
    <3> QED BY <1>1, <2>1, <2>2, <3>1, RestoredIntact, Zenon
  <2>3. CASE May("undo") /\ Restored(FALSE)
    BY <1>1, <2>1, <2>3, Breaks, RestoredIntact, Zenon
  <2> QED BY <1>11, <2>2, <2>3, Zenon DEF RestoreConfigFile
<1> QED BY <1>4, <1>5, <1>6, <1>7, <1>8, <1>9, <1>10, <1>11, Zenon DEF Works

\* The answers of the WAF.
LEMMA AnsweredIntact == ASSUME Inv, UndoInv, NEW a, NEW c, Answered(a, c) PROVE UndoInv'
<1>1. op.pc \in {"reload", "again"} /\ op.dir \in Managed \cup {None} /\ DOMAIN meta' = Dir
  BY Zenon DEF Answered, Reply, At, Inv, Staged, UndoInv, SavedFiles
<1>2. ASSUME NEW r, Answer(r), r \notin Refusals PROVE UndoInv'
  BY <1>1, <1>2, AnswerIntact, Zenon
<1>3. ASSUME NEW pc \in {"undoConfig", "undoCert"}, StartUndo(pc, "reload", c), op.pc = "reload"
      PROVE  UndoInv'
  BY <1>1, <1>3, GoOnIntact, Zenon DEF StartUndo, Answered, Stage
<1>4. ASSUME NEW r, Answer(r), op.pc = "again" PROVE UndoInv'
  <2>1. ~broken' => AsFound(op.dir)
    BY <1>4, Zenon DEF UndoInv, Intact, Answered
  <2>2. ~broken' => Back(op.dir)
    BY <2>1, Zenon DEF AsFound, Back, Files, Answered
  <2> QED BY <1>1, <1>4, <2>2, AnswerIntact, Zenon
<1>5. CASE op.pc = "reload" /\ Answer(IF op.dir = None THEN "applied" ELSE "installed")
  <2>1. (IF op.dir = None THEN "applied" ELSE "installed") \notin Refusals
    BY Zenon DEF Refusals
  <2> QED BY <1>2, <1>5, <2>1, Zenon
<1>6. CASE op.pc = "reload" /\ StartUndo(IF op.dir = None THEN "undoConfig" ELSE "undoCert", "reload", c)
  BY <1>3, <1>6, Zenon
<1>7. CASE op.pc = "reload" /\ Answer("restart")
  BY <1>2, <1>7, Zenon DEF Refusals
<1> QED BY <1>4, <1>5, <1>6, <1>7, Zenon DEF Answered, Reply, At

\* Every step keeps it.
LEMMA UndoPreserved == ASSUME Inv, UndoInv, [Next]_vars PROVE UndoInv'
<1>1. CASE Bystander
  <2>1. op.dir \in Managed \cup {None} \/ op.pc \notin {"cert", "again"}
    BY Zenon DEF Inv, Staged, OfPair
  <2>2. ASSUME NEW d \in Managed \cup {None}, AsFound(d) PROVE Back(d)
    BY <1>1, <2>2, Zenon DEF AsFound, Back, Files, Bystander, Same
  <2>3. ASSUME ~broken', op.pc \in {"cert", "again"} PROVE Back(op.dir)
    BY <1>1, <2>1, <2>2, <2>3, Zenon DEF UndoInv, Intact, Bystander
  <2>4. ASSUME ~broken', op.pc = "idle", last.result \in Refusals PROVE Back(last.dir)
    BY <1>1, <2>2, <2>4, Zenon DEF UndoInv, Intact, LastIs, Bystander
  <2>5. ~broken' => Intact'
    BY <1>1, <2>3, <2>4, Zenon DEF Intact, AsFound, Back, Files, Bystander
  <2>6. SavedFiles' /\ LastIs'
    BY <1>1, Zenon DEF UndoInv, SavedFiles, LastIs, Bystander
  <2> QED BY <2>5, <2>6, Zenon DEF UndoInv
<1>2. CASE ToolUpsertWrite
  <2>1. /\ UNCHANGED <<op, base, meta>> /\ last' = [last EXCEPT !.result = "tool"]
        /\ ~broken' => op.pc = "idle"
    BY <1>2, Zenon DEF ToolUpsertWrite, At
  <2>2. LastIs' /\ last'.result = "tool"
    <3>1. last = [result |-> last.result, dir |-> last.dir, new |-> last.new, cause |-> last.cause]
      BY Zenon DEF UndoInv, LastIs
    <3>2. last' = [result |-> "tool", dir |-> last.dir, new |-> last.new, cause |-> last.cause]
      BY <2>1, <3>1, SMTT(30)
    <3> QED BY <3>2, Zenon DEF LastIs, Refusals
  <2>3. SavedFiles' /\ (~broken' => Intact')
    BY <2>1, <2>2, Zenon DEF UndoInv, SavedFiles, Intact, Refusals
  <2> QED BY <2>2, <2>3, Zenon DEF UndoInv
<1>3. CASE Crash
  <2>1. /\ op'.pc = "idle" /\ broken' /\ last' = Ended("lost") /\ UNCHANGED meta
    BY <1>3, Breaks, IdleFields, Zenon DEF Crash, files
  <2>2. last'.result = "lost"
    BY <2>1, Zenon DEF Ended
  <2>3. LastIs'
    BY <2>1, <2>2, Zenon DEF Ended, LastIs, Refusals
  <2> QED BY <2>1, <2>3, Zenon DEF UndoInv, SavedFiles, OfPair
<1> QED BY <1>1, <1>2, <1>3, BeginsIntact, WorksIntact, AnsweredIntact, Kinds, Zenon

\* It holds in every reachable state.
LEMMA AlwaysUndoInv == Spec => []UndoInv
BY UndoInit, UndoPreserved, AlwaysInv, PTL DEF Spec

\* An operation that reports a failed write or a rollback has left its files as
\* it found them, whichever writes failed and whatever came meanwhile (the
\* restore closures of installCertificate and applyConfigBytes).
THEOREM RefusalUndone == Spec => []Undone
<1>1. UndoInv => Undone
  BY Zenon DEF UndoInv, Intact, AsFound, Refusals, Undone, At
<1> QED BY <1>1, AlwaysUndoInv, PTL

-----------------------------------------------------------------------------
(* Why an operation is refused.                                             *)

\* The steps that neither begin or continue a build nor answer an operation.
Quiet ==
    UNCHANGED <<loading, running>> /\ (Begins \/ Works \/ Bystander \/ ToolUpsertWrite)

\* An answer ends a wait.
LEMMA ReplyMoves == ASSUME NEW a, NEW c, Reply(a, c) PROVE op.pc \in {"reload", "again"} /\ op' # op
<1>1. op.pc \in {"reload", "again"}
  BY Zenon DEF Reply, At
<1>2. ASSUME NEW r, Answer(r) PROVE op'.pc = "idle"
  BY <1>2, IdleFields, Zenon DEF Answer
<1>3. ASSUME NEW pc, StartUndo(pc, "reload", c) PROVE op'.pc = pc
  BY <1>3, Zenon DEF StartUndo, Op
<1>4. op'.pc \in {"idle", "undoConfig", "undoCert"}
  BY <1>2, <1>3, Zenon DEF Reply
<1> QED BY <1>1, <1>4, Zenon

\* Only the WAF and what befalls it changes what runs and what is loading.
LEMMA Quiets ==
    ASSUME Inv, [Next]_vars, ~(WAFStep \/ Timeout \/ Refused \/ StopWAF \/ Crash)
    PROVE  Quiet
<1>1. ASSUME Begins PROVE UNCHANGED <<loading, running>>
  BY <1>1, Zenon DEF Begins, BeginUpload, BeginDelete, ApplyConfig, RestoreConfig, wafVars
<1>2. ASSUME Works PROVE UNCHANGED <<loading, running>>
  BY <1>2, Zenon DEF Works, WriteCert, WriteKey, WriteMeta, Remove, WriteConfig, Validate, RestoreCert,
     RestoreKey, RestoreMeta, RestoreConfigFile, wafVars
<1>3. ASSUME ToolUpsertWrite PROVE UNCHANGED <<loading, running>>
  BY <1>3, Zenon DEF ToolUpsertWrite, wafVars
<1>4. ASSUME ~Begins, ~Works, ~ToolUpsertWrite PROVE UNCHANGED <<op, loading, running>>
  BY <1>4, Zenon DEF Next, Operate, Begins, Works, Hup, Expire, ToolInstall, ToolUpsert, ToolInstallKey,
     opVars, wafVars, vars
<1>5. ASSUME NEW a, NEW c, Answered(a, c), UNCHANGED op PROVE FALSE
  BY <1>5, ReplyMoves, Zenon DEF Answered
<1> QED BY <1>1, <1>2, <1>3, <1>4, <1>5, Kinds, Zenon DEF Quiet

\* Time does not run backwards.
LEMMA ExpiredGrows == ASSUME [Next]_vars PROVE expired \subseteq expired'
<1>1. ASSUME NEW c, Expire(c) PROVE expired \subseteq expired'
  BY <1>1, Zenon DEF Expire
<1>2. ASSUME ~(\E c : Expire(c)), Next PROVE UNCHANGED expired
  BY <1>2, Zenon DEF Next, Operate, WAFStep, BeginUpload, BeginDelete, ApplyConfig, RestoreConfig, WriteCert,
     WriteKey, WriteMeta, Remove, WriteConfig, Validate, RestoreCert, RestoreKey, RestoreMeta,
     RestoreConfigFile, Timeout, Refused, LoadConfig, ReadCert, ReadKey, Publish, LoadFails, Hup, StopWAF,
     ToolInstall, ToolUpsert, ToolInstallKey, ToolUpsertWrite, Crash, world
<1> QED BY <1>1, <1>2, Zenon DEF vars

\* A build whose end the operation awaits.
Caller == loading.for = "op" => op.pc \in {"reload", "again"} /\ running # Down

\* The pair of an upload is on disk when it asks for the reload ...
Installed ==
    /\ op.pc = "key" => cert[op.dir] = op.new
    /\ op.pc \in {"meta", "reload"} /\ op.dir # None
          => cert[op.dir] = op.new /\ key[op.dir] = KeyOf[op.new]

\* ... and is what that reload reads.
ReadNew ==
    loading.for = "op" /\ op.pc = "reload" /\ op.dir # None /\ loading.dir = op.dir
        => loading.read = op.new

\* The operation may turn back for c: not for its own pair unless that has
\* expired, and not for the domain its pair was validated for.
Just(c) ==
    \A d \in Managed : op.dir = d => (c = d => op.new \in expired) /\ c # DomainOf[d]
Justly == Just(op.cause)

\* What is known of the pair of an upload.
OwnPair == Installed /\ Justly /\ RefusedForCause

\* The inductive invariant behind RefusedForCause.
CauseInv == Caller /\ ReadNew /\ OwnPair

\* Other causes are no concern of the pair.
LEMMA Foreign ==
    ASSUME NEW c, c \in {None, "mishap", "listeners", "candidate"} \/ (c \in Dir /\ c # op.dir)
    PROVE  Just(c)
<1>1. c # op.dir \/ c \notin Dir
  BY CertificateConstants, Zenon
<1>2. c \notin Domain
  BY CertificateConstants, Zenon
<1>3. \A d \in Managed : d \in Dir /\ DomainOf[d] \in Domain
  BY CertificateConstants, Zenon
<1> QED BY <1>1, <1>2, <1>3, Zenon DEF Just

\* Nothing was refused at the start.
LEMMA CauseInit == Init => CauseInv
<1> SUFFICES ASSUME Init PROVE CauseInv
  BY Zenon
<1>1. op.pc = "idle" /\ op.cause = None /\ loading.for = "nobody" /\ last.cause = None
  BY IdleFields, NoLoadFields, Zenon DEF Init
<1> QED BY <1>1, CertificateConstants, Zenon DEF CauseInv, Caller, ReadNew, OwnPair, Installed, Justly, Just,
           RefusedForCause

\* What the operation makes of an answer.
LEMMA ReplyOwn ==
    ASSUME OwnPair, NEW a, NEW c, Reply(a, c), UNCHANGED <<cert, key>>, expired \subseteq expired',
           op.pc = "reload" => Just(c)
    PROVE  OwnPair'
<1>1. ASSUME NEW r, Answer(r) PROVE OwnPair'
  <2>1. op'.pc = "idle" /\ op'.cause = None
    BY <1>1, IdleFields, Zenon DEF Answer
  <2>2. last'.cause = op.cause /\ last'.dir = op.dir /\ last'.new = op.new
    BY <1>1, Zenon DEF Answer, Ended
  <2> QED BY <2>1, <2>2, CertificateConstants, Zenon DEF OwnPair, Installed, Justly, Just, RefusedForCause
<1>2. ASSUME NEW pc \in {"undoConfig", "undoCert"}, StartUndo(pc, "reload", c), op.pc = "reload"
      PROVE  OwnPair'
  <2>1. op'.pc = pc /\ op'.cause = c /\ op'.dir = op.dir /\ op'.new = op.new /\ UNCHANGED last
    BY <1>2, Zenon DEF StartUndo, Op
  <2> QED BY <1>2, <2>1, Zenon DEF OwnPair, Installed, Justly, Just, RefusedForCause
<1>3. CASE op.pc = "reload" /\ StartUndo(IF op.dir = None THEN "undoConfig" ELSE "undoCert", "reload", c)
  BY <1>2, <1>3, Zenon
<1> QED BY <1>1, <1>3, Zenon DEF Reply, At

\* The end of a build.
LEMMA EndLoadOwn ==
    ASSUME CauseInv, NEW a, NEW c, EndLoad(a, c), UNCHANGED <<cert, key>>, expired \subseteq expired',
           loading.for = "op" /\ op.pc = "reload" => Just(c)
    PROVE  CauseInv'
<1>1. loading'.for = "nobody"
  BY NoLoadFields, Zenon DEF EndLoad
<1>2. CASE loading.for = "op"
  <2>1. Reply(a, c)
    BY <1>2, Zenon DEF EndLoad
  <2> QED BY <1>1, <1>2, <2>1, ReplyOwn, Zenon DEF CauseInv, Caller, ReadNew
<1>3. CASE loading.for # "op"
  <2>1. UNCHANGED <<op, last>>
    BY <1>3, Zenon DEF EndLoad
  <2> QED BY <1>1, <2>1, Zenon DEF CauseInv, Caller, ReadNew, OwnPair, Installed, Justly, Just, RefusedForCause
<1> QED BY <1>2, <1>3, Zenon

\* An operation at work: only an upload installs, and only a failed write or an
\* invalid candidate makes it turn back.
LEMMA WorksOwn == ASSUME Inv, OwnPair, Works, expired \subseteq expired' PROVE OwnPair'
<1>1. op.pc \in OfPair => op.dir \in Dir /\ op.new \in Cert /\ op.dir # None
  BY OfManaged, Zenon DEF Inv, Staged
<1>2. ASSUME NEW r, Answer(r) PROVE OwnPair'
  <2>1. op'.pc = "idle" /\ op'.cause = None
    BY <1>2, IdleFields, Zenon DEF Answer
  <2>2. last'.cause = op.cause /\ last'.dir = op.dir /\ last'.new = op.new
    BY <1>2, Zenon DEF Answer, Ended
  <2> QED BY <2>1, <2>2, CertificateConstants, Zenon DEF OwnPair, Installed, Justly, Just, RefusedForCause
<1>3. ASSUME NEW pc, NEW u, NEW c \in {op.cause, "mishap", "candidate"}, UNCHANGED last,
             op' = Op(pc, op.dir, op.new, u, c),
             pc \in {"key", "meta", "reload"} => Installed'
      PROVE  OwnPair'
  <2>1. op'.pc = pc /\ op'.cause = c /\ op'.dir = op.dir /\ op'.new = op.new
    BY <1>3, Zenon DEF Op
  <2>2. Installed'
    BY <1>3, <2>1, Zenon DEF Installed
  <2>3. Justly'
    BY <2>1, CertificateConstants, Zenon DEF OwnPair, Justly, Just
  <2> QED BY <1>3, <2>2, <2>3, Zenon DEF OwnPair, RefusedForCause
<1>3b. ASSUME NEW pc \in Stage \ {"key", "meta", "reload"}, NEW u,
              NEW c \in {op.cause, "mishap", "candidate"}, UNCHANGED last, op' = Op(pc, op.dir, op.new, u, c)
       PROVE  OwnPair'
  BY <1>3, <1>3b, Zenon
<1>4. CASE WriteCert
  <2>1. CASE cert' = [cert EXCEPT ![op.dir] = op.new] /\ Goto("key") /\ UNCHANGED last /\ op.pc = "cert"
    <3>1. op'.pc = "key" /\ op'.dir = op.dir /\ op'.new = op.new
      BY <2>1, Zenon DEF Goto, Op
    <3>2. Installed'
      BY <1>1, <2>1, <3>1, Zenon DEF Installed, Inv, Types, OfPair
    <3> QED BY <1>3, <2>1, <3>2, Zenon DEF Goto
  <2> QED BY <1>2, <1>4, <2>1, Zenon DEF WriteCert, At
<1>5. CASE WriteKey
  <2>1. op.pc = "key" /\ UNCHANGED cert
    BY <1>5, Zenon DEF WriteKey, At
  <2>2. CASE key' = [key EXCEPT ![op.dir] = KeyOf[op.new]] /\ Goto("meta") /\ UNCHANGED last
    <3>1. op'.pc = "meta" /\ op'.dir = op.dir /\ op'.new = op.new
      BY <2>2, Zenon DEF Goto, Op
    <3>2. Installed'
      BY <1>1, <2>1, <2>2, <3>1, Zenon DEF OwnPair, Installed, Inv, Types, OfPair
    <3> QED BY <1>3, <2>2, <3>2, Zenon DEF Goto
  <2>3. CASE StartUndo("undoCert", "write", "mishap")
    BY <1>3b, <2>3, Zenon DEF StartUndo, Stage
  <2> QED BY <1>5, <2>2, <2>3, Zenon DEF WriteKey
<1>6. CASE WriteMeta
  <2>1. op.pc = "meta" /\ UNCHANGED <<cert, key>>
    BY <1>6, Zenon DEF WriteMeta, At
  <2>2. CASE Goto("reload") /\ UNCHANGED last
    <3>1. op'.pc = "reload" /\ op'.dir = op.dir /\ op'.new = op.new
      BY <2>2, Zenon DEF Goto, Op
    <3>2. Installed'
      BY <2>1, <3>1, Zenon DEF OwnPair, Installed
    <3> QED BY <1>3, <2>2, <3>2, Zenon DEF Goto
  <2>3. CASE StartUndo("undoCert", "write", "mishap")
    BY <1>3b, <2>3, Zenon DEF StartUndo, Stage
  <2> QED BY <1>2, <1>6, <2>2, <2>3, Zenon DEF WriteMeta
<1>7. CASE Remove
  <2>1. CASE UNCHANGED <<op, last>> /\ op.pc = "remove"
    BY <2>1, Zenon DEF OwnPair, Installed, Justly, Just, RefusedForCause
  <2> QED BY <1>2, <1>7, <2>1, Zenon DEF Remove, At
<1>8. CASE WriteConfig \/ Validate
  <2>1. op.pc \in OfConfig /\ op.dir = None
    BY <1>8, Zenon DEF WriteConfig, Validate, At, OfConfig, Inv, Staged
  <2>2. ASSUME NEW pc \in {"validate", "reload"}, Goto(pc), UNCHANGED last PROVE OwnPair'
    <3>1. op'.pc = pc /\ op'.dir = None
      BY <2>1, <2>2, Zenon DEF Goto, Op
    <3>2. Installed'
      BY <3>1, Zenon DEF Installed
    <3> QED BY <1>3, <2>2, <3>2, Zenon DEF Goto
  <2>3. ASSUME NEW u, NEW c \in {"mishap", "candidate"}, StartUndo("undoConfig", u, c) PROVE OwnPair'
    BY <1>3b, <2>3, Zenon DEF StartUndo, Stage
  <2> QED BY <1>8, <2>2, <2>3, Zenon DEF WriteConfig, Validate
<1>9. CASE RestoreCert \/ RestoreKey
  <2>1. ASSUME NEW pc \in {"undoKey", "undoMeta"}, NEW ok, UndoGoto(pc, ok) PROVE OwnPair'
    BY <1>3b, <2>1, Zenon DEF UndoGoto, Stage
  <2> QED BY <1>9, <2>1, Zenon DEF RestoreCert, RestoreKey
<1>10. ASSUME NEW ok, Restored(ok) PROVE OwnPair'
  <2>1. CASE Goto("again") /\ UNCHANGED last
    BY <1>3b, <2>1, Zenon DEF Goto, Stage
  <2> QED BY <1>2, <1>10, <2>1, Zenon DEF Restored
<1> QED BY <1>4, <1>5, <1>6, <1>7, <1>8, <1>9, <1>10, Zenon DEF Works, RestoreMeta, RestoreConfigFile

\* The steps that leave the builds alone.
LEMMA QuietCause ==
    ASSUME Inv, LastIs, CauseInv, Quiet, expired \subseteq expired'
    PROVE  CauseInv'
<1>1. UNCHANGED <<loading, running>>
  BY Zenon DEF Quiet
<1>2. ASSUME OwnPair', op.pc \notin {"reload", "again"} PROVE CauseInv'
  BY <1>1, <1>2, Zenon DEF CauseInv, Caller, ReadNew
<1>3. ASSUME OwnPair', UNCHANGED op PROVE CauseInv'
  BY <1>1, <1>3, Zenon DEF CauseInv, Caller, ReadNew
<1>4. CASE Begins
  <2>1. ASSUME NEW pc \in {"cert", "remove", "config"}, NEW d, NEW n, NEW o, Begin(pc, d, n, o) PROVE CauseInv'
    <3>1. op.pc = "idle" /\ op'.pc = pc /\ op'.cause = None /\ UNCHANGED last
      BY <2>1, Zenon DEF Begin, At, Op
    <3>2. OwnPair'
      BY <3>1, CertificateConstants, Zenon DEF CauseInv, OwnPair, Installed, Justly, Just, RefusedForCause
    <3> QED BY <1>2, <3>1, <3>2, Zenon
  <2> QED BY <1>4, <2>1, Zenon DEF Begins, BeginUpload, BeginDelete, ApplyConfig, RestoreConfig
<1>5. CASE Works
  <2>1. op.pc \notin {"reload", "again"}
    BY <1>5, Zenon DEF Works, WriteCert, WriteKey, WriteMeta, Remove, WriteConfig, Validate, RestoreCert,
       RestoreKey, RestoreMeta, RestoreConfigFile, At
  <2> QED BY <1>2, <1>5, <2>1, WorksOwn, Zenon DEF CauseInv
<1>6. CASE Bystander
  <2>1. UNCHANGED <<op, last>> /\ \A d \in Managed : Same(d)
    BY <1>6, Zenon DEF Bystander
  <2>2. op.pc \in {"key", "meta", "reload"} => op.dir \in Managed \cup {None}
    BY Zenon DEF Inv, Staged, OfPair
  <2>3. op.pc = "key" => op.dir \in Managed
    BY Zenon DEF Inv, Staged, OfPair
  <2>4. Installed'
    BY <2>1, <2>2, <2>3, Zenon DEF CauseInv, OwnPair, Installed, Same
  <2>5. Justly' /\ RefusedForCause'
    BY <2>1, Zenon DEF CauseInv, OwnPair, Justly, Just, RefusedForCause
  <2> QED BY <1>3, <2>1, <2>4, <2>5, Zenon DEF OwnPair
<1>7. CASE ToolUpsertWrite
  <2>1. UNCHANGED <<op, cert, key>> /\ last' = [last EXCEPT !.result = "tool"]
    BY <1>7, Zenon DEF ToolUpsertWrite
  <2>2. last'.cause = last.cause /\ last'.dir = last.dir /\ last'.new = last.new
    BY <2>1, SMTT(30) DEF LastIs
  <2>3. OwnPair'
    BY <2>1, <2>2, Zenon DEF CauseInv, OwnPair, Installed, Justly, Just, RefusedForCause
  <2> QED BY <1>3, <2>1, <2>3, Zenon
<1> QED BY <1>4, <1>5, <1>6, <1>7, Zenon DEF Quiet

\* A build reads a pair: the operation's own one fails only if it has expired or
\* leaves out a domain other than the one it was validated for.
LEMMA ReadCause ==
    ASSUME Inv, CauseInv, (\E d \in Dir : ReadCert(d)) \/ ReadKey
    PROVE  CauseInv'
<1>1. UNCHANGED <<cert, key, expired, running>>
  BY Zenon DEF ReadCert, ReadKey, files, world
<1>2. op.pc = "reload" /\ op.dir # None
        => op.dir \in Dir /\ op.new \in Cert /\ cert[op.dir] = op.new /\ key[op.dir] = KeyOf[op.new]
  BY OfManaged, Zenon DEF Inv, Staged, CauseInv, OwnPair, Installed
<1>3. op.pc = "reload" /\ op.dir # None => cert[op.dir] # Absent /\ key[op.dir] # Absent
  <2>1. Absent \notin Cert /\ Absent \notin Key /\ \A c \in Cert : KeyOf[c] \in Key
    BY CertificateConstants, Zenon
  <2> QED BY <1>2, <2>1, Zenon
<1>4. ASSUME NEW d, NEW r, NEW t, NEW g,
             loading' = Load(loading.for, loading.conf, t, d, r, g), UNCHANGED <<op, last>>,
             op.pc = "reload" /\ op.dir # None /\ d = op.dir => r = op.new
      PROVE  CauseInv'
  <2>1. loading'.for = loading.for /\ loading'.dir = d /\ loading'.read = r
    BY <1>4, Zenon DEF Load
  <2>2. OwnPair'
    BY <1>1, <1>4, Zenon DEF CauseInv, OwnPair, Installed, Justly, Just, RefusedForCause
  <2> QED BY <1>1, <1>4, <2>1, <2>2, Zenon DEF CauseInv, Caller, ReadNew
<1>5. ASSUME NEW d \in Dir, ReadCert(d) PROVE CauseInv'
  <2>1. CASE loading' = Load(loading.for, loading.conf, loading.todo, d, cert[d], loading.got) /\ UNCHANGED <<op, last>>
    BY <1>2, <1>4, <2>1, Zenon
  <2>2. CASE (cert[d] = Absent \/ key[d] = Absent) /\ EndLoad("error", d)
    <3>1. op.pc = "reload" => Just(d)
      BY <1>3, <1>5, <2>2, CertificateConstants, Foreign, Zenon
    <3> QED BY <1>1, <2>2, <3>1, EndLoadOwn, Zenon
  <2> QED BY <1>5, <2>1, <2>2, Zenon DEF ReadCert
<1>6. CASE ReadKey
  <2> DEFINE d == loading.dir
  <2>1. CASE /\ loading' = Load(loading.for, loading.conf, loading.todo \ {d}, None, Absent,
                                [loading.got EXCEPT ![d] = [cert |-> loading.read, key |-> key[d]]])
             /\ UNCHANGED <<op, last>>
    BY <1>4, <2>1, Zenon
  <2>2. loading.for = "op" /\ op.pc = "reload" /\ d = op.dir => loading.read = op.new
    BY <1>2, <1>6, Zenon DEF CauseInv, ReadNew, ReadKey
  <2>2b. d \in Dir
    BY <1>6, NoLoadFields, Zenon DEF Inv, Loading, IsConf, ReadKey
  <2>3. CASE ~LoadsPair(loading.read, key[d]) /\ EndLoad("error", d)
    <3>1. ASSUME loading.for = "op", op.pc = "reload" PROVE Just(d)
      <4>1. CASE d = op.dir
        <5>0. op.dir # None
          BY <2>2b, <4>1, CertificateConstants, Zenon
        <5>1. op.new \in expired
          BY <1>2, <2>2, <2>3, <3>1, <4>1, <5>0, Zenon DEF LoadsPair, GoodPair
        <5>2. \A e \in Managed : d # DomainOf[e]
          BY <2>2b, CertificateConstants, Zenon
        <5> QED BY <5>1, <5>2, Zenon DEF Just
      <4> QED BY <2>2b, <4>1, Foreign, Zenon
    <3> QED BY <1>1, <2>3, <3>1, EndLoadOwn, Zenon
  <2>4. ASSUME NEW n \in Uncovered(loading.read, loading.conf.domains[d]),
               EndLoad("error", IF d = op.dir THEN n ELSE d)
        PROVE  CauseInv'
    <3>1. CASE d # op.dir
      <4>1. EndLoad("error", d) /\ Just(d)
        BY <2>2b, <2>4, <3>1, Foreign, Zenon
      <4> QED BY <1>1, <4>1, EndLoadOwn, Zenon
    <3>2. CASE d = op.dir
      <4>1. EndLoad("error", n)
        BY <2>4, <3>2, Zenon
      <4>2. ASSUME loading.for = "op", op.pc = "reload" PROVE Just(n)
        <5>1. n \notin Covers[op.new]
          BY <2>2, <2>4, <3>2, <4>2, Zenon DEF Uncovered
        <5>2. DomainOf[op.dir] \in Covers[op.new] /\ Covers[op.new] \subseteq Domain
          BY <1>2, <2>2b, <3>2, <4>2, CertificateConstants, Zenon DEF Inv, Staged
        <5>3. n \in Domain
          BY <1>6, <2>2b, <2>4, NoLoadFields, SMTT(30) DEF Uncovered, Inv, Loading, IsConf, ReadKey
        <5>4. n \notin Dir
          BY <5>3, CertificateConstants, Zenon
        <5>5. n # DomainOf[op.dir]
          BY <5>1, <5>2, Zenon
        <5> QED BY <5>4, <5>5, OfManaged, Zenon DEF Just
      <4> QED BY <1>1, <4>1, <4>2, EndLoadOwn, Zenon
    <3> QED BY <3>1, <3>2, Zenon
  <2> QED BY <1>6, <2>1, <2>3, <2>4, Zenon DEF ReadKey
<1> QED BY <1>5, <1>6, Zenon

\* Every step keeps it.
LEMMA CausePreserved == ASSUME Inv, LastIs, CauseInv, [Next]_vars PROVE CauseInv'
<1>1. expired \subseteq expired'
  BY ExpiredGrows, Zenon
<1>2. ASSUME OwnPair', loading'.for # "op" PROVE CauseInv'
  BY <1>2, Zenon DEF CauseInv, Caller, ReadNew
<1>4. ASSUME NEW f, LoadConfig(f) PROVE CauseInv'
  <2>1. /\ UNCHANGED <<op, last, cert, key, running>>
        /\ loading' = Load(f, conf, Enabled(conf), None, Absent, NoServed)
        /\ f = "op" => op.pc \in {"reload", "again"} /\ running # Down
    BY <1>4, Zenon DEF LoadConfig, files, opVars, Awaiting, At
  <2>2. loading'.for = f /\ loading'.dir = None
    BY <2>1, Zenon DEF Load
  <2>3. OwnPair'
    BY <1>1, <2>1, Zenon DEF CauseInv, OwnPair, Installed, Justly, Just, RefusedForCause
  <2> QED BY <2>1, <2>2, <2>3, Zenon DEF CauseInv, Caller, ReadNew
<1>5. CASE Publish \/ LoadFails \/ StopWAF
  <2>1. UNCHANGED <<cert, key>>
    BY <1>5, Zenon DEF Publish, LoadFails, StopWAF, files
  <2>2. PICK a, c : EndLoad(a, c) /\ c \in {None, "mishap", "listeners"}
    BY <1>5, Zenon DEF Publish, LoadFails, StopWAF
  <2> QED BY <1>1, <2>1, <2>2, EndLoadOwn, Foreign, Zenon
<1>6. CASE Timeout
  <2>1. UNCHANGED <<cert, key>> /\ Reply("error", "mishap")
    BY <1>6, Zenon DEF Timeout, files
  <2>2. OwnPair'
    BY <1>1, <2>1, Foreign, ReplyOwn, Zenon DEF CauseInv
  <2>3. loading'.for # "op"
    <3>1. CASE loading.for = "op"
      <4>1. loading' = Load("late", loading.conf, loading.todo, loading.dir, loading.read, loading.got)
        BY <1>6, <3>1, Zenon DEF Timeout
      <4>2. loading'.for = "late"
        BY <4>1, Zenon DEF Load
      <4> QED BY <4>2, Zenon
    <3> QED BY <1>6, <3>1, Zenon DEF Timeout
  <2> QED BY <1>2, <2>2, <2>3, Zenon
<1>7. CASE Refused
  <2>1. UNCHANGED <<cert, key, loading>> /\ Reply("error", "mishap") /\ running = Down
    BY <1>7, Zenon DEF Refused, files, wafVars
  <2>2. OwnPair'
    BY <1>1, <2>1, Foreign, ReplyOwn, Zenon DEF CauseInv
  <2> QED BY <1>2, <2>1, <2>2, Zenon DEF CauseInv, Caller
<1>8. CASE Crash
  <2>1. UNCHANGED <<cert, key>> /\ op'.pc = "idle" /\ op'.dir = None /\ last' = Ended("lost")
    BY <1>8, IdleFields, Zenon DEF Crash, files
  <2>2. last'.cause = op.cause /\ last'.dir = op.dir /\ last'.new = op.new
    BY <2>1, Zenon DEF Ended
  <2>3. OwnPair'
    BY <1>1, <2>1, <2>2, OfManaged, Zenon DEF CauseInv, OwnPair, Installed, Justly, Just, RefusedForCause
  <2>4. loading'.for # "op"
    <3>1. CASE loading.for = "op"
      <4>1. loading' = Load("late", loading.conf, loading.todo, loading.dir, loading.read, loading.got)
        BY <1>8, <3>1, Zenon DEF Crash
      <4>2. loading'.for = "late"
        BY <4>1, Zenon DEF Load
      <4> QED BY <4>2, Zenon
    <3> QED BY <1>8, <3>1, Zenon DEF Crash
  <2> QED BY <1>2, <2>3, <2>4, Zenon
<1>9. CASE Quiet
  BY <1>1, <1>9, QuietCause, Zenon
<1> QED BY <1>4, <1>5, <1>6, <1>7, <1>8, <1>9, ReadCause, Quiets, Zenon DEF WAFStep

\* It holds in every reachable state.
LEMMA AlwaysCauseInv == Spec => []CauseInv
<1>1. UndoInv => LastIs
  BY Zenon DEF UndoInv
<1> QED BY <1>1, CauseInit, CausePreserved, AlwaysInv, AlwaysUndoInv, PTL DEF Spec

\* A pair that passed the validation of its upload is turned down on its own
\* account only if it expires before the reload reads it or does not cover a
\* further domain of its virtual host: nothing that holds configMu, no late build
\* and no command of cherrywafctl comes between its files and the reload
\* (handleCertificateUpload, installCertificate, certstore.Load).
THEOREM RefusedOnlyForCause == Spec => []RefusedForCause
<1>1. CauseInv => RefusedForCause
  BY Zenon DEF CauseInv, OwnPair
<1> QED BY <1>1, AlwaysCauseInv, PTL

-----------------------------------------------------------------------------
(* What is served when an operation has been answered.                      *)

\* The answers that say what is served.
ServedResults == {"installed", "applied", "reverted"}
\* Such an answer was given, and nothing has begun since.
Settled == op.pc = "idle" /\ last.result \in ServedResults

\* What a build has read so far is what is on disk.
Current ==
    /\ loading.conf = conf
    /\ \A d \in InForce \ loading.todo : loading.got[d] = PairIn(d)
    /\ loading.dir \in Managed => loading.read = cert[loading.dir]

\* Builds to which this applies: the one an operation awaits, and any that runs
\* after one was answered.
Watched == loading.for = "op" \/ (Settled /\ loading # NoLoad)

\* The inductive invariant behind AnsweredIsServed.
ServeInv == ~broken => (Watched => Current) /\ AnsweredIsServed

\* Nothing was answered at the start.
LEMMA ServeInit == Init => ServeInv
<1> SUFFICES ASSUME Init PROVE ServeInv
  BY Zenon
<1>1. last.result = "none" /\ loading.for = "nobody"
  BY NoLoadFields, Zenon DEF Init
<1> QED BY <1>1, Zenon DEF ServeInv, Watched, Settled, ServedResults, AnsweredIsServed

\* An answer other than "ok" leaves nothing that has to be served.
LEMMA Unserved == ASSUME NEW a, NEW c, Reply(a, c), a # "ok" PROVE ~Settled'
<1>1. ASSUME NEW r \in {"restart", "unreloaded"}, Answer(r) PROVE ~Settled'
  <2>1. last'.result = r
    BY <1>1, Zenon DEF Answer, Ended
  <2> QED BY <2>1, Zenon DEF Settled, ServedResults
<1>2. ASSUME NEW pc \in {"undoConfig", "undoCert"}, StartUndo(pc, "reload", c) PROVE ~Settled'
  <2>1. op'.pc = pc
    BY <1>2, Zenon DEF StartUndo, Op
  <2> QED BY <2>1, Zenon DEF Settled
<1>3. CASE StartUndo(IF op.dir = None THEN "undoConfig" ELSE "undoCert", "reload", c)
  BY <1>2, <1>3, Zenon
<1> QED BY <1>1, <1>3, Zenon DEF Reply

\* Nor does an operation at work.
LEMMA WorksUnserved == ASSUME Works PROVE ~Settled'
<1>1. ASSUME NEW r, r \notin ServedResults, Answer(r) PROVE ~Settled'
  <2>1. last'.result = r
    BY <1>1, Zenon DEF Answer, Ended
  <2> QED BY <1>1, <2>1, Zenon DEF Settled
<1>2. ASSUME NEW pc \in Stage \ {"idle"}, NEW u, NEW c, op' = Op(pc, op.dir, op.new, u, c) PROVE ~Settled'
  <2>1. op'.pc = pc
    BY <1>2, Zenon DEF Op
  <2> QED BY <1>2, <2>1, Zenon DEF Settled
<1>3. ASSUME NEW ok, Restored(ok) PROVE ~Settled'
  BY <1>1, <1>2, <1>3, Zenon DEF Restored, Goto, Stage, ServedResults
<1>4. CASE WriteCert \/ WriteKey
  BY <1>1, <1>2, <1>4, Zenon DEF WriteCert, WriteKey, Goto, StartUndo, Stage, ServedResults
<1>5. CASE WriteMeta
  BY <1>1, <1>2, <1>5, Zenon DEF WriteMeta, Goto, StartUndo, Stage, ServedResults
<1>6. CASE WriteConfig \/ Validate
  BY <1>2, <1>6, Zenon DEF WriteConfig, Validate, Goto, StartUndo, Stage
<1>7. CASE RestoreCert \/ RestoreKey
  BY <1>2, <1>7, Zenon DEF RestoreCert, RestoreKey, UndoGoto, Stage
<1>8. CASE Remove
  <2>1. CASE UNCHANGED op /\ op.pc = "remove"
    BY <2>1, Zenon DEF Settled
  <2> QED BY <1>1, <1>8, <2>1, Zenon DEF Remove, At, ServedResults
<1> QED BY <1>3, <1>4, <1>5, <1>6, <1>7, <1>8, Zenon DEF Works, RestoreMeta, RestoreConfigFile

\* The steps that leave the builds alone.
LEMMA QuietServe == ASSUME Inv, LastIs, Caller, ServeInv, Quiet PROVE ServeInv'
<1>1. UNCHANGED <<loading, running>>
  BY Zenon DEF Quiet
<1>2. ASSUME ~Settled', loading.for # "op" PROVE ServeInv'
  BY <1>1, <1>2, Zenon DEF ServeInv, Watched, Settled, ServedResults, AnsweredIsServed, At
<1>3. CASE Begins
  <2>1. ASSUME NEW pc \in {"cert", "remove", "config"}, NEW d, NEW n, NEW o, Begin(pc, d, n, o) PROVE ServeInv'
    <3>1. op.pc = "idle" /\ op'.pc = pc
      BY <2>1, Zenon DEF Begin, At, Op
    <3> QED BY <1>2, <3>1, Zenon DEF Settled, Caller
  <2> QED BY <1>3, <2>1, Zenon DEF Begins, BeginUpload, BeginDelete, ApplyConfig, RestoreConfig
<1>4. CASE Works
  <2>1. op.pc \notin {"reload", "again"}
    BY <1>4, Zenon DEF Works, WriteCert, WriteKey, WriteMeta, Remove, WriteConfig, Validate, RestoreCert,
       RestoreKey, RestoreMeta, RestoreConfigFile, At
  <2> QED BY <1>2, <1>4, <2>1, WorksUnserved, Zenon DEF Caller
<1>5. CASE Bystander
  <2>1. /\ UNCHANGED <<op, last, conf>> /\ \A d \in Managed : cert'[d] = cert[d] /\ key'[d] = key[d]
        /\ broken => broken'
    BY <1>5, Zenon DEF Bystander, Same
  <2>2. InForce' = InForce /\ Watched' = Watched /\ \A d \in InForce : PairIn(d)' = PairIn(d)
    BY <1>1, <2>1, Zenon DEF InForce, Watched, Settled, PairIn
  <2>3. Current => Current'
    BY <1>1, <2>1, <2>2, Zenon DEF Current
  <2>4. ~broken' => AnsweredIsServed'
    BY <1>1, <2>1, <2>2, Zenon DEF ServeInv, AnsweredIsServed, At, InForce
  <2> QED BY <2>1, <2>2, <2>3, <2>4, Zenon DEF ServeInv
<1>6. CASE ToolUpsertWrite
  <2>1. UNCHANGED op /\ last' = [last EXCEPT !.result = "tool"] /\ (~broken' => op.pc = "idle")
    BY <1>6, Zenon DEF ToolUpsertWrite, At
  <2>2. last'.result = "tool"
    BY <2>1, SMTT(30) DEF LastIs
  <2> QED BY <1>2, <2>1, <2>2, Zenon DEF Settled, ServedResults, Caller, ServeInv
<1> QED BY <1>3, <1>4, <1>5, <1>6, Zenon DEF Quiet

\* The end of a build that publishes nothing.
LEMMA EndLoadServe ==
    ASSUME ServeInv, NEW a, NEW c, EndLoad(a, c), a # "ok", UNCHANGED <<cert, key, conf>>,
           broken => broken', running' \in {running, Down}
    PROVE  ServeInv'
<1>1. loading' = NoLoad /\ loading'.for = "nobody"
  BY NoLoadFields, Zenon DEF EndLoad
<1>2. CASE loading.for = "op"
  <2>1. ~Settled'
    BY <1>2, Unserved, Zenon DEF EndLoad
  <2> QED BY <1>1, <2>1, Zenon DEF ServeInv, Watched, Settled, ServedResults, AnsweredIsServed, At
<1>3. CASE loading.for # "op"
  <2>1. UNCHANGED <<op, last>>
    BY <1>3, Zenon DEF EndLoad
  <2>2. \A d \in Dir : PairIn(d)' = PairIn(d)
    BY Zenon DEF PairIn
  <2>3. ~broken' => AnsweredIsServed'
    <3>1. CASE running' = Down
      BY <3>1, Zenon DEF AnsweredIsServed
    <3>2. CASE running' = running
      BY <2>1, <3>2, Zenon DEF ServeInv, AnsweredIsServed, At, PairIn
    <3> QED BY <3>1, <3>2, Zenon
  <2> QED BY <1>1, <2>1, <2>3, Zenon DEF ServeInv, Watched
<1> QED BY <1>2, <1>3, Zenon

\* A build reads on.
LEMMA ReadServe == ASSUME Inv, ServeInv, (\E d \in Dir : ReadCert(d)) \/ ReadKey PROVE ServeInv'
<1>1. UNCHANGED <<cert, key, conf, running, broken>>
  BY Zenon DEF ReadCert, ReadKey, files, world
<1>2. loading # NoLoad
  BY NoLoadFields, Zenon DEF ReadCert, ReadKey
<1>3. InForce' = InForce /\ \A d \in Dir : PairIn(d)' = PairIn(d)
  BY <1>1, Zenon DEF InForce, PairIn
<1>4. ASSUME NEW t, NEW d, NEW r, NEW g, loading' = Load(loading.for, loading.conf, t, d, r, g),
             UNCHANGED <<op, last>>, ~broken /\ Current => Current'
      PROVE  ServeInv'
  <2>1. loading'.for = loading.for
    BY <1>4, Zenon DEF Load
  <2>2. Watched' => Watched
    BY <1>2, <1>4, <2>1, Zenon DEF Watched, Settled
  <2>3. ~broken' => AnsweredIsServed'
    BY <1>1, <1>4, Zenon DEF ServeInv, AnsweredIsServed, At, PairIn
  <2> QED BY <1>1, <1>4, <2>2, <2>3, Zenon DEF ServeInv
<1>5. ASSUME NEW d \in Dir, ReadCert(d) PROVE ServeInv'
  <2>1. CASE loading' = Load(loading.for, loading.conf, loading.todo, d, cert[d], loading.got) /\ UNCHANGED <<op, last>>
    <3>1. /\ loading'.conf = loading.conf /\ loading'.todo = loading.todo /\ loading'.got = loading.got
          /\ loading'.dir = d /\ loading'.read = cert[d]
      BY <2>1, Zenon DEF Load
    <3>2. Current => Current'
      BY <1>1, <1>3, <3>1, OfManaged, Zenon DEF Current, InForce
    <3> QED BY <1>4, <2>1, <3>2, Zenon
  <2>2. CASE EndLoad("error", d)
    BY <1>1, <2>2, EndLoadServe, Zenon
  <2> QED BY <1>5, <2>1, <2>2, Zenon DEF ReadCert
<1>6. CASE ReadKey
  <2> DEFINE d == loading.dir
             g == [loading.got EXCEPT ![d] = [cert |-> loading.read, key |-> key[d]]]
  <2>1. CASE loading' = Load(loading.for, loading.conf, loading.todo \ {d}, None, Absent, g) /\ UNCHANGED <<op, last>>
    <3>1. /\ loading'.conf = loading.conf /\ loading'.todo = loading.todo \ {d} /\ loading'.got = g
          /\ loading'.dir = None
      BY <2>1, Zenon DEF Load
    <3>2. d \in Dir /\ DOMAIN loading.got = Dir
      BY <1>2, <1>6, Zenon DEF ReadKey, Inv, Loading, IsConf
    <3>3. g[d] = [cert |-> loading.read, key |-> key[d]] /\ \A e \in Dir \ {d} : g[e] = loading.got[e]
      BY <3>2, Zenon
    <3> HIDE DEF g
    <3>4. Current /\ d \in Managed => g[d] = PairIn(d)
      BY <3>3, Zenon DEF Current, PairIn
    <3>5. Current => Current'
      <4> SUFFICES ASSUME Current, NEW e \in InForce \ loading'.todo PROVE g[e] = PairIn(e)
        BY <1>1, <1>3, <3>1, OfManaged, Zenon DEF Current, InForce
      <4>1. CASE e = d
        BY <3>4, <4>1, Zenon DEF InForce
      <4>2. CASE e # d
        BY <3>1, <3>3, <4>2, OfManaged, Zenon DEF Current, InForce
      <4> QED BY <4>1, <4>2, Zenon
    <3> QED BY <1>4, <2>1, <3>5, Zenon
  <2>2. ASSUME NEW c, EndLoad("error", c) PROVE ServeInv'
    BY <1>1, <2>2, EndLoadServe, Zenon
  <2> QED BY <1>6, <2>1, <2>2, Zenon DEF ReadKey
<1> QED BY <1>5, <1>6, Zenon

\* The runtime is replaced.
LEMMA PublishServe == ASSUME Inv, ServeInv, Publish PROVE ServeInv'
<1>1. UNCHANGED <<cert, key, conf, broken>> /\ loading # NoLoad /\ loading.todo = {}
  BY Zenon DEF Publish, files, world
<1>2. CASE EndLoad("restart", "listeners") /\ UNCHANGED running
  BY <1>1, <1>2, EndLoadServe, Zenon
<1>3. CASE running' = Runtime(loading.conf, loading.got) /\ EndLoad("ok", None)
  <2>1. running'.conf = loading.conf /\ running'.pair = loading.got
    BY <1>3, Zenon DEF Runtime
  <2>2. loading' = NoLoad /\ loading'.for = "nobody"
    BY <1>3, NoLoadFields, Zenon DEF EndLoad
  <2>3. Settled' => Watched
    BY <1>1, <1>3, Zenon DEF EndLoad, Watched, Settled
  <2>4. ASSUME Current PROVE running'.conf = conf /\ \A d \in InForce : running'.pair[d] = PairIn(d)
    BY <1>1, <2>1, <2>4, Zenon DEF Current
  <2>5. ASSUME ~broken', Settled'
        PROVE  running'.conf = conf' /\ \A d \in InForce' : running'.pair[d] = [cert |-> cert'[d], key |-> key'[d]]
    BY <1>1, <2>3, <2>4, <2>5, Zenon DEF ServeInv, InForce, PairIn
  <2>6. ~broken' => AnsweredIsServed'
    BY <2>5, Zenon DEF AnsweredIsServed, Settled, ServedResults, At, InForce, PairIn
  <2> QED BY <2>2, <2>6, Zenon DEF ServeInv, Watched
<1> QED BY <1>2, <1>3, Zenon DEF Publish

\* Every step keeps it.
LEMMA ServePreserved == ASSUME Inv, LastIs, CauseInv, ServeInv, [Next]_vars PROVE ServeInv'
<1>1. Caller
  BY Zenon DEF CauseInv
<1>2. ASSUME ~Settled', loading'.for # "op" PROVE ServeInv'
  BY <1>2, Zenon DEF ServeInv, Watched, Settled, ServedResults, AnsweredIsServed, At
<1>3. ASSUME NEW f, LoadConfig(f) PROVE ServeInv'
  <2>1. /\ UNCHANGED <<cert, key, conf, op, last, running, broken>>
        /\ loading' = Load(f, conf, Enabled(conf), None, Absent, NoServed)
    BY <1>3, Zenon DEF LoadConfig, files, opVars, world
  <2>2. loading'.conf = conf /\ loading'.todo = Enabled(conf) /\ loading'.dir = None
    BY <2>1, Zenon DEF Load
  <2>3. Current'
    BY <2>1, <2>2, OfManaged, Zenon DEF Current, InForce
  <2>4. ~broken' => AnsweredIsServed'
    BY <2>1, Zenon DEF ServeInv, AnsweredIsServed, At, PairIn
  <2> QED BY <2>3, <2>4, Zenon DEF ServeInv
<1>4. CASE LoadFails \/ StopWAF
  <2>1. /\ UNCHANGED <<cert, key, conf>> /\ EndLoad("error", "mishap") /\ running' \in {running, Down}
        /\ May("reload") \/ May("restart")
    BY <1>4, Zenon DEF LoadFails, StopWAF, files
  <2> QED BY <2>1, Breaks, EndLoadServe, Zenon
<1>5. CASE Timeout
  <2>1. loading'.for # "op"
    <3>1. CASE loading.for = "op"
      <4>1. loading' = Load("late", loading.conf, loading.todo, loading.dir, loading.read, loading.got)
        BY <1>5, <3>1, Zenon DEF Timeout
      <4>2. loading'.for = "late"
        BY <4>1, Zenon DEF Load
      <4> QED BY <4>2, Zenon
    <3> QED BY <1>5, <3>1, Zenon DEF Timeout
  <2> QED BY <1>2, <1>5, <2>1, Unserved, Zenon DEF Timeout
<1>6. CASE Refused
  <2>1. UNCHANGED loading /\ Reply("error", "mishap") /\ running = Down
    BY <1>6, Zenon DEF Refused, wafVars
  <2> QED BY <1>1, <1>2, <2>1, Unserved, Zenon DEF Caller
<1>7. CASE Crash
  BY <1>7, Breaks, Zenon DEF Crash, ServeInv
<1>8. CASE Quiet
  BY <1>1, <1>8, QuietServe, Zenon
<1> QED BY <1>3, <1>4, <1>5, <1>6, <1>7, <1>8, ReadServe, PublishServe, Quiets, Zenon DEF WAFStep

\* When an upload or a configuration is answered with success, and when the
\* reload after a rollback succeeds, the WAF serves the managed pairs on disk,
\* and goes on doing so however many late builds, repeated reloads and restarts
\* follow: every build that may still publish has read the same files
\* (core.App.Reload under reloadMu, the Control Center under configMu).
THEOREM AnsweredPairsServed == Spec => []AnsweredIsServed
<1>1. ServeInv => AnsweredIsServed
  BY Zenon DEF ServeInv, AnsweredIsServed
<1>2. UndoInv => LastIs
  BY Zenon DEF UndoInv
<1> QED BY <1>1, <1>2, ServeInit, ServePreserved, AlwaysInv, AlwaysUndoInv, AlwaysCauseInv, PTL DEF Spec
=============================================================================
