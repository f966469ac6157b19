--------------------------- MODULE Certificates ---------------------------
(***************************************************************************)
(* Managed certificates (internal/control/certificates.go) together with   *)
(* what shares their files: configuration transactions, which may begin or *)
(* cease to use a pair, the WAF's reload, which reads every pair in use    *)
(* (internal/certstore/store.go), and cherrywafctl, which writes pairs and *)
(* the configuration without taking configMu.                              *)
(*                                                                         *)
(* A pair lives in a directory as fullchain.pem and privkey.pem.  A        *)
(* certificate is a model value, KeyOf the key it was issued for: a        *)
(* renewal may keep the key, and Covers the domains it is valid for.  A    *)
(* configuration says which directories its virtual hosts name, whether    *)
(* they are enabled and for which domains, and which listeners it asks     *)
(* for.  Everything under configMu is one operation at a time, op.         *)
(***************************************************************************)
EXTENDS Naturals, FiniteSets

CONSTANTS Dir,        \* directories that hold a pair
          Managed,    \* those below the Control Center's certificates/
          Cert, Key,  \* contents of fullchain.pem and privkey.pem
          KeyOf,      \* the key a certificate was issued for
          Domain,     \* domains of virtual hosts
          Covers,     \* the domains a certificate is valid for
          DomainOf,   \* the domain a directory is the slug of
          Candidate,  \* configurations
          Absent,     \* a file that is not there
          Down,       \* the WAF is not running
          None,
          Faults,     \* what may go wrong or interfere, see FaultKind
          MaxOps,     \* bound on the operations of the Control Center
          MaxMishaps  \* bound on the faults and interferences

FaultKind == {"write",    \* a file cannot be written or removed
              "undo",     \* a file cannot be written back
              "reload",   \* a build fails for a reason of its own
              "timeout",  \* the reload call times out, the reload may go on
              "hup",      \* SIGHUP or cherrywafctl reload
              "restart",  \* the WAF process stops; systemd starts it again
              "expiry",   \* certificates reach NotAfter
              "tool",     \* a command of cherrywafctl
              "crash"}    \* the Control Center is restarted

Use == {"no", "disabled", "enabled"}

ASSUME CertificateConstants ==
    /\ Managed \subseteq Dir
    /\ KeyOf \in [Cert -> Key]
    /\ Absent \notin Cert \cup Key \cup [cert : Cert, key : Key] /\ None \notin Dir
    /\ Covers \in [Cert -> SUBSET Domain] /\ DomainOf \in [Dir -> Domain]
    /\ {None, "mishap", "listeners", "candidate"} \cap (Dir \cup Domain) = {}
    /\ Dir \cap Domain = {}
    /\ Faults \subseteq FaultKind
    /\ \A c \in Candidate : /\ DOMAIN c = {"use", "domains", "listen"}
                           /\ c.use \in [Dir -> Use] /\ c.domains \in [Dir -> SUBSET Domain]
    /\ MaxOps \in Nat /\ MaxMishaps \in Nat

VARIABLES cert, key, meta, \* the files of each directory
          conf,            \* the configuration file
          expired,         \* certificates past NotAfter
          op,              \* the operation that holds configMu
          base,            \* what it replaces, as it found it
          last,            \* how the latest operation ended
          running,         \* the published runtime, or Down
          loading,         \* the build that holds reloadMu
          late,            \* reloads asked for whose answer nobody awaits
          tool,            \* the running cherrywafctl command
          ops, mishaps,    \* operations begun, faults and interferences so far
          broken           \* the files were left to repair by hand (history)

files == <<cert, key, meta, conf>>
wafVars == <<running, loading, late>>
opVars == <<op, base, last, ops>>
world == <<expired, mishaps, broken>>
faultVars == <<mishaps, broken>>
vars == <<cert, key, meta, conf, expired, op, base, last, running, loading,
          late, tool, ops, mishaps, broken>>

\* loadAndValidatePair: the key belongs to the certificate, which has not
\* expired.
GoodPair(c, k) == c \in Cert \ expired /\ k = KeyOf[c]
Good(d) == GoodPair(cert[d], key[d])

PairIn(d) == [cert |-> cert[d], key |-> key[d]]

\* The directories whose pair a runtime of configuration c has to load.
Enabled(c) == {d \in Dir : c.use[d] = "enabled"}

\* VerifyDomain, domain by domain: those that certificate c is not valid for.
Uncovered(c, domains) == domains \ Covers[c]

\* core.build succeeds: all pairs of enabled virtual hosts load and cover the
\* domains of their virtual hosts, and there is one.
Loads(c) ==
    /\ Enabled(c) # {}
    /\ \A d \in Enabled(c) : Good(d) /\ Uncovered(cert[d], c.domains[d]) = {}

\* Mutant: a directory named only by a disabled virtual host counts as unused.
InUseEnabled(c, d) == c.use[d] = "enabled"

\* certificateInUse: any virtual host of the file names the directory.
InUse(c, d) == c.use[d] # "no"

Files(d) == [cert |-> cert[d], key |-> key[d], meta |-> meta[d]]

Stage == {"idle", "cert", "key", "meta", "remove", "config", "validate",
          "reload", "undoCert", "undoKey", "undoMeta", "undoConfig", "again"}
Undo == {"none", "write", "invalid", "reload", "failed"}

\* An operation: where it is, its directory (None for a configuration), what it
\* installs, why it is undoing its writes, and what made it: a mishap, the
\* listeners, the directory whose pair did not load, or the domain that its own
\* pair does not cover (history).
Op(pc, d, new, undo, cause) ==
    [pc |-> pc, dir |-> d, new |-> new, undo |-> undo, cause |-> cause]
Idle == Op("idle", None, None, "none", None)

Result == {"none", "installed", "stored", "deleted", "applied", "restart",
           "unwritten", "failed", "rolledback", "reverted", "unreloaded",
           "tool", "lost"}
Ended(result) == [result |-> result, dir |-> op.dir, new |-> op.new, cause |-> op.cause]

\* A build: for whom, the configuration it has read, the directories still to
\* load, the certificate it has read without its key yet, the pairs loaded.
Load(for, c, todo, dir, read, got) ==
    [for |-> for, conf |-> c, todo |-> todo, dir |-> dir, read |-> read, got |-> got]
NoServed == [d \in Dir |-> Absent]
NoLoad == Load("nobody", None, {}, None, Absent, NoServed)
Runtime(c, got) == [conf |-> c, pair |-> got]

\* A command of cherrywafctl: what it installs, and the file it has read.
Command(pc, d, new, read) == [pc |-> pc, dir |-> d, new |-> new, read |-> read]
NoTool == Command("idle", None, None, None)

\* The WAF runs with the configuration on disk; a pair no virtual host names
\* may or may not be there.
Init ==
    /\ conf \in Candidate
    /\ cert \in [Dir -> Cert \cup {Absent}]
    /\ key = [d \in Dir |-> IF cert[d] = Absent THEN Absent ELSE KeyOf[cert[d]]]
    /\ meta = [d \in Dir |-> cert[d] # Absent]
    /\ expired = {} /\ mishaps = 0
    /\ Loads(conf)
    /\ running = Runtime(conf, [d \in Dir |-> IF d \in Enabled(conf) THEN PairIn(d) ELSE Absent])
    /\ op = Idle /\ base = None /\ ops = 0
    /\ last = [result |-> "none", dir |-> None, new |-> None, cause |-> None]
    /\ loading = NoLoad /\ late = 0
    /\ tool = NoTool /\ broken = FALSE

-----------------------------------------------------------------------------
(* An operation takes configMu, works step by step, and answers.           *)

At(pc) == op.pc = pc
\* A fault or an interference.  Two kinds leave the files to repair by hand.
May(kind) ==
    /\ kind \in Faults /\ mishaps < MaxMishaps /\ mishaps' = mishaps + 1
    /\ broken' = (broken \/ kind \in {"undo", "crash"})
Goto(pc) == op' = Op(pc, op.dir, op.new, op.undo, op.cause)
Begin(pc, d, new, old) ==
    /\ At("idle") /\ ops < MaxOps /\ ops' = ops + 1
    /\ op' = Op(pc, d, new, "none", None)
    /\ base' = old
    /\ UNCHANGED last
Answer(result) == op' = Idle /\ last' = Ended(result)
StartUndo(pc, why, cause) == op' = Op(pc, op.dir, op.new, why, cause) /\ UNCHANGED last

\* handleCertificateUpload up to the first write.  The candidate is validated
\* in a directory of its own, for the domain it is uploaded for and no other; an
\* invalid one changes nothing.
BeginUpload(d, c) ==
    /\ Begin("cert", d, c, Files(d))
    /\ c \notin expired /\ Uncovered(c, {DomainOf[d]}) = {}
    /\ (cert[d] = Absent) = (key[d] = Absent)
    /\ UNCHANGED <<files, world, wafVars, tool>>

\* Mutant: the key is left alone when there is one.
WriteCertKeepKey ==
    /\ At("cert") /\ UNCHANGED last
    /\ cert' = [cert EXCEPT ![op.dir] = op.new]
    /\ Goto(IF key[op.dir] = Absent THEN "key" ELSE "meta")
    /\ UNCHANGED <<key, meta, conf, world, base, ops, wafVars, tool>>

\* A certificate that cannot be written is not followed by restore().
WriteCert ==
    /\ At("cert")
    /\ \/ cert' = [cert EXCEPT ![op.dir] = op.new] /\ Goto("key") /\ UNCHANGED <<last, faultVars>>
       \/ May("write") /\ Answer("unwritten") /\ UNCHANGED cert
    /\ UNCHANGED <<key, meta, conf, expired, base, ops, wafVars, tool>>

\* Mutant: the new certificate stays when its key cannot be written.
WriteKeyNoUndo ==
    /\ At("key")
    /\ \/ key' = [key EXCEPT ![op.dir] = KeyOf[op.new]] /\ Goto("meta") /\ UNCHANGED <<last, faultVars>>
       \/ May("write") /\ Answer("failed") /\ UNCHANGED key
    /\ UNCHANGED <<cert, meta, conf, expired, base, ops, wafVars, tool>>

WriteKey ==
    /\ At("key")
    /\ \/ key' = [key EXCEPT ![op.dir] = KeyOf[op.new]] /\ Goto("meta") /\ UNCHANGED <<last, faultVars>>
       \/ May("write") /\ StartUndo("undoCert", "write", "mishap") /\ UNCHANGED key
    /\ UNCHANGED <<cert, meta, conf, expired, base, ops, wafVars, tool>>

\* metadata.json, and then the question whether the WAF has to reload; the
\* failure is that of the file, or of reading the configuration.
WriteMeta ==
    /\ At("meta")
    /\ \/ /\ meta' = [meta EXCEPT ![op.dir] = TRUE] /\ UNCHANGED faultVars
          /\ \/ InUse(conf, op.dir) /\ Goto("reload") /\ UNCHANGED last
             \/ ~InUse(conf, op.dir) /\ Answer("stored")
       \/ May("write") /\ StartUndo("undoCert", "write", "mishap") /\ UNCHANGED meta
    /\ UNCHANGED <<cert, key, conf, expired, base, ops, wafVars, tool>>

\* handleCertificateDelete: refused while the configuration names the pair.
BeginDelete(d) ==
    /\ Begin("remove", d, None, Files(d))
    /\ ~InUse(conf, d)
    /\ cert[d] # Absent \/ key[d] # Absent \/ meta[d]
    /\ UNCHANGED <<files, world, wafVars, tool>>

\* os.RemoveAll: file by file, in the order of the directory; the failure stands
\* for all files that cannot be removed.
Remove ==
    /\ At("remove")
    /\ LET d == op.dir
           gone == cert'[d] = Absent /\ key'[d] = Absent /\ ~meta'[d]
       IN  \/ /\ \/ /\ cert[d] # Absent /\ cert' = [cert EXCEPT ![d] = Absent]
                    /\ UNCHANGED <<key, meta>>
                 \/ /\ key[d] # Absent /\ key' = [key EXCEPT ![d] = Absent]
                    /\ UNCHANGED <<cert, meta>>
                 \/ /\ meta[d] /\ meta' = [meta EXCEPT ![d] = FALSE]
                    /\ UNCHANGED <<cert, key>>
              /\ UNCHANGED faultVars
              /\ \/ gone /\ Answer("deleted")
                 \/ ~gone /\ UNCHANGED <<op, last>>
           \/ May("write") /\ Answer("failed") /\ UNCHANGED <<cert, key, meta>>
    /\ UNCHANGED <<conf, expired, base, ops, wafVars, tool>>

\* applyConfigBytes validates the candidate under configMu ...
ApplyConfig(c) ==
    /\ Loads(c)
    /\ Begin("config", None, c, conf)
    /\ UNCHANGED <<files, world, wafVars, tool>>

\* ... while a revision or a backup is written first and validated then.
RestoreConfig(c) ==
    /\ Begin("config", None, c, conf)
    /\ UNCHANGED <<files, world, wafVars, tool>>

WriteConfig ==
    /\ At("config")
    /\ \/ conf' = op.new /\ Goto("validate") /\ UNCHANGED <<last, faultVars>>
       \/ May("write") /\ StartUndo("undoConfig", "write", "mishap") /\ UNCHANGED conf
    /\ UNCHANGED <<cert, key, meta, expired, base, ops, wafVars, tool>>

Validate ==
    /\ At("validate")
    /\ \/ Loads(conf) /\ Goto("reload") /\ UNCHANGED last
       \/ ~Loads(conf) /\ StartUndo("undoConfig", "invalid", "candidate")
    /\ UNCHANGED <<files, world, base, ops, wafVars, tool>>

-----------------------------------------------------------------------------
(* restore(): every file is written back, or removed when it was not there, *)
(* whatever becomes of the others.                                          *)

\* Mutant: only the certificate is written back.
RestoreCertOnly(old, current) == current

RestoreOptional(old, current) == old

UndoGoto(pc, ok) ==
    /\ op' = Op(pc, op.dir, op.new, IF ok THEN op.undo ELSE "failed", op.cause)
    /\ UNCHANGED last

RestoreCert ==
    /\ At("undoCert")
    /\ \/ /\ cert' = [cert EXCEPT ![op.dir] = base.cert]
          /\ UndoGoto("undoKey", TRUE) /\ UNCHANGED faultVars
       \/ May("undo") /\ UndoGoto("undoKey", FALSE) /\ UNCHANGED cert
    /\ UNCHANGED <<key, meta, conf, expired, base, ops, wafVars, tool>>

RestoreKey ==
    /\ At("undoKey")
    /\ \/ /\ key' = [key EXCEPT ![op.dir] = RestoreOptional(base.key, @)]
          /\ UndoGoto("undoMeta", TRUE) /\ UNCHANGED faultVars
       \/ May("undo") /\ UndoGoto("undoMeta", FALSE) /\ UNCHANGED key
    /\ UNCHANGED <<cert, meta, conf, expired, base, ops, wafVars, tool>>

\* What follows when the files are restored: a reload, when one has failed and
\* there is an old pair to go back to.
Restored(ok) ==
    LET undo == IF ok THEN op.undo ELSE "failed"
        first == op.dir \in Managed /\ base.cert = Absent
    IN  \/ undo = "reload" /\ ~first /\ Goto("again") /\ UNCHANGED last
        \/ undo = "reload" /\ first /\ Answer("rolledback")
        \/ undo = "invalid" /\ Answer("rolledback")
        \/ undo = "write" /\ Answer("unwritten")
        \/ undo = "failed" /\ Answer("failed")

RestoreMeta ==
    /\ At("undoMeta")
    /\ \/ /\ meta' = [meta EXCEPT ![op.dir] = base.meta]
          /\ Restored(TRUE) /\ UNCHANGED faultVars
       \/ May("undo") /\ Restored(FALSE) /\ UNCHANGED meta
    /\ UNCHANGED <<cert, key, conf, expired, base, ops, wafVars, tool>>

RestoreConfigFile ==
    /\ At("undoConfig")
    /\ \/ conf' = base /\ Restored(TRUE) /\ UNCHANGED faultVars
       \/ May("undo") /\ Restored(FALSE) /\ UNCHANGED conf
    /\ UNCHANGED <<cert, key, meta, expired, base, ops, wafVars, tool>>

-----------------------------------------------------------------------------
(* The WAF: App.Reload under reloadMu, and the start of the process, which  *)
(* builds its first runtime the same way.                                   *)

Awaiting == At("reload") \/ At("again")

\* Mutant: an error of the second reload is ignored.
ReplyTrusting(answer, cause) ==
    \/ answer = "ok" /\ At("reload")
       /\ Answer(IF op.dir = None THEN "applied" ELSE "installed")
    \/ answer = "restart" /\ At("reload") /\ op.dir = None /\ Answer("restart")
    \/ /\ answer = "error" \/ (answer = "restart" /\ op.dir # None)
       /\ At("reload")
       /\ StartUndo(IF op.dir = None THEN "undoConfig" ELSE "undoCert", "reload", cause)
    \/ At("again") /\ Answer("reverted")

\* What the operation makes of the answer to its reload call.  Only a
\* configuration is kept when the WAF asks for a restart.
Reply(answer, cause) ==
    \/ answer = "ok" /\ At("reload")
       /\ Answer(IF op.dir = None THEN "applied" ELSE "installed")
    \/ answer = "restart" /\ At("reload") /\ op.dir = None /\ Answer("restart")
    \/ /\ answer = "error" \/ (answer = "restart" /\ op.dir # None)
       /\ At("reload")
       /\ StartUndo(IF op.dir = None THEN "undoConfig" ELSE "undoCert", "reload", cause)
    \/ answer = "ok" /\ At("again") /\ Answer("reverted")
    \/ answer # "ok" /\ At("again") /\ Answer("unreloaded")

\* The build ends; whoever waits for it is answered.
EndLoad(answer, cause) ==
    /\ loading' = NoLoad
    /\ IF loading.for = "op" THEN Reply(answer, cause) ELSE UNCHANGED <<op, last>>

\* config.Load, the first step of a build.
LoadConfig(for) ==
    /\ loading = NoLoad
    /\ \/ for = "op" /\ Awaiting /\ running # Down /\ UNCHANGED late
       \/ for = "late" /\ late > 0 /\ running # Down /\ late' = late - 1
       \/ for = "start" /\ running = Down /\ UNCHANGED late
    /\ loading' = Load(for, conf, Enabled(conf), None, Absent, NoServed)
    /\ UNCHANGED <<files, world, opVars, running, tool>>

\* The key file of a virtual host is looked for, tls.LoadX509KeyPair reads its
\* certificate ...
ReadCert(d) ==
    /\ loading.dir = None /\ d \in loading.todo
    /\ \/ /\ cert[d] # Absent /\ key[d] # Absent
          /\ loading' = Load(loading.for, loading.conf, loading.todo, d, cert[d], loading.got)
          /\ UNCHANGED <<op, last>>
       \/ (cert[d] = Absent \/ key[d] = Absent) /\ EndLoad("error", d)
    /\ UNCHANGED <<files, world, base, ops, running, late, tool>>

\* Mutant: the key is not compared with the certificate.
LoadsAnyKey(c, k) == c \notin expired /\ k # Absent

LoadsPair(c, k) == GoodPair(c, k)

\* ... and then its key; the pair has to match, to be valid in time, and to
\* cover every domain of the virtual host.
ReadKey ==
    /\ loading.dir # None
    /\ LET d == loading.dir
           missing == Uncovered(loading.read, loading.conf.domains[d])
       IN  \/ /\ LoadsPair(loading.read, key[d]) /\ missing = {}
              /\ loading' = Load(loading.for, loading.conf, loading.todo \ {d}, None, Absent,
                                 [loading.got EXCEPT ![d] = [cert |-> loading.read, key |-> key[d]]])
              /\ UNCHANGED <<op, last>>
           \/ ~LoadsPair(loading.read, key[d]) /\ EndLoad("error", d)
           \/ /\ LoadsPair(loading.read, key[d])
              /\ \E n \in missing : EndLoad("error", IF d = op.dir THEN n ELSE d)
    /\ UNCHANGED <<files, world, base, ops, running, late, tool>>

\* The runtime is published unless its listeners differ from the ones in use.
Publish ==
    /\ loading # NoLoad /\ loading.todo = {} /\ loading.dir = None
    /\ IF running = Down \/ running.conf.listen = loading.conf.listen
       THEN running' = Runtime(loading.conf, loading.got) /\ EndLoad("ok", None)
       ELSE EndLoad("restart", "listeners") /\ UNCHANGED running
    /\ UNCHANGED <<files, world, base, ops, late, tool>>

LoadFails ==
    /\ May("reload")
    /\ loading # NoLoad /\ loading.todo = {} /\ loading.dir = None
    /\ EndLoad("error", "mishap")
    /\ UNCHANGED <<files, expired, base, ops, running, late, tool>>

\* The client gives up; the WAF may still be building, or begin to later.
Timeout ==
    /\ May("timeout")
    /\ Awaiting /\ running # Down
    /\ Reply("error", "mishap")
    /\ IF loading.for = "op"
       THEN /\ loading' = Load("late", loading.conf, loading.todo, loading.dir, loading.read, loading.got)
            /\ UNCHANGED late
       ELSE UNCHANGED loading /\ late' \in {late, late + 1}
    /\ UNCHANGED <<files, expired, base, ops, running, tool>>

\* Nobody listens on the admin port.
Refused ==
    /\ Awaiting /\ running = Down
    /\ Reply("error", "mishap")
    /\ UNCHANGED <<files, world, base, ops, wafVars, tool>>

\* SIGHUP or cherrywafctl reload.
Hup ==
    /\ May("hup") /\ running # Down /\ late' = late + 1
    /\ UNCHANGED <<files, expired, opVars, running, loading, tool>>

\* The process stops, and with it the calls it was serving.
StopWAF ==
    /\ May("restart") /\ running # Down
    /\ running' = Down /\ late' = 0
    /\ EndLoad("error", "mishap")
    /\ UNCHANGED <<files, expired, base, ops, tool>>

-----------------------------------------------------------------------------
(* cherrywafctl, which takes no lock, and what else happens.                *)

Run(t) == tool = NoTool /\ May("tool") /\ tool' = t

\* cert install validates its arguments and copies the certificate ...
ToolInstall(d, c) ==
    /\ c \notin expired /\ Uncovered(c, {DomainOf[d]}) = {}
    /\ Run(Command("key", d, c, None))
    /\ cert' = [cert EXCEPT ![d] = c]
    /\ UNCHANGED <<key, meta, conf, expired, opVars, wafVars>>

\* ... and then the key; nothing is undone when that fails.
ToolInstallKey ==
    /\ tool.pc = "key" /\ tool' = NoTool
    /\ \/ key' = [key EXCEPT ![tool.dir] = KeyOf[tool.new]] /\ UNCHANGED faultVars
       \/ "write" \in Faults /\ UNCHANGED <<key, faultVars>>
    /\ UNCHANGED <<cert, meta, conf, expired, opVars, wafVars>>

\* vhost upsert checks the pair for a domain that no other virtual host has, and
\* reads the configuration, of which it replaces a virtual host or adds one ...
ToolUpsert(d, n) ==
    /\ Good(d) /\ Uncovered(cert[d], {n}) = {}
    /\ \A e \in Dir \ {d} : n \notin conf.domains[e]
    /\ \E domains \in {{n}, conf.domains[d] \cup {n}} :
          Run(Command("upsert", d, [conf EXCEPT !.use[d] = "enabled", !.domains[d] = domains], conf))
    /\ UNCHANGED <<files, expired, opVars, wafVars>>

\* ... and writes it back.
ToolUpsertWrite ==
    /\ tool.pc = "upsert" /\ tool' = NoTool
    /\ conf' = tool.new
    /\ broken' = (broken \/ ~At("idle") \/ conf # tool.read \/ ~Good(tool.dir))
    /\ last' = [last EXCEPT !.result = "tool"]
    /\ UNCHANGED <<cert, key, meta, expired, mishaps, op, base, ops, wafVars>>

Expire(c) ==
    /\ May("expiry") /\ c \notin expired
    /\ expired' = expired \cup {c}
    /\ UNCHANGED <<files, opVars, wafVars, tool>>

\* The Control Center is killed; nothing is repaired when it comes back.
Crash ==
    /\ May("crash") /\ ~At("idle")
    /\ op' = Idle /\ last' = Ended("lost")
    /\ loading' = IF loading.for = "op"
                  THEN Load("late", loading.conf, loading.todo, loading.dir, loading.read, loading.got)
                  ELSE loading
    /\ UNCHANGED <<files, expired, base, ops, running, late, tool>>

Operate ==
    \/ WriteCert \/ WriteKey \/ WriteMeta \/ Remove \/ WriteConfig \/ Validate
    \/ RestoreCert \/ RestoreKey \/ RestoreMeta \/ RestoreConfigFile
    \/ Timeout \/ Refused

WAFStep ==
    \/ \E for \in {"op", "late", "start"} : LoadConfig(for)
    \/ \E d \in Dir : ReadCert(d)
    \/ ReadKey \/ Publish \/ LoadFails

Next ==
    \/ \E d \in Managed, c \in Cert : BeginUpload(d, c)
    \/ \E d \in Managed : BeginDelete(d)
    \/ \E c \in Candidate : ApplyConfig(c) \/ RestoreConfig(c)
    \/ Operate \/ WAFStep \/ Hup \/ StopWAF
    \/ \E d \in Dir \ Managed, c \in Cert : ToolInstall(d, c)
    \/ \E d \in Dir, n \in Domain : ToolUpsert(d, n)
    \/ ToolInstallKey \/ ToolUpsertWrite
    \/ \E c \in Cert : Expire(c)
    \/ Crash

Spec == Init /\ [][Next]_vars

-----------------------------------------------------------------------------
(* Properties.                                                              *)

TypeOK ==
    /\ cert \in [Dir -> Cert \cup {Absent}]
    /\ key \in [Dir -> Key \cup {Absent}]
    /\ meta \in [Dir -> BOOLEAN]
    /\ conf.use \in [Dir -> Use] /\ conf.domains \in [Dir -> SUBSET Domain]
    /\ expired \subseteq Cert
    /\ op.pc \in Stage /\ op.dir \in Managed \cup {None} /\ op.undo \in Undo
    /\ last.result \in Result
    /\ late \in 0 .. mishaps
    /\ loading.todo \subseteq Dir /\ loading.dir \in loading.todo \cup {None}
    /\ tool.pc \in {"idle", "key", "upsert"}

\* Between operations, each managed pair of an enabled virtual host is complete
\* and its key belongs to its certificate, although the two files are written
\* one after the other, writes fail, and pairs come into use and are deleted
\* concurrently (installCertificate, handleCertificateDelete, configMu).
PairsMatch ==
    At("idle") /\ ~broken
        => \A d \in Managed \cap Enabled(conf) :
              cert[d] \in Cert /\ key[d] = KeyOf[cert[d]]

\* "A certificate referenced by a virtual host cannot be deleted"
\* (docs/CONTROL_CENTER.md:100): its certificate file goes away only when no
\* virtual host of the configuration, enabled or not, names it, or when a first
\* installation is undone.
ReferencedStays ==
    [][\A d \in Managed :
          cert[d] # Absent /\ cert'[d] = Absent /\ ~broken
              => conf.use[d] = "no" \/ base.cert = Absent]_vars

\* When an upload is answered with success for a pair in use, or with a complete
\* rollback, and when a configuration is applied, the WAF serves the managed
\* pairs that are on disk, also after late and repeated reloads and restarts.
AnsweredIsServed ==
    (/\ At("idle") /\ ~broken /\ running # Down
     /\ last.result \in {"installed", "applied", "reverted"})
        => /\ running.conf = conf
           /\ \A d \in Managed \cap Enabled(conf) : running.pair[d] = PairIn(d)

\* An operation that reports a failed write or a rollback has left its files as
\* it found them (the restore closures).
Undone ==
    (/\ At("idle") /\ ~broken
     /\ last.result \in {"unwritten", "rolledback", "reverted", "unreloaded"})
        => IF last.dir = None
           THEN conf = base
           ELSE Files(last.dir) = base

\* A pair that passed the validation of its upload is turned down on its own
\* account only when it has expired meanwhile or when its virtual host has
\* another domain that it does not cover: the upload verifies one domain, the
\* reload all of them (installCertificate, certstore.Load).  Otherwise its reload
\* fails for another pair, the listeners or a mishap.
RefusedForCause ==
    \A d \in Managed :
        last.dir = d => /\ last.cause = d => last.new \in expired
                        /\ last.cause # DomainOf[d]

\* "Fail configuration and certificate reloads without replacing the last valid
\* runtime" (docs/THREAT_MODEL.md:13): a runtime is only replaced by one that has
\* for each enabled virtual host a matching pair which covers its domains, and
\* the same listeners, whatever half-written files the build met.
ReloadIsSafe ==
    [][running' # running /\ running' # Down
          => /\ \A d \in Enabled(running'.conf) :
                   running'.pair[d] # Absent
                   /\ running'.pair[d].key = KeyOf[running'.pair[d].cert]
                   /\ running'.conf.domains[d] \subseteq Covers[running'.pair[d].cert]
             /\ running # Down => running'.conf.listen = running.conf.listen]_vars
=============================================================================
