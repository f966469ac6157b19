# CherryWAF: a verification of its protocols in TLA+

CherryWAF is a reverse-proxy web application firewall with a management
plane. This directory holds TLA+ models of its stateful parts, TLC runs that
check them on small instances, and TLAPS proofs of the properties that matter
most. `PROJECT.json` maps every definition to the lines it models and lists
runs, mutants, findings, hazards and theorems.

## The system

| part | source | state | operations |
| --- | --- | --- | --- |
| data plane `cherrywaf` | `internal/app`, `internal/core`, `internal/proxy`, `internal/waf`, ... | published runtime, retired runtimes, member health, token buckets, recent events | serve a request, reload (admin API, SIGHUP), stop |
| Control Center `cherrywaf-control` | `internal/control` | `state.json`, sessions, failure table, revisions, backups, managed certificates | setup, login, user management, apply configuration or rules, restore, backup, certificates, audit |
| network helper `cherrywaf-netd` | `cmd/cherrywaf-netd` | Netplan file, pending changes, backups, transient timers | apply, confirm, roll back, restart the WAF |
| command line `cherrywafctl` | `cmd/cherrywafctl` | none | writes configuration and certificates, asks for a reload |

How they interact: the Control Center writes the files the data plane reads and
then calls its admin API to reload; it forwards network plans to the helper
over a Unix socket; the helper starts a copy of itself by a systemd timer to
roll a change back; the command line writes the same files as the Control
Center without its lock.

What is hard to test here: the interleaving of requests between two lock
sections; a call that times out and takes effect later; a crash between two
file writes; two processes working on the same files; retries and rollbacks
that fail half-way; tables at their limit; a clock that is read before a lock
is taken. `PROJECT.json` lists each of these hazards at its line.

## Modules

| module | models | state and actions |
| --- | --- | --- |
| `NetworkChange` | what a network change promises | the live configuration and the one to fall back to: `Try`, `Keep`, `Revert` |
| `Netd` | `cmd/cherrywaf-netd/main.go` | files, timers and the program counter of the daemon and of each rollback process; every file operation and command is a step |
| `Accounts` | `internal/control/store.go` and the user handlers of `controller.go` | users in memory and on disk, sessions, requests in progress; every store method is a step |
| `LoginThrottle` | `authenticate` and `pruneFailuresLocked` of `store.go` | the failure table, attempts in progress, time in ticks |
| `ConfigTransaction` | `config_manager.go`, `rules_manager.go`, `backup.go`, `client.go`, and `App.Reload` | the two files, revisions, backups, `configMu`, requests in progress, the WAF's runtime and reloads; every file operation is a step |
| `Certificates` | `internal/control/certificates.go`, `internal/certstore`, `cherrywafctl`, composed with transactions and `App.Reload` | the certificate and key files, the configuration, the operation under `configMu`, the tool's progress, the reload and the published runtime; every file operation is a step |
| `AppLifecycle` | `internal/app/app.go`: `Reload`, the capture of a runtime, `Run` and `closeRuntimes` | current and retired runtimes, what is closed, `reloadMu`, the opening of the listeners, the requests and the shutdown |
| `RequestPipeline` | `publicHandler` of `internal/app/app.go` | one request, from its TLS handshake on, one action per check, each with its early return; the runtimes the handshake and the handler loaded |
| `RequestPolicy` | `internal/core`, `netutil`, `bot`, the score of `waf/engine.go`, the body of `app.go` | operators: route, certificates offered, client address, access lists, bot policy, body, score |
| `Limiter` | `internal/ratelimit/limiter.go` | buckets, calls that have read the clock, the tick of the cleanup |
| `RecentEvents` | `internal/logging/logger.go` | the ring of recent events, reporters on their way to it |
| `MemberHealth` | `recordSuccess`, `recordFailure` and `health.go` of `internal/proxy` | the flag and counts of one member, and how far each recorder is |
| `ServerPool` | selection and retry in `internal/proxy/proxy.go` | health flags, round-robin counter, running weights, requests in progress |

The `*Proofs` modules hold the theorems about the module they are named after;
`DataPlaneProofs` has those of `Limiter`, `RecentEvents` and `RequestPipeline`,
`BalancerProofs` those of `MemberHealth` and `ServerPool`.
`MC*` modules give the constants small values.

Two modules put components side by side for their runs and proofs: `DataPlane`
(buckets, pipeline, event ring) and `Balancer` (health, selection). Three MC
modules check several components in one run. `MCDataPlane`, `MCReload` (runtimes,
transactions) and `MCBalancer` hold the state of components that share none; a variable,
`part`, fixed at the start, says which one a behaviour exercises, and a property
speaks of that component's state only. `MCConfigTransaction` uses `part` to
choose between two instances of one component, one with every fault and one
that is longer. Components that do share state are composed in one module:
`Certificates` has uploads, transactions, the command line and the reload work
on the same files, and `ConfigTransaction` has the Control Center and the WAF.

### Modelling decisions

* `Netd`. `daemon.mu` is per process, so the daemon has one operation in
  progress and each rollback process one of its own. `restoreFiles` is a read
  of the backup and a write of the file. A command that fails may have had its
  effect. The 60-second timer cannot elapse while `apply` waits for
  `netplan apply` (killed after 30 s) or for `systemctl stop` (10 s). `Overlap =
  FALSE` restricts a run to behaviours in which a request and the timer's
  rollback of the same change do not overlap. The dry-run mode is left out.
* `Accounts`. A session carries a history variable, `late`, set when the
  account no longer matched the login as the session was made. The password is
  its hash, and every hash is new because of its salt.
* `LoginThrottle`. `Window` stands for the counting window and for the lockout,
  which are both 15 minutes.
* `ConfigTransaction`. A configuration is a body, which fixes the listeners,
  and whether it names the GUI rule file. `Clash` holds pairs that do not build
  together. A revision directory appears at once, since it is listed by its
  metadata, which is written last. A late reload may also never happen.
  `broken` records that a crash or an undo that fails has left the files
  half-way; after that `FilesBuild` promises nothing, since nothing in the code
  repairs them.
  `cherrywafctl` is assumed not to write during a transaction (`Certificates`
  is about that case), and the wall clock, by which revisions are ordered, not
  to step back.
* `Certificates`. A certificate determines its key and the domains it covers. A
  configuration is which directories its virtual hosts name, their domains, and
  the listeners. An upload and the command line verify one domain
  (`installCertificate`, `installPair`), a build verifies all of them
  (`certstore.Load`). A transaction is abstracted to the writing of the
  configuration and what it does with the answer to its reload, since
  `ConfigTransaction` has its files. `broken` records what nothing in the code
  repairs: a crash between two writes, an undo that fails, a collision of the
  command line with an operation in progress.
* `AppLifecycle`. A runtime is the number of its build. Closing one runtime is
  one step. `Run` opens the listeners in turn and returns when one cannot be
  opened, without closing a runtime; the process ends then. A request whose
  backend switches protocols (`Upgrade`) keeps its runtime, but `Shutdown` no
  longer waits for its connection. A reload is not waited for by the shutdown,
  so it may overlap `closeRuntimes`; `overlap` records it. Handlers may hang, and
  `overdue` records that the deadline passed first.
* `RequestPipeline`. What a check asks of the outside (the limiters, the
  reputation, the rules that match, the body) is any answer; which rules match
  is any set. The handshake and the handler each load whatever runtime is
  current, since reloads may come in between; after the shutdown there is none,
  and the handler answers 503 before anything is logged or counted.
* `RequestPolicy`. A domain is the sequence of its labels, an address a model
  value and a prefix list the set of its addresses. A forwarding header is a
  sequence of lines, of which the code reads the first (`http.Header.Get`); a
  line is a sequence that may hold parts that are no address.
* `RecentEvents`. The ring only: the log file an event is written to next has
  no influence on it.
* `Limiter`. Tokens are integers, `Cost` of them to a request, so that a rate
  may be a fraction of a request per tick. A caller's clock reading is at most
  `MaxDelay` old when it gets the lock, which is less than half the time to live
  of an idle bucket. Nothing in the code relates the time to live to the refill
  of a burst, so a bucket may be evicted before it is full and begin full again;
  `GrantsBounded` counts a burst per time to live, less the delays, as income
  where that is more than the rate.
* `MemberHealth`. The counts stop one past their thresholds. In the code they
  are 32 bits wide and would wrap after 2^31 outcomes of one kind in a row. A
  failure may be recorded for a member that is up, because a client that goes
  away and a check with an unexpected status count as failures too.
* `ServerPool`. The flags change freely, which covers whatever `MemberHealth`
  does. A scan loads one flag per step. `steady` is a history variable. A
  cookie, an address hash and the pseudo-random algorithm may point to any
  eligible member, so the properties hold for every choice. With one request at
  a time the connection counts that `least_connections` compares are all zero.

## Runs

| run | shows | bounds |
| --- | --- | --- |
| `NetdSafety` | a listed change has its backup; a confirmed one is final; all faults but a failing `systemctl stop` | 2 plans, 2 changes, 1 reboot |
| `NetdTrial` | file and interfaces agree at rest; rollbacks keep to their own change; `Netd` implements `NetworkChange`; every listed change ends | 2 changes, no crash, reboot or failing write; the commands of an apply and `systemctl stop` fail, those of a recovery do not |
| `NetdConfirmRace`, `NetdReboot` | two violations, see Findings | |
| `AccountsSafety` | an enabled administrator remains; one setup; sessions are revoked; disk keeps up | 2 accounts, 2 concurrent requests, 2 sessions, 3 hashes |
| `AccountsAudit` | violation, see Findings | |
| `Login` | whoever gets in has failed no more often than the lockout admits; wrong guesses per window and the failure table are bounded | 4 keys, 2 concurrent attempts, limit 2, table limit 1, 4 ticks |
| `Config` | success and complete rollback mean the WAF serves the files; a rollback restores both files; the files as found stay available; accepted changes are what was asked; files and backups build | 2 transactions with every fault and 1 late reload; 3 transactions of 2 concurrent requests with failing writes and reloads and 1 backup; 1 revision kept |
| `Certificates` | pairs match between operations; the answers to uploads and transactions are true; failed ones are undone; an upload that passed is refused for its own pair only if that expired or does not cover a further domain; a pair in use stays; no bad pair is published | 2 directories, 1 of them managed, 2 certificates of which one covers a domain less, 2 operations, 1 fault or command |
| `DataPlane` | grants stay within burst, rate and evictions and no token is lost; the certificate fits the route when both come from one runtime, the nearest foreign address of the header line that is read is the client, a request is forwarded exactly when no policy is against it, every refusal by a policy is logged and counted; the ring holds the latest events | 1 key, 2 callers, 10 ticks, a third of a request per tick, evictions of buckets that are not full; 2 runtimes, overlapping exact and wildcard domains, headers of up to 2 lines of up to 2 parts, which vary for one of the names; ring of 3, 6 events, 2 reporters |
| `Reload` | captured runtimes stay usable; none is lost and all are closed; reloads take effect in order; the process stops; every request to the Control Center is answered | 2 requests and SIGHUP, 3 builds; 2 transactions of 2 requests, every fault but a crash |
| `Balancer` | races of requests and checks leave no lasting error in a member's health flag; a member that stays healthy is never passed over; a replayable request is given up late; weights stay in balance | 2 requests and the check, both thresholds 2; 2 primaries and a backup, one request at a time, counter modulo 4 |

The bounds are the smallest at which the cases of interest occur: two
requests, so that one can act between two steps of the other; one revision
kept, so that pruning happens in every second transaction; three bodies, one of
which moves a listener and one of which clashes with a rule file; a second
token, so that a left-over backup can meet a later change; a ring that wraps
twice; enough ticks for a bucket to be emptied, evicted and made again; three
builds, so that a request can hold a runtime that was replaced twice. Deadlock
is not checked where the supply of tokens, hashes, operations or events is
finite and a behaviour ends when it is used up.

Every module with state has a type invariant, `TypeOK`. No run lists it as a
property, since it says little by itself; it is a theorem for `Netd` and
`Limiter`, and the other inductive invariants contain it or the part of it
their proofs need.

### Fairness

`Netd`: a running process takes its next step and an armed timer elapses; nobody
has to send a request. `ConfigTransaction`: a request that holds `configMu`
takes its next step, because file operations return and the HTTP client gives
up after its timeout; a request that waits for `configMu` gets it, because Go's
mutex hands over to a starving waiter. Nothing is assumed of the WAF.
`AppLifecycle`: the deadline of the shutdown passes, a `Shutdown` that finds no
handler left returns, and the loop of `closeRuntimes` goes on; handlers may hang
for ever and nobody has to stop the process. `MemberHealth`: the ticker starts
checks again and again, each with a timeout, and a recorder finishes its writes;
requests need not come.

## Findings

* A `confirm` that meets the timer's rollback returns success for a Netplan file
  that holds the old configuration (`NetdConfirmRace`).
* A change that is pending across a reboot is never rolled back (`NetdReboot`).
* A refused update of an account leaves a part of it in memory, unaudited
  (`AccountsAudit`).

More behaviours that no run demonstrates, each kept as a hazard with a note: a
rollback that restores the file and then fails leaves the change listed, so that
a later `confirm` succeeds and keeps the old file; after the wall clock was
stepped back, the newest safety revision is the first to be pruned; a SIGHUP
between the writes of a change that is then found invalid leaves the WAF on what
it read, since only a failed reload is followed by a second one; `cherrywafctl`
and the Control Center can overwrite each other's configuration; a reload that
overlaps the end of the shutdown, or a listener that cannot be opened, leaves a
runtime that is never closed; a time to live shorter than the refill of a burst,
which the configuration admits, lets a client have a burst more often than the
rate allows; a proxy that adds a header line of its own behind the client's is
not seen, since the first line is read; a reload between the handshake and the
request may show the certificate of one virtual host and route to another; the
400 and 421 answers, and the 503 without a runtime, leave no security event.
GUI rule changes and restores are validated as a pair only after they were
written, although `README.md:187` speaks of validate-before-apply.

## Proofs

The proofs hold for every value of the constants that the module's `ASSUME`
admits, so for any number of requests, keys, files and builds. In each, the
property is not inductive by itself; what is added is given here.

* `NetdProofs`. That `pending \subseteq known` depends on what each process is
  doing. `IInv` adds that an unlisted token has nothing on disk, what a change
  under preparation has on disk and what it has not, that clean-up removes
  `t.json` before the backup, and that a confirm past `systemctl stop` faces no
  timer and no rollback process. Theorems: `PendingCanRollBack`, `OnePending`,
  `ConfirmFinal`, `TypeCorrect`.

  Three more have a hypothesis. `Unhurried` says that a request and the rollback
  of the same change do not overlap and that neither writes fail nor processes
  die, which would leave the helper with a change it no longer knows about; the
  findings `NetdConfirmRace` and `NetdReboot` are about such cases. Any of the
  commands may fail. `OwnInv` says that one process
  works on a change, that a backup belongs to the pending change, and that a
  process past its first step works on the pending one. Theorem:
  `RollbackOwnChange`. `Recovering` adds that the commands of a recovery work.
  `TrialInv` then relates the file and the interfaces to what was saved before
  the trial. Theorems: `AgreeAtRest`, and `TrialImplemented`, the refinement of
  `NetworkChange`: every step of the helper is a `Try`, a `Keep`, a `Revert` or
  changes nothing that the abstract machine sees. The run `NetdTrial` satisfies
  both hypotheses.
* `AccountsProofs`. `IInv` is type correctness, that setup is complete exactly
  when it was founded, and the two safety properties. The proof goes by one
  lemma per store method. Theorems: `AnAdminRemains`, `SetupHappensOnce`,
  `SessionsAreRevoked`, `DiskStaysCurrent`.
* `LoginThrottleProofs`. The table only grows when an attempt that began fails,
  and it is cut when one begins: `Charged` bounds the entries together with the
  attempts that may still add one. Theorems: `TableStaysBounded`,
  `EntriesWithinBudget`.

  `GuessesStayBounded` bounds a sum over any interval of a window's length, of
  which the table keeps only one count. `GuessInv` says what an entry knows of
  the failures behind it (`Knows`): its count is their sum since its window
  began, less than `MaxFailures` of any overlapping interval came before that,
  and none comes while the key is locked; and that a key without an entry has
  had none for a window's length. The bound is the sum of the two.
  `EntriesWithinBudget` rests on the same invariant: an attempt that gets in
  finds its key unlocked, so its entry counts less than a lockout.
* `ConfigTransactionProofs`. The properties speak of the time between
  transactions. `Inv` says how far the holder of `configMu` has come with each
  file (`Written`), that a reload somebody waits for has read them as they are
  (`Awaited`), that the newest revision is what the transaction found once it
  may write (`Saved`), and that the last answer stays true until the next write
  (`Settled`). Theorems: `AnswersAreServed`, `AppliesWhatWasAsked`, `RollsBack`,
  `CanBeUndone`. `BuildInv` adds that what a transaction would restore builds
  while it runs. Theorem: `LeftFilesBuild`.
* `CertificatesProofs`. `Inv` says what an operation has written and what it has
  kept to undo it (`Written`, `Saved`), that the other directories match
  (`Others`), and that a build holds only pairs it has checked (`Loading`); all
  but the last is given up once `broken` is set. Theorems: `PairsAlwaysMatch`,
  `ReloadsAreSafe`. Four more invariants rest on it. `Removing` says which files
  a deletion may take (`ReferencedPairStays`); `UndoInv` when the files are as
  the operation found them (`RefusalUndone`); `CauseInv` that the build an upload
  waits for reads the uploaded pair, so that a pair is blamed only if it has
  expired, lacks a domain the upload did not verify, or is another's
  (`RefusedOnlyForCause`); and `ServeInv` that what such a build has read so far
  is still on disk (`AnsweredPairsServed`).
* `AppLifecycleProofs`. `Inv` says who holds `reloadMu`, that a build is newer
  than all others, that each runtime built is current, retired, in the hands of
  its reload or of the loop that closes, or closed (`Accounted`), that until the
  deadline has passed a handler's listener is still being waited for, unless its
  connection was upgraded (`Orderly`), and that `closeRuntimes` has everything
  to itself unless a reload overlaps it (`Quiet`). Theorems:
  `CapturedStaysOpen`, `NoneLeaks`, `InOrder`.
* `DataPlaneProofs`. For the buckets, time may run backwards between two calls.
  `Inv` bounds, for each key, what was granted together with what the bucket
  holds by what came in until its last refill (`Accounted`); a bucket may be
  evicted because by then the income has paid back a burst (`Repaid`): the
  refill itself, or, if the time to live is too short for that, what
  `GrantsBounded` allows for an eviction. Theorems: `BurstAndRate`,
  `NoTokensLost`, `TypeCorrect`.

  For the ring, `RingInv` says which slot holds the k-th newest event. Theorem:
  `RingIsTail`.

  For the pipeline, `PipelineInv` carries from check to check what the checks
  already passed have found (`Cleared`), which certificate was shown and which
  route was taken, each by the runtime loaded for it (`Named`), whom the client
  is held to be (`Identified`), and that nothing but accompanying events was
  logged so far (`Trail`). That the certificates offered for a name are those of
  its route, and that the last stranger of a line stays the last whatever is put
  in front of it, are lemmas about `RequestPolicy`. Theorems: `ShownIsServed`,
  `ClientHolds`, `PolicyDecides`, `RefusalsAudited`.
* `BalancerProofs`. `UnmonitoredStaysIn` is not inductive: a recorder may be
  about to store the flag. `IInv` adds that, without monitoring, only a success
  gets that far. Theorem: `StaysIn`. For the pool, `PoolInv` relates what a scan
  has seen, flag by flag, to the members that stayed up since it began
  (`InScan`), and says that a request has tried one or two distinct members.
  Theorems: `HealthyPreferred`, `FailsLate`.

  For the weights of weighted round robin, no bound on single members is
  inductive, because the eligible members differ from one selection to the next.
  `WeightInv` bounds every set of members: k of n members together are ahead by
  at most k * (n - k) times the greatest weight. A set that gains although a
  member outside it is selected has, for each of its eligible members, no more
  than the selected one; the bounds of the set with that member and of the set
  without its eligible members then give its own (`Advance`). Theorem:
  `WeightsStayBalanced`. The total weight of the pool, which looks like the
  natural bound, is not one: four members of weights 7, 1, 1 and 1 can get one of
  them to -11.

Assumptions on constants. Most say that a marker (`None`, `Absent`, `Down`, ...)
is none of the values it stands beside, and that thresholds and capacities are
natural numbers. Four say more: no call waits for its lock for half the time to
live of a bucket (`LimiterConstants`); a request that no rule matches scores below the
threshold, which the validation of the configuration ensures by asking for a
threshold of at least 1 (`RequestPipelineConstants`); the members of a pool have
distinct places and weights of at least 1 (`ServerPoolConstants`); and the table
of failures is pruned before it is full (`LoginThrottleConstants`). TLC evaluates
all of them on the instances of the runs. The assumptions of
`RecentEvents`, `RequestPipeline` and `ServerPool`, which reach their theorems by
`INSTANCE`, are made where these are instantiated, in `DataPlane` and `Balancer`.

Induction over data. The induction rules of the library take an operator, which
the provers cannot instantiate. Where a proof needs induction, for the sums in
`LoginThrottleProofs` and `BalancerProofs`, the last stranger of a line in
`DataPlaneProofs` and the first member of a pool, the set of counterexamples is
named and shown to have no smallest member (`LeastNatural`, from `WFMin`).

What is only model-checked is everything under fairness (`Settles`, `Answered`,
`Stops`, `Converges`), which the prover does not reach. Every other property of a
passing run is a theorem.

The three findings are counterexamples; there is nothing to prove about them.

## Not modelled

* Parsing, defaults and validation of the configuration (`internal/config`):
  field by field and without state. It appears as which files build.
* Regular expressions, decoding and normalisation of requests, content routing
  and rewriting of headers and URLs: string processing, of which the models use
  the verdict.
* The longest-prefix search of the IP reputation: a sort and a scan.
* The network screens of the Control Center and the rendering of Netplan: a
  client of the helper without state of its own.
* TLS, PEM and ZIP handling, password hashing: libraries, modelled by what they
  return.
* Metrics, the status report, the threat map, the embedded user interface, the
  dry-run mode of the helper, flag parsing, and ownership and modes of files.
* Steps of the wall clock; the clock of the models only advances.
