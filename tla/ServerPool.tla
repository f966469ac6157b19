----------------------------- MODULE ServerPool -----------------------------
(***************************************************************************)
(* A server pool of the load balancer: the choice of a member for a        *)
(* request, and the retry on another one (internal/proxy/proxy.go).        *)
(*                                                                         *)
(* The healthy flags may change at any time (module MemberHealth says how) *)
(* and a selection loads them one after the other.                         *)
(***************************************************************************)
EXTENDS Integers, FiniteSets, FiniteSetsExt

CONSTANTS Member,            \* the enabled members
          Place,             \* their order in the configuration
          Backup,            \* those with the backup role
          Weight, Priority,
          Request,           \* requests that are served concurrently
          Algorithm,         \* the algorithms a pool may have
          RRWidth,           \* the round-robin counter wraps, at 2^64 in the code
          None               \* no member

ServerPoolConstants ==
    /\ IsFiniteSet(Member) /\ Member # {} /\ None \notin Member
    /\ Place \in [Member -> Nat]
    /\ \A m, n \in Member : Place[m] = Place[n] => m = n
    /\ Backup \subseteq Member
    /\ Weight \in [Member -> Nat \ {0}] /\ Priority \in [Member -> Nat]
    /\ RRWidth \in Nat \ {0}

VARIABLES algorithm, lastResort,  \* config.Algorithm, and FailureMode = last_resort
          healthy,   \* the flag of each member
          rr,        \* the round-robin counter
          weight,    \* currentWeight of each member
          req        \* each request

config == <<algorithm, lastResort>>
balance == <<rr, weight>>
vars == <<algorithm, lastResort, healthy, rr, weight, req>>

\* A request scans the members it has not tried: those todo, and those seen
\* healthy.  steady records which of them were healthy all the time since the
\* scan began.  "body" is a GET with a body, which is gone once it was sent.
Kind == {"replayable", "body", "unsafe"}
Scan(kind, tried) ==
    [pc |-> "scan", kind |-> kind, member |-> None, tried |-> tried, todo |-> Member \ tried,
     seen |-> {}, steady |-> {m \in Member \ tried : healthy[m]}]
Trip(kind, member, tried) ==
    [pc |-> "trip", kind |-> kind, member |-> member, tried |-> tried, todo |-> {},
     seen |-> {}, steady |-> {}]
Idle ==
    [pc |-> "idle", kind |-> "unsafe", member |-> None, tried |-> {}, todo |-> {},
     seen |-> {}, steady |-> {}]
Failed == [Idle EXCEPT !.pc = "failed"]   \* 502 or 503 was the answer
Become(r, state) == req' = [req EXCEPT ![r] = state]

Init ==
    /\ algorithm \in Algorithm /\ lastResort \in BOOLEAN
    /\ healthy = [m \in Member |-> TRUE]
    /\ rr = 0 /\ weight = [m \in Member |-> 0]
    /\ req = [r \in Request |-> Idle]

----------------------------------------------------------------------------
\* Mutant: the backup role is ignored.
AnyRole(members) == members

\* eligible: the primaries, or else the backups
Preferred(members) == IF members \ Backup # {} THEN members \ Backup ELSE members

\* the members selectMember chooses among
Eligible(q) ==
    IF q.seen = {} /\ lastResort THEN Preferred(Member \ q.tried) ELSE Preferred(q.seen)

\* the i-th of the members, counting from 0, in the order of the configuration
Nth(members, i) ==
    CHOOSE m \in members : Cardinality({n \in members : Place[n] < Place[m]}) = i

RoundRobin(members, m) ==
    /\ m = Nth(members, rr % Cardinality(members))
    /\ rr' = (rr + 1) % RRWidth
    /\ UNCHANGED weight

\* Mutant: the total is that of the whole pool.
PoolTotal(members) == MapThenSumSet(LAMBDA n : Weight[n], Member)

Total(members) == MapThenSumSet(LAMBDA n : Weight[n], members)

\* smooth weighted round robin: the first of those with the greatest weight
WeightedRoundRobin(members, m) ==
    LET raised == [n \in Member |-> IF n \in members THEN weight[n] + Weight[n] ELSE weight[n]]
    IN  /\ \A n \in members : \/ raised[n] < raised[m]
                              \/ raised[n] = raised[m] /\ Place[n] >= Place[m]
        /\ weight' = [raised EXCEPT ![m] = @ - Total(members)]
        /\ UNCHANGED rr

\* the round trips in progress at a member
Active(m) == Cardinality({r \in Request : req[r].pc = "trip" /\ req[r].member = m})

\* the lowest ratio of connections to weight; a tie goes to the member with
\* the fewer requests so far, here to any of them
LeastConnections(members, m) ==
    /\ \A n \in members : Active(m) * Weight[n] <= Active(n) * Weight[m]
    /\ UNCHANGED balance

\* the lowest priority, then the fewest connections, then the first
PrimaryBackup(members, m) ==
    /\ \A n \in members \ {m} :
          \/ Priority[m] < Priority[n]
          \/ Priority[m] = Priority[n] /\ Active(m) < Active(n)
          \/ Priority[m] = Priority[n] /\ Active(m) = Active(n) /\ Place[m] < Place[n]
    /\ UNCHANGED balance

\* A cookie, the hash of the address and the pseudo-random algorithm may each
\* point to any of the members.
Anywhere(members, m) == UNCHANGED balance

Choose(members, m) ==
    \/ algorithm = "round_robin" /\ RoundRobin(members, m)
    \/ algorithm = "weighted_round_robin" /\ WeightedRoundRobin(members, m)
    \/ algorithm = "least_connections" /\ LeastConnections(members, m)
    \/ algorithm = "primary_backup" /\ PrimaryBackup(members, m)
    \/ Anywhere(members, m)

----------------------------------------------------------------------------
\* ServeHTTP begins: the first selection
Arrive(r, kind) ==
    /\ req[r].pc \in {"idle", "failed"}
    /\ Become(r, Scan(kind, {}))
    /\ UNCHANGED <<config, healthy, balance>>

\* Mutant: the scan gives up at the first member that is not healthy.
LoadUntil(r) ==
    /\ req[r].pc = "scan" /\ req[r].todo # {}
    /\ LET m == Nth(req[r].todo, 0)
           q == req[r]
       IN  Become(r, [q EXCEPT !.todo = IF healthy[m] THEN @ \ {m} ELSE {},
                               !.seen = IF healthy[m] THEN @ \cup {m} ELSE @])
    /\ UNCHANGED <<config, healthy, balance>>

\* eligible: the flag of the next member is loaded
Load(r) ==
    /\ req[r].pc = "scan" /\ req[r].todo # {}
    /\ LET m == Nth(req[r].todo, 0)
           q == req[r]
       IN  Become(r, [q EXCEPT !.todo = @ \ {m},
                               !.seen = IF healthy[m] THEN @ \cup {m} ELSE @])
    /\ UNCHANGED <<config, healthy, balance>>

Scanned(r) == req[r].pc = "scan" /\ req[r].todo = {}

\* A member is chosen and the round trip begins.
Send(r) ==
    /\ Scanned(r)
    /\ req[r].tried # {} => req[r].kind = "replayable"
    /\ \E m \in Eligible(req[r]) :
          /\ Choose(Eligible(req[r]), m)
          /\ Become(r, Trip(req[r].kind, m, req[r].tried \cup {m}))
    /\ UNCHANGED <<config, healthy>>

\* cloneForRetry fails, after an alternate was chosen
CloneFails(r) ==
    /\ Scanned(r)
    /\ req[r].tried # {} /\ req[r].kind = "body"
    /\ \E m \in Eligible(req[r]) : Choose(Eligible(req[r]), m)
    /\ Become(r, Failed)
    /\ UNCHANGED <<config, healthy>>

\* selectMember finds nobody: the answer is 503, or 502 after a failure
NoMember(r) ==
    /\ Scanned(r) /\ Eligible(req[r]) = {}
    /\ Become(r, Failed)
    /\ UNCHANGED <<config, healthy, balance>>

\* the member answers
Answer(r) ==
    /\ req[r].pc = "trip"
    /\ Become(r, Idle)
    /\ UNCHANGED <<config, healthy, balance>>

\* RoundTrip: the first failure of a request that may be replayed leads to a
\* second selection
Fail(r) ==
    /\ req[r].pc = "trip"
    /\ Become(r, IF req[r].kind # "unsafe" /\ Cardinality(req[r].tried) = 1
                 THEN Scan(req[r].kind, req[r].tried) ELSE Failed)
    /\ UNCHANGED <<config, healthy, balance>>

\* recordSuccess or recordFailure sets the flag of a member
SetHealth(m) ==
    /\ healthy' = [healthy EXCEPT ![m] = ~@]
    /\ req' = [r \in Request |-> [req[r] EXCEPT !.steady = @ \ {m}]]
    /\ UNCHANGED <<config, balance>>

Serve(r) == Load(r) \/ Send(r) \/ CloneFails(r) \/ NoMember(r) \/ Answer(r) \/ Fail(r)

Next ==
    \/ \E r \in Request : Serve(r) \/ \E kind \in Kind : Arrive(r, kind)
    \/ \E m \in Member : SetHealth(m)

Spec == Init /\ [][Next]_vars

----------------------------------------------------------------------------
\* All variables have the shape that their names promise; no request tries
\* more than two members.
TypeOK ==
    /\ algorithm \in Algorithm /\ lastResort \in BOOLEAN
    /\ healthy \in [Member -> BOOLEAN]
    /\ rr \in 0 .. RRWidth - 1 /\ weight \in [Member -> Int]
    /\ req \in [Request -> [pc : {"idle", "scan", "trip", "failed"}, kind : Kind,
                            member : Member \cup {None}, tried : SUBSET Member,
                            todo : SUBSET Member, seen : SUBSET Member,
                            steady : SUBSET Member]]
    /\ \A r \in Request : Cardinality(req[r].tried) <= 2

\* The weights of weightedRoundRobin stay in balance whichever members come and
\* go: they add up to 0, and none drifts further than the greatest weight times
\* the number of other members, which is far from the bounds of an int.
WeightsBalanced ==
    LET widest == Max({Weight[m] : m \in Member})
        drift == (Cardinality(Member) - 1) * widest
    IN  /\ MapThenSumSet(LAMBDA m : weight[m], Member) = 0
        /\ \A m \in Member : weight[m] \in -drift .. drift

\* "Healthy primary members are preferred": while flags change under a
\* selection, a member that the request has not tried and that was healthy
\* throughout is never passed over for one seen unhealthy, nor a primary of
\* that kind for a backup (eligible, selectMember).
PrefersHealthy ==
    [][\A r \in Request :
          req[r].pc = "scan" /\ req'[r].pc = "trip" =>
             /\ req[r].steady # {} => req'[r].member \in req[r].seen
             /\ req[r].steady \ Backup # {} => req'[r].member \notin Backup]_vars

\* A request that may be replayed fails only after two different members
\* failed it, or when no member that it had not tried was healthy throughout
\* its last selection; with last_resort, only when there was no other member
\* at all (RoundTrip, selectMember).
GivesUpLate ==
    [][\A r \in Request :
          LET q == req[r]
          IN  q.pc \in {"scan", "trip"} /\ q.kind = "replayable" /\ req'[r].pc = "failed" =>
                 \/ q.pc = "trip" /\ Cardinality(q.tried) = 2
                 \/ q.pc = "scan" /\ q.steady = {} /\ (lastResort => q.tried = Member)]_vars

=============================================================================
