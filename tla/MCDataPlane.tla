---------------------------- MODULE MCDataPlane ----------------------------
(***************************************************************************)
(* A small data plane.  Its parts share no state, so a behaviour exercises *)
(* only the one that part names.                                           *)
(***************************************************************************)
EXTENDS DataPlane, TLC

VARIABLE part

pipelineVars == <<pc, req, shaken, shown, runtime, route, client, saw, events, counted, status>>
recentVars == <<recent, recentNext, recentCount, reporter, reported, remembered>>

MCTrusted == {"proxy"}
\* Overlapping wildcards, an exact name below one of them, and names that are
\* one label and two labels deep; a reload gives some of them to other hosts.
MCRuntimes == {
    [exact |-> <<"a", "x">> :> "v1",
     wildcard |-> <<"x">> :> "v2" @@ <<"a", "x">> :> "v3", fallback |-> "v1"],
    [exact |-> <<"b", "x">> :> "v1", wildcard |-> <<"x">> :> "v2", fallback |-> "v2"]}
MCHosts == {<<"a", "x">>, <<"b", "x">>, <<"b", "a", "x">>, <<"c", "b", "a", "x">>}
MCPeers == {"proxy", "client", "unparsable"}
MCLines == {<<>>, <<"proxy">>, <<"other", "client">>, <<"client", "proxy">>,
            <<"other", "unparsable">>}
\* No line, one, and two of which the second names another client.
MCHeaders == {<<>>} \cup {<<line>> : line \in MCLines \ {<<>>}}
             \cup {<<<<"other", "unparsable">>, <<"other", "client">>>>}
MCAccess == {[allow |-> {}, deny |-> {}], [allow |-> {}, deny |-> {"other"}],
             [allow |-> {"client"}, deny |-> {}]}
MCRules == {[score |-> 3, action |-> "score"], [score |-> 2, action |-> "score"],
            [score |-> 9, action |-> "log"], [score |-> 1, action |-> "block"]}

\* The header is read after the routing is done: it varies for one name.
OneName(r) == r.host = <<"a", "x">> /\ r.sni = <<>>

SomeRequest == [host |-> <<"a", "x">>, https |-> FALSE, sni |-> <<>>,
                remote |-> "client", forwarded |-> <<>>]

DataPlaneInit ==
    /\ part \in {"limiter", "pipeline", "recent"}
    /\ Init /\ Pipeline!Init /\ Recent!Init
    /\ part # "pipeline" => req = SomeRequest
    /\ req.forwarded # <<>> => OneName(req)

DataPlaneNext ==
    \/ /\ part = "limiter" /\ Next
       /\ UNCHANGED <<part, pipelineVars, recentVars>>
    \/ /\ part = "pipeline" /\ Pipeline!Next
       /\ UNCHANGED <<part, vars, recentVars>>
    \/ /\ part = "recent" /\ Recent!Next
       /\ UNCHANGED <<part, vars, pipelineVars>>

DataPlaneSpec == DataPlaneInit /\ [][DataPlaneNext]_<<part, vars, pipelineVars, recentVars>>
=============================================================================
