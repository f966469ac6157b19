-------------------------- MODULE RequestPipeline --------------------------
(***************************************************************************)
(* The handler of the public listeners (app.publicHandler), one action per *)
(* check and in the order of the code, preceded by the TLS handshake that  *)
(* chose a certificate.  Each check either answers the request, which ends *)
(* it, or hands it to the next.                                            *)
(*                                                                         *)
(* What a check depends on and earlier checks do not (the policy of the    *)
(* virtual host, the limiters' answers, the body, the rules that match) is *)
(* chosen when the check asks for it and kept in saw.  The runtime is      *)
(* loaded twice, by the handshake and by the handler, and any number of    *)
(* reloads, or the shutdown, may have come in between.                     *)
(***************************************************************************)
EXTENDS RequestPolicy

CONSTANTS
    Hosts,       \* the names clients ask for
    Peers,       \* the addresses connections come from
    Lines,       \* the contents of a line of the forwarding header
    Headers,     \* the forwarding headers: sequences of lines
    Runtimes,    \* the runtimes that reloads make current
    NoRuntime,   \* current after the shutdown: nil
    AccessLists, \* the access policies: records with fields allow, deny
    Rules,       \* rules: records with fields score and action
    Threshold    \* Security.BlockThreshold

\* The configuration is validated: a threshold is at least 1, which no request
\* reaches without a match.  Lists of prefixes hold addresses, and scores are
\* numbers.
RequestPipelineConstants ==
    /\ NoRuntime \notin Runtimes
    /\ \A rt \in Runtimes : \A suffix \in DOMAIN rt.wildcard : Len(suffix) \in Nat
    /\ \A line \in Lines : line \in Seq({line[i] : i \in DOMAIN line})
    /\ <<>> \in Lines /\ Headers \subseteq Seq(Lines)
    /\ Unparsable \notin Trusted
    /\ \A access \in AccessLists : Unknown \notin access.allow \cup access.deny
    /\ Threshold \in Int /\ Score({}) < Threshold
    /\ \A matches \in SUBSET Rules : Score(matches) \in Int

VARIABLES
    pc,        \* the next check, or "done"
    req,       \* what the client sent
    shaken,    \* the runtime the handshake loaded
    shown,     \* the virtual host whose certificate the client was shown
    runtime,   \* the runtime the handler loaded
    route,     \* the virtual host that was selected
    client,    \* clientIP
    saw,       \* what the checks so far depended on
    events,    \* the actions of the security events logged
    counted,   \* the metrics that were incremented, in order
    status     \* how the request was answered

vars == <<pc, req, shaken, shown, runtime, route, client, saw, events, counted, status>>

\* What the handshake and the routing settled.
routing == <<shaken, shown, runtime, route>>

Stages == {"handshake", "route", "sni", "client", "access", "reputation",
           "redirect", "limit", "bot", "action", "body", "inspect",
           "backend", "done"}

Reputations == {"clear", "monitor", "block"}
Bots == {b \in [mode : {"off", "monitor", "block"},
                agent : {"allowed", "bad", "other"}, granted : BOOLEAN] :
            /\ b.mode = "off" => b.agent = "other" /\ b.granted
            /\ b.agent # "other" => b.granted}
Bodies == {b \in [wire : {"none", "small", "large", "broken"},
                  encoding : {"identity", "gzip", "other"},
                  inflated : {"small", "large", "corrupt"}] :
            /\ b.wire \in {"none", "broken"} => b.encoding = "identity"
            /\ (b.encoding # "gzip" \/ b.wire # "small") => b.inflated = "small"}

\* What has not been asked yet is as harmless as it can be.
Unasked == [access |-> [allow |-> {}, deny |-> {}], reputation |-> "clear",
            redirect |-> FALSE, granted |-> TRUE,
            bot |-> [mode |-> "off", agent |-> "other", granted |-> TRUE],
            action |-> "group", engine |-> "disabled",
            body |-> [wire |-> "none", encoding |-> "identity",
                      inflated |-> "small"],
            panics |-> FALSE, failMode |-> "closed", matches |-> {}]

TypeOK ==
    /\ pc \in Stages
    /\ req \in [host : Hosts, https : BOOLEAN, sni : Hosts \cup {<<>>},
                remote : Peers, forwarded : Headers]
    /\ {shaken, runtime} \subseteq Runtimes \cup {NoRuntime}
    /\ {shown, route} \subseteq {NoRoute} \cup UNION
           {{rt.exact[d] : d \in DOMAIN rt.exact} \cup
            {rt.wildcard[s] : s \in DOMAIN rt.wildcard} : rt \in Runtimes}
    /\ status \in {"none", "tls_error", "unavailable", "forwarded", "redirect", "vhost_redirect",
                   "discard", "400", "403", "413", "415", "421", "429", "503"}
    /\ (pc = "done") <=> (status # "none")
    /\ events \in Seq({"access_block", "reputation_monitor",
                       "reputation_block", "rate_limit", "bot_monitor",
                       "bot_block", "waf_error", "detect", "block"})
    /\ Len(events) <= 3
    /\ counted \in Seq({"blocked", "rate_limited", "body_too_large"})

Init ==
    /\ req \in [host : Hosts, https : BOOLEAN, sni : Hosts \cup {<<>>},
                remote : Peers, forwarded : Headers]
    /\ ~req.https => req.sni = <<>>
    /\ pc = IF req.https THEN "handshake" ELSE "route"
    /\ shaken = NoRuntime /\ runtime = NoRuntime
    /\ shown = NoRoute /\ route = NoRoute
    /\ client = Unknown
    /\ saw = Unasked
    /\ events = <<>> /\ counted = <<>>
    /\ status = "none"

\* The check lets the request through to the next one.
Pass(next) ==
    /\ pc' = next
    /\ UNCHANGED <<counted, status>>

\* The check answers the request and increments the metrics.
Reply(answer, metrics) ==
    /\ pc' = "done"
    /\ status' = answer
    /\ counted' = counted \o metrics

\* logSyntheticSecurity, or Logger.Security for the events of the engine.
Log(action) == events' = Append(events, action)

NoLog == UNCHANGED events

\* Runtime.GetCertificate: nil has no store.
GetCertificate(rt, name) == IF rt = NoRuntime THEN {} ELSE CertificatesOf(rt, name)

Handshake ==
    /\ pc = "handshake"
    /\ \E rt \in Runtimes \cup {NoRuntime} :
         /\ shaken' = rt
         /\ \/ /\ GetCertificate(rt, req.sni) = {}
               /\ Reply("tls_error", <<>>)
               /\ UNCHANGED shown
            \/ /\ shown' \in GetCertificate(rt, req.sni)
               /\ Pass("route")
    /\ NoLog
    /\ UNCHANGED <<req, runtime, route, client, saw>>

\* The handler loads the current runtime, and without one answers 503 before
\* anything is logged or counted.
Route ==
    /\ pc = "route"
    /\ \E rt \in Runtimes \cup {NoRuntime} :
         /\ runtime' = rt
         /\ \/ /\ rt = NoRuntime
               /\ Reply("unavailable", <<>>)
               /\ UNCHANGED route
            \/ /\ rt # NoRuntime
               /\ route' = RouteOf(rt, req.host)
               /\ \/ route' = NoRoute /\ Reply("421", <<>>)
                  \/ route' # NoRoute /\ Pass("sni")
    /\ NoLog
    /\ UNCHANGED <<req, shaken, shown, client, saw>>

CheckSNI ==
    /\ pc = "sni"
    /\ LET differs == req.https /\ req.sni # <<>> /\ req.sni # req.host
       IN  \/ differs /\ Reply("421", <<>>)
           \/ ~differs /\ Pass("client")
    /\ NoLog
    /\ UNCHANGED <<req, routing, client, saw>>

Identify ==
    /\ pc = "client"
    /\ client' = ClientIP(req.remote, Get(req.forwarded))
    /\ Pass("access")
    /\ NoLog
    /\ UNCHANGED <<req, routing, saw>>

CheckAccess ==
    /\ pc = "access"
    /\ \E access \in AccessLists :
         /\ saw' = [saw EXCEPT !.access = access]
         /\ \/ /\ Allowed(access, client)
               /\ Pass("reputation") /\ NoLog
            \/ /\ ~Allowed(access, client)
               /\ Log("access_block") /\ Reply("403", <<"blocked">>)
    /\ UNCHANGED <<req, routing, client>>

\* Store.Lookup finds nothing for a client whose address is not known.
CheckReputation ==
    /\ pc = "reputation"
    /\ \E found \in Reputations :
         /\ client = Unknown => found = "clear"
         /\ saw' = [saw EXCEPT !.reputation = found]
         /\ \/ found = "clear" /\ Pass("redirect") /\ NoLog
            \/ found = "monitor" /\ Pass("redirect") /\ Log("reputation_monitor")
            \/ /\ found = "block"
               /\ Log("reputation_block") /\ Reply("403", <<"blocked">>)
    /\ UNCHANGED <<req, routing, client>>

RedirectToHTTPS ==
    /\ pc = "redirect"
    /\ \/ /\ req.https
          /\ Pass("limit") /\ UNCHANGED saw
       \/ /\ ~req.https
          /\ \E enabled \in BOOLEAN :
               /\ saw' = [saw EXCEPT !.redirect = enabled]
               /\ \/ enabled /\ Reply("redirect", <<>>)
                  \/ ~enabled /\ Pass("limit")
    /\ NoLog
    /\ UNCHANGED <<req, routing, client>>

\* Mutant: the refusal leaves no event.
CheckLimitSilent ==
    /\ pc = "limit"
    /\ \E granted \in BOOLEAN :
         /\ saw' = [saw EXCEPT !.granted = granted]
         /\ \/ granted /\ Pass("bot")
            \/ ~granted /\ Reply("429", <<"rate_limited">>)
    /\ NoLog
    /\ UNCHANGED <<req, routing, client>>

CheckLimit ==
    /\ pc = "limit"
    /\ \E granted \in BOOLEAN :
         /\ saw' = [saw EXCEPT !.granted = granted]
         /\ \/ granted /\ Pass("bot") /\ NoLog
            \/ /\ ~granted
               /\ Log("rate_limit") /\ Reply("429", <<"rate_limited">>)
    /\ UNCHANGED <<req, routing, client>>

CheckBot ==
    /\ pc = "bot"
    /\ \E bot \in Bots :
         /\ saw' = [saw EXCEPT !.bot = bot]
         /\ \/ BotKind(bot) = "none" /\ Pass("action") /\ NoLog
            \/ /\ BotKind(bot) # "none" /\ bot.mode = "monitor"
               /\ Pass("action") /\ Log("bot_monitor")
            \/ /\ BotKind(bot) # "none" /\ bot.mode = "block"
               /\ Log("bot_block")
               /\ Reply(IF BotKind(bot) = "rate" THEN "429" ELSE "403",
                        <<"blocked">>)
    /\ UNCHANGED <<req, routing, client>>

\* The action of the virtual host, and whether it has an engine.
TakeAction ==
    /\ pc = "action"
    /\ \E action \in {"group", "redirect", "discard"},
          engine \in {"disabled", "detect", "blocking"} :
         /\ action # "group" => engine = "disabled"
         /\ saw' = [saw EXCEPT !.action = action, !.engine = engine]
         /\ \/ action = "redirect" /\ Reply("vhost_redirect", <<>>)
            \/ action = "discard" /\ Reply("discard", <<>>)
            \/ action = "group" /\ engine = "disabled" /\ Pass("backend")
            \/ action = "group" /\ engine # "disabled" /\ Pass("body")
    /\ NoLog
    /\ UNCHANGED <<req, routing, client>>

ReadBody ==
    /\ pc = "body"
    /\ \E body \in Bodies :
         /\ saw' = [saw EXCEPT !.body = body]
         /\ \/ InspectionBody(body) = "body" /\ Pass("inspect") /\ NoLog
            \/ /\ InspectionBody(body) = "unsupported"
               /\ Log("block") /\ Reply("415", <<"blocked">>)
            \/ /\ InspectionBody(body) = "large"
               /\ Log("block") /\ Reply("413", <<"body_too_large">>)
            \/ InspectionBody(body) = "error" /\ Reply("400", <<>>) /\ NoLog
    /\ UNCHANGED <<req, routing, client>>

\* inspectRoute recovers from a panic of the engine: the decision is empty.
InspectPanics ==
    /\ pc = "inspect"
    /\ \E mode \in {"open", "closed"} :
         /\ saw' = [saw EXCEPT !.panics = TRUE, !.failMode = mode]
         /\ \/ mode = "open" /\ Pass("backend")
            \/ mode # "open" /\ Reply("503", <<"blocked">>)
    /\ Log("waf_error")
    /\ UNCHANGED <<req, routing, client>>

Inspect ==
    /\ pc = "inspect"
    /\ \E matches \in SUBSET Rules :
         /\ saw' = [saw EXCEPT !.matches = matches]
         /\ \/ matches = {} /\ Pass("backend") /\ NoLog
            \/ /\ matches # {} /\ ~Blocks(saw.engine, Threshold, matches)
               /\ Log("detect") /\ Pass("backend")
            \/ /\ Blocks(saw.engine, Threshold, matches)
               /\ Log("block") /\ Reply("403", <<"blocked">>)
    /\ UNCHANGED <<req, routing, client>>

\* The backend of a virtual host whose action is "group" is never nil.
Forward ==
    /\ pc = "backend"
    /\ Reply("forwarded", <<>>)
    /\ NoLog
    /\ UNCHANGED <<req, routing, client, saw>>

Next ==
    \/ Handshake \/ Route \/ CheckSNI \/ Identify \/ CheckAccess
    \/ CheckReputation \/ RedirectToHTTPS \/ CheckLimit \/ CheckBot
    \/ TakeAction \/ ReadBody \/ InspectPanics \/ Inspect \/ Forward

Spec == Init /\ [][Next]_vars

(***************************************************************************)
(* PROPERTIES                                                              *)
(***************************************************************************)

\* A client that names a server in the handshake and is routed past the SNI
\* check was shown the certificate of the virtual host that serves it, although
\* the certificate is searched by another procedure than the route, in the
\* undetermined order of a map (certstore.GetCertificate, Runtime.Route).  This
\* is promised as long as the two loaded the same runtime: a reload in between
\* may have given the name to another virtual host.
CertificateOfRoute ==
    (/\ req.sni # <<>>
     /\ pc \notin {"handshake", "route", "sni"}
     /\ status \notin {"tls_error", "unavailable", "421"}
     /\ shaken = runtime) => shown = route

\* The address the access lists, the reputation entries and the limiters judge
\* (publicHandler, netutil.ClientIP) is that of the peer, whatever the header,
\* unless the peer is a trusted proxy.  If it is, the last address of the first
\* line that is not a proxy's decides: neither what stands in front of it in
\* that line, which the client may have written, nor further lines matter.  The
\* code does not promise that a proxy wrote to the first line.
NearestStrangerDecides ==
    client # Unknown =>
        LET line == Get(req.forwarded)
        IN  /\ req.remote \notin Trusted =>
                  \A header \in Headers : ClientIP(req.remote, Get(header)) = client
            /\ Strangers(line) # {} =>
                  \A front \in Lines, others \in Headers :
                      ClientIP(req.remote, Get(<<front \o line>> \o others)) = client

\* No reason of any policy stands against the request.  In detect and monitor
\* modes a match is no reason.
Blameless ==
    /\ client \notin saw.access.deny
    /\ saw.access.allow # {} => client \in saw.access.allow
    /\ saw.reputation # "block"
    /\ saw.granted
    /\ saw.bot.mode = "block" => saw.bot.agent # "bad" /\ saw.bot.granted
    /\ saw.engine # "disabled" =>
          /\ saw.body.wire \in {"none", "small"}
          /\ saw.body.encoding \in {"identity", "gzip"}
          /\ saw.body.inflated = "small"
    /\ saw.panics => saw.failMode = "open"
    /\ saw.engine = "blocking" =>
          /\ \A m \in saw.matches : m.action # "block"
          /\ Score(saw.matches) < Threshold

\* A request reaches the backend exactly when the runtime serves its name, it
\* was not sent elsewhere, and no policy has a reason against it: no check is
\* bypassed by an earlier one's path, and none turns away what its mode only
\* observes.
ForwardedExactly ==
    pc = "done" =>
        ((status = "forwarded") <=>
            /\ runtime # NoRuntime
            /\ RouteOf(runtime, req.host) # NoRoute
            /\ req.sni \in {<<>>, req.host}
            /\ ~saw.redirect
            /\ saw.action = "group"
            /\ Blameless)

\* Every request that policy turned away is counted exactly once and has left
\* a security event as its last.  A request that was served, or redirected, is
\* counted by none of these metrics and leaves only events of what was observed,
\* and so do the refusals that are not a policy's: the 400 of a body that cannot
\* be read, the 421 of a wrong name, the 503 without a runtime.
Audited ==
    pc = "done" =>
        IF status \in {"403", "413", "415", "429", "503"}
        THEN /\ Len(counted) = 1
             /\ events # <<>>
             /\ events[Len(events)] \in {"access_block", "reputation_block",
                    "rate_limit", "bot_block", "block", "waf_error"}
        ELSE /\ counted = <<>>
             /\ \A i \in DOMAIN events : events[i] \in
                    {"reputation_monitor", "bot_monitor", "detect", "waf_error"}
=============================================================================
