----------------------------- MODULE DataPlane -----------------------------
(***************************************************************************)
(* Three parts of the data plane that share no state: the token buckets    *)
(* (extended), the way of one request through the checks, which asks the   *)
(* buckets only for a yes or no, and the log of security events.           *)
(***************************************************************************)
EXTENDS Limiter

CONSTANTS Runtimes, NoRuntime, NoRoute, Trusted, Unparsable, Unknown,
          Hosts, Peers, Lines, Headers, AccessLists, Rules, Threshold,
          Reporter, Capacity, MaxEvents

VARIABLES pc, req, shaken, shown, runtime, route, client, saw, events, counted, status,
          recent, recentNext, recentCount, reporter, reported, remembered

Pipeline == INSTANCE RequestPipeline
Recent == INSTANCE RecentEvents

ASSUME DataPlaneConstants ==
    Pipeline!RequestPipelineConstants /\ Recent!RecentEventsConstants

\* The properties of the parts, stated and explained in their modules: the
\* agreement of certificate and route, the address the client is held to, the
\* requests that are forwarded, the trace of the others, and what the logger's
\* ring returns.
CertificateOfRoute == Pipeline!CertificateOfRoute
NearestStrangerDecides == Pipeline!NearestStrangerDecides
ForwardedExactly == Pipeline!ForwardedExactly
Audited == Pipeline!Audited
RecentIsTail == Recent!RecentIsTail
=============================================================================
