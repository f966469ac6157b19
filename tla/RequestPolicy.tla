--------------------------- MODULE RequestPolicy ---------------------------
(***************************************************************************)
(* The decisions the data plane takes about one request, as operators: the *)
(* virtual host its name selects (core/runtime.go), the certificates a TLS *)
(* client may be shown (certstore/store.go), the address it is taken to    *)
(* come from (netutil/clientip.go), the application's access lists         *)
(* (core/policy.go), the bot policy (bot/engine.go), the body that is      *)
(* inspected (app/app.go) and the score of the matched rules               *)
(* (waf/engine.go).                                                        *)
(*                                                                         *)
(* A domain name is the sequence of its labels, already lower-cased and    *)
(* without its final dot.  An address is a model value and a prefix list   *)
(* the set of the addresses it contains.  A runtime rt is a record:        *)
(* rt.exact maps its exact domains and rt.wildcard the suffixes of its     *)
(* wildcard domains to virtual hosts, and rt.fallback is the first enabled *)
(* virtual host, whose pair is the fallback.                               *)
(***************************************************************************)
EXTENDS Integers, Sequences, FiniteSets, FiniteSetsExt

CONSTANTS
    NoRoute,      \* no virtual host
    Trusted,      \* the addresses of the trusted proxies
    Unparsable,   \* a part of a header, or a peer, that is not an address
    Unknown       \* the client "unknown"

(***************************************************************************)
(* Runtime.Route: the exact domain, else the longest wildcard suffix that  *)
(* leaves exactly one label.                                               *)
(***************************************************************************)
LeavesOneLabel(host, suffix) ==
    Len(host) = Len(suffix) + 1 /\ Tail(host) = suffix

RouteOf(rt, host) ==
    LET suffixes == {s \in DOMAIN rt.wildcard : LeavesOneLabel(host, s)}
    IN  CASE host \in DOMAIN rt.exact -> rt.exact[host]
          [] host \notin DOMAIN rt.exact /\ suffixes # {} ->
                rt.wildcard[CHOOSE s \in suffixes :
                               \A t \in suffixes : Len(s) >= Len(t)]
          [] OTHER -> NoRoute

\* Mutant: the search accepts any depth below a suffix.
CertificatesOfDeep(rt, name) ==
    IF name \in DOMAIN rt.exact
    THEN {rt.exact[name]}
    ELSE {rt.wildcard[s] : s \in {t \in DOMAIN rt.wildcard :
              /\ Len(name) > Len(t)
              /\ SubSeq(name, Len(name) - Len(t) + 1, Len(name)) = t}}
         \cup IF name = <<>> THEN {rt.fallback} ELSE {}

(***************************************************************************)
(* Store.GetCertificate: the virtual hosts whose pair a client that asks   *)
(* for a name may be shown.  The wildcards are visited in the order of a   *)
(* Go map, which is not determined, and the first that fits is taken.  The *)
(* empty set is the error that ends the handshake.                         *)
(***************************************************************************)
CertificatesOf(rt, name) ==
    IF name \in DOMAIN rt.exact
    THEN {rt.exact[name]}
    ELSE {rt.wildcard[s] : s \in {t \in DOMAIN rt.wildcard : LeavesOneLabel(name, t)}}
         \cup IF name = <<>> THEN {rt.fallback} ELSE {}

(***************************************************************************)
(* http.Header.Get: a header is the sequence of its lines, each a sequence *)
(* of comma-separated parts, and the first line is all that is read.       *)
(***************************************************************************)
Get(header) == IF header = <<>> THEN <<>> ELSE header[1]

(***************************************************************************)
(* ClientIP: the peer, unless it is a trusted proxy that sent the header;  *)
(* then the line, whose unparsable parts are skipped, is walked from the   *)
(* right to its first untrusted address.  If there is none the client is   *)
(* the leftmost address, and the peer if the line holds no address.        *)
(***************************************************************************)
Addresses(line) == {i \in DOMAIN line : line[i] # Unparsable}

Strangers(line) == {i \in Addresses(line) : line[i] \notin Trusted}

\* Mutant: the leftmost address is believed.
ClientIPLeftmost(remote, line) ==
    IF remote \in Trusted /\ Addresses(line) # {}
    THEN line[Min(Addresses(line))]
    ELSE remote

ClientIP(remote, line) ==
    CASE remote = Unparsable -> Unknown
      [] remote # Unparsable /\ remote \notin Trusted -> remote
      [] remote \in Trusted /\ Strangers(line) # {} ->
            line[Max(Strangers(line))]
      [] remote \in Trusted /\ Strangers(line) = {} ->
            IF Addresses(line) = {} THEN remote
                                      ELSE line[Min(Addresses(line))]

(***************************************************************************)
(* accessPolicy.Allowed: the deny list wins; an empty allow list allows    *)
(* everyone else; a client whose address is not known passes only when     *)
(* there is no allow list.                                                 *)
(***************************************************************************)
Allowed(access, client) ==
    IF client = Unknown
    THEN access.allow = {}
    ELSE /\ client \notin access.deny
         /\ access.allow = {} \/ client \in access.allow

(***************************************************************************)
(* bot.Engine.Inspect: an allowed user agent ends the inspection, a bad    *)
(* one is a match, and the bot limiter is asked last.  bot.mode is "off"   *)
(* without an engine.                                                      *)
(***************************************************************************)
BotKind(bot) ==
    CASE bot.mode = "off" \/ bot.agent = "allowed" -> "none"
      [] bot.mode # "off" /\ bot.agent = "bad" -> "user_agent"
      [] bot.mode # "off" /\ bot.agent = "other" ->
            IF bot.granted THEN "none" ELSE "rate"

\* Mutant: what a gzip body inflates to is not measured.
InspectionBodyUnmeasured(body) ==
    CASE body.wire = "broken" -> "error"
      [] body.wire = "large" -> "large"
      [] body.wire = "small" /\ body.encoding = "other" -> "unsupported"
      [] body.wire = "small" /\ body.encoding = "gzip" ->
            IF body.inflated = "corrupt" THEN "error" ELSE "body"
      [] OTHER -> "body"

(***************************************************************************)
(* inspectionBody: the outcome of reading and, if need be, inflating the   *)
(* body.  body.wire is what arrives ("none" is no body, "large" exceeds    *)
(* the limit, "broken" cannot be read) and body.inflated what gzip makes   *)
(* of it.                                                                  *)
(***************************************************************************)
InspectionBody(body) ==
    CASE body.wire = "none" -> "body"
      [] body.wire = "broken" -> "error"
      [] body.wire = "large" -> "large"
      [] body.wire = "small" /\ body.encoding = "other" -> "unsupported"
      [] body.wire = "small" /\ body.encoding = "identity" -> "body"
      [] body.wire = "small" /\ body.encoding = "gzip" ->
            CASE body.inflated = "corrupt" -> "error"
              [] body.inflated = "large" -> "large"
              [] body.inflated = "small" -> "body"

(***************************************************************************)
(* waf.Engine.Inspect, given the rules that matched (the framing check is  *)
(* one of them): a "log" rule adds no score; a blocking engine blocks at   *)
(* its threshold and on every "block" rule.                                *)
(***************************************************************************)
Score(matches) ==
    MapThenSumSet(LAMBDA m : m.score, {m \in matches : m.action # "log"})

Blocks(mode, threshold, matches) ==
    /\ mode = "blocking"
    /\ \/ Score(matches) >= threshold
       \/ \E m \in matches : m.action = "block"
=============================================================================
