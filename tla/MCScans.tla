------------------------------- MODULE MCScans -------------------------------
(***************************************************************************)
(* The built-in scans, in one run: the pipeline inside a scanner, what the *)
(* scans write, and samples of the checks of a web page. A behaviour is    *)
(* one of the three; the variables of the others keep one value.           *)
(***************************************************************************)
EXTENDS ScannerPipeline, ScanExecution, TLC

VARIABLES part, sample

scansVars == <<part, sample, pipelineVars, executionVars>>

-----------------------------------------------------------------------------
\* crt.sh may list a name of the word list and one beyond it, the other
\* source the latter, so that names meet in every way.
MCListings == {[p \in Passive |-> IF p = CrtSh THEN {1, 7} ELSE h] : h \in {{}, {7}}}

Form == [https |-> FALSE, tls |-> "tls12", cert |-> "ok",
         headers |-> DOMAIN HeaderSeverity \cup {"Pragma"}, facts |-> {"form", "security.txt"},
         hits |-> {<<"xss", 1>>}, debug |-> {}, banners |-> {}, sinks |-> {}, techs |-> {},
         unclaimed |-> {}, cookies |-> [c \in {} |-> {}]]
Site(techs, expiring) == [page |-> Form, cert |-> "c", expiring |-> expiring, techs |-> techs]

Job(o, k, t) == [org |-> o, kind |-> k, targets |-> t]
Two(a, b) == [s \in Scans |-> IF s = "s1" THEN a ELSE b]

\* A full scan beside the scheduled job of its domain; two organizations
\* with one domain; the same page twice; one host from two sides; a port and
\* a page of it; records and subdomains of one domain; a full scan and one of
\* a name under its domain, which finds a name of both.
MCPlans ==
    {Two(Job("A", "full", <<"d">>), Job("A", "scheduled", <<"d">>)),
     Two(Job("A", "subdomain", <<"https://d">>), Job("B", "subdomain", <<"d">>)),
     Two(Job("A", "web", <<"w">>), Job("A", "web", <<"w">>)),
     Two(Job("A", "port", <<"ip", "a.d">>), Job("A", "network", <<"ip">>)),
     Two(Job("A", "web", <<"ip">>), Job("A", "port", <<"ip">>)),
     Two(Job("A", "dns", <<"d">>), Job("A", "subdomain", <<"d">>)),
     Two(Job("A", "full", <<"d">>), Job("A", "subdomain", <<"a.d">>))}

Names == {"d", "a.d", "b.d", "https://d", "ip", "w"}
OfNames(f, none) == [n \in Names |-> IF n \in DOMAIN f THEN f[n] ELSE none]
MCBare == [n \in Names |-> IF n = "https://d" THEN "d" ELSE n]
MCLive == OfNames("d" :> {"ip"} @@ "ip" :> {"ip"}, {})
MCRecords == OfNames("d" :> {<<"A", "ip">>}, {})
MCResolving == OfNames("d" :> {"a.d"} @@ "a.d" :> {"b.d"}, {})
MCChained == OfNames("d" :> {"b.d"}, {})
MCOpenPorts == {<<"ip", 443>>, <<"a.d", 443>>}
MCSites == <<"https", "ip">> :> Site({"t"}, TRUE) @@ <<"http", "w">> :> Site({}, FALSE)
           @@ <<"https", "a.d">> :> Site({}, FALSE)

-----------------------------------------------------------------------------
\* A page with everything wrong, and pages that lack one thing of it.
Probed == {"path", "ssti", "graphql", "redirect unfollowed", "ssrf", "lfi", "prototype", "cache",
           "idor", "xss", "login", "login limited", "credentials unfollowed", "listing",
           "websocket", "any origin", "sqli", "command", "crlf", "xxe", "callback unfollowed",
           "slow"}
AllHits == Probed \X {1, 2} \cup {<<"path", 3>>, <<"forbidden", 1>>, <<"forbidden", 3>>}
           \cup {"version"} \X (1..8) \cup {"method"} \X {"TRACE", "PUT"}
           \cup {<<"secret", s>> : s \in {<<"key", 0>>, <<"key", 1>>, <<"token", 1>>}}
AllFacts ==
    {"x-xss-protection", "self-signed", "server version", "x-powered-by", "x-aspnet-version",
     "frame-ancestors", "acao any", "acao reflected", "acac", "allow trace", "http serves",
     "http to http", "te reflected", "jwt", "unsigned jwt", "h2c", "host reflected",
     "host in unfollowed location", "fields reflected", "form", "csrf token", "page limited",
     "security.txt", "not html", "external without sri", "oidc", "implicit", "password", "jwks",
     "old h2 server"}
Loud == [https |-> TRUE, tls |-> "tls10", cert |-> "expired", headers |-> {}, facts |-> AllFacts,
         hits |-> AllHits, debug |-> {"trace", "dump"}, banners |-> {"b"}, sinks |-> {"s"},
         techs |-> {"t"}, unclaimed |-> {"u"}, cookies |-> [c \in {"sid", "pref"} |-> {}]]
Quiet == [Loud EXCEPT !.facts = {"security.txt", "form"}, !.https = FALSE,
                      !.headers = DOMAIN HeaderSeverity, !.debug = {}]
Minus(group) == [Loud EXCEPT !.hits = {h \in @ : h[1] # group}]
Pages ==
    {[Loud EXCEPT !.facts = @ \ {f}] :
        f \in {"acao any", "acac", "csrf token", "page limited", "security.txt", "frame-ancestors"}}
    \cup {Minus(g) : g \in {"login limited", "version", "any origin"}}
    \cup {Quiet, [Quiet EXCEPT !.debug = {"trace"}]}

CheckNames == Probed \cup
    {"base", "cors", "redirect", "cors credentials", "smuggling", "jwt", "h2c", "host",
     "mass assignment", "csrf", "burst", "login burst", "secret", "security.txt", "mime", "sri",
     "oidc", "h2 reset", "takeover", "base time", "version", "options", "method"}
Visit(lost, missed, token, debug) ==
    [lost |-> lost, missed |-> missed, token |-> token, debug |-> debug]
Whole == Visit({}, {}, 1, "trace")
Flawed(page) ==
    {Visit(l, m, 2, d) : l \in {{}}, m \in {{}} \cup {{h} : h \in page.hits}, d \in Debugs(page)}
    \cup {Visit({c}, {}, 2, d) : c \in CheckNames, d \in Debugs(page)}
Samples == UNION {{[page |-> p, visit |-> v] : v \in Flawed(p)} : p \in Pages}
NoSample == [page |-> Quiet, visit |-> Whole]

-----------------------------------------------------------------------------
NoPipeline ==
    /\ scanner = "network" /\ alive = {} /\ known = [p \in Passive |-> {}] /\ stopped = FALSE
    /\ feeder = "closed" /\ waiting = <<>> /\ inbox = <<>>
    /\ producer = [w \in Producers |-> Returned] /\ emitted = {}
    /\ outbox = <<>> /\ consumer = "done" /\ got = <<>>
NoExecution ==
    /\ plan = [s \in Scans |-> Job("A", "web", <<>>)] /\ foreignKeys = FALSE
    /\ db = [t \in Tables |-> IF t \in LogTables THEN {} ELSE <<>>] /\ scan = [s \in Scans |-> NoScan]
    /\ together = {} /\ upsets = 0

ScansInit ==
    \/ part = "pipeline" /\ sample = NoSample /\ PipelineInit /\ NoExecution
    \/ part = "execution" /\ sample = NoSample /\ ExecutionInit /\ NoPipeline
    \/ part = "checks" /\ sample \in Samples /\ NoPipeline /\ NoExecution
ScansNext ==
    /\ UNCHANGED <<part, sample>>
    /\ \/ part = "pipeline" /\ PipelineNext /\ UNCHANGED executionVars
       \/ part = "execution" /\ ExecutionNext /\ UNCHANGED pipelineVars
ScansSpec == ScansInit /\ [][ScansNext]_scansVars /\ PipelineFairness

ScansTypeOK ==
    /\ part \in {"pipeline", "execution", "checks"}
    /\ part = "pipeline" => PipelineTypeOK
    /\ part = "execution" => ExecutionTypeOK
    /\ part = "checks" => sample \in Samples

\* SecurityChecks.NoFalseAlarm, SaysTheSame and OneRowEach, of the samples:
\* requests that fail, one probe at a time or all of one check's, raise no
\* finding that a full visit does not; two full visits say the same under the
\* same titles and URLs; and no two findings are stored as one.
ChecksAreHonest ==
    LET page == sample.page
        visit == sample.visit
    IN part = "checks" =>
         /\ NoFalseAlarm(page, visit, Whole)
         /\ visit.lost \cup visit.missed = {} => SaysTheSame(page, Whole, visit)
         /\ OneRowEach(page, visit)
=============================================================================
