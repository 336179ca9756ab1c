--------------------------- MODULE SecurityChecks ---------------------------
(***************************************************************************)
(* What SecurityChecker.Check reports of a web page (modules/web,          *)
(* security_checks*.go): some forty checks, each a few HTTP requests, whose *)
(* findings the web scan stores under (organization, title, URL).          *)
(*                                                                         *)
(* A page is what it answers: facts of its base response, and for each     *)
(* check that tries a list of probes the positions of those that succeed.  *)
(* A visit is one scan of it: the requests that failed, the token that the *)
(* XSS check takes from the clock and the debug pattern that Go's map      *)
(* iteration meets first. What is sent is left out, and so are the         *)
(* severities inside a list of patterns, which are written "high".         *)
(***************************************************************************)
EXTENDS Integers, FiniteSets, FiniteSetsExt

\* A finding: title and detail are its Title, at its URL.
Issue(title, detail, sev, at) == [title |-> title, detail |-> detail, sev |-> sev, at |-> at]
Here == <<"page">>
Key(f) == <<f.title, f.detail, f.at>>

One(cond, f) == IF cond THEN {f} ELSE {}
Note(page, fact, title, sev) == One(fact \in page.facts, Issue(title, "", sev, Here))

\* fetch: every request of a check that the visit lost failed, and so did
\* the single probes it missed.
Fetched(visit, c) == c \notin visit.lost
Hits(page, visit, c) ==
    IF Fetched(visit, c) THEN {h[2] : h \in {x \in page.hits \ visit.missed : x[1] = c}} ELSE {}
Said(page, visit, c, fact) == Fetched(visit, c) /\ fact \in page.facts

\* The first probe that succeeds, the rest are not tried; or all of them.
First(page, visit, c, title, sev) ==
    LET hits == Hits(page, visit, c)
    IN One(hits # {}, Issue(title, "", sev, <<c, IF hits = {} THEN 0 ELSE Min(hits)>>))
Every(page, visit, c, title, sev) ==
    {Issue(title, "", sev, <<c, n>>) : n \in Hits(page, visit, c)}

-----------------------------------------------------------------------------
\* security_checks.go

HeaderSeverity ==
    [Strict_Transport_Security |-> "high", Content_Security_Policy |-> "medium",
     X_Frame_Options |-> "medium", X_Content_Type_Options |-> "low",
     Referrer_Policy |-> "low", Permissions_Policy |-> "info"]
checkSecurityHeaders(page) ==
    {Issue("Missing Security Header", h, HeaderSeverity[h], Here) :
        h \in DOMAIN HeaderSeverity \ page.headers}
    \cup Note(page, "x-xss-protection", "Deprecated X-XSS-Protection Header", "low")

VersionSeverity == [ssl30 |-> "critical", tls10 |-> "high", tls11 |-> "medium"]
checkTLS(page) ==
    IF ~page.https THEN {}
    ELSE {Issue("Deprecated protocol", v, VersionSeverity[v], Here) :
             v \in DOMAIN VersionSeverity \cap {page.tls}}
         \cup One(page.cert = "expired", Issue("Expired TLS Certificate", "", "critical", Here))
         \cup One(page.cert = "expiring",
                  Issue("TLS Certificate Expiring Soon", "", "high", Here))
         \cup Note(page, "self-signed", "Self-Signed TLS Certificate", "high")

\* One debug pattern is reported, whichever the map iteration meets first.
checkInformationDisclosure(page, visit) ==
    Note(page, "server version", "Server Version Disclosure", "low")
    \cup Note(page, "x-powered-by", "Technology Disclosure via X-Powered-By", "info")
    \cup Note(page, "x-aspnet-version", "ASP.NET Version Disclosure", "low")
    \cup {Issue("Debug/Error Information Disclosed", d, "medium", Here) :
             d \in page.debug \cap {visit.debug}}

\* The debug patterns of a page that a visit may meet first.
Debugs(page) == IF page.debug = {} THEN {""} ELSE page.debug

checkClickjacking(page) ==
    One("X_Frame_Options" \notin page.headers /\ "frame-ancestors" \notin page.facts,
        Issue("Clickjacking: No Frame Embedding Protection", "", "medium", Here))

checkCORS(page, visit) ==
    LET said(fact) == Said(page, visit, "cors", fact)
    IN IF said("acao any")
       THEN {Issue("CORS: Wildcard Access-Control-Allow-Origin", "", "medium", Here)}
       ELSE One(said("acao reflected"),
                Issue("CORS: Arbitrary Origin Reflected", "",
                      IF "acac" \in page.facts THEN "critical" ELSE "high", Here))

\* Ten at a time, each path on its own. A path is reported when it answers
\* 200, or 403 unless it is one of the informational ones.
InfoPaths == {3}
checkSensitivePaths(page, visit) ==
    {f \in Every(page, visit, "path", "Sensitive path", "high") :
        f.at[2] \in InfoPaths => <<"forbidden", f.at[2]>> \notin page.hits}

MethodSeverity == [TRACE |-> "medium", TRACK |-> "medium", PUT |-> "high", DELETE |-> "high"]
checkHTTPMethods(page, visit) ==
    {Issue("Dangerous HTTP Method Allowed", m, MethodSeverity[m], Here) :
        m \in DOMAIN MethodSeverity \cap Hits(page, visit, "method")}
    \cup One(Said(page, visit, "options", "allow trace"),
             Issue("Dangerous Methods Listed in Allow Header", "", "medium", Here))

checkCookies(page) ==
    LET lacks(flag) == {c \in DOMAIN page.cookies : flag \notin page.cookies[c]}
    IN {Issue("Cookie Missing Secure Flag", c, "medium", Here) :
           c \in IF page.https THEN lacks("Secure") ELSE {}}
       \cup {Issue("Cookie Missing HttpOnly Flag", c, "medium", Here) : c \in lacks("HttpOnly")}
       \cup {Issue("Cookie Missing SameSite Attribute", c, "low", Here) : c \in lacks("SameSite")}

checkCaching(page) ==
    One({"Cache_Control", "Pragma"} \cap page.headers = {},
        Issue("No Cache-Control Headers", "", "info", Here))

\* The same URL over plain HTTP, without following what it answers.
checkRedirect(page, visit) ==
    LET said(fact) == page.https /\ Said(page, visit, "redirect", fact)
    IN One(said("http serves"), Issue("HTTP Not Redirected to HTTPS", "", "high", <<"http">>))
       \cup One(said("http to http"),
                Issue("HTTP Redirect Does Not Target HTTPS", "", "medium", <<"http">>))

checkCORSWildcardCredentials(page, visit) ==
    LET said(fact) == {fact, "acac"} \subseteq page.facts /\ Fetched(visit, "cors credentials")
    IN One(said("acao reflected"),
           Issue("CORS: Arbitrary Origin Reflected with Credentials", "", "critical", Here))
       \cup One(said("acao any") /\ ~said("acao reflected"),
                Issue("CORS: Wildcard Origin with Credentials", "", "high", Here))

checkHTTPRequestSmuggling(page, visit) ==
    One(Said(page, visit, "smuggling", "te reflected"),
        Issue("Potential HTTP Request Smuggling (TE header reflected)", "", "high", Here))
checkSSTI(page, visit) ==
    First(page, visit, "ssti", "Server-Side Template Injection (SSTI)", "critical")

\* A request that fails counts as a token accepted (mutant).
checkJWTBlind(page, visit) ==
    One(~Fetched(visit, "jwt") \/ {"jwt", "unsigned jwt"} \subseteq page.facts,
        Issue("JWT None-Algorithm Accepted", "", "critical", Here))

\* A token in the response; then two more requests, both needed.
checkJWT(page, visit) ==
    One({"jwt", "unsigned jwt"} \subseteq page.facts /\ Fetched(visit, "jwt"),
        Issue("JWT None-Algorithm Accepted", "", "critical", Here))
checkGraphQLIntrospection(page, visit) ==
    First(page, visit, "graphql", "GraphQL Introspection Exposed", "medium")

\* The client follows 301, 302, 303, 307 and 308 to the probe's own name,
\* which does not resolve: those requests fail, and only other redirects
\* that carry a Location are seen.
checkOpenRedirect(page, visit) ==
    First(page, visit, "redirect unfollowed", "Open Redirect", "medium")
checkSSRFDNSRebinding(page, visit) ==
    First(page, visit, "ssrf", "Server-Side Request Forgery (SSRF)", "critical")
checkPathTraversal(page, visit) ==
    First(page, visit, "lfi", "Path Traversal / Local File Inclusion (LFI)", "critical")
checkSubdomainTakeover(page) ==
    {Issue("Potential Subdomain Takeover", s, "high", Here) : s \in page.banners}
checkPrototypePollution(page, visit) ==
    First(page, visit, "prototype", "Prototype Pollution", "high")
checkDOMXSSSinks(page) ==
    {Issue("DOM-Based XSS Sink Pattern", s, "high", Here) : s \in page.sinks}
checkHTTP2Downgrade(page, visit) ==
    One(Said(page, visit, "h2c", "h2c"),
        Issue("HTTP/2 Cleartext (h2c) Upgrade Accepted", "", "medium", Here))

\* Five headers in map order; the first reflected ends the loop, and the
\* finding is the page's whichever it was.
checkCachePoisoning(page, visit) ==
    One(Hits(page, visit, "cache") # {},
        Issue("Web Cache Poisoning via Unkeyed Header", "", "high", Here))

\* A redirect to the forged host is followed and fails, so that the second
\* finding takes an answer that is not followed.
checkHostHeaderInjection(page, visit) ==
    One(Said(page, visit, "host", "host reflected"),
        Issue("Host Header Injection", "", "high", Here))
    \cup One(Said(page, visit, "host", "host in unfollowed location"),
             Issue("Host Header Injection via Redirect", "", "high", Here))
checkMassAssignmentIDOR(page, visit) ==
    First(page, visit, "idor", "Potential IDOR (Insecure Direct Object Reference)", "high")
    \cup One(Said(page, visit, "mass assignment", "fields reflected"),
             Issue("Potential Mass Assignment Vulnerability", "", "high", Here))

-----------------------------------------------------------------------------
\* security_checks_extended.go

\* The URL of the finding holds the token taken from the clock.
checkReflectedXSS(page, visit) ==
    LET hits == Hits(page, visit, "xss")
    IN One(hits # {},
           Issue("Reflected XSS", "", "high",
                 <<"xss", IF hits = {} THEN 0 ELSE Min(hits), visit.token>>))
checkCSRF(page, visit) ==
    One(Said(page, visit, "csrf", "form") /\ "csrf token" \notin page.facts,
        Issue("Missing CSRF Token in Form", "", "high", Here))

\* No 429 to a burst at the page, then the first login path that answers and
\* gives none in ten requests; a request that fails counts as not limited.
checkRateLimiting(page, visit) ==
    LET burstLimited == Said(page, visit, "burst", "page limited")
        unlimited == {n \in Hits(page, visit, "login") :
                        ~(<<"login limited", n>> \in page.hits /\ Fetched(visit, "login burst"))}
    IN One(~burstLimited /\ unlimited # {},
           Issue("No Rate Limiting on Login Endpoint", "", "high",
                 <<"login", IF unlimited = {} THEN 0 ELSE Min(unlimited)>>))

\* The login form's answer to a pair is followed when it is a redirect, so
\* that the 302 the check looks for is only seen when following stops.
checkDefaultCredentials(page, visit) ==
    First(page, visit, "credentials unfollowed", "Default Credentials Accepted", "critical")
checkDirectoryListing(page, visit) ==
    Every(page, visit, "listing", "Directory Listing Enabled", "medium")

\* Each endpoint, again with a foreign origin: one finding or the other.
checkWebSocketEndpoints(page, visit) ==
    LET open == Hits(page, visit, "websocket")
        any == open \cap Hits(page, visit, "any origin")
    IN {Issue("WebSocket Cross-Origin Access (Missing Origin Validation)", "", "high",
              <<"websocket", n>>) : n \in any}
       \cup {Issue("WebSocket Endpoint Discovered", "", "info", <<"websocket", n>>) :
                n \in open \ any}

\* Each kind of secret once per URL that shows it.
checkSecretsInResponse(page, visit) ==
    {Issue("Secret Leaked in HTTP Response", s[1], "high", <<"secret", s[2]>>) :
        s \in Hits(page, visit, "secret")}
checkTechVulnerabilities(page) ==
    {Issue("Known Vulnerable Technology", t, "high", Here) : t \in page.techs}
checkSQLInjection(page, visit) ==
    First(page, visit, "sqli", "SQL Injection (Error-Based)", "critical")
checkCommandInjection(page, visit) ==
    First(page, visit, "command", "OS Command Injection", "critical")
checkCRLFInjection(page, visit) == First(page, visit, "crlf", "CRLF Injection", "high")
checkXXE(page, visit) ==
    First(page, visit, "xxe", "XML External Entity (XXE) Injection", "critical")

\* Reported unless one of two paths answers 200 with a body: a request that
\* fails says the same as a file that is not there.
checkSecurityDisclosurePolicy(page, visit) ==
    One(~Said(page, visit, "security.txt", "security.txt"),
        Issue("Missing security.txt (No Vulnerability Disclosure Policy)", "", "info", Here))
checkMIMEConfusion(page, visit) ==
    One(Said(page, visit, "mime", "not html") /\ "X_Content_Type_Options" \notin page.headers,
        Issue("MIME Sniffing Risk", "", "low", Here))
checkSubresourceIntegrity(page, visit) ==
    One(Said(page, visit, "sri", "external without sri"),
        Issue("Missing Subresource Integrity (SRI)", "", "medium", Here))

-----------------------------------------------------------------------------
\* security_checks_advanced.go

checkOAuthOIDC(page, visit) ==
    LET said(fact) == {"oidc", fact} \subseteq page.facts /\ Fetched(visit, "oidc")
        note(fact, title, sev) == One(said(fact), Issue(title, "", sev, <<"oidc">>))
    IN note("implicit", "OAuth: Implicit Flow Enabled in OIDC Discovery", "medium")
       \cup note("password", "OAuth: Resource Owner Password Credentials Grant Enabled", "high")
       \cup note("jwks", "OAuth: JWKS Endpoint Publicly Accessible", "info")
       \cup First(page, visit, "callback unfollowed",
                  "OAuth: Open Redirect via redirect_uri Parameter", "high")
checkHTTP2RapidReset(page, visit) ==
    One(page.https /\ Said(page, visit, "h2 reset", "old h2 server"),
        Issue("Potential HTTP/2 Rapid Reset (CVE-2023-44487)", "", "high", Here))
checkSubdomainTakeoverBody(page, visit) ==
    {Issue("Subdomain Takeover: Unclaimed Resource", s, "high", Here) :
        s \in IF Fetched(visit, "takeover") THEN page.unclaimed ELSE {}}

\* A base time, then the first probe that takes 2.5 s longer.
checkTimingBlindSQLi(page, visit) ==
    IF Fetched(visit, "base time")
    THEN First(page, visit, "slow", "Blind SQL Injection (Time-Based)", "critical") ELSE {}

\* The current version is the first path of the list that answers; older
\* ones are those whose path sorts before it as a string.
VersionPaths == <<"/api/v0", "/api/v1", "/api/v2", "/v0", "/v1", "/v2", "/api/1.0", "/api/2.0">>
SortsBefore == {<<7, n>> : n \in 1..6} \cup {<<8, n>> : n \in 1..6} \cup {<<7, 8>>}
               \cup {p \in (1..6) \X (1..6) : p[1] < p[2]}
checkAPIVersioning(page, visit) ==
    LET served == Hits(page, visit, "version")
        current == IF served = {} THEN 0 ELSE Min(served)
    IN {Issue("Legacy API Version Accessible", VersionPaths[n], "medium", <<"version", n>>) :
           n \in {m \in served : <<m, current>> \in SortsBefore}}

-----------------------------------------------------------------------------
\* Nothing when the base request fails; otherwise every check.
Check(page, visit) ==
    IF ~Fetched(visit, "base") THEN {} ELSE
    UNION {checkSecurityHeaders(page), checkTLS(page), checkInformationDisclosure(page, visit),
           checkClickjacking(page), checkCORS(page, visit), checkSensitivePaths(page, visit),
           checkHTTPMethods(page, visit), checkCookies(page), checkCaching(page),
           checkRedirect(page, visit), checkCORSWildcardCredentials(page, visit),
           checkHTTPRequestSmuggling(page, visit), checkSSTI(page, visit),
           checkJWT(page, visit), checkGraphQLIntrospection(page, visit),
           checkOpenRedirect(page, visit), checkSSRFDNSRebinding(page, visit),
           checkPathTraversal(page, visit), checkSubdomainTakeover(page),
           checkPrototypePollution(page, visit), checkDOMXSSSinks(page),
           checkHTTP2Downgrade(page, visit), checkCachePoisoning(page, visit),
           checkHostHeaderInjection(page, visit), checkMassAssignmentIDOR(page, visit),
           checkReflectedXSS(page, visit), checkCSRF(page, visit),
           checkRateLimiting(page, visit), checkDefaultCredentials(page, visit),
           checkDirectoryListing(page, visit), checkWebSocketEndpoints(page, visit),
           checkSecretsInResponse(page, visit), checkTechVulnerabilities(page),
           checkSQLInjection(page, visit), checkCommandInjection(page, visit),
           checkCRLFInjection(page, visit), checkXXE(page, visit),
           checkSecurityDisclosurePolicy(page, visit), checkMIMEConfusion(page, visit),
           checkSubresourceIntegrity(page, visit), checkOAuthOIDC(page, visit),
           checkHTTP2RapidReset(page, visit), checkSubdomainTakeoverBody(page, visit),
           checkTimingBlindSQLi(page, visit), checkAPIVersioning(page, visit)}

\* The checks whose outcome a failed request turns into a finding (of a web
\* socket the one about its origins fails and the lesser one is left), and those
\* that say something else of one page on every visit.
FailureTalks == {"Missing security.txt (No Vulnerability Disclosure Policy)",
                 "No Rate Limiting on Login Endpoint", "WebSocket Endpoint Discovered"}
Restless(page) == {"Reflected XSS"}
    \cup IF Cardinality(page.debug) > 1 THEN {"Debug/Error Information Disclosed"} ELSE {}

\* Failed requests never make up an issue the page has not, but for those
\* of FailureTalks: whatever is lost, what is reported is reported of the page
\* under the same title when nothing fails.
NoFalseAlarm(page, visit, whole) ==
    \A f \in Check(page, visit) :
        \/ f.title \in FailureTalks \cup Restless(page)
        \/ \E g \in Check(page, whole) : g.title = f.title /\ g.detail = f.detail

\* Two full visits of one page report the same findings under the same
\* titles, URLs and severities, but for the restless checks: a rescan of an
\* unchanged page finds its findings stored.
SaysTheSame(page, one, two) ==
    \A f \in Check(page, one) : f.title \in Restless(page) \/ f \in Check(page, two)

\* No finding hides another: two findings of a visit that are stored under
\* one title and URL are one.
OneRowEach(page, visit) ==
    \A f, g \in Check(page, visit) : Key(f) = Key(g) => f = g
=============================================================================
