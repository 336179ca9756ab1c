---------------------------- MODULE ToolReports ----------------------------
(***************************************************************************)
(* What the wrappers of the external tools (modules/toolrunner/tools) make *)
(* of a tool's output: which lines, or which entries of a JSON document,   *)
(* become results, and with what severity.                                 *)
(*                                                                         *)
(* An output is a record [lines, doc, calls, rows, files]. A line is       *)
(* [json, starts, words, items]: whether it parses as a JSON object, what  *)
(* it starts with, the markers it holds that some wrapper looks for, and   *)
(* what it is about. A document is [form, entries]. An item is [name, sev, *)
(* says, more]: what the tool says of it, and the markers of its entry.    *)
(* calls are the answers of a cloud CLI; rows and files what a screenshot  *)
(* tool left on disk. Wording, URLs and versions are left out.             *)
(***************************************************************************)
EXTENDS Integers, Sequences, FiniteSets, SequencesExt

\* The members of s that are kept, in order.
Sifted(s, Keep(_)) ==
    FlattenSeq([i \in DOMAIN s |-> IF Keep(s[i]) THEN <<s[i]>> ELSE <<>>])

\* Line handling. Comments and empty lines are dropped, the rest is trimmed:
\* no line a wrapper sees starts with a blank.
parseLines(out) == Sifted(out.lines, LAMBDA l : l.starts \notin {"", "#"})

\* The first bracketed block, wherever it is: a line with a bracket ahead of
\* the document is taken for the document, and then does not parse.
NoDocument == [form |-> "none", entries |-> <<>>]
extractJSON(out) ==
    IF \E i \in DOMAIN out.lines : out.lines[i].starts \in {"[", "{"}
    THEN [form |-> "broken", entries |-> <<>>]
    ELSE out.doc

Result(item, sev) == [item |-> item.name, sev |-> sev, says |-> item.says]
Rated(items, Sev(_)) == [i \in DOMAIN items |-> Result(items[i], Sev(items[i]))]
Plain(items) == Rated(items, LAMBDA item : "")
AsSaid(items) == Rated(items, LAMBDA item : item.sev)

\* Results of the lines that are kept, in order.
Lines(out, Keep(_), Sev(_)) ==
    FlattenSeq([i \in DOMAIN parseLines(out) |->
        LET l == parseLines(out)[i]
        IN IF Keep(l) THEN Rated(l.items, LAMBDA item : Sev(l)) ELSE <<>>])
JSONLines(out) ==
    FlattenSeq([i \in DOMAIN parseLines(out) |->
        IF parseLines(out)[i].json THEN AsSaid(parseLines(out)[i].items) ELSE <<>>])
EntriesOf(out, form) ==
    IF extractJSON(out).form = form THEN extractJSON(out).entries ELSE <<>>
Has(l, words) == words \cap l.words # {}
Bracketed(l) == l.starts = "[" \/ "bracket" \in l.words

-----------------------------------------------------------------------------
\* theHarvester lists hosts between its heading and the next section.
InHostSection(lines, i) ==
    \E j \in 1..(i - 1) :
        /\ "Hosts found" \in lines[j].words
        /\ \A k \in (j + 1)..i : /\ lines[k].starts \notin {"[", "---"}
                                 /\ "Hosts found" \notin lines[k].words

SubdomainReport(t, out) ==
    LET lines == parseLines(out)
        keep(l) ==
          CASE t = "subfinder" -> (l.json /\ "host" \in l.words) \/ l.starts # "{"
            [] t = "amass" -> \/ l.json /\ "name" \in l.words
                              \/ l.starts # "{" /\ "dot" \in l.words
            [] t \in {"assetfinder", "findomain"} -> TRUE
            [] t \in {"sublist3r", "SubDomainizer"} -> "dot" \in l.words /\ ~Bracketed(l)
            [] t = "subbrute" -> "dot" \in l.words
    IN IF t = "theHarvester"
       THEN FlattenSeq([i \in DOMAIN lines |->
                IF InHostSection(lines, i) /\ "target" \in lines[i].words
                THEN Plain(lines[i].items) ELSE <<>>])
       ELSE Lines(out, keep, LAMBDA l : "")

\* dnsx answers for its first target only; its lines carry several records.
DNSReport(t, out) ==
    CASE t = "dnsx" -> JSONLines(out)
      [] t \in {"dnsrecon", "dnstwist"} -> Plain(EntriesOf(out, "array"))
      [] t = "dnsenum" -> Lines(out, LAMBDA l : "IN" \in l.words, LAMBDA l : "")

\* nmap's XML counts open ports only; masscan's entries keep their status.
NetworkReport(t, out) ==
    CASE t = "nmap" ->
           IF out.doc.form = "xml"
           THEN Plain(Sifted(out.doc.entries, LAMBDA e : "open" \in e.more)) ELSE <<>>
      [] t = "naabu" -> JSONLines(out)
      [] t = "rustscan" -> Lines(out, LAMBDA l : l.starts = "Open " /\ "port" \in l.words,
                                 LAMBDA l : "")
      [] t = "masscan" -> Plain(EntriesOf(out, "array"))

WebReport(t, out) ==
    IF t = "httpx" THEN JSONLines(out)
    ELSE Lines(out, LAMBDA l : l.starts = "http", LAMBDA l : "")

\* A size that is not a number is an error (mutant).
intParseStrict(digits) == [code |-> IF digits THEN 200 ELSE 0, err |-> ~digits]

\* gobuster prints "(Status: 200) [Size: 9]": intParse meets the bracket that
\* is left and answers no number and no error, so the status stays zero.
intParse(digits) == [code |-> IF digits THEN 200 ELSE 0, err |-> FALSE]
ContentReport(t, out) ==
    CASE t \in {"ffuf", "dirsearch"} -> AsSaid(EntriesOf(out, "object"))
      [] t = "feroxbuster" ->
           Lines(out, LAMBDA l : l.json /\ "response" \in l.words, LAMBDA l : "")
      [] t = "gobuster" ->
           Lines(out, LAMBDA l : "(Status:" \in l.words
                                 /\ ~intParse("[Size:" \notin l.words).err, LAMBDA l : "")

\* nikto's findings are all "info"; testssl.sh's that are fine are dropped.
VulnReport(t, out) ==
    CASE t = "nuclei" -> JSONLines(out)
      [] t = "nikto" -> Rated(EntriesOf(out, "object"), LAMBDA e : "info")
      [] t = "testssl.sh" ->
           AsSaid(Sifted(EntriesOf(out, "array"), LAMBDA e : e.sev \notin {"ok", "info"}))

\* wafw00f always answers when it prints no JSON, detected or not.
WAFReport(out) ==
    IF extractJSON(out).form = "none"
    THEN IF \E i \in DOMAIN out.lines : "is behind" \in out.lines[i].words
         THEN Lines(out, LAMBDA l : "is behind" \in l.words, LAMBDA l : "detected")
         ELSE <<[item |-> "none", sev |-> "", says |-> "denied"]>>
    ELSE Rated(EntriesOf(out, "array"),
               LAMBDA e : IF e.says = "found" THEN "detected" ELSE "")

\* smbclient keeps lines that start with a blank: parseLines left none.
SMBReport(t, out) ==
    CASE t = "smbclient" -> Lines(out, LAMBDA l : l.starts \in {" ", "\t"}, LAMBDA l : "")
      [] t = "enum4linux-ng" -> Plain(EntriesOf(out, "object"))
      [] t = "crackmapexec" ->
           Lines(out, LAMBDA l : "SMB" \in l.words /\ Has(l, {"READ", "WRITE", "NO"}),
                 LAMBDA l : "")

OriginReport(t, out) ==
    LET keep(l) == CASE t = "cloudflair" -> Has(l, {"Found origin", "origin IP"})
                     [] t = "hakoriginfinder" -> TRUE
                     [] t = "cloakquest3r" -> Has(l, {"Origin", "IP:"})
    IN Lines(out, LAMBDA l : keep(l) /\ "address" \in l.words, LAMBDA l : "")

\* sqlmap and dalfox; the text of sqlmap counts when its JSON has nothing.
InjectionReport(t, out) ==
    CASE t = "sqlmap" ->
           LET parsed == [i \in DOMAIN JSONLines(out) |->
                            [JSONLines(out)[i] EXCEPT !.sev = "critical"]]
           IN IF parsed # <<>> THEN parsed
              ELSE Lines(out, LAMBDA l : Has(l, {"is vulnerable", "sqlmap identified"}),
                         LAMBDA l : "critical")
      [] t = "dalfox" -> Lines(out, LAMBDA l : l.json,
                               LAMBDA l : IF "reflected" \in l.words THEN "medium" ELSE "high")

\* The other injection tools print text: a marker anywhere in a line counts.
InjectionTextReport(t, out) ==
    CASE t = "xsstrike" ->
           Lines(out, LAMBDA l : "xss" \in l.words /\ Has(l, {"payload", "vulnerable"}),
                 LAMBDA l : "high")
      [] t = "commix" -> Lines(out, LAMBDA l : Has(l, {"vulnerable", "command injection"}),
                               LAMBDA l : "critical")
      [] t = "tplmap" -> Lines(out, LAMBDA l : Has(l, {"vulnerable", "template injection"}),
                               LAMBDA l : "critical")
      [] t = "crlfuzz" -> Lines(out, LAMBDA l : Has(l, {"vulnerable", "[V]"}), LAMBDA l : "medium")

\* "h2c success" is one marker: both words in a line.
SmugglingReport(t, out) ==
    CASE t = "smuggler" -> Lines(out, LAMBDA l : Has(l, {"vulnerable", "issue found"}),
                                 LAMBDA l : "high")
      [] t = "h2csmuggler" -> Lines(out, LAMBDA l : Has(l, {"vulnerable", "h2c success"}),
                                    LAMBDA l : "high")
      [] t = "ssrfmap" -> Lines(out, LAMBDA l : Has(l, {"vulnerable", "[+] ssrf"}),
                                LAMBDA l : "critical")
      [] t = "gopherus" -> Lines(out, LAMBDA l : l.starts = "gopher://" \/ "Payload" \in l.words,
                                 LAMBDA l : "high")

\* whatweb's line has a plugin map; wappalyzer prints an object or an array.
FingerprintReport(t, out) ==
    IF t = "whatweb" THEN JSONLines(out)
    ELSE Plain(EntriesOf(out, "object") \o EntriesOf(out, "array"))

AuthReport(t, out) ==
    CASE t = "jwt_tool" ->
           Lines(out, LAMBDA l : Has(l, {"[+]", "vulnerability", "exploit"}),
                 LAMBDA l : IF Has(l, {"none", "weak", "brute", "crack"})
                            THEN "critical" ELSE "high")
      [] t = "corsy" ->
           Lines(out, LAMBDA l : Has(l, {"vulnerable", "misconfigur", "[+]"}),
                 LAMBDA l : IF "credential" \in l.words THEN "critical" ELSE "high")

\* arjun falls back to its text; paramspider reports the URL itself when it
\* has no query.
ParamReport(t, out) ==
    IF t = "arjun"
    THEN IF EntriesOf(out, "object") # <<>> THEN Plain(EntriesOf(out, "object"))
         ELSE Lines(out, LAMBDA l : "[+]" \in l.words \/ l.starts = "Parameter:", LAMBDA l : "")
    ELSE Lines(out, LAMBDA l : l.starts = "http", LAMBDA l : "")

\* trufflehog's verified secrets and gitleaks' entropic ones are critical.
SecretReport(t, out) ==
    LET sev(item) == IF item.more \cap {"verified", "entropy"} # {} THEN "critical" ELSE "high"
    IN IF t = "gitleaks" THEN Rated(EntriesOf(out, "array"), sev)
       ELSE FlattenSeq([i \in DOMAIN parseLines(out) |->
                IF parseLines(out)[i].json THEN Rated(parseLines(out)[i].items, sev) ELSE <<>>])

\* wpscan: the version, and the vulnerabilities of plugins and themes.
\* droopescan: names in its text when it prints no JSON at all, else the CMS,
\* its plugins and its vulnerabilities.
CMSes == {"drupal", "joomla", "silverstripe", "moodle", "wordpress"}
WPScanReport(out) ==
    Rated(EntriesOf(out, "object"),
          LAMBDA e : CASE "plugin" \in e.more -> "high"
                       [] "theme" \in e.more -> "medium"
                       [] OTHER -> "info")
DroopescanReport(out) ==
    IF extractJSON(out).form = "none" THEN Lines(out, LAMBDA l : Has(l, CMSes), LAMBDA l : "info")
    ELSE Rated(EntriesOf(out, "object"),
               LAMBDA e : IF "vulnerability" \in e.more
                          THEN IF e.sev = "" THEN "medium" ELSE e.sev
                          ELSE "info")

JSReport(t, out) ==
    CASE t = "linkfinder" ->
           Lines(out, LAMBDA l : /\ ~(l.starts = "[" /\ "Analyzing" \in l.words)
                                 /\ l.starts \in {"/", "http"} \/ "api" \in l.words,
                 LAMBDA l : "")
      [] t = "secretfinder" ->
           Lines(out, LAMBDA l : l.starts = "[",
                 LAMBDA l : IF Has(l, {"api_key", "secret", "token"}) THEN "critical" ELSE "high")
      [] t = "retire" -> AsSaid(EntriesOf(out, "array"))
      [] t = "snyk" -> AsSaid(EntriesOf(out, "object"))

\* subjack skips what it calls not vulnerable; subzy prints only what is; the
\* DNS check keeps the names whose CNAME is of a known provider.
TakeoverReport(t, out) ==
    CASE t = "subjack" -> Lines(out, LAMBDA l : l.starts = "[" /\ "[Vulnerable]" \in l.words,
                                LAMBDA l : "high")
      [] t = "subzy" -> Lines(out, LAMBDA l : "[VULN]" \in l.words, LAMBDA l : "high")
      [] t = "nuclei-takeover" -> Lines(out, LAMBDA l : l.json, LAMBDA l : "high")
      [] t = "dns-takeover-check" ->
           Lines(out, LAMBDA l : l.json /\ "provider" \in l.words, LAMBDA l : "medium")

\* A gowitness run is read from its database, else from its output, else from
\* the files whose names match a target; what has no URL cannot be linked.
GowitnessReport(out) ==
    LET printed == Sifted(parseLines(out), LAMBDA l : l.json /\ "url" \in l.words)
        stored == Sifted(out.rows, LAMBDA r : {"url", "file"} \subseteq r.more)
    IN CASE stored # <<>> -> Plain(stored)
         [] stored = <<>> /\ printed # <<>> -> FlattenSeq([i \in DOMAIN printed |->
                                                          Plain(printed[i].items)])
         [] OTHER -> Plain(out.files)
AquatoneReport(out) == Plain(out.files)

\* A cloud CLI is asked for one kind of resource after the other, and each
\* answer is decoded as a whole, an asset per entry: one that does not parse
\* lists nothing. What the failing calls would have listed is missing too; the
\* error is passed on only when nothing was found, and only that of ErrorCalls.
CloudCalls == [aws |-> <<"ec2", "s3", "rds", "elb">>, az |-> <<"vm", "storage">>,
               gcloud |-> <<"compute", "buckets">>]
ErrorCalls == {"ec2", "s3", "vm", "compute"}
CloudAssets(call) == IF call.json THEN Plain(call.items) ELSE <<>>
CloudReport(t, out) ==
    FlattenSeq([i \in DOMAIN CloudCalls[t] |->
        LET call == out.calls[CloudCalls[t][i]]
        IN IF call.ok THEN CloudAssets(call) ELSE <<>>])
CloudFails(t, out) ==
    /\ CloudReport(t, out) = <<>>
    /\ \E i \in DOMAIN CloudCalls[t] : /\ CloudCalls[t][i] \in ErrorCalls
                                       /\ ~out.calls[CloudCalls[t][i]].ok

-----------------------------------------------------------------------------
\* The tools of each category, in the order a workflow prefers them.
workflowToolOrder ==
    [subdomain |-> <<"subfinder", "amass", "assetfinder", "findomain">>,
     dns |-> <<"dnsx", "dnsrecon", "dnsenum", "dnstwist">>,
     network |-> <<"nmap", "naabu", "rustscan", "masscan">>,
     web |-> <<"httpx", "katana", "hakrawler", "gau", "waybackurls">>,
     content |-> <<"ffuf", "feroxbuster", "gobuster", "dirsearch">>,
     vulnerability |-> <<"nuclei", "nikto", "testssl.sh", "wpscan", "droopescan">>,
     waf |-> <<"wafw00f">>,
     smb |-> <<"smbclient", "enum4linux-ng", "crackmapexec">>,
     origin_ip |-> <<"cloudflair", "hakoriginfinder", "cloakquest3r">>,
     injection |-> <<"sqlmap", "dalfox", "xsstrike", "commix", "tplmap", "crlfuzz",
                     "smuggler", "h2csmuggler", "ssrfmap", "gopherus">>,
     secrets |-> <<"trufflehog", "gitleaks">>,
     fingerprint |-> <<"whatweb", "wappalyzer">>,
     js_analysis |-> <<"linkfinder", "secretfinder", "retire", "snyk">>,
     auth |-> <<"jwt_tool", "corsy">>,
     params |-> <<"arjun", "paramspider">>,
     takeover |-> <<"subjack", "subzy", "nuclei-takeover", "dns-takeover-check">>,
     screenshot |-> <<"gowitness", "aquatone">>,
     cloud |-> <<"aws", "az", "gcloud">>]
Members(category) == ToSet(workflowToolOrder[category])
CategoryOf(t) == CHOOSE c \in DOMAIN workflowToolOrder : t \in Members(c)
Extra == {"theHarvester", "sublist3r", "subbrute", "SubDomainizer"}

Report(t, out) ==
    CASE t \in Members("subdomain") \cup Extra -> SubdomainReport(t, out)
      [] t \in Members("dns") -> DNSReport(t, out)
      [] t \in Members("network") -> NetworkReport(t, out)
      [] t \in Members("web") -> WebReport(t, out)
      [] t \in Members("content") -> ContentReport(t, out)
      [] t \in {"nuclei", "nikto", "testssl.sh"} -> VulnReport(t, out)
      [] t = "wpscan" -> WPScanReport(out)
      [] t = "droopescan" -> DroopescanReport(out)
      [] t = "wafw00f" -> WAFReport(out)
      [] t \in Members("smb") -> SMBReport(t, out)
      [] t \in Members("origin_ip") -> OriginReport(t, out)
      [] t \in {"sqlmap", "dalfox"} -> InjectionReport(t, out)
      [] t \in {"xsstrike", "commix", "tplmap", "crlfuzz"} -> InjectionTextReport(t, out)
      [] t \in {"smuggler", "h2csmuggler", "ssrfmap", "gopherus"} -> SmugglingReport(t, out)
      [] t \in Members("secrets") -> SecretReport(t, out)
      [] t \in Members("fingerprint") -> FingerprintReport(t, out)
      [] t \in Members("js_analysis") -> JSReport(t, out)
      [] t \in Members("auth") -> AuthReport(t, out)
      [] t \in Members("params") -> ParamReport(t, out)
      [] t \in Members("takeover") -> TakeoverReport(t, out)
      [] t = "gowitness" -> GowitnessReport(out)
      [] t = "aquatone" -> AquatoneReport(out)
      [] t \in Members("cloud") -> CloudReport(t, out)

\* types.Run refuses arguments outside a fixed set of characters, and the
\* wrappers take no notice: the report is that of an empty output. The
\* wrapper of corsy passes a header with a blank; a target with a query is
\* refused by every tool that gets it as an argument, and so are credentials
\* with other characters, or smbclient's with a domain.
Targetless == {"gopherus", "gowitness", "aquatone", "subjack"} \cup Members("cloud")
ValidateArgs(t, target, creds) ==
    /\ t # "corsy"
    /\ "query" \in target => t \in Targetless
    /\ t \in Members("smb") => "odd" \notin creds /\ ~(t = "smbclient" /\ "domain" \in creds)
CallNames == {"ec2", "s3", "rds", "elb", "vm", "storage", "compute", "buckets"}
Silence == [lines |-> <<>>, doc |-> NoDocument, rows |-> <<>>, files |-> <<>>,
            calls |-> [c \in CallNames |-> [ok |-> FALSE, json |-> TRUE, items |-> <<>>]]]

\* What a run of the binary gives its wrapper. subjack is told to read its
\* names from the standard input, which is empty: they are put in the
\* environment. Output beyond the cap of lines is cut off.
Run(t, target, creds, out, cap) ==
    IF ValidateArgs(t, target, creds) /\ t # "subjack"
    THEN [out EXCEPT !.lines = SubSeq(@, 1, Min({cap, Len(@)}))]
    ELSE Silence
RunTool(t, target, creds, out, cap) == Report(t, Run(t, target, creds, out, cap))

-----------------------------------------------------------------------------
\* What a tool that found x prints, as its flags and the wrappers' comments
\* have it.
Finding(x, more) == [name |-> x, sev |-> "high", says |-> "found", more |-> more]
Text(starts, words, x) ==
    [Silence EXCEPT !.lines = <<[json |-> FALSE, starts |-> starts, words |-> words,
                                 items |-> <<Finding(x, {})>>]>>]
JSONText(words, x) ==
    [Silence EXCEPT !.lines = <<[json |-> TRUE, starts |-> "{", words |-> words,
                                 items |-> <<Finding(x, {})>>]>>]
Document(form, x, more) ==
    [Silence EXCEPT !.doc = [form |-> form, entries |-> <<Finding(x, more)>>]]
Prints(t, x) ==
    CASE t \in {"subfinder", "amass", "dnsx", "naabu", "httpx", "feroxbuster", "nuclei", "sqlmap",
                "dalfox", "trufflehog", "whatweb"} -> JSONText({"host", "name", "response"}, x)
      [] t \in {"dnsrecon", "dnstwist", "masscan", "testssl.sh", "wafw00f", "gitleaks", "retire"} ->
           Document("array", x, {})
      [] t \in {"ffuf", "dirsearch", "nikto", "enum4linux-ng", "wappalyzer", "arjun", "wpscan",
                "droopescan", "snyk"} -> Document("object", x, {"plugin", "vulnerability"})
      [] t = "nmap" -> Document("xml", x, {"open"})
      [] t \in Members("cloud") ->
           [Silence EXCEPT !.calls[CloudCalls[t][2]] = [ok |-> TRUE, json |-> TRUE,
                                                 items |-> <<Finding(x, {})>>]]
      [] t = "gowitness" -> [Silence EXCEPT !.rows = <<Finding(x, {"url", "file"})>>]
      [] t = "aquatone" -> [Silence EXCEPT !.files = <<Finding(x, {})>>]
      [] t \in {"katana", "hakrawler", "gau", "waybackurls", "paramspider", "linkfinder"} ->
           Text("http", {}, x)
      [] t = "rustscan" -> Text("Open ", {"port"}, x)
      [] t = "subjack" -> Text("[", {"[Vulnerable]"}, x)
      [] t = "secretfinder" -> Text("[", {"api_key"}, x)
      [] t = "smbclient" -> Text("share", {"dot"}, x)
      [] OTHER -> Text("text", {"dot", "target", "IN", "(Status:", "[Size:", "SMB", "READ", "address",
                                "Found origin", "Origin", "xss", "payload", "vulnerable", "Payload",
                                "misconfigur", "vulnerability", "[VULN]"}, x)
Told(t, x, target, creds) ==
    \E i \in DOMAIN RunTool(t, target, creds, Prints(t, x), 1) :
        RunTool(t, target, creds, Prints(t, x), 1)[i].item = x

\* Tools whose wrapper counts a line that denies a finding ("not vulnerable"),
\* or that says nothing of the target, and tools that never report at all.
Credulous == {"xsstrike", "commix", "tplmap", "crlfuzz", "smuggler", "h2csmuggler", "ssrfmap",
              "gopherus", "jwt_tool", "corsy", "secretfinder"}
Deaf == {"corsy", "smbclient", "subjack", "nuclei-takeover", "dns-takeover-check"}

\* No wrapper invents: a result rated medium or worse is about something the
\* tool said it found, except from the wrappers that take a denial for it.
ReportsAreTrue(t, target, creds, out) ==
    \A i \in DOMAIN RunTool(t, target, creds, out, 9) :
        LET r == RunTool(t, target, creds, out, 9)[i]
        IN r.sev \in {"medium", "high", "critical", "detected"} =>
              r.says = "found" \/ t \in Credulous

\* What a tool finds is reported, when the target and the credentials pass
\* the validation: by every tool but those of Deaf, and never by those.
ReportsAreHeard(target, creds) ==
    \A t \in UNION {Members(c) : c \in DOMAIN workflowToolOrder} :
        (t \in Deaf \/ ValidateArgs(t, target, creds)) =>
            (Told(t, "x", target, creds) <=> t \notin Deaf)
=============================================================================
