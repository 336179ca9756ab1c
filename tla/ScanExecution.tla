--------------------------- MODULE ScanExecution ---------------------------
(***************************************************************************)
(* What the built-in scans write (modules/dispatcher.go: runNetwork,       *)
(* runPort, runDNS, runWeb, runSubdomain, runFull and the scheduled         *)
(* subdomain job): for each result of a scanner a few rows, each looked up *)
(* by its natural key and then updated or inserted, in two statements      *)
(* without a transaction, while other scans of the same and of other       *)
(* organizations do the same and a user deletes subdomains or settles      *)
(* findings.                                                               *)
(*                                                                         *)
(* A step of a scan is a list of operations made of what its scanner       *)
(* found; ScannerPipeline is how the results reach it, SecurityChecks what *)
(* the checks of a web page report. The order of results that do not touch *)
(* the same rows is fixed. Enrichment of hosts by the intelligence         *)
(* providers is left out.                                                  *)
(***************************************************************************)
EXTENDS SecurityChecks, Sequences, SequencesExt

CONSTANTS
    Scans,          \* the jobs
    Plans,          \* choices of [org, kind, targets] for every job
    Addresses,      \* targets that are IP addresses
    Bare,           \* target -> the target without its scheme and slash
    Unresolvable,   \* targets the network scanner refuses
    Live,           \* target -> addresses that answer
    OpenPorts,      \* pairs <<target, port>>
    Records,        \* domain -> DNS records
    Resolving,      \* domain -> names the subdomain scanner finds
    Chained,        \* domain -> names only the chained sources find
    Sites,          \* <<scheme, target>> -> [page, cert, expiring, techs]
    MaxExpanded,    \* 500 in the code
    MaxUpsets       \* failing statements, cancellations and decisions of users

Tables == {"host", "service", "domain", "dns", "subdomain", "page", "cert", "alert",
           "finding", "tech", "history", "whois", "result"}
LogTables == {"history", "whois", "result"}

\* What one visit of a page by a scan is like: nothing is lost, the token is
\* the scan's and one of the debug patterns of the page is met first.
VisitsBy(s, url) ==
    {[lost |-> {}, missed |-> {}, token |-> s, debug |-> d] : d \in Debugs(Sites[url].page)}

\* A scan has targets, and scanners and checks find finitely many things.
ASSUME ScanExecutionAssumption ==
    /\ MaxExpanded \in Nat \ {0} /\ MaxUpsets \in Nat
    /\ \A p \in Plans : \A s \in Scans :
          /\ p[s].kind \in {"network", "port", "dns", "web", "subdomain", "full", "scheduled"}
          /\ p[s].targets \in Seq(DOMAIN Bare)
    /\ IsFiniteSet(OpenPorts) /\ IsFiniteSet(DOMAIN Sites)
    /\ \A t \in DOMAIN Bare : /\ {Bare[t]} \cup Resolving[t] \cup Chained[t] \subseteq DOMAIN Bare
                               /\ IsFiniteSet(Live[t]) /\ IsFiniteSet(Records[t])
                               /\ IsFiniteSet(Resolving[t]) /\ IsFiniteSet(Chained[t])
    /\ \A url \in DOMAIN Sites :
          /\ IsFiniteSet(Sites[url].techs) /\ IsFiniteSet(Sites[url].page.debug)
          /\ \A s \in Scans : \A v \in VisitsBy(s, url) : IsFiniteSet(Check(Sites[url].page, v))

VARIABLES
    plan,          \* the jobs as they were created
    foreignKeys,   \* the database enforces foreign keys (PostgreSQL; not SQLite)
    db,            \* table -> its rows, in the order they were inserted; of a
                   \* log table, which nothing here reads, the set of them
    scan,          \* what each job is at
    together,      \* organizations two of whose scans ran at once
    upsets

executionVars == <<plan, foreignKeys, db, scan, together, upsets>>

-----------------------------------------------------------------------------
\* Rows. Base.DeletedAt makes every deletion a mark that lookups filter out;
\* models.go declares the FQDN and the fingerprint unique over the table, and
\* the columns of LinkedTables reference the parent's id.
UniqueTables == {"subdomain", "cert"}
LinkedTables == {"service", "dns", "subdomain", "page", "tech"}
NoParent == <<>>
NoRow == 0
Dangling == -1      \* an id no row has

targetsFromPayload(s) == plan[s].targets
normalizeDomain(t) == Bare[t]
Org(s) == plan[s].org
\* A lookup without its organization (mutant).
RowsOfAnyone(table, org, key) ==
    {i \in DOMAIN db[table] : ~db[table][i].gone /\ db[table][i].key = key}

RowsOf(table, org, key) ==
    {i \in DOMAIN db[table] : LET r == db[table][i] IN ~r.gone /\ r.org = org /\ r.key = key}
\* First orders by the id, a random UUID: of several rows it gives any.
FirstOf(ids) == IF ids = {} THEN {NoRow} ELSE ids

\* An operation: what it does, on which row, under which parent (the key of it,
\* where that of the row does not say); how many of
\* the operations after it a failure skips, and a row that is found spares;
\* whether it begins a result, and is done even when the scan is cancelled.
Op(do, table, key, of, skip) ==
    [do |-> do, table |-> table, key |-> key, of |-> of, skip |-> skip, spare |-> 0,
     sev |-> "", first |-> FALSE, sure |-> FALSE]
Upsert(table, key, of, skip) == Op("upsert", table, key, of, skip)
saveResult(s, type, target) == Op("create", "result", <<s, type, target>>, NoParent, 0)
RecordServiceHistory(key) == Op("create", "history", key, NoParent, 0)
First1(ops) == [ops EXCEPT ![1].first = TRUE]
Each(S, Ops(_)) == FlattenSeq([i \in 1..Cardinality(S) |-> Ops(SetToSeq(S)[i])])
Those(seq, Test(_)) ==
    FlattenSeq([i \in DOMAIN seq |-> IF Test(seq[i]) THEN <<seq[i]>> ELSE <<>>])

\* Only a literal address has a host row; the id is zero otherwise.
resolveHostID(t) ==
    IF t \in Addresses THEN <<Upsert("host", t, NoParent, 0)>> ELSE <<>>

runNetwork(s, targets) ==
    IF ToSet(targets) \cap Unresolvable # {} THEN <<>>
    ELSE Each(UNION {Live[t] : t \in ToSet(targets)},
              LAMBDA ip : First1(<<Upsert("host", ip, NoParent, 1),
                                   saveResult(s, "network", ip)>>))

\* The hosts of all targets first; a service keeps its port under its target.
runPort(s, targets) ==
    FlattenSeq([i \in DOMAIN targets |-> resolveHostID(targets[i])])
    \o Each({p \in OpenPorts : p[1] \in ToSet(targets)},
            LAMBDA p : First1(<<Upsert("service", p, NoParent, 2),
                                RecordServiceHistory(p),
                                saveResult(s, "port", p)>>))

runDNS(s, targets) ==
    Each(ToSet(targets),
         LAMBDA t : LET records == Each(Records[t], LAMBDA r :
                                        <<Upsert("dns", r, t, 0)>>)
                    IN First1(<<Upsert("domain", t, NoParent, Len(records) + 1)>>
                              \o records \o <<saveResult(s, "dns", t)>>))

\* The service of a page is looked up, or made up when there is none.
PortOf(url) == IF url[1] = "https" THEN 443 ELSE 80
WebService(url) ==
    LET key == <<url[2], PortOf(url)>>
        make == resolveHostID(url[2])
                \o <<Upsert("service", key, NoParent, 0)>>
    IN <<[Op("find", "service", key, NoParent, 0) EXCEPT !.spare = Len(make)]>> \o make
WebPage(url) == <<Upsert("page", url, NoParent, 0)>>
WebCertificate(site) ==
    IF site.cert = "" THEN <<>>
    ELSE <<Upsert("cert", site.cert, NoParent, 0)>>
         \o IF site.expiring THEN <<Upsert("alert", site.cert, NoParent, 0)>> ELSE <<>>
WebFindings(url, site, visit) ==
    Each(Check(site.page, visit),
         LAMBDA f : <<[Upsert("finding", <<url>> \o Key(f), NoParent, 0) EXCEPT !.sev = f.sev]>>)
WebTechnologies(url, site) ==
    Each(site.techs,
         LAMBDA t : <<Upsert("tech", <<t, url[2], PortOf(url)>>, NoParent, 0)>>)
captureScreenshots == <<[Op("shots", "page", <<>>, NoParent, 0) EXCEPT !.sure = TRUE]>>

runWeb(s, targets, visits) ==
    Each({url \in DOMAIN Sites : url[2] \in ToSet(targets)},
         LAMBDA url : First1(WebService(url) \o WebPage(url) \o WebCertificate(Sites[url])
                             \o WebFindings(url, Sites[url], visits[url])
                             \o WebTechnologies(url, Sites[url])
                             \o <<saveResult(s, "web", url)>>))
    \o captureScreenshots

persistSubdomainResult(s, domain, name) ==
    First1(<<Upsert("subdomain", name, domain, 1),
             saveResult(s, "subdomain", name)>>)
snapWHOIS(domain) == <<Op("create", "whois", domain, NoParent, 0)>>
chainExtraSubdomainSources(s, domain) ==
    Each(Chained[domain], LAMBDA n : persistSubdomainResult(s, domain, n)) \o snapWHOIS(domain)

\* The domain's row is made whether or not the scan is cancelled.
runSubdomain(s, targets) ==
    FlattenSeq([i \in DOMAIN targets |->
        LET domain == normalizeDomain(targets[i])
            found == Each(Resolving[domain], LAMBDA n : persistSubdomainResult(s, domain, n))
                     \o chainExtraSubdomainSources(s, domain)
        IN <<[Upsert("domain", domain, NoParent, Len(found)) EXCEPT !.sure = TRUE]>> \o found])

\* The scheduled job: one domain, no results, no chained sources.
handleSubdomainScan(domain) ==
    LET found == Each(Resolving[domain],
                      LAMBDA n : First1(<<Upsert("subdomain", n, domain, 0)>>))
    IN <<[Upsert("domain", domain, NoParent, Len(found)) EXCEPT !.sure = TRUE]>> \o found

StepsOf(kind) ==
    IF kind = "full" THEN <<"network", "subdomain", "port", "dns", "web">> ELSE <<kind>>
StepOps(s, step, targets, visits) ==
    CASE step = "network"   -> runNetwork(s, targets)
      [] step = "port"      -> runPort(s, targets)
      [] step = "dns"       -> runDNS(s, targets)
      [] step = "web"       -> runWeb(s, targets, visits)
      [] step = "subdomain" -> runSubdomain(s, targets)
      [] step = "scheduled" -> handleSubdomainScan(normalizeDomain(targets[1]))

-----------------------------------------------------------------------------
\* Actions.

\* handleScan: the targets are those of the payload; a scan with none fails.
StartScan(s) ==
    LET others == {x \in Scans \ {s} : scan[x].status = "running" /\ Org(x) = Org(s)}
    IN /\ scan[s].status = "pending"
       /\ scan' = [scan EXCEPT
                      ![s].status = IF targetsFromPayload(s) = <<>> THEN "failed" ELSE "running",
                      ![s].steps = StepsOf(plan[s].kind), ![s].targets = targetsFromPayload(s)]
       /\ together' = together \cup IF others = {} THEN {} ELSE {Org(s)}
       /\ UNCHANGED <<plan, foreignKeys, db, upsets>>

\* expandTargetsWithDiscoveredSubdomains: the targets, one of each domain,
\* and then the names on record under each, the newest first, up to the cap.
Distinct(s) ==
    LET ts == scan[s].targets
    IN FlattenSeq([i \in DOMAIN ts |-> IF \A h \in 1..(i - 1) : Bare[ts[h]] # Bare[ts[i]]
                                       THEN <<ts[i]>> ELSE <<>>])
Roots(s) ==
    LET names == {normalizeDomain(t) : t \in ToSet(scan[s].targets)}
    IN {root \in [names -> DOMAIN db["domain"] \cup {NoRow}] :
           \A n \in names : root[n] \in FirstOf(RowsOf("domain", Org(s), n))}
OnRecord(s, root) ==
    {r.key : r \in {x \in ToSet(db["subdomain"]) :
        /\ x.org = Org(s) /\ ~x.gone /\ x.link # NoRow
        /\ \E n \in DOMAIN root : x.link = root[n]}}
Expansions(s, cap) ==
    LET own == Distinct(s)
        new(root) == OnRecord(s, root) \ {normalizeDomain(t) : t \in ToSet(own)}
        room(root) == Min({IF Len(own) >= cap THEN 0 ELSE cap - Len(own), Cardinality(new(root))})
    IN UNION {{own \o SetToSeq(S) : S \in {X \in SUBSET new(root) : Cardinality(X) = room(root)}} :
                 root \in Roots(s)}
\* The cap taken for one less (mutant).
expandShort(s) == Expansions(s, MaxExpanded - 1)

expandTargetsWithDiscoveredSubdomains(s) == Expansions(s, MaxExpanded)

Visits(s) ==
    {v \in [DOMAIN Sites -> UNION {VisitsBy(s, url) : url \in DOMAIN Sites}] :
        \A url \in DOMAIN Sites : v[url] \in VisitsBy(s, url)}

\* The next step of the scan begins, its scanner has run; after the last, or
\* before one when a full scan was cancelled, the scan is over.
NextStep(s) ==
    /\ scan[s].status = "running" /\ scan[s].todo = <<>> /\ scan[s].step = ""
    /\ IF scan[s].steps = <<>> \/ (plan[s].kind = "full" /\ scan[s].cancelled)
       THEN scan' = [scan EXCEPT ![s].status =
                        IF scan[s].steps = <<>> THEN "completed" ELSE "cancelled"]
       ELSE \E visits \in Visits(s) :
               LET step == Head(scan[s].steps)
               IN scan' = [scan EXCEPT ![s].step = step, ![s].steps = Tail(@), ![s].ids = <<>>,
                             ![s].todo = StepOps(s, step, scan[s].targets, visits)]
    /\ UNCHANGED <<plan, foreignKeys, db, together, upsets>>

EndStep(s) ==
    /\ scan[s].todo = <<>> /\ scan[s].step # ""
    /\ \E targets \in IF plan[s].kind = "full" /\ scan[s].step = "subdomain"
                      THEN expandTargetsWithDiscoveredSubdomains(s) ELSE {scan[s].targets} :
          scan' = [scan EXCEPT ![s].step = "", ![s].targets = targets]
    /\ UNCHANGED <<plan, foreignKeys, db, together, upsets>>

\* A cancellation that interrupts a result between its two statements (mutant).
CutAnywhere(s) ==
    /\ scan[s].cancelled /\ \E i \in DOMAIN scan[s].todo : ~scan[s].todo[i].sure
    /\ scan' = [scan EXCEPT ![s].todo = Those(@, LAMBDA o : o.sure)]
    /\ UNCHANGED <<plan, foreignKeys, db, together, upsets>>

\* Cancelled, the scanner sends no more: the results not yet begun are gone.
CutShort(s) ==
    /\ scan[s].cancelled /\ scan[s].phase = "look" /\ scan[s].todo # <<>>
    /\ Head(scan[s].todo).first \/ Head(scan[s].todo).sure
    /\ \E i \in DOMAIN scan[s].todo : ~scan[s].todo[i].sure
    /\ scan' = [scan EXCEPT ![s].todo = Those(@, LAMBDA o : o.sure)]
    /\ UNCHANGED <<plan, foreignKeys, db, together, upsets>>

Now1(s) == Head(scan[s].todo)
Busy(s, phase) == scan[s].todo # <<>> /\ scan[s].phase = phase
\* The id of the parent that the handler has in hand from an earlier operation.
ParentOf(o) ==
    CASE o.table = "service"              -> <<"host", o.key[1]>>
      [] o.table \in {"dns", "subdomain"} -> <<"domain", o.of>>
      [] o.table = "page"                 -> <<"service", <<o.key[2], PortOf(o.key)>>>>
      [] o.table = "tech"                 -> <<"service", Tail(o.key)>>
      [] o.table = "history"              -> <<"service", o.key>>
      [] OTHER                            -> NoParent
LinkOf(s, o) ==
    IF ParentOf(o) \in DOMAIN scan[s].ids THEN scan[s].ids[ParentOf(o)] ELSE NoRow
NewRow(s, o) == [org |-> Org(s), key |-> o.key, link |-> LinkOf(s, o), sev |-> o.sev,
                 status |-> "open", gone |-> FALSE]
\* What a scan is at after its operation, with the row's id for what follows.
Past(r, skip, id) ==
    LET at == <<Head(r.todo).table, Head(r.todo).key>>
    IN [r EXCEPT !.todo = SubSeq(@, skip + 2, Len(@)), !.phase = "look", !.found = NoRow,
                 !.ids = IF id = NoRow THEN @
                         ELSE [k \in DOMAIN @ \cup {at} |-> IF k = at THEN id ELSE @[k]]]
Onward(s, skip, id) == scan' = [scan EXCEPT ![s] = Past(scan[s], skip, id)]

\* The SELECT of FirstOrCreate, or of the service of a page.
LookUp(s) ==
    LET o == Now1(s)
    IN /\ Busy(s, "look") /\ o.table \notin LogTables /\ o.do # "shots"
       /\ \E found \in IF LinkOf(s, o) = Dangling /\ o.table = "tech" THEN {NoRow}
                        ELSE FirstOf(RowsOf(o.table, Org(s), o.key)) :
             IF o.do = "find" THEN Onward(s, IF found # NoRow THEN o.spare ELSE 0, found)
             ELSE scan' = [scan EXCEPT ![s].phase = "write", ![s].found = found]
       /\ UNCHANGED <<plan, foreignKeys, db, together, upsets>>

\* The unique indexes know nothing of organizations or deletion marks.
Refused(s, o) ==
    \/ o.table \in UniqueTables /\ \E r \in ToSet(db[o.table]) : r.key = o.key
    \/ foreignKeys /\ o.table \in LinkedTables /\ LinkOf(s, o) \in {NoRow, Dangling}

\* A statement that fails is logged; what the handler does next is the
\* operation's. The id of a service that was not created stays in use.
Fails(s) ==
    LET o == Now1(s)
    IN Onward(s, o.skip, IF o.table = "service" /\ scan[s].step = "web" THEN Dangling ELSE NoRow)

\* A finding that is found again is opened again (mutant).
WriteReopens(s) ==
    LET o == Now1(s)
        found == scan[s].found
        row == IF found # NoRow THEN found ELSE Len(db[o.table]) + 1
    IN /\ Busy(s, "write") /\ (found = NoRow => ~Refused(s, o))
       /\ db' = [db EXCEPT ![o.table] = IF found = NoRow THEN Append(@, NewRow(s, o))
                                        ELSE [@ EXCEPT ![found].status = "open"]]
       /\ Onward(s, 0, row)
       /\ UNCHANGED <<plan, foreignKeys, together, upsets>>

\* The INSERT or the UPDATE of FirstOrCreate.
WriteRow(s) ==
    LET o == Now1(s)
        link == LinkOf(s, o)
        found == scan[s].found
    IN /\ Busy(s, "write")
       /\ \/ /\ found # NoRow
             /\ db' = IF o.table = "service" /\ scan[s].step = "port" /\ link # NoRow
                         /\ ~db["service"][found].gone
                      THEN [db EXCEPT !["service"][found].link = link] ELSE db
             /\ Onward(s, 0, found)
          \/ /\ found = NoRow /\ ~Refused(s, o)
             /\ db' = [db EXCEPT ![o.table] = Append(@, NewRow(s, o))]
             /\ Onward(s, 0, Len(db[o.table]) + 1)
          \/ /\ found = NoRow /\ Refused(s, o)
             /\ Fails(s) /\ UNCHANGED db
       /\ UNCHANGED <<plan, foreignKeys, together, upsets>>

\* An INSERT without a lookup; gowitness only updates rows it finds.
CreateRow(s) ==
    LET o == Now1(s)
    IN /\ Busy(s, "look") /\ (o.table \in LogTables \/ o.do = "shots")
       /\ db' = IF o.do = "shots" THEN db ELSE [db EXCEPT ![o.table] = @ \cup {NewRow(s, o)}]
       /\ Onward(s, 0, NoRow)
       /\ UNCHANGED <<plan, foreignKeys, together, upsets>>

Upset == upsets < MaxUpsets /\ upsets' = upsets + 1

\* The database is away for one statement.
Fault(s) ==
    /\ scan[s].todo # <<>> /\ Upset
    /\ Now1(s).do # "shots" /\ (Now1(s).do = "upsert" => scan[s].phase = "write")
    /\ LET id == IF Now1(s).table = "service" /\ scan[s].step = "web" /\ Now1(s).do = "upsert"
                 THEN Dangling ELSE NoRow
       IN scan' = [scan EXCEPT ![s] = [Past(scan[s], Now1(s).skip, id) EXCEPT !.trouble = TRUE]]
    /\ UNCHANGED <<plan, foreignKeys, db, together>>

CancelRun(s) ==
    /\ scan[s].status = "running" /\ ~scan[s].cancelled /\ Upset
    /\ scan' = [scan EXCEPT ![s].cancelled = TRUE]
    /\ UNCHANGED <<plan, foreignKeys, db, together>>

\* A user deletes a subdomain, or calls a finding a false positive.
BulkDeleteSubdomains ==
    \E i \in DOMAIN db["subdomain"] :
       /\ ~db["subdomain"][i].gone /\ Upset
       /\ db' = [db EXCEPT !["subdomain"][i].gone = TRUE]
       /\ UNCHANGED <<plan, foreignKeys, scan, together>>
BulkIgnoreFindings ==
    \E i \in DOMAIN db["finding"] :
       /\ db["finding"][i].status = "open" /\ Upset
       /\ db' = [db EXCEPT !["finding"][i].status = "false_positive"]
       /\ UNCHANGED <<plan, foreignKeys, scan, together>>

NoScan == [status |-> "pending", steps |-> <<>>, step |-> "", targets |-> <<>>, todo |-> <<>>,
           phase |-> "look", found |-> NoRow, ids |-> <<>>, cancelled |-> FALSE,
           trouble |-> FALSE]
ExecutionInit ==
    /\ plan \in Plans /\ foreignKeys \in BOOLEAN
    /\ db = [t \in Tables |-> IF t \in LogTables THEN {} ELSE <<>>]
    /\ scan = [s \in Scans |-> NoScan]
    /\ together = {} /\ upsets = 0
ScanStep(s) ==
    \/ StartScan(s) \/ NextStep(s) \/ EndStep(s) \/ CutShort(s) \/ LookUp(s)
    \/ WriteRow(s) \/ CreateRow(s) \/ Fault(s) \/ CancelRun(s)
ExecutionNext == (\E s \in Scans : ScanStep(s)) \/ BulkDeleteSubdomains \/ BulkIgnoreFindings
ExecutionSpec == ExecutionInit /\ [][ExecutionNext]_executionVars

-----------------------------------------------------------------------------
\* Properties.

ExecutionTypeOK ==
    /\ plan \in Plans /\ foreignKeys \in BOOLEAN /\ upsets \in 0..MaxUpsets
    /\ DOMAIN db = Tables /\ DOMAIN scan = Scans
    /\ \A t \in Tables \ LogTables : \A i \in DOMAIN db[t] :
          db[t][i].link \in Nat \cup {Dangling} /\ db[t][i].gone \in BOOLEAN
    /\ \A s \in Scans : /\ scan[s].status \in {"pending", "running", "completed", "cancelled", "failed"}
                        /\ scan[s].phase \in {"look", "write"}
                        /\ scan[s].phase = "write" => scan[s].todo # <<>>
    /\ together \subseteq {Org(s) : s \in Scans}

\* A natural key has one row that is not deleted, but for the tables without
\* a unique index in organizations two of whose scans ran at once: there both
\* may look, find nothing and insert. A technology whose service could not be
\* stored is not looked up.
NoTwins ==
    \A t \in Tables \ LogTables : \A i, j \in DOMAIN db[t] :
        LET r == db[t][i]
            q == db[t][j]
        IN i = j \/ r.gone \/ q.gone \/ r.org # q.org \/ r.key # q.key
           \/ (t = "tech" /\ Dangling \in {r.link, q.link})
           \/ (t \notin UniqueTables /\ r.org \in together)

\* A row that names a parent names a row of the parent's table, of the same
\* organization and meant for the same target: ids that a handler carries
\* from one statement to a later one are never those of another result.
Parent == [service |-> "host", dns |-> "domain", subdomain |-> "domain", page |-> "service",
           tech |-> "service"]
LinksHold ==
    \A t \in LinkedTables : \A i \in DOMAIN db[t] :
        LET r == db[t][i]
            up == db[Parent[t]]
        IN r.link \notin {NoRow, Dangling} =>
              /\ r.link \in DOMAIN up /\ up[r.link].org = r.org
              /\ t = "service" => up[r.link].key = r.key[1]
              /\ t = "page" => up[r.link].key[1] = r.key[2]
              /\ t = "tech" => up[r.link].key = Tail(r.key)

\* What the results of a scan show is on record: a host, a service or a
\* subdomain that failed to be stored has no result (it may be deleted later).
Asset == [network |-> "host", port |-> "service", subdomain |-> "subdomain", dns |-> "domain"]
ResultsAreBacked ==
    \A r \in db["result"] : r.key[2] \in DOMAIN Asset =>
        \E a \in ToSet(db[Asset[r.key[2]]]) : a.org = r.org /\ a.key = r.key[3]

\* Two rows of one page are two findings of one visit: but for the checks that
\* say something else on every visit and for organizations with overlapping
\* scans, no scan raises again what is on record.
Reported(url, visit) == {<<url>> \o Key(f) : f \in Check(Sites[url].page, visit)}
RaisedOnce ==
    \A i, j \in DOMAIN db["finding"] :
        LET r == db["finding"][i]
            q == db["finding"][j]
            url == r.key[1]
        IN \/ i = j \/ r.org # q.org \/ r.org \in together \/ q.key[1] # url
           \/ {r.key[2], q.key[2]} \cap Restless(Sites[url].page) # {}
           \/ r.key # q.key /\ \E s \in Scans : \E visit \in VisitsBy(s, url) :
                                  {r.key, q.key} \subseteq Reported(url, visit)

\* The rows of scans that run one after the other, or side by side.
RowsAreSound == NoTwins /\ LinksHold /\ ResultsAreBacked /\ RaisedOnce

\* What a user decided of a finding stays, whatever scans find again, and a
\* row once written is never removed.
SettledStays ==
    [][\A t \in Tables \ LogTables : \A i \in DOMAIN db[t] :
          /\ i \in DOMAIN db'[t] /\ db'[t][i].key = db[t][i].key
          /\ db'[t][i].org = db[t][i].org
          /\ db[t][i].status # "open" => db'[t][i].status = db[t][i].status]_executionVars

\* A scan that ended with every statement carried out.
Smooth(s) == scan[s].status = "completed" /\ ~scan[s].trouble /\ ~scan[s].cancelled
Stored(table, org, key) == RowsOf(table, org, key) # {}
Linkable(t) == ~foreignKeys \/ t \in Addresses

FoundNames(s) ==
    IF plan[s].kind \notin {"subdomain", "full", "scheduled"} THEN {}
    ELSE LET domains == IF plan[s].kind = "scheduled"
                        THEN {normalizeDomain(plan[s].targets[1])}
                        ELSE {normalizeDomain(t) : t \in ToSet(plan[s].targets)}
         IN UNION {Resolving[d] \cup IF plan[s].kind = "scheduled" THEN {} ELSE Chained[d] :
                     d \in domains}

\* Every name a scan found is on record under its organization, unless the
\* unique index held it for a deleted row or for another organization.
FoundIsStored ==
    \A s \in Scans : Smooth(s) =>
        \A n \in FoundNames(s) :
            Stored("subdomain", Org(s), n) \/ \E r \in ToSet(db["subdomain"]) :
                                                 r.key = n /\ (r.gone \/ r.org # Org(s))

\* A full scan without failures or company sweeps what is on record: every
\* name it found that is on record under one of its domains is among its
\* targets, up to the cap, and every open port of a target that has a host, or
\* needs none, is on record. A name on record under another domain, which a
\* scan of that one stored first, is not swept.
SweepIsFull ==
    \A s \in Scans : Smooth(s) /\ plan[s].kind = "full" =>
        /\ \A r \in ToSet(db["subdomain"]) :
              /\ r.key \in FoundNames(s) /\ r.org = Org(s) /\ ~r.gone /\ Org(s) \notin together
              /\ \E t \in ToSet(plan[s].targets) :
                    r.link \in RowsOf("domain", Org(s), normalizeDomain(t))
              => \/ \E t \in ToSet(scan[s].targets) : r.key \in {t, normalizeDomain(t)}
                 \/ Len(scan[s].targets) >= MaxExpanded
        /\ \A p \in OpenPorts : p[1] \in ToSet(scan[s].targets) /\ Linkable(p[1]) =>
              Stored("service", Org(s), p)

\* What a scan found is there when it has completed.
ScansAreWhole == FoundIsStored /\ SweepIsFull

=============================================================================
