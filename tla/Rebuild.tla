------------------------------ MODULE Rebuild -------------------------------
(***************************************************************************)
(* The engines that derive tables from the inventory of one organisation:  *)
(* risk scores (riskscore), the relationship graph (correlation), attack   *)
(* paths (attackpath), exposure scores (exposure) and the day's executive  *)
(* snapshot (executive).                                                   *)
(*                                                                         *)
(* Any of them may run at any time and several at once: scans start risk   *)
(* scoring and correlation when they end, cron starts risk scoring and the *)
(* snapshot, a worker starts exposure scoring, and each has a recompute    *)
(* endpoint. None takes a lock and none uses a transaction: a run reads    *)
(* its tables one after the other, deletes the organisation's old rows and *)
(* inserts the new ones, each in a statement of its own. The tables have   *)
(* no unique index, except one snapshot a day.                             *)
(*                                                                         *)
(* Rows of the inventory that no engine writes are read in one step.       *)
(* Clocks are left out (certificates carry their state, the history is     *)
(* never old enough to purge), and labels and evidence texts with them.    *)
(***************************************************************************)
EXTENDS AssetScoring, Sequences, SequencesExt

CONSTANTS
    Inventories,  \* contents the source tables go through
    Runners,      \* requests, jobs and cron entries that may be in an engine
    Worker,       \* the one of them that is the exposure worker's goroutine
    Engines,      \* the engines that may run, a subset of AllEngines
    MaxRuns,      \* bound: runs started
    MaxChanges,   \* bound: changes of the source tables
    MaxFailures   \* bound: failing statements and crashes

AllEngines == {"risk", "relations", "paths", "exposure", "snapshot"}
Derived == {"relations", "paths", "exposure", "snapshot"}

\* The source tables are finite, as tables are.
ASSUME RebuildAssumption ==
    /\ Engines \subseteq AllEngines
    /\ {MaxRuns, MaxChanges, MaxFailures} \subseteq Nat
    /\ Inventories # {} /\ Worker \in Runners
    /\ \A i \in Inventories :
         \A rows \in {i.domains, i.subs, i.hosts, i.services, i.certs, i.techs, i.pages,
                     i.findings, i.ranges, i.cloud} : IsFiniteSet(rows)

VARIABLES
    inv,       \* the source tables
    risk,      \* risk columns of the host, subdomain and domain rows
    trend,     \* asset_risk_history
    table,     \* the derived tables: what each row says and the run it is of
    runner,    \* where each runner is
    worker,    \* the exposure worker: on, stopping or off
    started,   \* runs started so far, and the last one's number
    changes, failures,
    overlap,   \* history: pairs of runs that were on at the same time
    flawed     \* history: runs in which a statement failed or that crashed

rebuildVars == <<inv, risk, trend, table, runner, worker, started, changes, failures,
                 overlap, flawed>>

-----------------------------------------------------------------------------
\* The source tables. A host is known by its IP, a subdomain by its name.

Named(rows) == {r.id : r \in rows}
Row(rows, id) == CHOOSE r \in rows : r.id = id
Assets(i) == Named(i.hosts) \cup Named(i.subs) \cup Named(i.domains)
Open(i) == {f \in i.findings : f.status = "open"}
Parent(i, s) == Row(i.domains, s.domain)

Unscored == [score |-> 0, tier |-> "low", internet |-> FALSE, sensitive |-> FALSE,
             bad |-> 0, expiring |-> 0]

\* The services of an asset: by foreign key for a host, by name otherwise.
ServicesOf(i, id) ==
    {s \in i.services : IF id \in Named(i.hosts) THEN s.host = id ELSE s.ref = id}

\* The findings riskscore counts for an asset: by foreign key, and only when
\* there is none by the host of the URL, a subdomain before a host.
FindingsOf(i, id) ==
    {f \in Open(i) :
        \/ id \in {f.host, f.sub}
        \/ f.host = "" /\ f.sub = "" /\ f.url = id}

\* riskscore Engine.RecomputeOrg: every host and subdomain from what hangs
\* off it, a domain from its riskiest subdomain.
AssetRisk(i, id, env, monitored, tags) ==
    LET f == RiskFactors(ServicesOf(i, id), i.certs, i.pages, FindingsOf(i, id))
        r == RiskScore(f, env, monitored, tags)
    IN [score |-> r.score, tier |-> Tier(r.score), internet |-> r.internet,
        sensitive |-> r.sensitive, bad |-> f.bad, expiring |-> f.expiring]

HostRisk(i, h) == AssetRisk(i, h.id, h.env, h.monitored, h.tags)
SubRisk(i, s) ==
    AssetRisk(i, s.id, Parent(i, s).env, Parent(i, s).monitored /\ s.alive,
              Parent(i, s).tags \cup s.tags)
DomainRisk(i, d) ==
    LET mine == {s \in i.subs : s.domain = d.id}
    IN IF mine = {} THEN Unscored
       ELSE SubRisk(i, CHOOSE s \in mine :
                \A t \in mine : SubRisk(i, t).score <= SubRisk(i, s).score)

RiskOf(i) ==
    [a \in Assets(i) |->
        IF a \in Named(i.hosts) THEN HostRisk(i, Row(i.hosts, a))
        ELSE IF a \in Named(i.subs) THEN SubRisk(i, Row(i.subs, a))
        ELSE DomainRisk(i, Row(i.domains, a))]

RiskTable == [i \in Inventories |-> RiskOf(i)]

-----------------------------------------------------------------------------
\* correlation Engine.RecomputeOrg: the rows of asset_relationships.

Edge(f, t, r) == [from |-> f, to |-> t, rel |-> r]

\* Where a service hangs: its host, else the subdomain of its name, else the
\* host whose IP the name is.
ServiceEnd(i, s) ==
    IF s.host \in Named(i.hosts) THEN {s.host}
    ELSE IF s.ref \in Named(i.subs) THEN {s.ref}
    ELSE {s.ref} \cap Named(i.hosts)

StructureEdges(i) ==
    {Edge(s.domain, s.id, "parent_child") : s \in {s \in i.subs : s.domain \in Named(i.domains)}}
      \cup (UNION {{Edge(s.id, h, "resolves_to") : h \in s.ips \cap Named(i.hosts)} : s \in i.subs})
      \cup (UNION {{Edge(e, s.id, "parent_child") : e \in ServiceEnd(i, s)} : s \in i.services})
      \cup {Edge(c.service, c.id, "parent_child") :
              c \in {c \in i.certs : c.service \in Named(i.services)}}
      \cup {Edge(t.service, t.id, "runs") :
              t \in {t \in i.techs : t.service \in Named(i.services)}}
      \cup {Edge(f.id, f.host, "related_to") : f \in {f \in i.findings : f.host \in Named(i.hosts)}}
      \cup {Edge(f.id, f.sub, "related_to") : f \in {f \in i.findings : f.sub \in Named(i.subs)}}

\* wildcardMatch, on names as sequences of labels: "*" stands for one label.
Covers(san, name) ==
    \/ san = name
    \/ /\ san # <<>> /\ Head(san) = "*"
       /\ Len(name) = Len(san) /\ Tail(name) = Tail(san)

\* A hub for every ASN, one more edge to each of its hosts when they are two,
\* and hubs for registrants two domains share and for certificates with two
\* matches: the code counts pairs of a SAN and a subdomain, so one subdomain
\* that both its name and a wildcard cover is enough.
SharedEdges(i) ==
    LET inASN(h) == {g \in i.hosts : g.asn = h.asn}
        covers(c) == {m \in c.sans \X i.subs : Covers(m[1], m[2].name)}
        registered(d) == {e \in i.domains : e.registrant = d.registrant}
        numbered == {h \in i.hosts : h.asn # ""}
    IN {Edge(h.asn, h.id, "parent_child") : h \in numbered}
         \cup (UNION {{Edge(r.id, h, "parent_child") : h \in r.hosts \cap Named(i.hosts)} :
                        r \in i.ranges})
         \cup {Edge(h.asn, h.id, "shared_asn") : h \in {h \in numbered : Cardinality(inASN(h)) >= 2}}
         \cup (UNION {{Edge(c.id, m[2].id, "cert_san_match") : m \in covers(c)} :
                        c \in {c \in i.certs : Cardinality(covers(c)) >= 2}})
         \cup {Edge(d.registrant, d.id, "shared_registrant") :
                 d \in {d \in i.domains : d.registrant # "" /\ Cardinality(registered(d)) >= 2}}

Edges == [i \in Inventories |-> StructureEdges(i) \cup SharedEdges(i)]

-----------------------------------------------------------------------------
\* attackpath Engine.RecomputeOrg, from the rows it read: a path for every
\* entry and other target that rows connect, by the search of AssetGraph.

\* Chains of rows from a to b that visit no node twice, so that what lies
\* between has two rows at least.
Chains(links, a, b) ==
    LET between == {n \in UNION links : Cardinality({l \in links : n \in l}) >= 2}
        grown(cs) == {p \in cs \X (between \cup {b}) :
                        /\ {Last(p[1]), p[2]} \in links
                        /\ Last(p[1]) # b /\ p[2] \notin ToSet(p[1])}
        upTo[n \in Nat] ==
          IF n = 0 THEN {<<a>>}
          ELSE LET cs == upTo[n-1]
               IN {c \in cs : Last(c) = b} \cup {Append(p[1], p[2]) : p \in grown(cs)}
    IN {c \in upTo[Cardinality(between) + 1] : Last(c) = b}

\* Hubs, services, certificates and findings have no score of their own.
ScoreIn(cols, n) == IF n \in DOMAIN cols THEN cols[n].score ELSE 0

Weakest(cols, c) ==
    LET low == Min({ScoreIn(cols, n) : n \in ToSet(c)})
    IN c[Min({k \in DOMAIN c : ScoreIn(cols, c[k]) = low})]

PathRow(cols, links, from, to) ==
    LET chains == Chains(links, from, to)
        weakness == [c \in chains |-> ScoreIn(cols, Weakest(cols, c))]
        best == Max({weakness[c] : c \in chains})
        widest == CHOOSE c \in chains : weakness[c] = best
    IN IF from = to \/ chains = {} THEN {}
       ELSE {[entry |-> from, target |-> to, weakest |-> Weakest(cols, widest),
              score |-> best]}

AttackPaths(i, cols, rels) ==
    LET links == {{e.from, e.to} : e \in rels}
        ends == (UNION links) \cap (Named(i.hosts) \cup Named(i.subs))
        entries == {n \in ends : \/ cols[n].internet
                                 \/ n \in Named({h \in i.hosts : h.public})}
        targets == {n \in ends : \/ cols[n].sensitive
                                 \/ cols[n].tier \in {"critical", "high"}}
    IN UNION {PathRow(cols, links, p[1], p[2]) : p \in entries \X targets}

-----------------------------------------------------------------------------
\* exposure Engine.RecomputeOrg, from what loadContext read.

Critical(r) == r.sensitive \/ r.tier = "critical"

TechsOn(i, id) == {t \in i.techs : t.service \in Named(ServicesOf(i, id))}

\* The factors of scoreHost, scoreSubdomain and scoreDomain. A subdomain takes
\* its parent's context and any of its IPs; a domain has no findings,
\* technologies or cloud assets of its own.
ExposureOf(i, cols, rels, paths, id) ==
    LET r == cols[id]
        isDomain == id \in Named(i.domains)
        isSub == id \in Named(i.subs)
        row == Row(i.hosts \cup i.subs \cup i.domains, id)
        ctx == IF isSub THEN Parent(i, row) ELSE row
        finds == IF isDomain THEN {} ELSE {f \in Open(i) : id \in {f.host, f.sub}}
        ips == IF isDomain THEN {} ELSE IF isSub THEN row.ips ELSE {id}
        ends == {e \in rels : id \in {e.from, e.to}}
    IN Exposure([risk |-> r.score, internet |-> r.internet, sensitive |-> r.sensitive,
         paths |-> Cardinality({p \in paths : id \in {p.entry, p.target, p.weakest}}),
         critical |-> CountOf("critical", finds), high |-> CountOf("high", finds),
         medium |-> CountOf("medium", finds),
         ctx |-> [env |-> ctx.env, unit |-> ctx.unit, owner |-> ctx.owner],
         bad |-> r.bad, expiring |-> r.expiring,
         techs |-> IF isDomain THEN {} ELSE TechsOn(i, id),
         cloud |-> \E c \in i.cloud : c.ips \cap ips # {},
         rels |-> Cardinality(ends),
         nearCritical |-> \E e \in ends : \E n \in {e.from, e.to} \ {id} :
                             n \in DOMAIN cols /\ Critical(cols[n])])

Exposures(i, cols, rels, paths) ==
    LET score(a) == ExposureOf(i, cols, rels, paths, a)
    IN {[asset |-> a, score |-> score(a), level |-> Level(score(a))] : a \in Assets(i)}

\* executive computeLive and the snapshot of Compute. A count whose query
\* fails is left at zero and the snapshot is written all the same.
Snapshot(i, cols, paths, blind) ==
    LET hosts == Named(i.hosts)
        n == Cardinality(Assets(i)) + Cardinality(i.cloud)
        sum == MapThenSumSet(LAMBDA h : cols[h].score, hosts)
        facing == {h \in hosts : cols[h].internet}
        tracked == {f \in i.findings : f.due /\ f.status # "fixed"}
        breached == {f \in i.findings : f.breached}
        k == [assets |-> n, hosts |-> Cardinality(hosts),
              avgRisk |-> IF hosts = {} THEN 0 ELSE sum \div (Cardinality(hosts) * RiskUnit),
              internet |-> Cardinality(facing),
              criticalPaths |-> Cardinality({p \in paths : p.score >= 75 * RiskUnit}),
              slaTracked |-> Cardinality(tracked), slaBreached |-> Cardinality(breached)]
    IN {[assets |-> IF blind THEN 0 ELSE n, findings |-> Cardinality(Open(i)),
         paths |-> Cardinality(paths),
         exposure |-> IF blind THEN 0 ELSE OrgExposure(k)]}

-----------------------------------------------------------------------------
\* The runs.

Compute(e, seen) ==
    CASE e = "relations" -> Edges[seen.inv]
      [] e = "paths" -> AttackPaths(seen.inv, seen.risk, seen.rels)
      [] e = "exposure" -> Exposures(seen.inv, seen.risk, seen.rels, seen.paths)
      [] e = "snapshot" -> Snapshot(seen.inv, seen.risk, seen.paths, seen.blind)

\* The rows, each with the run it is of.
Of(n, rows) ==
    {[f \in {"run"} \cup DOMAIN r |-> IF f = "run" THEN n ELSE r[f]] : r \in rows}

\* What a run reads after the inventory and the risk columns it comes with.
ReadOrder(e) ==
    CASE e \in {"risk", "relations"} -> <<"assets">>
      [] e = "paths" -> <<"relations", "assets">>
      [] e = "exposure" -> <<"assets", "paths", "relations">>
      [] e = "snapshot" -> <<"assets", "paths">>

Nothing == [inv |-> CHOOSE i \in Inventories : TRUE, risk |-> <<>>, rels |-> {}, paths |-> {}, blind |-> FALSE]
Idle == [eng |-> "none", pc |-> "idle", run |-> 0, reads |-> <<>>, seen |-> Nothing,
         kind |-> 0, todo |-> {}, gone |-> {}, clean |-> TRUE]

Active(p) == runner[p].pc # "idle"
ActiveRuns == {runner[p].run : p \in {p \in Runners : Active(p)}}

\* p goes on as r; a write of p's shows in what the others have yet to read.
Goes(p, r) == runner' = [runner EXCEPT ![p] = r]
Writes(p, r) ==
    runner' = [q \in Runners |-> IF q = p THEN r
                                 ELSE IF Active(q) THEN [runner[q] EXCEPT !.clean = FALSE]
                                 ELSE runner[q]]
At(p, pc) == runner[p].pc = pc
Run(p) == runner[p].run
Eng(p) == runner[p].eng

Starts(p, e) ==
    /\ ~Active(p) /\ started < MaxRuns
    /\ started' = started + 1
    /\ Goes(p, [Idle EXCEPT !.eng = e, !.pc = "read", !.run = started + 1,
                            !.reads = ReadOrder(e)])
    /\ overlap' = overlap \cup {{started + 1, n} : n \in ActiveRuns}
    /\ UNCHANGED <<inv, risk, trend, table, worker, changes, failures, flawed>>

\* A scan that ended, a cron entry, a recompute endpoint.
Begin(p, e) == p # Worker /\ Starts(p, e)

\* The exposure worker's goroutine: a run at once when it starts, one a tick,
\* never two; a select that finds both a tick and the stop takes either.
WorkerTick == worker # "off" /\ Starts(Worker, "exposure")

\* Worker.Stop, at shutdown: close the channel, wait for the goroutine.
WorkerStop ==
    /\ worker = "on" /\ worker' = "stopping"
    /\ UNCHANGED <<inv, risk, trend, table, runner, started, changes, failures, overlap, flawed>>
WorkerExit ==
    /\ worker = "stopping" /\ ~Active(Worker)
    /\ worker' = "off"
    /\ UNCHANGED <<inv, risk, trend, table, runner, started, changes, failures, overlap, flawed>>

KindsOf(i) == <<Named(i.hosts), Named(i.subs), Named(i.domains)>>
Kind(r) == KindsOf(r.seen.inv)[r.kind]

\* One read; after the last one the run computes and starts to write.
Seeing(s, what) ==
    CASE what = "assets" -> [s EXCEPT !.inv = inv, !.risk = risk]
      [] what = "relations" -> [s EXCEPT !.rels = table["relations"]]
      [] what = "paths" -> [s EXCEPT !.paths = table["paths"]]

\* A risk run persists kind after kind, those it read no asset of aside. It
\* knows the rows it read by their ids: an asset that went is gone for it,
\* even if one of the same name comes back.
NextKind(r) ==
    LET left == {k \in (r.kind + 1)..3 : KindsOf(r.seen.inv)[k] # {}}
        next == Min(left)
    IN IF left = {} THEN Idle
       ELSE [r EXCEPT !.kind = next, !.todo = KindsOf(r.seen.inv)[next], !.pc = "update"]

Read(p) ==
    LET r == [runner[p] EXCEPT !.seen = Seeing(@, Head(runner[p].reads)), !.reads = Tail(@),
                             !.gone = {}]
    IN /\ At(p, "read")
       /\ Goes(p, IF r.reads # <<>> THEN r
                  ELSE IF r.eng = "risk" THEN NextKind(r)
                  ELSE [r EXCEPT !.pc = "delete"])
       /\ UNCHANGED <<inv, risk, trend, table, worker, started, changes, failures, overlap, flawed>>

\* The old rows stay (mutant).
KeepOld(p) ==
    /\ At(p, "delete")
    /\ Writes(p, [runner[p] EXCEPT !.pc = "insert"])
    /\ UNCHANGED <<inv, risk, trend, table, worker, started, changes, failures, overlap, flawed>>

Delete(p) ==
    /\ At(p, "delete")
    /\ table' = [table EXCEPT ![Eng(p)] = {}]
    /\ Writes(p, [runner[p] EXCEPT !.pc = "insert"])
    /\ UNCHANGED <<inv, risk, trend, worker, started, changes, failures, overlap, flawed>>

\* CreateInBatches is one transaction. A second snapshot of the day violates
\* the unique index and its run returns the error.
Insert(p) ==
    LET new == Of(Run(p), Compute(Eng(p), runner[p].seen))
        refused == Eng(p) = "snapshot" /\ table["snapshot"] # {}
    IN /\ At(p, "insert")
       /\ table' = [table EXCEPT ![Eng(p)] = IF refused THEN @ ELSE @ \cup new]
       /\ flawed' = IF refused THEN flawed \cup {Run(p)} ELSE flawed
       /\ Writes(p, Idle)
       /\ UNCHANGED <<inv, risk, trend, worker, started, changes, failures, overlap>>

\* riskscore persist: one UPDATE per asset, which changes nothing when the
\* asset is gone and is only logged when it fails, then the history of the
\* kind in one statement.
UpdateAsset(p) ==
    /\ At(p, "update")
    /\ \E a \in runner[p].todo, ok \in BOOLEAN :
         /\ ok \/ failures < MaxFailures
         /\ failures' = IF ok THEN failures ELSE failures + 1
         /\ flawed' = IF ok THEN flawed ELSE flawed \cup {Run(p)}
         /\ risk' = IF ok /\ a \in DOMAIN risk \ runner[p].gone
                    THEN [risk EXCEPT ![a] = RiskTable[runner[p].seen.inv][a]] ELSE risk
         /\ Writes(p, [runner[p] EXCEPT !.todo = @ \ {a},
                         !.pc = IF runner[p].todo = {a} THEN "trend" ELSE "update"])
    /\ UNCHANGED <<inv, trend, table, worker, started, changes, overlap>>

AppendTrend(p) ==
    LET r == runner[p]
        new == {[asset |-> a, run |-> r.run, score |-> RiskTable[r.seen.inv][a].score] :
                  a \in Kind(r)}
    IN /\ At(p, "trend")
       /\ \E ok \in BOOLEAN :
            /\ ok \/ failures < MaxFailures
            /\ failures' = IF ok THEN failures ELSE failures + 1
            /\ flawed' = IF ok THEN flawed ELSE flawed \cup {r.run}
            /\ trend' = IF ok THEN trend \cup {h \in new : h.asset \in Assets(inv) \ r.gone}
                         ELSE trend
       /\ Goes(p, NextKind(r))
       /\ UNCHANGED <<inv, risk, table, worker, started, changes, overlap>>

\* A statement fails and the run returns the error.
Fail(p) ==
    /\ failures < MaxFailures
    /\ runner[p].pc \in {"read", "delete", "insert"}
    /\ Eng(p) # "snapshot" \/ At(p, "insert")
    /\ failures' = failures + 1
    /\ flawed' = flawed \cup {Run(p)}
    /\ Goes(p, Idle)
    /\ UNCHANGED <<inv, risk, trend, table, worker, started, changes, overlap>>

\* The snapshot looks at no error before its insert: a count that failed
\* stays zero, and rows whose delete failed stay.
FailUnseen(p) ==
    LET r == runner[p]
        last == Len(r.reads) = 1
        zero == IF Head(r.reads) = "assets" THEN [Seeing(r.seen, "assets") EXCEPT !.blind = TRUE]
                ELSE r.seen
    IN /\ failures < MaxFailures
       /\ Eng(p) = "snapshot" /\ r.pc \in {"read", "delete"}
       /\ failures' = failures + 1
       /\ flawed' = flawed \cup {Run(p)}
       /\ Goes(p, IF r.pc = "delete" THEN [r EXCEPT !.pc = "insert"]
                  ELSE [r EXCEPT !.seen = zero, !.reads = Tail(@),
                                 !.pc = IF last THEN "delete" ELSE "read"])
       /\ UNCHANGED <<inv, risk, trend, table, worker, started, changes, overlap>>

Crash ==
    /\ failures < MaxFailures /\ ActiveRuns # {}
    /\ failures' = failures + 1
    /\ flawed' = flawed \cup ActiveRuns
    /\ runner' = [p \in Runners |-> Idle]
    /\ worker' = "on"
    /\ UNCHANGED <<inv, risk, trend, table, started, changes, overlap>>

\* A scan or a user changes the source tables. An asset that is deleted takes
\* its history along here: one of the same name would be another row.
Change ==
    /\ changes < MaxChanges
    /\ changes' = changes + 1
    /\ inv' \in Inventories \ {inv}
    /\ risk' = [a \in Assets(inv') |-> IF a \in DOMAIN risk THEN risk[a] ELSE Unscored]
    /\ trend' = {h \in trend : h.asset \in Assets(inv')}
    /\ runner' = [p \in Runners |->
                    IF Active(p)
                    THEN [runner[p] EXCEPT !.clean = FALSE,
                             !.gone = @ \cup (Assets(inv) \ Assets(inv'))]
                    ELSE runner[p]]
    /\ UNCHANGED <<table, worker, started, failures, overlap, flawed>>

\* Either nothing was derived yet, or every engine ran once, in the order
\* in which each reads what the ones before it wrote; those rows are run 0's.
Settled(i) ==
    LET r == RiskTable[i]
        s1 == [Nothing EXCEPT !.inv = i, !.risk = r, !.rels = Edges[i]]
        s2 == [s1 EXCEPT !.paths = AttackPaths(i, r, Edges[i])]
    IN [e \in Derived |-> Of(0, Compute(e, s2))]

RebuildInit ==
    /\ inv \in Inventories
    /\ \/ /\ risk = [a \in Assets(inv) |-> Unscored]
          /\ trend = {}
          /\ table = [e \in Derived |-> {}]
       \/ /\ risk = RiskTable[inv]
          /\ trend = {[asset |-> a, run |-> 0, score |-> RiskTable[inv][a].score] : a \in Assets(inv)}
          /\ table = Settled(inv)
    /\ runner = [p \in Runners |-> Idle]
    /\ worker = "on"
    /\ started = 0 /\ changes = 0 /\ failures = 0
    /\ overlap = {} /\ flawed = {}

RebuildNext ==
    \/ Crash \/ Change \/ WorkerTick \/ WorkerStop \/ WorkerExit
    \/ \E p \in Runners :
         \/ \E e \in Engines : Begin(p, e)
         \/ Read(p) \/ Delete(p) \/ Insert(p) \/ UpdateAsset(p) \/ AppendTrend(p)
         \/ Fail(p) \/ FailUnseen(p)

RebuildSpec == RebuildInit /\ [][RebuildNext]_rebuildVars

-----------------------------------------------------------------------------
RunnerTypes ==
    [eng : AllEngines \cup {"none"}, pc : {"idle", "read", "delete", "insert", "update", "trend"},
     run : 0..MaxRuns, kind : 0..3, clean : BOOLEAN]

RebuildTypeOK ==
    /\ inv \in Inventories
    /\ DOMAIN risk = Assets(inv)
    /\ \A a \in DOMAIN risk : risk[a].score \in 0..MaxRisk
    /\ DOMAIN table = Derived
    /\ \A r \in table["exposure"] : r.score \in 0..(100 * ExposureUnit)
    /\ \A r \in table["snapshot"] : r.exposure \in 0..MaxOrg
    /\ \A p \in Runners :
         [f \in DOMAIN runner[p] \ {"reads", "seen", "todo", "gone"} |-> runner[p][f]]
           \in RunnerTypes
    /\ worker \in {"on", "stopping", "off"}
    /\ started \in 0..MaxRuns /\ changes \in 0..MaxChanges /\ failures \in 0..MaxFailures
    /\ flawed \subseteq 1..MaxRuns

\* A derived table mixes the rows of two runs, so that the same edge, path or
\* score is there twice, only when those runs overlapped. One run after the
\* other leaves one generation, whatever failed or crashed in between.
OneGeneration ==
    \A e \in Derived : \A r, s \in table[e] : r.run # s.run => {r.run, s.run} \in overlap

\* The scores shown on the assets are those the trend ends with, when no
\* scoring runs, unless the trend's last run for the asset or a later one
\* was cut short, failed to store something, or ran beside another.
Entries(a) == {h \in trend : h.asset = a}
LastRun(a) == Max({0} \cup {h.run : h \in Entries(a)})
Excused(n) == \E m \in n..MaxRuns : m \in flawed \/ \E o \in overlap : m \in o
Shown(a) ==
    \/ LastRun(a) = 0 /\ risk[a] = Unscored
    \/ \E h \in Entries(a) : h.run = LastRun(a) /\ h.score = risk[a].score
TrendMatches ==
    (\A p \in Runners : Eng(p) # "risk")
      => \A a \in DOMAIN risk : Excused(LastRun(a)) \/ Shown(a)

\* What the rebuilds leave behind agrees with itself.
RebuildsAreWhole == OneGeneration /\ TrendMatches

\* A run that nothing else writes beside and in which no statement fails
\* leaves its table, or the risk columns and the trend, exactly as computed
\* from what is stored when it ends: nothing old stays and nothing is lost.
Now == [inv |-> inv', risk |-> risk', rels |-> table'["relations"],
        paths |-> table'["paths"], blind |-> FALSE]
Exact(e, n) ==
    IF e = "risk"
    THEN /\ risk' = RiskTable[inv']
         /\ \A a \in DOMAIN risk' :
              [asset |-> a, run |-> n, score |-> risk'[a].score] \in trend'
    ELSE table'[e] = Of(n, Compute(e, Now))

SoloIsExact ==
    [][\A p \in Runners :
         (Active(p) /\ ~Active(p)' /\ runner[p].clean /\ Run(p) \notin flawed')
            => Exact(Eng(p), Run(p))]_rebuildVars
=============================================================================
