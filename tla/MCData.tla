-------------------------------- MODULE MCData --------------------------------
(***************************************************************************)
(* The engines over the asset inventory, in one run -- the graph searches, *)
(* the rebuilds and the change detection -- and what stands before them:   *)
(* accounts, and the admission of requests. They share no state in these   *)
(* modules, so a behaviour is one of the five, chosen at the start, while  *)
(* the variables of the others keep the value of an empty system.          *)
(***************************************************************************)
EXTENDS AssetGraph, Rebuild, ChangeDetection, Accounts, Admission, TLC

CONSTANTS n1, n2, n3, n4, p1, p2, p3, d1, d2, k1, k2

VARIABLE part

MCEnds == {<<n1, n2>>}
MCTypes == <<"subdomain", "certificate">>

\* A domain, its production host behind a subdomain, and one thing of every
\* kind a rule of correlation or a factor of a score looks at.
Before ==
    [domains |-> {[id |-> "d", env |-> "production", unit |-> TRUE, owner |-> TRUE,
                   monitored |-> TRUE, tags |-> {"pci"}, registrant |-> "r"],
                  [id |-> "e", env |-> "staging", unit |-> FALSE, owner |-> FALSE,
                   monitored |-> FALSE, tags |-> {}, registrant |-> "r"]},
     subs |-> {[id |-> "s", name |-> <<"s", "d">>, domain |-> "d", ips |-> {"h"},
                alive |-> TRUE, tags |-> {}]},
     hosts |-> {[id |-> "h", env |-> "production", unit |-> TRUE, owner |-> FALSE,
                 monitored |-> TRUE, tags |-> {"crown-jewel"}, asn |-> "as", public |-> TRUE],
                [id |-> "g", env |-> "dev", unit |-> FALSE, owner |-> FALSE,
                 monitored |-> FALSE, tags |-> {"internal"}, asn |-> "as", public |-> FALSE]},
     services |-> {[id |-> "v", host |-> "h", ref |-> "", state |-> "open", riskyPort |-> TRUE],
                   [id |-> "w", host |-> "", ref |-> "s", state |-> "", riskyPort |-> FALSE]},
     certs |-> {[id |-> "c", service |-> "w", sans |-> {<<"s", "d">>, <<"*", "d">>},
                 bad |-> TRUE, expiring |-> TRUE]},
     techs |-> {[id |-> "t", service |-> "v", risky |-> TRUE]},
     pages |-> {[service |-> "w", stored |-> TRUE, headers |-> {"hsts"}]},
     findings |-> {[id |-> "f", host |-> "h", sub |-> "", url |-> "h", sev |-> "critical",
                    status |-> "open", due |-> TRUE, breached |-> TRUE],
                   [id |-> "u", host |-> "", sub |-> "", url |-> "s", sev |-> "high",
                    status |-> "open", due |-> TRUE, breached |-> TRUE]},
     ranges |-> {[id |-> "n", hosts |-> {"h", "g"}]},
     cloud |-> {[id |-> "k", ips |-> {"h"}]}]

\* One host went, one domain went with its registrant, one finding was fixed.
After ==
    [Before EXCEPT !.domains = {d \in @ : d.id # "e"},
                   !.hosts = {h \in @ : h.id # "g"},
                   !.findings = {f \in @ : f.id # "f"} \cup
                      {[f EXCEPT !.status = "fixed"] : f \in {f \in @ : f.id = "f"}}]

MCInventories == {Before, After}
\* Three requests of those that meet in a link, in a second factor or in a session.
Families ==
    {<<"forgot", "reset", "right password", "wrong password">>,
     <<"register", "resend", "verify", "right password">>,
     <<"enable", "code", "disable", "right password">>,
     <<"refresh", "logout", "change", "reset">>}
MCMixes ==
    {[q \in 1..3 |-> f[n[q]]] : f \in Families, n \in {n \in [1..3 -> 1..4] : n[1] <= n[2] /\ n[2] <= n[3]}}

MCAsks == {<<"scan", "discovery", "other", "other">>}
MCOrgs == {[max |-> 1, plan |-> "free"], [max |-> 0, plan |-> "free"]}
MCSymmetry == Permutations({p1, p2})

-----------------------------------------------------------------------------
NoGraph ==
    /\ ask = [kind |-> "widest", rows |-> {}, score |-> [n \in Nodes |-> 0],
              ends |-> <<n1, n2>>, depth |-> 0]
    /\ best = [n \in Nodes |-> -1]
    /\ frontier = <<>> /\ seen = {} /\ answer = {}

NoRebuild ==
    /\ inv = After
    /\ risk = [a \in Assets(After) |-> Unscored]
    /\ trend = {} /\ table = [e \in Derived |-> {}]
    /\ runner = [p \in Runners |-> Idle] /\ worker = "off"
    /\ started = 0 /\ changes = 0 /\ failures = 0
    /\ overlap = {} /\ flawed = {}

NoDetection ==
    /\ source = [t \in TrackedTypes |-> [k \in Keys |-> {}]]
    /\ baseline = [t \in TrackedTypes |-> [k \in Keys |-> Unset]]
    /\ timeline = [t \in TrackedTypes |-> [k \in Keys |-> <<>>]]
    /\ detector = [d \in Detectors |-> Resting]
    /\ scans = 0 /\ alters = 0 /\ errors = 0
    /\ touched = {} /\ excused = {}

NoAccounts ==
    /\ mail = FALSE /\ user = NoUser /\ links = [l \in Makers |-> NoLink] /\ tokens = {}
    /\ revoked = {} /\ call = [r \in Requests |-> "logout"] /\ req = [r \in Requests |-> Waiting]
    /\ lapses = 0 /\ broken = {} /\ stale = {} /\ strikes = 0 /\ effects = [l \in Makers |-> {}]

NoAdmission ==
    /\ clock = 0 /\ times = {} /\ org = [max |-> 1, plan |-> "free"] /\ jobs = {}
    /\ post = [p \in Posts |-> Arriving("other")] /\ faults = 0 /\ crossed = {} /\ outrun = {}

Parts == {"graph", "rebuild", "changes", "accounts", "admission"}

DataInit ==
    /\ part \in Parts
    /\ IF part = "graph" THEN GraphInit ELSE NoGraph
    /\ IF part = "rebuild" THEN RebuildInit ELSE NoRebuild
    /\ IF part = "changes" THEN DetectionInit ELSE NoDetection
    /\ IF part = "accounts" THEN AccountsInit ELSE NoAccounts
    /\ IF part = "admission" THEN AdmissionInit ELSE NoAdmission

DataNext ==
    /\ UNCHANGED part
    /\ IF part = "graph" THEN GraphNext ELSE UNCHANGED graphVars
    /\ IF part = "rebuild" THEN RebuildNext ELSE UNCHANGED rebuildVars
    /\ IF part = "changes" THEN DetectionNext ELSE UNCHANGED detectionVars
    /\ IF part = "accounts" THEN AccountsNext ELSE UNCHANGED accountsVars
    /\ IF part = "admission" THEN AdmissionNext ELSE UNCHANGED admissionVars

DataSpec ==
    DataInit /\ [][DataNext]_<<part, graphVars, rebuildVars, detectionVars, accountsVars, admissionVars>>

DataTypeOK ==
    /\ part \in Parts
    /\ part = "graph" => GraphTypeOK
    /\ part = "rebuild" => RebuildTypeOK
    /\ part = "changes" => DetectionTypeOK
    /\ part = "accounts" => AccountsTypeOK
    /\ part = "admission" => AdmissionTypeOK

\* Rebuild.SoloIsExact and ChangeDetection.NoPhantoms: what a rebuild or a run of the change
\* detection writes is what the data calls for, when nothing else wrote beside it.
EnginesAreExact == SoloIsExact /\ NoPhantoms
=============================================================================
