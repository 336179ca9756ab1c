---------------------------- MODULE ToolWorkflow ----------------------------
(***************************************************************************)
(* The workflows of external tools: the registry of tools with its rate    *)
(* limiters (toolrunner/types, registry.go, dbsync.go, healthjob.go), the  *)
(* engine that runs a workflow stage by stage (workflows.go) and the stage *)
(* functions that execute one tool and store what it reports               *)
(* (workflow_dispatcher.go). What a tool makes of its output is in         *)
(* ToolReports.                                                            *)
(*                                                                         *)
(* A limiter is a sequence of generations: changing the limits puts a new  *)
(* limiter in the place of the old one, whose slots may still be held.     *)
(***************************************************************************)
EXTENDS ToolReports

CONSTANTS Jobs,        \* the scans that run a workflow
          WorkflowOrders,  \* what they are asked: functions from Jobs to orders
          Tools,       \* the tools that may be on this box
          OnDisk,      \* those that are when the server starts: sets of tools
          Prior,       \* tool_registry as an earlier start of the server left it
          Limits,      \* what an administrator may set as limits
          MaxChanges,  \* changes of the registry, of the disk, and restarts
          MaxFailures  \* database writes that fail

VARIABLES tool,        \* the registry: status and enabled of each tool
          limiter,     \* the generations of its limiter
          disk,        \* the tools whose binary is there
          kept,        \* tool_registry: the row of each tool
          alerts,      \* tools an alert was raised for, in order
          check,       \* the pass over all tools: startup, or the health job
          order,       \* what each job was asked
          run,         \* where each workflow stands
          outcomes,    \* tool_run_results of each job
          stored,      \* hosts, services, technologies, takeovers, assets
          changes, failures

registryVars == <<tool, limiter, disk, kept, alerts, check>>
jobVars == <<order, run, outcomes, stored>>
workflowVars == <<registryVars, jobVars, changes, failures>>

-----------------------------------------------------------------------------
workflowStages ==
    [external_asm |-> <<"subdomain", "dns", "network", "web", "web", "content", "vulnerability">>,
     bug_bounty |-> <<"subdomain", "dns", "web", "web", "fingerprint", "params", "content",
                      "vulnerability">>,
     internal_assessment |-> <<"network", "smb", "vulnerability">>,
     dns_assessment |-> <<"dns">>,
     web_assessment |-> <<"web", "content", "vulnerability">>,
     web_full |-> <<"web", "web", "content", "fingerprint", "params", "injection",
                    "vulnerability", "js_analysis">>,
     api_audit |-> <<"content", "params", "auth", "injection", "vulnerability">>,
     js_recon |-> <<"js_analysis">>,
     cms_detect |-> <<"fingerprint", "vulnerability">>,
     injection_suite |-> <<"injection">>,
     git_secrets |-> <<"secrets">>,
     takeover_scan |-> <<"subdomain", "dns", "takeover">>,
     nuclei_full_scan |-> <<"web", "fingerprint", "vulnerability">>,
     screenshot |-> <<"web", "screenshot">>,
     cloud_enum |-> <<"cloud">>]
RunAll(workflow, category) ==
    <<workflow, category>> \in {<<"injection_suite", "injection">>, <<"takeover_scan", "takeover">>}

\* What RegisterAll registers: two checks of the takeover stage are not there.
Registered == ((UNION {Members(c) : c \in DOMAIN workflowToolOrder}) \cup Extra)
                 \ {"nuclei-takeover", "dns-takeover-check"}
Limit(cap, spaced) == [cap |-> cap, spaced |-> spaced, held |-> 0, resting |-> FALSE]
\* A limit of less than one is no limit, so what is asked for as one is a cap of 0; and
\* ValidateWorkflow refuses the workflows that are not known.
ASSUME ToolsAssumption ==
    /\ IsFiniteSet(Jobs)
    /\ \A asked \in WorkflowOrders : \A j \in Jobs : asked[j].workflow \in DOMAIN workflowStages
    /\ Tools \subseteq Registered /\ OnDisk \subseteq SUBSET Tools
    /\ Limits \subseteq [cap : Nat, spaced : BOOLEAN, held : {0}, resting : {FALSE}]
    /\ {MaxChanges, MaxFailures} \subseteq Nat

Default(t) == CASE t \in {"gau", "waybackurls"} -> Limit(2, FALSE)
                [] t \in {"smbclient", "enum4linux-ng"} -> Limit(3, FALSE)
                [] t \in {"crackmapexec", "sqlmap", "commix"} -> Limit(1, TRUE)
                [] OTHER -> Limit(0, FALSE)
RegisterAll(present) ==
    /\ tool' = [t \in Tools |-> [found |-> t \in present,
                                 enabled |-> t \notin {"SubDomainizer", "crackmapexec", "snyk"}]]
    /\ limiter' = [t \in Tools |-> <<Default(t)>>]

Ready(t) == t \in Tools /\ tool[t].found /\ tool[t].enabled
Newest(t) == Len(limiter[t])

\* A pass over all tools is at rest, or has its todo of tools to verify. A map
\* of tools is gone through in any order, and one order stands for all: what
\* is found of a tool is its own affair.
NextOf(ts) == CHOOSE t \in ts : TRUE
Listed(ts) == FoldSet(LAMBDA t, s : Append(s, t), <<>>, ts)
NoCheck == [kind |-> "none", todo |-> {}, before |-> {}]
StartupCheck == [kind |-> "startup", todo |-> Tools, before |-> {}]
Change == changes < MaxChanges /\ changes' = changes + 1
OnlyRegistry(unchanged) == UNCHANGED <<jobVars, failures, unchanged>>

\* What a tool may print: what it finds, a CMS where it fingerprints, nothing.
Outputs(t) ==
    {Silence, Prints(t, "x")} \cup
    (IF t \in Members("fingerprint") THEN {Prints(t, "wordpress"), Prints(t, "drupal")} ELSE {})

NotRun == [pc |-> "idle", stages |-> <<>>, todo |-> <<>>, wants |-> 0, holds |-> <<>>,
         results |-> <<>>, err |-> FALSE, log |-> <<>>]
ToolRow(t, results, err) ==
    [tool |-> t, items |-> ToSet([i \in DOMAIN results |-> results[i].item]),
     status |-> IF err THEN "error" ELSE "ok"]

\* The pass at startup has some of the tools left to verify, or is over.
WorkflowInit ==
    /\ order \in WorkflowOrders
    /\ \E present \in OnDisk :
          /\ disk = present
          /\ tool = [t \in Tools |-> [found |-> t \in present,
                         enabled |-> t \notin {"SubDomainizer", "crackmapexec", "snyk"}]]
    /\ limiter = [t \in Tools |-> <<Default(t)>>]
    /\ kept = Prior
    /\ alerts = <<>>
    /\ check \in {NoCheck} \cup [kind : {"startup"}, todo : SUBSET Tools, before : {{}}]
    /\ run = [j \in Jobs |-> NotRun]
    /\ outcomes = [j \in Jobs |-> <<>>] /\ stored = {}
    /\ changes = 0 /\ failures = 0

-----------------------------------------------------------------------------
\* The registry.

\* Registry.SetEnabled: POST /tools/:name/enable and /disable.
SetEnabled(t, b) ==
    /\ Change
    /\ tool[t].enabled # b
    /\ tool' = [tool EXCEPT ![t].enabled = b]
    /\ OnlyRegistry(<<limiter, disk, kept, alerts, check>>)

\* Registry.SetRateLimits: a new limiter, with no slot taken.
SetRateLimits(t, limit) ==
    /\ Change
    /\ limiter' = [limiter EXCEPT ![t] = Append(@, limit)]
    /\ OnlyRegistry(<<tool, disk, kept, alerts, check>>)

\* A binary is installed or removed; the registry does not know yet.
DiskChange(t) ==
    /\ Change
    /\ disk' = IF t \in disk THEN disk \ {t} ELSE disk \cup {t}
    /\ OnlyRegistry(<<tool, limiter, kept, alerts, check>>)

\* Registry.Verify: of one tool by an administrator, or of the next one of a
\* pass over all of them (VerifyAll locks the registry for one at a time).
Verify(t) ==
    /\ tool' = [tool EXCEPT ![t].found = t \in disk]
    /\ \/ Change /\ tool[t].found # (t \in disk) /\ UNCHANGED check
       \/ /\ check.todo # {} /\ t = NextOf(check.todo)
          /\ check' = [check EXCEPT !.todo = @ \ {t}] /\ UNCHANGED changes
    /\ OnlyRegistry(<<limiter, disk, kept, alerts>>)

\* PersistRegistryToDB: the upsert leaves the enabled column of a row alone.
Persist(fails) ==
    kept' = IF fails THEN kept
            ELSE [t \in Tools |-> [row |-> TRUE, found |-> tool[t].found,
                                   enabled |-> IF kept[t].row THEN kept[t].enabled
                                               ELSE tool[t].enabled]]

\* The end of the pass at startup: persist, then load the enabled overrides.
StartupPersist ==
    /\ check.kind = "startup" /\ check.todo = {}
    /\ \E fails \in BOOLEAN :
          /\ failures + (IF fails THEN 1 ELSE 0) <= MaxFailures
          /\ failures' = failures + (IF fails THEN 1 ELSE 0)
          /\ Persist(fails)
    /\ check' = [check EXCEPT !.kind = "sync"]
    /\ UNCHANGED <<jobVars, changes, tool, limiter, disk, alerts>>
SyncRegistryFromDB ==
    /\ check.kind = "sync"
    /\ tool' = [t \in Tools |-> IF kept[t].row THEN [tool[t] EXCEPT !.enabled = kept[t].enabled]
                                ELSE tool[t]]
    /\ check' = NoCheck
    /\ UNCHANGED changes /\ OnlyRegistry(<<limiter, disk, kept, alerts>>)

\* The health job, once a day: it remembers what was installed, verifies all,
\* raises an alert for each tool that went missing, and persists only then.
HealthStart ==
    /\ check.kind = "none"
    /\ Change
    /\ check' = [kind |-> "health", todo |-> Tools, before |-> {t \in Tools : tool[t].found}]
    /\ OnlyRegistry(<<tool, limiter, disk, kept, alerts>>)
HealthEnd ==
    /\ check.kind = "health" /\ check.todo = {}
    /\ LET missing == Listed({t \in check.before : ~tool[t].found})
       IN /\ alerts' = alerts \o missing
          /\ IF missing = <<>> THEN UNCHANGED kept ELSE Persist(FALSE)
    /\ check' = NoCheck
    /\ UNCHANGED changes /\ OnlyRegistry(<<tool, limiter, disk>>)

\* The server stops, at a moment no job runs a tool, and starts again.
Restart ==
    /\ \A j \in Jobs : run[j].pc \in {"idle", "done"}
    /\ Change
    /\ RegisterAll(disk)
    /\ check' = StartupCheck
    /\ OnlyRegistry(<<disk, kept, alerts>>)

-----------------------------------------------------------------------------
\* A workflow of job j. Only its own run, its rows and what it stores change,
\* and the limiter of the tool it runs.

OnlyRun == UNCHANGED <<tool, limiter, disk, kept, alerts, check, order, outcomes, stored,
                       changes, failures>>
Current(j) == Head(run[j].todo)
NoTool == "none"
Skipped(category) == [stage |-> category, tool |-> NoTool, status |-> "skipped"]

\* RunWorkflowForScan.
RunWorkflow(j) ==
    /\ run[j].pc = "idle"
    /\ run' = [run EXCEPT ![j].pc = "stage", ![j].stages = workflowStages[order[j].workflow]]
    /\ OnlyRun

\* The tools of a list that are installed and enabled, in its order.
InstalledTools(names) ==
    LET upTo[i \in 0..Len(names)] ==
            IF i = 0 THEN <<>>
            ELSE IF Ready(names[i]) THEN Append(upTo[i - 1], names[i]) ELSE upTo[i - 1]
    IN upTo[Len(names)]

\* WorkflowEngine.Run, the head of its loop: the tools of the next category.
NextStage(j) ==
    /\ run[j].pc = "stage"
    /\ IF run[j].stages = <<>> THEN run' = [run EXCEPT ![j].pc = "done"]
       ELSE LET category == Head(run[j].stages)
                ready == InstalledTools(workflowToolOrder[category])
                chosen == IF RunAll(order[j].workflow, category) THEN ready
                          ELSE SubSeq(ready, 1, 1)
            IN run' = IF ready = <<>>
                      THEN [run EXCEPT ![j].stages = Tail(@),
                                       ![j].log = Append(@, Skipped(category))]
                      ELSE [run EXCEPT ![j].pc = "tool", ![j].todo = chosen,
                                       ![j].stages = Tail(@)]
    /\ OnlyRun

\* The stage function of a tool, before it asks for a slot. snyk wants a local
\* path, the secret scanners a repository (any target, in git_secrets), the
\* CMS scanners a CMS in what this scan's fingerprinting left.
Detected(j, names) ==
    \E i \in DOMAIN outcomes[j] :
        /\ CategoryOf(outcomes[j][i].tool) = "fingerprint"
        /\ outcomes[j][i].items # {}
        /\ names \cap (outcomes[j][i].items \cup order[j].target) # {}
Unsuited(j, t) ==
    CASE t = "snyk" -> "path" \notin order[j].target
      [] t \in Members("secrets") -> /\ order[j].workflow # "git_secrets"
                                     /\ order[j].target \cap {"path", "repository"} = {}
      [] t = "wpscan" -> ~Detected(j, {"wordpress"})
      [] t = "droopescan" -> ~Detected(j, CMSes)
      [] OTHER -> FALSE
\* A tool that does not suit the target is looked at again (mutant).
NextToolAgain(j) ==
    /\ run[j].pc = "tool"
    /\ run' = IF run[j].todo = <<>> THEN [run EXCEPT ![j].pc = "stage"]
              ELSE IF Unsuited(j, Current(j)) THEN run
              ELSE [run EXCEPT ![j].pc = "wait", ![j].wants = Newest(Current(j))]
    /\ OnlyRun

NextTool(j) ==
    /\ run[j].pc = "tool"
    /\ run' = IF run[j].todo = <<>> THEN [run EXCEPT ![j].pc = "stage"]
              ELSE IF Unsuited(j, Current(j))
              THEN [run EXCEPT ![j].pc = "row", ![j].results = <<>>, ![j].err = FALSE]
              ELSE [run EXCEPT ![j].pc = "wait", ![j].wants = Newest(Current(j))]
    /\ OnlyRun

\* toolRateLimiter.acquire: a slot of the limiter that was there when Acquire
\* was called, then the rest since its last release.
HasRoom(l) == l.cap = 0 \/ l.held < l.cap
AcquireSlot(j) ==
    /\ run[j].pc = "wait"
    /\ HasRoom(limiter[Current(j)][run[j].wants])
    /\ limiter' = [limiter EXCEPT ![Current(j)][run[j].wants].held = @ + 1]
    /\ run' = [run EXCEPT ![j].pc = "space", ![j].holds = Append(@, run[j].wants)]
    /\ UNCHANGED <<tool, disk, kept, alerts, check, order, outcomes, stored, changes, failures>>

\* jwt_tool without a stored token is skipped here, with the slot held.
PassSpacing(j) ==
    /\ run[j].pc = "space"
    /\ ~limiter[Current(j)][run[j].wants].resting
    /\ run' = [run EXCEPT ![j].pc =
          CASE Current(j) = "jwt_tool" /\ ~order[j].token -> "row"
            [] Len(run[j].holds) = 2 -> "exec"
            [] OTHER -> "check", ![j].results = <<>>, ![j].err = FALSE]
    /\ OnlyRun

\* Ports, screenshots and cloud assets are stored before the row of results,
\* technologies and takeovers after it.
EarlyButPorts(t) == CategoryOf(t) \in {"screenshot", "cloud"}   \* (mutant)
Early(t) == CategoryOf(t) \in {"network", "screenshot", "cloud"}
Late(t) == CategoryOf(t) \in {"fingerprint", "takeover"}
AfterRun(t) == IF Early(t) THEN "save" ELSE "row"

\* The wrapper looks the tool up again; those of sqlmap and commix ask for a
\* slot of their own.
CheckTool(j) ==
    /\ run[j].pc = "check"
    /\ run' = CASE ~Ready(Current(j)) -> [run EXCEPT ![j].pc = AfterRun(Current(j)), ![j].err = TRUE]
                [] Ready(Current(j)) /\ Current(j) \in {"sqlmap", "commix"} ->
                     [run EXCEPT ![j].pc = "wait", ![j].wants = Newest(Current(j))]
                [] OTHER -> [run EXCEPT ![j].pc = "exec"]
    /\ OnlyRun

\* Giving a slot back: the rest starts.
Freed(l) == [l EXCEPT !.held = @ - 1, !.resting = l.spaced]

\* The binary runs, or is not there any more. A slot the wrapper took is given
\* back.
RunBinary(j) ==
    /\ run[j].pc = "exec"
    /\ LET t == Current(j) IN
       /\ \E out \in IF t \in disk THEN Outputs(t) ELSE {Silence} :
             LET got == Run(t, order[j].target, order[j].creds, out, 9)
             IN run' = [run EXCEPT ![j].pc = AfterRun(t), ![j].holds = SubSeq(@, 1, 1),
                           ![j].results = Report(t, got),
                           ![j].err = t \in Members("cloud") /\ CloudFails(t, got)]
       /\ limiter' = IF Len(run[j].holds) = 2
                     THEN [limiter EXCEPT ![t][run[j].wants] = Freed(@)] ELSE limiter
    /\ UNCHANGED <<tool, disk, kept, alerts, check, order, outcomes, stored, changes, failures>>

-----------------------------------------------------------------------------
\* What a stage function stores besides its row of results.

Asset(table, j, item) == [table |-> table, org |-> order[j].org, item |-> item]

\* enrichHostASN: a host for every address, and its ranges the first time.
HostsOf(j, items) == {Asset("host", j, x) : x \in items} \cup {Asset("range", j, x) : x \in items}
\* A port becomes a service of that host, with a line of history; without a
\* host (its upsert failed) the service is stored all the same.
ServicesOf(j, items) ==
    {Asset("service", j, x) : x \in items} \cup {Asset("history", j, x) : x \in items}
persistTechnology(j, items) == {Asset("technology", j, x) : x \in items}
persistTakeover(j, items) == {Asset("takeover", j, x) : x \in items}
\* A screenshot is linked to a web asset that is there; none is made.
Shots(j, items) == {Asset("shot", j, x) : x \in {y \in items : Asset("web", j, y) \in stored}}
CloudAssetsOf(j, items) == {Asset("cloud", j, x) : x \in items}
Harvest(j) ==
    LET items == ToSet([i \in DOMAIN run[j].results |-> run[j].results[i].item])
    IN IF run[j].err THEN {}
       ELSE CASE CategoryOf(Current(j)) = "network" -> HostsOf(j, items) \cup ServicesOf(j, items)
              [] CategoryOf(Current(j)) = "fingerprint" -> persistTechnology(j, items)
              [] CategoryOf(Current(j)) = "takeover" -> persistTakeover(j, items)
              [] CategoryOf(Current(j)) = "screenshot" -> Shots(j, items)
              [] CategoryOf(Current(j)) = "cloud" -> CloudAssetsOf(j, items)
              [] OTHER -> {}

\* An upsert that fails is logged and passed over: a host takes its ranges
\* with it, and its service where foreign keys are enforced; a service its
\* history.
Losses(j) ==
    {{}} \cup {{a} : a \in Harvest(j)}
         \cup {{a, [a EXCEPT !.table = "service"]} : a \in {x \in Harvest(j) : x.table = "host"}}
Without(assets, lost) ==
    assets \ (lost \cup {[a EXCEPT !.table = "history"] : a \in {x \in lost : x.table = "service"}}
                   \cup {[a EXCEPT !.table = "range"] : a \in {x \in lost : x.table = "host"}})

WriteFault(happens) == /\ happens => failures < MaxFailures
                  /\ failures' = failures + (IF happens THEN 1 ELSE 0)
SaveAssets(j) ==
    /\ run[j].pc = "save"
    /\ \E lost \in Losses(j) : /\ WriteFault(lost # {})
                               /\ stored' = stored \cup Without(Harvest(j), lost)
    /\ run' = [run EXCEPT ![j].pc = IF Early(Current(j)) THEN "row" ELSE "log"]
    /\ UNCHANGED <<registryVars, order, outcomes, changes>>

\* persist: the row of results; when it cannot be written the run goes on.
PersistRow(j) ==
    /\ run[j].pc = "row"
    /\ LET row == ToolRow(Current(j), run[j].results, run[j].err)
       IN \E fails \in BOOLEAN :
             /\ WriteFault(fails)
             /\ outcomes' = IF fails THEN outcomes ELSE [outcomes EXCEPT ![j] = Append(@, row)]
    /\ run' = [run EXCEPT ![j].pc = IF Late(Current(j)) THEN "save" ELSE "log"]
    /\ UNCHANGED <<registryVars, order, stored, changes>>

\* The slot is given back to the limiter of now (mutant).
FinishNewest(j) ==
    /\ run[j].pc = "log"
    /\ LET t == Current(j)
           entry == [stage |-> CategoryOf(t), tool |-> t,
                     status |-> IF run[j].err THEN "error" ELSE "ok"]
       IN /\ limiter' = IF run[j].holds = <<>> THEN limiter
                        ELSE [limiter EXCEPT ![t][Newest(t)] = Freed(@)]
          /\ run' = [run EXCEPT ![j].pc = "tool", ![j].todo = Tail(@), ![j].holds = <<>>,
                                ![j].log = Append(@, entry)]
    /\ UNCHANGED <<tool, disk, kept, alerts, check, order, outcomes, stored, changes, failures>>

\* The stage function returns: its slot is given back, the engine notes how it
\* went and takes the next tool. (The event of the hub is left out.)
FinishTool(j) ==
    /\ run[j].pc = "log"
    /\ LET t == Current(j)
           entry == [stage |-> CategoryOf(t), tool |-> t,
                     status |-> IF run[j].err THEN "error" ELSE "ok"]
       IN /\ limiter' = IF run[j].holds = <<>> THEN limiter
                        ELSE [limiter EXCEPT ![t][run[j].holds[1]] = Freed(@)]
          /\ run' = [run EXCEPT ![j].pc = "tool", ![j].todo = Tail(@), ![j].holds = <<>>,
                                ![j].log = Append(@, entry)]
    /\ UNCHANGED <<tool, disk, kept, alerts, check, order, outcomes, stored, changes, failures>>

\* Time passes: the rest of a limiter is over.
RestOver(t, g) ==
    /\ limiter[t][g].resting
    /\ limiter' = [limiter EXCEPT ![t][g].resting = FALSE]
    /\ UNCHANGED <<tool, disk, kept, alerts, check, jobVars, changes, failures>>

-----------------------------------------------------------------------------
JobStep(j) == \/ RunWorkflow(j) \/ NextStage(j) \/ NextTool(j) \/ AcquireSlot(j)
              \/ PassSpacing(j) \/ CheckTool(j) \/ RunBinary(j) \/ SaveAssets(j)
              \/ PersistRow(j) \/ FinishTool(j)
CheckStep == (\E t \in Tools : Verify(t)) \/ StartupPersist \/ SyncRegistryFromDB \/ HealthEnd
AdminStep(t) ==
    \/ \E b \in BOOLEAN : SetEnabled(t, b)
    \/ \E limit \in Limits : SetRateLimits(t, limit)
    \/ DiskChange(t)
ServerStep == HealthStart \/ Restart
TimeStep == \E t \in Tools : \E g \in DOMAIN limiter[t] : RestOver(t, g)
WorkflowNext ==
    \/ \E j \in Jobs : JobStep(j)
    \/ \E t \in Tools : AdminStep(t)
    \/ CheckStep \/ ServerStep \/ TimeStep

\* A goroutine that can go on does; time passes; the pass over the tools ends.
\* A sender blocked on a full channel gets the next slot that is freed.
WorkflowFairness ==
    /\ \A j \in Jobs : WF_workflowVars(JobStep(j))
    /\ WF_workflowVars(TimeStep)
WorkflowSpec == WorkflowInit /\ [][WorkflowNext]_workflowVars /\ WorkflowFairness

-----------------------------------------------------------------------------
Statuses == {"ok", "error", "skipped"}
WorkflowTypeOK ==
    /\ DOMAIN tool = Tools /\ DOMAIN limiter = Tools /\ disk \subseteq Tools
    /\ check.todo \subseteq Tools /\ check.kind \in {"none", "startup", "sync", "health"}
    /\ \A j \in Jobs : \A i \in DOMAIN run[j].log : run[j].log[i].status \in Statuses
    /\ changes \in 0..MaxChanges /\ failures \in 0..MaxFailures

\* Every slot of every limiter is held by a job that runs this very tool, as
\* many times as the limiter counts; no limiter admits more than its cap; and
\* a job between two tools holds none, nor any job more than two
\* (toolRateLimiter.acquire and the deferred releases of the stage functions).
HeldSlots(t, g) ==
    {slot \in Jobs \X {1, 2} :
        /\ slot[2] \in DOMAIN run[slot[1]].holds /\ run[slot[1]].holds[slot[2]] = g
        /\ Current(slot[1]) = t}
Running(t, g) ==
    {j \in Jobs : run[j].pc = "exec" /\ Current(j) = t /\ run[j].holds[1] = g}
SlotsHold ==
    /\ \A t \in Tools : \A g \in DOMAIN limiter[t] :
          /\ limiter[t][g].held = Cardinality(HeldSlots(t, g))
          /\ limiter[t][g].cap > 0 => limiter[t][g].held <= limiter[t][g].cap
    /\ \A j \in Jobs :
          /\ Len(run[j].holds) <= 2
          /\ run[j].pc \in {"idle", "stage", "tool", "done"} => run[j].holds = <<>>
    \* A tool runs more often at a time than its newest limit admits only on
    \* slots of the limits that were there before.
    /\ \A t \in Tools : LET l == limiter[t][Newest(t)] IN
          l.cap > 0 => Cardinality(Running(t, Newest(t))) <= l.cap

\* What a finished workflow leaves behind: an entry for each of its stages in
\* their order, the stages that run all their tools with one for each tool; a
\* row of results for every entry of a tool unless its insert failed, and no
\* other; a CMS scanner that did report only after fingerprinting found something.
\* An entry opens a stage unless it goes on with the one before: it belongs to
\* the stage that as many entries have opened.
Opens(log, workflow, i) ==
    i > 1 => log[i - 1].stage # log[i].stage \/ ~RunAll(workflow, log[i].stage)
Opened(log, workflow, n) == Cardinality({i \in 1..n : Opens(log, workflow, i)})
OfTools(log) == {i \in DOMAIN log : log[i].tool # NoTool}
Fingerprinted(rows, n) ==
    \E k \in 1..n : CategoryOf(rows[k].tool) = "fingerprint" /\ rows[k].items # {}
EveryStageTold ==
    \A j \in Jobs : run[j].pc = "done" =>
        LET log == run[j].log
            rows == outcomes[j]
            workflow == order[j].workflow
            stages == workflowStages[workflow]
        IN /\ Opened(log, workflow, Len(log)) = Len(stages)
           /\ \A i \in DOMAIN log : log[i].stage = stages[Opened(log, workflow, i)]
           /\ Cardinality(OfTools(log)) \in Len(rows)..(Len(rows) + failures)
           /\ \A i \in DOMAIN rows :
                /\ \E k \in OfTools(log) :
                      log[k].tool = rows[i].tool /\ log[k].status = rows[i].status
                /\ rows[i].tool \in {"wpscan", "droopescan"} /\ rows[i].items # {} =>
                      Fingerprinted(rows, i - 1)

\* What the rows of results say was found is what the tables of assets hold,
\* apart from the upserts that failed: a port has its service, its host and
\* its history, a technology and a cloud asset their row; and nothing is
\* stored that no job reported.
Wanted == [network |-> {"service", "host", "history", "range"}, fingerprint |-> {"technology"},
           takeover |-> {"takeover"}, cloud |-> {"cloud"}]
AssetsAreBacked ==
    /\ \A j \in Jobs : run[j].pc = "done" =>
          \A i \in DOMAIN outcomes[j] : CategoryOf(outcomes[j][i].tool) \in DOMAIN Wanted =>
             \A x \in outcomes[j][i].items, table \in Wanted[CategoryOf(outcomes[j][i].tool)] :
                Asset(table, j, x) \in stored \/ failures > 0
    /\ \A a \in stored : a.table = "history" => [a EXCEPT !.table = "service"] \in stored
    /\ \A a \in stored : a.table = "service" =>
          [a EXCEPT !.table = "host"] \in stored \/ failures > 0

\* A workflow that is done has left on record all it did.
WorkflowIsTold == EveryStageTold /\ AssetsAreBacked

\* Every workflow ends, unless it waits for a slot that nobody gives back: those
\* who hold the slots of this limiter all want another of the same.
Jammed(j) ==
    /\ run[j].pc = "wait"
    /\ LET t == Current(j) g == run[j].wants IN
       /\ ~HasRoom(limiter[t][g])
       /\ \A k \in Jobs : (\E i \in {1, 2} : <<k, i>> \in HeldSlots(t, g)) =>
                            run[k].pc = "wait" /\ run[k].wants = g
WorkflowEnds == <>(\A j \in Jobs : run[j].pc = "done" \/ Jammed(j))

=============================================================================
