------------------------------- MODULE MCTools -------------------------------
(***************************************************************************)
(* Workflows of external tools, samples of what their wrappers make of an  *)
(* output, and the job queue that delivers a workflow as it moves on its   *)
(* own, in one run of the checker. A behaviour is one of the three; the    *)
(* variables of the others keep one value.                                 *)
(***************************************************************************)
EXTENDS ToolWorkflow, TLC

CONSTANTS Queued, Workers, job, NoJob

\* No job is none of the copies of a job; what an administrator changes is registered.
ASSUME MCToolsAssumption ==
    /\ NoJob \notin Queued \X {1, 2}
    /\ {"sqlmap", "dalfox"} \subseteq Tools

VARIABLES part, sample,
          phase, mode, handlers, redisUp, list, chan, pc, held, attempt, sink,
          boots, outages, made, outcome, runs, recorded

queueVars == <<phase, mode, handlers, redisUp, list, chan, pc, held, attempt, sink,
               boots, outages, made, outcome, runs, recorded>>
toolsVars == <<part, sample, workflowVars, queueVars>>

Queue == INSTANCE JobQueue WITH
    Jobs <- Queued, Types <- {job}, TypeOf <- [j \in Queued |-> job],
    BufferSize <- 1, MaxRetry <- 1, MaxBoots <- 1, MaxOutages <- 1

-----------------------------------------------------------------------------
MCLimits == {Limit(2, FALSE)}
MCTooling == {"sqlmap", "dalfox", "whatweb", "wpscan", "subzy", "nmap", "smbclient", "jwt_tool",
            "gitleaks", "aws", "aquatone"}
MCOnDisk == {MCTooling, MCTooling \ {"sqlmap"}}
MCPrior == [t \in MCTooling |-> [row |-> FALSE, found |-> FALSE, enabled |-> FALSE]]

Asked(w, t, k) == [workflow |-> w, target |-> t, creds |-> {}, token |-> k, org |-> "A"]
Both(a, b) == [j \in Jobs |-> IF j = 1 THEN a ELSE b]

\* Two runs that want the one slot of sqlmap, with all an administrator does
\* meanwhile; and workflows that between them reach every kind of stage.
Stirred == {Both(Asked("injection_suite", {}, FALSE), Asked("injection_suite", {"query"}, FALSE))}
MCOrders == Stirred \cup
    {Both(Asked("cms_detect", {"wordpress"}, FALSE), Asked("js_recon", {"path"}, FALSE)),
     Both(Asked("takeover_scan", {}, FALSE), Asked("internal_assessment", {}, FALSE)),
     Both(Asked("screenshot", {}, FALSE), Asked("cloud_enum", {}, FALSE)),
     Both(Asked("api_audit", {}, TRUE), Asked("git_secrets", {}, FALSE))}

-----------------------------------------------------------------------------
\* Outputs of one or two lines, some of which deny what they name, and of a
\* document or none.
Starts == {"", "#", "{", "[", "http", "/", "Open ", "Parameter:", "gopher://", "---", "text"}
Denials == {{}, {"vulnerable"}, {"xss", "vulnerable", "none"}, {"Hosts found"},
            {"target", "dot", "address"}}
WordSets == Denials \cup
    {{"[VULN]", "[Vulnerable]"},
     {"IN", "SMB", "READ", "port", "host", "name", "response", "url"},
     {"is behind", "drupal", "Payload", "api"},
     {"h2c success", "[+]", "issue found", "credential"}}
Thing(s) == [name |-> s, sev |-> IF s = "found" THEN "high" ELSE "info", says |-> s,
             more |-> {"open", "url", "file"}]
Line(st, w, s) ==
    [json |-> st = "{" /\ s = "found", starts |-> st, words |-> w, items |-> <<Thing(s)>>]
Printed == {Line(st, w, "found") : st \in Starts, w \in WordSets}
           \cup {Line(st, w, s) : st \in Starts, w \in Denials, s \in {"denied", "noise"}}
Docs == {NoDocument} \cup
        {[form |-> f, entries |-> <<Thing("found")>>] : f \in {"array", "object", "xml"}}
Hosts == Line("text", {"Hosts found"}, "noise")
Listings == {<<l>> : l \in Printed} \cup {<<Hosts, l>> : l \in Printed}
Shown(ls, d) == [Silence EXCEPT !.lines = ls, !.doc = d]
Outs == {Shown(ls, d) : ls \in Listings, d \in Docs}
Samples == [target : SUBSET {"query"}, creds : {{}, {"odd"}, {"domain"}}, out : Outs]
NoSample == [target |-> {}, creds |-> {}, out |-> Silence]

-----------------------------------------------------------------------------
NoWorkflow ==
    /\ order \in Stirred /\ disk = {} /\ tool = [t \in Tools |-> [found |-> FALSE, enabled |-> FALSE]]
    /\ limiter = [t \in Tools |-> <<Default(t)>>] /\ kept = Prior
    /\ alerts = <<>> /\ check = NoCheck
    /\ run = [j \in Jobs |-> [NotRun EXCEPT !.pc = "done", !.log = <<Skipped("injection")>>]]
    /\ outcomes = [j \in Jobs |-> <<>>] /\ stored = {} /\ changes = 0 /\ failures = 0

ToolsInit ==
    /\ Queue!Init
    /\ \/ /\ part = "workflow" /\ sample = NoSample /\ WorkflowInit
          /\ check = IF order \in Stirred THEN [StartupCheck EXCEPT !.todo = {"sqlmap"}]
                     ELSE NoCheck
       \/ part = "reports" /\ sample \in Samples /\ NoWorkflow
       \/ part = "queue" /\ sample = NoSample /\ NoWorkflow

ToolsNext ==
    /\ UNCHANGED <<part, sample>>
    /\ \/ /\ part = "workflow" /\ UNCHANGED queueVars
          /\ \/ (\E j \in Jobs : JobStep(j)) \/ CheckStep \/ TimeStep
             \/ order \in Stirred /\ (AdminStep("sqlmap") \/ AdminStep("dalfox") \/ ServerStep)
       \/ part = "queue" /\ Queue!Next /\ UNCHANGED workflowVars

\* ToolWorkflow's fairness, of the behaviours that are workflows'; and the job queue's.
ToolsFairness ==
    /\ \A j \in Jobs : WF_workflowVars(part = "workflow" /\ JobStep(j))
    /\ WF_workflowVars(part = "workflow" /\ TimeStep)
    /\ Queue!Fairness
ToolsSpec == ToolsInit /\ [][ToolsNext]_toolsVars /\ ToolsFairness

ToolsTypeOK ==
    /\ part \in {"workflow", "reports", "queue"}
    /\ part = "workflow" => WorkflowTypeOK
    /\ Queue!TypeOK

\* ToolReports.ReportsAreTrue and ReportsAreHeard, of the samples: whatever
\* lines and documents a tool prints, a result rated medium or worse is about
\* something the tool said it found, but for the tools that take a denial for
\* it; and what a tool says it found is reported, but for the deaf ones.
WrappersAreHonest ==
    part = "reports" =>
       /\ \A t \in (UNION {Members(c) : c \in DOMAIN workflowToolOrder}) \cup Extra :
             ReportsAreTrue(t, sample.target, sample.creds, sample.out)
       /\ ReportsAreHeard(sample.target, sample.creds)

\* JobQueue.WaitingIsHandled and JobQueue.StopReturns, of the queue here: a job that waits
\* where the workers look is handled, and Stop returns.
QueueGoesOn == Queue!WaitingIsHandled /\ Queue!StopReturns
=============================================================================
