------------------------------ MODULE Admission ------------------------------
(***************************************************************************)
(* What lets a request in: the sliding window of internal/api/middleware/  *)
(* middleware.go, one client's; and, when it is to start a scan or a       *)
(* discovery, the throttle of internal/api/handlers/admin_ops.go that the  *)
(* handlers of both kinds of job call before they insert one. The window   *)
(* reads the clock before it waits for its mutex; the throttle counts the  *)
(* two kinds one after the other, and the insert is a statement of its own.*)
(***************************************************************************)
EXTENDS Integers, FiniteSets

CONSTANTS Posts,        \* requests of one client
          Asks,         \* what they may ask for: a "scan", a "discovery", or something "other"
          Standing,     \* what started the job that is there from the start
          RateCap, Window,
          Orgs,         \* MaxConcurrentScans of its organization, 0 when unset, and its plan
          MaxClock,     \* bound: the clock
          MaxFaults     \* bound: statements that fail

VARIABLES clock,
          times,        \* data[ip].times: the requests whose times they are
          org,
          jobs,         \* pending and running jobs: what started each, and its kind
          post,         \* where each request is
          faults,
          crossed,      \* history: requests the window decided after one that came later
          outrun        \* history: requests that inserted when more jobs were active than they saw

admissionVars == <<clock, times, org, jobs, post, faults, crossed, outrun>>

-----------------------------------------------------------------------------
JobKinds == {"scan", "discovery"}
Arriving(kind) == [pc |-> "new", stamp |-> 0, seen |-> 0, kind |-> kind]
PostTo(p, pc) == post' = [post EXCEPT ![p].pc = pc]
Err == faults < MaxFaults /\ faults' = faults + 1
ActiveJobs(kind) == Cardinality({j \in jobs : j[2] = kind})
Within(now) == {q \in times : post[q].stamp + Window > now}
Admitted == {p \in Posts : post[p].pc \notin {"new", "gate", "refused"}}

defaultMaxConcurrentScans(of) == CASE of = "enterprise" -> 20 [] of = "pro" -> 8 [] OTHER -> 2
ScanLimit == IF org.max > 0 THEN org.max ELSE defaultMaxConcurrentScans(org.plan)

\* The window has a length; the limit of an organization may be anything.
ASSUME AdmissionAssumption ==
    /\ IsFiniteSet(Posts) /\ Standing \notin Posts
    /\ RateCap \in Nat /\ Window \in Nat \ {0} /\ MaxClock \in Nat /\ MaxFaults \in Nat
    /\ \A of \in Orgs : of.max \in Int
    /\ \A asked \in Asks : \A p \in Posts : asked[p] \in JobKinds \cup {"other"}

\* RateLimit: the clock is read.
Arrive(p) ==
    /\ post[p].pc = "new"
    /\ post' = [post EXCEPT ![p].pc = "gate", ![p].stamp = clock]
    /\ UNCHANGED <<clock, times, org, jobs, faults, crossed, outrun>>

\* A window that lets one more in (mutant).
GateOneMore(p) ==
    LET now == post[p].stamp
        valid == Within(now)
    IN /\ post[p].pc = "gate"
       /\ \/ /\ Cardinality(valid) > RateCap /\ times' = valid /\ PostTo(p, "refused")
          \/ /\ Cardinality(valid) <= RateCap /\ times' = valid \cup {p}
             /\ PostTo(p, IF post[p].kind \in JobKinds THEN "scans" ELSE "served")
       /\ crossed' = IF \E q \in times : post[q].stamp > now THEN crossed \cup {p} ELSE crossed
       /\ UNCHANGED <<clock, org, jobs, faults, outrun>>

\* With the mutex: what has left the window is dropped, and the request with
\* its own time joins the rest, or is refused.
Gate(p) ==
    LET now == post[p].stamp
        valid == Within(now)
    IN /\ post[p].pc = "gate"
       /\ \/ /\ Cardinality(valid) >= RateCap /\ times' = valid /\ PostTo(p, "refused")
          \/ /\ Cardinality(valid) < RateCap /\ times' = valid \cup {p}
             /\ PostTo(p, IF post[p].kind \in JobKinds THEN "scans" ELSE "served")
       /\ crossed' = IF \E q \in times : post[q].stamp > now THEN crossed \cup {p} ELSE crossed
       /\ UNCHANGED <<clock, org, jobs, faults, outrun>>

\* activeScanCount: the scans, then the discoveries.
CountScans(p) ==
    /\ post[p].pc = "scans"
    /\ \/ /\ post' = [post EXCEPT ![p].pc = "discoveries", ![p].seen = ActiveJobs("scan")]
          /\ UNCHANGED faults
       \/ Err /\ PostTo(p, "failed")
    /\ UNCHANGED <<clock, times, org, jobs, crossed, outrun>>

Throttle(p) ==
    LET active == post[p].seen + ActiveJobs("discovery")
    IN /\ post[p].pc = "discoveries"
       /\ \/ /\ post' = [post EXCEPT ![p].seen = active, ![p].pc =
                            IF active >= ScanLimit THEN "throttled" ELSE "create"]
             /\ UNCHANGED faults
          \/ Err /\ PostTo(p, "failed")
       /\ UNCHANGED <<clock, times, org, jobs, crossed, outrun>>

\* Create of the handler, of a scan or of a discovery.
CreateJob(p) ==
    /\ post[p].pc = "create"
    /\ \/ /\ jobs' = jobs \cup {<<p, post[p].kind>>} /\ PostTo(p, "created") /\ UNCHANGED faults
          /\ outrun' = IF Cardinality(jobs) > post[p].seen THEN outrun \cup {p} ELSE outrun
       \/ Err /\ PostTo(p, "failed") /\ UNCHANGED <<jobs, outrun>>
    /\ UNCHANGED <<clock, times, org, crossed>>

JobEnds ==
    /\ \E j \in jobs : jobs' = jobs \ {j}
    /\ UNCHANGED <<clock, times, org, post, faults, crossed, outrun>>

Tick ==
    /\ clock < MaxClock /\ clock' = clock + 1
    /\ UNCHANGED <<times, org, jobs, post, faults, crossed, outrun>>

-----------------------------------------------------------------------------
AdmissionInit ==
    /\ clock = 0 /\ times = {} /\ org \in Orgs /\ jobs \in {{}, {<<Standing, "scan">>}}
    /\ \E asked \in Asks : post = [p \in Posts |-> Arriving(asked[p])]
    /\ faults = 0 /\ crossed = {} /\ outrun = {}
AdmissionNext ==
    \/ \E p \in Posts : Arrive(p) \/ Gate(p) \/ CountScans(p) \/ Throttle(p) \/ CreateJob(p)
    \/ JobEnds \/ Tick
AdmissionSpec == AdmissionInit /\ [][AdmissionNext]_admissionVars

-----------------------------------------------------------------------------
AdmissionTypeOK ==
    /\ clock \in 0..MaxClock /\ org \in Orgs /\ faults \in 0..MaxFaults
    /\ times \subseteq Admitted /\ jobs \subseteq (Posts \cup {Standing}) \X JobKinds
    /\ \A p \in Posts : post[p].pc \in {"new", "gate", "refused", "scans", "discoveries",
                                        "throttled", "create", "failed", "created", "served"}
    /\ crossed \cup outrun \subseteq Posts

\* middleware.go: "sliding-window rate limiter". No window of that length holds more admitted
\* requests than the limit, whatever times it begins and ends at, but for one request more each
\* that had to wait for the mutex while a later one went by.
WindowHolds ==
    \A from \in 0..MaxClock :
        Cardinality({p \in Admitted : post[p].stamp \in from..(from + Window - 1)})
            <= RateCap + Cardinality(crossed)

\* admin_ops.go:1244-1247: a handler that is over the limit does not create a job. Every job
\* beyond the limit was created by a request that saw fewer than were active by then: requests
\* that count at the same time get one job each too many, never two.
ThrottleHolds == Cardinality(jobs) <= ScanLimit + Cardinality(outrun)

AdmissionHolds == WindowHolds /\ ThrottleHolds
=============================================================================
