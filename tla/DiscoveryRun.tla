---------------------------- MODULE DiscoveryRun ----------------------------
(***************************************************************************)
(* One run of the attack-surface discovery engine, Engine.Run in           *)
(* internal/modules/discovery/engine.go: hops over a frontier of names,    *)
(* one goroutine per name in a hop, and the runState they share under its  *)
(* mutex (visited names and IPs, the asset cap).  DELETE /discovery/jobs   *)
(* runs beside it.                                                         *)
(* The options are those that do the most: ports are scanned and the apex  *)
(* certificate is probed.                                                  *)
(*                                                                         *)
(* What the network answers is a choice: the subdomains a name's root      *)
(* yields (CT logs, Wayback, brute force and permutations together), the   *)
(* addresses a name resolves to, the seed-owned PTR names and the open     *)
(* ports of an address.  Consecutive calls on runState with nothing but    *)
(* local work between them are one step.  Enrichment, DNS records, risk    *)
(* flags, events and counters that only feed the summary are left out; the *)
(* database starts empty, and FirstOrCreate makes a row once.              *)
(***************************************************************************)
EXTENDS Naturals, FiniteSets, Sequences

CONSTANTS Names,       \* hostnames, all under one registrable root
          Root,        \* that root
          Seeds,       \* job.SeedDomains, in order
          SubNames,    \* names the sources for the root may yield
          PtrNames,    \* names PTR records may carry that isSeedOwned accepts
          IPs, Ports,
          Depth,       \* job.Depth
          MaxAssets,   \* Options.MaxAssets
          HopConcurrency

ASSUME DiscoveryAssumption ==
    /\ IsFiniteSet(Names) /\ Root \in Names /\ Seeds \in Seq(Names) /\ Seeds # <<>>
    /\ SubNames \subseteq Names /\ PtrNames \subseteq Names
    /\ IPs # {} /\ Depth \in Nat /\ MaxAssets \in Nat \ {0} /\ HopConcurrency \in Nat \ {0}

VARIABLES status,       \* discovery_jobs.status
          stage,        \* discovery_jobs.stage at the end: "done" or "capped"
          main,         \* where Run is: start, head, hop, final, failing, end
          request,      \* DELETE of the job: none, read, done
          ctxDone,      \* the handler's context is over
          hop, frontier,
          next,         \* nextFrontier of the hop, as a set
          pc,           \* where the goroutine of a name is
          todoSubs,     \* names its loop over discovered has left
          todoIPs,      \* addresses its current loop has left
          todoPorts,    \* open ports of the address at hand it has left
          at,           \* that address
          visitedHost, visitedIP, assetCount, capHit,
          rows,         \* rows the run created, <<kind, ...>>
          worked,       \* history: times an address was taken through the pipeline
          skipped       \* history: the run left something out because of the cap

runState == <<visitedHost, visitedIP, assetCount, capHit>>
goVars   == <<pc, todoSubs, todoIPs, todoPorts, at>>
loopVars == <<hop, frontier, next>>
jobVars  == <<status, stage, main, request, ctxDone>>
vars == <<jobVars, loopVars, goVars, runState, rows, worked, skipped>>

PCs == {"idle", "slot", "root", "self", "selfports", "subs", "subips", "subports", "done"}

GoTo(n, label) == pc' = [pc EXCEPT ![n] = label]
Running(n) == pc[n] \notin {"idle", "slot", "done"}
AllJoined  == \A n \in Names : pc[n] \in {"idle", "done"}

-----------------------------------------------------------------------------
\* runState.

\* The cap compared with > instead of >= (mutant).
CanReserveLate == ~capHit /\ assetCount <= MaxAssets

\* reserveAsset tests and takes a slot under one lock; the first failure trips the cap.
\* "capReached, else reserveAsset" comes to the same two outcomes.
CanReserve   == ~capHit /\ assetCount < MaxAssets
Reserve      == assetCount' = assetCount + 1 /\ UNCHANGED capHit
ReserveFails == ~CanReserve /\ capHit' = TRUE /\ UNCHANGED assetCount

-----------------------------------------------------------------------------
\* Run.

\* The row is marked running, the frontier is the seeds.
Start ==
    /\ main = "start"
    /\ status' = "running" /\ main' = "head"
    /\ frontier' = Seeds
    /\ UNCHANGED <<stage, request, ctxDone, hop, next, goVars, runState, rows, worked, skipped>>

\* The head of the loop over hops: only here is the context looked at.
LoopHead ==
    /\ main = "head"
    /\ main' = IF hop > Depth \/ frontier = <<>> THEN "final"
               ELSE IF ctxDone THEN "failing"
               ELSE IF capHit THEN "final" ELSE "hop"
    /\ UNCHANGED <<status, stage, request, ctxDone, loopVars, goVars, runState, rows, worked, skipped>>

\* processHop's loop over the frontier: one name ends it, is skipped, or is marked and counted
\* and then waits for a slot of the semaphore.
Dispatch ==
    LET n == Head(frontier) IN
    /\ main = "hop" /\ frontier # <<>> /\ \A m \in Names : pc[m] # "slot"
    /\ \/ /\ ReserveFails
          /\ visitedHost' = IF capHit THEN visitedHost ELSE visitedHost \cup {n}
          /\ (capHit \/ n \notin visitedHost)
          /\ frontier' = <<>> /\ skipped' = TRUE
          /\ UNCHANGED <<pc, visitedIP>>
       \/ /\ ~capHit /\ n \in visitedHost
          /\ frontier' = Tail(frontier)
          /\ UNCHANGED <<pc, runState, skipped>>
       \/ /\ n \notin visitedHost /\ CanReserve /\ Reserve
          /\ visitedHost' = visitedHost \cup {n}
          /\ GoTo(n, "slot")
          /\ frontier' = Tail(frontier)
          /\ UNCHANGED <<visitedIP, skipped>>
    /\ UNCHANGED <<jobVars, hop, next, todoSubs, todoIPs, todoPorts, at, rows, worked>>

\* sem <- struct{}{}, and the goroutine of the name starts.
Spawn(n) ==
    /\ pc[n] = "slot"
    /\ Cardinality({m \in Names : Running(m)}) < HopConcurrency
    /\ GoTo(n, "root")
    /\ UNCHANGED <<jobVars, loopVars, todoSubs, todoIPs, todoPorts, at, runState, rows, worked, skipped>>

\* The hop counted in the body of the loop as well (mutant).
HopEndsTwice ==
    /\ main = "hop" /\ frontier = <<>>
    /\ AllJoined
    /\ \E order \in [1..Cardinality(next) -> next] :
         /\ {order[i] : i \in DOMAIN order} = next
         /\ frontier' = order
    /\ hop' = hop + 2 /\ next' = {} /\ main' = "head"
    /\ UNCHANGED <<status, stage, request, ctxDone, goVars, runState, rows, worked, skipped>>

\* wg.Wait(), then the collected names, in the order the goroutines added them.
HopEnds ==
    /\ main = "hop" /\ frontier = <<>>
    /\ AllJoined
    /\ \E order \in [1..Cardinality(next) -> next] :
         /\ {order[i] : i \in DOMAIN order} = next
         /\ frontier' = order
    /\ hop' = hop + 1 /\ next' = {} /\ main' = "head"
    /\ UNCHANGED <<status, stage, request, ctxDone, goVars, runState, rows, worked, skipped>>

\* The final update, over whatever status the row has.
Final ==
    /\ main \in {"final", "failing"}
    /\ main' = "end"
    /\ stage' = IF capHit THEN "capped" ELSE "done"
    /\ status' = IF main = "failing" THEN "failed" ELSE "completed"
    /\ UNCHANGED <<request, ctxDone, loopVars, goVars, runState, rows, worked, skipped>>

\* Shutdown or the 30 minute deadline.
ContextEnds ==
    /\ ~ctxDone /\ main \in {"head", "hop"}
    /\ ctxDone' = TRUE
    /\ UNCHANGED <<status, stage, main, request, loopVars, goVars, runState, rows, worked, skipped>>

\* DiscoveryHandler.Cancel: it reads the status, then writes "cancelled".
CancelReads ==
    /\ request = "none" /\ status \in {"pending", "running"}
    /\ request' = "read"
    /\ UNCHANGED <<status, stage, main, ctxDone, loopVars, goVars, runState, rows, worked, skipped>>

CancelWrites ==
    /\ request = "read"
    /\ request' = "done" /\ status' = "cancelled"
    /\ UNCHANGED <<stage, main, ctxDone, loopVars, goVars, runState, rows, worked, skipped>>

-----------------------------------------------------------------------------
\* The goroutine of name n.

Create(row) == rows' = rows \cup {row}

\* Stage 0: the row of the root.  Stage 1.5: n is resolved.
RootRow(n) ==
    /\ pc[n] = "root"
    /\ Create(<<"domain", Root>>)
    /\ \E ips \in SUBSET IPs : todoIPs' = [todoIPs EXCEPT ![n] = ips]
    /\ GoTo(n, "self")
    /\ UNCHANGED <<jobVars, loopVars, todoSubs, todoPorts, at, runState, worked, skipped>>

\* An address nobody in this run has taken: marked, counted, given its row, its PTR names
\* put into the next frontier, and its ports probed.
Host(n, ip) ==
    /\ ip \notin visitedIP /\ CanReserve /\ Reserve
    /\ visitedIP' = visitedIP \cup {ip} /\ UNCHANGED visitedHost
    /\ Create(<<"host", ip>>)
    /\ worked' = [worked EXCEPT ![ip] = @ + 1]
    /\ \E ptr \in SUBSET PtrNames : next' = next \cup ptr
    /\ at' = [at EXCEPT ![n] = ip]
    /\ \E open \in SUBSET Ports : todoPorts' = [todoPorts EXCEPT ![n] = open]
    /\ UNCHANGED skipped

\* One turn of the loop over addresses; ports is the label for probing them.
AddressLoop(n, ports) ==
    \E ip \in todoIPs[n] :
        \/ /\ Host(n, ip)
           /\ todoIPs' = [todoIPs EXCEPT ![n] = @ \ {ip}]
           /\ GoTo(n, ports)
        \/ /\ ~capHit /\ ip \in visitedIP
           /\ todoIPs' = [todoIPs EXCEPT ![n] = @ \ {ip}]
           /\ UNCHANGED <<pc, next, at, todoPorts, runState, rows, worked, skipped>>
        \/ /\ ReserveFails /\ (capHit \/ ip \notin visitedIP)
           /\ skipped' = TRUE
           /\ visitedIP' = IF capHit THEN visitedIP ELSE visitedIP \cup {ip}
           /\ todoIPs' = [todoIPs EXCEPT ![n] = {}]
           /\ UNCHANGED <<pc, next, at, todoPorts, visitedHost, rows, worked>>

\* runPortAndServiceDiscovery: a row per open port, and the certificate behind a TLS port,
\* which takes no slot.
PortLoop(n) ==
    \E port \in todoPorts[n] :
        \/ /\ CanReserve /\ Reserve
           /\ \E found \in {{<<"service", at[n], port>>},
                            {<<"service", at[n], port>>, <<"portcert", at[n], port>>}} :
                rows' = rows \cup found
           /\ todoPorts' = [todoPorts EXCEPT ![n] = @ \ {port}]
           /\ UNCHANGED skipped
        \/ /\ ReserveFails
           /\ skipped' = TRUE
           /\ todoPorts' = [todoPorts EXCEPT ![n] = {}]
           /\ UNCHANGED rows

Self(n) ==
    /\ pc[n] = "self" /\ AddressLoop(n, "selfports")
    /\ UNCHANGED <<jobVars, hop, frontier, todoSubs>>

SelfPorts(n) ==
    /\ pc[n] = "selfports"
    /\ \/ PortLoop(n) /\ UNCHANGED pc
       \/ /\ todoPorts[n] = {} /\ GoTo(n, "self")
          /\ UNCHANGED <<todoPorts, assetCount, capHit, rows, skipped>>
    /\ UNCHANGED <<jobVars, loopVars, todoSubs, todoIPs, at, visitedHost, visitedIP, worked>>

\* Stage 1: the names the sources yield for the root.
Find(n) ==
    /\ pc[n] = "self" /\ todoIPs[n] = {}
    /\ \E found \in SUBSET (SubNames \ {Root}) : todoSubs' = [todoSubs EXCEPT ![n] = found]
    /\ GoTo(n, "subs")
    /\ UNCHANGED <<jobVars, loopVars, todoIPs, todoPorts, at, runState, rows, worked, skipped>>

\* A discovered name: counted, given its row, resolved; it goes into the next frontier when
\* markHostVisited finds it new -- and is marked by that very call.
Sub(n) ==
    /\ pc[n] = "subs"
    /\ \E m \in todoSubs[n] :
        \/ /\ CanReserve /\ Reserve
           /\ todoSubs' = [todoSubs EXCEPT ![n] = @ \ {m}]
           /\ Create(<<"subdomain", m>>)
           /\ visitedHost' = visitedHost \cup {m}
           /\ next' = IF m \in visitedHost THEN next ELSE next \cup {m}
           /\ \E ips \in SUBSET IPs : todoIPs' = [todoIPs EXCEPT ![n] = ips]
           /\ GoTo(n, "subips")
           /\ UNCHANGED <<visitedIP, skipped>>
        \/ /\ ReserveFails
           /\ skipped' = TRUE
           /\ todoSubs' = [todoSubs EXCEPT ![n] = {}]
           /\ UNCHANGED <<todoIPs, next, pc, visitedHost, visitedIP, rows>>
    /\ UNCHANGED <<jobVars, hop, frontier, todoPorts, at, worked>>

SubIPs(n) ==
    /\ pc[n] = "subips"
    /\ \/ AddressLoop(n, "subports")
       \/ /\ todoIPs[n] = {} /\ GoTo(n, "subs")
          /\ UNCHANGED <<todoIPs, next, at, todoPorts, runState, rows, worked, skipped>>
    /\ UNCHANGED <<jobVars, hop, frontier, todoSubs>>

SubPorts(n) ==
    /\ pc[n] = "subports"
    /\ \/ PortLoop(n) /\ UNCHANGED pc
       \/ /\ todoPorts[n] = {} /\ GoTo(n, "subips")
          /\ UNCHANGED <<todoPorts, assetCount, capHit, rows, skipped>>
    /\ UNCHANGED <<jobVars, loopVars, todoSubs, todoIPs, at, visitedHost, visitedIP, worked>>

\* A return past wg.Done() when the cap is reached (mutant).
ApexCertNoDone(n) ==
    /\ pc[n] = "subs" /\ todoSubs[n] = {}
    /\ GoTo(n, "done")
    /\ CanReserve /\ Reserve
    /\ rows' \in {rows, rows \cup {<<"cert", n>>}}
    /\ UNCHANGED <<jobVars, loopVars, todoSubs, todoIPs, todoPorts, at, visitedHost, visitedIP, worked, skipped>>

\* The certificate of n's own port 443, fetched or not, for one slot.
ApexCert(n) ==
    /\ pc[n] = "subs" /\ todoSubs[n] = {}
    /\ GoTo(n, "done")
    /\ \/ /\ CanReserve /\ Reserve
          /\ rows' \in {rows, rows \cup {<<"cert", n>>}}
          /\ UNCHANGED skipped
       \/ ReserveFails /\ skipped' = TRUE /\ UNCHANGED rows
    /\ UNCHANGED <<jobVars, loopVars, todoSubs, todoIPs, todoPorts, at, visitedHost, visitedIP, worked>>

GoStep(n) == RootRow(n) \/ Self(n) \/ SelfPorts(n) \/ Find(n) \/ Sub(n)
             \/ SubIPs(n) \/ SubPorts(n) \/ ApexCert(n)

-----------------------------------------------------------------------------
Init ==
    /\ status = "pending" /\ stage = "" /\ main = "start" /\ request = "none" /\ ctxDone = FALSE
    /\ hop = 0 /\ frontier = <<>> /\ next = {}
    /\ pc = [n \in Names |-> "idle"]
    /\ todoSubs = [n \in Names |-> {}] /\ todoIPs = [n \in Names |-> {}]
    /\ todoPorts = [n \in Names |-> {}] /\ at = [n \in Names |-> CHOOSE ip \in IPs : TRUE]
    /\ visitedHost = {} /\ visitedIP = {} /\ assetCount = 0 /\ capHit = FALSE
    /\ rows = {} /\ worked = [ip \in IPs |-> 0] /\ skipped = FALSE

Next ==
    \/ Start \/ LoopHead \/ Dispatch \/ HopEnds \/ Final
    \/ ContextEnds \/ CancelReads \/ CancelWrites
    \/ \E n \in Names : Spawn(n) \/ GoStep(n)

\* Run and its goroutines go on: every lookup and probe has a timeout of its own.
Fairness ==
    /\ WF_vars(Start) /\ WF_vars(LoopHead) /\ WF_vars(Dispatch) /\ WF_vars(HopEnds) /\ WF_vars(Final)
    /\ \A n \in Names : WF_vars(Spawn(n)) /\ WF_vars(GoStep(n))

Spec     == Init /\ [][Next]_vars
FairSpec == Spec /\ Fairness

-----------------------------------------------------------------------------
Kinds == {"domain", "subdomain", "host", "service", "cert", "portcert"}

TypeOK ==
    /\ status \in {"pending", "running", "completed", "failed", "cancelled"}
    /\ stage \in {"", "done", "capped"}
    /\ main \in {"start", "head", "hop", "final", "failing", "end"}
    /\ request \in {"none", "read", "done"} /\ ctxDone \in BOOLEAN
    /\ hop \in 0..(Depth + 1) /\ frontier \in Seq(Names) /\ next \subseteq Names
    /\ pc \in [Names -> PCs] /\ todoSubs \in [Names -> SUBSET Names]
    /\ todoIPs \in [Names -> SUBSET IPs] /\ todoPorts \in [Names -> SUBSET Ports]
    /\ at \in [Names -> IPs]
    /\ visitedHost \subseteq Names /\ visitedIP \subseteq IPs
    /\ assetCount \in Nat /\ capHit \in BOOLEAN
    /\ \A row \in rows : row[1] \in Kinds
    /\ worked \in [IPs -> Nat] /\ skipped \in BOOLEAN

\* The cap under 32 goroutines: slots never exceed it, it trips only when they are used up, and
\* every row but the certificates of TLS ports is covered by a slot.
CapHolds ==
    /\ assetCount <= MaxAssets
    /\ capHit => assetCount = MaxAssets
    /\ Cardinality({row \in rows : row[1] # "portcert"}) <= assetCount

\* However many goroutines meet an address, it goes through enrichment and port scan once.
WorkedOnce == \A ip \in IPs : worked[ip] <= 1

\* "rather than a silent truncation": the run ends with stage "capped" exactly when it left
\* something out because of the cap.
NoSilentTruncation == main = "end" => (skipped <=> stage = "capped")

\* A run stays within its bounds, and owns up to them.
StaysInBounds == CapHolds /\ WorkedOnce /\ NoSilentTruncation

\* A started run ends, whatever the network answers and wherever the cap trips: no goroutine
\* waits for a slot of the semaphore or the wait group for ever.
RunEnds == main = "head" ~> main = "end"

\* The comment in processHop: "Every newly discovered subdomain re-enters the frontier for the
\* next hop -- satisfies 'every newly discovered asset must automatically trigger further
\* discovery'".  A run that ended for want of a frontier has processed what it discovered.
FrontierReentry ==
    main = "end" /\ status = "completed" /\ stage = "done" /\ hop <= Depth =>
        \A m \in Names : <<"subdomain", m>> \in rows => pc[m] = "done"
=============================================================================
