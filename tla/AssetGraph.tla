----------------------------- MODULE AssetGraph -----------------------------
(***************************************************************************)
(* The searches over asset_relationships: the subgraph around an asset     *)
(* (correlation Engine.Graph), the shortest chain between two assets       *)
(* (Engine.ExposurePath) and the path whose riskiest minimum is largest    *)
(* (attackpath maxMinRiskPath), each as the loop the code runs.            *)
(*                                                                         *)
(* Rows are read as undirected edges, and their order in the answer of     *)
(* the database is not specified, so a step takes neighbours in any order. *)
(* A risk score is a natural number: the searches only compare scores.     *)
(***************************************************************************)
EXTENDS Integers, Sequences, FiniteSets, SequencesExt, FiniteSetsExt

CONSTANTS
    Nodes,     \* assets and hubs that rows may join
    Scores,    \* risk scores
    Ends,      \* pairs of assets to connect; any other pair is one of them renamed
    Depths     \* depths a request may ask for, 0 when it names none

ASSUME AssetGraphAssumption ==
    /\ IsFiniteSet(Nodes) /\ Scores \subseteq Nat /\ Depths \subseteq Nat
    /\ Ends \subseteq {e \in Nodes \X Nodes : e[1] # e[2]}

VARIABLES
    ask,       \* what is searched: kind, rows, scores, ends and depth
    frontier,  \* the queue, the heap, or the nodes of the current depth
    best,      \* best minimum known at each node, -1 when there is none
    seen,      \* the visited map
    answer     \* what the search returned, empty while it runs

graphVars == <<ask, frontier, best, seen, answer>>

-----------------------------------------------------------------------------
Joined(rows, x, y) == {x, y} \in rows
Neighbours(rows, x) == {y \in UNION rows : Joined(rows, x, y) /\ y # x}

-----------------------------------------------------------------------------
Chain(n) == [node |-> n, path |-> <<n>>]
Extend(c, n) == [node |-> n, path |-> Append(c.path, n)]
MinScore(c) == Min({ask.score[n] : n \in ToSet(c.path)})

NoScores == [Nodes -> {0}]
GraphAsks ==
    [kind : {"widest"}, rows : SUBSET kSubset(2, Nodes),
     score : [Nodes -> Scores], ends : Ends, depth : {0}]
      \cup
    [kind : {"shortest"}, rows : SUBSET kSubset(2, Nodes),
     score : NoScores, ends : Ends, depth : {0}]
      \cup
    [kind : {"around"}, rows : SUBSET kSubset(2, Nodes),
     score : NoScores, ends : Ends, depth : Depths]

From == ask.ends[1]
To == ask.ends[2]

GraphInit ==
    /\ ask \in GraphAsks
    /\ best = [n \in Nodes |-> IF n = From THEN ask.score[n] ELSE -1]
    /\ frontier = IF ask.kind = "around" THEN {From} ELSE <<Chain(From)>>
    /\ seen = {From}
    /\ answer = {}

Answer(a) == answer' = {a} /\ UNCHANGED <<ask, frontier, best, seen>>

\* maxMinRiskPath: pop a chain with the largest minimum (the heap's order
\* among equals is its own); return at the goal, drop a chain that a better
\* one overtook, else push every neighbour whose minimum it improves.
PopWidest ==
    /\ ask.kind = "widest" /\ answer = {}
    /\ IF frontier = <<>> THEN Answer(<<>>)
       ELSE \E i \in DOMAIN frontier :
         LET cur == frontier[i]
             rest == RemoveAt(frontier, i)
             NewMin(n) == Min({MinScore(cur), ask.score[n]})
             better == {n \in Neighbours(ask.rows, cur.node) : NewMin(n) > best[n]}
         IN /\ \A j \in DOMAIN frontier : MinScore(frontier[j]) <= MinScore(cur)
            /\ IF cur.node = To THEN Answer(cur.path)
               ELSE IF MinScore(cur) < best[cur.node]
                    THEN frontier' = rest /\ UNCHANGED <<ask, best, seen, answer>>
               ELSE /\ best' = [n \in Nodes |-> IF n \in better THEN NewMin(n) ELSE best[n]]
                    /\ frontier' = rest \o SetToSeq({Extend(cur, n) : n \in better})
                    /\ UNCHANGED <<ask, seen, answer>>

\* ExposurePath: the first chain of the queue; its unvisited neighbours join
\* the queue unless the goal is among them.
StepShortest ==
    /\ ask.kind = "shortest" /\ answer = {}
    /\ IF frontier = <<>> THEN Answer(<<>>)
       ELSE LET cur == Head(frontier)
                fresh == Neighbours(ask.rows, cur.node) \ seen
            IN IF To \in fresh THEN Answer(Extend(cur, To).path)
               ELSE \E order \in SetToSeqs(fresh) :
                 /\ frontier' = Tail(frontier) \o
                        [i \in DOMAIN order |-> Extend(cur, order[i])]
                 /\ seen' = seen \cup fresh
                 /\ UNCHANGED <<ask, best, answer>>

\* Graph: one pass of the depth loop, best counting the passes made; every
\* row at a node of the frontier is kept. An absent depth means 2.
DepthAsAsked == ask.depth   \* no default (mutant)
Depth == IF ask.depth = 0 THEN 2 ELSE ask.depth
Kept(nodes) == {e \in ask.rows : e \cap nodes # {}}
StepAround ==
    /\ ask.kind = "around" /\ answer = {}
    /\ LET passes == best[From]
           next == (UNION Kept(frontier)) \ seen
       IN IF passes >= Depth \/ frontier = {}
          THEN Answer(Kept(seen \ frontier))
          ELSE /\ frontier' = next
               /\ seen' = seen \cup next
               /\ best' = [best EXCEPT ![From] = passes + 1]
               /\ UNCHANGED <<ask, answer>>

GraphNext == PopWidest \/ StepShortest \/ StepAround
GraphSpec == GraphInit /\ [][GraphNext]_graphVars /\ WF_graphVars(GraphNext)

-----------------------------------------------------------------------------
\* Nodes within k rows of x, with rows between members of S only.
Ball(rows, S, x, k) ==
    LET grow[i \in Nat] ==
          IF i = 0 THEN {x} \cap S
          ELSE grow[i-1] \cup
               {y \in S : \E z \in grow[i-1] : Joined(rows, y, z)}
    IN grow[k]

Reachable(rows, S, x) == Ball(rows, S, x, Cardinality(S))

\* The largest risk floor under which x and y stay connected.
Floors(rows, score, x, y) ==
    {s \in {score[n] : n \in {x} \cup UNION rows} :
        LET S == {n \in DOMAIN score : score[n] >= s}
        IN x \in S /\ y \in Reachable(rows, S, x)}

IsChain(p) ==
    /\ p[1] = From /\ p[Len(p)] = To
    /\ \A i \in 1..(Len(p) - 1) : Joined(ask.rows, p[i], p[i+1])

GraphTypeOK ==
    /\ ask \in GraphAsks
    /\ best \in [Nodes -> Int]
    /\ seen \subseteq Nodes
    /\ Cardinality(answer) <= 1

\* Every answer is the best one. The attack path is a chain of rows whose
\* weakest asset is as risky as connectivity allows (each higher floor cuts
\* the ends apart); the exposure path is as short as the distance; the
\* subgraph around an asset holds exactly the rows with an end closer than
\* the depth; and there is no answer only when the ends are not connected.
SearchIsBest ==
    \A a \in answer :
      CASE ask.kind = "around" ->
             a = Kept(Ball(ask.rows, Nodes, From, (IF ask.depth = 0 THEN 2 ELSE ask.depth) - 1))
        [] ask.kind # "around" /\ a = <<>> ->
             To \notin Reachable(ask.rows, Nodes, From)
        [] ask.kind = "widest" /\ a # <<>> ->
             /\ IsChain(a)
             /\ Min({ask.score[n] : n \in ToSet(a)})
                  = Max(Floors(ask.rows, ask.score, From, To))
        [] OTHER ->
             IsChain(a) /\ To \notin Ball(ask.rows, Nodes, From, Len(a) - 2)
=============================================================================
