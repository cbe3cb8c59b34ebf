---------------------------- MODULE CycleSearch ----------------------------
(***************************************************************************)
(* The two searches for cycles: of imports between files (findCycleChains  *)
(* in src/engine/imports.ts) and of constructor injections between Nest    *)
(* providers (findProviderCycles in src/rules/nest/di-graph.ts).           *)
(*                                                                         *)
(* Both find the strongly connected components with Tarjan's algorithm,    *)
(* one recursive, the other with frames of its own, and then look in each  *)
(* cyclic component for one cycle by a depth-first search from its first   *)
(* member.  They differ in what is an edge, in the order edges are taken   *)
(* and in the number a node on the stack lends to the low link of another. *)
(* The rules report what the one cycle of each component says.             *)
(***************************************************************************)
EXTENDS Integers, SequencesExt

CONSTANT Graphs  \* the graphs to search

(* Nodes are positions: of a file in the sorted list of files, of a        *)
(* provider in the model, which is sorted by file and class.  A node's     *)
(* name decides the order of edges: a file's path, a provider's class.     *)
Graph(size, names) == [
  kind : {"imports", "providers"},
  size : {size},
  name : [1 .. size -> names],
  use  : [1 .. size -> [names -> {"none", "plain", "deferred"}]]] \* forwardRef()

IsGraph(g) ==
  /\ g.size \in Nat
  /\ g \in Graph(g.size, Range(g.name))
  /\ Range(g.name) \subseteq Nat
  /\ g.kind = "imports" => \A n \in 1 .. g.size : g.name[n] = n

ASSUME GraphAssumption == \A g \in Graphs : IsGraph(g)

VARIABLES
  graph,
  pc,      \* "components", "chains" or "done"
  index,   \* the order nodes were met in
  low,     \* their low links
  count,   \* nodes met so far
  stack,   \* nodes met that have no component yet
  calls,   \* frames of strongConnect: a node and the edges it has left
  knots,   \* components found
  left,    \* cyclic components no chain was looked for in
  path,    \* frames of the search for a chain
  chains   \* the chains found, without the closing repetition of the first

vars == <<graph, pc, index, low, count, stack, calls, knots, left, path, chains>>
search == <<index, low, count, stack, calls, knots>>
walk == <<left, path, chains>>

Nodes == 1 .. graph.size
Unmet == -1

Use(n, m) == graph.use[n][graph.name[m]]

(* A provider's class name may be that of several; an injection reaches    *)
(* all of them.  The import of a file by itself is dropped.                *)
Edges(n) ==
  {m \in Nodes : Use(n, m) # "none" /\ (graph.kind = "imports" => m # n)}

(* Edges are sorted by name, then by position.                             *)
Before(m, n) ==
  \/ graph.name[m] < graph.name[n]
  \/ graph.name[m] = graph.name[n] /\ m < n
First(S) == CHOOSE m \in S : \A n \in S : m = n \/ Before(m, n)

Frame(n) == [node |-> n, rest |-> Edges(n)]
Top(frames)  == Last(frames)
NextEdge(frames) == First(Top(frames).rest)
Taken(frames) ==
  [frames EXCEPT ![Len(frames)].rest = @ \ {NextEdge(frames)}]

Init ==
  /\ graph \in Graphs
  /\ pc = "components"
  /\ index = [n \in Nodes |-> Unmet]
  /\ low = [n \in Nodes |-> Unmet]
  /\ count = 0 /\ stack = <<>> /\ calls = <<>> /\ knots = {}
  /\ left = {} /\ path = <<>> /\ chains = {}

-----------------------------------------------------------------------------
(* The components *)

UnmetNodes == {n \in Nodes : index[n] = Unmet}

(* strongConnect begins with n; frames are those of its callers.           *)
Meet(n, frames) ==
  /\ index' = [index EXCEPT ![n] = count]
  /\ low' = [low EXCEPT ![n] = count]
  /\ count' = count + 1
  /\ stack' = Append(stack, n)
  /\ calls' = Append(frames, Frame(n))
  /\ UNCHANGED <<graph, pc, knots, walk>>

StartRoot ==
  /\ pc = "components" /\ calls = <<>>
  /\ UnmetNodes # {}
  /\ Meet(Min(UnmetNodes), calls)

TakeEdge ==
  /\ pc = "components" /\ calls # <<>>
  /\ Top(calls).rest # {}

Descend ==
  /\ TakeEdge
  /\ NextEdge(calls) \in UnmetNodes
  /\ Meet(NextEdge(calls), Taken(calls))

Lower_Lost(n, by) == UNCHANGED low
Lower(n, by) == low' = [low EXCEPT ![n] = IF by < @ THEN by ELSE @]

(* What a node on the stack lends: in imports.ts its index, in di-graph.ts *)
(* its own low link.                                                       *)
Link(m) == IF graph.kind = "imports" THEN index[m] ELSE low[m]

LookBack ==
  /\ TakeEdge
  /\ NextEdge(calls) \in ToSet(stack)
  /\ Lower(Top(calls).node, Link(NextEdge(calls)))
  /\ calls' = Taken(calls)
  /\ UNCHANGED <<graph, pc, index, count, stack, knots, walk>>

LookAside ==
  /\ TakeEdge
  /\ NextEdge(calls) \notin UnmetNodes \cup ToSet(stack)
  /\ calls' = Taken(calls)
  /\ UNCHANGED <<graph, pc, index, low, count, stack, knots, walk>>

(* The call for a node returns: a component is cut off the stack if the    *)
(* node is its root, and the caller's low link follows.                    *)
IsRoot(n) == low[n] = index[n]
Place(n) == CHOOSE i \in 1 .. Len(stack) : stack[i] = n
Cut(n) ==
  IF IsRoot(n)
  THEN /\ stack' = SubSeq(stack, 1, Place(n) - 1)
       /\ knots' = knots \cup {ToSet(SubSeq(stack, Place(n), Len(stack)))}
  ELSE UNCHANGED <<stack, knots>>

Return ==
  /\ pc = "components" /\ calls # <<>>
  /\ Top(calls).rest = {}
  /\ Cut(Top(calls).node)
  /\ calls' = Front(calls)
  /\ IF calls' = <<>> THEN UNCHANGED low
     ELSE Lower(Top(calls').node, low[Top(calls).node])
  /\ UNCHANGED <<graph, pc, index, count, walk>>

IsCyclic_Large(knot) == Cardinality(knot) > 1
IsCyclic(knot) ==
  Cardinality(knot) > 1 \/ \E n \in knot : n \in Edges(n)

ComponentsFound ==
  /\ pc = "components" /\ calls = <<>>
  /\ UnmetNodes = {}
  /\ pc' = "chains"
  /\ left' = {k \in knots : IsCyclic(k)}
  /\ UNCHANGED <<graph, search, path, chains>>

-----------------------------------------------------------------------------
(* One chain per cyclic component *)

NodesOf(frames) == [i \in DOMAIN frames |-> frames[i].node]
Start  == path[1].node
Knot   == CHOOSE k \in left : Start \in k
OnPath == ToSet(NodesOf(path))

Begin ==
  /\ pc = "chains" /\ path = <<>>
  /\ left # {}
  /\ path' = <<Frame(Min({Min(k) : k \in left}))>>
  /\ UNCHANGED <<graph, pc, search, left, chains>>

TakeStep ==
  /\ pc = "chains" /\ path # <<>>
  /\ Top(path).rest # {}

Settle(found) ==
  /\ left' = left \ {Knot}
  /\ chains' = chains \cup found
  /\ path' = <<>>

Close ==
  /\ TakeStep
  /\ NextEdge(path) = Start
  /\ Settle({NodesOf(path)})
  /\ UNCHANGED <<graph, pc, search>>

Enter ==
  /\ TakeStep
  /\ NextEdge(path) \in Knot \ OnPath
  /\ path' = Append(Taken(path), Frame(NextEdge(path)))
  /\ UNCHANGED <<graph, pc, search, left, chains>>

Pass ==
  /\ TakeStep
  /\ NextEdge(path) # Start
  /\ NextEdge(path) \notin Knot \ OnPath
  /\ path' = Taken(path)
  /\ UNCHANGED <<graph, pc, search, left, chains>>

(* A node without edges left is given up.  When it is the first one, the   *)
(* chain of files is that file alone, and there is none of providers.      *)
Back ==
  /\ pc = "chains" /\ path # <<>>
  /\ Top(path).rest = {}
  /\ IF Len(path) > 1
     THEN path' = Front(path) /\ UNCHANGED <<left, chains>>
     ELSE Settle(IF graph.kind = "imports" THEN {NodesOf(path)} ELSE {})
  /\ UNCHANGED <<graph, pc, search>>

ChainsFound ==
  /\ pc = "chains" /\ path = <<>>
  /\ left = {}
  /\ pc' = "done"
  /\ UNCHANGED <<graph, search, walk>>

Next ==
  \/ StartRoot \/ Descend \/ LookBack \/ LookAside \/ Return \/ ComponentsFound
  \/ Begin \/ Close \/ Enter \/ Pass \/ Back \/ ChainsFound

Spec == Init /\ [][Next]_vars

-----------------------------------------------------------------------------
(* What the rules say of the chains *)

Follower(chain, i) == chain[IF i = Len(chain) THEN 1 ELSE i + 1]

(* circular-dependency reports every file of the chain.                    *)
CircularDependency ==
  IF graph.kind = "imports" THEN UNION {ToSet(c) : c \in chains} ELSE {}

(* circular-di reports the chain's first provider.                         *)
CircularDi ==
  IF graph.kind = "providers" THEN {c[1] : c \in chains} ELSE {}

(* missing-forward-ref reports the edge that closes a chain none of whose  *)
(* injections is deferred.                                                 *)
HasForwardRef_Open(chain) ==
  \E i \in DOMAIN chain :
    i < Len(chain) /\ Use(chain[i], Follower(chain, i)) = "deferred"
HasForwardRef(chain) ==
  \E i \in DOMAIN chain : Use(chain[i], Follower(chain, i)) = "deferred"
MissingForwardRef ==
  IF graph.kind = "providers"
  THEN {<<Last(c), c[1]>> : c \in {d \in chains : ~HasForwardRef(d)}}
  ELSE {}

-----------------------------------------------------------------------------
(* Properties *)

IsFrames(frames) ==
  \A i \in DOMAIN frames :
    frames[i].node \in Nodes /\ frames[i].rest \subseteq Edges(frames[i].node)

(* Every node met lends an index and a low link no greater, and a cut-off  *)
(* component is never empty.                                               *)
TypeOK ==
  /\ IsGraph(graph)
  /\ pc \in {"components", "chains", "done"}
  /\ index \in [Nodes -> Unmet .. count - 1]
  /\ \A n \in Nodes : low[n] \in Unmet .. index[n]
  /\ count \in Nat
  /\ stack \in Seq(Nodes)
  /\ IsFrames(calls) /\ IsFrames(path)
  /\ knots \subseteq (SUBSET Nodes) \ {{}} /\ left \subseteq knots
  /\ chains \subseteq Seq(Nodes)

Reaches(m, n) ==
  \A S \in SUBSET Nodes :
    m \in S /\ (\A k \in S : Edges(k) \subseteq S) => n \in S
Component(n) == {m \in Nodes : Reaches(m, n) /\ Reaches(n, m)}
Components == {Component(n) : n \in Nodes}

(* Both ways of keeping low links cut the graph into its strongly          *)
(* connected components: no cycle is split, none are run together.         *)
ComponentsAreRight ==
  pc # "components" => knots = Components

(* A chain is a simple cycle of real edges, told from its first member.    *)
IsCycle(chain) ==
  /\ \A i \in DOMAIN chain : Follower(chain, i) \in Edges(chain[i])
  /\ \A i, j \in DOMAIN chain : chain[i] = chain[j] => i = j
  /\ \A i \in DOMAIN chain : chain[1] <= chain[i]
ChainsAreCycles == \A chain \in chains : IsCycle(chain)

(* At the end each component on a cycle has one chain that begins at its   *)
(* first member, whichever edges lead the search astray, and the others    *)
(* have none (specs 009 AC-8, 013 AC-1).                                   *)
OnCycle(n) == \E m \in Edges(n) : Reaches(m, n)
OneChainPerKnot ==
  pc = "done" =>
    \A k \in Components :
      {c[1] : c \in {d \in chains : ToSet(d) \cap k # {}}} =
        IF \E n \in k : OnCycle(n) THEN {Min(k)} ELSE {}

(* What the rules print of a cycle is a real one, and each is printed once. *)
ChainsAreRight == ChainsAreCycles /\ OneChainPerKnot

(* Nest cannot build what missing-forward-ref reports: the injection it    *)
(* names closes a cycle of injections none of which is deferred.           *)
PlainEdges(n) == {m \in Edges(n) : Use(n, m) = "plain"}
BootFailureIsReal ==
  \A report \in MissingForwardRef :
    /\ report[2] \in PlainEdges(report[1])
    /\ \A S \in SUBSET Nodes :
         report[2] \in S /\ (\A k \in S : PlainEdges(k) \subseteq S) => report[1] \in S

(* What the documentation of circular-dependency says: it "reports every   *)
(* file participating in an import cycle".                                 *)
EveryMemberIsReported ==
  pc = "done" /\ graph.kind = "imports" =>
    \A n \in Nodes : OnCycle(n) => n \in CircularDependency
=============================================================================
