-------------------------- MODULE ApplyOrder_proofs --------------------------
(***************************************************************************)
(* Proofs about ApplyOrder: for any files, any graph of operations, and any *)
(* source and complete target the order is sound, ordering fails only on a  *)
(* broken repository, and the target is complete wherever the copy stops.   *)
(***************************************************************************)
EXTENDS ApplyOrder, FiniteSetTheorems, TLAPS

Taken == Elements(out)
Ordering == {"order", "edges", "sort"}
Copying == {"copy", "done", "stopped"}

\* The order has the layers that came before, complete, and no later ones.
LayerInv ==
    /\ pc \in {"start", "expand"} => out = <<>> /\ layer = 0
    /\ pc \in {"edges", "sort"} <=> pc \in Ordering /\ layer = OperationsLayer
    /\ pc \in Ordering => /\ \A f \in Taken : Layer(f) <= layer
                          /\ \A f \in paths : Layer(f) < layer => f \in Taken
    /\ pc = "start" => paths = {}
    /\ pc = "edges" => Taken \cap Operations = {}
    /\ pc \in Copying => paths \subseteq Taken

\* An operation's indegree counts the parents that are not in order yet, and
\* it is ready when it is not in order itself and has none.
SortInv ==
    pc = "sort" =>
        /\ Sortable(OpsIn(paths))
        /\ \A w \in OpsIn(paths) : indegree[w] = Cardinality(parents[w] \ Taken)
        /\ ready = {w \in OpsIn(paths) \ Taken : indegree[w] = 0}

\* What is put in order has the parents of all it has, if the source does.
PathsInv ==
    /\ pc = "expand" => \A o \in (paths \cap Operations) \ stack : parents[o] \subseteq paths
    /\ pc \in Ordering => (ParentsKept(source) => ParentsKept(paths))

\* What has been copied, and what the target had before, is in the target.
CopyInv ==
    /\ pc # "start" => source \ needed \subseteq target /\ needed \subseteq paths
    /\ pc \in Copying => \A i \in DOMAIN out : i < next => out[i] \in target
    /\ pc \notin Copying => next = 1

Inv ==
    /\ TypeOK /\ LayerInv /\ SortInv /\ PathsInv /\ CopyInv
    /\ InOrder /\ TargetComplete /\ FailsIfBroken /\ DoneIsWhole

\* What is in a sequence, and in one that is longer by one.
LEMMA ElementsOf ==
    ASSUME NEW S, NEW s \in Seq(S)
    PROVE  /\ DOMAIN s = 1 .. Len(s) /\ Len(s) \in Nat
           /\ \A i \in 1 .. Len(s) : s[i] \in S /\ s[i] \in Elements(s)
           /\ \A f : f \in Elements(s) <=> \E i \in 1 .. Len(s) : s[i] = f
  BY DEF Elements

LEMMA ElementsAppend ==
    ASSUME NEW S, NEW s \in Seq(S), NEW f \in S
    PROVE  /\ Append(s, f) \in Seq(S)
           /\ Elements(Append(s, f)) = Elements(s) \cup {f}
<1>1. Append(s, f) \in Seq(S) /\ Len(Append(s, f)) = Len(s) + 1 /\ Len(s) \in Nat
  OBVIOUS
<1>2. \A i \in 1 .. Len(s) + 1 : Append(s, f)[i] = IF i <= Len(s) THEN s[i] ELSE f
  OBVIOUS
<1>3. \A g : g \in Elements(Append(s, f)) <=> g \in Elements(s) \cup {f}
  <2>1. ASSUME NEW g, g \in Elements(Append(s, f)) PROVE g \in Elements(s) \cup {f}
    <3>1. PICK i \in 1 .. Len(s) + 1 : Append(s, f)[i] = g
      BY <1>1, <2>1, ElementsOf
    <3>2. CASE i <= Len(s)
      BY <1>1, <1>2, <3>1, <3>2, ElementsOf
    <3>3. CASE i > Len(s)
      BY <1>1, <1>2, <3>1, <3>3
    <3>4. QED
      BY <1>1, <3>2, <3>3
  <2>2. ASSUME NEW g \in Elements(s) PROVE g \in Elements(Append(s, f))
    <3>1. PICK i \in 1 .. Len(s) : s[i] = g
      BY ElementsOf
    <3>2. i \in 1 .. Len(s) + 1 /\ Append(s, f)[i] = g
      BY <1>1, <1>2, <3>1
    <3>3. QED
      BY <1>1, <3>2, ElementsOf
  <2>3. f \in Elements(Append(s, f))
    <3>1. Len(s) + 1 \in 1 .. Len(s) + 1 /\ Append(s, f)[Len(s) + 1] = f
      BY <1>1, <1>2
    <3>2. QED
      BY <1>1, <3>1, ElementsOf
  <2>4. QED
    BY <2>1, <2>2, <2>3
<1>4. QED
  BY <1>1, <1>3

\* The layers of files.
LEMMA LayerFacts ==
    /\ \A f \in Files : Layer(f) \in Layers
    /\ \A f \in Files : Layer(f) = OperationsLayer <=> f \in Operations \cup Damaged
    /\ \A f \in Files : f \in Others <=> f \notin Operations \cup Damaged
<1>1. \A f \in Others : LayerOf[f] \in Layers \ {OperationsLayer} /\ f \notin Operations \cup Damaged
  BY OrderAssumption
<1>2. \A f \in Files \ Others : Layer(f) = OperationsLayer /\ f \in Operations \cup Damaged
  BY DEF Files, Layer
<1>3. QED
  BY <1>1, <1>2 DEF Files, Layer, Layers, OperationsLayer

LEMMA Finite == \A S \in SUBSET Operations : IsFiniteSet(S)
  BY OrderAssumption, FS_Subset DEF Files

LEMMA Typed ==
    ASSUME TypeOK
    PROVE  /\ out \in Seq(paths)
           /\ Taken \subseteq paths /\ paths \subseteq source /\ source \subseteq Files
           /\ \A o \in Operations : parents[o] \subseteq Operations
           /\ needed \subseteq source /\ OpsIn(paths) \subseteq paths
           /\ layer \in Layers
<1>1. out \in Seq(paths)
  BY DEF TypeOK
<1>2. Taken \subseteq paths
  BY <1>1, ElementsOf DEF Taken
<1>3. QED
  BY <1>1, <1>2 DEF TypeOK, OpsIn

\* What a step that takes a file does to the order.
LEMMA TakeAppends ==
    ASSUME TypeOK, NEW f \in paths, out' = Append(out, f), paths' = paths
    PROVE  out' \in Seq(paths) /\ Taken' = Taken \cup {f}
  BY Typed, ElementsAppend DEF Taken

LEMMA InOrderAppend ==
    ASSUME TypeOK, InOrder, NEW f \in paths \ Taken, out' = Append(out, f), parents' = parents,
           \A g \in Taken : Layer(g) <= Layer(f),
           f \in Operations => parents[f] \subseteq Taken
    PROVE  InOrder'
<1>1. /\ out \in Seq(paths) /\ DOMAIN out = 1 .. Len(out) /\ Len(out) \in Nat
      /\ \A i \in 1 .. Len(out) : out[i] \in Taken
      /\ \A g \in Taken : \E i \in 1 .. Len(out) : out[i] = g
  BY Typed, ElementsOf DEF Taken
<1>2. DOMAIN out' = 1 .. Len(out) + 1 /\ \A i \in 1 .. Len(out) : out'[i] = out[i]
  BY <1>1
<1>3. out'[Len(out) + 1] = f
  BY <1>1
<1>4. ASSUME NEW i \in 1 .. Len(out)
      PROVE  /\ \A j \in 1 .. i - 1 : out'[j] # out'[i] /\ Layer(out'[j]) <= Layer(out'[i])
             /\ out'[i] \in Operations => \A p \in parents[out'[i]] : \E j \in 1 .. i - 1 : out'[j] = p
  <2>1. out'[i] = out[i] /\ \A j \in 1 .. i - 1 : j \in 1 .. Len(out) /\ out'[j] = out[j]
    BY <1>1, <1>2
  <2>2. /\ \A j \in 1 .. i - 1 : out[j] # out[i] /\ Layer(out[j]) <= Layer(out[i])
        /\ out[i] \in Operations => \A p \in parents[out[i]] : \E j \in 1 .. i - 1 : out[j] = p
    BY <1>1, Zenon DEF InOrder
  <2>3. \A j \in 1 .. i - 1 : out'[j] # out'[i] /\ Layer(out'[j]) <= Layer(out'[i])
    BY <2>1, <2>2, Zenon
  <2>4. ASSUME out'[i] \in Operations, NEW p \in parents[out'[i]]
        PROVE  \E j \in 1 .. i - 1 : out'[j] = p
    <3>1. PICK j \in 1 .. i - 1 : out[j] = p
      BY <2>1, <2>2, <2>4, Zenon
    <3>2. QED
      BY <3>1, <2>1, Zenon
  <2>5. QED
    BY <2>3, <2>4, Zenon
<1>5. /\ \A j \in 1 .. Len(out) : out'[j] # f /\ Layer(out'[j]) <= Layer(f)
      /\ f \in Operations => \A p \in parents[f] : \E j \in 1 .. Len(out) : out'[j] = p
  <2>1. \A j \in 1 .. Len(out) : out'[j] # f /\ Layer(out'[j]) <= Layer(f)
    BY <1>1, <1>2, Zenon
  <2>2. ASSUME f \in Operations, NEW p \in parents[f]
        PROVE  \E j \in 1 .. Len(out) : out'[j] = p
    <3>1. PICK j \in 1 .. Len(out) : out[j] = p
      BY <1>1, <2>2, Zenon
    <3>2. QED
      BY <3>1, <1>2, Zenon
  <2>3. QED
    BY <2>1, <2>2, Zenon
<1>6. ASSUME NEW i \in DOMAIN out'
      PROVE  /\ \A j \in 1 .. i - 1 : out'[j] # out'[i] /\ Layer(out'[j]) <= Layer(out'[i])
             /\ out'[i] \in Operations => \A p \in parents'[out'[i]] : \E j \in 1 .. i - 1 : out'[j] = p
  <2>1. CASE i \in 1 .. Len(out)
    BY <1>4, <2>1
  <2>2. CASE i = Len(out) + 1
    <3>1. i - 1 = Len(out) /\ out'[i] = f
      BY <1>1, <1>3, <2>2
    <3>2. QED
      BY <1>5, <3>1
  <2>3. i \in 1 .. Len(out) + 1 /\ Len(out) \in Nat
    BY <1>1, <1>2, Zenon
  <2>4. i \in 1 .. Len(out) \/ i = Len(out) + 1
    <3>1. ASSUME NEW n \in Nat, i \in 1 .. n + 1 PROVE i \in 1 .. n \/ i = n + 1
      BY <3>1
    <3>2. QED
      BY <2>3, <3>1
  <2>5. QED
    BY <2>1, <2>2, <2>4
<1>7. QED
  BY <1>6, Zenon DEF InOrder

\* A step keeps the types.
LEMMA TypeStep == Inv /\ [Next]_vars => TypeOK'
<1> SUFFICES ASSUME Inv, [Next]_vars PROVE TypeOK'
  OBVIOUS
<1>t. TypeOK
  BY DEF Inv
<1> USE <1>t, Typed, OrderAssumption DEF TypeOK, Layers
<1>1. CASE UNCHANGED vars
  BY <1>1 DEF vars, input, graph
<1>2. CASE StartAll
  <2>1. out = <<>>
    BY <1>2 DEF StartAll, Inv, LayerInv
  <2>2. UNCHANGED <<source, parents, target, layer, indegree, ready, out, next, stack>> /\ pc' = "order"
    BY <1>2 DEF StartAll, input, graph
  <2>3. needed' \subseteq source /\ paths' = source /\ paths \subseteq source
    BY <1>2 DEF StartAll
  <2>4. stack' \subseteq OpsIn(paths')
    BY <2>2, <2>3 DEF OpsIn
  <2>5. ready' \subseteq paths' \cap Operations /\ out' \in Seq(paths')
    BY <2>1, <2>2, <2>3
  <2>6. QED
    BY <2>2, <2>3, <2>4, <2>5
<1>3. CASE StartPush
  <2>1. out = <<>>
    BY <1>3 DEF StartPush, Inv, LayerInv
  <2>r. ready = {}
    BY <1>3 DEF StartPush, Inv, LayerInv
  <2>2. UNCHANGED <<source, parents, target, layer, indegree, ready, out, next>> /\ pc' = "expand"
    BY <1>3 DEF StartPush, input, graph
  <2>3. needed' \subseteq source /\ paths' \subseteq source /\ stack' = OpsIn(paths')
    BY <1>3 DEF StartPush
  <2>5. ready' \subseteq paths' \cap Operations /\ out' \in Seq(paths')
    BY <2>1, <2>r, <2>2
  <2>6. QED
    BY <2>2, <2>3, <2>5
<1>4. CASE Expand
  <2>1. out = <<>> /\ out \in Seq(paths')
    BY <1>4 DEF Expand, Inv, LayerInv
  <2>2. UNCHANGED <<source, parents, target, needed, layer, indegree, ready, out, next>>
    BY <1>4 DEF Expand, input, graph
  <2>3. PICK child \in stack :
            IF child \in Damaged \/ ~(parents[child] \subseteq paths \cup source)
            THEN pc' = "failed" /\ UNCHANGED <<paths, stack>>
            ELSE /\ paths' = paths \cup parents[child]
                 /\ stack' = (stack \ {child}) \cup (parents[child] \ paths)
                 /\ UNCHANGED pc
    BY <1>4 DEF Expand
  <2>4. CASE child \in Damaged \/ ~(parents[child] \subseteq paths \cup source)
    BY <2>1, <2>2, <2>3, <2>4
  <2>5. CASE child \notin Damaged /\ parents[child] \subseteq paths \cup source
    <3>1. child \in Operations /\ parents[child] \subseteq Operations
      BY <2>5 DEF OpsIn
    <3>2. paths' \subseteq source /\ paths \subseteq paths' /\ stack' \subseteq OpsIn(paths') /\ pc' = pc
      BY <2>3, <2>5, <3>1 DEF OpsIn
    <3>3. QED
      BY <2>1, <2>2, <3>2
  <2>6. QED
    BY <2>4, <2>5
<1>5. CASE Expanded
  BY <1>5 DEF Expanded, input, graph
<1>6. CASE TakeOther
  <2>1. PICK f \in First(Left) : out' = Append(out, f)
    BY <1>6 DEF TakeOther
  <2>2. f \in paths /\ UNCHANGED <<source, parents, target, pc, needed, paths, stack, layer, indegree, ready, next>>
    BY <2>1, <1>6 DEF First, Left, TakeOther, input, graph
  <2>3. out' \in Seq(paths)
    BY <2>1, <2>2, TakeAppends
  <2>4. QED
    BY <2>2, <2>3
<1>7. CASE NextLayer
  <2>1. layer' \in 0 .. 7 /\ pc' \in {"copy", "edges", "order"}
    BY <1>7 DEF NextLayer
  <2>2. UNCHANGED <<source, parents, target, needed, paths, stack, indegree, ready, out, next>>
    BY <1>7 DEF NextLayer, input, graph
  <2>3. QED
    BY <2>1, <2>2
<1>8. CASE Edges
  <2>1. UNCHANGED <<source, parents, target, needed, paths, stack, layer, out, next>>
    BY <1>8 DEF Edges, input
  <2>2. CASE Sortable(OpsIn(paths))
    <3>1. \A o \in Operations : IsFiniteSet(parents[o])
      BY Finite
    <3>2. indegree' \in [Operations -> Nat]
      BY <3>1, <2>2, <1>8, FS_CardinalityType DEF Edges
    <3>3. ready' \subseteq paths \cap Operations /\ pc' = "sort"
      BY <2>2, <1>8 DEF Edges, OpsIn, Sortable
    <3>4. QED
      BY <2>1, <3>2, <3>3
  <2>3. CASE ~Sortable(OpsIn(paths))
    BY <2>1, <2>3, <1>8 DEF Edges, graph
  <2>4. QED
    BY <2>2, <2>3
<1>9. CASE TakeOperation
  <2>1. PICK o \in First(ready) :
            /\ out' = Append(out, o)
            /\ indegree' = [w \in Operations |-> IF w \in Children(o) THEN indegree[w] - 1 ELSE indegree[w]]
            /\ ready' = (ready \ {o}) \cup {w \in Children(o) : indegree'[w] = 0}
    BY <1>9 DEF TakeOperation
  <2>2. UNCHANGED <<source, parents, target, pc, needed, paths, stack, layer, next>>
    BY <1>9 DEF TakeOperation, input
  <2>3. o \in ready /\ o \in paths \cap Operations /\ o \notin Taken
    BY <2>1, <1>9 DEF First, TakeOperation, Inv, SortInv
  <2>4. out' \in Seq(paths)
    BY <2>1, <2>2, <2>3, TakeAppends
  <2>5. ASSUME NEW w \in Children(o) PROVE w \in Operations /\ w \in paths /\ indegree[w] \in Nat \ {0}
    <3>1. w \in OpsIn(paths) /\ o \in parents[w] \ Taken /\ w \in Operations
      BY <2>3, <1>9 DEF Children, TakeOperation, Inv, SortInv, Sortable, OpsIn
    <3>2. indegree[w] = Cardinality(parents[w] \ Taken) /\ IsFiniteSet(parents[w] \ Taken)
      BY <3>1, <1>9, Finite DEF TakeOperation, Inv, SortInv
    <3>3. indegree[w] # 0
      BY <3>1, <3>2, FS_EmptySet
    <3>4. QED
      BY <3>1, <3>3
  <2>6. indegree' \in [Operations -> Nat]
    BY <2>1, <2>5
  <2>7. ready' \subseteq paths \cap Operations
    BY <2>1, <2>5
  <2>8. QED
    BY <2>2, <2>4, <2>6, <2>7
<1>10. CASE Sorted
  <2>1. UNCHANGED <<source, parents, target, needed, paths, stack, indegree, ready, out, next>>
    BY <1>10 DEF Sorted, input, graph
  <2>2. layer' \in 0 .. 7 /\ pc' \in {"order", "failed"}
    BY <1>10 DEF Sorted, OperationsLayer
  <2>3. QED
    BY <2>1, <2>2
<1>11. CASE Copy
  <2>1. target' \subseteq Files
    <3>1. target' \subseteq target \cup needed
      BY <1>11 DEF Copy
    <3>2. QED
      BY <3>1
  <2>n. next' \in Nat \ {0}
    BY <1>11 DEF Copy
  <2>2. UNCHANGED <<source, parents, pc, needed, paths, stack, layer, indegree, ready, out>>
    BY <1>11 DEF Copy, input, graph
  <2>3. QED
    BY <2>1, <2>n, <2>2
<1>12. CASE Finish
  BY <1>12 DEF Finish, input, graph
<1>13. CASE Stop
  BY <1>13 DEF Stop, input, graph
<1>14. QED
  BY <1>1, <1>2, <1>3, <1>4, <1>5, <1>6, <1>7, <1>8, <1>9, <1>10, <1>11, <1>12, <1>13 DEF Next, Step

\* Taking a file adds one of the current layer, after all its parents.
LEMMA TakesOne ==
    ASSUME Inv, TakeOther \/ TakeOperation
    PROVE  \E f \in paths \ Taken :
              /\ out' = Append(out, f) /\ Taken' = Taken \cup {f}
              /\ Layer(f) = layer /\ \A g \in Taken : Layer(g) <= Layer(f)
              /\ f \in Operations => parents[f] \subseteq Taken
              /\ TakeOther => f \notin Operations
<1>t. TypeOK /\ Taken \subseteq paths /\ paths \subseteq Files
  BY Typed DEF Inv
<1>1. CASE TakeOther
  <2>1. PICK f \in Left : out' = Append(out, f)
    BY <1>1 DEF TakeOther, First
  <2>2. f \in paths \ Taken /\ Layer(f) = layer /\ paths' = paths
    BY <1>1, <2>1 DEF Left, Taken, TakeOther
  <2>3. pc = "order" /\ layer # OperationsLayer /\ \A g \in Taken : Layer(g) <= layer
    BY <1>1 DEF TakeOther, Inv, LayerInv, Ordering
  <2>4. f \notin Operations
    BY <1>t, <2>2, <2>3, LayerFacts
  <2>5. Taken' = Taken \cup {f}
    BY <1>t, <2>1, <2>2, TakeAppends
  <2>6. QED
    BY <2>1, <2>2, <2>3, <2>4, <2>5
<1>2. CASE TakeOperation
  <2>1. PICK f \in ready : out' = Append(out, f)
    BY <1>2 DEF TakeOperation, First
  <2>2. /\ pc = "sort" /\ layer = OperationsLayer /\ paths' = paths
        /\ f \in OpsIn(paths) \ Taken /\ indegree[f] = 0 /\ f \in Operations
        /\ indegree[f] = Cardinality(parents[f] \ Taken)
        /\ \A g \in Taken : Layer(g) <= layer
    BY <1>2, <2>1, <1>t DEF TakeOperation, Inv, LayerInv, Ordering, SortInv, TypeOK
  <2>3. parents[f] \subseteq Taken
    <3>1. IsFiniteSet(parents[f] \ Taken)
      BY <1>t, <2>2, Typed, Finite
    <3>2. QED
      BY <2>2, <3>1, FS_EmptySet
  <2>4. f \in paths \ Taken /\ Layer(f) = layer
    BY <1>t, <2>2, LayerFacts DEF OpsIn
  <2>5. Taken' = Taken \cup {f}
    BY <1>t, <2>1, <2>2, <2>4, TakeAppends
  <2>6. QED
    BY <1>2, <2>1, <2>2, <2>3, <2>4, <2>5 DEF TakeOther, TakeOperation
<1>3. QED
  BY <1>1, <1>2

LEMMA OrderStep == Inv /\ [Next]_vars => InOrder'
<1> SUFFICES ASSUME Inv, [Next]_vars PROVE InOrder'
  OBVIOUS
<1>1. CASE TakeOther \/ TakeOperation
  <2>1. parents' = parents
    BY <1>1 DEF TakeOther, TakeOperation, input
  <2>2. QED
    BY <1>1, <2>1, TakesOne, InOrderAppend DEF Inv
<1>2. CASE ~(TakeOther \/ TakeOperation)
  <2>1. out' = out /\ parents' = parents
    BY <1>2 DEF Next, Step, vars, input, StartAll, StartPush, Expand, Expanded, NextLayer, Edges,
       Sorted, Copy, Finish, Stop
  <2>2. QED
    BY <2>1 DEF Inv, InOrder
<1>3. QED
  BY <1>1, <1>2

LEMMA LayerStep == Inv /\ [Next]_vars => LayerInv'
<1> SUFFICES ASSUME Inv, [Next]_vars PROVE LayerInv'
  OBVIOUS
<1>t. TypeOK /\ Taken \subseteq paths /\ paths \subseteq Files /\ layer \in Layers /\ LayerInv
  BY Typed DEF Inv
<1>o. out' = out => Taken' = Taken
  BY DEF Taken
<1>e. out = <<>> => Taken = {}
  BY DEF Taken, Elements
<1> USE <1>t, <1>o, <1>e DEF LayerInv, Ordering, Copying, OperationsLayer, Layers
<1>1. CASE UNCHANGED vars
  BY <1>1 DEF vars, input, graph
<1>2. CASE StartAll
  <2>1. out' = out /\ layer' = layer /\ pc' = "order" /\ out = <<>> /\ layer = 0
    BY <1>2 DEF StartAll
  <2>2. \A f \in paths' : f \in Files
    BY <1>2 DEF StartAll, TypeOK
  <2>3. \A f \in paths' : ~(Layer(f) < 0)
    BY <2>2, LayerFacts
  <2>4. QED
    BY <2>1, <2>3
<1>3. CASE StartPush
  BY <1>3 DEF StartPush, input, graph
<1>4. CASE Expand
  BY <1>4 DEF Expand, input, graph
<1>5. CASE Expanded
  <2>1. out' = out /\ layer' = layer /\ pc' = "order" /\ out = <<>> /\ layer = 0 /\ paths' = paths
    BY <1>5 DEF Expanded
  <2>2. \A f \in paths : ~(Layer(f) < 0)
    BY LayerFacts
  <2>3. QED
    BY <2>1, <2>2
<1>6. CASE TakeOther
  <2>1. PICK f \in paths \ Taken : Taken' = Taken \cup {f} /\ Layer(f) = layer
    BY <1>6, TakesOne
  <2>2. pc = "order" /\ UNCHANGED <<pc, layer, paths>>
    BY <1>6 DEF TakeOther
  <2>3. QED
    BY <2>1, <2>2
<1>7. CASE NextLayer
  <2>1. /\ pc = "order" /\ layer # 3 /\ UNCHANGED <<paths, out>>
        /\ layer' = IF layer = 7 THEN 7 ELSE layer + 1
        /\ pc' = IF layer = 7 THEN "copy" ELSE IF layer' = 3 THEN "edges" ELSE "order"
    BY <1>7 DEF NextLayer
  <2>2. \A f \in paths : Layer(f) \in 0 .. 7 /\ (Layer(f) = layer => f \in Taken)
    BY <1>7, LayerFacts DEF NextLayer, Left, Taken
  <2>3. \A f \in paths : Layer(f) <= layer => f \in Taken
    BY <2>1, <2>2
  <2>4. CASE layer = 7
    BY <2>1, <2>2, <2>3, <2>4
  <2>5. CASE layer # 7
    <3>1. layer' = layer + 1 /\ layer \in 0 .. 6 /\ pc' \in {"edges", "order"} /\ (pc' = "edges" <=> layer' = 3)
      BY <2>1, <2>5
    <3>2. \A f \in Taken : Layer(f) <= layer /\ Layer(f) \in 0 .. 7
      BY <2>1, <2>2
    <3>3. \A f \in Taken' : Layer(f) <= layer'
      BY <2>1, <3>1, <3>2
    <3>4. \A f \in paths' : Layer(f) < layer' => f \in Taken'
      BY <2>1, <2>2, <2>3, <3>1
    <3>5. pc' = "edges" => Taken' \cap Operations = {}
      BY <2>1, <3>1, <3>2, LayerFacts
    <3>6. QED
      BY <3>1, <3>3, <3>4, <3>5
  <2>6. QED
    BY <2>4, <2>5
<1>8. CASE Edges
  BY <1>8 DEF Edges, input, graph
<1>9. CASE TakeOperation
  <2>1. PICK f \in paths \ Taken : Taken' = Taken \cup {f} /\ Layer(f) = layer
    BY <1>9, TakesOne
  <2>2. pc = "sort" /\ UNCHANGED <<pc, layer, paths>>
    BY <1>9 DEF TakeOperation
  <2>3. QED
    BY <2>1, <2>2
<1>10. CASE Sorted
  <2>1. pc = "sort" /\ layer = 3 /\ UNCHANGED <<paths, out>>
    BY <1>10 DEF Sorted
  <2>2. CASE OpsIn(paths) \subseteq Taken
    <3>1. pc' = "order" /\ layer' = 4
      BY <1>10, <2>2 DEF Sorted, Taken
    <3>2. \A f \in paths : Layer(f) \in 0 .. 7 /\ (Layer(f) = 3 => f \in Taken)
      BY <2>2, LayerFacts DEF OpsIn
    <3>3. \A f \in paths' : Layer(f) < layer' => f \in Taken'
      BY <2>1, <3>1, <3>2
    <3>4. \A f \in Taken' : Layer(f) <= layer'
      BY <2>1, <3>1, <3>2
    <3>5. QED
      BY <3>1, <3>3, <3>4
  <2>3. CASE ~(OpsIn(paths) \subseteq Taken)
    BY <1>10, <2>1, <2>3 DEF Sorted, Taken
  <2>4. QED
    BY <2>2, <2>3
<1>11. CASE Copy
  BY <1>11 DEF Copy, input, graph
<1>12. CASE Finish
  BY <1>12 DEF Finish, input, graph
<1>13. CASE Stop
  BY <1>13 DEF Stop, input, graph
<1>14. QED
  BY <1>1, <1>2, <1>3, <1>4, <1>5, <1>6, <1>7, <1>8, <1>9, <1>10, <1>11, <1>12, <1>13 DEF Next, Step

LEMMA SortStep == Inv /\ [Next]_vars => SortInv'
<1> SUFFICES ASSUME Inv, [Next]_vars, pc' = "sort"
             PROVE  /\ Sortable(OpsIn(paths))'
                    /\ \A w \in OpsIn(paths)' : indegree'[w] = Cardinality(parents'[w] \ Taken')
                    /\ ready' = {w \in OpsIn(paths)' \ Taken' : indegree'[w] = 0}
  BY DEF SortInv
<1>t. TypeOK /\ LayerInv /\ SortInv
  BY DEF Inv
<1>1. CASE Edges
  <2>1. Sortable(OpsIn(paths)) /\ UNCHANGED <<paths, parents, out>> /\ Taken' = Taken
    BY <1>1 DEF Edges, input, Taken
  <2>2. /\ indegree' = [o \in Operations |-> Cardinality(parents[o])]
        /\ ready' = {o \in OpsIn(paths) : indegree'[o] = 0}
    BY <1>1, <2>1 DEF Edges
  <2>3. OpsIn(paths) \subseteq Operations
    BY <2>1 DEF Sortable, OpsIn
  <2>4. Taken \cap Operations = {}
    BY <1>1, <1>t DEF Edges, LayerInv
  <2>5. \A w \in OpsIn(paths) : parents[w] \ Taken = parents[w] /\ w \notin Taken
    BY <2>3, <2>4, <1>t, Typed
  <2>6. QED
    BY <2>1, <2>2, <2>3, <2>5 DEF Sortable, OpsIn
<1>2. CASE TakeOperation
  <2>1. PICK o \in ready :
            /\ out' = Append(out, o)
            /\ indegree' = [w \in Operations |-> IF w \in Children(o) THEN indegree[w] - 1 ELSE indegree[w]]
            /\ ready' = (ready \ {o}) \cup {w \in Children(o) : indegree'[w] = 0}
    BY <1>2 DEF TakeOperation, First
  <2>2. UNCHANGED <<paths, parents>> /\ pc = "sort"
    BY <1>2 DEF TakeOperation, input
  <2>3. /\ Sortable(OpsIn(paths)) /\ OpsIn(paths) \subseteq Operations
        /\ \A w \in OpsIn(paths) : indegree[w] = Cardinality(parents[w] \ Taken)
        /\ ready = {w \in OpsIn(paths) \ Taken : indegree[w] = 0}
    BY <2>2, <1>t DEF SortInv, Sortable, OpsIn
  <2>4. Taken' = Taken \cup {o}
    BY <1>t, <2>1, <2>2, TakeAppends DEF TypeOK
  <2>5. ASSUME NEW w \in OpsIn(paths)
        PROVE  /\ indegree'[w] = Cardinality(parents[w] \ Taken')
               /\ w \notin Children(o) => indegree'[w] = indegree[w]
               /\ w \in Children(o) => indegree[w] # 0
    <3>1. IsFiniteSet(parents[w] \ Taken) /\ parents[w] \ Taken' = (parents[w] \ Taken) \ {o}
      BY <2>3, <2>4, <1>t, Typed, Finite
    <3>2. Cardinality((parents[w] \ Taken) \ {o})
              = IF o \in parents[w] \ Taken THEN Cardinality(parents[w] \ Taken) - 1
                                            ELSE Cardinality(parents[w] \ Taken)
      BY <3>1, FS_RemoveElement
    <3>3. o \in parents[w] \ Taken <=> w \in Children(o)
      BY <2>1, <2>3 DEF Children
    <3>4. w \in Children(o) => indegree[w] # 0
      BY <3>1, <3>3, <2>3, FS_EmptySet
    <3>5. indegree'[w] = IF w \in Children(o) THEN indegree[w] - 1 ELSE indegree[w]
      BY <2>1, <2>3
    <3>6. QED
      BY <3>1, <3>2, <3>3, <3>4, <3>5, <2>3
  <2>6. Children(o) \subseteq OpsIn(paths)
    BY DEF Children
  <2>7. \A w \in Children(o) : w # o /\ w \notin Taken
    <3>1. ASSUME NEW w \in Children(o), w \in Taken PROVE FALSE
      <4>1. PICK i \in DOMAIN out : out[i] = w
        BY <3>1 DEF Taken, Elements
      <4>2. PICK j \in 1 .. i - 1 : out[j] = o
        BY <4>1, <2>3, <2>6 DEF Children, Inv, InOrder
      <4>3. o \in Taken
        <5>1. out \in Seq(paths) /\ i \in 1 .. Len(out) /\ Len(out) \in Nat
          BY <1>t, Typed, ElementsOf
        <5>2. j \in 1 .. Len(out)
          BY <5>1
        <5>3. QED
          BY <4>2, <5>1, <5>2, ElementsOf DEF Taken
      <4>4. QED
        BY <4>3, <2>1, <2>3
    <3>2. QED
      BY <3>1, <2>3 DEF Children, Sortable
  <2>8. ready' = {w \in OpsIn(paths) \ Taken' : indegree'[w] = 0}
    <3>1. ASSUME NEW w \in ready' PROVE w \in OpsIn(paths) \ Taken' /\ indegree'[w] = 0
      <4>1. CASE w \in ready \ {o}
        <5>1. w \in OpsIn(paths) \ Taken' /\ indegree[w] = 0
          BY <4>1, <2>3, <2>4
        <5>2. QED
          BY <5>1, <2>5
      <4>2. CASE w \in Children(o) /\ indegree'[w] = 0
        BY <4>2, <2>4, <2>6, <2>7
      <4>3. QED
        BY <3>1, <2>1, <4>1, <4>2
    <3>2. ASSUME NEW w \in OpsIn(paths) \ Taken', indegree'[w] = 0 PROVE w \in ready'
      BY <3>2, <2>1, <2>3, <2>4, <2>5
    <3>3. QED
      BY <3>1, <3>2
  <2>9. QED
    <3>1. Sortable(OpsIn(paths))' /\ OpsIn(paths)' = OpsIn(paths)
      BY <2>2, <2>3 DEF Sortable, OpsIn
    <3>2. QED
      BY <2>2, <2>5, <2>8, <3>1
<1>3. CASE ~Edges /\ ~TakeOperation
  <2>1. pc = "sort" /\ UNCHANGED <<paths, parents, out, indegree, ready>>
    BY <1>3 DEF Next, Step, vars, input, graph, StartAll, StartPush, Expand, Expanded, TakeOther,
       NextLayer, Sorted, Copy, Finish, Stop
  <2>2. QED
    BY <1>t, <2>1 DEF SortInv, Taken, Sortable, OpsIn
<1>4. QED
  BY <1>1, <1>2, <1>3

\* What expanding an operation does.
LEMMA ExpandStep ==
    ASSUME Inv, Expand
    PROVE  \E child \in stack :
              \/ /\ child \in Damaged \/ ~(parents[child] \subseteq source)
                 /\ pc' = "failed" /\ paths' = paths /\ stack' = stack
              \/ /\ child \in Operations /\ parents[child] \subseteq source
                 /\ paths' = paths \cup parents[child]
                 /\ stack' = (stack \ {child}) \cup (parents[child] \ paths)
                 /\ pc' = "expand"
<1>1. PICK child \in stack :
          IF child \in Damaged \/ ~(parents[child] \subseteq paths \cup source)
          THEN pc' = "failed" /\ UNCHANGED <<paths, stack>>
          ELSE /\ paths' = paths \cup parents[child]
               /\ stack' = (stack \ {child}) \cup (parents[child] \ paths)
               /\ UNCHANGED pc
  BY DEF Expand
<1>2. paths \cup source = source /\ child \in Operations \cup Damaged /\ pc = "expand"
  BY DEF Inv, TypeOK, OpsIn, Expand
<1>3. QED
  BY <1>1, <1>2

LEMMA PathsStep == Inv /\ [Next]_vars => PathsInv'
<1> SUFFICES ASSUME Inv, [Next]_vars PROVE PathsInv'
  OBVIOUS
<1>t. TypeOK /\ PathsInv
  BY DEF Inv
<1> USE <1>t, Typed DEF PathsInv, ParentsKept, Ordering
<1>1. CASE UNCHANGED vars
  BY <1>1 DEF vars, input
<1>2. CASE StartAll
  BY <1>2 DEF StartAll, input
<1>3. CASE StartPush
  BY <1>3 DEF StartPush, input, OpsIn
<1>4. CASE Expand
  <2>1. UNCHANGED <<source, parents>>
    BY <1>4 DEF Expand, input
  <2>2. pc = "expand" /\ pc' \notin {"order", "edges", "sort"}
    BY <1>4, ExpandStep DEF Expand
  <2>3. pc' = "expand" => \A o \in (paths' \cap Operations) \ stack' : parents[o] \subseteq paths'
    BY <1>4, <2>2, ExpandStep
  <2>4. QED
    BY <2>1, <2>2, <2>3
<1>5. CASE Expanded
  BY <1>5 DEF Expanded, input
<1>6. CASE TakeOther
  BY <1>6 DEF TakeOther, input
<1>7. CASE NextLayer
  BY <1>7 DEF NextLayer, input
<1>8. CASE Edges
  BY <1>8 DEF Edges, input
<1>9. CASE TakeOperation
  BY <1>9 DEF TakeOperation, input
<1>10. CASE Sorted
  BY <1>10 DEF Sorted, input
<1>11. CASE Copy
  BY <1>11 DEF Copy, input
<1>12. CASE Finish
  BY <1>12 DEF Finish, input
<1>13. CASE Stop
  BY <1>13 DEF Stop, input
<1>14. QED
  BY <1>1, <1>2, <1>3, <1>4, <1>5, <1>6, <1>7, <1>8, <1>9, <1>10, <1>11, <1>12, <1>13 DEF Next, Step

LEMMA CopyStep == Inv /\ [Next]_vars => CopyInv'
<1> SUFFICES ASSUME Inv, [Next]_vars PROVE CopyInv'
  OBVIOUS
<1>t. TypeOK /\ CopyInv /\ LayerInv
  BY DEF Inv
<1> USE <1>t, Typed DEF CopyInv, Copying
<1>1. CASE UNCHANGED vars
  BY <1>1 DEF vars, input
<1>2. CASE StartAll
  BY <1>2 DEF StartAll, input
<1>3. CASE StartPush
  BY <1>3 DEF StartPush, input
<1>4. CASE Expand
  <2>1. UNCHANGED <<source, target, needed, next>> /\ pc = "expand"
    BY <1>4 DEF Expand, input
  <2>2. paths \subseteq paths' /\ pc' \in {"expand", "failed"}
    BY <1>4, ExpandStep
  <2>3. QED
    BY <2>1, <2>2
<1>5. CASE Expanded
  BY <1>5 DEF Expanded, input
<1>6. CASE TakeOther
  <2>1. UNCHANGED <<source, target, needed, paths, next, pc>> /\ pc = "order"
    BY <1>6 DEF TakeOther, input
  <2>2. QED
    BY <2>1
<1>7. CASE NextLayer
  <2>1. UNCHANGED <<source, target, needed, paths, out, next>> /\ pc = "order" /\ pc' \in {"copy", "edges", "order"}
    BY <1>7 DEF NextLayer, input
  <2>2. next' = 1 /\ \A i \in DOMAIN out : ~(i < 1)
    BY <2>1, ElementsOf
  <2>3. QED
    BY <2>1, <2>2
<1>8. CASE Edges
  BY <1>8 DEF Edges, input
<1>9. CASE TakeOperation
  <2>1. UNCHANGED <<source, target, needed, paths, next, pc>> /\ pc = "sort"
    BY <1>9 DEF TakeOperation, input
  <2>2. QED
    BY <2>1
<1>10. CASE Sorted
  BY <1>10 DEF Sorted, input
<1>11. CASE Copy
  <2>1. /\ pc = "copy" /\ UNCHANGED <<source, needed, paths, out, pc>>
        /\ next \in DOMAIN out /\ next' = next + 1
        /\ target' = target \cup ({out[next]} \cap needed)
    BY <1>11 DEF Copy, input
  <2>2. out[next] \in target'
    <3>1. out[next] \in source
      BY <2>1, ElementsOf
    <3>2. QED
      BY <2>1, <3>1
  <2>3. \A i \in DOMAIN out : i < next + 1 => i < next \/ i = next
    BY <2>1, ElementsOf
  <2>4. QED
    BY <2>1, <2>2, <2>3
<1>12. CASE Finish
  BY <1>12 DEF Finish, input
<1>13. CASE Stop
  BY <1>13 DEF Stop, input
<1>14. QED
  BY <1>1, <1>2, <1>3, <1>4, <1>5, <1>6, <1>7, <1>8, <1>9, <1>10, <1>11, <1>12, <1>13 DEF Next, Step

LEMMA TargetStep == Inv /\ [Next]_vars => TargetComplete'
<1> SUFFICES ASSUME Inv, [Next]_vars PROVE TargetComplete'
  OBVIOUS
<1>t. TypeOK /\ CopyInv /\ LayerInv /\ InOrder /\ TargetComplete
  BY DEF Inv
<1>1. CASE Copy
  <2>1. /\ pc = "copy" /\ UNCHANGED <<source, parents>>
        /\ next \in DOMAIN out
        /\ target' = target \cup ({out[next]} \cap needed)
    BY <1>1 DEF Copy, input
  <2>2. /\ out \in Seq(paths) /\ next \in 1 .. Len(out) /\ Len(out) \in Nat
        /\ DOMAIN out = 1 .. Len(out) /\ out[next] \in paths /\ out[next] \in Files
        /\ \A g \in paths : \E j \in 1 .. Len(out) : out[j] = g
    <3>1. out \in Seq(paths)
      BY <1>t, Typed
    <3>2. paths \subseteq Taken /\ paths \subseteq Files
      BY <1>t, <2>1, Typed DEF LayerInv, Copying
    <3>3. QED
      BY <2>1, <3>1, <3>2, ElementsOf DEF Taken
  <2>3. \A j \in 1 .. next - 1 : out[j] \in target
    BY <1>t, <2>1, <2>2 DEF CopyInv, Copying
  <2>4. out[next] \in Operations => parents[out[next]] \subseteq target
    BY <1>t, <2>1, <2>3 DEF InOrder
  <2>5. ParentsKept(target)'
    <3>1. SUFFICES ASSUME NEW o \in target' \cap Operations PROVE parents[o] \subseteq target'
      BY <2>1 DEF ParentsKept
    <3>2. CASE o \in target
      BY <1>t, <2>1, <3>1, <3>2 DEF TargetComplete, ParentsKept
    <3>3. CASE o \notin target
      BY <2>1, <2>4, <3>1, <3>3
    <3>4. QED
      BY <3>2, <3>3
  <2>6. ASSUME RefsKept(source) PROVE Refs[out[next]] \subseteq target'
    <3>1. SUFFICES ASSUME NEW g \in Refs[out[next]] PROVE g \in target
      BY <2>1
    <3>2. g \in source /\ g \in Files /\ Layer(g) < Layer(out[next])
      BY <1>t, <2>2, <2>6, Typed, OrderAssumption DEF RefsKept
    <3>3. CASE g \in needed
      <4>1. PICK j \in 1 .. Len(out) : out[j] = g
        BY <1>t, <2>1, <2>2, <3>3 DEF CopyInv
      <4>2. ~(j >= next)
        <5>1. CASE j = next
          BY <2>2, <3>2, <4>1, <5>1, LayerFacts DEF Layers
        <5>2. CASE j > next
          <6>1. next \in 1 .. j - 1
            BY <2>2, <4>1, <5>2
          <6>2. Layer(out[next]) <= Layer(g)
            BY <1>t, <2>2, <4>1, <6>1 DEF InOrder
          <6>3. QED
            BY <2>2, <3>2, <6>2, LayerFacts DEF Layers
        <5>3. QED
          BY <2>2, <4>1, <5>1, <5>2
      <4>3. j \in 1 .. next - 1
        BY <2>2, <4>1, <4>2
      <4>4. QED
        BY <2>3, <4>1, <4>3
    <3>4. CASE g \notin needed
      BY <1>t, <2>1, <3>2, <3>4 DEF CopyInv
    <3>5. QED
      BY <3>3, <3>4
  <2>7. ASSUME RefsKept(source) PROVE RefsKept(target)'
    <3>1. SUFFICES ASSUME NEW f \in target' PROVE Refs[f] \subseteq target'
      BY DEF RefsKept
    <3>2. CASE f \in target
      BY <1>t, <2>1, <2>7, <3>1, <3>2 DEF TargetComplete, RefsKept
    <3>3. CASE f \notin target
      BY <2>1, <2>6, <2>7, <3>1, <3>3
    <3>4. QED
      BY <3>2, <3>3
  <2>8. RefsKept(source)' => RefsKept(source)
    BY <2>1 DEF RefsKept
  <2>9. QED
    BY <2>5, <2>7, <2>8 DEF TargetComplete
<1>2. CASE ~Copy
  <2>1. UNCHANGED <<source, parents, target>>
    BY <1>2 DEF Next, Step, vars, input, StartAll, StartPush, Expand, Expanded, TakeOther, NextLayer,
       Edges, TakeOperation, Sorted, Finish, Stop
  <2>2. QED
    BY <1>t, <2>1 DEF TargetComplete, ParentsKept, RefsKept
<1>3. QED
  BY <1>1, <1>2

LEMMA FailsStep == Inv /\ [Next]_vars => FailsIfBroken'
<1> DEFINE Sane == source \cap Damaged = {} /\ ParentsKept(source) /\ Acyclic(source)
<1> SUFFICES ASSUME Inv, [Next]_vars, pc' = "failed" PROVE ~Sane'
  BY DEF FailsIfBroken
<1>u. UNCHANGED <<source, parents>>
  BY DEF Next, Step, vars, input, StartAll, StartPush, Expand, Expanded, TakeOther, NextLayer,
     Edges, TakeOperation, Sorted, Copy, Finish, Stop
<1>v. Sane' => Sane
  BY <1>u DEF ParentsKept, Acyclic
<1> SUFFICES ASSUME Sane PROVE FALSE
  BY <1>v
<1>t. /\ TypeOK /\ SortInv /\ PathsInv /\ paths \subseteq source
      /\ \A o \in Operations : parents[o] \subseteq Operations
  BY Typed DEF Inv
<1>1. CASE Expand
  <2>1. PICK child \in stack : child \in Damaged \/ ~(parents[child] \subseteq source)
    BY <1>1, ExpandStep
  <2>2. child \in source /\ child \in Operations \cup Damaged
    BY <1>t, <2>1 DEF TypeOK, OpsIn
  <2>3. QED
    BY <2>1, <2>2 DEF ParentsKept
<1>2. CASE Edges
  <2>1. pc = "edges" /\ ~Sortable(OpsIn(paths))
    BY <1>2 DEF Edges
  <2>2. ParentsKept(paths) /\ paths \cap Damaged = {}
    BY <1>t, <2>1 DEF PathsInv, Ordering
  <2>3. \A o \in paths \cap Operations : parents[o] \subseteq paths \cap Operations /\ o \notin parents[o]
    <3>1. ASSUME NEW o \in paths \cap Operations PROVE o \notin parents[o]
      <4>1. {o} \in SUBSET (source \cap Operations)
        BY <1>t
      <4>2. parents[o] \cap {o} = {}
        BY <4>1 DEF Acyclic
      <4>3. QED
        BY <4>2
    <3>2. QED
      BY <1>t, <2>2, <3>1 DEF ParentsKept
  <2>4. QED
    BY <2>1, <2>2, <2>3 DEF Sortable, OpsIn
<1>3. CASE Sorted
  <2> DEFINE T == OpsIn(paths) \ Taken
  <2>1. pc = "sort" /\ ready = {} /\ T # {}
    BY <1>3 DEF Sorted, Taken
  <2>2. /\ Sortable(OpsIn(paths))
        /\ \A w \in OpsIn(paths) : indegree[w] = Cardinality(parents[w] \ Taken)
        /\ \A w \in T : indegree[w] # 0
    BY <1>t, <2>1 DEF SortInv
  <2>3. T \in SUBSET (source \cap Operations)
    BY <1>t, <2>2 DEF Sortable, OpsIn
  <2>4. PICK o \in T : parents[o] \cap T = {}
    BY <2>1, <2>3 DEF Acyclic
  <2>5. parents[o] \subseteq OpsIn(paths)
    BY <2>2, <2>4 DEF Sortable
  <2>6. parents[o] \ Taken = {}
    BY <2>4, <2>5
  <2>7. QED
    BY <2>2, <2>4, <2>6, FS_EmptySet
<1>4. CASE ~Expand /\ ~Edges /\ ~Sorted
  <2>1. pc = "failed"
    BY <1>4 DEF Next, Step, vars, StartAll, StartPush, Expanded, TakeOther, NextLayer,
       TakeOperation, Copy, Finish, Stop
  <2>2. QED
    BY <2>1 DEF Inv, FailsIfBroken
<1>5. QED
  BY <1>1, <1>2, <1>3, <1>4

LEMMA DoneStep == Inv /\ [Next]_vars => DoneIsWhole'
<1> SUFFICES ASSUME Inv, [Next]_vars, pc' = "done" PROVE source' \subseteq target'
  BY DEF DoneIsWhole
<1>1. CASE Finish
  <2>1. pc = "copy" /\ next > Len(out) /\ UNCHANGED <<source, target>>
    BY <1>1 DEF Finish, input
  <2>2. out \in Seq(paths) /\ next \in Nat
    BY Typed DEF Inv, TypeOK
  <2>3. Taken \subseteq target
    BY <2>1, <2>2, ElementsOf DEF Taken, Inv, CopyInv, Copying
  <2>4. source \ needed \subseteq target /\ needed \subseteq Taken
    BY <2>1 DEF Inv, CopyInv, LayerInv, Copying
  <2>5. QED
    BY <2>1, <2>3, <2>4
<1>2. CASE ~Finish
  <2>1. pc = "done" /\ UNCHANGED <<source, target>>
    BY <1>2, ExpandStep DEF Next, Step, vars, input, StartAll, StartPush, Expanded, TakeOther, NextLayer,
       Edges, TakeOperation, Sorted, Copy, Stop
  <2>2. QED
    BY <2>1 DEF Inv, DoneIsWhole
<1>3. QED
  BY <1>1, <1>2

LEMMA InitInv == Init => Inv
<1> SUFFICES ASSUME Init PROVE Inv
  OBVIOUS
<1> USE DEF Init
<1>1. TypeOK
  BY DEF TypeOK, OpsIn, Layers
<1>2. LayerInv /\ SortInv /\ PathsInv /\ CopyInv
  BY DEF LayerInv, SortInv, PathsInv, CopyInv, Ordering, Copying
<1>3. DOMAIN out = {}
  OBVIOUS
<1>4. InOrder /\ TargetComplete /\ FailsIfBroken /\ DoneIsWhole
  BY <1>3 DEF InOrder, TargetComplete, FailsIfBroken, DoneIsWhole
<1>5. QED
  BY <1>1, <1>2, <1>4 DEF Inv

\* The inductive invariant: the layers so far are complete, an operation's
\* indegree counts its parents still to come, what is put in order has all
\* parents the source has, and the target has what was copied.
THEOREM InvHolds == Spec => []Inv
<1>1. Inv /\ [Next]_vars => Inv'
  BY TypeStep, OrderStep, LayerStep, SortStep, PathsStep, CopyStep, TargetStep, FailsStep, DoneStep DEF Inv
<1>2. QED
  BY <1>1, InitInv, PTL DEF Spec

\* Every variable keeps its type, and no indegree falls below zero.
THEOREM TypeCorrect == Spec => []TypeOK
<1>1. Inv => TypeOK
  BY DEF Inv
<1>2. QED
  BY <1>1, InvHolds, PTL

\* The order has every file once, lower layers and parents first.
THEOREM InOrderHolds == Spec => []InOrder
<1>1. Inv => InOrder
  BY DEF Inv
<1>2. QED
  BY <1>1, InvHolds, PTL

\* Wherever the copy stops, the target is complete.
THEOREM TargetCompleteHolds == Spec => []TargetComplete
<1>1. Inv => TargetComplete
  BY DEF Inv
<1>2. QED
  BY <1>1, InvHolds, PTL

\* A repository that is in order is never refused.
THEOREM FailsIfBrokenHolds == Spec => []FailsIfBroken
<1>1. Inv => FailsIfBroken
  BY DEF Inv
<1>2. QED
  BY <1>1, InvHolds, PTL

\* A copy that ends has copied every file.
THEOREM DoneIsWholeHolds == Spec => []DoneIsWhole
<1>1. Inv => DoneIsWhole
  BY DEF Inv
<1>2. QED
  BY <1>1, InvHolds, PTL
===============================================================================
