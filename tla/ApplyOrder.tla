------------------------------ MODULE ApplyOrder ------------------------------
(***************************************************************************)
(* The order in which a jj repository is copied file by file               *)
(* (dojjo-mirror/src/mirror_apply_order.rs, operation_expand.rs) and the    *)
(* copies that go by it: `dojjo create` and the pull order all files of     *)
(* their source (create.rs, mirror_manifest.rs, mirror_pull.rs), the push   *)
(* of a round orders what the manifest lacks together with the operations   *)
(* these lead to (sync.rs).  Only the files the target lacks are copied,    *)
(* and a copy can stop at any file.                                         *)
(*                                                                          *)
(* A file is a number, and numbers order files as their paths do.           *)
(***************************************************************************)
EXTENDS Naturals, Sequences, FiniteSets

CONSTANTS
    Operations,  \* files under op_store/operations named by an id
    Damaged,     \* files there with another name, or that do not decode
    Others,      \* all other files
    LayerOf,     \* the layer of each of these
    Refs         \* the files of lower layers that each file is of no use without

Layers == 0 .. 7
OperationsLayer == 3
Files == Operations \cup Damaged \cup Others

Layer(f) == IF f \in Others THEN LayerOf[f] ELSE OperationsLayer

ASSUME OrderAssumption ==
    /\ Files \subseteq Nat
    /\ IsFiniteSet(Files)
    /\ Operations \cap Damaged = {}
    /\ Others \cap (Operations \cup Damaged) = {}
    /\ LayerOf \in [Others -> Layers \ {OperationsLayer}]
    /\ Refs \in [Files -> SUBSET Files]
    /\ \A f \in Files : \A g \in Refs[f] : Layer(g) < Layer(f)

VARIABLES
    source,    \* the files of the repository that is copied
    target,    \* those of the one it is copied to
    parents,   \* the parents each operation names, the root operation left out
    pc,
    needed,    \* the files the target lacks
    paths,     \* the files to put in order
    stack,     \* operations whose parents have not been looked up
    layer,     \* the layer being put in order
    indegree,  \* of each operation, the parents not yet in order
    ready,     \* operations with none left
    out,       \* the order so far
    next       \* the place in it of the next file to copy

input == <<source, parents>>
graph == <<indegree, ready>>
vars == <<input, target, pc, needed, paths, stack, layer, graph, out, next>>

Elements(s) == {s[i] : i \in DOMAIN s}
First(S) == {f \in S : \A g \in S : f <= g}
OpsIn(S) == S \cap (Operations \cup Damaged)

\* A directory is complete when every file it has can be used.
RefsKept(S) == \A f \in S : Refs[f] \subseteq S
ParentsKept(S) == \A o \in S \cap Operations : parents[o] \subseteq S

\* No operation descends from itself.
Acyclic(S) ==
    \A T \in SUBSET (S \cap Operations) : T # {} => \E o \in T : parents[o] \cap T = {}

\* The target may hold any repository that is complete, the source anything.
Init ==
    /\ source \in SUBSET Files
    /\ parents \in [Operations -> SUBSET Operations]
    /\ target \in SUBSET (Files \ Damaged)
    /\ \A o \in Operations \ (source \cup target) : parents[o] = {}
    /\ ParentsKept(target) /\ RefsKept(target)
    /\ pc = "start"
    /\ needed = {} /\ paths = {} /\ stack = {}
    /\ layer = 0
    /\ indegree = [o \in Operations |-> 0] /\ ready = {}
    /\ out = <<>> /\ next = 1

(***************************************************************************)
(* What is put in order.                                                    *)
(***************************************************************************)

\* create, and the server for those who pull: every file there is.
StartAll ==
    /\ pc = "start"
    /\ needed' = source \ target
    /\ paths' = source
    /\ pc' = "order"
    /\ UNCHANGED <<input, target, stack, layer, graph, out, next>>

\* The push of a round: what the target lacks.
StartPush ==
    /\ pc = "start"
    /\ needed' = source \ target
    /\ paths' = needed'
    /\ stack' = OpsIn(needed')
    /\ pc' = "expand"
    /\ UNCHANGED <<input, target, layer, graph, out, next>>

\* Mutant of Expand: the parents of a parent are not looked up.
ExpandOnce ==
    /\ pc = "expand"
    /\ \E child \in stack :
           IF child \in Damaged \/ ~(parents[child] \subseteq paths \cup source)
           THEN pc' = "failed" /\ UNCHANGED <<paths, stack>>
           ELSE /\ paths' = paths \cup parents[child]
                /\ stack' = stack \ {child}
                /\ UNCHANGED pc
    /\ UNCHANGED <<input, target, needed, layer, graph, out, next>>

\* expand_operation_parent_closure takes an operation from its stack.
Expand ==
    /\ pc = "expand"
    /\ \E child \in stack :
           IF child \in Damaged \/ ~(parents[child] \subseteq paths \cup source)
           THEN pc' = "failed" /\ UNCHANGED <<paths, stack>>
           ELSE /\ paths' = paths \cup parents[child]
                /\ stack' = (stack \ {child}) \cup (parents[child] \ paths)
                /\ UNCHANGED pc
    /\ UNCHANGED <<input, target, needed, layer, graph, out, next>>

Expanded ==
    /\ pc = "expand"
    /\ stack = {}
    /\ pc' = "order"
    /\ UNCHANGED <<input, target, needed, paths, stack, layer, graph, out, next>>

(***************************************************************************)
(* compute_mirror_apply_order, a file at a time.                            *)
(***************************************************************************)
Left == {f \in paths : Layer(f) = layer} \ Elements(out)

\* sorted_paths_in_layer
TakeOther ==
    /\ pc = "order"
    /\ \E f \in First(Left) : out' = Append(out, f)
    /\ UNCHANGED <<input, target, pc, needed, paths, stack, layer, graph, next>>

NextLayer ==
    /\ pc = "order"
    /\ Left = {}
    /\ layer' = IF layer = 7 THEN 7 ELSE layer + 1
    /\ pc' = IF layer = 7 THEN "copy" ELSE IF layer' = OperationsLayer THEN "edges" ELSE "order"
    /\ UNCHANGED <<input, target, needed, paths, stack, graph, out, next>>

Sortable(ops) ==
    /\ ops \cap Damaged = {}
    /\ \A o \in ops : parents[o] \subseteq ops \ {o}

\* Mutant of Edges: a parent that is not there is passed over.
EdgesThere ==
    /\ pc = "edges"
    /\ IF OpsIn(paths) \cap Damaged = {}
       THEN /\ indegree' = [o \in Operations |-> Cardinality(parents[o] \cap paths)]
            /\ ready' = {o \in OpsIn(paths) : indegree'[o] = 0}
            /\ pc' = "sort"
       ELSE pc' = "failed" /\ UNCHANGED graph
    /\ UNCHANGED <<input, target, needed, paths, stack, layer, out, next>>

\* operation_parent_edges, and the first half of kahn_toposort.
Edges ==
    /\ pc = "edges"
    /\ IF Sortable(OpsIn(paths))
       THEN /\ indegree' = [o \in Operations |-> Cardinality(parents[o])]
            /\ ready' = {o \in OpsIn(paths) : indegree'[o] = 0}
            /\ pc' = "sort"
       ELSE pc' = "failed" /\ UNCHANGED graph
    /\ UNCHANGED <<input, target, needed, paths, stack, layer, out, next>>

Children(o) == {w \in OpsIn(paths) : o \in parents[w]}

\* Mutant of TakeOperation: what it takes stays ready.
TakeAndKeep ==
    /\ pc = "sort"
    /\ \E o \in First(ready) :
           /\ out' = Append(out, o)
           /\ indegree' = [w \in Operations |-> IF w \in Children(o) THEN indegree[w] - 1 ELSE indegree[w]]
           /\ ready' = ready \cup {w \in Children(o) : indegree'[w] = 0}
    /\ UNCHANGED <<input, target, pc, needed, paths, stack, layer, next>>

\* Mutant of TakeOperation: a child is ready after the first of its parents.
TakeEagerly ==
    /\ pc = "sort"
    /\ \E o \in First(ready) :
           /\ out' = Append(out, o)
           /\ indegree' = [w \in Operations |-> IF w \in Children(o) THEN indegree[w] - 1 ELSE indegree[w]]
           /\ ready' = (ready \ {o}) \cup (Children(o) \ Elements(out))
    /\ UNCHANGED <<input, target, pc, needed, paths, stack, layer, next>>

TakeOperation ==
    /\ pc = "sort"
    /\ \E o \in First(ready) :
           /\ out' = Append(out, o)
           /\ indegree' = [w \in Operations |-> IF w \in Children(o) THEN indegree[w] - 1 ELSE indegree[w]]
           /\ ready' = (ready \ {o}) \cup {w \in Children(o) : indegree'[w] = 0}
    /\ UNCHANGED <<input, target, pc, needed, paths, stack, layer, next>>

\* Mutant of Sorted: it ends only when every operation is in order.
SortedAll ==
    /\ pc = "sort"
    /\ ready = {}
    /\ OpsIn(paths) \subseteq Elements(out)
    /\ pc' = "order" /\ layer' = OperationsLayer + 1
    /\ UNCHANGED <<input, target, needed, paths, stack, graph, out, next>>

\* An operation that is not in order by now is on a cycle, or below one.
Sorted ==
    /\ pc = "sort"
    /\ ready = {}
    /\ IF OpsIn(paths) \subseteq Elements(out)
       THEN pc' = "order" /\ layer' = OperationsLayer + 1
       ELSE pc' = "failed" /\ UNCHANGED layer
    /\ UNCHANGED <<input, target, needed, paths, stack, graph, out, next>>

(***************************************************************************)
(* The copy.                                                                *)
(***************************************************************************)
Copy ==
    /\ pc = "copy"
    /\ next \in DOMAIN out
    /\ target' = target \cup ({out[next]} \cap needed)
    /\ next' = next + 1
    /\ UNCHANGED <<input, pc, needed, paths, stack, layer, graph, out>>

\* Mutant of Finish: the last file is forgotten.
FinishEarly ==
    /\ pc = "copy"
    /\ next >= Len(out)
    /\ pc' = "done"
    /\ UNCHANGED <<input, target, needed, paths, stack, layer, graph, out, next>>

Finish ==
    /\ pc = "copy"
    /\ next > Len(out)
    /\ pc' = "done"
    /\ UNCHANGED <<input, target, needed, paths, stack, layer, graph, out, next>>

\* A file cannot be read, sent or written, or the command is killed.
Stop ==
    /\ pc = "copy"
    /\ pc' = "stopped"
    /\ UNCHANGED <<input, target, needed, paths, stack, layer, graph, out, next>>

Step ==
    \/ StartAll \/ StartPush \/ Expand \/ Expanded
    \/ TakeOther \/ NextLayer \/ Edges \/ TakeOperation \/ Sorted
    \/ Copy \/ Finish

Next == Step \/ Stop

\* A command that runs gets its turn.
Spec == Init /\ [][Next]_vars /\ WF_vars(Step)

(***************************************************************************)
(* Properties.                                                              *)
(***************************************************************************)

\* Every variable has its type; no indegree is ever less than zero, as the
\* code asserts.
TypeOK ==
    /\ source \subseteq Files
    /\ target \subseteq Files
    /\ parents \in [Operations -> SUBSET Operations]
    /\ pc \in {"start", "expand", "order", "edges", "sort", "copy", "done", "failed", "stopped"}
    /\ needed \subseteq source
    /\ paths \subseteq source
    /\ stack \subseteq OpsIn(paths)
    /\ layer \in Layers
    /\ indegree \in [Operations -> Nat]
    /\ ready \subseteq paths \cap Operations
    /\ out \in Seq(paths)
    /\ next \in Nat \ {0}

\* In the order no file comes twice, no layer after a later one, and no
\* operation before one of its parents.
InOrder ==
    \A i \in DOMAIN out :
        /\ \A j \in 1 .. i - 1 : out[j] # out[i] /\ Layer(out[j]) <= Layer(out[i])
        /\ out[i] \in Operations => \A p \in parents[out[i]] : \E j \in 1 .. i - 1 : out[j] = p

\* Wherever the copy stops, every operation in the target has its parents
\* there, and if the source was complete every file has all it refers to.
TargetComplete == ParentsKept(target) /\ (RefsKept(source) => RefsKept(target))

\* Ordering fails only on a repository with a damaged operation, an operation
\* without a parent of its, or a cycle of operations.
FailsIfBroken ==
    pc = "failed" => ~(source \cap Damaged = {} /\ ParentsKept(source) /\ Acyclic(source))

\* A copy that ends has copied everything, although the push puts only a part
\* of the files in order.
DoneIsWhole == pc = "done" => source \subseteq target

\* Every copy ends, cycle or no cycle.
Ends == <>(pc \in {"done", "failed", "stopped"})
===============================================================================
