--------------------------- MODULE JoinDojo_proofs ---------------------------
(***************************************************************************)
(* Proofs about JoinDojo: for any number of machines, joins, names and      *)
(* failures the index of the workspace store loses nothing, every workspace *)
(* that was added can be used, only joins that could not know of each other *)
(* take the same name, and a join with nothing in its way completes.        *)
(***************************************************************************)
EXTENDS JoinDojo, TLAPS

\* One join or round at a time works on a machine's index, and what it has
\* read is what is there when it writes.
IndexInv ==
    /\ \A j, k \in Procs : cmd[j].pc \in Holding /\ cmd[k].pc \in Holding /\ On(j) = On(k) => j = k
    /\ \A j \in Procs : At(j, "write") => cmd[j].entries = index[On(j)]

Adding == {"sparse", "look", "add", "link", "worker"}
Registered == {"unlock", "config"} \cup Adding
Copied == {"seed_type", "seed_checkout", "lock"} \cup Holding \cup {"config"} \cup Adding

\* What is complete in `_default` ...
MachineReady ==
    \A m \in Machines :
        /\ copy[m] # "none" => repo[m] = "heads"
        /\ config[m] => copy[m] # "none" /\ "default" \in NamesIn(index[m])

\* ... by the time a join or a round is at a step.
ReadyAt(j) ==
    /\ cmd[j].pc \in Copied => copy[On(j)] # "none"
    /\ cmd[j].pc \in Registered => "default" \in NamesIn(index[On(j)])
    /\ cmd[j].pc \in Adding => ~cmd[j].cold
    /\ ~At(j, "idle") /\ ~cmd[j].cold => config[On(j)]
    /\ cmd[j].pc \in {"look", "add"} => copy[On(j)] = "all"

ReadyInv == MachineReady /\ \A j \in Procs : ReadyAt(j)

\* A workspace in any replica was added by its join, and what is published is
\* in a replica.
AddedByJoins ==
    /\ published \subseteq Added
    /\ \A w \in Added : w[2] # None => dir[w[2]] # "empty"

\* What a join ought to know of the dojo is in the replica it looks into.
KnownAt(j) ==
    /\ knew[j] \subseteq Added
    /\ cmd[j].manifest \subseteq published
    /\ ~At(j, "idle") /\ cmd[j].pc \notin {"link", "worker"} => dir[j] = "empty"
    /\ cmd[j].pc \in {"link", "worker"} => dir[j] # "empty"
    /\ cmd[j].pc \in {"mkdir", "pull"} => cmd[j].base \subseteq published
    /\ At(j, "heads") => cmd[j].base \subseteq cmd[j].manifest
    /\ cmd[j].pc \notin {"mkdir", "pull", "heads"} => cmd[j].base \subseteq replica[On(j)]
    /\ At(j, "add") => cmd[j].name \notin NamesIn(knew[j])

KnownInv == AddedByJoins /\ \A j \in Joins : KnownAt(j)

Inv == TypeOK /\ IndexInv /\ ReadyInv /\ KnownInv /\ WorkspacesUsable /\ NamesApart

LEMMA JoinsAreProcs == (\A j \in Joins : j \in Procs /\ j \notin Machines) /\ Machines \subseteq Procs
  BY JoinAssumption DEF Procs

\* What a join or a round becomes when it goes on or ends.
LEMMA Goes ==
    ASSUME TypeOK, NEW j \in Procs, NEW x \in Phases, GoTo(j, x)
    PROVE  /\ cmd' \in [Procs -> Records]
           /\ \A k \in Procs \ {j} : cmd'[k] = cmd[k]
           /\ cmd'[j].pc = x
           /\ cmd'[j].at = cmd[j].at /\ cmd'[j].name = cmd[j].name /\ cmd'[j].cold = cmd[j].cold
           /\ cmd'[j].base = cmd[j].base /\ cmd'[j].manifest = cmd[j].manifest
           /\ cmd'[j].entries = cmd[j].entries /\ cmd'[j].smooth = cmd[j].smooth
<1>1. cmd[j] \in Records /\ cmd' = [cmd EXCEPT ![j] = [cmd[j] EXCEPT !.pc = x]]
  BY DEF TypeOK, GoTo
<1>2. [cmd[j] EXCEPT !.pc = x] \in Records
  BY <1>1 DEF Records
<1>3. cmd'[j] = [cmd[j] EXCEPT !.pc = x] /\ \A k \in Procs \ {j} : cmd'[k] = cmd[k]
  BY <1>1 DEF TypeOK
<1>4. QED
  BY <1>1, <1>2, <1>3 DEF TypeOK, Records

LEMMA Ends ==
    ASSUME TypeOK, NEW j \in Procs, End(j)
    PROVE  /\ cmd' \in [Procs -> Records]
           /\ \A k \in Procs \ {j} : cmd'[k] = cmd[k]
           /\ cmd'[j] = Idle
<1>1. Idle \in Records
  BY JoinAssumption DEF Idle, Records, Phases, Workspaces
<1>2. QED
  BY <1>1 DEF TypeOK, End

\* The steps of a join or a round that is under way.
Moved(p) ==
    \/ p \in Joins /\ JoinStep(p)
    \/ p \in Machines /\ RoundStep(p)
    \/ Fail(p) \/ Killed(p)

LEMMA KilledLeaves ==
    ASSUME TypeOK, NEW j \in Procs, Killed(j)
    PROVE  /\ cmd' \in [Procs -> Records]
           /\ cmd'[j] = Idle
           /\ \A k \in Procs \ {j} :
                  /\ cmd'[k].pc = cmd[k].pc /\ cmd'[k].at = cmd[k].at
                  /\ cmd'[k].name = cmd[k].name /\ cmd'[k].cold = cmd[k].cold
                  /\ cmd'[k].base = cmd[k].base /\ cmd'[k].manifest = cmd[k].manifest
                  /\ cmd'[k].entries = cmd[k].entries
                  /\ cmd'[k].smooth <=> cmd[k].smooth /\ (cmd[j].pc \in Holding => cmd[k].at # On(j))
<1> DEFINE stays(k) == cmd[k].smooth /\ (cmd[j].pc \in Holding => cmd[k].at # On(j))
           other(k) == [cmd[k] EXCEPT !.smooth = stays(k)]
<1>1. cmd' = [k \in Procs |-> IF k = j THEN Idle ELSE other(k)]
  BY DEF Killed
<1>2. Idle \in Records
  BY JoinAssumption DEF Idle, Records, Phases, Workspaces
<1>3. ASSUME NEW k \in Procs
      PROVE  /\ cmd[k] \in Records /\ stays(k) \in BOOLEAN
  <2>1. stays(k) \in BOOLEAN
    BY Zenon
  <2>2. QED
    BY <2>1 DEF TypeOK
<1> HIDE DEF stays
<1>4. ASSUME NEW k \in Procs PROVE other(k) \in Records
  BY <1>3 DEF Records
<1>5. ASSUME NEW k \in Procs \ {j}
      PROVE  /\ cmd'[k].pc = cmd[k].pc /\ cmd'[k].at = cmd[k].at
             /\ cmd'[k].name = cmd[k].name /\ cmd'[k].cold = cmd[k].cold
             /\ cmd'[k].base = cmd[k].base /\ cmd'[k].manifest = cmd[k].manifest
             /\ cmd'[k].entries = cmd[k].entries
             /\ cmd'[k].smooth = stays(k)
  <2>1. cmd'[k] = other(k) /\ cmd[k] \in Records
    BY <1>1, <1>3
  <2>2. QED
    BY <2>1 DEF Records
<1>6. cmd' \in [Procs -> Records] /\ cmd'[j] = Idle
  BY <1>1, <1>2, <1>4
<1>7. QED
  BY <1>5, <1>6 DEF stays

LEMMA Registers == \A p : AfterRegister(p) \in {"config", "sparse", "sync_push"}
  BY DEF AfterRegister

\* A step keeps the type of the joins and rounds.
LEMMA JoinsTyped ==
    ASSUME TypeOK, NEW j \in Procs, Moved(j)
    PROVE  cmd' \in [Procs -> Records]
<1> USE JoinsAreProcs DEF Phases, Holding
<1>1. CASE MakeRepo(j)
  BY <1>1, Goes, Ends DEF MakeRepo
<1>2. CASE PullFiles(j)
  <2>1. cmd' = [cmd EXCEPT ![j] = [cmd[j] EXCEPT !.manifest = published, !.pc = "heads"]]
    BY <1>2 DEF TypeOK, PullFiles
  <2>2. cmd[j] \in Records /\ published \in SUBSET Workspaces
    BY DEF TypeOK, On, Records
  <2>3. [cmd[j] EXCEPT !.manifest = published, !.pc = "heads"] \in Records
    BY <2>2 DEF Records
  <2>4. QED
    BY <2>1, <2>3 DEF TypeOK
<1>3. CASE PullHeads(j)
  <2>1. cmd' = [cmd EXCEPT ![j] = [cmd[j] EXCEPT !.manifest = {}, !.pc = "boot"]]
    BY <1>3 DEF TypeOK, PullHeads
  <2>2. cmd[j] \in Records
    BY DEF TypeOK
  <2>3. [cmd[j] EXCEPT !.manifest = {}, !.pc = "boot"] \in Records
    BY <2>2 DEF Records
  <2>4. QED
    BY <2>1, <2>3 DEF TypeOK
<1>4. CASE SkipHeads(j)
  <2>1. cmd' = [cmd EXCEPT ![j] = [cmd[j] EXCEPT !.pc = "boot", !.base = {}, !.smooth = FALSE]]
    BY <1>4 DEF TypeOK, SkipHeads
  <2>2. cmd[j] \in Records
    BY DEF TypeOK, On, Records
  <2>3. [cmd[j] EXCEPT !.pc = "boot", !.base = {}, !.smooth = FALSE] \in Records
    BY <2>2 DEF Records
  <2>4. QED
    BY <2>1, <2>3 DEF TypeOK
<1>5. CASE Boot(j)
  BY <1>5, Goes, Ends DEF Boot
<1>6. CASE SeedDir(j)
  BY <1>6, Goes, Ends DEF SeedDir
<1>7. CASE SeedType(j)
  BY <1>7, Goes, Ends DEF SeedType
<1>8. CASE SeedCheckout(j)
  BY <1>8, Goes, Ends DEF SeedCheckout
<1>9. CASE AcquireLock(j)
  BY <1>9, Goes, Ends DEF AcquireLock
<1>10. CASE ReadIndex(j)
  <2>1. cmd' = [cmd EXCEPT ![j] = [cmd[j] EXCEPT !.entries = index[On(j)], !.pc = "write"]]
    BY <1>10 DEF TypeOK, ReadIndex
  <2>2. cmd[j] \in Records /\ index[On(j)] \in SUBSET Entries
    BY DEF TypeOK, On, Records
  <2>3. [cmd[j] EXCEPT !.entries = index[On(j)], !.pc = "write"] \in Records
    BY <2>2 DEF Records
  <2>4. QED
    BY <2>1, <2>3 DEF TypeOK
<1>11. CASE WriteIndex(j)
  <2>1. cmd' = [cmd EXCEPT ![j] = [cmd[j] EXCEPT !.entries = {}, !.pc = "unlock"]]
    BY <1>11 DEF TypeOK, WriteIndex
  <2>2. cmd[j] \in Records
    BY DEF TypeOK
  <2>3. [cmd[j] EXCEPT !.entries = {}, !.pc = "unlock"] \in Records
    BY <2>2 DEF Records
  <2>4. QED
    BY <2>1, <2>3 DEF TypeOK
<1>12. CASE Unlock(j)
  BY <1>12, Goes, Registers DEF Unlock
<1>13. CASE SaveConfig(j)
  <2>1. cmd' = [cmd EXCEPT ![j] = [cmd[j] EXCEPT !.cold = FALSE, !.pc = "boot"]]
    BY <1>13 DEF TypeOK, SaveConfig
  <2>2. cmd[j] \in Records
    BY DEF TypeOK, On, Records
  <2>3. [cmd[j] EXCEPT !.cold = FALSE, !.pc = "boot"] \in Records
    BY <2>2 DEF Records
  <2>4. QED
    BY <2>1, <2>3 DEF TypeOK
<1>14. CASE ClearSparse(j)
  BY <1>14, Goes, Ends DEF ClearSparse
<1>15. CASE LookForName(j)
  BY <1>15, Goes, Ends DEF LookForName
<1>16. CASE AddWorkspace(j)
  BY <1>16, Goes, Ends DEF AddWorkspace
<1>17. CASE WriteLink(j)
  BY <1>17, Goes, Ends DEF WriteLink
<1>18. CASE StartWorker(j)
  BY <1>18, Goes, Ends DEF StartWorker
<1>19. CASE Fail(j)
  BY <1>19, Goes, Ends DEF Fail
<1>20. CASE Killed(j)
  BY <1>20, KilledLeaves
<1>21. CASE j \in Machines /\ SyncPush(j)
  BY <1>21, Goes, Ends DEF SyncPush
<1>22. CASE j \in Machines /\ SyncPull(j)
  BY <1>22, Ends DEF SyncPull
<1>23. QED
  BY <1>1, <1>2, <1>3, <1>4, <1>5, <1>6, <1>7, <1>8, <1>9, <1>10, <1>11, <1>12, <1>13, <1>14, <1>15, <1>16, <1>17, <1>18, <1>19, <1>20, <1>21, <1>22 DEF Moved, JoinStep, RoundStep, Register

LEMMA RoundStarts ==
    ASSUME TypeOK, NEW m \in Machines, StartRound(m)
    PROVE  /\ cmd' \in [Procs -> Records]
           /\ cmd'[m].pc = "lock" /\ cmd'[m].at = m /\ ~cmd'[m].cold /\ ~cmd'[m].smooth
           /\ \A k \in Procs \ {m} : cmd'[k] = cmd[k]
<1> DEFINE new == [Idle EXCEPT !.pc = "lock", !.at = m]
<1>1. new \in Records
  BY JoinAssumption DEF Idle, Records, Phases, Workspaces, Holding
<1>2. new.pc = "lock" /\ new.at = m /\ ~new.cold /\ ~new.smooth
  BY DEF Idle
<1> HIDE DEF new
<1>3. cmd' = [cmd EXCEPT ![m] = new]
  BY DEF StartRound, new
<1>4. QED
  BY <1>1, <1>2, <1>3, JoinsAreProcs DEF TypeOK

LEMMA StartTyped ==
    ASSUME TypeOK, NEW j \in Joins, NEW m \in Machines, NEW n \in Names, Start(j, m, n)
    PROVE  cmd' \in [Procs -> Records]
<1> DEFINE new == [Idle EXCEPT !.pc = IF Ready(m) THEN "boot" ELSE "mkdir",
                               !.at = m, !.name = n, !.cold = ~Ready(m),
                               !.base = IF config[m] THEN {} ELSE published,
                               !.smooth = InOrder(m, n)]
           other(k) == [cmd[k] EXCEPT !.smooth = cmd[k].smooth /\ cmd[k].at # m]
<1>1. cmd' = [k \in Procs |-> IF k = j THEN new ELSE other(k)]
  BY DEF Start
<1>2. Ready(m) \in BOOLEAN /\ InOrder(m, n) \in BOOLEAN
  BY Zenon DEF Ready, InOrder
<1>3. new \in Records
  <2>1. published \subseteq Workspaces
    BY DEF TypeOK
  <2>2. QED
    BY <1>2, <2>1, JoinAssumption DEF Records, Idle, Phases
<1>4. ASSUME NEW k \in Procs PROVE other(k) \in Records
  <2>1. cmd[k] \in Records
    BY DEF TypeOK
  <2>2. (cmd[k].smooth /\ cmd[k].at # m) \in BOOLEAN
    BY Zenon
  <2>3. QED
    BY <2>1, <2>2 DEF Records
<1>5. QED
  BY <1>1, <1>3, <1>4

\* The type invariant without the joins: the other variables, and the lock.
VarTypes ==
    /\ published \subseteq Workspaces
    /\ replica \in [Machines -> SUBSET Workspaces]
    /\ repo \in [Machines -> Repos]
    /\ copy \in [Machines -> Copies]
    /\ config \in [Machines -> BOOLEAN]
    /\ index \in [Machines -> SUBSET Entries]
    /\ lock \in [Machines -> BOOLEAN]
    /\ dir \in [Joins -> {"empty", "added", "linked"}]
    /\ knew \in [Joins -> SUBSET Workspaces]
    /\ started \in 0 .. MaxStarts
    /\ rounds \in 0 .. MaxRounds
    /\ failures \in 0 .. MaxFailures

Locked == \A j \in Procs : cmd[j].pc \in Holding => lock[On(j)]

LEMMA TypeParts == /\ TypeOK <=> cmd \in [Procs -> Records] /\ VarTypes /\ Locked
                   /\ TypeOK' <=> (cmd \in [Procs -> Records])' /\ VarTypes' /\ Locked'
  BY DEF TypeOK, VarTypes, Locked

LEMMA ProcFields ==
    ASSUME TypeOK, NEW j \in Procs
    PROVE  /\ On(j) \in Machines
           /\ cmd[j].name \in Names
           /\ cmd[j].pc \in Phases
           /\ cmd[j].cold \in BOOLEAN
           /\ cmd[j].base \subseteq Workspaces
           /\ cmd[j].manifest \subseteq Workspaces
           /\ cmd[j].entries \subseteq Entries
  BY DEF TypeOK, On, Records

\* Registering a name keeps all names of the index, and adds one.
LEMMA Entry ==
    ASSUME NEW entries, NEW name, NEW d
    PROVE  /\ NamesIn(WithEntry(entries, name, d)) = NamesIn(entries) \cup {name}
           /\ entries \subseteq Entries /\ <<name, d>> \in Entries
                  => WithEntry(entries, name, d) \subseteq Entries
  BY DEF NamesIn, WithEntry

LEMMA EntryKeeps ==
    \A entries, name, d :
        /\ NamesIn(entries) \subseteq NamesIn(WithEntry(entries, name, d))
        /\ name \in NamesIn(WithEntry(entries, name, d))
<1> SUFFICES ASSUME NEW entries, NEW name, NEW d
             PROVE  /\ NamesIn(entries) \subseteq NamesIn(WithEntry(entries, name, d))
                    /\ name \in NamesIn(WithEntry(entries, name, d))
  OBVIOUS
<1>1. NamesIn(WithEntry(entries, name, d)) = NamesIn(entries) \cup {name}
  BY Entry
<1>2. QED
  BY <1>1

\* A step keeps the types of the other variables, ...
LEMMA VarsTyped == TypeOK /\ [Next]_vars => VarTypes'
<1> SUFFICES ASSUME TypeOK, [Next]_vars PROVE VarTypes'
  OBVIOUS
<1> USE JoinAssumption, JoinsAreProcs, ProcFields, TypeParts DEF VarTypes, home, store, counts, Fails, Repos, Copies
<1>1. CASE UNCHANGED vars
  BY <1>1 DEF vars, home, store, counts
<1>2. ASSUME NEW j \in Joins, NEW m \in Machines, NEW n \in Names, Start(j, m, n) PROVE VarTypes'
  BY <1>2 DEF Start
<1>3. ASSUME NEW j \in Procs, Fail(j) PROVE VarTypes'
  BY <1>3 DEF Fail
<1>4. ASSUME NEW j \in Procs, Killed(j) PROVE VarTypes'
  BY <1>4 DEF Killed
<1>5. ASSUME NEW m \in Machines, SyncPush(m) PROVE VarTypes'
  BY <1>5 DEF SyncPush
<1>6. ASSUME NEW m \in Machines, SyncPull(m) PROVE VarTypes'
  BY <1>6 DEF SyncPull
<1>7. ASSUME NEW j \in Joins, MakeRepo(j) PROVE VarTypes'
  BY <1>7 DEF MakeRepo
<1>8. ASSUME NEW j \in Joins, PullFiles(j) PROVE VarTypes'
  BY <1>8 DEF PullFiles
<1>9. ASSUME NEW j \in Joins, PullHeads(j) PROVE VarTypes'
  BY <1>9 DEF PullHeads
<1>10. ASSUME NEW j \in Joins, SkipHeads(j) PROVE VarTypes'
  BY <1>10 DEF SkipHeads
<1>11. ASSUME NEW j \in Joins, Boot(j) PROVE VarTypes'
  BY <1>11 DEF Boot
<1>12. ASSUME NEW j \in Joins, SeedDir(j) PROVE VarTypes'
  BY <1>12 DEF SeedDir
<1>13. ASSUME NEW j \in Joins, SeedType(j) PROVE VarTypes'
  BY <1>13 DEF SeedType
<1>14. ASSUME NEW j \in Joins, SeedCheckout(j) PROVE VarTypes'
  BY <1>14 DEF SeedCheckout
<1>15. ASSUME NEW j \in Procs, AcquireLock(j) PROVE VarTypes'
  BY <1>15 DEF AcquireLock
<1>16. ASSUME NEW j \in Procs, ReadIndex(j) PROVE VarTypes'
  BY <1>16 DEF ReadIndex
<1>17. ASSUME NEW j \in Procs, WriteIndex(j) PROVE VarTypes'
  <2>1. WithEntry(cmd[j].entries, "default", None) \subseteq Entries
    BY Entry DEF Entries
  <2>2. QED
    BY <1>17, <2>1 DEF WriteIndex
<1>18. ASSUME NEW j \in Procs, Unlock(j) PROVE VarTypes'
  BY <1>18 DEF Unlock
<1>19. ASSUME NEW j \in Joins, SaveConfig(j) PROVE VarTypes'
  BY <1>19 DEF SaveConfig
<1>20. ASSUME NEW j \in Joins, ClearSparse(j) PROVE VarTypes'
  BY <1>20 DEF ClearSparse
<1>21. ASSUME NEW j \in Joins, LookForName(j) PROVE VarTypes'
  BY <1>21 DEF LookForName
<1>22. ASSUME NEW j \in Joins, AddWorkspace(j) PROVE VarTypes'
  <2>1. <<cmd[j].name, j>> \in Workspaces
    BY DEF Workspaces
  <2>2. WithEntry(index[On(j)], cmd[j].name, j) \subseteq Entries
    BY <2>1, Entry DEF Entries
  <2>3. /\ replica' \in [Machines -> SUBSET Workspaces]
        /\ dir' \in [Joins -> {"empty", "added", "linked"}]
    <3>1. \/ replica' = replica /\ dir' = dir
          \/ /\ replica' = [replica EXCEPT ![On(j)] = @ \cup {<<cmd[j].name, j>>}]
             /\ dir' = [dir EXCEPT ![j] = "added"]
      BY <1>22, Zenon DEF AddWorkspace
    <3>2. On(j) \in Machines /\ replica \in [Machines -> SUBSET Workspaces]
          /\ dir \in [Joins -> {"empty", "added", "linked"}]
      OBVIOUS
    <3>3. dir' \in [Joins -> {"empty", "added", "linked"}]
      BY <3>1, <3>2
    <3>4. CASE replica' = replica
      BY <3>2, <3>3, <3>4
    <3>5. CASE replica' = [replica EXCEPT ![On(j)] = @ \cup {<<cmd[j].name, j>>}]
      BY <2>1, <3>2, <3>3, <3>5
    <3>6. QED
      BY <3>1, <3>4, <3>5
  <2>4. index' \in [Machines -> SUBSET Entries]
    <3>1. index' = index \/ index' = [index EXCEPT ![On(j)] = WithEntry(@, cmd[j].name, j)]
      BY <1>22, Zenon DEF AddWorkspace
    <3>2. QED
      BY <2>2, <3>1
  <2>5. QED
    BY <1>22, <2>3, <2>4 DEF AddWorkspace
<1>23. ASSUME NEW j \in Joins, WriteLink(j) PROVE VarTypes'
  BY <1>23 DEF WriteLink
<1>24. ASSUME NEW j \in Joins, StartWorker(j) PROVE VarTypes'
  BY <1>24 DEF StartWorker
<1>25. ASSUME NEW m \in Machines, StartRound(m) PROVE VarTypes'
  BY <1>25 DEF StartRound
<1>26. QED
  BY <1>1, <1>2, <1>3, <1>4, <1>5, <1>6, <1>7, <1>8, <1>9, <1>10, <1>11, <1>12, <1>13, <1>14, <1>15, <1>16, <1>17, <1>18, <1>19, <1>20, <1>21, <1>22, <1>23, <1>24, <1>25 DEF Next, JoinStep, RoundStep, Register, Procs

\* A join keeps what it began with.
Aim(j) ==
    /\ cmd'[j].at = cmd[j].at /\ cmd'[j].name = cmd[j].name
    /\ cmd'[j].base = cmd[j].base /\ cmd'[j].manifest = cmd[j].manifest
    /\ cmd'[j].smooth = cmd[j].smooth
Kept(j) == Aim(j) /\ cmd'[j].cold = cmd[j].cold

\* Where the steps that branch take a join.
LEMMA Moves ==
    ASSUME TypeOK, NEW j \in Procs
    PROVE  /\ Boot(j) => /\ cmd'[j].pc = "seed" \/ (cmd'[j].pc = "lock" /\ copy[On(j)] # "none")
                         /\ Kept(j)
           /\ SeedDir(j) => cmd'[j] = Idle \/ (cmd'[j].pc = "seed_type" /\ Kept(j) /\ copy'[On(j)] # "none")
           /\ ClearSparse(j) => cmd'[j] = Idle \/ (cmd'[j].pc = "look" /\ Kept(j) /\ copy[On(j)] = "all")
           /\ AcquireLock(j) => cmd'[j] = Idle \/ (cmd'[j].pc = "read" /\ Kept(j) /\ ~lock[On(j)])
           /\ ReadIndex(j) => cmd'[j].pc = "write" /\ Kept(j)
           /\ WriteIndex(j) => cmd'[j].pc = "unlock" /\ Kept(j)
           /\ Unlock(j) => cmd'[j].pc \in {"config", "sparse", "sync_push"} /\ Kept(j)
           /\ SaveConfig(j) => cmd'[j].pc = "boot" /\ Aim(j)
           /\ LookForName(j) => \/ cmd'[j] = Idle
                                \/ /\ cmd'[j].pc = "add" /\ Kept(j)
                                   /\ cmd[j].name \notin NamesIn(replica[On(j)])
           /\ j \in Joins /\ AddWorkspace(j) =>
                  cmd'[j] = Idle \/ (cmd'[j].pc = "link" /\ Kept(j) /\ dir'[j] = "added")
           /\ SyncPush(j) => cmd'[j] = Idle \/ (cmd'[j].pc = "sync_pull" /\ Kept(j))
<1>1. ASSUME NEW x \in Phases, GoTo(j, x) PROVE Kept(j) /\ cmd'[j].pc = x
  BY <1>1, Goes DEF Kept, Aim
<1>2. ASSUME End(j) PROVE cmd'[j] = Idle
  BY <1>2, Ends
<1>3. cmd \in [Procs -> Records]
  BY DEF TypeOK
<1> DEFINE go(x) == GoTo(j, x)
<1>p. {"seed", "seed_type", "look", "lock", "read", "unlock", "add", "link", "sync_pull"} \subseteq Phases
  BY DEF Phases, Holding
<1>4. ASSUME Boot(j) PROVE /\ cmd'[j].pc = "seed" \/ (cmd'[j].pc = "lock" /\ copy[On(j)] # "none")
                           /\ Kept(j)
  <2>1. go("seed") \/ (go("lock") /\ copy[On(j)] # "none")
    BY <1>4 DEF Boot
  <2> HIDE DEF go
  <2>2. CASE go("seed")
    BY <2>2, <1>1, <1>p DEF go
  <2>3. CASE go("lock") /\ copy[On(j)] # "none"
    BY <2>3, <1>1, <1>p DEF go
  <2>4. QED
    BY <2>1, <2>2, <2>3
<1>5. ASSUME AcquireLock(j) PROVE cmd'[j] = Idle \/ (cmd'[j].pc = "read" /\ Kept(j) /\ ~lock[On(j)])
  <2>1. End(j) \/ (go("read") /\ ~lock[On(j)])
    BY <1>5 DEF AcquireLock
  <2> HIDE DEF go
  <2>2. QED
    BY <2>1, <1>1, <1>2, <1>p DEF go
<1>6. ASSUME ReadIndex(j) PROVE cmd'[j].pc = "write" /\ Kept(j)
  BY <1>6, <1>3 DEF ReadIndex, Records, Kept, Aim
<1>7. ASSUME WriteIndex(j) PROVE cmd'[j].pc = "unlock" /\ Kept(j)
  BY <1>7, <1>3 DEF WriteIndex, Records, Kept, Aim
<1>8. ASSUME SaveConfig(j) PROVE cmd'[j].pc = "boot" /\ Aim(j)
  BY <1>8, <1>3 DEF SaveConfig, Records, Kept, Aim
<1>9. ASSUME LookForName(j)
      PROVE  \/ cmd'[j] = Idle
             \/ /\ cmd'[j].pc = "add" /\ Kept(j)
                /\ cmd[j].name \notin NamesIn(replica[On(j)])
  <2>1. End(j) \/ (go("add") /\ cmd[j].name \notin NamesIn(replica[On(j)]))
    BY <1>9 DEF LookForName
  <2> HIDE DEF go
  <2>2. QED
    BY <2>1, <1>1, <1>2, <1>p DEF go
<1>10. ASSUME j \in Joins, AddWorkspace(j) PROVE cmd'[j] = Idle \/ (cmd'[j].pc = "link" /\ Kept(j) /\ dir'[j] = "added")
  <2>1. End(j) \/ (go("link") /\ dir'[j] = "added")
    BY <1>10 DEF AddWorkspace, TypeOK
  <2> HIDE DEF go
  <2>2. QED
    BY <2>1, <1>1, <1>2, <1>p DEF go
<1>11. ASSUME SeedDir(j) PROVE cmd'[j] = Idle \/ (cmd'[j].pc = "seed_type" /\ Kept(j) /\ copy'[On(j)] # "none")
  <2>1. End(j) \/ (go("seed_type") /\ copy'[On(j)] # "none")
    BY <1>11, ProcFields DEF SeedDir, TypeOK, Copies
  <2> HIDE DEF go
  <2>2. QED
    BY <2>1, <1>1, <1>2, <1>p DEF go
<1>12. ASSUME ClearSparse(j) PROVE cmd'[j] = Idle \/ (cmd'[j].pc = "look" /\ Kept(j) /\ copy[On(j)] = "all")
  <2>1. End(j) \/ (go("look") /\ copy[On(j)] = "all")
    BY <1>12 DEF ClearSparse, Opens
  <2> HIDE DEF go
  <2>2. QED
    BY <2>1, <1>1, <1>2, <1>p DEF go
<1>13. ASSUME SyncPush(j) PROVE cmd'[j] = Idle \/ (cmd'[j].pc = "sync_pull" /\ Kept(j))
  <2>1. End(j) \/ go("sync_pull")
    BY <1>13 DEF SyncPush
  <2> HIDE DEF go
  <2>2. QED
    BY <2>1, <1>1, <1>2, <1>p DEF go
<1>14. ASSUME Unlock(j) PROVE cmd'[j].pc \in {"config", "sparse", "sync_push"} /\ Kept(j)
  <2>1. AfterRegister(j) \in Phases
    BY Registers DEF Phases
  <2>2. QED
    BY <1>14, <1>1, <2>1, Registers DEF Unlock
<1>15. QED
  BY <1>11, <1>12, <1>13, <1>14, <1>4, <1>5, <1>6, <1>7, <1>8, <1>9, <1>10

\* ... and a join that works on the index keeps it locked, when no other join
\* can hold the same lock.
LEMMA LockedStep == TypeOK /\ IndexInv /\ [Next]_vars => Locked'
<1> SUFFICES ASSUME TypeOK, IndexInv, [Next]_vars PROVE Locked'
  OBVIOUS
<1> USE JoinAssumption, JoinsAreProcs, ProcFields, TypeParts, Goes, Ends DEF IndexInv, VarTypes, Locked, At, On, home, store, counts, Holding
<1>1. CASE UNCHANGED vars
  BY <1>1 DEF vars, home, store, counts, GoTo, End, Idle
<1>2. ASSUME NEW j \in Joins, NEW m \in Machines, NEW n \in Names, Start(j, m, n) PROVE Locked'
  BY <1>2 DEF Start, GoTo, End, Idle
<1>3. ASSUME NEW j \in Procs, Fail(j) PROVE Locked'
  BY <1>3 DEF Fail, GoTo, End, Idle
<1>4. ASSUME NEW j \in Procs, Killed(j) PROVE Locked'
  <2>1. cmd'[j].pc \notin Holding /\ lock' = lock
    BY <1>4, KilledLeaves DEF Killed, Idle
  <2>2. \A k \in Procs \ {j} : cmd'[k].pc = cmd[k].pc /\ cmd'[k].at = cmd[k].at
    BY <1>4, KilledLeaves
  <2>3. QED
    BY <2>1, <2>2
<1>5. ASSUME NEW m \in Machines, SyncPush(m) PROVE Locked'
  <2>1. cmd'[m].pc \notin Holding /\ lock' = lock
    BY <1>5, Moves DEF SyncPush, Idle
  <2>2. \A k \in Procs \ {m} : cmd'[k] = cmd[k]
    BY <1>5, Goes, Ends DEF SyncPush, Phases
  <2>3. QED
    BY <2>1, <2>2
<1>6. ASSUME NEW m \in Machines, SyncPull(m) PROVE Locked'
  BY <1>6 DEF SyncPull, GoTo, End, Idle
<1>7. ASSUME NEW j \in Joins, MakeRepo(j) PROVE Locked'
  BY <1>7 DEF MakeRepo, GoTo, End, Idle
<1>8. ASSUME NEW j \in Joins, PullFiles(j) PROVE Locked'
  BY <1>8 DEF PullFiles, GoTo, End, Idle
<1>9. ASSUME NEW j \in Joins, PullHeads(j) PROVE Locked'
  BY <1>9 DEF PullHeads, GoTo, End, Idle
<1>10. ASSUME NEW j \in Joins, SkipHeads(j) PROVE Locked'
  BY <1>10 DEF SkipHeads, GoTo, End, Idle
<1>11. ASSUME NEW j \in Joins, Boot(j) PROVE Locked'
  BY <1>11 DEF Boot, GoTo, End, Idle
<1>12. ASSUME NEW j \in Joins, SeedDir(j) PROVE Locked'
  <2>1. cmd'[j].pc \notin Holding
    BY <1>12, Moves DEF Idle
  <2>2. \A k \in Procs \ {j} : cmd'[k] = cmd[k]
    BY <1>12, Goes, Ends DEF SeedDir, Phases
  <2>3. \A m \in Machines : lock[m] => lock'[m]
    BY <1>12 DEF SeedDir
  <2>4. QED
    BY <2>1, <2>2, <2>3
<1>13. ASSUME NEW j \in Joins, SeedType(j) PROVE Locked'
  BY <1>13 DEF SeedType, GoTo, End, Idle
<1>14. ASSUME NEW j \in Joins, SeedCheckout(j) PROVE Locked'
  BY <1>14 DEF SeedCheckout, GoTo, End, Idle
<1>15. ASSUME NEW j \in Procs, AcquireLock(j) PROVE Locked'
  <2>1. (\E x \in Phases \ Holding : cmd'[j].pc = x) \/ (cmd'[j].pc \in Holding /\ cmd'[j].at = cmd[j].at /\ lock'[On(j)])
    BY <1>15, Moves DEF Idle, Phases, Kept, Aim, AcquireLock
  <2>2. \A k \in Procs \ {j} : cmd'[k] = cmd[k]
    BY <1>15, Goes, Ends DEF AcquireLock, Phases
  <2>3. \A m \in Machines : lock[m] => lock'[m]
    BY <1>15 DEF AcquireLock
  <2>4. QED
    BY <2>1, <2>2, <2>3
<1>16. ASSUME NEW j \in Procs, ReadIndex(j) PROVE Locked'
  BY <1>16 DEF ReadIndex, GoTo, End, Idle
<1>17. ASSUME NEW j \in Procs, WriteIndex(j) PROVE Locked'
  BY <1>17 DEF WriteIndex, GoTo, End, Idle
<1>18. ASSUME NEW j \in Procs, Unlock(j) PROVE Locked'
  <2>1. cmd'[j].pc \notin Holding
    BY <1>18, Moves
  <2>2. \A k \in Procs \ {j} : cmd'[k] = cmd[k]
    BY <1>18 DEF Unlock, GoTo
  <2>3. \A m \in Machines : m # On(j) /\ lock[m] => lock'[m]
    BY <1>18 DEF Unlock
  <2>4. At(j, "unlock")
    BY <1>18 DEF Unlock
  <2>5. QED
    BY <2>1, <2>2, <2>3, <2>4
<1>19. ASSUME NEW j \in Joins, SaveConfig(j) PROVE Locked'
  BY <1>19 DEF SaveConfig, GoTo, End, Idle
<1>20. ASSUME NEW j \in Joins, ClearSparse(j) PROVE Locked'
  <2>1. cmd'[j].pc \notin Holding
    BY <1>20, Moves DEF Idle
  <2>2. \A k \in Procs \ {j} : cmd'[k] = cmd[k]
    BY <1>20, Goes, Ends DEF ClearSparse, Phases
  <2>3. \A m \in Machines : lock[m] => lock'[m]
    BY <1>20 DEF ClearSparse
  <2>4. QED
    BY <2>1, <2>2, <2>3
<1>21. ASSUME NEW j \in Joins, LookForName(j) PROVE Locked'
  <2>1. cmd'[j].pc \notin Holding
    BY <1>21, Moves DEF Idle
  <2>2. \A k \in Procs \ {j} : cmd'[k] = cmd[k]
    BY <1>21, Goes, Ends DEF LookForName, Phases
  <2>3. \A m \in Machines : lock[m] => lock'[m]
    BY <1>21 DEF LookForName
  <2>4. QED
    BY <2>1, <2>2, <2>3
<1>22. ASSUME NEW j \in Joins, AddWorkspace(j) PROVE Locked'
  <2>1. cmd'[j].pc \notin Holding
    BY <1>22, Moves DEF Idle
  <2>2. \A k \in Procs \ {j} : cmd'[k] = cmd[k]
    BY <1>22, Goes, Ends DEF AddWorkspace, Phases
  <2>3. \A m \in Machines : lock[m] => lock'[m]
    BY <1>22 DEF AddWorkspace
  <2>4. QED
    BY <2>1, <2>2, <2>3
<1>23. ASSUME NEW j \in Joins, WriteLink(j) PROVE Locked'
  BY <1>23 DEF WriteLink, GoTo, End, Idle
<1>24. ASSUME NEW j \in Joins, StartWorker(j) PROVE Locked'
  BY <1>24 DEF StartWorker, GoTo, End, Idle
<1>25. ASSUME NEW m \in Machines, StartRound(m) PROVE Locked'
  <2>1. \A k \in Procs : cmd'[k].pc \in Holding => cmd'[k] = cmd[k]
    BY <1>25, RoundStarts
  <2>2. lock' = lock
    BY <1>25 DEF StartRound
  <2>3. QED
    BY <2>1, <2>2
<1>26. QED
  BY <1>1, <1>2, <1>3, <1>4, <1>5, <1>6, <1>7, <1>8, <1>9, <1>10, <1>11, <1>12, <1>13, <1>14, <1>15, <1>16, <1>17, <1>18, <1>19, <1>20, <1>21, <1>22, <1>23, <1>24, <1>25 DEF Next, JoinStep, RoundStep, Register, Procs

\* What a step of one join leaves to the others.
Same(k) ==
    /\ cmd'[k].pc = cmd[k].pc /\ cmd'[k].at = cmd[k].at
    /\ cmd'[k].name = cmd[k].name /\ cmd'[k].cold = cmd[k].cold
    /\ cmd'[k].base = cmd[k].base /\ cmd'[k].manifest = cmd[k].manifest
    /\ cmd'[k].entries = cmd[k].entries
    /\ k \in Joins => knew'[k] = knew[k] /\ dir'[k] = dir[k]

LEMMA Others ==
    ASSUME TypeOK, NEW j \in Procs, Moved(j)
    PROVE  \A k \in Procs \ {j} : Same(k)
<1> USE JoinsAreProcs, TypeParts, Goes, Ends DEF Phases, Holding, VarTypes, Same
<1>1. CASE MakeRepo(j)
  BY <1>1 DEF MakeRepo
<1>2. CASE PullFiles(j)
  BY <1>2 DEF PullFiles
<1>3. CASE PullHeads(j)
  BY <1>3 DEF PullHeads
<1>4. CASE SkipHeads(j)
  BY <1>4 DEF SkipHeads
<1>5. CASE Boot(j)
  BY <1>5 DEF Boot
<1>6. CASE SeedDir(j)
  <2>1. \A k \in Procs \ {j} : cmd'[k] = cmd[k]
    BY <1>6 DEF SeedDir
  <2>2. \A k \in Joins \ {j} : knew'[k] = knew[k] /\ dir'[k] = dir[k]
    BY <1>6 DEF SeedDir
  <2>3. QED
    BY <2>1, <2>2
<1>7. CASE SeedType(j)
  BY <1>7 DEF SeedType
<1>8. CASE SeedCheckout(j)
  BY <1>8 DEF SeedCheckout
<1>9. CASE AcquireLock(j)
  <2>1. \A k \in Procs \ {j} : cmd'[k] = cmd[k]
    BY <1>9 DEF AcquireLock
  <2>2. \A k \in Joins \ {j} : knew'[k] = knew[k] /\ dir'[k] = dir[k]
    BY <1>9 DEF AcquireLock
  <2>3. QED
    BY <2>1, <2>2
<1>10. CASE ReadIndex(j)
  BY <1>10 DEF ReadIndex
<1>11. CASE WriteIndex(j)
  BY <1>11 DEF WriteIndex
<1>12. CASE Unlock(j)
  BY <1>12 DEF Unlock, GoTo
<1>13. CASE SaveConfig(j)
  BY <1>13 DEF SaveConfig
<1>14. CASE ClearSparse(j)
  <2>1. \A k \in Procs \ {j} : cmd'[k] = cmd[k]
    BY <1>14 DEF ClearSparse
  <2>2. \A k \in Joins \ {j} : knew'[k] = knew[k] /\ dir'[k] = dir[k]
    BY <1>14 DEF ClearSparse
  <2>3. QED
    BY <2>1, <2>2
<1>15. CASE LookForName(j)
  <2>1. \A k \in Procs \ {j} : cmd'[k] = cmd[k]
    BY <1>15 DEF LookForName
  <2>2. \A k \in Joins \ {j} : knew'[k] = knew[k] /\ dir'[k] = dir[k]
    BY <1>15 DEF LookForName
  <2>3. QED
    BY <2>1, <2>2
<1>16. CASE AddWorkspace(j)
  <2>1. \A k \in Procs \ {j} : cmd'[k] = cmd[k]
    BY <1>16 DEF AddWorkspace
  <2>2. \A k \in Joins \ {j} : knew'[k] = knew[k] /\ dir'[k] = dir[k]
    BY <1>16 DEF AddWorkspace
  <2>3. QED
    BY <2>1, <2>2
<1>17. CASE WriteLink(j)
  BY <1>17 DEF WriteLink
<1>18. CASE StartWorker(j)
  BY <1>18 DEF StartWorker
<1>19. CASE Fail(j)
  BY <1>19 DEF Fail
<1>20. CASE Killed(j)
  <2>1. knew' = knew /\ dir' = dir
    BY <1>20 DEF Killed
  <2>2. QED
    BY <1>20, <2>1, KilledLeaves
<1>21. CASE j \in Machines /\ SyncPush(j)
  BY <1>21 DEF SyncPush
<1>22. CASE j \in Machines /\ SyncPull(j)
  BY <1>22 DEF SyncPull
<1>23. QED
  BY <1>1, <1>2, <1>3, <1>4, <1>5, <1>6, <1>7, <1>8, <1>9, <1>10, <1>11, <1>12, <1>13, <1>14, <1>15, <1>16, <1>17, <1>18, <1>19, <1>20, <1>21, <1>22 DEF Moved, JoinStep, RoundStep, Register

LEMMA StartOthers ==
    ASSUME TypeOK, NEW j \in Joins, NEW m \in Machines, NEW n \in Names, Start(j, m, n)
    PROVE  \A k \in Procs \ {j} : Same(k)
  BY DEF Start, Same, TypeOK, Records

\* What only grows.
Grows ==
    /\ published \subseteq published'
    /\ \A m \in Machines :
           /\ replica[m] \subseteq replica'[m]
           /\ repo[m] = "heads" => repo'[m] = "heads"
           /\ copy[m] # "none" => copy'[m] # "none"
           /\ copy[m] = "all" => copy'[m] = "all"
           /\ config[m] => config'[m]
           /\ NamesIn(index[m]) \subseteq NamesIn(index'[m])
    /\ \A j \in Joins : dir[j] # "empty" => dir'[j] # "empty"

LEMMA GrowsStep == TypeOK /\ IndexInv /\ [Next]_vars => Grows
<1> SUFFICES ASSUME TypeOK, IndexInv, [Next]_vars PROVE Grows
  OBVIOUS
<1> USE JoinsAreProcs, ProcFields, TypeParts DEF VarTypes, Grows, home, store, counts
<1>1. CASE UNCHANGED vars
  BY <1>1 DEF vars, home, store, counts
<1>2. ASSUME NEW j \in Joins, NEW m \in Machines, NEW n \in Names, Start(j, m, n) PROVE Grows
  BY <1>2 DEF Start
<1>3. ASSUME NEW j \in Procs, Fail(j) PROVE Grows
  BY <1>3 DEF Fail
<1>4. ASSUME NEW j \in Procs, Killed(j) PROVE Grows
  BY <1>4 DEF Killed
<1>5. ASSUME NEW m \in Machines, SyncPush(m) PROVE Grows
  BY <1>5 DEF SyncPush
<1>6. ASSUME NEW m \in Machines, SyncPull(m) PROVE Grows
  BY <1>6 DEF SyncPull
<1>7. ASSUME NEW j \in Joins, MakeRepo(j) PROVE Grows
  BY <1>7 DEF MakeRepo
<1>8. ASSUME NEW j \in Joins, PullFiles(j) PROVE Grows
  BY <1>8 DEF PullFiles
<1>9. ASSUME NEW j \in Joins, PullHeads(j) PROVE Grows
  BY <1>9 DEF PullHeads
<1>10. ASSUME NEW j \in Joins, SkipHeads(j) PROVE Grows
  BY <1>10 DEF SkipHeads
<1>11. ASSUME NEW j \in Joins, Boot(j) PROVE Grows
  BY <1>11 DEF Boot
<1>12. ASSUME NEW j \in Joins, SeedDir(j) PROVE Grows
  BY <1>12 DEF SeedDir
<1>13. ASSUME NEW j \in Joins, SeedType(j) PROVE Grows
  BY <1>13 DEF SeedType
<1>14. ASSUME NEW j \in Joins, SeedCheckout(j) PROVE Grows
  BY <1>14 DEF SeedCheckout
<1>15. ASSUME NEW j \in Procs, AcquireLock(j) PROVE Grows
  BY <1>15 DEF AcquireLock
<1>16. ASSUME NEW j \in Procs, ReadIndex(j) PROVE Grows
  BY <1>16 DEF ReadIndex
<1>17. ASSUME NEW j \in Procs, WriteIndex(j) PROVE Grows
  <2>1. NamesIn(index[On(j)]) \subseteq NamesIn(WithEntry(cmd[j].entries, "default", None))
    <3>1. cmd[j].entries = index[On(j)]
      BY <1>17 DEF WriteIndex, IndexInv, At, On
    <3>2. QED
      BY <3>1, EntryKeeps, Zenon
  <2>2. \A m \in Machines : NamesIn(index[m]) \subseteq NamesIn(index'[m])
    BY <1>17, <2>1 DEF WriteIndex
  <2>3. QED
    BY <1>17, <2>2 DEF WriteIndex
<1>18. ASSUME NEW j \in Procs, Unlock(j) PROVE Grows
  BY <1>18 DEF Unlock
<1>19. ASSUME NEW j \in Joins, SaveConfig(j) PROVE Grows
  BY <1>19 DEF SaveConfig
<1>20. ASSUME NEW j \in Joins, ClearSparse(j) PROVE Grows
  BY <1>20 DEF ClearSparse
<1>21. ASSUME NEW j \in Joins, LookForName(j) PROVE Grows
  BY <1>21 DEF LookForName
<1>22. ASSUME NEW j \in Joins, AddWorkspace(j) PROVE Grows
  <2>1. NamesIn(index[On(j)]) \subseteq NamesIn(WithEntry(index[On(j)], cmd[j].name, j))
    BY EntryKeeps, Zenon
  <2>2. \A m \in Machines : NamesIn(index[m]) \subseteq NamesIn(index'[m])
    BY <1>22, <2>1 DEF AddWorkspace
  <2>3. dir[j] # "empty" => dir'[j] # "empty"
    BY <1>22 DEF AddWorkspace
  <2>4. \A k \in Joins \ {j} : dir'[k] = dir[k]
    BY <1>22 DEF AddWorkspace
  <2>5. \A m \in Machines : replica[m] \subseteq replica'[m]
    <3>1. replica' = replica \/ replica' = [replica EXCEPT ![On(j)] = @ \cup {<<cmd[j].name, j>>}]
      BY <1>22, Zenon DEF AddWorkspace
    <3>2. On(j) \in Machines /\ replica \in [Machines -> SUBSET Workspaces]
      OBVIOUS
    <3>3. QED
      BY <3>1, <3>2
  <2>6. QED
    BY <1>22, <2>2, <2>3, <2>4, <2>5 DEF AddWorkspace
<1>23. ASSUME NEW j \in Joins, WriteLink(j) PROVE Grows
  BY <1>23 DEF WriteLink
<1>24. ASSUME NEW j \in Joins, StartWorker(j) PROVE Grows
  BY <1>24 DEF StartWorker
<1>25. ASSUME NEW m \in Machines, StartRound(m) PROVE Grows
  BY <1>25 DEF StartRound
<1>26. QED
  BY <1>1, <1>2, <1>3, <1>4, <1>5, <1>6, <1>7, <1>8, <1>9, <1>10, <1>11, <1>12, <1>13, <1>14, <1>15, <1>16, <1>17, <1>18, <1>19, <1>20, <1>21, <1>22, <1>23, <1>24, <1>25 DEF Next, JoinStep, RoundStep, Register, Procs

\* A step that ends outside the lock leaves what the others have read as it is.
LEMMA IndexLeft ==
    ASSUME TypeOK, IndexInv, NEW j \in Procs, cmd'[j].pc \notin Holding,
           \A k \in Procs \ {j} : Same(k),
           \A m \in Machines : lock[m] => index'[m] = index[m]
    PROVE  IndexInv'
<1>1. ASSUME NEW k \in Procs, cmd'[k].pc \in Holding
      PROVE  /\ cmd'[k].pc = cmd[k].pc /\ cmd'[k].at = cmd[k].at
             /\ cmd'[k].entries = cmd[k].entries /\ index'[On(k)] = index[On(k)]
  <2>1. k # j
    BY <1>1
  <2>2. lock[On(k)]
    BY <1>1, <2>1 DEF Same, TypeOK
  <2>3. QED
    BY <2>1, <2>2, ProcFields DEF Same
<1>2. QED
  BY <1>1 DEF IndexInv, At, On, Holding

\* The lock keeps the index to one join at a time.
LEMMA IndexStep == TypeOK /\ IndexInv /\ [Next]_vars => IndexInv'
<1> SUFFICES ASSUME TypeOK, IndexInv, [Next]_vars PROVE IndexInv'
  OBVIOUS
<1> USE JoinAssumption, JoinsAreProcs, ProcFields, TypeParts DEF IndexInv, VarTypes, Locked, At, On, home, store, counts, Holding
<1>1. CASE UNCHANGED vars
  BY <1>1 DEF vars, home, store, counts, GoTo, End, Idle
<1>2. ASSUME NEW j \in Joins, NEW m \in Machines, NEW n \in Names, Start(j, m, n) PROVE IndexInv'
  BY <1>2 DEF Start, GoTo, End, Idle
<1>3. ASSUME NEW j \in Procs, Fail(j) PROVE IndexInv'
  BY <1>3 DEF Fail, GoTo, End, Idle
<1>4. ASSUME NEW j \in Procs, Killed(j) PROVE IndexInv'
  <2>1. cmd'[j].pc \notin Holding /\ index' = index
    BY <1>4, KilledLeaves DEF Killed, store, Idle
  <2>2. \A k \in Procs \ {j} : Same(k)
    BY <1>4, Others DEF Moved
  <2>3. QED
    BY <2>1, <2>2, IndexLeft
<1>5. ASSUME NEW m \in Machines, SyncPush(m) PROVE IndexInv'
  <2>1. cmd'[m].pc \notin Holding /\ index' = index
    BY <1>5, Moves DEF SyncPush, store, Idle
  <2>2. \A k \in Procs \ {m} : Same(k)
    BY <1>5, Others DEF Moved, RoundStep
  <2>3. QED
    BY <2>1, <2>2, IndexLeft
<1>6. ASSUME NEW m \in Machines, SyncPull(m) PROVE IndexInv'
  BY <1>6 DEF SyncPull, GoTo, End, Idle
<1>7. ASSUME NEW j \in Joins, MakeRepo(j) PROVE IndexInv'
  BY <1>7 DEF MakeRepo, GoTo, End, Idle
<1>8. ASSUME NEW j \in Joins, PullFiles(j) PROVE IndexInv'
  BY <1>8 DEF PullFiles, GoTo, End, Idle
<1>9. ASSUME NEW j \in Joins, PullHeads(j) PROVE IndexInv'
  BY <1>9 DEF PullHeads, GoTo, End, Idle
<1>10. ASSUME NEW j \in Joins, SkipHeads(j) PROVE IndexInv'
  BY <1>10 DEF SkipHeads, GoTo, End, Idle
<1>11. ASSUME NEW j \in Joins, Boot(j) PROVE IndexInv'
  BY <1>11 DEF Boot, GoTo, End, Idle
<1>12. ASSUME NEW j \in Joins, SeedDir(j) PROVE IndexInv'
  <2>1. cmd'[j].pc \notin Holding
    BY <1>12, Moves DEF Idle
  <2>2. \A k \in Procs \ {j} : Same(k)
    BY <1>12, Others, JoinsAreProcs DEF Moved, JoinStep, RoundStep, Register, Procs
  <2>3. index' = index
    BY <1>12 DEF SeedDir
  <2>4. QED
    BY <2>1, <2>2, <2>3, IndexLeft
<1>13. ASSUME NEW j \in Joins, SeedType(j) PROVE IndexInv'
  BY <1>13 DEF SeedType, GoTo, End, Idle
<1>14. ASSUME NEW j \in Joins, SeedCheckout(j) PROVE IndexInv'
  BY <1>14 DEF SeedCheckout, GoTo, End, Idle
<1>15. ASSUME NEW j \in Procs, AcquireLock(j) PROVE IndexInv'
  <2>1. \/ cmd'[j].pc = "idle"
        \/ cmd'[j].pc = "read" /\ cmd'[j].at = cmd[j].at /\ ~lock[On(j)]
    BY <1>15, Moves DEF Idle, Kept, Aim
  <2>2. \A k \in Procs \ {j} : Same(k)
    BY <1>15, Others, JoinsAreProcs DEF Moved, JoinStep, RoundStep, Register, Procs
  <2>3. index' = index
    BY <1>15 DEF AcquireLock
  <2>4. QED
    BY <2>1, <2>2, <2>3 DEF Same
<1>16. ASSUME NEW j \in Procs, ReadIndex(j) PROVE IndexInv'
  BY <1>16 DEF ReadIndex, GoTo, End, Idle
<1>17. ASSUME NEW j \in Procs, WriteIndex(j) PROVE IndexInv'
  BY <1>17 DEF WriteIndex, GoTo, End, Idle
<1>18. ASSUME NEW j \in Procs, Unlock(j) PROVE IndexInv'
  <2>1. cmd'[j].pc \notin Holding /\ index' = index
    BY <1>18, Moves DEF Unlock
  <2>2. \A k \in Procs \ {j} : Same(k)
    BY <1>18, Others, JoinsAreProcs DEF Moved, JoinStep, RoundStep, Register, Procs
  <2>3. QED
    BY <2>1, <2>2, IndexLeft
<1>19. ASSUME NEW j \in Joins, SaveConfig(j) PROVE IndexInv'
  BY <1>19 DEF SaveConfig, GoTo, End, Idle
<1>20. ASSUME NEW j \in Joins, ClearSparse(j) PROVE IndexInv'
  <2>1. cmd'[j].pc \notin Holding
    BY <1>20, Moves DEF Idle
  <2>2. \A k \in Procs \ {j} : Same(k)
    BY <1>20, Others, JoinsAreProcs DEF Moved, JoinStep, RoundStep, Register, Procs
  <2>3. index' = index
    BY <1>20 DEF ClearSparse
  <2>4. QED
    BY <2>1, <2>2, <2>3, IndexLeft
<1>21. ASSUME NEW j \in Joins, LookForName(j) PROVE IndexInv'
  <2>1. cmd'[j].pc \notin Holding
    BY <1>21, Moves DEF Idle
  <2>2. \A k \in Procs \ {j} : Same(k)
    BY <1>21, Others, JoinsAreProcs DEF Moved, JoinStep, RoundStep, Register, Procs
  <2>3. index' = index
    BY <1>21 DEF LookForName
  <2>4. QED
    BY <2>1, <2>2, <2>3, IndexLeft
<1>22. ASSUME NEW j \in Joins, AddWorkspace(j) PROVE IndexInv'
  <2>1. cmd'[j].pc \notin Holding
    BY <1>22, Moves DEF Idle
  <2>2. \A k \in Procs \ {j} : Same(k)
    BY <1>22, Others, JoinsAreProcs DEF Moved, JoinStep, RoundStep, Register, Procs
  <2>3. \A m \in Machines : lock[m] => index'[m] = index[m]
    BY <1>22 DEF AddWorkspace
  <2>4. QED
    BY <2>1, <2>2, <2>3, IndexLeft
<1>23. ASSUME NEW j \in Joins, WriteLink(j) PROVE IndexInv'
  BY <1>23 DEF WriteLink, GoTo, End, Idle
<1>24. ASSUME NEW j \in Joins, StartWorker(j) PROVE IndexInv'
  BY <1>24 DEF StartWorker, GoTo, End, Idle
<1>25. ASSUME NEW m \in Machines, StartRound(m) PROVE IndexInv'
  <2>1. cmd'[m].pc \notin Holding /\ \A k \in Procs \ {m} : cmd'[k] = cmd[k]
    BY <1>25, RoundStarts
  <2>2. index' = index /\ dir' = dir /\ knew' = knew
    BY <1>25 DEF StartRound
  <2>3. QED
    BY <2>1, <2>2, IndexLeft DEF Same
<1>26. QED
  BY <1>1, <1>2, <1>3, <1>4, <1>5, <1>6, <1>7, <1>8, <1>9, <1>10, <1>11, <1>12, <1>13, <1>14, <1>15, <1>16, <1>17, <1>18, <1>19, <1>20, <1>21, <1>22, <1>23, <1>24, <1>25 DEF Next, JoinStep, RoundStep, Register, Procs

\* What is complete in `_default` stays complete.
LEMMA MachineStep == Inv /\ [Next]_vars => MachineReady'
<1> SUFFICES ASSUME Inv, [Next]_vars PROVE MachineReady'
  OBVIOUS
<1>g. Grows
  BY GrowsStep DEF Inv
<1> USE <1>g, JoinsAreProcs, ProcFields, TypeParts DEF Inv, VarTypes, ReadyInv, MachineReady, Grows, home, store, counts
<1>1. CASE UNCHANGED vars
  BY <1>1 DEF vars, home, store, counts
<1>2. ASSUME NEW j \in Joins, NEW m \in Machines, NEW n \in Names, Start(j, m, n) PROVE MachineReady'
  BY <1>2 DEF Start
<1>3. ASSUME NEW j \in Procs, Fail(j) PROVE MachineReady'
  BY <1>3 DEF Fail
<1>4. ASSUME NEW j \in Procs, Killed(j) PROVE MachineReady'
  BY <1>4 DEF Killed
<1>5. ASSUME NEW m \in Machines, SyncPush(m) PROVE MachineReady'
  BY <1>5 DEF SyncPush
<1>6. ASSUME NEW m \in Machines, SyncPull(m) PROVE MachineReady'
  BY <1>6 DEF SyncPull
<1>7. ASSUME NEW j \in Joins, MakeRepo(j) PROVE MachineReady'
  BY <1>7 DEF MakeRepo
<1>8. ASSUME NEW j \in Joins, PullFiles(j) PROVE MachineReady'
  BY <1>8 DEF PullFiles
<1>9. ASSUME NEW j \in Joins, PullHeads(j) PROVE MachineReady'
  BY <1>9 DEF PullHeads
<1>10. ASSUME NEW j \in Joins, SkipHeads(j) PROVE MachineReady'
  BY <1>10 DEF SkipHeads
<1>11. ASSUME NEW j \in Joins, Boot(j) PROVE MachineReady'
  BY <1>11 DEF Boot
<1>12. ASSUME NEW j \in Joins, SeedDir(j) PROVE MachineReady'
  BY <1>12 DEF SeedDir
<1>13. ASSUME NEW j \in Joins, SeedType(j) PROVE MachineReady'
  BY <1>13 DEF SeedType, ReadyAt, At, On, Copied
<1>14. ASSUME NEW j \in Joins, SeedCheckout(j) PROVE MachineReady'
  BY <1>14 DEF SeedCheckout, ReadyAt, At, On, Copied
<1>15. ASSUME NEW j \in Procs, AcquireLock(j) PROVE MachineReady'
  BY <1>15 DEF AcquireLock
<1>16. ASSUME NEW j \in Procs, ReadIndex(j) PROVE MachineReady'
  BY <1>16 DEF ReadIndex
<1>17. ASSUME NEW j \in Procs, WriteIndex(j) PROVE MachineReady'
  BY <1>17 DEF WriteIndex
<1>18. ASSUME NEW j \in Procs, Unlock(j) PROVE MachineReady'
  BY <1>18 DEF Unlock
<1>19. ASSUME NEW j \in Joins, SaveConfig(j) PROVE MachineReady'
  BY <1>19 DEF SaveConfig, ReadyAt, At, On, Copied, Registered, Holding
<1>20. ASSUME NEW j \in Joins, ClearSparse(j) PROVE MachineReady'
  BY <1>20 DEF ClearSparse
<1>21. ASSUME NEW j \in Joins, LookForName(j) PROVE MachineReady'
  BY <1>21 DEF LookForName
<1>22. ASSUME NEW j \in Joins, AddWorkspace(j) PROVE MachineReady'
  BY <1>22 DEF AddWorkspace
<1>23. ASSUME NEW j \in Joins, WriteLink(j) PROVE MachineReady'
  BY <1>23 DEF WriteLink
<1>24. ASSUME NEW j \in Joins, StartWorker(j) PROVE MachineReady'
  BY <1>24 DEF StartWorker
<1>25. ASSUME NEW m \in Machines, StartRound(m) PROVE MachineReady'
  BY <1>25 DEF StartRound
<1>26. QED
  BY <1>1, <1>2, <1>3, <1>4, <1>5, <1>6, <1>7, <1>8, <1>9, <1>10, <1>11, <1>12, <1>13, <1>14, <1>15, <1>16, <1>17, <1>18, <1>19, <1>20, <1>21, <1>22, <1>23, <1>24, <1>25 DEF Next, JoinStep, RoundStep, Register, Procs

\* A join finds what it needs.
LEMMA ReadyStep == Inv /\ [Next]_vars => \A k \in Procs : ReadyAt(k)'
<1> SUFFICES ASSUME Inv, [Next]_vars PROVE \A k \in Procs : ReadyAt(k)'
  OBVIOUS
<1>g. Grows
  BY GrowsStep DEF Inv
<1>s. ASSUME NEW k \in Procs, Same(k) PROVE ReadyAt(k)'
  BY <1>g, <1>s, ProcFields DEF Inv, ReadyInv, ReadyAt, Same, Grows, At, On
<1>w. ASSUME NEW j \in Procs, WriteIndex(j) PROVE "default" \in NamesIn(index'[On(j)])
  <2>1. index'[On(j)] = WithEntry(cmd[j].entries, "default", None)
    BY <1>w, TypeParts, ProcFields DEF Inv, WriteIndex, VarTypes
  <2>2. QED
    BY <2>1, EntryKeeps
<1> USE <1>g, JoinsAreProcs, ProcFields, TypeParts DEF Inv, ReadyInv, MachineReady, ReadyAt, Grows, At, On, Adding, Registered, Copied, Holding
<1>1. CASE UNCHANGED vars
  BY <1>s, <1>1 DEF vars, Same
<1>2. ASSUME NEW j \in Joins, NEW m \in Machines, NEW n \in Names, Start(j, m, n) PROVE \A k \in Procs : ReadyAt(k)'
  <2>1. cmd'[j].pc \in {"boot", "mkdir"} /\ cmd'[j].at = m /\ (cmd'[j].cold <=> ~Ready(m))
    BY <1>2 DEF Start, Idle
  <2>2. ReadyAt(j)'
    BY <2>1, <1>2 DEF Start, Ready, home
  <2>3. QED
    BY <1>s, <2>2, <1>2, StartOthers
<1>3. ASSUME NEW j \in Procs, Fail(j) PROVE \A k \in Procs : ReadyAt(k)'
  <2>1. cmd'[j].pc = "idle"
    BY <1>3, Goes, Ends DEF Fail, VarTypes, Idle, Phases
  <2>2. ReadyAt(j)'
    BY <2>1, <1>3 DEF Fail
  <2>3. QED
    BY <1>s, <2>2, <1>3, Others, JoinsAreProcs DEF Moved, JoinStep, RoundStep, Register, Procs
<1>4. ASSUME NEW j \in Procs, Killed(j) PROVE \A k \in Procs : ReadyAt(k)'
  <2>1. cmd'[j].pc = "idle"
    BY <1>4, KilledLeaves DEF Idle
  <2>2. ReadyAt(j)'
    BY <2>1, <1>4 DEF Killed
  <2>3. QED
    BY <1>s, <2>2, <1>4, Others, JoinsAreProcs DEF Moved, JoinStep, RoundStep, Register, Procs
<1>5. ASSUME NEW m \in Machines, SyncPush(m) PROVE \A k \in Procs : ReadyAt(k)'
  <2>1. \/ cmd'[m].pc = "idle"
        \/ cmd'[m].pc = "sync_pull" /\ cmd'[m].at = cmd[m].at /\ cmd'[m].cold = cmd[m].cold
    BY <1>5, Moves DEF Kept, Aim, Idle
  <2>2. ReadyAt(m)'
    BY <2>1, <1>5 DEF SyncPush
  <2>3. \A k \in Procs \ {m} : Same(k)
    BY <1>5, Others DEF Moved, RoundStep
  <2>4. QED
    BY <1>s, <2>2, <2>3
<1>6. ASSUME NEW m \in Machines, SyncPull(m) PROVE \A k \in Procs : ReadyAt(k)'
  <2>1. cmd'[m].pc = "idle"
    BY <1>6, Ends DEF SyncPull, Idle
  <2>2. ReadyAt(m)'
    BY <2>1 DEF SyncPull
  <2>3. \A k \in Procs \ {m} : Same(k)
    BY <1>6, Others DEF Moved, RoundStep
  <2>4. QED
    BY <1>s, <2>2, <2>3
<1>7. ASSUME NEW j \in Joins, MakeRepo(j) PROVE \A k \in Procs : ReadyAt(k)'
  <2>1. cmd'[j].pc = "pull" /\ cmd'[j].at = cmd[j].at /\ cmd'[j].cold = cmd[j].cold
    BY <1>7, Goes, Ends DEF MakeRepo, VarTypes, Idle, Phases
  <2>2. ReadyAt(j)'
    BY <2>1, <1>7 DEF MakeRepo
  <2>3. QED
    BY <1>s, <2>2, <1>7, Others, JoinsAreProcs DEF Moved, JoinStep, RoundStep, Register, Procs
<1>8. ASSUME NEW j \in Joins, PullFiles(j) PROVE \A k \in Procs : ReadyAt(k)'
  <2>1. cmd'[j].pc = "heads" /\ cmd'[j].at = cmd[j].at /\ cmd'[j].cold = cmd[j].cold
    BY <1>8, Goes, Ends DEF PullFiles, VarTypes, VarTypes, Records
  <2>2. ReadyAt(j)'
    BY <2>1, <1>8 DEF PullFiles
  <2>3. QED
    BY <1>s, <2>2, <1>8, Others, JoinsAreProcs DEF Moved, JoinStep, RoundStep, Register, Procs
<1>9. ASSUME NEW j \in Joins, PullHeads(j) PROVE \A k \in Procs : ReadyAt(k)'
  <2>1. cmd'[j].pc = "boot" /\ cmd'[j].at = cmd[j].at /\ cmd'[j].cold = cmd[j].cold
    BY <1>9, Goes, Ends DEF PullHeads, VarTypes, Records
  <2>2. ReadyAt(j)'
    BY <2>1, <1>9 DEF PullHeads
  <2>3. QED
    BY <1>s, <2>2, <1>9, Others, JoinsAreProcs DEF Moved, JoinStep, RoundStep, Register, Procs
<1>10. ASSUME NEW j \in Joins, SkipHeads(j) PROVE \A k \in Procs : ReadyAt(k)'
  <2>1. cmd'[j].pc = "boot" /\ cmd'[j].at = cmd[j].at /\ cmd'[j].cold = cmd[j].cold
    BY <1>10, Goes, Ends DEF SkipHeads, VarTypes, VarTypes, Records
  <2>2. ReadyAt(j)'
    BY <2>1, <1>10 DEF SkipHeads
  <2>3. QED
    BY <1>s, <2>2, <1>10, Others, JoinsAreProcs DEF Moved, JoinStep, RoundStep, Register, Procs
<1>11. ASSUME NEW j \in Joins, Boot(j) PROVE \A k \in Procs : ReadyAt(k)'
  <2>1. /\ cmd'[j].pc = "seed" \/ (cmd'[j].pc = "lock" /\ copy[On(j)] # "none")
        /\ cmd'[j].at = cmd[j].at /\ cmd'[j].cold = cmd[j].cold
    BY <1>11, Moves DEF Kept, Aim, Idle
  <2>2. ReadyAt(j)'
    BY <2>1, <1>11 DEF Boot
  <2>3. QED
    BY <1>s, <2>2, <1>11, Others, JoinsAreProcs DEF Moved, JoinStep, RoundStep, Register, Procs
<1>12. ASSUME NEW j \in Joins, SeedDir(j) PROVE \A k \in Procs : ReadyAt(k)'
  <2>1. \/ cmd'[j].pc = "idle"
        \/ /\ cmd'[j].pc = "seed_type" /\ copy'[On(j)] # "none"
           /\ cmd'[j].at = cmd[j].at /\ cmd'[j].cold = cmd[j].cold
    BY <1>12, Moves DEF Kept, Aim, Idle
  <2>2. ReadyAt(j)'
    BY <2>1, <1>12 DEF SeedDir
  <2>3. QED
    BY <1>s, <2>2, <1>12, Others, JoinsAreProcs DEF Moved, JoinStep, RoundStep, Register, Procs
<1>13. ASSUME NEW j \in Joins, SeedType(j) PROVE \A k \in Procs : ReadyAt(k)'
  <2>1. cmd'[j].pc = "seed_checkout" /\ cmd'[j].at = cmd[j].at /\ cmd'[j].cold = cmd[j].cold /\ copy[On(j)] # "none"
    BY <1>13, Goes, Ends DEF SeedType, VarTypes, Idle, Phases
  <2>2. ReadyAt(j)'
    BY <2>1, <1>13 DEF SeedType
  <2>3. QED
    BY <1>s, <2>2, <1>13, Others, JoinsAreProcs DEF Moved, JoinStep, RoundStep, Register, Procs
<1>14. ASSUME NEW j \in Joins, SeedCheckout(j) PROVE \A k \in Procs : ReadyAt(k)'
  <2>1. cmd'[j].pc = "lock" /\ cmd'[j].at = cmd[j].at /\ cmd'[j].cold = cmd[j].cold /\ copy[On(j)] # "none"
    BY <1>14, Goes, Ends DEF SeedCheckout, VarTypes, Idle, Phases
  <2>2. ReadyAt(j)'
    BY <2>1, <1>14 DEF SeedCheckout
  <2>3. QED
    BY <1>s, <2>2, <1>14, Others, JoinsAreProcs DEF Moved, JoinStep, RoundStep, Register, Procs
<1>15. ASSUME NEW j \in Procs, AcquireLock(j) PROVE \A k \in Procs : ReadyAt(k)'
  <2>1. \/ cmd'[j].pc = "idle"
        \/ cmd'[j].pc = "read" /\ cmd'[j].at = cmd[j].at /\ cmd'[j].cold = cmd[j].cold
    BY <1>15, Moves DEF Kept, Aim, Idle
  <2>2. ReadyAt(j)'
    BY <2>1, <1>15 DEF AcquireLock
  <2>3. QED
    BY <1>s, <2>2, <1>15, Others, JoinsAreProcs DEF Moved, JoinStep, RoundStep, Register, Procs
<1>16. ASSUME NEW j \in Procs, ReadIndex(j) PROVE \A k \in Procs : ReadyAt(k)'
  <2>1. cmd'[j].pc = "write" /\ cmd'[j].at = cmd[j].at /\ cmd'[j].cold = cmd[j].cold
    BY <1>16, Goes, Ends DEF ReadIndex, VarTypes, VarTypes, Records
  <2>2. ReadyAt(j)'
    BY <2>1, <1>16 DEF ReadIndex
  <2>3. QED
    BY <1>s, <2>2, <1>16, Others, JoinsAreProcs DEF Moved, JoinStep, RoundStep, Register, Procs
<1>17. ASSUME NEW j \in Procs, WriteIndex(j) PROVE \A k \in Procs : ReadyAt(k)'
  <2>1. cmd'[j].pc = "unlock" /\ cmd'[j].at = cmd[j].at /\ cmd'[j].cold = cmd[j].cold
    BY <1>17, Moves DEF Kept, Aim
  <2>4. "default" \in NamesIn(index'[On(j)])
    BY <1>w, <1>17
  <2>2. ReadyAt(j)'
    BY <2>1, <1>17, <2>4 DEF WriteIndex
  <2>3. QED
    BY <1>s, <2>2, <1>17, Others, JoinsAreProcs DEF Moved, JoinStep, RoundStep, Register, Procs
<1>18. ASSUME NEW j \in Procs, Unlock(j) PROVE \A k \in Procs : ReadyAt(k)'
  <2>1. /\ \/ cmd'[j].pc \in {"config", "sync_push"}
           \/ cmd'[j].pc = "sparse" /\ ~cmd[j].cold
        /\ cmd'[j].at = cmd[j].at /\ cmd'[j].cold = cmd[j].cold
    BY <1>18, Goes, Ends DEF Unlock, AfterRegister, VarTypes, Idle, Phases
  <2>2. ReadyAt(j)'
    BY <2>1, <1>18 DEF Unlock
  <2>3. QED
    BY <1>s, <2>2, <1>18, Others, JoinsAreProcs DEF Moved, JoinStep, RoundStep, Register, Procs
<1>19. ASSUME NEW j \in Joins, SaveConfig(j) PROVE \A k \in Procs : ReadyAt(k)'
  <2>1. cmd'[j].pc = "boot" /\ cmd'[j].at = cmd[j].at /\ config'[On(j)]
    BY <1>19, Goes, Ends DEF SaveConfig, VarTypes, VarTypes, Records
  <2>2. ReadyAt(j)'
    BY <2>1, <1>19 DEF SaveConfig
  <2>3. QED
    BY <1>s, <2>2, <1>19, Others, JoinsAreProcs DEF Moved, JoinStep, RoundStep, Register, Procs
<1>20. ASSUME NEW j \in Joins, ClearSparse(j) PROVE \A k \in Procs : ReadyAt(k)'
  <2>1. \/ cmd'[j].pc = "idle"
        \/ /\ cmd'[j].pc = "look" /\ copy[On(j)] = "all"
           /\ cmd'[j].at = cmd[j].at /\ cmd'[j].cold = cmd[j].cold
    BY <1>20, Moves DEF Kept, Aim, Idle
  <2>2. ReadyAt(j)'
    BY <2>1, <1>20 DEF ClearSparse
  <2>3. QED
    BY <1>s, <2>2, <1>20, Others, JoinsAreProcs DEF Moved, JoinStep, RoundStep, Register, Procs
<1>21. ASSUME NEW j \in Joins, LookForName(j) PROVE \A k \in Procs : ReadyAt(k)'
  <2>1. \/ cmd'[j].pc = "idle"
        \/ cmd'[j].pc = "add" /\ cmd'[j].at = cmd[j].at /\ cmd'[j].cold = cmd[j].cold
    BY <1>21, Moves DEF Kept, Aim, Idle
  <2>2. ReadyAt(j)'
    BY <2>1, <1>21 DEF LookForName
  <2>3. QED
    BY <1>s, <2>2, <1>21, Others, JoinsAreProcs DEF Moved, JoinStep, RoundStep, Register, Procs
<1>22. ASSUME NEW j \in Joins, AddWorkspace(j) PROVE \A k \in Procs : ReadyAt(k)'
  <2>1. \/ cmd'[j].pc = "idle"
        \/ cmd'[j].pc = "link" /\ cmd'[j].at = cmd[j].at /\ cmd'[j].cold = cmd[j].cold
    BY <1>22, Moves DEF Kept, Aim, Idle
  <2>2. ReadyAt(j)'
    BY <2>1, <1>22 DEF AddWorkspace
  <2>3. QED
    BY <1>s, <2>2, <1>22, Others, JoinsAreProcs DEF Moved, JoinStep, RoundStep, Register, Procs
<1>23. ASSUME NEW j \in Joins, WriteLink(j) PROVE \A k \in Procs : ReadyAt(k)'
  <2>1. cmd'[j].pc = "worker" /\ cmd'[j].at = cmd[j].at /\ cmd'[j].cold = cmd[j].cold
    BY <1>23, Goes, Ends DEF WriteLink, VarTypes, Idle, Phases
  <2>2. ReadyAt(j)'
    BY <2>1, <1>23 DEF WriteLink
  <2>3. QED
    BY <1>s, <2>2, <1>23, Others, JoinsAreProcs DEF Moved, JoinStep, RoundStep, Register, Procs
<1>24. ASSUME NEW j \in Joins, StartWorker(j) PROVE \A k \in Procs : ReadyAt(k)'
  <2>1. cmd'[j].pc = "idle"
    BY <1>24, Goes, Ends DEF StartWorker, VarTypes, Idle, Phases
  <2>2. ReadyAt(j)'
    BY <2>1, <1>24 DEF StartWorker
  <2>3. QED
    BY <1>s, <2>2, <1>24, Others, JoinsAreProcs DEF Moved, JoinStep, RoundStep, Register, Procs
<1>25. ASSUME NEW m \in Machines, StartRound(m) PROVE \A k \in Procs : ReadyAt(k)'
  <2>1. cmd'[m].pc = "lock" /\ cmd'[m].at = m /\ ~cmd'[m].cold
    BY <1>25, RoundStarts
  <2>2. ReadyAt(m)'
    BY <2>1, <1>25 DEF StartRound, Ready, home
  <2>3. \A k \in Procs \ {m} : Same(k)
    BY <1>25, RoundStarts DEF StartRound, Same
  <2>4. QED
    BY <1>s, <2>2, <2>3
<1>26. QED
  BY <1>1, <1>2, <1>3, <1>4, <1>5, <1>6, <1>7, <1>8, <1>9, <1>10, <1>11, <1>12, <1>13, <1>14, <1>15, <1>16, <1>17, <1>18, <1>19, <1>20, <1>21, <1>22, <1>23, <1>24, <1>25 DEF Next, JoinStep, RoundStep, Register, Procs

LEMMA ReadyInvStep == Inv /\ [Next]_vars => ReadyInv'
  BY MachineStep, ReadyStep DEF ReadyInv

LEMMA AddedIs == /\ \A w : w \in Added <=> \E m \in Machines : w \in replica[m]
                 /\ \A w : w \in Added' <=> \E m \in Machines : w \in replica'[m]
  BY DEF Added

\* Only adding a workspace makes one that no replica has yet.
LEMMA NewAdded ==
    Inv /\ [Next]_vars =>
        \/ \A m \in Machines : replica'[m] \subseteq Added
        \/ \E j \in Joins : /\ AddWorkspace(j) /\ dir'[j] = "added"
                            /\ \A m \in Machines : replica'[m] \subseteq Added \cup {<<cmd[j].name, j>>}
<1> DEFINE Nothing == \A m \in Machines : replica'[m] \subseteq Added
           One == \E j \in Joins : /\ AddWorkspace(j) /\ dir'[j] = "added"
                                   /\ \A m \in Machines : replica'[m] \subseteq Added \cup {<<cmd[j].name, j>>}
<1> SUFFICES ASSUME Inv, [Next]_vars PROVE Nothing \/ One
  OBVIOUS
<1>a. \A m \in Machines : replica[m] \subseteq Added
  BY AddedIs
<1>p. published \subseteq Added /\ \A j \in Joins : cmd[j].manifest \subseteq Added
  BY DEF Inv, KnownInv, AddedByJoins, KnownAt
<1>t. replica \in [Machines -> SUBSET Workspaces] /\ dir \in [Joins -> {"empty", "added", "linked"}]
  BY DEF Inv, TypeOK
<1>u. ASSUME replica' = replica PROVE Nothing \/ One
  BY <1>a, <1>u
<1> HIDE DEF Nothing, One
<1>1. CASE UNCHANGED vars
  BY <1>1, <1>u DEF vars
<1>2. ASSUME NEW j \in Joins, NEW m \in Machines, NEW n \in Names, Start(j, m, n) PROVE Nothing \/ One
  BY <1>2, <1>u DEF Start
<1>3. ASSUME NEW j \in Procs, Fail(j) PROVE Nothing \/ One
  BY <1>3, <1>u DEF Fail
<1>4. ASSUME NEW j \in Procs, Killed(j) PROVE Nothing \/ One
  BY <1>4, <1>u DEF Killed
<1>5. ASSUME NEW m \in Machines, SyncPush(m) PROVE Nothing \/ One
  BY <1>5, <1>u DEF SyncPush
<1>6. ASSUME NEW m \in Machines, SyncPull(m) PROVE Nothing \/ One
  BY <1>6, <1>a, <1>p, <1>t DEF SyncPull, Nothing
<1>7. ASSUME NEW j \in Joins, MakeRepo(j) PROVE Nothing \/ One
  BY <1>7, <1>u DEF MakeRepo
<1>8. ASSUME NEW j \in Joins, PullFiles(j) PROVE Nothing \/ One
  BY <1>8, <1>u DEF PullFiles
<1>9. ASSUME NEW j \in Joins, PullHeads(j) PROVE Nothing \/ One
  BY <1>9, <1>a, <1>p, <1>t DEF PullHeads, Nothing
<1>10. ASSUME NEW j \in Joins, SkipHeads(j) PROVE Nothing \/ One
  BY <1>10, <1>u DEF SkipHeads
<1>11. ASSUME NEW j \in Joins, Boot(j) PROVE Nothing \/ One
  BY <1>11, <1>u DEF Boot
<1>12. ASSUME NEW j \in Joins, SeedDir(j) PROVE Nothing \/ One
  BY <1>12, <1>u DEF SeedDir
<1>13. ASSUME NEW j \in Joins, SeedType(j) PROVE Nothing \/ One
  BY <1>13, <1>u DEF SeedType
<1>14. ASSUME NEW j \in Joins, SeedCheckout(j) PROVE Nothing \/ One
  BY <1>14, <1>u DEF SeedCheckout
<1>15. ASSUME NEW j \in Procs, AcquireLock(j) PROVE Nothing \/ One
  BY <1>15, <1>u DEF AcquireLock
<1>16. ASSUME NEW j \in Procs, ReadIndex(j) PROVE Nothing \/ One
  BY <1>16, <1>u DEF ReadIndex
<1>17. ASSUME NEW j \in Procs, WriteIndex(j) PROVE Nothing \/ One
  BY <1>17, <1>u DEF WriteIndex
<1>18. ASSUME NEW j \in Procs, Unlock(j) PROVE Nothing \/ One
  BY <1>18, <1>u DEF Unlock
<1>19. ASSUME NEW j \in Joins, SaveConfig(j) PROVE Nothing \/ One
  BY <1>19, <1>u DEF SaveConfig
<1>20. ASSUME NEW j \in Joins, ClearSparse(j) PROVE Nothing \/ One
  BY <1>20, <1>u DEF ClearSparse
<1>21. ASSUME NEW j \in Joins, LookForName(j) PROVE Nothing \/ One
  BY <1>21, <1>u DEF LookForName
<1>22. ASSUME NEW j \in Joins, AddWorkspace(j) PROVE Nothing \/ One
  <2>1. CASE replica' = replica
    BY <1>u, <2>1
  <2>2. CASE replica' # replica
    BY <1>22, <2>2, <1>a, <1>t DEF AddWorkspace, One
  <2>3. QED
    BY <2>1, <2>2
<1>23. ASSUME NEW j \in Joins, WriteLink(j) PROVE Nothing \/ One
  BY <1>23, <1>u DEF WriteLink
<1>24. ASSUME NEW j \in Joins, StartWorker(j) PROVE Nothing \/ One
  BY <1>24, <1>u DEF StartWorker
<1>25. ASSUME NEW m \in Machines, StartRound(m) PROVE Nothing \/ One
  BY <1>25, <1>u DEF StartRound
<1>26. QED
  BY <1>1, <1>2, <1>3, <1>4, <1>5, <1>6, <1>7, <1>8, <1>9, <1>10, <1>11, <1>12, <1>13, <1>14, <1>15, <1>16, <1>17, <1>18, <1>19, <1>20, <1>21, <1>22, <1>23, <1>24, <1>25 DEF Next, JoinStep, RoundStep, Register, Procs

LEMMA AddedStep == Inv /\ [Next]_vars => AddedByJoins'
<1> SUFFICES ASSUME Inv, [Next]_vars PROVE AddedByJoins'
  OBVIOUS
<1>g. Grows /\ Added \subseteq Added'
  BY GrowsStep, AddedIs DEF Inv, Grows
<1>1. ASSUME NEW w \in Added', w[2] # None PROVE dir'[w[2]] # "empty"
  <2>1. CASE w \in Added
    <3>1. w[2] \in Joins
      BY <2>1, <1>1, AddedIs DEF Inv, TypeOK, Workspaces
    <3>2. QED
      BY <3>1, <2>1, <1>1, <1>g DEF Inv, KnownInv, AddedByJoins, Grows
  <2>2. CASE w \notin Added
    <3>1. PICK j \in Joins : dir'[j] = "added" /\ w = <<cmd[j].name, j>>
      BY <2>2, NewAdded, AddedIs
    <3>2. QED
      BY <3>1
  <2>3. QED
    BY <2>1, <2>2
<1>p. published \subseteq Added'
  BY <1>g DEF Inv, KnownInv, AddedByJoins
<1>2. published' \subseteq Added'
  <2>1. CASE published' = published
    BY <2>1, <1>p
  <2>2. CASE \E m \in Machines : SyncPush(m)
    BY <2>2, <1>p, AddedIs DEF SyncPush
  <2>3. (\A j \in Joins, m \in Machines, n \in Names : Start(j, m, n) => published' = published)
        /\ (UNCHANGED vars => published' = published)
        /\ (\A m \in Machines : SyncPull(m) => published' = published)
        /\ (\A m \in Machines : StartRound(m) => published' = published)
        /\ (\A j \in Procs : Fail(j) \/ Killed(j) => published' = published)
    BY DEF Start, StartRound, vars, SyncPull, Fail, Killed
  <2>4. /\ \A j \in Joins : JoinStep(j) => published' = published
        /\ \A m \in Machines : RoundStep(m) => published' = published \/ SyncPush(m)
    BY DEF JoinStep, RoundStep, Register, SyncPull, MakeRepo, PullFiles, PullHeads, SkipHeads, Boot, SeedDir, SeedType, SeedCheckout,
       AcquireLock, ReadIndex, WriteIndex, Unlock, SaveConfig, ClearSparse, LookForName, AddWorkspace,
       WriteLink, StartWorker
  <2>5. QED
    BY <2>1, <2>2, <2>3, <2>4 DEF Next
<1>3. QED
  BY <1>1, <1>2 DEF AddedByJoins

LEMMA KnownStep == Inv /\ [Next]_vars => \A k \in Joins : KnownAt(k)'
<1> SUFFICES ASSUME Inv, [Next]_vars PROVE \A k \in Joins : KnownAt(k)'
  OBVIOUS
<1>g. Grows /\ Added \subseteq Added'
  BY GrowsStep, AddedIs DEF Inv, Grows
<1>s. ASSUME NEW k \in Joins, Same(k) PROVE KnownAt(k)'
  BY <1>g, <1>s, JoinsAreProcs, ProcFields DEF Inv, KnownInv, KnownAt, Same, Grows, At, On
<1>e. ASSUME NEW j \in Joins, cmd'[j] = Idle, knew'[j] = knew[j] PROVE KnownAt(j)'
  BY <1>g, <1>e DEF Inv, KnownInv, KnownAt, At, On, Idle
<1>k. ASSUME NEW j \in Joins, Aim(j), knew'[j] = knew[j], dir'[j] = dir[j],
             cmd[j].pc \notin {"idle", "mkdir", "pull", "heads", "link", "worker"},
             cmd'[j].pc \notin {"mkdir", "pull", "heads", "add", "link", "worker"}
      PROVE  KnownAt(j)'
  BY <1>g, <1>k, JoinsAreProcs, ProcFields DEF Inv, KnownInv, KnownAt, Kept, Aim, Grows, At, On
<1>t. /\ TypeOK /\ VarTypes
      /\ \A j \in Joins : KnownAt(j) /\ knew[j] \subseteq Added /\ replica[On(j)] \subseteq Added
  BY TypeParts, AddedIs, JoinsAreProcs, ProcFields DEF Inv, KnownInv, KnownAt
<1> USE JoinsAreProcs, ProcFields, <1>t DEF VarTypes, At
<1>1. CASE UNCHANGED vars
  BY <1>s, <1>1 DEF vars, Same
<1>2. ASSUME NEW j \in Joins, NEW m \in Machines, NEW n \in Names, Start(j, m, n) PROVE \A k \in Joins : KnownAt(k)'
  <2>1. /\ (cmd'[j].pc = "boot" /\ config[m]) \/ cmd'[j].pc = "mkdir"
        /\ cmd'[j].manifest = {} /\ cmd'[j].base = IF config[m] THEN {} ELSE published
        /\ knew'[j] = knew[j] /\ dir'[j] = "empty" /\ published' = published
    BY <1>2 DEF Start, Idle, Ready
  <2>2. KnownAt(j)'
    BY <1>g, <2>1 DEF KnownAt
  <2>3. QED
    BY <1>s, <2>2, <1>2, StartOthers
<1>3. ASSUME NEW j \in Procs, Fail(j) PROVE \A k \in Joins : KnownAt(k)'
  <2>1. cmd'[j] = Idle /\ knew' = knew
    BY <1>3, Ends DEF Fail
  <2>2. QED
    BY <1>s, <1>e, <2>1, <1>3, Others, JoinsAreProcs DEF Moved, JoinStep, RoundStep, Register, Procs
<1>4. ASSUME NEW j \in Procs, Killed(j) PROVE \A k \in Joins : KnownAt(k)'
  <2>1. cmd'[j] = Idle /\ knew' = knew
    BY <1>4, KilledLeaves DEF Killed
  <2>2. QED
    BY <1>s, <1>e, <2>1, <1>4, Others, JoinsAreProcs DEF Moved, JoinStep, RoundStep, Register, Procs
<1>5. ASSUME NEW m \in Machines, SyncPush(m) PROVE \A k \in Joins : KnownAt(k)'
  BY <1>s, <1>5, Others DEF Moved, RoundStep
<1>6. ASSUME NEW m \in Machines, SyncPull(m) PROVE \A k \in Joins : KnownAt(k)'
  BY <1>s, <1>6, Others DEF Moved, RoundStep
<1>7. ASSUME NEW j \in Joins, MakeRepo(j) PROVE \A k \in Joins : KnownAt(k)'
  <2>1. cmd'[j].pc = "pull" /\ Kept(j) /\ knew'[j] = knew[j] /\ dir'[j] = dir[j]
    BY <1>7, Goes DEF MakeRepo, Kept, Aim, Phases
  <2>2. KnownAt(j)'
    BY <1>g, <2>1, <1>7 DEF MakeRepo, KnownAt, Kept, Aim, Grows, On
  <2>3. QED
    BY <1>s, <2>2, <1>7, Others, JoinsAreProcs DEF Moved, JoinStep, RoundStep, Register, Procs
<1>8. ASSUME NEW j \in Joins, PullFiles(j) PROVE \A k \in Joins : KnownAt(k)'
  <2>1. /\ cmd'[j].pc = "heads" /\ cmd'[j].manifest = published /\ cmd'[j].base = cmd[j].base
        /\ knew'[j] = knew[j] /\ dir'[j] = dir[j]
    BY <1>8 DEF PullFiles, TypeOK, Records
  <2>2. KnownAt(j)'
    BY <1>g, <2>1, <1>8 DEF PullFiles, KnownAt, Kept, Aim, Grows, On
  <2>3. QED
    BY <1>s, <2>2, <1>8, Others, JoinsAreProcs DEF Moved, JoinStep, RoundStep, Register, Procs
<1>9. ASSUME NEW j \in Joins, PullHeads(j) PROVE \A k \in Joins : KnownAt(k)'
  <2>1. /\ cmd'[j].pc = "boot" /\ cmd'[j].manifest = {} /\ cmd'[j].base = cmd[j].base
        /\ cmd'[j].at = cmd[j].at /\ knew'[j] = knew[j] /\ dir'[j] = dir[j]
        /\ cmd[j].manifest \subseteq replica'[On(j)]
    BY <1>9 DEF PullHeads, TypeOK, Records
  <2>2. KnownAt(j)'
    BY <1>g, <2>1, <1>9 DEF PullHeads, KnownAt, Grows, On
  <2>3. QED
    BY <1>s, <2>2, <1>9, Others, JoinsAreProcs DEF Moved, JoinStep, RoundStep, Register, Procs
<1>10. ASSUME NEW j \in Joins, SkipHeads(j) PROVE \A k \in Joins : KnownAt(k)'
  <2>1. /\ cmd'[j].pc = "boot" /\ cmd'[j].manifest = cmd[j].manifest /\ cmd'[j].base = {}
        /\ knew'[j] = knew[j] /\ dir'[j] = dir[j]
    BY <1>10 DEF SkipHeads, TypeOK, Records
  <2>2. KnownAt(j)'
    BY <1>g, <2>1, <1>10 DEF SkipHeads, KnownAt, Kept, Aim, Grows, On
  <2>3. QED
    BY <1>s, <2>2, <1>10, Others, JoinsAreProcs DEF Moved, JoinStep, RoundStep, Register, Procs
<1>11. ASSUME NEW j \in Joins, Boot(j) PROVE \A k \in Joins : KnownAt(k)'
  <2>1. cmd'[j].pc \in {"seed", "lock"} /\ Aim(j)
    BY <1>11, Moves DEF Kept
  <2>2. knew'[j] = knew[j] /\ dir'[j] = dir[j] /\ cmd[j].pc \notin {"idle", "mkdir", "pull", "heads", "link", "worker"}
    BY <1>11 DEF Boot
  <2>3. KnownAt(j)'
    BY <1>e, <1>k, <2>1, <2>2
  <2>4. QED
    BY <1>s, <2>3, <1>11, Others, JoinsAreProcs DEF Moved, JoinStep, RoundStep, Register, Procs
<1>12. ASSUME NEW j \in Joins, SeedDir(j) PROVE \A k \in Joins : KnownAt(k)'
  <2>1. cmd'[j] = Idle \/ (cmd'[j].pc \in {"seed_type"} /\ Aim(j))
    BY <1>12, Moves DEF Kept
  <2>2. knew'[j] = knew[j] /\ dir'[j] = dir[j] /\ cmd[j].pc \notin {"idle", "mkdir", "pull", "heads", "link", "worker"}
    BY <1>12 DEF SeedDir
  <2>3. KnownAt(j)'
    BY <1>e, <1>k, <2>1, <2>2
  <2>4. QED
    BY <1>s, <2>3, <1>12, Others, JoinsAreProcs DEF Moved, JoinStep, RoundStep, Register, Procs
<1>13. ASSUME NEW j \in Joins, SeedType(j) PROVE \A k \in Joins : KnownAt(k)'
  <2>1. cmd'[j].pc \in {"seed_checkout"} /\ Aim(j)
    BY <1>13, Goes DEF SeedType, Aim, Phases
  <2>2. knew'[j] = knew[j] /\ dir'[j] = dir[j] /\ cmd[j].pc \notin {"idle", "mkdir", "pull", "heads", "link", "worker"}
    BY <1>13 DEF SeedType
  <2>3. KnownAt(j)'
    BY <1>e, <1>k, <2>1, <2>2
  <2>4. QED
    BY <1>s, <2>3, <1>13, Others, JoinsAreProcs DEF Moved, JoinStep, RoundStep, Register, Procs
<1>14. ASSUME NEW j \in Joins, SeedCheckout(j) PROVE \A k \in Joins : KnownAt(k)'
  <2>1. cmd'[j].pc \in {"lock"} /\ Aim(j)
    BY <1>14, Goes DEF SeedCheckout, Aim, Phases
  <2>2. knew'[j] = knew[j] /\ dir'[j] = dir[j] /\ cmd[j].pc \notin {"idle", "mkdir", "pull", "heads", "link", "worker"}
    BY <1>14 DEF SeedCheckout
  <2>3. KnownAt(j)'
    BY <1>e, <1>k, <2>1, <2>2
  <2>4. QED
    BY <1>s, <2>3, <1>14, Others, JoinsAreProcs DEF Moved, JoinStep, RoundStep, Register, Procs
<1>15. ASSUME NEW j \in Procs, AcquireLock(j) PROVE \A k \in Joins : KnownAt(k)'
  <2>1. cmd'[j] = Idle \/ (cmd'[j].pc \in {"read"} /\ Aim(j))
    BY <1>15, Moves DEF Kept
  <2>2. knew'[j] = knew[j] /\ dir'[j] = dir[j] /\ cmd[j].pc \notin {"idle", "mkdir", "pull", "heads", "link", "worker"}
    BY <1>15 DEF AcquireLock
  <2>3. j \in Joins => KnownAt(j)'
    BY <1>e, <1>k, <2>1, <2>2
  <2>4. QED
    BY <1>s, <2>3, <1>15, Others, JoinsAreProcs DEF Moved, JoinStep, RoundStep, Register, Procs
<1>16. ASSUME NEW j \in Procs, ReadIndex(j) PROVE \A k \in Joins : KnownAt(k)'
  <2>1. cmd'[j].pc \in {"write"} /\ Aim(j)
    BY <1>16, Moves DEF Kept
  <2>2. knew'[j] = knew[j] /\ dir'[j] = dir[j] /\ cmd[j].pc \notin {"idle", "mkdir", "pull", "heads", "link", "worker"}
    BY <1>16 DEF ReadIndex
  <2>3. j \in Joins => KnownAt(j)'
    BY <1>e, <1>k, <2>1, <2>2
  <2>4. QED
    BY <1>s, <2>3, <1>16, Others, JoinsAreProcs DEF Moved, JoinStep, RoundStep, Register, Procs
<1>17. ASSUME NEW j \in Procs, WriteIndex(j) PROVE \A k \in Joins : KnownAt(k)'
  <2>1. cmd'[j].pc \in {"unlock"} /\ Aim(j)
    BY <1>17, Moves DEF Kept
  <2>2. knew'[j] = knew[j] /\ dir'[j] = dir[j] /\ cmd[j].pc \notin {"idle", "mkdir", "pull", "heads", "link", "worker"}
    BY <1>17 DEF WriteIndex
  <2>3. j \in Joins => KnownAt(j)'
    BY <1>e, <1>k, <2>1, <2>2
  <2>4. QED
    BY <1>s, <2>3, <1>17, Others, JoinsAreProcs DEF Moved, JoinStep, RoundStep, Register, Procs
<1>18. ASSUME NEW j \in Procs, Unlock(j) PROVE \A k \in Joins : KnownAt(k)'
  <2>1. cmd'[j].pc \in {"config", "sparse", "sync_push"} /\ Aim(j)
    <3>1. PICK x \in {"config", "sparse", "sync_push"} : GoTo(j, x)
      BY <1>18 DEF Unlock, AfterRegister
    <3>2. QED
      BY <3>1, Goes DEF Aim, Phases, Holding
  <2>2. knew'[j] = knew[j] /\ dir'[j] = dir[j] /\ cmd[j].pc \notin {"idle", "mkdir", "pull", "heads", "link", "worker"}
    BY <1>18 DEF Unlock
  <2>3. j \in Joins => KnownAt(j)'
    BY <1>e, <1>k, <2>1, <2>2
  <2>4. QED
    BY <1>s, <2>3, <1>18, Others, JoinsAreProcs DEF Moved, JoinStep, RoundStep, Register, Procs
<1>19. ASSUME NEW j \in Joins, SaveConfig(j) PROVE \A k \in Joins : KnownAt(k)'
  <2>1. cmd'[j].pc \in {"boot"} /\ Aim(j)
    BY <1>19, Moves DEF Kept
  <2>2. knew'[j] = knew[j] /\ dir'[j] = dir[j] /\ cmd[j].pc \notin {"idle", "mkdir", "pull", "heads", "link", "worker"}
    BY <1>19 DEF SaveConfig
  <2>3. KnownAt(j)'
    BY <1>e, <1>k, <2>1, <2>2
  <2>4. QED
    BY <1>s, <2>3, <1>19, Others, JoinsAreProcs DEF Moved, JoinStep, RoundStep, Register, Procs
<1>20. ASSUME NEW j \in Joins, ClearSparse(j) PROVE \A k \in Joins : KnownAt(k)'
  <2>1. cmd'[j] = Idle \/ (cmd'[j].pc \in {"look"} /\ Aim(j))
    BY <1>20, Moves DEF Kept
  <2>2. knew'[j] = knew[j] /\ dir'[j] = dir[j] /\ cmd[j].pc \notin {"idle", "mkdir", "pull", "heads", "link", "worker"}
    BY <1>20 DEF ClearSparse
  <2>3. KnownAt(j)'
    BY <1>e, <1>k, <2>1, <2>2
  <2>4. QED
    BY <1>s, <2>3, <1>20, Others, JoinsAreProcs DEF Moved, JoinStep, RoundStep, Register, Procs
<1>21. ASSUME NEW j \in Joins, LookForName(j) PROVE \A k \in Joins : KnownAt(k)'
  <2>1. /\ cmd'[j] = Idle \/ (cmd'[j].pc = "add" /\ Kept(j) /\ cmd[j].name \notin NamesIn(replica[On(j)]))
        /\ dir'[j] = dir[j] /\ knew'[j] = replica[On(j)] \cup cmd[j].base
    BY <1>21, Moves DEF LookForName
  <2>2. KnownAt(j)'
    <3>1. cmd[j].base \subseteq replica[On(j)]
      BY <1>21 DEF LookForName, KnownAt
    <3>2. knew'[j] = replica[On(j)] /\ knew'[j] \subseteq Added'
      BY <2>1, <3>1, <1>g
    <3>3. CASE cmd'[j] = Idle
      BY <3>2, <3>3 DEF KnownAt, Idle
    <3>4. CASE cmd'[j].pc = "add" /\ Kept(j) /\ cmd[j].name \notin NamesIn(replica[On(j)])
      BY <2>1, <3>1, <3>2, <3>4, <1>g, <1>21 DEF LookForName, KnownAt, Kept, Aim, Grows, On
    <3>5. QED
      BY <2>1, <3>3, <3>4
  <2>3. QED
    BY <1>s, <2>2, <1>21, Others, JoinsAreProcs DEF Moved, JoinStep, RoundStep, Register, Procs
<1>22. ASSUME NEW j \in Joins, AddWorkspace(j) PROVE \A k \in Joins : KnownAt(k)'
  <2>1. /\ cmd'[j] = Idle \/ (cmd'[j].pc = "link" /\ Kept(j) /\ dir'[j] = "added")
        /\ knew'[j] = knew[j]
    BY <1>22, Moves DEF AddWorkspace
  <2>2. KnownAt(j)'
    BY <1>e, <1>g, <2>1, <1>22 DEF AddWorkspace, KnownAt, Kept, Aim, Grows, On
  <2>3. QED
    BY <1>s, <2>2, <1>22, Others, JoinsAreProcs DEF Moved, JoinStep, RoundStep, Register, Procs
<1>23. ASSUME NEW j \in Joins, WriteLink(j) PROVE \A k \in Joins : KnownAt(k)'
  <2>1. cmd'[j].pc = "worker" /\ Kept(j) /\ knew'[j] = knew[j]
    BY <1>23, Goes DEF WriteLink, Kept, Aim, Phases
  <2>2. KnownAt(j)'
    BY <1>g, <2>1, <1>23 DEF WriteLink, KnownAt, Kept, Aim, Grows, On
  <2>3. QED
    BY <1>s, <2>2, <1>23, Others, JoinsAreProcs DEF Moved, JoinStep, RoundStep, Register, Procs
<1>24. ASSUME NEW j \in Joins, StartWorker(j) PROVE \A k \in Joins : KnownAt(k)'
  <2>1. cmd'[j] = Idle /\ knew'[j] = knew[j]
    BY <1>24, Ends DEF StartWorker
  <2>2. QED
    BY <1>s, <1>e, <2>1, <1>24, Others, JoinsAreProcs DEF Moved, JoinStep, RoundStep, Register, Procs
<1>25. ASSUME NEW m \in Machines, StartRound(m) PROVE \A k \in Joins : KnownAt(k)'
  <2>1. dir' = dir /\ knew' = knew
    BY <1>25 DEF StartRound
  <2>2. QED
    BY <1>s, <1>25, <2>1, RoundStarts, JoinsAreProcs DEF Same
<1>26. QED
  BY <1>1, <1>2, <1>3, <1>4, <1>5, <1>6, <1>7, <1>8, <1>9, <1>10, <1>11, <1>12, <1>13, <1>14, <1>15, <1>16, <1>17, <1>18, <1>19, <1>20, <1>21, <1>22, <1>23, <1>24, <1>25 DEF Next, JoinStep, RoundStep, Register, Procs

LEMMA KnownInvStep == Inv /\ [Next]_vars => KnownInv'
  BY AddedStep, KnownStep DEF KnownInv

\* What changes a directory from empty, and what sets what a join ought to know.
LEMMA OneWrites ==
    Inv /\ [Next]_vars =>
        \A k \in Joins : /\ dir[k] = "empty" => dir'[k] = "empty" \/ AddWorkspace(k)
                         /\ knew'[k] = knew[k] \/ LookForName(k)
<1> DEFINE W == \A k \in Joins : /\ dir[k] = "empty" => dir'[k] = "empty" \/ AddWorkspace(k)
                                 /\ knew'[k] = knew[k] \/ LookForName(k)
<1> SUFFICES ASSUME Inv, [Next]_vars PROVE W
  OBVIOUS
<1>t. knew \in [Joins -> SUBSET Workspaces] /\ dir \in [Joins -> {"empty", "added", "linked"}]
  BY DEF Inv, TypeOK
<1>u. ASSUME dir' = dir, knew' = knew PROVE W
  BY <1>u
<1> HIDE DEF W
<1>1. CASE UNCHANGED vars
  BY <1>1, <1>u DEF vars
<1>2. ASSUME NEW j \in Joins, NEW m \in Machines, NEW n \in Names, Start(j, m, n) PROVE W
  BY <1>2, <1>u DEF Start
<1>3. ASSUME NEW j \in Procs, Fail(j) PROVE W
  BY <1>3, <1>u DEF Fail
<1>4. ASSUME NEW j \in Procs, Killed(j) PROVE W
  BY <1>4, <1>u DEF Killed
<1>5. ASSUME NEW m \in Machines, SyncPush(m) PROVE W
  BY <1>5, <1>u DEF SyncPush
<1>6. ASSUME NEW m \in Machines, SyncPull(m) PROVE W
  BY <1>6, <1>u DEF SyncPull
<1>7. ASSUME NEW j \in Joins, MakeRepo(j) PROVE W
  BY <1>7, <1>u DEF MakeRepo
<1>8. ASSUME NEW j \in Joins, PullFiles(j) PROVE W
  BY <1>8, <1>u DEF PullFiles
<1>9. ASSUME NEW j \in Joins, PullHeads(j) PROVE W
  BY <1>9, <1>u DEF PullHeads
<1>10. ASSUME NEW j \in Joins, SkipHeads(j) PROVE W
  BY <1>10, <1>u DEF SkipHeads
<1>11. ASSUME NEW j \in Joins, Boot(j) PROVE W
  BY <1>11, <1>u DEF Boot
<1>12. ASSUME NEW j \in Joins, SeedDir(j) PROVE W
  BY <1>12, <1>u DEF SeedDir
<1>13. ASSUME NEW j \in Joins, SeedType(j) PROVE W
  BY <1>13, <1>u DEF SeedType
<1>14. ASSUME NEW j \in Joins, SeedCheckout(j) PROVE W
  BY <1>14, <1>u DEF SeedCheckout
<1>15. ASSUME NEW j \in Procs, AcquireLock(j) PROVE W
  BY <1>15, <1>u DEF AcquireLock
<1>16. ASSUME NEW j \in Procs, ReadIndex(j) PROVE W
  BY <1>16, <1>u DEF ReadIndex
<1>17. ASSUME NEW j \in Procs, WriteIndex(j) PROVE W
  BY <1>17, <1>u DEF WriteIndex
<1>18. ASSUME NEW j \in Procs, Unlock(j) PROVE W
  BY <1>18, <1>u DEF Unlock
<1>19. ASSUME NEW j \in Joins, SaveConfig(j) PROVE W
  BY <1>19, <1>u DEF SaveConfig
<1>20. ASSUME NEW j \in Joins, ClearSparse(j) PROVE W
  BY <1>20, <1>u DEF ClearSparse
<1>21. ASSUME NEW j \in Joins, LookForName(j) PROVE W
  <2>1. dir' = dir /\ \A k \in Joins \ {j} : knew'[k] = knew[k]
    BY <1>21, <1>t DEF LookForName
  <2>2. QED
    BY <2>1, <1>21 DEF W
<1>22. ASSUME NEW j \in Joins, AddWorkspace(j) PROVE W
  <2>1. knew' = knew /\ \A k \in Joins \ {j} : dir'[k] = dir[k]
    BY <1>22, <1>t DEF AddWorkspace
  <2>2. QED
    BY <2>1, <1>22 DEF W
<1>23. ASSUME NEW j \in Joins, WriteLink(j) PROVE W
  <2>1. knew' = knew /\ \A k \in Joins \ {j} : dir'[k] = dir[k]
    BY <1>23, <1>t DEF WriteLink
  <2>2. dir[j] # "empty"
    BY <1>23 DEF WriteLink, At, Inv, KnownInv, KnownAt
  <2>3. QED
    BY <2>1, <2>2 DEF W
<1>24. ASSUME NEW j \in Joins, StartWorker(j) PROVE W
  BY <1>24, <1>u DEF StartWorker
<1>25. ASSUME NEW m \in Machines, StartRound(m) PROVE W
  BY <1>25, <1>u DEF StartRound
<1>26. QED
  BY <1>1, <1>2, <1>3, <1>4, <1>5, <1>6, <1>7, <1>8, <1>9, <1>10, <1>11, <1>12, <1>13, <1>14, <1>15, <1>16, <1>17, <1>18, <1>19, <1>20, <1>21, <1>22, <1>23, <1>24, <1>25 DEF Next, JoinStep, RoundStep, Register, Procs

LEMMA UsableStep == Inv /\ [Next]_vars => WorkspacesUsable'
<1> DEFINE Usable(j, m, n) ==
             /\ <<n, j>> \in replica[m]
             /\ config[m] /\ repo[m] = "heads" /\ copy[m] = "all"
             /\ {n, "default"} \subseteq NamesIn(index[m])
<1> SUFFICES ASSUME Inv, [Next]_vars, NEW j \in Joins, dir'[j] # "empty"
             PROVE  \E m \in Machines, n \in Names : Usable(j, m, n)'
  BY DEF WorkspacesUsable
<1>g. Grows
  BY GrowsStep DEF Inv
<1>1. CASE dir[j] # "empty"
  <2>1. PICK m \in Machines, n \in Names : Usable(j, m, n)
    BY <1>1 DEF Inv, WorkspacesUsable
  <2>2. Usable(j, m, n)'
    BY <2>1, <1>g DEF Grows
  <2>3. QED
    BY <2>2
<1>2. CASE dir[j] = "empty"
  <2>1. AddWorkspace(j)
    BY <1>2, OneWrites
  <2>2. /\ On(j) \in Machines /\ cmd[j].name \in Names
        /\ config[On(j)] /\ copy[On(j)] = "all" /\ repo[On(j)] = "heads" /\ "default" \in NamesIn(index[On(j)])
    BY <2>1, JoinsAreProcs, ProcFields DEF Inv, AddWorkspace, At, ReadyInv, ReadyAt, MachineReady, Adding, Registered
  <2>3. /\ replica'[On(j)] = replica[On(j)] \cup {<<cmd[j].name, j>>}
        /\ index'[On(j)] = WithEntry(index[On(j)], cmd[j].name, j)
    BY <2>1, <2>2, <1>2, TypeParts DEF Inv, AddWorkspace, VarTypes
  <2>4. cmd[j].name \in NamesIn(index'[On(j)])
    BY <2>3, EntryKeeps
  <2>5. PICK m \in Machines, n \in Names : m = On(j) /\ n = cmd[j].name
    BY <2>2
  <2>6. Usable(j, m, n)'
    BY <2>2, <2>3, <2>4, <2>5, <1>g DEF Grows
  <2>7. QED
    BY <2>6
<1>3. QED
  BY <1>1, <1>2

LEMMA ApartStep == Inv /\ [Next]_vars => NamesApart'
<1> SUFFICES ASSUME Inv, [Next]_vars, NEW a \in Added', NEW b \in Added',
                    a # b, a[1] = b[1], b[2] # None
             PROVE  a \notin knew'[b[2]]
  BY DEF NamesApart
<1>k. /\ \A w \in Added : w[2] # None => w[2] \in Joins /\ dir[w[2]] # "empty"
      /\ \A j \in Joins : knew[j] \subseteq Added
  BY AddedIs DEF Inv, TypeOK, Workspaces, KnownInv, AddedByJoins, KnownAt
<1>o. a \in Added /\ b \in Added => a \notin knew[b[2]]
  BY DEF Inv, NamesApart
<1>1. CASE \A m \in Machines : replica'[m] \subseteq Added
  <2>1. a \in Added /\ b \in Added
    BY <1>1, AddedIs
  <2>2. b[2] \in Joins /\ dir[b[2]] # "empty"
    BY <2>1, <1>k
  <2>3. ~LookForName(b[2])
    BY <2>2 DEF Inv, KnownInv, KnownAt, LookForName, At
  <2>4. QED
    BY <2>1, <2>2, <2>3, <1>o, OneWrites
<1>2. ASSUME NEW j \in Joins, AddWorkspace(j),
             \A m \in Machines : replica'[m] \subseteq Added \cup {<<cmd[j].name, j>>}
      PROVE  a \notin knew'[b[2]]
  <2>1. a \in Added \cup {<<cmd[j].name, j>>} /\ b \in Added \cup {<<cmd[j].name, j>>}
    BY <1>2, AddedIs
  <2>2. dir[j] = "empty" /\ cmd[j].name \notin NamesIn(knew[j]) /\ knew' = knew
    BY <1>2 DEF AddWorkspace, At, Inv, KnownInv, KnownAt
  <2>3. <<cmd[j].name, j>> \notin Added
    <3>1. j # None
      BY JoinAssumption
    <3>2. QED
      BY <2>2, <3>1, <1>k
  <2>4. CASE b = <<cmd[j].name, j>>
    BY <2>2, <2>4 DEF NamesIn
  <2>5. CASE b # <<cmd[j].name, j>>
    <3>1. b \in Added
      BY <2>1, <2>5
    <3>2. knew[b[2]] \subseteq Added
      BY <3>1, <1>k
    <3>3. QED
      BY <2>1, <2>2, <2>3, <3>1, <3>2, <1>o
  <2>6. QED
    BY <2>4, <2>5
<1>3. QED
  BY <1>1, <1>2, NewAdded

LEMMA InitInv == Init => Inv
<1> SUFFICES ASSUME Init PROVE Inv
  OBVIOUS
<1> USE JoinAssumption DEF Init
<1>1. TypeOK
  BY DEF TypeOK, Records, Idle, Phases, Holding, Repos, Copies, Workspaces, Entries, Own
<1>2. \A w : w \in Added <=> w = Own
  BY AddedIs
<1>3. IndexInv
  BY DEF IndexInv, Idle, Holding, At, On
<1>4. ReadyInv
  <2>1. "default" \in NamesIn({Own, <<"default", None>>})
    BY DEF NamesIn
  <2>2. MachineReady
    BY <2>1 DEF MachineReady
  <2>3. \A j \in Procs : ReadyAt(j)
    BY DEF ReadyAt, Idle, At, On, Copied, Registered, Adding, Holding
  <2>4. QED
    BY <2>2, <2>3 DEF ReadyInv
<1>5. KnownInv
  <2>1. AddedByJoins
    BY <1>2 DEF AddedByJoins, Own
  <2>2. ASSUME NEW j \in Joins PROVE KnownAt(j)
    <3> HIDE DEF Init
    <3>1. cmd[j] = Idle /\ knew[j] = {} /\ dir[j] = "empty"
      BY JoinsAreProcs DEF Init
    <3>2. QED
      BY <3>1 DEF KnownAt, Idle, At
  <2>3. QED
    BY <2>1, <2>2 DEF KnownInv
<1>6. WorkspacesUsable /\ NamesApart
  BY <1>2 DEF WorkspacesUsable, NamesApart, Own
<1>7. QED
  BY <1>1, <1>3, <1>4, <1>5, <1>6 DEF Inv

\* The inductive invariant: the index has one writer, a join finds in
\* `_default` what its step needs, and what it ought to know of the dojo is in
\* the replica it looks into.
THEOREM InvHolds == Spec => []Inv
<1>1. ASSUME Inv, [Next]_vars PROVE Inv'
  <2>1. VarTypes' /\ Locked' /\ IndexInv'
    BY <1>1, VarsTyped, LockedStep, IndexStep DEF Inv
  <2>2. (cmd \in [Procs -> Records])'
    <3>1. CASE UNCHANGED cmd
      BY <1>1, <3>1 DEF Inv, TypeOK
    <3>2. ASSUME NEW j \in Joins, NEW m \in Machines, NEW n \in Names, Start(j, m, n)
          PROVE  cmd' \in [Procs -> Records]
      BY <1>1, <3>2, StartTyped DEF Inv
    <3>3. ASSUME NEW j \in Procs, Moved(j)
          PROVE  cmd' \in [Procs -> Records]
      BY <1>1, <3>3, JoinsTyped DEF Inv
    <3>4. ASSUME NEW m \in Machines, StartRound(m) PROVE cmd' \in [Procs -> Records]
      BY <1>1, <3>4, RoundStarts DEF Inv
    <3>5. QED
      BY <1>1, <3>1, <3>2, <3>3, <3>4, JoinsAreProcs DEF Next, Moved, vars
  <2>3. TypeOK'
    BY <2>1, <2>2, TypeParts
  <2>4. QED
    BY <1>1, <2>1, <2>3, ReadyInvStep, KnownInvStep, UsableStep, ApartStep DEF Inv
<1>2. QED
  BY <1>1, InitInv, PTL DEF Spec

\* Every variable keeps its type, and whoever works on an index has its lock.
THEOREM TypeCorrect == Spec => []TypeOK
<1>1. Inv => TypeOK
  BY DEF Inv
<1>2. QED
  BY <1>1, InvHolds, PTL

\* Every workspace that was added is on a machine where it can be used.
THEOREM WorkspacesUsableHolds == Spec => []WorkspacesUsable
<1>1. Inv => WorkspacesUsable
  BY DEF Inv
<1>2. QED
  BY <1>1, InvHolds, PTL

\* Only joins that could not know of each other take the same name.
THEOREM NamesApartHolds == Spec => []NamesApart
<1>1. Inv => NamesApart
  BY DEF Inv
<1>2. QED
  BY <1>1, InvHolds, PTL

\* A registration loses no other name of the index.
THEOREM IndexKeptHolds == Spec => IndexKept
<1>1. Inv /\ [Next]_vars => [\A m \in Machines : NamesIn(index[m]) \subseteq NamesIn(index'[m])]_vars
  BY GrowsStep DEF Inv, Grows
<1>2. QED
  BY <1>1, InvHolds, PTL DEF Spec, IndexKept

(***************************************************************************)
(* A join that starts with nothing in its way keeps it so: until it ends no *)
(* other join works on its machine, nobody is killed there under the lock,  *)
(* and each step finds the working copy as its own steps have left it.      *)
(***************************************************************************)
Pulling == {"mkdir", "pull", "heads"}
Seeding == {"seed", "seed_type", "seed_checkout"}

FilesAt(j) ==
    /\ \A k \in Joins \ {j} : ~At(k, "idle") => On(k) # On(j)
    /\ cmd[j].pc \notin Pulling => repo[On(j)] = "heads"
    /\ cmd[j].pc \in Pulling \cup {"boot"} => copy[On(j)] \in {"none", "all"}
    /\ At(j, "seed") => copy[On(j)] = "none"
    /\ At(j, "seed_type") => copy[On(j)] = "dir"
    /\ At(j, "seed_checkout") => copy[On(j)] = "type"
    /\ cmd[j].pc \notin Pulling \cup Seeding \cup {"boot"} => copy[On(j)] = "all"
    /\ At(j, "worker") => dir[j] = "linked"

SmoothInv == \A j \in Joins : cmd[j].smooth /\ ~At(j, "idle") => FilesAt(j) /\ ~Stale(On(j))

\* What a step does to the lock: it is taken and released by who works under
\* it, and left behind only by a kill.
LEMMA LockSteps ==
    ASSUME TypeOK, NEW p \in Procs, Moved(p)
    PROVE  \/ cmd[p].pc \notin Holding /\ lock' = lock
           \/ cmd'[p].pc \in Holding /\ cmd'[p].at = cmd[p].at /\ lock' = lock
           \/ /\ cmd'[p].pc \in Holding /\ cmd'[p].at = cmd[p].at
              /\ lock' = [lock EXCEPT ![On(p)] = TRUE]
           \/ lock' = [lock EXCEPT ![On(p)] = FALSE]
           \/ Killed(p) /\ lock' = lock
<1>t. cmd \in [Procs -> Records] /\ lock \in [Machines -> BOOLEAN] /\ On(p) \in Machines
  BY ProcFields DEF TypeOK
<1>1. CASE AcquireLock(p)
  <2>1. CASE GoTo(p, "read") /\ lock' = [lock EXCEPT ![On(p)] = TRUE]
    BY <2>1, Goes DEF Phases, Holding
  <2>2. CASE lock' = lock
    BY <2>2, <1>1 DEF AcquireLock, At, Holding
  <2>3. QED
    BY <1>1, <2>1, <2>2 DEF AcquireLock
<1>2. CASE ReadIndex(p)
  BY <1>2, <1>t DEF ReadIndex, store, Records, Holding
<1>3. CASE WriteIndex(p)
  BY <1>3, <1>t DEF WriteIndex, Records, Holding
<1>4. CASE Unlock(p)
  BY <1>4 DEF Unlock
<1>5. CASE Fail(p)
  <2>1. CASE cmd[p].pc \in Holding
    BY <1>5, <2>1, <1>t DEF Fail
  <2>2. CASE cmd[p].pc \notin Holding
    BY <1>5, <2>2, <1>t DEF Fail
  <2>3. QED
    BY <2>1, <2>2
<1>6. CASE Killed(p)
  BY <1>6 DEF Killed, store
<1>7. ASSUME JoinStep(p) \/ RoundStep(p), ~AcquireLock(p), ~ReadIndex(p), ~WriteIndex(p), ~Unlock(p)
      PROVE  cmd[p].pc \notin Holding /\ lock' = lock
  BY <1>7 DEF JoinStep, RoundStep, Register, MakeRepo, PullFiles, PullHeads, SkipHeads, Boot,
              SeedDir, SeedType, SeedCheckout, SaveConfig, ClearSparse, LookForName,
              AddWorkspace, WriteLink, StartWorker, SyncPush, SyncPull, At, Holding, store
<1>8. QED
  BY <1>1, <1>2, <1>3, <1>4, <1>5, <1>6, <1>7 DEF Moved

\* A lock becomes stale only when who works under it is killed.
LEMMA StaleStep ==
    ASSUME TypeOK, NEW p \in Procs, Moved(p), NEW m \in Machines, ~Stale(m), Stale(m)'
    PROVE  Killed(p) /\ cmd[p].pc \in Holding /\ On(p) = m
<1>1. lock \in [Machines -> BOOLEAN] /\ On(p) \in Machines
  BY ProcFields DEF TypeOK
<1>2. lock'[m] /\ \A q \in Procs : cmd'[q].pc \in Holding => cmd'[q].at # m
  BY DEF Stale, On
<1>3. \A q \in Procs \ {p} : cmd'[q].pc = cmd[q].pc /\ cmd'[q].at = cmd[q].at
  BY Others DEF Same
<1>4. CASE lock[m]
  <2>1. cmd[p].pc \in Holding /\ On(p) = m
    BY <1>2, <1>3, <1>4 DEF Stale, On
  <2>2. QED
    BY <1>1, <1>2, <2>1, LockSteps DEF On
<1>5. CASE ~lock[m]
  BY <1>1, <1>2, <1>5, LockSteps DEF On
<1>6. QED
  BY <1>4, <1>5

\* A step touches the files of one machine, and those of a round none; it goes
\* on with one join or round.
Frame(p) ==
    /\ ~At(p, "idle")
    /\ \A k \in Procs \ {p} : Same(k) /\ (cmd'[k].smooth => cmd[k].smooth)
    /\ \A m \in Machines : m # On(p) \/ p \in Machines => repo'[m] = repo[m] /\ copy'[m] = copy[m]
    /\ cmd'[p] = Idle \/ (cmd'[p].at = cmd[p].at /\ (cmd'[p].smooth => cmd[p].smooth))

LEMMA FrameStep ==
    ASSUME TypeOK, NEW p \in Procs, Moved(p)
    PROVE  Frame(p)
<1>t. /\ repo \in [Machines -> Repos] /\ copy \in [Machines -> Copies]
      /\ cmd \in [Procs -> Records] /\ On(p) \in Machines
  BY ProcFields DEF TypeOK
<1>s. \A k \in Procs \ {p} : Same(k)
  BY Others
<1> DEFINE Rest == \A m \in Machines :
                       m # On(p) \/ p \in Machines => repo'[m] = repo[m] /\ copy'[m] = copy[m]
           Mine == /\ \A k \in Procs \ {p} : cmd'[k].smooth => cmd[k].smooth
                   /\ \/ cmd'[p] = Idle
                      \/ cmd'[p].at = cmd[p].at /\ (cmd'[p].smooth => cmd[p].smooth)
<1>i. ~At(p, "idle")
  BY DEF Moved, JoinStep, RoundStep, Register, At, Fail, Killed, MakeRepo, PullFiles, PullHeads,
         SkipHeads, Boot, SeedDir, SeedType, SeedCheckout, AcquireLock, ReadIndex, WriteIndex,
         Unlock, SaveConfig, ClearSparse, LookForName, AddWorkspace, WriteLink, StartWorker,
         SyncPush, SyncPull
<1>g. ASSUME NEW x \in Phases, GoTo(p, x) PROVE Mine
  BY <1>g, Goes
<1>e. ASSUME End(p) PROVE Mine
  BY <1>e, Ends
<1>u. ASSUME UNCHANGED <<repo, copy>> PROVE Rest
  BY <1>u
<1>f. Rest /\ Mine => Frame(p)
  BY <1>s, <1>i DEF Frame
<1> HIDE DEF Mine
<1>1. CASE p \in Joins /\ JoinStep(p)
  <2> USE JoinsAreProcs DEF Phases, Holding, home
  <2>r. p \notin Machines
    BY <1>1
  <2>1. CASE MakeRepo(p)
    BY <2>1, <2>r, <1>t, <1>g, <1>f DEF MakeRepo
  <2>2. CASE PullFiles(p)
    <3>1. Mine
      BY <2>2, <1>t DEF PullFiles, Records, Mine
    <3>2. QED
      BY <2>2, <3>1, <2>r, <1>t, <1>f DEF PullFiles
  <2>3. CASE PullHeads(p)
    <3>1. Mine
      BY <2>3, <1>t DEF PullHeads, Records, Mine
    <3>2. QED
      BY <2>3, <3>1, <2>r, <1>t, <1>f DEF PullHeads
  <2>4. CASE SkipHeads(p)
    <3>1. Mine
      BY <2>4, <1>t DEF SkipHeads, Records, Mine
    <3>2. QED
      BY <2>4, <3>1, <1>u, <1>f DEF SkipHeads
  <2>5. CASE Boot(p)
    <3>1. Mine
      BY <2>5, <1>g DEF Boot
    <3>2. QED
      BY <2>5, <3>1, <1>u, <1>f DEF Boot
  <2>6. CASE SeedDir(p)
    <3>1. Mine
      BY <2>6, <1>g, <1>e DEF SeedDir
    <3>2. QED
      BY <2>6, <3>1, <2>r, <1>t, <1>f DEF SeedDir
  <2>7. CASE SeedType(p)
    BY <2>7, <2>r, <1>t, <1>g, <1>f DEF SeedType
  <2>8. CASE SeedCheckout(p)
    BY <2>8, <2>r, <1>t, <1>g, <1>f DEF SeedCheckout
  <2>9. CASE SaveConfig(p)
    <3>1. Mine
      BY <2>9, <1>t DEF SaveConfig, Records, Mine
    <3>2. QED
      BY <2>9, <3>1, <1>u, <1>f DEF SaveConfig
  <2>10. CASE ClearSparse(p)
    <3>1. Mine
      BY <2>10, <1>g, <1>e DEF ClearSparse
    <3>2. QED
      BY <2>10, <3>1, <1>u, <1>f DEF ClearSparse
  <2>11. CASE LookForName(p)
    <3>1. Mine
      BY <2>11, <1>g, <1>e DEF LookForName
    <3>2. QED
      BY <2>11, <3>1, <1>u, <1>f DEF LookForName
  <2>12. CASE AddWorkspace(p)
    <3>1. Mine
      BY <2>12, <1>g, <1>e DEF AddWorkspace
    <3>2. QED
      BY <2>12, <3>1, <1>u, <1>f DEF AddWorkspace
  <2>13. CASE WriteLink(p)
    BY <2>13, <1>g, <1>u, <1>f DEF WriteLink
  <2>14. CASE StartWorker(p)
    BY <2>14, <1>e, <1>u, <1>f DEF StartWorker
  <2>15. CASE Register(p)
    <3>1. CASE AcquireLock(p) \/ Unlock(p)
      <4>1. AfterRegister(p) \in Phases
        BY Registers DEF Phases
      <4>2. Mine
        BY <3>1, <4>1, <1>g, <1>e DEF AcquireLock, Unlock
      <4>3. QED
        BY <3>1, <4>2, <1>u, <1>f DEF AcquireLock, Unlock
    <3>2. CASE ReadIndex(p)
      <4>1. Mine
        BY <3>2, <1>t DEF ReadIndex, Records, Mine
      <4>2. QED
        BY <3>2, <4>1, <1>u, <1>f DEF ReadIndex
    <3>3. CASE WriteIndex(p)
      <4>1. Mine
        BY <3>3, <1>t DEF WriteIndex, Records, Mine
      <4>2. QED
        BY <3>3, <4>1, <1>u, <1>f DEF WriteIndex
    <3>4. QED
      BY <2>15, <3>1, <3>2, <3>3 DEF Register
  <2>16. QED
    BY <1>1, <2>1, <2>2, <2>3, <2>4, <2>5, <2>6, <2>7, <2>8, <2>9, <2>10, <2>11, <2>12, <2>13, <2>14, <2>15 DEF JoinStep
<1>2. CASE p \in Machines /\ RoundStep(p)
  <2>1. Rest
    BY <1>2, <1>u DEF RoundStep, Register, AcquireLock, ReadIndex, WriteIndex, Unlock, SyncPush, SyncPull, home
  <2>2. CASE SyncPush(p) \/ SyncPull(p)
    <3>1. GoTo(p, "sync_pull") \/ End(p)
      BY <2>2 DEF SyncPush, SyncPull
    <3>2. QED
      BY <3>1, <2>1, <1>g, <1>e, <1>f DEF Phases
  <2>3. CASE AcquireLock(p) \/ Unlock(p)
    <3>1. AfterRegister(p) \in Phases /\ "read" \in Phases
      BY Registers DEF Phases, Holding
    <3>2. Mine
      BY <2>3, <3>1, <1>g, <1>e DEF AcquireLock, Unlock
    <3>3. QED
      BY <3>2, <2>1, <1>f
  <2>4. CASE ReadIndex(p) \/ WriteIndex(p)
    <3>1. Mine
      BY <2>4, <1>t DEF ReadIndex, WriteIndex, Records, Mine
    <3>2. QED
      BY <3>1, <2>1, <1>f
  <2>5. QED
    BY <1>2, <2>2, <2>3, <2>4 DEF RoundStep, Register
<1>3. CASE Fail(p)
  BY <1>3, <1>e, <1>u, <1>f DEF Fail, home
<1>4. CASE Killed(p)
  <2>1. Mine
    BY <1>4, KilledLeaves DEF Mine
  <2>2. QED
    BY <1>4, <2>1, <1>u, <1>f DEF Killed, home
<1>5. QED
  BY <1>1, <1>2, <1>3, <1>4 DEF Moved

\* A join that has nothing in its way is not disturbed by the others, ...
LEMMA SmoothOthers ==
    ASSUME TypeOK, SmoothInv, NEW p \in Procs, Moved(p),
           NEW k \in Joins \ {p}, cmd'[k].smooth, ~At(k, "idle")'
    PROVE  FilesAt(k)' /\ ~Stale(On(k))'
<1>f. Frame(p) /\ k \in Procs
  BY FrameStep, JoinsAreProcs
<1>1. Same(k) /\ cmd[k].smooth /\ FilesAt(k) /\ ~Stale(On(k))
  BY <1>f DEF Frame, SmoothInv, Same, At
<1>2. \A i \in Joins : ~At(i, "idle")' => ~At(i, "idle") /\ cmd'[i].at = cmd[i].at
  BY <1>f, JoinsAreProcs DEF Frame, Same, At, Idle
<1>3. On(k) \in Machines /\ (On(k) # On(p) \/ p \in Machines)
  BY <1>1, <1>f, ProcFields DEF FilesAt, Frame, Procs
<1>4. repo'[On(k)] = repo[On(k)] /\ copy'[On(k)] = copy[On(k)]
  BY <1>3, <1>f DEF Frame
<1>5. FilesAt(k)'
  BY <1>1, <1>2, <1>4 DEF FilesAt, At, On, Same
<1>6. ASSUME NEW m \in Machines, m = On(k) PROVE ~Stale(m)'
  <2>1. ASSUME Stale(m)' PROVE FALSE
    <3>1. Killed(p) /\ cmd[p].pc \in Holding /\ On(p) = m
      BY <1>1, <1>6, <2>1, StaleStep
    <3>2. QED
      BY <1>6, <1>f, <3>1, KilledLeaves DEF On
  <2>2. QED
    BY <2>1
<1>7. On(k)' = On(k)
  BY <1>1 DEF On, Same
<1>8. QED
  BY <1>3, <1>5, <1>6, <1>7 DEF Stale

\* ... and goes on until it has linked its workspace, or finds its name taken.
Taken(j) == \E w \in Added : w[1] = cmd[j].name /\ w[2] # j

LEMMA SmoothJoin ==
    ASSUME Inv, SmoothInv, NEW j \in Joins, cmd[j].smooth, JoinStep(j)
    PROVE  \/ cmd'[j].pc # "idle" /\ (cmd'[j].smooth => FilesAt(j)')
           \/ cmd'[j] = Idle /\ (dir'[j] = "linked" \/ Taken(j))
<1> DEFINE Onward == cmd'[j].pc # "idle" /\ (cmd'[j].smooth => FilesAt(j)')
           Over == cmd'[j] = Idle /\ (dir'[j] = "linked" \/ Taken(j))
<1>g. TypeOK /\ j \in Procs /\ j \notin Machines /\ Moved(j) /\ Frame(j)
  BY FrameStep, JoinsAreProcs DEF Inv, Moved
<1>m. /\ On(j) \in Machines /\ j \in Procs
      /\ repo \in [Machines -> Repos] /\ copy \in [Machines -> Copies]
      /\ dir \in [Joins -> {"empty", "added", "linked"}]
      /\ cmd \in [Procs -> Records]
  BY <1>g, ProcFields DEF TypeOK
<1>s. FilesAt(j) /\ ~Stale(On(j))
  BY <1>g DEF Frame, SmoothInv
<1>r. copy[On(j)] # "none" => repo[On(j)] = "heads"
  BY <1>m DEF Inv, ReadyInv, MachineReady
<1>o. cmd'[j].at = cmd[j].at => \A k \in Joins \ {j} : ~At(k, "idle")' => On(k)' # On(j)'
  BY <1>g, <1>s, JoinsAreProcs DEF Frame, Same, FilesAt, At, On
<1>t. ASSUME cmd[j].name \in NamesIn(replica[On(j)]), dir[j] = "empty" PROVE Taken(j)
  <2>1. PICK w \in replica[On(j)] : w[1] = cmd[j].name
    BY <1>t DEF NamesIn
  <2>2. w \in Added
    BY <2>1, <1>m, AddedIs
  <2>3. w[2] # j
    BY <2>2, <1>t, JoinAssumption DEF Inv, KnownInv, AddedByJoins
  <2>4. QED
    BY <2>1, <2>2, <2>3 DEF Taken
<1>x. ASSUME NEW x \in Phases, GoTo(j, x) PROVE cmd'[j].pc = x /\ cmd'[j].at = cmd[j].at
  BY <1>g, <1>x, Goes
<1>e. ASSUME End(j) PROVE cmd'[j] = Idle
  BY <1>g, <1>e, Ends
<1> HIDE DEF Onward, Over
<1> USE DEF Phases, Holding, Pulling, Seeding, home
<1>1. CASE MakeRepo(j)
  BY <1>1, <1>m, <1>s, <1>o, <1>x DEF MakeRepo, FilesAt, At, On, Onward
<1>2. CASE PullFiles(j)
  <2>1. cmd'[j].pc = "heads" /\ cmd'[j].at = cmd[j].at
    BY <1>2, <1>m DEF PullFiles, Records
  <2>2. QED
    BY <2>1, <1>2, <1>m, <1>s, <1>o DEF PullFiles, FilesAt, At, On, Onward
<1>3. CASE PullHeads(j)
  <2>1. cmd'[j].pc = "boot" /\ cmd'[j].at = cmd[j].at
    BY <1>3, <1>m, <1>g DEF PullHeads, Records
  <2>2. QED
    BY <2>1, <1>3, <1>m, <1>s, <1>o DEF PullHeads, FilesAt, At, On, Onward
<1>4. CASE SkipHeads(j)
  BY <1>4, <1>m DEF SkipHeads, Records, Onward
<1>5. CASE Boot(j)
  <2>1. CASE copy[On(j)] = "none"
    BY <2>1, <1>5, <1>m, <1>s, <1>o, <1>x DEF Boot, FilesAt, At, On, Onward
  <2>2. CASE copy[On(j)] # "none"
    BY <2>2, <1>5, <1>m, <1>s, <1>o, <1>x DEF Boot, FilesAt, At, On, Onward
  <2>3. QED
    BY <2>1, <2>2
<1>6. CASE SeedDir(j)
  <2>1. GoTo(j, "seed_type") /\ copy' = [copy EXCEPT ![On(j)] = "dir"] /\ repo' = repo
    BY <1>6, <1>m, <1>s DEF SeedDir, FilesAt, At
  <2>2. QED
    BY <2>1, <1>6, <1>m, <1>s, <1>o, <1>x DEF SeedDir, FilesAt, At, On, Onward
<1>7. CASE SeedType(j)
  BY <1>7, <1>m, <1>s, <1>o, <1>x DEF SeedType, FilesAt, At, On, Onward
<1>8. CASE SeedCheckout(j)
  BY <1>8, <1>m, <1>s, <1>o, <1>x DEF SeedCheckout, FilesAt, At, On, Onward
<1>9. CASE AcquireLock(j)
  <2>1. GoTo(j, "read")
    BY <1>9, <1>s DEF AcquireLock
  <2>2. QED
    BY <2>1, <1>9, <1>m, <1>s, <1>o, <1>x DEF AcquireLock, FilesAt, At, On, Onward
<1>10. CASE ReadIndex(j)
  <2>1. cmd'[j].pc = "write" /\ cmd'[j].at = cmd[j].at
    BY <1>10, <1>m DEF ReadIndex, Records
  <2>2. QED
    BY <2>1, <1>10, <1>m, <1>s, <1>o DEF ReadIndex, FilesAt, At, On, Onward
<1>11. CASE WriteIndex(j)
  <2>1. cmd'[j].pc = "unlock" /\ cmd'[j].at = cmd[j].at
    BY <1>11, <1>m, <1>g DEF WriteIndex, Records
  <2>2. QED
    BY <2>1, <1>11, <1>m, <1>s, <1>o DEF WriteIndex, FilesAt, At, On, Onward
<1>12. CASE Unlock(j)
  <2>1. PICK x \in {"config", "sparse"} : GoTo(j, x)
    BY <1>12, <1>g DEF Unlock, AfterRegister
  <2>2. QED
    BY <2>1, <1>12, <1>m, <1>s, <1>o, <1>x DEF Unlock, FilesAt, At, On, Onward
<1>13. CASE SaveConfig(j)
  <2>1. cmd'[j].pc = "boot" /\ cmd'[j].at = cmd[j].at
    BY <1>13, <1>m DEF SaveConfig, Records
  <2>2. QED
    BY <2>1, <1>13, <1>m, <1>s, <1>o DEF SaveConfig, FilesAt, At, On, Onward
<1>14. CASE ClearSparse(j)
  <2>1. GoTo(j, "look")
    BY <1>14, <1>s DEF ClearSparse, FilesAt, At, Opens
  <2>2. QED
    BY <2>1, <1>14, <1>m, <1>s, <1>o, <1>x DEF ClearSparse, FilesAt, At, On, Onward
<1>15. CASE LookForName(j)
  <2>1. CASE cmd[j].name \in NamesIn(replica[On(j)])
    <3>1. dir[j] = "empty"
      BY <1>15 DEF LookForName, At, Inv, KnownInv, KnownAt
    <3>2. QED
      BY <2>1, <3>1, <1>15, <1>t, <1>e DEF LookForName, Over
  <2>2. CASE cmd[j].name \notin NamesIn(replica[On(j)])
    BY <2>2, <1>15, <1>m, <1>s, <1>o, <1>x DEF LookForName, FilesAt, At, On, Onward
  <2>3. QED
    BY <2>1, <2>2
<1>16. CASE AddWorkspace(j)
  <2>1. dir[j] = "empty"
    BY <1>16 DEF AddWorkspace, At, Inv, KnownInv, KnownAt
  <2>2. CASE GoTo(j, "link")
    BY <2>2, <1>16, <1>m, <1>s, <1>o, <1>x DEF AddWorkspace, FilesAt, At, On, Onward
  <2>3. CASE End(j) /\ cmd[j].name \in NamesIn(replica[On(j)])
    BY <2>1, <2>3, <1>t, <1>e DEF Over
  <2>4. QED
    BY <1>s, <2>2, <2>3, <1>16 DEF AddWorkspace
<1>17. CASE WriteLink(j)
  BY <1>17, <1>m, <1>s, <1>o, <1>x DEF WriteLink, FilesAt, At, On, Onward
<1>18. CASE StartWorker(j)
  BY <1>18, <1>s, <1>e DEF StartWorker, FilesAt, At, Over
<1>19. QED
  BY <1>1, <1>2, <1>3, <1>4, <1>5, <1>6, <1>7, <1>8, <1>9, <1>10, <1>11, <1>12, <1>13, <1>14, <1>15, <1>16, <1>17, <1>18 DEF JoinStep, Register, Onward, Over

LEMMA SmoothLock ==
    ASSUME Inv, SmoothInv, NEW j \in Joins, cmd[j].smooth, JoinStep(j), cmd'[j].pc # "idle"
    PROVE  ~Stale(On(j))'
<1>g. TypeOK /\ j \in Procs /\ Moved(j) /\ Frame(j)
  BY FrameStep, JoinsAreProcs DEF Inv, Moved
<1>1. On(j) \in Machines /\ ~Stale(On(j))
  BY <1>g, ProcFields DEF Frame, SmoothInv
<1>2. On(j)' = On(j)
  BY <1>g DEF Frame, On, Idle
<1>3. ~Killed(j)
  <2>1. failures \in Nat /\ failures' = failures
    BY <1>g, JoinAssumption DEF TypeOK, JoinStep, Register, MakeRepo, PullFiles, PullHeads, SkipHeads,
       Boot, SeedDir, SeedType, SeedCheckout, AcquireLock, ReadIndex, WriteIndex, Unlock, SaveConfig,
       ClearSparse, LookForName, AddWorkspace, WriteLink, StartWorker, counts
  <2>2. QED
    BY <2>1 DEF Killed, Fails
<1>4. ASSUME NEW m \in Machines, m = On(j) PROVE ~Stale(m)'
  BY <1>g, <1>1, <1>3, <1>4, StaleStep
<1>5. QED
  BY <1>1, <1>2, <1>4 DEF Stale

\* Starting a join or a round makes no lock stale, ...
LEMMA StartStale ==
    ASSUME TypeOK, NEW p \in Procs, At(p, "idle"), lock' = lock,
           \A k \in Procs \ {p} : Same(k), NEW m \in Machines, ~Stale(m)
    PROVE  ~Stale(m)'
<1>1. cmd[p].pc \notin Holding
  BY DEF At, Holding
<1>2. QED
  BY <1>1 DEF Stale, On, Same

\* ... a join has nothing in its way when it starts, and another that starts on
\* its machine is one.
LEMMA SmoothStart ==
    ASSUME Inv, SmoothInv, NEW j \in Joins, NEW m \in Machines, NEW n \in Names, Start(j, m, n)
    PROVE  SmoothInv'
<1>g. TypeOK /\ j \in Procs /\ (\A k \in Procs \ {j} : Same(k)) /\ At(j, "idle")
  BY StartOthers, JoinsAreProcs DEF Inv, Start
<1>h. repo' = repo /\ copy' = copy /\ lock' = lock
  BY DEF Start, home, store
<1>s. \A i \in Machines : ~Stale(i) => ~Stale(i)'
  <2>1. SUFFICES ASSUME NEW i \in Machines, ~Stale(i) PROVE ~Stale(i)'
    OBVIOUS
  <2>2. QED
    BY <1>g, <1>h, <2>1, StartStale
<1>1. ASSUME NEW k \in Joins \ {j}, cmd'[k].smooth, ~At(k, "idle")'
      PROVE  FilesAt(k)' /\ ~Stale(On(k))'
  <2>k. k \in Procs
    BY JoinsAreProcs
  <2>1. /\ Same(k) /\ cmd[k].smooth /\ cmd[k].at # m
    BY <1>1, <1>g, <2>k DEF Start, TypeOK, Records
  <2>2. FilesAt(k) /\ ~Stale(On(k))
    BY <2>1, <1>1 DEF SmoothInv, At, Same
  <2>3. cmd'[j].at = m
    BY <1>g DEF Start, Idle
  <2>4. FilesAt(k)'
    BY <1>g, <1>h, <2>1, <2>2, <2>3, JoinsAreProcs DEF FilesAt, At, On, Same
  <2>5. On(k)' = On(k) /\ On(k) \in Machines
    BY <1>g, <2>k, <2>1, ProcFields DEF On, Same
  <2>6. QED
    BY <1>s, <2>2, <2>4, <2>5 DEF Stale
<1>2. ASSUME cmd'[j].smooth PROVE FilesAt(j)' /\ ~Stale(On(j))'
  <2>1. /\ cmd'[j].pc = IF Ready(m) THEN "boot" ELSE "mkdir"
        /\ cmd'[j].at = m /\ InOrder(m, n)
    BY <1>2, <1>g DEF Start, Idle
  <2>2. copy[m] # "none" => repo[m] = "heads"
    BY DEF Inv, ReadyInv, MachineReady
  <2>3. \A k \in Joins \ {j} : cmd'[k].pc = cmd[k].pc /\ cmd'[k].at = cmd[k].at
    BY <1>g, JoinsAreProcs DEF Same
  <2>4. FilesAt(j)'
    BY <1>h, <2>1, <2>2, <2>3 DEF FilesAt, At, On, Ready, InOrder, Pulling, Seeding
  <2>5. On(j)' = m /\ ~Stale(m)
    BY <2>1 DEF On, InOrder
  <2>6. QED
    BY <1>s, <2>4, <2>5 DEF Stale
<1>3. QED
  BY <1>1, <1>2 DEF SmoothInv

LEMMA SmoothStep == Inv /\ SmoothInv /\ [Next]_vars => SmoothInv'
<1> SUFFICES ASSUME Inv, SmoothInv, [Next]_vars PROVE SmoothInv'
  OBVIOUS
<1>g. TypeOK
  BY DEF Inv
<1>1. CASE UNCHANGED vars
  BY <1>1 DEF vars, home, store, SmoothInv, FilesAt, Stale, At, On
<1>2. ASSUME NEW p \in Procs, Moved(p) PROVE SmoothInv'
  <2>1. Frame(p)
    BY <1>g, <1>2, FrameStep
  <2>2. ASSUME p \in Joins, JoinStep(p), cmd'[p].smooth, ~At(p, "idle")'
        PROVE  FilesAt(p)' /\ ~Stale(On(p))'
    <3>1. cmd[p].smooth
      BY <2>1, <2>2 DEF Frame, Idle
    <3>2. QED
      BY <2>2, <3>1, SmoothJoin, SmoothLock DEF At, Idle
  <2>3. ASSUME Fail(p) \/ Killed(p) PROVE cmd'[p] = Idle
    BY <1>g, <2>3, Ends, KilledLeaves DEF Fail
  <2>4. \A k \in Joins \ {p} : cmd'[k].smooth /\ ~At(k, "idle")' => FilesAt(k)' /\ ~Stale(On(k))'
    BY <1>g, <1>2, SmoothOthers
  <2>5. ASSUME p \in Joins, cmd'[p].smooth, ~At(p, "idle")' PROVE JoinStep(p)
    BY <1>2, <2>3, <2>5, JoinsAreProcs DEF Moved, Idle
  <2>6. QED
    BY <2>2, <2>4, <2>5 DEF SmoothInv
<1>3. ASSUME NEW m \in Machines, StartRound(m) PROVE SmoothInv'
  <2>1. m \in Procs /\ m \notin Joins /\ At(m, "idle") /\ \A k \in Procs \ {m} : cmd'[k] = cmd[k]
    BY <1>g, <1>3, RoundStarts, JoinsAreProcs DEF StartRound
  <2>2. repo' = repo /\ copy' = copy /\ lock' = lock /\ dir' = dir /\ knew' = knew
    BY <1>3 DEF StartRound, home, store
  <2>3. \A k \in Procs \ {m} : Same(k)
    BY <2>1, <2>2 DEF Same
  <2>4. SUFFICES ASSUME NEW k \in Joins, cmd'[k].smooth, ~At(k, "idle")'
                 PROVE  FilesAt(k)' /\ ~Stale(On(k))'
    BY DEF SmoothInv
  <2>5. k \in Procs /\ cmd'[k] = cmd[k] /\ FilesAt(k) /\ ~Stale(On(k))
    BY <2>1, <2>4, JoinsAreProcs DEF SmoothInv, At
  <2>6. FilesAt(k)'
    BY <2>1, <2>2, <2>5, JoinsAreProcs DEF FilesAt, At, On
  <2>7. ASSUME NEW i \in Machines, ~Stale(i) PROVE ~Stale(i)'
    BY <1>g, <2>1, <2>2, <2>3, <2>7, StartStale
  <2>8. On(k)' = On(k) /\ On(k) \in Machines
    BY <1>g, <2>5, ProcFields DEF On
  <2>9. QED
    BY <2>5, <2>6, <2>7, <2>8 DEF Stale
<1>4. QED
  BY <1>1, <1>2, <1>3, SmoothStart, JoinsAreProcs DEF Next, Moved

\* A join that starts with nothing in its way and is not cut ends with its
\* workspace linked, unless another has taken its name: for any number of
\* machines and joins, and whatever earlier joins left behind.
THEOREM JoinCompletesHolds == Spec => JoinCompletes
<1> DEFINE Completes == \A j \in Joins :
              cmd[j].smooth /\ ~At(j, "idle") /\ cmd'[j].pc = "idle" /\ failures' = failures
                  => \/ dir'[j] = "linked"
                     \/ \E w \in Added : w[1] = cmd[j].name /\ w[2] # j
<1>1. Init => SmoothInv
  BY JoinsAreProcs DEF Init, Idle, SmoothInv, At
<1>2. ASSUME Inv, SmoothInv, [Next]_vars PROVE [Completes]_vars
  <2>1. SUFFICES ASSUME NEW j \in Joins, Next, cmd[j].smooth, ~At(j, "idle"),
                        cmd'[j].pc = "idle", failures' = failures
                 PROVE  dir'[j] = "linked" \/ Taken(j)
    BY <1>2 DEF Taken
  <2>2. failures \in Nat
    BY <1>2, JoinAssumption DEF Inv, TypeOK
  <2>3. ASSUME NEW k \in Procs, Fail(k) \/ Killed(k) PROVE FALSE
    BY <2>1, <2>2, <2>3 DEF Fail, Killed, Fails
  <2>4. ASSUME NEW k \in Joins, NEW m \in Machines, NEW n \in Names, Start(k, m, n) PROVE FALSE
    <3>1. At(k, "idle")
      BY <2>4 DEF Start
    <3>2. \A i \in Procs \ {k} : Same(i)
      BY <1>2, <2>4, StartOthers DEF Inv
    <3>3. QED
      BY <2>1, <3>1, <3>2, JoinsAreProcs DEF At, Same
  <2>5. ASSUME NEW m \in Machines, StartRound(m) \/ RoundStep(m) PROVE FALSE
    <3>1. cmd'[j].pc = cmd[j].pc
      BY <1>2, <2>5, RoundStarts, FrameStep, JoinsAreProcs DEF Inv, Moved, Frame, Same
    <3>2. QED
      BY <2>1, <3>1 DEF At
  <2>6. ASSUME NEW k \in Joins, JoinStep(k) PROVE dir'[j] = "linked" \/ Taken(j)
    <3>1. k = j
      BY <1>2, <2>1, <2>6, FrameStep, JoinsAreProcs DEF Inv, Moved, Frame, Same, At
    <3>2. QED
      BY <1>2, <2>1, <2>6, <3>1, SmoothJoin
  <2>7. QED
    BY <2>1, <2>3, <2>4, <2>5, <2>6 DEF Next
<1>3. QED
  BY <1>1, <1>2, InvHolds, InitInv, SmoothStep, PTL DEF Spec, JoinCompletes
===============================================================================
