------------------------------- MODULE JoinDojo -------------------------------
(***************************************************************************)
(* `dojjo join` (client/src/join.rs, with workspace_lifecycle.rs and        *)
(* jj_workspace_store.rs): the first join of a machine pulls the published  *)
(* mirror into `_default` and makes a working copy there by hand, later     *)
(* ones find it ready; each adds a jj workspace in a directory of its own   *)
(* under a name that is to be unique in the dojo.  Several joins run at a   *)
(* time, on one machine or on many, beside the sync rounds of the machines   *)
(* that have joined: each round registers `default` in the same index under *)
(* the same lock before it syncs.  Each file operation, jj command or       *)
(* request of a join is one step, and a join or a round can fail or be      *)
(* killed between any two.                                                  *)
(*                                                                          *)
(* Of a repository only the workspaces that its operation heads know are    *)
(* kept.  Of a round only that registration, its push and its pull are; the *)
(* rest is in MirrorSync and GitTransport, the worker that runs it in       *)
(* BackgroundWorker.                                                        *)
(***************************************************************************)
EXTENDS Naturals

CONSTANTS
    Machines,
    Creator,      \* the machine that created the dojo
    CreatorName,  \* the name of its workspace
    Joins,        \* joins, each with a directory of its own
    Names,        \* workspace names but `default`
    None,         \* the directory of the creator, and that of `default`
    MaxStarts,    \* bound: joins started
    MaxRounds,    \* bound: rounds started
    MaxFailures   \* bound: joins and rounds that fail or are killed

ASSUME JoinAssumption ==
    /\ Creator \in Machines
    /\ Joins \cap (Machines \cup {None}) = {}
    /\ CreatorName \in Names
    /\ "default" \notin Names
    /\ MaxStarts \in Nat
    /\ MaxRounds \in Nat
    /\ MaxFailures \in Nat

VARIABLES
    published,  \* the workspaces in the published mirror
    replica,    \* those that the operation heads of each machine's replica know
    repo,       \* `_default/.jj/repo`: nothing, a directory, files, or also heads
    copy,       \* `_default/.jj/working_copy`: nothing, a directory, its type, all
    config,     \* config.json is there
    index,      \* workspace_store/index: the directory of each name
    lock,       \* workspace_store/index.lock is there
    dir,        \* the directory of each join: empty, with a workspace, linked
    cmd,        \* the joins under way, and the round of each machine
    knew,       \* what a join ought to have known when it looked for its name
    started,    \* joins started so far
    rounds,     \* rounds started so far
    failures    \* failures so far

home == <<repo, copy, config>>
store == <<index, lock>>
counts == <<started, rounds, failures>>
vars == <<published, replica, home, store, dir, cmd, knew, counts>>

Procs == Joins \cup Machines  \* the machine stands for its sync rounds
Workspaces == Names \X (Joins \cup {None})
Entries == Workspaces \cup {<<"default", None>>}
Repos == {"none", "dir", "files", "heads"}
Copies == {"none", "dir", "type", "all"}
Holding == {"read", "write", "unlock"}
Phases == Holding \cup {"idle", "mkdir", "pull", "heads", "boot", "seed", "seed_type",
                        "seed_checkout", "lock", "config", "sparse", "look", "add", "link",
                        "worker", "sync_push", "sync_pull"}
Own == <<CreatorName, None>>
Records == [pc : Phases, at : Machines, name : Names, cold : BOOLEAN,
            base : SUBSET Workspaces, manifest : SUBSET Workspaces,
            entries : SUBSET Entries, smooth : BOOLEAN]
Idle == [pc |-> "idle", at |-> Creator, name |-> CreatorName, cold |-> FALSE,
         base |-> {}, manifest |-> {}, entries |-> {}, smooth |-> FALSE]

\* The creator has published the dojo with its own workspace.
Init ==
    /\ published = {Own}
    /\ replica = [m \in Machines |-> IF m = Creator THEN {Own} ELSE {}]
    /\ repo = [m \in Machines |-> IF m = Creator THEN "heads" ELSE "none"]
    /\ copy = [m \in Machines |-> IF m = Creator THEN "all" ELSE "none"]
    /\ config = [m \in Machines |-> m = Creator]
    /\ index = [m \in Machines |-> IF m = Creator THEN {Own, <<"default", None>>} ELSE {}]
    /\ lock = [m \in Machines |-> FALSE]
    /\ dir = [j \in Joins |-> "empty"]
    /\ cmd = [p \in Procs |-> Idle]
    /\ knew = [j \in Joins |-> {}]
    /\ started = 0
    /\ rounds = 0
    /\ failures = 0

(***************************************************************************)
(* Helpers.                                                                 *)
(***************************************************************************)
At(p, phase) == cmd[p].pc = phase
GoTo(p, phase) == cmd' = [cmd EXCEPT ![p].pc = phase]
End(p) == cmd' = [cmd EXCEPT ![p] = Idle]
On(p) == cmd[p].at
NamesIn(ws) == {w[1] : w \in ws}
Added == UNION {replica[m] : m \in Machines}

\* The lock's file is there and nobody works under it: who made it was killed.
Stale(m) == lock[m] /\ \A p \in Procs : cmd[p].pc \in Holding => On(p) # m

\* `jj` can open `_default`.
Opens(m) == copy[m] = "all" /\ repo[m] = "heads"

\* Nothing on the machine is in the way of a join under this name: no other
\* join, no lock left behind, no working copy begun and not finished.
InOrder(m, n) ==
    /\ \A k \in Joins : cmd[k].pc # "idle" => cmd[k].at # m
    /\ ~Stale(m)
    /\ copy[m] \in {"none", "all"}
    /\ n \notin NamesIn(Added)

\* Mutant of Ready: a repository is enough.
ReadyByRepo(m) == repo[m] # "none"

\* is_local_dojo_join_ready
Ready(m) == config[m] /\ repo[m] # "none" /\ copy[m] # "none"

(***************************************************************************)
(* run and run_cold_join.                                                   *)
(***************************************************************************)

\* A join starts in a directory without a workspace.
Start(j, m, n) ==
    /\ At(j, "idle")
    /\ dir[j] = "empty"
    /\ started < MaxStarts
    /\ started' = started + 1
    /\ cmd' = [p \in Procs |->
                 IF p = j
                 THEN [Idle EXCEPT !.pc = IF Ready(m) THEN "boot" ELSE "mkdir",
                                   !.at = m, !.name = n, !.cold = ~Ready(m),
                                   !.base = IF config[m] THEN {} ELSE published,
                                   !.smooth = InOrder(m, n)]
                 ELSE [cmd[p] EXCEPT !.smooth = @ /\ cmd[p].at # m]]
    /\ UNCHANGED <<published, replica, home, store, dir, knew, rounds, failures>>

MakeRepo(j) ==
    /\ At(j, "mkdir")
    /\ repo' = [repo EXCEPT ![On(j)] = IF @ = "none" THEN "dir" ELSE @]
    /\ GoTo(j, "pull")
    /\ UNCHANGED <<published, replica, copy, config, store, dir, knew, counts>>

\* The pull goes by the manifest it begins with; operation heads come last.
PullFiles(j) ==
    /\ At(j, "pull")
    /\ repo' = [repo EXCEPT ![On(j)] = IF @ = "dir" THEN "files" ELSE @]
    /\ cmd' = [cmd EXCEPT ![j].manifest = published, ![j].pc = "heads"]
    /\ UNCHANGED <<published, replica, copy, config, store, dir, knew, counts>>

PullHeads(j) ==
    /\ At(j, "heads")
    /\ cmd[j].manifest = published
    /\ replica' = [replica EXCEPT ![On(j)] = @ \cup cmd[j].manifest]
    /\ repo' = [repo EXCEPT ![On(j)] = "heads"]
    /\ cmd' = [cmd EXCEPT ![j].manifest = {}, ![j].pc = "boot"]
    /\ UNCHANGED <<published, copy, config, store, dir, knew, counts>>

\* A head that another machine's sync has replaced meanwhile is skipped.
SkipHeads(j) ==
    /\ At(j, "heads")
    /\ cmd' = [cmd EXCEPT ![j].pc = "boot", ![j].base = {}, ![j].smooth = FALSE]
    /\ UNCHANGED <<published, replica, home, store, dir, knew, counts>>

(***************************************************************************)
(* bootstrap_default_workspace_after_pull, run by a cold join after the     *)
(* pull and by every join before it adds its workspace.                     *)
(***************************************************************************)
Boot(j) ==
    /\ At(j, "boot")
    /\ GoTo(j, IF copy[On(j)] = "none" THEN "seed" ELSE "lock")
    /\ UNCHANGED <<published, replica, home, store, dir, knew, counts>>

\* seed_default_workspace_working_copy: without heads it fails.
SeedDir(j) ==
    /\ At(j, "seed")
    /\ IF repo[On(j)] = "heads"
       THEN /\ copy' = [copy EXCEPT ![On(j)] = IF @ = "none" THEN "dir" ELSE @]
            /\ GoTo(j, "seed_type")
       ELSE End(j) /\ UNCHANGED copy
    /\ UNCHANGED <<published, replica, repo, config, store, dir, knew, counts>>

SeedType(j) ==
    /\ At(j, "seed_type")
    /\ copy' = [copy EXCEPT ![On(j)] = IF @ = "dir" THEN "type" ELSE @]
    /\ GoTo(j, "seed_checkout")
    /\ UNCHANGED <<published, replica, repo, config, store, dir, knew, counts>>

SeedCheckout(j) ==
    /\ At(j, "seed_checkout")
    /\ copy' = [copy EXCEPT ![On(j)] = "all"]
    /\ GoTo(j, "lock")
    /\ UNCHANGED <<published, replica, repo, config, store, dir, knew, counts>>

(***************************************************************************)
(* register_workspace_path, for `default`: by a join or a round.            *)
(***************************************************************************)

\* Mutant of AcquireLock: it waits for as long as it takes.
AcquireWaits(p) ==
    /\ At(p, "lock")
    /\ ~lock[On(p)]
    /\ lock' = [lock EXCEPT ![On(p)] = TRUE]
    /\ GoTo(p, "read")
    /\ UNCHANGED <<published, replica, home, index, dir, knew, counts>>

\* Mutant of AcquireLock: the file is looked for and not made.
AcquireUnmarked(p) ==
    /\ At(p, "lock")
    /\ IF lock[On(p)] THEN End(p) ELSE GoTo(p, "read")
    /\ UNCHANGED <<published, replica, home, store, dir, knew, counts>>

\* Mutant of AcquireLock: after fifty attempts it goes on without the lock.
AcquireAnyway(p) ==
    /\ At(p, "lock")
    /\ lock' = [lock EXCEPT ![On(p)] = TRUE]
    /\ GoTo(p, "read")
    /\ UNCHANGED <<published, replica, home, index, dir, knew, counts>>

\* The fifty attempts outlast a process that works under the lock (one they
\* do not outlast: Fail), and not the file that a killed one has left.
AcquireLock(p) ==
    /\ At(p, "lock")
    /\ \/ /\ ~lock[On(p)]
          /\ lock' = [lock EXCEPT ![On(p)] = TRUE]
          /\ GoTo(p, "read")
       \/ Stale(On(p)) /\ End(p) /\ UNCHANGED lock
    /\ UNCHANGED <<published, replica, home, index, dir, knew, counts>>

ReadIndex(p) ==
    /\ At(p, "read")
    /\ cmd' = [cmd EXCEPT ![p].entries = index[On(p)], ![p].pc = "write"]
    /\ UNCHANGED <<published, replica, home, store, dir, knew, counts>>

\* The entry of that name is replaced, all others stay.
WithEntry(entries, name, d) == {e \in entries : e[1] # name} \cup {<<name, d>>}

WriteIndex(p) ==
    /\ At(p, "write")
    /\ index' = [index EXCEPT ![On(p)] = WithEntry(cmd[p].entries, "default", None)]
    /\ cmd' = [cmd EXCEPT ![p].entries = {}, ![p].pc = "unlock"]
    /\ UNCHANGED <<published, replica, home, lock, dir, knew, counts>>

\* What the registration was for.
AfterRegister(p) ==
    IF p \in Machines THEN "sync_push" ELSE IF cmd[p].cold THEN "config" ELSE "sparse"

\* Mutant of Unlock: the lock is kept.
UnlockNever(p) ==
    /\ At(p, "unlock")
    /\ GoTo(p, AfterRegister(p))
    /\ UNCHANGED <<published, replica, home, store, dir, knew, counts>>

Unlock(p) ==
    /\ At(p, "unlock")
    /\ lock' = [lock EXCEPT ![On(p)] = FALSE]
    /\ GoTo(p, AfterRegister(p))
    /\ UNCHANGED <<published, replica, home, index, dir, knew, counts>>

\* From here on a join on this machine is warm, and so goes on this one.
SaveConfig(j) ==
    /\ At(j, "config")
    /\ config' = [config EXCEPT ![On(j)] = TRUE]
    /\ cmd' = [cmd EXCEPT ![j].cold = FALSE, ![j].pc = "boot"]
    /\ UNCHANGED <<published, replica, repo, copy, store, dir, knew, counts>>

(***************************************************************************)
(* cold_join_user_workspace and finish_join.                                *)
(***************************************************************************)

\* `jj sparse list` is the first jj command to open `_default`: it fails on a
\* working copy that is not complete, or without heads.
ClearSparse(j) ==
    /\ At(j, "sparse")
    /\ IF Opens(On(j)) THEN GoTo(j, "look") ELSE End(j)
    /\ UNCHANGED <<published, replica, home, store, dir, knew, counts>>

\* Mutant of LookForName: the name is not looked for.
LookForNothing(j) ==
    /\ At(j, "look")
    /\ GoTo(j, "add")
    /\ knew' = [knew EXCEPT ![j] = replica[On(j)] \cup cmd[j].base]
    /\ UNCHANGED <<published, replica, home, store, dir, counts>>

\* The name is looked for in the replica of this machine.
LookForName(j) ==
    /\ At(j, "look")
    /\ IF cmd[j].name \in NamesIn(replica[On(j)]) THEN End(j) ELSE GoTo(j, "add")
    /\ knew' = [knew EXCEPT ![j] = replica[On(j)] \cup cmd[j].base]
    /\ UNCHANGED <<published, replica, home, store, dir, counts>>

\* `jj workspace add` keeps the same index under the same lock.  It may refuse
\* a name it knows.
AddWorkspace(j) ==
    /\ At(j, "add")
    /\ \/ /\ ~lock[On(j)]
          /\ replica' = [replica EXCEPT ![On(j)] = @ \cup {<<cmd[j].name, j>>}]
          /\ index' = [index EXCEPT ![On(j)] = WithEntry(@, cmd[j].name, j)]
          /\ dir' = [dir EXCEPT ![j] = "added"]
          /\ GoTo(j, "link")
       \/ /\ Stale(On(j)) \/ cmd[j].name \in NamesIn(replica[On(j)])
          /\ End(j)
          /\ UNCHANGED <<replica, index, dir>>
    /\ UNCHANGED <<published, home, lock, knew, counts>>

WriteLink(j) ==
    /\ At(j, "link")
    /\ dir' = [dir EXCEPT ![j] = "linked"]
    /\ GoTo(j, "worker")
    /\ UNCHANGED <<published, replica, home, store, knew, counts>>

StartWorker(j) ==
    /\ At(j, "worker")
    /\ End(j)
    /\ UNCHANGED <<published, replica, home, store, dir, knew, counts>>

(***************************************************************************)
(* The sync rounds of the machines that have joined (run_for_dojo_home).    *)
(***************************************************************************)

\* ensure_default_workspace_loadable registers `default` first.
StartRound(m) ==
    /\ At(m, "idle")
    /\ Ready(m)
    /\ rounds < MaxRounds
    /\ rounds' = rounds + 1
    /\ cmd' = [cmd EXCEPT ![m] = [Idle EXCEPT !.pc = "lock", !.at = m]]
    /\ UNCHANGED <<published, replica, home, store, dir, knew, started, failures>>

\* `jj op log` opens `_default`.
SyncPush(m) ==
    /\ At(m, "sync_push")
    /\ IF Opens(m)
       THEN published' = published \cup replica[m] /\ GoTo(m, "sync_pull")
       ELSE End(m) /\ UNCHANGED published
    /\ UNCHANGED <<replica, home, store, dir, knew, counts>>

SyncPull(m) ==
    /\ At(m, "sync_pull")
    /\ replica' = [replica EXCEPT ![m] = @ \cup published]
    /\ End(m)
    /\ UNCHANGED <<published, home, store, dir, knew, counts>>

(***************************************************************************)
(* Failures of both.                                                        *)
(***************************************************************************)
Fails == failures < MaxFailures /\ failures' = failures + 1

\* An error unwinds: the lock is removed on drop.
Fail(p) ==
    /\ ~At(p, "idle")
    /\ Fails
    /\ lock' = [lock EXCEPT ![On(p)] = @ /\ cmd[p].pc \notin Holding]
    /\ End(p)
    /\ UNCHANGED <<published, replica, home, index, dir, knew, started, rounds>>

\* Ctrl-C or a crash does not remove it, and the lock is then in the way.
Killed(p) ==
    /\ ~At(p, "idle")
    /\ Fails
    /\ cmd' = [q \in Procs |->
                 IF q = p THEN Idle
                 ELSE [cmd[q] EXCEPT !.smooth = @ /\ (cmd[p].pc \in Holding => cmd[q].at # On(p))]]
    /\ UNCHANGED <<published, replica, home, store, dir, knew, started, rounds>>

Register(p) == AcquireLock(p) \/ ReadIndex(p) \/ WriteIndex(p) \/ Unlock(p)

JoinStep(j) ==
    \/ MakeRepo(j) \/ PullFiles(j) \/ PullHeads(j) \/ SkipHeads(j)
    \/ Boot(j) \/ SeedDir(j) \/ SeedType(j) \/ SeedCheckout(j)
    \/ Register(j) \/ SaveConfig(j)
    \/ ClearSparse(j) \/ LookForName(j) \/ AddWorkspace(j) \/ WriteLink(j) \/ StartWorker(j)

RoundStep(m) == Register(m) \/ SyncPush(m) \/ SyncPull(m)

Next ==
    \/ \E j \in Joins : \/ \E m \in Machines, n \in Names : Start(j, m, n)
                        \/ JoinStep(j)
    \/ \E m \in Machines : StartRound(m) \/ RoundStep(m)
    \/ \E p \in Procs : Fail(p) \/ Killed(p)

\* Of the joins and rounds that can go on, some one does.  None needs more:
\* what a join waits for is held by one that can go on, and rounds are bounded
\* (in the code they are seconds apart, and a join looks for the lock every
\* 20 ms).
Fairness == WF_vars((\E j \in Joins : JoinStep(j)) \/ (\E m \in Machines : RoundStep(m)))

Spec == Init /\ [][Next]_vars /\ Fairness

(***************************************************************************)
(* Properties.                                                              *)
(***************************************************************************)

\* Every variable has its type, and who works on the index has locked it.
TypeOK ==
    /\ published \subseteq Workspaces
    /\ replica \in [Machines -> SUBSET Workspaces]
    /\ repo \in [Machines -> Repos]
    /\ copy \in [Machines -> Copies]
    /\ config \in [Machines -> BOOLEAN]
    /\ index \in [Machines -> SUBSET Entries]
    /\ lock \in [Machines -> BOOLEAN]
    /\ dir \in [Joins -> {"empty", "added", "linked"}]
    /\ cmd \in [Procs -> Records]
    /\ \A p \in Procs : cmd[p].pc \in Holding => lock[On(p)]
    /\ knew \in [Joins -> SUBSET Workspaces]
    /\ started \in 0 .. MaxStarts
    /\ rounds \in 0 .. MaxRounds
    /\ failures \in 0 .. MaxFailures

\* A workspace that join has added is on a machine whose `_default` jj can open,
\* whatever other joins did there at the same time, and the machine's index
\* has both its name and `default`, without which undojjo refuses to run.
WorkspacesUsable ==
    \A j \in Joins : dir[j] # "empty" =>
        \E m \in Machines, n \in Names :
            /\ <<n, j>> \in replica[m]
            /\ config[m] /\ repo[m] = "heads" /\ copy[m] = "all"
            /\ {n, "default"} \subseteq NamesIn(index[m])

\* Two workspaces have the same name only if neither join could know of the
\* other: it was not in the replica when the join looked for its name nor, if
\* that was the machine's first join and no head vanished while it pulled, in
\* the mirror published when it began.
NamesApart ==
    \A a, b \in Added : a # b /\ a[1] = b[1] /\ b[2] # None => a \notin knew[b[2]]

\* A registration never loses the entry of another name, however those of
\* joins, of rounds and of `jj workspace add` overlap and wherever they are cut.
IndexKept == [][\A m \in Machines : NamesIn(index[m]) \subseteq NamesIn(index'[m])]_vars

\* A join that starts with nothing in its way, is left no lock by a killed
\* round and runs to its end adds and links its workspace, whatever earlier
\* joins left behind and whatever rounds run beside it.
JoinCompletes ==
    [][\A j \in Joins :
          cmd[j].smooth /\ ~At(j, "idle") /\ cmd'[j].pc = "idle" /\ failures' = failures
              => \/ dir'[j] = "linked"
                 \/ \E w \in Added : w[1] = cmd[j].name /\ w[2] # j]_vars

\* Every join ends: it waits for the lock of the index while other joins and
\* rounds work under it, and gives up on one that has been left behind.
JoinsEnd == \A j \in Joins : []<>At(j, "idle")
===============================================================================
