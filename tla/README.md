# dojjo in TLA+

dojjo shares one Jujutsu (jj) repository, a *dojo*, between machines: a server
keeps a mirror of the files of `.jj/repo` and a bare Git repository; on every
machine a background worker keeps a local replica equal to them. This directory
models that system in TLA+, checks the models with TLC, and proves the central
invariants with TLAPS. Paths below are relative to the root of the repository
(`src/` in `PROJECT.json`).

- [The system](#the-system): parts, state, interactions, what is hard
- [The modules](#the-modules): which module models what, and how
- [The runs](#the-runs): what TLC checks, in which bounds, under which fairness
- [The findings](#the-findings): where the code and its documents disagree
- [The proofs](#the-proofs): what holds for all values of the constants
- [What is not modelled](#what-is-not-modelled)
- [The plan](#the-plan)

To run them: `tlc -config <run>.cfg <module>` for a run of the table below, and
`tlapm <module>_proofs.tla` for the proofs.

## The system

### Parts

**Composite sync round** (`client/src/sync.rs`, `manifest.rs`, `mirror_pull.rs`,
`repo_walk.rs`). A round reads the operation log, pushes Git, indexes the replica,
uploads what the published manifest lacks (operations parents first, head markers
last), calls `sync-complete`, reads the published manifest, fetches Git, downloads
what the replica lacks, prunes what the manifest does not list, compares and saves
`state.json`. State: the files of the replica, the manifest and the work list in
memory, `state.json`. It should never lose an edit, never leave a replica jj cannot
open, and make all replicas equal in the end. Hard: the user's own `jj` writes to
the same files under no lock; other machines upload and publish meanwhile; any step
may be the last; a 404 changes the manifest under a work list made from another.

**sync-complete and the manifest** (`sync-server/src/mirror_sync_complete.rs`,
`mirror_normalize.rs`, `mirror_manifest.rs`, `dojo_io_lock.rs`). Under the dojo's
lock: read the op heads, let jj merge them if there are several, swap the markers,
scan the tree, put the scan in apply order, publish it. Uploads do not take this
lock. It should never drop a head whose history is not behind another, and should
publish only what can be applied. Hard: scan and normalization race uploads; the
caller can go away; the server can stop between adding and removing markers.

**Mirror path rules and apply order** (`dojjo-mirror/src/`). Which files are
mirrored, and an order to copy them in: by layers, operations parents first. A copy
may stop at any file; what it has copied by then must be of use. Hard: the push orders
only a part of the files, closed over parents; the input may be damaged.

**Upload service** (`tus-server/src/`, `sync-server/src/tus_handlers.rs`,
`dojo_tus_store.rs`, `client/src/tus.rs`). POST makes a staging directory, PATCH
appends, and the last byte moves the data file into the mirror. State: `meta`,
`data`, the mirror. A reader of the mirror must only ever see whole files. Hard:
each await is a point of interleaving, each request has a store and a lock of its
own, two uploads may be for one path, and a request may be cut short anywhere.

**Git transport** (`client/src/git_sync.rs`, `sync-server/src/git_http.rs`,
`git_remote.rs`). Push of all refs, fsck, wipe and refetch of a broken store, fetch
with prune. A machine that has an operation must have its commit. Hard: Git and
mirror are two stores with no common transaction; only the order of steps ties them.

**Background worker** (`client/src/background_sync.rs`, `config.rs`). Spawned by
create, join and `enable`, found again through a pid file, stopped by a signal or
through the configuration. At most one should run, and none once disabled. Hard:
neither file has a lock; the pid is read, probed and used in separate steps.

**create, undojjo** (`client/src/create.rs`, `undojjo.rs`, `workspace_lifecycle.rs`).
`create` moves the user's repository into the dojo's home and publishes it, in phases
kept in a progress file; `undojjo` moves it back. The repository must never be lost,
and an interrupted create must resume. Hard: a dozen file operations, each of which may
be the last.

**join** (`client/src/join.rs`, `workspace_lifecycle.rs`, `jj_workspace_store.rs`).
A machine's first join pulls a replica and makes a working copy for `default` by
hand; every join adds a workspace. State: the replica, that working copy,
`config.json`, the workspace store's index and its lock file. What a join adds must be
usable and its name unique. Hard: joins on one machine share all of this under one
lock that covers the index alone; joins on two machines see each other only through
the mirror; a kill leaves the lock and half a working copy behind.

**The server's registry** (`sync-server/src/main.rs`): a row, a directory and a bare
repository for each dojo. **The rest**: the invocation of jj (`client/src/jj_exec.rs`),
reports (`status.rs`, `sync_debug.rs`, `smoke.rs`).

### How they interact

The worker starts rounds. A round calls the Git transport, the upload service and
`sync-complete` over HTTP and writes the replica; the user's `jj` writes the replica
too. Uploads and `sync-complete` share the mirror directory. `create` and `join`
build what rounds need and end by starting a worker; `undojjo` takes it away.

`PROJECT.json` lists under `hazards` every place where this can go wrong in a way
a test would hardly reach, with the properties that would notice.

## The modules

| module | models | composes with |
|---|---|---|
| `SharedHistory` | abstract: operations are written, shared and published, and none is taken back | |
| `MirrorSync` | rounds, the user's jj, the sync-complete handler, failures | implements `SharedHistory` |
| `MirrorSyncInv` | the inductive invariants of the above, and the regimes they hold in | EXTENDS `MirrorSync` |
| `ApplyOrder` | the order of a copy, the push's closure over parents, copies that stop | what `MirrorSync` assumes of the order of its lists |
| `MirrorFiles` | abstract: an upload puts a whole file in place in one step | |
| `TusUpload` | the upload service, one file operation per step | implements `MirrorFiles` |
| `GitTransport` | the Git leg and the mirror leg of rounds and cold joins | |
| `BackgroundWorker` | commands, pid file, configuration, worker loop, the home that undojjo removes | |
| `DojoSetup` | create with the server's part of it, its resume, and undojjo | |
| `JoinDojo` | cold and warm joins, workspace names, the workspace store and the rounds that use it | |
| `MCMirrorSync`, `MCTusUpload`, `MCApplyOrder` | constants for TLC | |
| `*_proofs` | theorems, one module per component (`MirrorSync` has two) | |

In every module one action is what the code does between two points where another
actor can come in (an await, a file operation, a request), the code's early
returns are guards, and a failure is an action of its own that may come at any
point. Definitions named as mutants in a comment are variations used to see that
each property can fail; no specification uses them.

**`MirrorSync`.** A tree is a set of operation files and a set of head markers;
names are content hashes, so a file never changes and a tree is two sets. An
operation carries the set of its ancestors. `repo[r]`, `mirror` and `pub` are the
trees of the replicas, of the mirror and of the published manifest.

| action | code |
|---|---|
| `UserWritesOp`, `UserPublishesHead` | a jj command: operation file, then head marker (external) |
| `StartRound` | `jj op log` and the start of `run_for_dojo_home` |
| `ListDir` | one directory read by the walk of `repo_walk.rs`: it may or may not see a file that comes meanwhile |
| `PlanPush`, `Upload`, `FinishPush` | the comparison with the manifest, the upload loop in apply order |
| `NotifyComplete`, `FetchPublished` | the request to sync-complete, the manifest after it |
| `PlanPull`, `Download`, `Refetch404`, `SkipUnlisted`, `FinishPull` | the pull loop; on a 404 the manifest is replaced and the list is not |
| `PlanPrune`, `Prune`, `VerifyAndSave` | the prune, the last comparison, `state.json` |
| `Normalize`, `SwapHeads`, `ScanDir`, `Publish` | the handler under the dojo's lock |
| `AbortRound`, `DropHandler`, `RestartServer` | failures; `DropPhases` says in which phases a handler may be dropped |
| `StrayReads`, `StraySwaps` | the blocking task of `normalize_mirror_after_sync` after its handler was dropped: it holds no lock of the dojo's, and each marker it adds or removes is a step |

A dropped handler frees the dojo's lock at once, and the next handler begins beside the
task it left behind. What keeps two normalizations from resolving the same heads is the
lock jj takes on the op heads when it finds several, which is not in `src/` and is an
assumption of the model (`Resolves`).

`SharedHistory` is what all this promises: as a refinement, written operations are those
that exist, shared ones those a head of the mirror leads to, published ones those a
head of the manifest leads to. A head that is dropped before its
operation is behind another one, or a scan that is published after a newer one, would
break it.

**`ApplyOrder`.** `compute_mirror_apply_order` and `expand_operation_parent_closure` as
steps over a set of files: the layers, the stack of the closure, the indegrees and
the ready set of the topological sort, a file at a time; then the copy, which skips what
the target has and can stop anywhere. `StartAll` is `dojjo create` and the order the
server publishes for those who pull, `StartPush` the push of a round. A file is a number,
numbers order files as paths do; `Refs` says which files of lower layers a file is of no
use without. A source may have damaged operations, missing parents and cycles. Parents
are a set: that a parent named twice counts once (`mirror_apply_order.rs:97`,
`operation_expand.rs:55`) is true of the model by construction and not examined.

**`TusUpload`.** A data file is an inode with a length and a flag: are its bytes
those of the body, in order? A handler that has the file open writes to it wherever
it has been moved since. `Create`, `Send` and the `PatchStep`s are the awaits of
POST, the arrival of PATCH or DELETE, and the file operations that follow; `Drop`
cuts a request short. `Resends` says whether a second request may come for an upload
while the first is being worked on. `RemoveHead` is what a normalization does to these
files: it removes delivered head markers, at any moment, also between the rename of an
upload and the check of its size, which then fails. `HeadPaths` are the paths this can
happen to, and what `DeliveredForGood` and `MirrorFiles` promise leaves them out.

**`GitTransport`.** A commit and the operation that made it have one name. A Git
store is a set of commits and the set of those that a ref `refs/jj/keep/*` names;
fsck passes when every ref has its commit. The trees of `MirrorSync` are sets of
operations here, uploaded and pulled one by one: what is looked at is the
order of Git and mirror. `TakesRefs` names the part of a round, from its push to its
prune, in which a commit written is `late`: the round does not push it, and its prune
takes the ref. Three history variables say which commits the order of the legs can do
nothing for: `overtaken` ones came before the round listed the operations, so that
theirs may be uploaded without them; `unkept` ones are late commits whose ref was
really taken; `lost` ones went with a damaged store before they had reached the bare.

**`BackgroundWorker`.** Each read, write, probe and signal of a command is a step.
A worker reads the configuration before every round, removes the pid file when it
finds sync disabled, and ends. undojjo removes the home, both files in it, while a
worker may be between any two of its steps: the next read of the configuration writes
it anew.

**`DojoSetup`.** Where the repository is (`userRepo`, `defaultRepo`), what the files
of the dojo's home say, what the server has. One action per step of `create.rs` and
`undojjo.rs`; `CutShort` ends the command after any of them, and `Start` runs it, or
the other one, again. `hurt` records a cut in a window the code does not resume from.
The request that makes the dojo is three steps of the server (`PostDojo`, `InitBare`,
`AllowPush`), each of which may be the last.

**`JoinDojo`.** Of a repository only the workspaces its operation heads know are kept.
`repo` and `copy` say how far the repository and the working copy of `default` have come
on each machine, `index` and `lock` are the workspace store, `dir` is the directory of
each join. `cmd` has the joins under way and, under the name of each machine, its sync
round, which registers `default` in the index before anything else. `knew` is a history
variable: the workspaces a join could know when it looked for its name; `smooth` says of
a join that nothing it cannot help has come in its way.

A process looks for the lock fifty times, 20 ms apart. That outlasts whoever works under
it, so `AcquireLock` waits while someone does; a file that a killed process has left
(`Stale`) ends it with an error, and so may `Fail` at any time, should the attempts be
too few. Such a file stays until somebody removes it: until then every round of that
machine ends at `client/src/sync.rs:44`, as does every join.

| action | code |
|---|---|
| `Start` | `run`: cold or warm, by `is_local_dojo_join_ready` |
| `MakeRepo`, `PullFiles`, `PullHeads`, `SkipHeads` | `run_cold_join` and `mirror_pull.rs`: a head that has gone is skipped |
| `Boot`, `SeedDir`, `SeedType`, `SeedCheckout` | `bootstrap_default_workspace_after_pull`, the three writes of `seed_default_workspace_working_copy` |
| `AcquireLock`, `ReadIndex`, `WriteIndex`, `Unlock` | `register_workspace_path`, by joins and by rounds |
| `SaveConfig` | `config.json`, after which joins on this machine are warm |
| `ClearSparse`, `LookForName`, `AddWorkspace`, `WriteLink`, `StartWorker` | `cold_join_user_workspace`, `finish_join` |
| `Fail`, `Killed` | an error, which unwinds and removes the lock; a kill, which does not |
| `StartRound`, `SyncPush`, `SyncPull` | the rounds of machines that have joined: the registration of `default`, then each leg one step |

## The runs

| run | module | checks | bounds |
|---|---|---|---|
| `sync_serial` | `MCMirrorSync` | `TypeOK`, `ReplicaOpens`, `RoundSettles`, `Converges` | 2 replicas, 3 edits, 8 operations, rounds one at a time, 1 failure, handlers dropped at any step |
| `sync_overlap` | `MCMirrorSync` | `MirrorClosed`, `NoEditLost`, `PublishedAvailable`, `HistoryKept`, `ImplementsSharedHistory` | 2 replicas (symmetric), 2 edits, 5 operations, both rounds and the handler at once, edits between a replica's rounds, 1 failure, handlers dropped only while they scan |
| `sync_edits` | `MCMirrorSync` | `PublishedOpens` | 2 replicas, 2 edits at any moment, rounds one at a time, 1 failure, handlers dropped at any step |
| `apply_order` | `MCApplyOrder` | `TypeOK`, `InOrder`, `TargetComplete`, `FailsIfBroken`, `DoneIsWhole`, `Ends` | all graphs on 3 operations, 1 damaged operation, 1 object below and 1 head above them, every source, every complete target |
| `tus_single` | `MCTusUpload` | `TypeOK`, `MirrorWhole`, `DeliveredForGood`, `UploadIsAtomic` | 3 uploads (2 to one path, 1 a head marker), 2 requests at once, lengths up to 2, 1 cut |
| `worker` | `BackgroundWorker` | `TypeOK`, `OneWorker`, `EnableRestarts`, `DisabledStops` | 3 commands, 2 at once, 3 pids, 1 failure |
| `setup` | `DojoSetup` | `TypeOK`, `RepoKept`, `ConfigMeansPublished`, `RerunCompletes` | 3 dojos, 2 files, 5 commands, 3 cuts |
| `join` | `JoinDojo` | `TypeOK`, `WorkspacesUsable`, `NamesApart`, `IndexKept`, `JoinCompletes`, `JoinsEnd` | 2 machines, 2 joins, 2 started, 2 rounds, 2 names, 1 failure |
| `git` | `GitTransport` | `TypeOK`, `CommitsBeforeOps`, `ReplicaWhole`, `AuthorKeeps`, `Heals`, `Arrives` | 2 machines (one joins), 2 commits, 2 torn packs, 1 cut |

and three runs that end in a counterexample, see the findings: `edit_during_sync`,
`headless_replica`, `setup_rerun`.

**What they show.** With rounds that do not overlap, jj can open every replica at
every step of a round, so also where it is cut short; a round that gets as far as its
last comparison finds the published tree, with nothing for the assertion there to trip
over; and all replicas become the published tree once the edits stop (`sync_serial`).
When rounds and handlers overlap freely but users wait for the rounds of their own
replica, no edit is lost, the mirror has each operation it refers to and all that its
manifest speaks of, and what is shared or published is never taken back
(`sync_overlap`).
When users do not wait, jj can still open what is published as long as the rounds of
different machines do not overlap (`sync_edits`). A copy that goes by the apply order and
stops at any file leaves a complete repository complete, and ordering fails on
broken ones only (`apply_order`). An upload is one atomic step to readers, as long as no
two requests work on one upload (`tus_single`). Commands one after another keep one
worker, and disabling ends all of them whatever overlapped (`worker`). Create and
undojjo, cut short anywhere, keep the repository in exactly one place, a dojo a machine
knows of takes pushes, and a rerun of create completes outside three named windows
(`setup`). What a join adds can be used whatever other joins do meanwhile; the index
loses no entry; a join with nothing in its way completes, and every join ends; two
workspaces share a name only if neither join could know of the other (`join`).
`README.md:152` of the repository calls names "globally unique … (collision = error)":
`NamesApart` says in which window that is not enforced. Operations travel with their
commits except for `lost`, `overtaken` and `unkept` ones; nothing but damage from outside
takes a commit from the machine that wrote it; and damage heals (`git`).

**What they leave aside.** Some properties speak of a part of the behaviours only, and the
hazards in the rest are not theirs:

- `OneWorker` and `EnableRestarts` speak of commands one after the other, and end with an
  undojjo that leaves a worker running (`clean`). Two overlapping commands may start two
  workers, and such an undojjo leaves one beside the next; `DisabledStops` alone covers
  these. Of a disable that another command overwrites it says nothing.
- `RerunCompletes` leaves aside a cut in one of the windows of `hurt`; `SafeToRerun`, the
  finding, does not.
- `CommitsBeforeOps`, `ReplicaWhole` and `Arrives` excuse `lost` and `unkept` commits, the
  first two `overtaken` ones as well. That excuses what the code loses by a wipe of a
  damaged store and by a prune beside a running jj command.
- `NamesApart` excuses two joins that cannot know of each other: at the same time, or
  where heads vanished while one pulled (`knew`).
- `JoinCompletes` starts from no lock left behind and no half working copy, and leaves
  aside joins beside another on the same machine (`smooth`).
- `ReplicaOpens` and `RoundSettles` are checked where rounds do not overlap and users wait,
  so that no 404 comes; what one does is in the finding `headless_replica`.

**Why the bounds are enough.** Two replicas are the least that disagree, and the code
treats every further one like the second: what one of them sees of the others is the
mirror. Two edits make one conflict, which the server merges; the third edit of
`sync_serial` comes on top of a merge or against it, and 8 operations leave room for the
merges of all of them and for one repeated after a failure: were there too few, the
handler would stand still and `Converges` fail. `MaxOverlap` counts rounds and handlers
under way: 3 is both rounds and the handler, so no interleaving is excluded in
`sync_overlap`; a normalization without its handler counts too, so that in `sync_serial`
and `sync_edits` the next round waits for it. Three uploads to two paths have a race for
one path beside an independent one; a length of 2 has a partial append, an exact one and
an excess. Three commands of `worker` allow two that overlap after one that was alone;
three pids allow the worker of each. In `setup` each dojo is a create that began anew.
Two starts, two rounds and one failure of `join` are two joins side by side, or one that
fails and its repetition, on one machine or on two, beside rounds of both machines or of
the one they are on; two names let the joins agree or differ. `apply_order` takes every
graph: three operations are a chain, a fork, a merge, and a cycle with or without a
tail. The two torn packs of `git` are what a heal and its second try need: one before
the fetch and one between the fetch and the second look. One cut is tried at every point
of a round or a join; it leaves nothing but the stores, from which the next round starts
as from any others (the safety properties are proved for any number of cuts). One new
commit suffices because the properties are about each commit by itself, and commits do
not depend on one another here.

**Deadlock** is checked in `git` only. The other runs say `CHECK_DEADLOCK FALSE`:
with the edits, commands or uploads of the bound used up, or the copy at its end, the
system really stops.

**Fairness.** `sync_serial`: a started round, the handler and a normalization it left
behind go on (`WF` of `RoundStep`, `HandlerStep`, `StrayStep`: requests are answered,
loops are finite, a blocking task is not stopped), a jj command finishes once begun, and
the worker's loop starts rounds (`SF` of `StartRound`: the loop tries every ten seconds,
and the bound on overlap, which is the model's and not the code's, takes turns away from
it). `git`: `WF` of `Start` and `RoundStep`, for the same reasons. `worker`: a process
that runs gets its turn. `join`: of the joins and rounds that can go on some one does
(`WF` of all their steps together; rounds are bounded, and what a join waits for is held
by one that can go on). `apply_order`: the copy goes on (`WF` of `Step`). `tus_single`,
`sync_overlap`, `sync_edits` and `setup` need none. Nowhere is an edit, a command, a
join, a failure or a retry by the user fair.

## The findings

Each is a run that TLC ends with a counterexample, against a line of a document, a
comment or a script; `PROJECT.json` has the quotations.

| run | property | what happens |
|---|---|---|
| `edit_during_sync` | `NoEditLost` | The prune indexes the replica anew and deletes what the manifest lacks, also the files of a jj command that ran after the index for the upload was taken. |
| `headless_replica` | `ReplicaHasHead` | A 404 replaces the manifest but not the pull list; the prune then follows a manifest whose head was never downloaded. The replica has no head and later rounds stop at `jj op log`. |
| `setup_rerun` | `SafeToRerun` | Create cut between the move and the pointer, after `config.json`, or between `workspace add` and `new root()` is not completed by a rerun. |

The bounds of `edit_during_sync` also violate `RoundSettles`: a file that a jj command
writes after the prune has taken its index is neither pruned nor listed, and the last
comparison, which indexes the replica once more, says `assert!` of it
(`client/src/sync.rs:430`). The worker's loop goes on after a round that returns an error
(`background_sync.rs:236`), but a panic ends the worker, until the next `enable`.

## The proofs

All proofs are about `Spec`, the specification without fairness, for any
values of the constants that satisfy the modules' assumptions: any number of machines,
operations, uploads, commits, failures.

| module | theorem | for |
|---|---|---|
| `MirrorSync_proofs` | `TypeCorrect` | every regime |
| `MirrorSync_proofs` | `PublishedOpensHolds` | `Serial` |
| `MirrorSyncInv_proofs` | `InvHolds`, `MirrorClosedHolds`, `NoEditLostHolds`, `PublishedAvailableHolds`, `HistoryKeptHolds` | `OneWriter` |
| `MirrorSyncInv_proofs` | `SharedHistoryHolds` (refinement of `SharedHistory`) | `OneWriter`, `DropPhases \subseteq {"scan"}` |
| `MirrorSyncInv_proofs` | `ReplicaOpensHolds`, `RoundSettlesHolds` | `OneWriter`, `Serial` |
| `ApplyOrder_proofs` | `InvHolds`, `TypeCorrect`, `InOrderHolds`, `TargetCompleteHolds`, `FailsIfBrokenHolds`, `DoneIsWholeHolds` | every graph |
| `TusUpload_proofs` | `TypeCorrect` | every regime |
| `TusUpload_proofs` | `InvHolds`, `MirrorWholeHolds`, `DeliveredForGoodHolds`, `UploadIsAtomicHolds` (refinement of `MirrorFiles`) | `~Resends` |
| `BackgroundWorker_proofs` | `InvHolds`, `TypeCorrect`, `OneWorkerHolds`, `EnableRestartsHolds` | every regime |
| `DojoSetup_proofs` | `InvHolds`, `TypeCorrect`, `RepoKeptHolds`, `ConfigMeansPublishedHolds`, `RerunCompletesHolds` | every regime |
| `JoinDojo_proofs` | `InvHolds`, `TypeCorrect`, `WorkspacesUsableHolds`, `NamesApartHolds`, `IndexKeptHolds`, `JoinCompletesHolds` | every regime |
| `GitTransport_proofs` | `InvHolds`, `TypeCorrect`, `CommitsBeforeOpsHolds`, `ReplicaWholeHolds`, `AuthorKeepsHolds` | every regime |

**`OneWriter`** says that a replica has one process and that its user waits for the
round: the findings `edit_during_sync` and the hazard of a manual sync beside the
worker show that the theorems need it. It says nothing of other replicas: rounds of
different machines overlap as they like, and handlers fail at any step. Unless the table
says otherwise `DropPhases` is any set: handlers may be dropped at every step, and what
they left behind goes on beside those that follow.

**`Serial`** says that of the rounds and handlers of all machines together one is under
way at a time (`MaxOverlap <= 1`). It is a
statement about the moment at which rounds start, which nothing in the code enforces;
what it is needed for is told below, under what is not modelled.

*The argument of `MirrorSyncInv`.* No edit is lost because a round prunes only after
the mirror has everything the replica has. That is `RoundInv`: during the upload,
what the mirror still lacks of the replica is in the work list, and after it the
mirror `Holds` the replica. For it to stay so the mirror must only grow, up to
heads that are replaced by descendants (`HandlerInv`, `HistoryKept`), and for the
manifest to be worth pulling, it must say nothing the mirror did not hold
(`ManifestInv`). `UserInv` keeps a jj command and a round of one replica apart,
`DagInv` says that ancestry is transitive and goes back in time, and `KnownInv` that
all names are of operations that exist, without which a new operation could
be one the mirror already refers to. `ScanInv` is what the refinement of `SharedHistory`
adds: the heads a scan has listed are still in the mirror and lead to all that is
published, so that publishing takes nothing back. `StrayInv` says of a normalization
without its handler what `HandlerInv` says of one that has it, the markers it is about to
remove being ancestors of the one it adds first; it keeps `HistoryKept`, but not
`ScanInv`, and so the refinement is for handlers that are not dropped before their scan.

*The argument of serial rounds.* `OneAtATime`: a process that is not idle, a handler
that works for nobody and a normalization without its handler are alone. `PublishInv`:
from the swap on the mirror has one head, a scan lists what the mirror has, and nothing
changes it before it is published; so what is published is a whole repository although
users write while the scan runs. That needs no `OneWriter`, and `PublishedOpensHolds`
follows. `PullInv`: from the answer on the mirror has no other operations than the
manifest, and by `RoundInv` all of the replica's are among them; the pull brings
operations before children and heads, and what is left to prune are heads that the
published head leads to. So the replica has its head and what is behind it at every step
(`ReplicaOpensHolds`), and when nothing is left it is the manifest
(`RoundSettlesHolds`).

*The argument of `ApplyOrder`.* `SortInv` says what the indegrees mean: each counts the
parents not yet in order, and an operation is ready when it has none left and is not in
order itself; so what is taken has its parents before it, and what is left when nothing is
ready is a cycle or below one. `LayerInv`: the layers so far are complete and no later one
is begun. `PathsInv`: the files put in order have all the parents the source has, also when
the push orders a part of it. `CopyInv`: the target has what it had and all that comes
before `next`.

*The argument of `TusUpload`.* A handler that has passed the offset check owns the
data file: without resends no other request is on that upload, so the length it read
is the length it appends to, and what is finalized is whole. The invariant says of
each phase where the data file is and what the handler knows of it; the rename is
the step of the abstract specification, all the others stutter.

*The argument of `BackgroundWorker`.* The properties speak of commands that ran one after
the other (`clean`), and so does the invariant: one command at a time (`Alone`), what
each has made sure of by the time it is at a step (`CommandInv`), that the pid file names
the one worker or the command that started it will (`PidNamesWorker`), and that a worker
outlives the end of its configuration only while a command stops it (`Disabling`). A
worker may die anywhere; a command that overlaps another, is interrupted, or takes the
dojo off the machine while a worker runs puts an end to `clean`, and from then on only
`DisabledStops` is claimed.

*The argument of `DojoSetup`.* `RepoKept` is not inductive by itself: a rename keeps the
repository only if its source has it and its target has nothing. `Placed` says for each
phase that moves, removes or overwrites something where the repository then is, and
`HasDojo` that the phase knows its dojo. Both follow from the checks at the start of the
commands and survive a cut, because the next command makes the checks again. `Published`
says, for each phase of the command and of the progress file, what the server must have
by then; `ConfigMeansPublished` follows. `Sound` is what holds until a command is cut
short in a window: between two commands nothing has been moved, or the linked dojo, and
no other, has progress to resume from, or it is as promised; and during a command, what
its phase adds to that. So create never ends with an error, and what it says it has
created is complete.

*The argument of `JoinDojo`.* `IndexInv`: the lock leaves the index to one join or
round, and what this has read is what is there when it writes. `ReadyInv`: what
`config.json` and a working copy on a machine mean, and what a join may rely on at each
step because of them; without it a warm join could add its workspace to a replica no jj
command can open. `KnownInv`: what a join ought to know is in the replica it looks into,
by way of the manifest it pulled. `SmoothInv` is for `JoinCompletes`: no other join of
the machine comes in between, and a lock that is there is one a round works under, so
working copy and repository are as the join's own steps left them, and none of its
checks can fail.

*The argument of `GitTransport`.* `Anchored`: every commit and every operation of a
machine has a ref there, or is on the bare, or is one of the excepted; and from the
push until the fetch has pruned, and before a join is done, the machine's refs are on the
bare or `late`. `Carried`: what a round lists is on the bare, so that after the fetch a ref
names it. `Own`: a machine has a ref for all the bare has of it, without which a user
could write an operation for a commit whose ref is gone. `Kept`: the replica is whole
unless its store is being replaced. `Undamaged`: while nothing outside has damaged a
store, every store passes fsck, so that none is wiped; `AuthorKeepsHolds` follows.

**Model-checked only.** Of the properties of the runs that pass, `Converges`,
`DisabledStops`, `Heals`, `Arrives`, `JoinsEnd` and `Ends`: they are liveness, beyond the
prover. All the others are theorems.

## What is not modelled

- *Rounds:* the manifest of a dojo that has never published (a live scan); files
  other than operations and heads: an operation stands with its view, and the extra
  tables of jj's store are left out; jj's garbage collection, which keeps operations
  here; the limit of eight refetches, above which a round fails like any aborted one;
  the last comparison reads the replica in one step.
- *Two rounds on one replica* (`dojjo dev sync` beside the worker) can be expressed
  (`Home` need not be injective), but no run or theorem allows it: with two processes on
  one of two replicas TLC finds `MirrorClosed`, `NoEditLost` and `ReplicaHasHead`
  violated. The first by a head that the other round's `jj op log` has just merged, listed
  without its operation. Nothing in the code keeps the two apart but the advice in
  `scripts/e2e-lib.sh:86`.
- *Overlapping rounds and what is published:* `PublishedOpens` is checked for one round at
  a time. With `MaxOverlap` 3 TLC finds a scan that reads `op_store` before another
  machine's upload and `op_heads` after it, and publishes a head without its operation.
  What remains true however rounds overlap is `PublishedAvailable`: that operation is in
  the mirror, and the next scan finds it.
- *Handlers side by side and the published history:* that nothing published is taken
  back (`ImplementsSharedHistory`) is checked and proved where no handler is dropped
  before its scan. With `DropPhases` of all three phases and overlapping rounds TLC
  finds it violated: the normalization a dropped handler left behind adds its merge and
  removes the merged heads while the next handler scans, the scan lists neither, and
  what it publishes lacks operations that were published. A later scan, if undisturbed,
  finds them again. In the same bounds `MirrorClosed`, `NoEditLost`,
  `PublishedAvailable` and `HistoryKept` hold, as is proved.
- *sync-complete:* the lock jj takes on the op heads to resolve several of them is taken
  for granted; the model gives it to one normalization at a time.
- *Apply order:* which paths are mirrored at all, a check of each path by itself. Of a
  damaged operation the push notices at one of two points; the model has the first. A
  parent that an operation names twice.
- *Uploads:* HEAD (it only reads), deferred lengths and expiration, which no client
  uses; `remove_dir_all` is one step. `Resends` allows a second request for an upload that
  is under way, which no client sends: `MirrorWhole` does not survive it, because the lock
  that `dojo_tus_store.rs:75` speaks of is made per request.
- *Git:* branches and HEAD (`align_head`); packs as such; commits that reach others: each
  is a snapshot of its own. `git_transport_need` compares refs, but its result is only
  printed, although the comment at `client/src/git_sync.rs:224` says that a transport
  that is not needed is skipped: the model pushes and fetches in every round, as the
  code does. Two rounds on one machine.
- *Worker:* when a round is due (polling, file events); foreign processes that have
  taken over a pid (a hazard without a property); a signal ends its process at once.
- *create, undojjo:* creates that run at the same time, the colocation with Git, other
  workspaces of the same repository, the recovery that reconstructs a missing progress
  file, which no interrupted create leads to. That an id is taken is an error like any
  other. A request whose client has gone is dropped; were it to go on, a dojo no one knows
  would become more complete.
- *join:* the fetch of the dojo's metadata, the checks of paths and directories, what
  jj does inside `workspace add` but for the workspace and the index. That jj keeps the
  index under the same lock file is an assumption: `index.lock` is jj's name for it, which
  `dojjo-mirror/src/mirror_exclude.rs:25` knows. Of a round only what it does to index,
  lock, heads and mirror.
- *The registry's lookups, `PUT /dojo/{id}` and the reports:* reads, and a file nothing
  reads.

## The plan

Done, in this order, most important first: `MirrorSync` and its invariant, proved;
`TusUpload` as an implementation of `MirrorFiles`, proved; `BackgroundWorker`, then with
undojjo beside it, proved; `DojoSetup`, proved; `GitTransport`, safety proved;
`SharedHistory` and that `MirrorSync` implements it, proved; `JoinDojo` and
`ApplyOrder`, safety proved; the serial rounds of `MirrorSync`; normalizations that outlive
their handlers, and the rounds that use the workspace store beside joins, proved.

To come:

1. Proofs: that the order in `ApplyOrder` is the one `MirrorSync` assumes of its lists, so
   far two modules that only name the same thing.
2. How soon a manifest that lists a head without its operation, or that lacks what was
   published, is replaced by one that does not, when rounds overlap.
3. The workspace store of a machine whose lock was left behind: nothing in the code
   removes it, so there is no recovery to model until there is.
