----------------------------- MODULE GitTransport -----------------------------
(***************************************************************************)
(* The Git leg of a sync round (client/src/sync.rs, git_sync.rs) and the   *)
(* cold join (join.rs), seen together with the JJ mirror they accompany.   *)
(*                                                                         *)
(* A JJ edit writes a commit into the replica's Git store, with a ref      *)
(* refs/jj/keep/<commit> that keeps it, and then an operation into the     *)
(* operation store.  Git moves commits, the mirror moves operations, and   *)
(* nothing but the order of the two legs makes a machine that learns of an *)
(* operation also hold its commit: push Git, upload, publish; read the     *)
(* published manifest, fetch Git, pull.                                    *)
(*                                                                         *)
(* A commit and the operation that made it have the same name.  Commits    *)
(* stand for successive snapshots of working copies: none is an ancestor   *)
(* of another, so that only its own ref reaches it.  MirrorSync models the *)
(* files of the mirror and the order they are copied in; here they are a   *)
(* set of operations.                                                      *)
(***************************************************************************)
EXTENDS Naturals, FiniteSets

CONSTANTS Machines,   \* the machines of the users of the dojo
          Creator,    \* the one that created it, and so has a replica at once
          Commits,    \* the commits of the dojo and those they will ever write
          Created,    \* the commits it was created with
          MaxTears,   \* bound: Git stores damaged from outside
          MaxCuts     \* bound: rounds and joins that are cut short

ASSUME GitAssumption == /\ Creator \in Machines
                        /\ Created \subseteq Commits
                        /\ MaxTears \in Nat
                        /\ MaxCuts \in Nat

VARIABLES
  author,     \* author[c]: the machine that writes c, if it is ever written
  objects,    \* objects[m]: the commits in the Git store of m
  refs,       \* refs[m]: the commits its refs/jj/keep/* name
  ops,        \* ops[m]: the operations in its operation store
  joined,     \* joined[m]: config.json is there, create or join has finished
  round,      \* round[m]: where the round or join that m is running stands
  bare,       \* the commits of the bare repository, all under a ref
  mirror,     \* the operations uploaded to the server's mirror
  published,  \* those of the manifest of the last sync-complete
  tears, cuts,
  written,    \* the commits whose operation has been written, once each
  \* History, for the properties alone:
  late,       \* late[m]: commits of m that its round was too late to push
  overtaken,  \* those of them that came before the round listed the operations
  lost,       \* commits removed from a Git store before they reached the bare
  unkept,     \* late commits whose ref the round has taken away again
  emptied     \* emptied[m]: the store of m was wiped and not fetched since

machine == <<author, objects, refs, ops, joined>>
server  == <<bare, mirror, published>>
bounds  == <<tears, cuts, written>>
history == <<late, overtaken, lost, unkept, emptied>>
vars    == <<machine, round, server, bounds, history>>

Phases == {"idle", "push", "index", "upload", "complete", "manifest", "pull",
           "joinpull", "fetch", "refs", "refetch", "verify"}

\* What a call of git_fetch_dojjo is for, which says what follows it.
Callers == {"heal", "sync", "join"}

\* listed: the operations of the index to upload, or of the manifest to pull.
Rounds == [pc : Phases, caller : Callers, attempt : {0, 1}, listed : SUBSET Commits]

NoRound == [pc |-> "idle", caller |-> "sync", attempt |-> 0, listed |-> {}]

\* The dojo as `dojjo create` leaves it: all that the creator has is published.
Init ==
  /\ author \in {f \in [Commits -> Machines] : \A c \in Created : f[c] = Creator}
  /\ objects = [m \in Machines |-> IF m = Creator THEN Created ELSE {}]
  /\ refs = objects
  /\ ops = objects
  /\ joined = [m \in Machines |-> m = Creator]
  /\ round = [m \in Machines |-> NoRound]
  /\ bare = Created /\ mirror = Created /\ published = Created
  /\ tears = 0 /\ cuts = 0 /\ written = Created
  /\ late = [m \in Machines |-> {}]
  /\ overtaken = {} /\ lost = {} /\ unkept = {}
  /\ emptied = [m \in Machines |-> FALSE]

At(m, pc) == round[m].pc = pc

Goto(m, pc) == round' = [round EXCEPT ![m].pc = pc]

\* `git fsck`: every ref, the keep refs too, leads to objects that are there.
Sound(m) == refs[m] \subseteq objects[m]

-----------------------------------------------------------------------------
(* The users, and damage from outside.                                     *)

\* From the git push until the git fetch has pruned, a new keep ref is one the
\* round does not push and then removes; so it is while a fetch is running.
TakesRefs(m) == ~ \E pc \in {"idle", "push", "verify", "pull"} : At(m, pc)

\* JJ writes the commit and its keep ref, at any moment of a round.
WriteCommit(m, c) ==
  /\ joined[m]
  /\ author[c] = m
  /\ c \notin objects[m] \cup bare \cup lost
  /\ objects' = [objects EXCEPT ![m] = @ \cup {c}]
  /\ refs' = [refs EXCEPT ![m] = @ \cup {c}]
  /\ late' = [late EXCEPT ![m] = IF TakesRefs(m) THEN @ \cup {c} ELSE @]
  /\ overtaken' = IF At(m, "index") THEN overtaken \cup {c} ELSE overtaken
  /\ UNCHANGED <<author, ops, joined, round, server, bounds, lost, unkept, emptied>>

\* Then it writes the operation, whatever became of the commit.
WriteOp(m, c) ==
  /\ joined[m]
  /\ author[c] = m
  /\ c \in (objects[m] \cup bare \cup lost) \ written
  /\ ops' = [ops EXCEPT ![m] = @ \cup {c}]
  /\ written' = written \cup {c}
  /\ UNCHANGED <<author, objects, refs, joined, round, server, tears, cuts,
                 history>>

\* A torn pack: some of what the refs name is gone.
Tear(m) ==
  /\ tears < MaxTears
  /\ \E torn \in SUBSET objects[m] :
       /\ torn \cap refs[m] # {}
       /\ objects' = [objects EXCEPT ![m] = @ \ torn]
       /\ lost' = lost \cup (torn \ bare)
  /\ tears' = tears + 1
  /\ UNCHANGED <<author, refs, ops, joined, round, server, cuts, written, late,
                 overtaken, unkept, emptied>>

\* Ctrl-C, a crash, a failing command or request: nothing is undone.
CutShort(m) ==
  /\ ~At(m, "idle")
  /\ cuts < MaxCuts
  /\ round' = [round EXCEPT ![m] = NoRound]
  /\ cuts' = cuts + 1
  /\ UNCHANGED <<machine, server, tears, written, history>>

-----------------------------------------------------------------------------
(* git_fetch_dojjo.                                                        *)

Fetches(m, caller, listed) ==
  [pc |-> "fetch", caller |-> caller, attempt |-> 0, listed |-> listed]

\* Mutant of Broken: a broken store is fetched into as it is.
BrokenNever(m) == FALSE

\* Mutant of Broken: the first attempt is taken for a second one.
BrokenAlways(m) == ~Sound(m) \/ round[m].attempt >= 0

\* An attempt wipes the store if fsck finds it broken, and the second in any case.
Broken(m) == ~Sound(m) \/ round[m].attempt > 0

\* The late commits whose refs are gone once the refs are those of the bare.
Dropped(m) == late[m] \cap (refs[m] \ bare)

\* `git fetch --prune` of refs/jj/*: the refs become those of the bare.  Without
\* --refetch, Git asks for nothing its own refs say it has.
Fetch(m) ==
  /\ \/ /\ At(m, "fetch")
        /\ ~Broken(m)
        /\ objects' = [objects EXCEPT ![m] = @ \cup (bare \ refs[m])]
     \/ /\ At(m, "refetch")
        /\ objects' = [objects EXCEPT ![m] = @ \cup bare]
  /\ refs' = [refs EXCEPT ![m] = bare]
  /\ unkept' = unkept \cup Dropped(m)
  /\ emptied' = [emptied EXCEPT ![m] = FALSE]
  /\ Goto(m, "verify")
  /\ UNCHANGED <<author, ops, joined, server, bounds, late, overtaken, lost>>

\* The next git command makes the directories of a store anew, and fsck has
\* nothing against a store without objects and refs.
EmptyStore == {}

WipeObjects(m) ==
  /\ At(m, "fetch")
  /\ Broken(m)
  /\ objects' = [objects EXCEPT ![m] = EmptyStore]
  /\ lost' = lost \cup (objects[m] \ bare)
  /\ emptied' = [emptied EXCEPT ![m] = TRUE]
  /\ Goto(m, "refs")
  /\ UNCHANGED <<author, refs, ops, joined, server, bounds, late, overtaken, unkept>>

\* refs/ goes, then packed-refs: what a cut between the two leaves is a ref
\* without its object, as before them.
WipeRefs(m) ==
  /\ At(m, "refs")
  /\ refs' = [refs EXCEPT ![m] = EmptyStore]
  /\ unkept' = unkept \cup Dropped(m)
  /\ Goto(m, "refetch")
  /\ UNCHANGED <<author, objects, ops, joined, server, bounds, late, overtaken,
                 lost, emptied>>

\* What a caller does once git_fetch_dojjo has returned.  The round that healed
\* the store begins,
HealedStore(m) == [NoRound EXCEPT !.pc = "push"]

\* Mutant of FetchedForPull: the manifest is read again after the fetch.
FetchedThenRead(m) == [NoRound EXCEPT !.pc = "pull", !.listed = published]

\* the round that has pushed pulls by the manifest it read before the fetch,
FetchedForPull(m) == [NoRound EXCEPT !.pc = "pull", !.listed = round[m].listed]

\* and the join is done, but for config.json.
FetchedForJoin(m) == NoRound

AfterFetch(m) ==
  CASE round[m].caller = "heal" -> HealedStore(m)
    [] round[m].caller = "sync" -> FetchedForPull(m)
    [] round[m].caller = "join" -> FetchedForJoin(m)

\* A join saves config.json after its fetch, as the last thing it needs.
ConfigSaved(m) == joined[m] \/ round[m].caller = "join"

\* Mutant of Verify: one try more than there are.
VerifyThrice(m) ==
  /\ At(m, "verify")
  /\ \/ /\ Sound(m)
        /\ round' = [round EXCEPT ![m] = AfterFetch(m)]
        /\ joined' = [joined EXCEPT ![m] = ConfigSaved(m)]
     \/ /\ ~Sound(m)
        /\ round' = [round EXCEPT ![m].pc = "fetch", ![m].attempt = @ + 1]
        /\ UNCHANGED joined
  /\ UNCHANGED <<author, objects, refs, ops, server, bounds, history>>

\* A broken store after the first try means a second; after that, an error.
Verify(m) ==
  /\ At(m, "verify")
  /\ \/ /\ Sound(m)
        /\ round' = [round EXCEPT ![m] = AfterFetch(m)]
        /\ joined' = [joined EXCEPT ![m] = ConfigSaved(m)]
     \/ /\ ~Sound(m) /\ round[m].attempt = 0
        /\ round' = [round EXCEPT ![m].pc = "fetch", ![m].attempt = 1]
        /\ UNCHANGED joined
     \/ /\ ~Sound(m) /\ round[m].attempt = 1
        /\ round' = [round EXCEPT ![m] = NoRound]
        /\ UNCHANGED joined
  /\ UNCHANGED <<author, objects, refs, ops, server, bounds, history>>

-----------------------------------------------------------------------------
(* A round.                                                                *)

\* Mutant of Start: no round when the refs are those of the bare already.
StartIfBehind(m) ==
  /\ At(m, "idle")
  /\ joined[m]
  /\ refs[m] # bare \/ ~Sound(m)
  /\ round' = [round EXCEPT ![m] =
                 IF Sound(m) THEN [@ EXCEPT !.pc = "push"]
                             ELSE Fetches(m, "heal", {})]
  /\ late' = [late EXCEPT ![m] = {}]
  /\ UNCHANGED <<machine, server, bounds, overtaken, lost, unkept, emptied>>

\* A broken store is healed before `jj op log` reads it.
Start(m) ==
  /\ At(m, "idle")
  /\ joined[m]
  /\ round' = [round EXCEPT ![m] =
                 IF Sound(m) THEN [@ EXCEPT !.pc = "push"]
                             ELSE Fetches(m, "heal", {})]
  /\ late' = [late EXCEPT ![m] = {}]
  /\ UNCHANGED <<machine, server, bounds, overtaken, lost, unkept, emptied>>

\* Mutant of GitPush: refs/heads/* alone.
GitPushHeads(m) ==
  /\ At(m, "push")
  /\ Goto(m, "index")
  /\ UNCHANGED <<machine, server, bounds, history>>

\* What the server's receive-pack makes of the bare: no ref is deleted.
Received(pushed) == bare \cup pushed

\* The push takes all refs, and needs the objects of those the bare lacks.
GitPush(m) ==
  /\ At(m, "push")
  /\ \/ /\ refs[m] \ bare \subseteq objects[m]
        /\ bare' = Received(refs[m])
        /\ Goto(m, "index")
     \/ /\ ~ (refs[m] \ bare \subseteq objects[m])
        /\ round' = [round EXCEPT ![m] = NoRound]
        /\ UNCHANGED bare
  /\ UNCHANGED <<machine, mirror, published, bounds, history>>

\* The files to upload are listed after the push.  Those the manifest has are
\* not sent, which changes nothing: what was published is in the mirror.
Index(m) ==
  /\ At(m, "index")
  /\ round' = [round EXCEPT ![m].pc = "upload", ![m].listed = ops[m]]
  /\ UNCHANGED <<machine, server, bounds, history>>

\* The uploads, one after the other: a cut leaves some of them.
Upload(m) ==
  /\ At(m, "upload")
  /\ \/ \E op \in round[m].listed \ mirror :
          /\ mirror' = mirror \cup {op}
          /\ UNCHANGED round
     \/ /\ round[m].listed \subseteq mirror
        /\ round' = [round EXCEPT ![m] = [NoRound EXCEPT !.pc = "complete"]]
        /\ UNCHANGED mirror
  /\ UNCHANGED <<machine, bare, published, bounds, history>>

\* sync-complete publishes whatever the mirror holds.
Publish(m) ==
  /\ At(m, "complete")
  /\ published' = mirror
  /\ Goto(m, "manifest")
  /\ UNCHANGED <<machine, bare, mirror, bounds, history>>

\* The published manifest is read before the git fetch.
ReadPublished(m) ==
  /\ At(m, "manifest")
  /\ round' = [round EXCEPT ![m] = Fetches(m, "sync", published)]
  /\ UNCHANGED <<machine, server, bounds, history>>

\* What the manifest lists is written, and then what it does not list removed.
Pull(m) ==
  /\ At(m, "pull")
  /\ \/ \E op \in round[m].listed \ ops[m] :
          /\ ops' = [ops EXCEPT ![m] = @ \cup {op}]
          /\ UNCHANGED round
     \/ /\ round[m].listed \subseteq ops[m]
        /\ ops' = [ops EXCEPT ![m] = round[m].listed]
        /\ round' = [round EXCEPT ![m] = NoRound]
  /\ UNCHANGED <<author, objects, refs, joined, server, bounds, history>>

-----------------------------------------------------------------------------
(* The cold join: first the mirror, then Git, and config.json at the end.  *)

JoinStart(m) ==
  /\ At(m, "idle")
  /\ ~joined[m]
  /\ round' = [round EXCEPT ![m].pc = "joinpull", ![m].listed = published]
  /\ UNCHANGED <<machine, server, bounds, history>>

JoinPull(m) ==
  /\ At(m, "joinpull")
  /\ \/ \E op \in round[m].listed \ ops[m] :
          /\ ops' = [ops EXCEPT ![m] = @ \cup {op}]
          /\ UNCHANGED round
     \/ /\ round[m].listed \subseteq ops[m]
        /\ round' = [round EXCEPT ![m] = Fetches(m, "join", {})]
        /\ UNCHANGED ops
  /\ UNCHANGED <<author, objects, refs, joined, server, bounds, history>>

-----------------------------------------------------------------------------

RoundStep(m) ==
  \/ WipeObjects(m) \/ WipeRefs(m) \/ Fetch(m) \/ Verify(m)
  \/ GitPush(m) \/ Index(m) \/ Upload(m) \/ Publish(m)
  \/ ReadPublished(m) \/ Pull(m) \/ JoinPull(m)

UserStep(m) == \E c \in Commits : WriteCommit(m, c) \/ WriteOp(m, c)

Next ==
  \E m \in Machines :
    \/ UserStep(m) \/ Tear(m) \/ CutShort(m)
    \/ Start(m) \/ JoinStart(m) \/ RoundStep(m)

Spec == Init /\ [][Next]_vars

\* The worker starts a round every interval, and a started round or join goes
\* on unless it is cut short.  Nobody has to edit, to join, or to damage.
Fairness == \A m \in Machines : WF_vars(Start(m)) /\ WF_vars(RoundStep(m))

FairSpec == Spec /\ Fairness

-----------------------------------------------------------------------------

TypeOK ==
  /\ author \in [Commits -> Machines]
  /\ objects \in [Machines -> SUBSET Commits]
  /\ refs \in [Machines -> SUBSET Commits]
  /\ ops \in [Machines -> SUBSET Commits]
  /\ joined \in [Machines -> BOOLEAN]
  /\ round \in [Machines -> Rounds]
  /\ bare \in SUBSET Commits /\ mirror \in SUBSET Commits
  /\ published \in SUBSET Commits
  /\ tears \in 0..MaxTears /\ cuts \in 0..MaxCuts
  /\ written \in SUBSET Commits
  /\ late \in [Machines -> SUBSET Commits]
  /\ overtaken \in SUBSET Commits
  /\ lost \in SUBSET Commits /\ unkept \in SUBSET Commits
  /\ emptied \in [Machines -> BOOLEAN]

\* What the order of the legs cannot save: see lost and unkept.
Unsaved == lost \cup unkept

\* Git goes first on the way up: the mirror has no operation whose commit the
\* bare lacks, but for commits that came between the push and the list of the
\* files to upload, that were gone, or whose ref a round has taken away.
CommitsBeforeOps == mirror \subseteq bare \cup overtaken \cup Unsaved

\* Git goes first on the way down, and the join is not done before both legs
\* are: where fsck finds nothing wrong, every operation has its commit, and a
\* ref that keeps it, so that the next push carries it and no collection of the
\* Git store removes it.
ReplicaWhole ==
  \A m \in Machines :
    joined[m] /\ Sound(m) /\ ~emptied[m] =>
      ops[m] \subseteq (objects[m] \cap refs[m]) \cup overtaken \cup Unsaved

\* No fetch, prune, heal, join or cut takes a commit out of the store of the
\* machine that wrote it, as long as nothing outside has damaged a store: fsck
\* then never fails, so that nothing is ever wiped.
AuthorKeeps == tears = 0 => \A c \in written : c \in objects[author[c]]

\* Damage does not stay: once it, the edits and the interruptions have come to
\* an end, every store passes fsck and holds all that the bare has.
Heals == <>[] \A m \in Machines : joined[m] => Sound(m) /\ bare \subseteq objects[m]

\* And what one machine did is on every other, each operation with its commit,
\* also where the operation had overtaken it and the round was cut short then.
Arrives ==
  <>[] \A m, n \in Machines :
         joined[m] /\ joined[n] =>
           ops[m] \subseteq (ops[n] \cap objects[n]) \cup Unsaved

=============================================================================
