------------------------------ MODULE MirrorSync ------------------------------
(***************************************************************************)
(* The composite sync protocol of dojjo, without its Git half: machines     *)
(* exchange the files of `.jj/repo` through the mirror a server keeps for   *)
(* one dojo.  A process (background worker or `dojjo dev sync`) runs        *)
(* rounds (client/src/sync.rs): list the local files, upload what the       *)
(* manifest lacks, ask the server to normalize the mirror and publish a     *)
(* manifest, download what the local repo lacks, prune what the manifest    *)
(* lacks.  The server serializes the normalize-and-publish handler of a     *)
(* dojo with a lock that uploads do not take.  The user's own `jj` commands *)
(* write to the local repo under no lock the round knows of.                *)
(*                                                                          *)
(* A repo is the set of operation files it holds (`op_store/operations`,    *)
(* each standing with the view it names) and the set of head markers        *)
(* (`op_heads/heads`).  Both kinds of file are named by the operation's     *)
(* content hash, so a file never changes and equal names mean equal bytes.  *)
(***************************************************************************)
EXTENDS Naturals, FiniteSets

CONSTANTS
    Repos,            \* the machines' local replicas of the dojo
    Procs,            \* the processes that run sync rounds
    Home,             \* the replica each process works on
    Server,           \* the author of the merges the server makes
    None,             \* no value
    MaxOps,           \* bound: operations are 0 .. MaxOps
    MaxEdits,         \* bound: users write operations 1 .. MaxEdits only
    MaxOverlap,       \* bound: rounds and handlers under way together
    MaxFailures,      \* bound: crashes, aborts and restarts
    EditWhileSyncing, \* whether users run `jj` while a round is under way
    DropPhases        \* where the server drops a handler whose client has gone

ASSUME HomeAssumption == Home \in [Procs -> Repos]
ASSUME ProcsAssumption == IsFiniteSet(Procs)
ASSUME BoundsAssumption ==
    /\ MaxOps \in Nat
    /\ MaxEdits \in 0 .. MaxOps
    /\ MaxOverlap \in Nat
    /\ MaxFailures \in Nat
    /\ EditWhileSyncing \in BOOLEAN
    /\ DropPhases \subseteq {"normalize", "swap", "scan"}
ASSUME NamesAssumption == Server \notin Repos /\ None \notin Procs

VARIABLES
    nextOp,     \* operations 0 .. nextOp-1 have been created
    ancestors,  \* the transitive parents each operation was created with
    author,     \* who created it: a replica's user or the server
    repo,       \* the files of each local replica
    user,       \* the user's `jj` command under way on each replica
    saved,      \* the manifest last recorded in state.json
    mirror,     \* the files of the server's mirror
    pub,        \* the manifest the server has published
    srv,        \* the sync-complete handler that holds the dojo's lock
    stray,      \* the normalizations that go on without their handler
    pc,         \* where each process is in its round
    man,        \* the manifest each round works from
    files,      \* the listing, then the work list, of each round
    dirs,       \* the directories the listing has still to read
    failures    \* crashes, aborts and restarts so far

dagVars  == <<nextOp, ancestors, author>>
roundVars == <<pc, man, files, dirs>>
vars == <<dagVars, repo, user, saved, mirror, pub, srv, roundVars, stray, failures>>

Ops == 0 .. MaxOps
Tree == [ops : SUBSET Ops, heads : SUBSET Ops]
NoFiles == [ops |-> {}, heads |-> {}]
Dirs == {"ops", "heads"}
ListPhases == {"index_push", "index_pull", "index_prune"}
Phases == {"idle", "push", "notify", "wait", "refetch", "pull", "prune"}
              \cup ListPhases
FreeSrv == [phase |-> "free", caller |-> None, new |-> 0, old |-> {},
            ops |-> {}, heads |-> {}, dirs |-> {}]
NoStray == [waiting |-> 0, swapping |-> FALSE, new |-> 0, old |-> {}]

(***************************************************************************)
(* What jj and the mirror libraries compute from a set of files.            *)
(***************************************************************************)

\* Every operation file is there with the files of all its ancestors.
Closed(ops) == \A o \in ops : ancestors[o] \subseteq ops

\* jj can open the repo: there is a head, each head's operation can be read,
\* and to reconcile several heads jj walks all their ancestors.
Loadable(t) ==
    /\ t.heads # {}
    /\ t.heads \subseteq t.ops
    /\ Cardinality(t.heads) > 1 => \A h \in t.heads : ancestors[h] \subseteq t.ops

\* The heads that are not ancestors of other heads.
Tips(heads) == {h \in heads : \A g \in heads : h \notin ancestors[g]}

\* The operations a set of heads leads to.
Reach(heads) == heads \cup UNION {ancestors[h] : h \in heads}

\* What listing a directory and reading its files can return: it held base when
\* that began and holds now at its end.  A file that was there all along is
\* listed, one that came or went meanwhile may be.
Listings(base, now) ==
    {(base \cap now) \cup s : s \in SUBSET ((base \cup now) \ (base \cap now))}

\* jj writes operation nextOp on top of parents.
NewOp(parents, who) ==
    /\ nextOp <= MaxOps
    /\ nextOp' = nextOp + 1
    /\ ancestors' = [ancestors EXCEPT ![nextOp] = Reach(parents)]
    /\ author' = [author EXCEPT ![nextOp] = who]

(***************************************************************************)
(* A dojo just created and joined everywhere, after a first quiet round.    *)
(***************************************************************************)
FirstTree == [ops |-> {0}, heads |-> {0}]

Init ==
    /\ nextOp = 1
    /\ ancestors = [o \in Ops |-> {}]
    /\ author = [o \in Ops |-> Server]
    /\ repo = [r \in Repos |-> FirstTree]
    /\ user = [r \in Repos |-> [op |-> 0, old |-> {}]]
    /\ saved = [r \in Repos |-> FirstTree]
    /\ mirror = FirstTree
    /\ pub = FirstTree
    /\ srv = FreeSrv
    /\ stray = NoStray
    /\ pc = [p \in Procs |-> "idle"]
    /\ man = [p \in Procs |-> NoFiles]
    /\ files = [p \in Procs |-> NoFiles]
    /\ dirs = [p \in Procs |-> {}]
    /\ failures = 0

(***************************************************************************)
(* The user: a `jj` command loads the repo, writes its operation, then      *)
(* publishes it as the head in place of the heads it loaded.                *)
(***************************************************************************)
Syncing(r) == \E p \in Procs : Home[p] = r /\ pc[p] # "idle"
Editing(r) == user[r].op # 0

UserWritesOp(r) ==
    /\ ~Editing(r)
    /\ EditWhileSyncing \/ ~Syncing(r)
    /\ Loadable(repo[r])
    /\ nextOp <= MaxEdits
    /\ NewOp(repo[r].heads, r)
    /\ repo' = [repo EXCEPT ![r].ops = @ \cup {nextOp}]
    /\ user' = [user EXCEPT ![r] = [op |-> nextOp, old |-> repo[r].heads]]
    /\ UNCHANGED <<saved, mirror, pub, srv, roundVars, stray, failures>>

UserPublishesHead(r) ==
    /\ Editing(r)
    /\ repo' = [repo EXCEPT ![r].heads = (@ \ user[r].old) \cup {user[r].op}]
    /\ user' = [user EXCEPT ![r] = [op |-> 0, old |-> {}]]
    /\ UNCHANGED <<dagVars, saved, mirror, pub, srv, roundVars, stray, failures>>

(***************************************************************************)
(* A round, from the worker's tick to state.json.                           *)
(***************************************************************************)
GoTo(p, phase) == pc' = [pc EXCEPT ![p] = phase]
WorkOn(p, t) == files' = [files EXCEPT ![p] = t]
StartListing(p, phase, t) ==
    /\ GoTo(p, phase)
    /\ WorkOn(p, t)
    /\ dirs' = [dirs EXCEPT ![p] = Dirs]

\* A round ends, well or badly: nothing of it outlives it.
EndRound(p) ==
    /\ GoTo(p, "idle")
    /\ man' = [man EXCEPT ![p] = NoFiles]
    /\ WorkOn(p, NoFiles)
    /\ dirs' = [dirs EXCEPT ![p] = {}]

UnderWay == Cardinality({p \in Procs : pc[p] # "idle"})
                + (IF srv.phase = "free" THEN 0 ELSE 1)
                + stray.waiting + (IF stray.swapping THEN 1 ELSE 0)

\* `jj op log` opens the repo, and so reconciles its heads; then the
\* published manifest is fetched.  A repo jj cannot open ends the round here.
StartRound(p) ==
    LET r == Home[p]
        tips == Tips(repo[r].heads)
    IN  /\ pc[p] = "idle"
        /\ UnderWay < MaxOverlap
        /\ EditWhileSyncing \/ ~Editing(r)
        /\ Loadable(repo[r])
        /\ \/ /\ Cardinality(tips) = 1
              /\ repo' = [repo EXCEPT ![r].heads = tips]
              /\ UNCHANGED dagVars
           \/ /\ Cardinality(tips) > 1
              /\ NewOp(tips, r)
              /\ repo' = [repo EXCEPT ![r] = [ops |-> @.ops \cup {nextOp},
                                              heads |-> {nextOp}]]
        /\ man' = [man EXCEPT ![p] = pub]
        /\ StartListing(p, "index_push", repo'[r])
        /\ UNCHANGED <<user, saved, mirror, pub, srv, stray, failures>>

\* The walk of the local repo reads the two directories in either order.  A
\* file that was listed and went before it is read fails the round.
ListDir(p, d) ==
    LET base == files[p][d]
        now  == repo[Home[p]][d]
    IN  /\ pc[p] \in ListPhases
        /\ d \in dirs[p]
        /\ \/ /\ \E names \in Listings(base, now) :
                     files' = [files EXCEPT ![p][d] = names]
              /\ dirs' = [dirs EXCEPT ![p] = @ \ {d}]
              /\ UNCHANGED <<pc, man>>
           \/ /\ ~(base \subseteq now)
              /\ EndRound(p)
        /\ UNCHANGED <<dagVars, repo, user, saved, mirror, pub, srv, stray, failures>>

Listed(p, phase) == pc[p] = phase /\ dirs[p] = {}

Minus(s, t) == [ops |-> s.ops \ t.ops, heads |-> s.heads \ t.heads]

\* The upload order needs the ancestors of every operation to upload on disk;
\* those the manifest already has are looked at but not uploaded.
PlanPush(p) ==
    LET need == Minus(files[p], man[p])
        onDisk == repo[Home[p]].ops
        orderable == \A o \in need.ops : {o} \cup ancestors[o] \subseteq onDisk
    IN  /\ Listed(p, "index_push")
        /\ IF orderable
           THEN GoTo(p, "push") /\ WorkOn(p, need) /\ UNCHANGED <<man, dirs>>
           ELSE EndRound(p)
        /\ UNCHANGED <<dagVars, repo, user, saved, mirror, pub, srv, stray, failures>>

\* Mutant of Ready: files go in whatever order the work list gives.
ReadyAnyOrder(p, d, o) == o \in files[p][d]

\* Parents before children, heads after all operations.
Ready(p, d, o) ==
    /\ o \in files[p][d]
    /\ IF d = "ops" THEN ancestors[o] \cap files[p].ops = {} ELSE files[p].ops = {}

Done(p, d, o) == files' = [files EXCEPT ![p][d] = @ \ {o}]

\* Upload one file; it must still be there to be read.
Upload(p, d, o) ==
    /\ pc[p] = "push"
    /\ Ready(p, d, o)
    /\ IF o \in repo[Home[p]][d]
       THEN /\ mirror' = [mirror EXCEPT ![d] = @ \cup {o}]
            /\ Done(p, d, o)
            /\ UNCHANGED <<pc, man, dirs>>
       ELSE EndRound(p) /\ UNCHANGED mirror
    /\ UNCHANGED <<dagVars, repo, user, saved, pub, srv, stray, failures>>

FinishPush(p) ==
    /\ pc[p] = "push"
    /\ files[p] = NoFiles
    /\ GoTo(p, "notify")
    /\ UNCHANGED <<dagVars, repo, user, saved, mirror, pub, srv, man, files, dirs, stray, failures>>

\* The request gets the dojo's lock.
NotifyComplete(p) ==
    /\ pc[p] = "notify"
    /\ srv.phase = "free"
    /\ srv' = [FreeSrv EXCEPT !.phase = "normalize", !.caller = p]
    /\ GoTo(p, "wait")
    /\ UNCHANGED <<dagVars, repo, user, saved, mirror, pub, man, files, dirs, stray, failures>>

\* Mutant of FetchPublished: the round goes on with the manifest it began with.
FetchNothing(p) ==
    /\ pc[p] = "refetch"
    /\ StartListing(p, "index_pull", repo[Home[p]])
    /\ UNCHANGED <<dagVars, repo, user, saved, mirror, pub, srv, man, stray, failures>>

FetchPublished(p) ==
    /\ pc[p] = "refetch"
    /\ man' = [man EXCEPT ![p] = pub]
    /\ StartListing(p, "index_pull", repo[Home[p]])
    /\ UNCHANGED <<dagVars, repo, user, saved, mirror, pub, srv, stray, failures>>

PlanPull(p) ==
    /\ Listed(p, "index_pull")
    /\ GoTo(p, "pull")
    /\ WorkOn(p, Minus(man[p], files[p]))
    /\ UNCHANGED <<dagVars, repo, user, saved, mirror, pub, srv, man, dirs, stray, failures>>

\* Download one file that the manifest the round holds still lists.
Download(p, d, o) ==
    /\ pc[p] = "pull"
    /\ Ready(p, d, o)
    /\ o \in man[p][d]
    /\ o \in mirror[d]
    /\ repo' = [repo EXCEPT ![Home[p]][d] = @ \cup {o}]
    /\ Done(p, d, o)
    /\ UNCHANGED <<dagVars, user, saved, mirror, pub, srv, pc, man, dirs, stray, failures>>

\* A 404 makes the round fetch the manifest again and go on with that one;
\* the list of what to pull stays as the first manifest gave it.  After the
\* last refetch the code allows itself the round fails.
Refetch404(p, d, o) ==
    /\ pc[p] = "pull"
    /\ Ready(p, d, o)
    /\ o \in man[p][d]
    /\ o \notin mirror[d]
    /\ \/ man' = [man EXCEPT ![p] = pub] /\ UNCHANGED <<pc, files, dirs>>
       \/ man[p] = pub /\ EndRound(p)
    /\ UNCHANGED <<dagVars, repo, user, saved, mirror, pub, srv, stray, failures>>

\* A file the new manifest does not list is skipped.
SkipUnlisted(p, d, o) ==
    /\ pc[p] = "pull"
    /\ Ready(p, d, o)
    /\ o \notin man[p][d]
    /\ Done(p, d, o)
    /\ UNCHANGED <<dagVars, repo, user, saved, mirror, pub, srv, pc, man, dirs, stray, failures>>

FinishPull(p) ==
    /\ pc[p] = "pull"
    /\ files[p] = NoFiles
    /\ StartListing(p, "index_prune", repo[Home[p]])
    /\ UNCHANGED <<dagVars, repo, user, saved, mirror, pub, srv, man, stray, failures>>

PlanPrune(p) ==
    /\ Listed(p, "index_prune")
    /\ GoTo(p, "prune")
    /\ WorkOn(p, Minus(files[p], man[p]))
    /\ UNCHANGED <<dagVars, repo, user, saved, mirror, pub, srv, man, dirs, stray, failures>>

\* Files go in no particular order; one already gone fails the assertion.
Prune(p, d, o) ==
    /\ pc[p] = "prune"
    /\ o \in files[p][d]
    /\ IF o \in repo[Home[p]][d]
       THEN /\ repo' = [repo EXCEPT ![Home[p]][d] = @ \ {o}]
            /\ Done(p, d, o)
            /\ UNCHANGED <<pc, man, dirs>>
       ELSE EndRound(p) /\ UNCHANGED repo
    /\ UNCHANGED <<dagVars, user, saved, mirror, pub, srv, stray, failures>>

\* The local files must now be those of the manifest; then state.json
\* records its revision.
VerifyAndSave(p) ==
    LET r == Home[p]
    IN  /\ pc[p] = "prune"
        /\ files[p] = NoFiles
        /\ saved' = IF repo[r] = man[p] THEN [saved EXCEPT ![r] = man[p]] ELSE saved
        /\ EndRound(p)
        /\ UNCHANGED <<dagVars, repo, user, mirror, pub, srv, stray, failures>>

(***************************************************************************)
(* The server's sync-complete handler, under the dojo's lock.               *)
(***************************************************************************)
StartScan(t) == [srv EXCEPT !.phase = "scan", !.dirs = Dirs, !.new = 0, !.old = {},
                            !.ops = t.ops, !.heads = t.heads]

\* Mutant of Reply: an answer nobody is left to read does not free the lock.
ReplyKeepsLock(ok) ==
    IF srv.caller = None
    THEN srv' = [srv EXCEPT !.phase = "replied"] /\ UNCHANGED roundVars
    ELSE /\ srv' = FreeSrv
         /\ IF ok
            THEN GoTo(srv.caller, "refetch") /\ UNCHANGED <<man, files, dirs>>
            ELSE EndRound(srv.caller)

\* The handler answers: its caller, if still there, goes on or gives up.
Reply(ok) ==
    /\ srv' = FreeSrv
    /\ IF srv.caller = None
       THEN UNCHANGED roundVars
       ELSE IF ok
            THEN GoTo(srv.caller, "refetch") /\ UNCHANGED <<man, files, dirs>>
            ELSE EndRound(srv.caller)

\* jj opens the mirror and finds several heads: it keeps the one that is no
\* other's ancestor, or writes a merge of those there are.  A lock of its own
\* leaves that, and the swap that follows, to one normalization at a time.
Resolves(head) ==
    LET tips == Tips(mirror.heads)
    IN  /\ Loadable(mirror)
        /\ Cardinality(mirror.heads) > 1
        /\ srv.phase # "swap" /\ ~stray.swapping
        /\ \/ /\ Cardinality(tips) = 1
              /\ head = CHOOSE h \in tips : TRUE
              /\ UNCHANGED <<dagVars, mirror>>
           \/ /\ Cardinality(tips) > 1
              /\ head = nextOp
              /\ NewOp(tips, Server)
              /\ mirror' = [mirror EXCEPT !.ops = @ \cup {nextOp}]

Normalize ==
    /\ srv.phase = "normalize"
    /\ \/ /\ ~Loadable(mirror)
          /\ Reply(FALSE)
          /\ UNCHANGED <<dagVars, mirror>>
       \/ /\ Loadable(mirror)
          /\ Cardinality(mirror.heads) = 1
          /\ srv' = StartScan(mirror)
          /\ UNCHANGED <<dagVars, mirror, roundVars>>
       \/ \E head \in Ops :
              /\ Resolves(head)
              /\ srv' = [srv EXCEPT !.phase = "swap", !.new = head,
                                    !.old = mirror.heads \ {head}]
              /\ UNCHANGED roundVars
    /\ UNCHANGED <<repo, user, saved, pub, stray, failures>>

\* Mutant of SwapHeads: the new head replaces whatever heads there are by now.
SwapAllHeads ==
    /\ srv.phase = "swap"
    /\ mirror' = [mirror EXCEPT !.heads = {srv.new}]
    /\ srv' = StartScan(mirror')
    /\ UNCHANGED <<dagVars, repo, user, saved, pub, roundVars, stray, failures>>

\* The head markers read before are replaced; one uploaded since stays.
SwapHeads ==
    /\ srv.phase = "swap"
    /\ mirror' = [mirror EXCEPT !.heads = (@ \cup {srv.new}) \ srv.old]
    /\ srv' = StartScan(mirror')
    /\ UNCHANGED <<dagVars, repo, user, saved, pub, roundVars, stray, failures>>

\* The scan for the manifest reads the two directories in either order, while
\* uploads go on.  A head that goes before it is read fails the handler.
ScanDir(d) ==
    /\ srv.phase = "scan"
    /\ d \in srv.dirs
    /\ \/ /\ \E names \in Listings(srv[d], mirror[d]) :
                 srv' = [srv EXCEPT ![d] = names, !.dirs = @ \ {d}]
          /\ UNCHANGED roundVars
       \/ /\ ~(srv[d] \subseteq mirror[d])
          /\ Reply(FALSE)
    /\ UNCHANGED <<dagVars, repo, user, saved, mirror, pub, stray, failures>>

\* Mutant of Publish: the scan is published without ordering it.
PublishUnordered ==
    /\ srv.phase = "scan"
    /\ srv.dirs = {}
    /\ pub' = [ops |-> srv.ops, heads |-> srv.heads]
    /\ Reply(TRUE)
    /\ UNCHANGED <<dagVars, repo, user, saved, mirror, stray, failures>>

\* The manifest's apply order needs each operation's parents in the scan.
Publish ==
    LET ordered == Closed(srv.ops)
    IN  /\ srv.phase = "scan"
        /\ srv.dirs = {}
        /\ pub' = IF ordered THEN [ops |-> srv.ops, heads |-> srv.heads] ELSE pub
        /\ Reply(ordered)
        /\ UNCHANGED <<dagVars, repo, user, saved, mirror, stray, failures>>

(***************************************************************************)
(* Failures.                                                                *)
(***************************************************************************)
\* A normalization goes on, or is about to, without its handler.
Straying == stray.waiting > 0 \/ stray.swapping

Fails == failures < MaxFailures /\ failures' = failures + 1

\* A round is interrupted, crashes or loses the network.  A handler it waits
\* for goes on, unless the closed connection makes the server drop it.
AbortRound(p) ==
    /\ pc[p] # "idle"
    /\ Fails
    /\ EndRound(p)
    /\ srv' = IF srv.caller = p THEN [srv EXCEPT !.caller = None] ELSE srv
    /\ UNCHANGED <<dagVars, repo, user, saved, mirror, pub, stray>>

\* A dropped handler frees the dojo's lock at once; the blocking task it waited
\* for, if it had come no further than that, is not stopped by it.
DropHandler ==
    /\ srv.phase \in DropPhases
    /\ srv.caller = None
    /\ srv' = FreeSrv
    /\ stray' = CASE srv.phase = "normalize" -> [stray EXCEPT !.waiting = @ + 1]
                  [] srv.phase = "swap" -> [stray EXCEPT !.swapping = TRUE,
                                                         !.new = srv.new, !.old = srv.old]
                  [] srv.phase = "scan" -> stray
    /\ UNCHANGED <<dagVars, repo, user, saved, mirror, pub, roundVars, failures>>

\* Such a task reads the heads, and ends if there are not several to resolve.
StrayReads ==
    /\ stray.waiting > 0
    /\ \/ /\ ~Loadable(mirror) \/ Cardinality(mirror.heads) = 1
          /\ stray' = [stray EXCEPT !.waiting = @ - 1]
          /\ UNCHANGED <<dagVars, mirror>>
       \/ \E head \in Ops :
              /\ Resolves(head)
              /\ stray' = [waiting |-> stray.waiting - 1, swapping |-> TRUE,
                           new |-> head, old |-> mirror.heads \ {head}]
    /\ UNCHANGED <<repo, user, saved, pub, srv, roundVars, failures>>

\* It adds the new head, removes the old ones, and ends.  Handlers may scan
\* meanwhile, so that each file is a step.
StraySwaps ==
    LET swapped(heads) == mirror' = [mirror EXCEPT !.heads = heads]
    IN  /\ stray.swapping
        /\ \/ /\ stray.new \notin mirror.heads
              /\ swapped(mirror.heads \cup {stray.new})
              /\ UNCHANGED stray
           \/ /\ stray.new \in mirror.heads
              /\ \E h \in stray.old \cap mirror.heads : swapped(mirror.heads \ {h})
              /\ UNCHANGED stray
           \/ /\ stray.new \in mirror.heads
              /\ stray.old \cap mirror.heads = {}
              /\ stray' = [NoStray EXCEPT !.waiting = stray.waiting]
              /\ UNCHANGED mirror
        /\ UNCHANGED <<dagVars, repo, user, saved, pub, srv, roundVars, failures>>

\* The server restarts: the handler is gone, perhaps with the new head added
\* and some of the old ones not removed, and its caller gets an error.
RestartServer ==
    /\ srv.phase # "free" \/ Straying
    /\ Fails
    /\ \/ UNCHANGED mirror
       \/ /\ srv.phase = "swap"
          /\ \E gone \in SUBSET srv.old :
                 mirror' = [mirror EXCEPT !.heads = (@ \cup {srv.new}) \ gone]
    /\ Reply(FALSE)
    /\ stray' = NoStray
    /\ UNCHANGED <<dagVars, repo, user, saved, pub>>

(***************************************************************************)
(* The specification.                                                       *)
(***************************************************************************)
RoundStep(p) ==
    \/ \E d \in Dirs : ListDir(p, d)
    \/ PlanPush(p) \/ FinishPush(p)
    \/ NotifyComplete(p) \/ FetchPublished(p)
    \/ PlanPull(p) \/ FinishPull(p)
    \/ PlanPrune(p) \/ VerifyAndSave(p)
    \/ \E d \in Dirs, o \in Ops :
           \/ Upload(p, d, o) \/ Prune(p, d, o)
           \/ Download(p, d, o) \/ Refetch404(p, d, o) \/ SkipUnlisted(p, d, o)

HandlerStep ==
    \/ Normalize \/ SwapHeads \/ Publish
    \/ \E d \in Dirs : ScanDir(d)

StrayStep == StrayReads \/ StraySwaps

Next ==
    \/ \E r \in Repos : UserWritesOp(r) \/ UserPublishesHead(r)
    \/ \E p \in Procs : StartRound(p) \/ RoundStep(p) \/ AbortRound(p)
    \/ HandlerStep \/ DropHandler \/ StrayStep \/ RestartServer

Spec == Init /\ [][Next]_vars

\* The worker's loop starts a round every ten seconds and a round's requests
\* are answered; a `jj` command finishes once it has begun.
Fairness ==
    /\ \A p \in Procs : SF_vars(StartRound(p)) /\ WF_vars(RoundStep(p))
    /\ WF_vars(HandlerStep) /\ WF_vars(StrayStep)
    /\ \A r \in Repos : WF_vars(UserPublishesHead(r))

FairSpec == Spec /\ Fairness

(***************************************************************************)
(* Properties.                                                              *)
(***************************************************************************)
\* Every variable has its type, and the counters keep to their bounds.
TypeOK ==
    /\ nextOp \in 1 .. MaxOps + 1
    /\ ancestors \in [Ops -> SUBSET Ops]
    /\ author \in [Ops -> Repos \cup {Server}]
    /\ repo \in [Repos -> Tree]
    /\ user \in [Repos -> [op : Ops, old : SUBSET Ops]]
    /\ saved \in [Repos -> Tree]
    /\ mirror \in Tree
    /\ pub \in Tree
    /\ srv \in [phase : {"free", "normalize", "swap", "scan"},
                caller : Procs \cup {None}, new : Ops, old : SUBSET Ops,
                ops : SUBSET Ops, heads : SUBSET Ops, dirs : SUBSET Dirs]
    /\ stray \in [waiting : Nat, swapping : BOOLEAN, new : Ops, old : SUBSET Ops]
    /\ pc \in [Procs -> Phases]
    /\ man \in [Procs -> Tree]
    /\ files \in [Procs -> Tree]
    /\ dirs \in [Procs -> SUBSET Dirs]
    /\ failures \in 0 .. MaxFailures

\* The operation files of the mirror always include the parents of each of
\* them and the operation of each head marker, whatever rounds overlap or are
\* cut short: uploads go parents first and heads last, and nothing takes
\* operations away.
MirrorClosed == Closed(mirror.ops) /\ mirror.heads \subseteq mirror.ops

\* Normalization only ever drops head markers whose operations other heads
\* lead to: what the mirror's heads reach, they reach for good.
HistoryKept == [][Reach(mirror.heads) \subseteq Reach(mirror.heads)']_vars

\* The rounds of all machines together are one shared history that only
\* grows: an operation is written, then reached by the mirror's heads, then by
\* the published ones, and no later upload, normalization, failure or stale
\* scan takes it back from either.
History == INSTANCE SharedHistory
               WITH written <- 0 .. nextOp - 1,
                    shared <- Reach(mirror.heads),
                    published <- Reach(pub.heads)
ImplementsSharedHistory == History!Spec

\* The operation is there and jj finds it from the heads.
Keeps(t, o) == o \in t.ops /\ o \in Reach(t.heads)

\* An operation whose `jj` command has finished is never lost: its files are
\* reachable from the heads of the mirror or of its author's replica.
NoEditLost ==
    \A o \in 1 .. nextOp - 1 :
        (author[o] \in Repos /\ user[author[o]].op # o)
            => Keeps(mirror, o) \/ Keeps(repo[author[o]], o)

\* At every step of a round, and so wherever it may be cut short, jj can open
\* the local replica and finds the whole history of its operations.
ReplicaOpens == \A r \in Repos : Loadable(repo[r]) /\ Closed(repo[r].ops)

\* A round that has pulled and pruned all it planned finds, in its last look,
\* exactly the published tree: the comparison before state.json never fails.
RoundSettles ==
    \A p \in Procs : pc[p] = "prune" /\ files[p] = NoFiles => repo[Home[p]] = pub

\* No replica is ever without a head.
ReplicaHasHead == \A r \in Repos : repo[r].heads # {}

\* What the server publishes is a whole repo: whoever pulls all of it can put
\* it in apply order, and jj can open it.
PublishedOpens == Loadable(pub) /\ Closed(pub.ops)

\* However rounds overlap, the mirror has every operation the manifest lists
\* or its heads lead to: a head that a scan has listed without its operation,
\* or that has since been replaced, never stands for what nobody can download.
PublishedAvailable == pub.ops \cup Reach(pub.heads) \subseteq mirror.ops

\* Every replica is exactly the published tree, with one head, and its
\* state.json says so.
Converged == /\ Cardinality(pub.heads) = 1
             /\ \A r \in Repos : repo[r] = pub /\ saved[r] = pub

\* Once users stop editing, all replicas come to hold exactly the published
\* tree, with one head, and state.json records it: no failed round, aborted
\* request or restart leaves anything rounds cannot repair.
Converges == <>[]Converged
================================================================================
