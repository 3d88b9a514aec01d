---------------------------- MODULE MirrorSyncInv -----------------------------
(***************************************************************************)
(* The inductive invariants behind MirrorSync's properties.  First, why no  *)
(* edit is lost when the users leave the replica alone during a round: what *)
(* MirrorClosed, NoEditLost and HistoryKept rest on.                        *)
(***************************************************************************)
EXTENDS MirrorSync

\* The regime the invariant is about: a replica is written by one party at a
\* time, either its user or its one process.
OneWriter == /\ ~EditWhileSyncing
             /\ \A p, q \in Procs : Home[p] = Home[q] => p = q

Created == 0 .. nextOp - 1
Known(t) == t.ops \subseteq Created /\ t.heads \subseteq Created

\* ancestors is a transitive order that goes back in time.
DagInv ==
    \A o \in Ops : /\ o \notin Created => ancestors[o] = {}
                   /\ \A a \in ancestors[o] : a < o /\ ancestors[a] \subseteq ancestors[o]

\* Every file anywhere stands for an operation somebody has created.
KnownInv ==
    /\ Known(mirror) /\ Known(pub)
    /\ \A r \in Repos : Known(repo[r]) /\ user[r].op \in Created /\ user[r].old \subseteq Created
    /\ \A p \in Procs : Known(man[p]) /\ Known(files[p])
    /\ Known(srv) /\ srv.new \in Created /\ srv.old \subseteq Created
StrayKnown == stray.new \in Created

\* The mirror holds what t holds: the operations as files, the heads as
\* heads or as ancestors of heads.
Holds(t) == t.ops \subseteq mirror.ops /\ t.heads \subseteq Reach(mirror.heads)

\* Manifests say nothing the mirror did not hold, or does not hold still.
ManifestInv == Holds(pub) /\ Holds(srv) /\ \A p \in Procs : Holds(man[p])

\* The heads about to be removed are behind the head that replaces them, and
\* an answer finds its caller waiting for it.
HandlerInv ==
    /\ srv.phase = "swap" => srv.new \in mirror.ops /\ srv.old \subseteq ancestors[srv.new]
    /\ srv.caller \in Procs => pc[srv.caller] = "wait"

\* So are the heads that a normalization without its handler still removes.
StrayInv ==
    stray.swapping => stray.new \in mirror.ops /\ stray.old \subseteq ancestors[stray.new]

\* Up to the end of the upload, the work list holds what the mirror still
\* lacks of the replica; from then on the mirror lacks nothing of it.
RoundInv(p) ==
    LET t == repo[Home[p]]
    IN  /\ pc[p] = "index_push" => files[p] = t /\ t.heads \subseteq t.ops
        /\ pc[p] = "push" =>
               /\ t.heads \subseteq t.ops
               /\ t.ops \subseteq mirror.ops \cup files[p].ops
               /\ t.heads \subseteq Reach(mirror.heads) \cup files[p].heads
               /\ \A o \in files[p].ops : ancestors[o] \subseteq mirror.ops \cup files[p].ops
        /\ pc[p] \notin {"idle", "index_push", "push"} => Holds(t)

\* A `jj` command under way has the replica to itself, and its operation
\* comes after the heads it will replace.
UserInv(r) ==
    Editing(r) => /\ ~Syncing(r)
                  /\ user[r].op \in repo[r].ops
                  /\ user[r].old \subseteq ancestors[user[r].op]

\* What a scan has listed of the heads is still there and leads to all that is
\* published: publishing it takes nothing back.
ScanInv ==
    srv.phase = "scan" => /\ srv.heads \subseteq mirror.heads
                          /\ pub.heads \subseteq Reach(srv.heads)

Inv == /\ TypeOK
       /\ DagInv
       /\ KnownInv
       /\ MirrorClosed
       /\ ManifestInv
       /\ HandlerInv
       /\ \A p \in Procs : RoundInv(p)
       /\ \A r \in Repos : UserInv(r)
       /\ NoEditLost

(***************************************************************************)
(* Why jj can open what is published and, when users wait, every replica:   *)
(* the invariants of rounds that run one at a time.                         *)
(***************************************************************************)
Serial == MaxOverlap <= 1

\* At most one round is under way, while a handler runs none but the one that
\* waits for it, and nothing beside the normalization a dropped handler left.
OneAtATime ==
    /\ \A p, q \in Procs : pc[p] # "idle" /\ pc[q] # "idle" => p = q
    /\ srv.phase # "free" => \A p \in Procs : pc[p] # "idle" => p = srv.caller
    /\ Straying => srv.phase = "free" /\ \A p \in Procs : pc[p] = "idle"
    /\ srv.caller \in Procs => pc[srv.caller] = "wait"

\* One head, with its operation.
OneHead(t) == \E h \in t.ops : t.heads = {h}

\* After the swap the mirror has one head, which nothing changes until it has
\* been published as it is.
PublishInv ==
    /\ OneHead(pub) /\ Closed(pub.ops)
    /\ srv.phase = "swap" => /\ srv.new \in mirror.ops \ srv.old
                             /\ mirror.heads \subseteq srv.old \cup {srv.new}
    /\ srv.phase = "scan" => /\ OneHead(mirror)
                             /\ srv.ops = mirror.ops /\ srv.heads = mirror.heads

PullPhases == {"index_pull", "pull", "index_prune", "prune"}

\* From the answer on the mirror's operations are the published ones, so that
\* with those the replica has them all: the pull brings the published tree in,
\* and only head markers are left to prune.
PullInv(p) ==
    LET t == repo[Home[p]]
    IN  /\ pc[p] \in PullPhases \cup {"refetch"} => mirror.ops = pub.ops
        /\ pc[p] \in PullPhases => man[p] = pub
        /\ pc[p] \in {"index_pull", "index_prune"} => files[p] = t
        /\ pc[p] = "pull" => /\ files[p].ops \subseteq pub.ops
                             /\ files[p].heads \subseteq pub.heads
                             /\ pub.ops \subseteq t.ops \cup files[p].ops
                             /\ pub.heads \subseteq t.heads \cup files[p].heads
        /\ pc[p] \in {"index_prune", "prune"} => /\ pub.ops \subseteq t.ops
                                                 /\ pub.heads \subseteq t.heads
        /\ pc[p] = "prune" => /\ files[p].ops = {}
                              /\ files[p].heads \cap pub.heads = {}
                              /\ t.heads \subseteq pub.heads \cup files[p].heads

SerialInv == ReplicaOpens /\ \A p \in Procs : PullInv(p)
===============================================================================
