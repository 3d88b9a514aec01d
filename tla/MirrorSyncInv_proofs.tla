------------------------- MODULE MirrorSyncInv_proofs -------------------------
(***************************************************************************)
(* MirrorSyncInv!Inv is inductive when each replica has one writer at a     *)
(* time, whatever rounds overlap, fail or are cut short.                    *)
(***************************************************************************)
EXTENDS MirrorSyncInv, MirrorSync_proofs

(***************************************************************************)
(* Heads and what they reach.                                               *)
(***************************************************************************)
LEMMA MaxExists ==
    ASSUME NEW S \in SUBSET Ops, S # {}
    PROVE  \E m \in S : \A x \in S : x <= m
<1> DEFINE T == {MaxOps - x : x \in S}
<1>1. T \subseteq Nat /\ T # {}
  <2>1. \A x \in S : MaxOps - x \in Nat
    BY BoundsAssumption DEF Ops
  <2>2. QED
    BY <2>1
<1> DEFINE R == OpToRel(<, Nat)
<1>2. IsWellFoundedOn(R, Nat)
  BY NatLessThanWellFounded
<1>3. PICK t \in T : \A y \in T : ~ (<<y, t>> \in R)
  <2> HIDE DEF R, T
  <2> QED
    BY <1>1, <1>2, WFMin
<1>4. PICK m \in S : t = MaxOps - m
  BY <1>3
<1>5. ASSUME NEW x \in S
      PROVE  x <= m
  <2>1. MaxOps - x \in T /\ MaxOps - x \in Nat /\ t \in Nat
    BY <1>1
  <2>2. ~ (<<MaxOps - x, t>> \in R)
    BY <1>3, <2>1
  <2>3. ~ (MaxOps - x < t)
    BY <2>1, <2>2 DEF OpToRel
  <2>4. QED
    BY <1>4, <2>1, <2>3, BoundsAssumption DEF Ops
<1>6. QED
  BY <1>5

\* What the heads of a set lead to, its tips lead to.
LEMMA TipsCover ==
    ASSUME TypeOK, DagInv, NEW H \in SUBSET Ops
    PROVE  Reach(H) \subseteq Reach(Tips(H))
<1>1. ASSUME NEW h \in H
      PROVE  \E t \in Tips(H) : h = t \/ h \in ancestors[t]
  <2> DEFINE S == {g \in H : g = h \/ h \in ancestors[g]}
  <2>1. S \in SUBSET Ops /\ S # {}
    OBVIOUS
  <2>2. PICK t \in S : \A x \in S : x <= t
    BY <2>1, MaxExists
  <2>3. ASSUME NEW g \in H, t \in ancestors[g]
        PROVE  FALSE
    <3>1. t < g /\ ancestors[t] \subseteq ancestors[g]
      BY <2>3 DEF DagInv
    <3>2. g \in S
      BY <2>3, <3>1
    <3>3. g <= t /\ g \in Nat /\ t \in Nat
      BY <2>1, <2>2, <3>2, BoundsAssumption DEF Ops
    <3>4. QED
      BY <3>1, <3>3
  <2>4. t \in Tips(H)
    BY <2>3 DEF Tips
  <2>5. QED
    BY <2>4
<1>2. ASSUME NEW x \in Reach(H)
      PROVE  x \in Reach(Tips(H))
  <2>1. PICK h \in H : x = h \/ x \in ancestors[h]
    BY <1>2 DEF Reach
  <2>2. PICK t \in Tips(H) : h = t \/ h \in ancestors[t]
    BY <1>1
  <2>3. t \in Ops
    BY <2>2 DEF Tips
  <2>4. x = t \/ x \in ancestors[t]
    BY <2>1, <2>2, <2>3 DEF DagInv
  <2>5. QED
    BY <2>2, <2>4 DEF Reach
<1>3. QED
  BY <1>2

\* Reachability is transitive.
LEMMA ReachReach ==
    ASSUME DagInv, NEW S \in SUBSET Ops, NEW T \in SUBSET Ops, S \subseteq Reach(T)
    PROVE  Reach(S) \subseteq Reach(T)
<1>1. ASSUME NEW x \in Reach(S)
      PROVE  x \in Reach(T)
  <2>1. PICK s \in S : x = s \/ x \in ancestors[s]
    BY <1>1 DEF Reach
  <2>2. PICK t \in T : s = t \/ s \in ancestors[t]
    BY DEF Reach
  <2>3. x = t \/ x \in ancestors[t]
    BY <2>1, <2>2 DEF DagInv
  <2>4. QED
    BY <2>2, <2>3 DEF Reach
<1>2. QED
  BY <1>1

(***************************************************************************)
(* What every step keeps: operations stay what they were, and what the      *)
(* mirror's heads reach they reach for good.                                *)
(***************************************************************************)
DagGrows == /\ nextOp <= nextOp'
            /\ \A o \in Created : ancestors'[o] = ancestors[o] /\ author'[o] = author[o]
MirrorGrows == /\ mirror.ops \subseteq mirror'.ops
               /\ Reach(mirror.heads) \subseteq Reach(mirror.heads)'

ReachNext(S) == S \cup UNION {ancestors'[h] : h \in S}

LEMMA ReachSame == DagGrows => \A S \in SUBSET Created : ReachNext(S) = Reach(S)
BY DEF DagGrows, ReachNext, Reach

LEMMA CreatedGrows ==
    ASSUME TypeOK, TypeOK', DagGrows
    PROVE  Created \subseteq Created' /\ Created \subseteq Ops /\ Created' \subseteq Ops
<1>1. nextOp \in 1 .. MaxOps + 1 /\ nextOp' \in 1 .. MaxOps + 1 /\ nextOp <= nextOp'
  BY DEF TypeOK, DagGrows
<1>2. QED
  BY <1>1, Intervals DEF Created

LEMMA SameDag ==
    ASSUME TypeOK, DagInv, UNCHANGED dagVars
    PROVE  DagGrows /\ DagInv' /\ Created' = Created
BY BoundsAssumption DEF TypeOK, DagInv, DagGrows, Created, dagVars

LEMMA NewOpDag ==
    ASSUME TypeOK, DagInv, NEW ps \in SUBSET Created, NEW who \in Repos \cup {Server},
           NewOp(ps, who)
    PROVE  /\ DagGrows /\ DagInv'
           /\ nextOp \in Ops /\ nextOp \notin Created /\ Created' = Created \cup {nextOp}
           /\ ancestors'[nextOp] = Reach(ps) /\ Reach(ps) \subseteq Created
           /\ author'[nextOp] = who
<1>1. nextOp \in Ops /\ nextOp \notin Created /\ Created \subseteq Ops
  BY BoundsAssumption DEF TypeOK, NewOp, Ops, Created
<1>2. Created' = Created \cup {nextOp}
  <2>1. nextOp \in Nat /\ nextOp' = nextOp + 1
    BY BoundsAssumption DEF TypeOK, NewOp
  <2>2. QED
    BY <2>1 DEF Created
<1>3. \A o \in Ops : o # nextOp => ancestors'[o] = ancestors[o] /\ author'[o] = author[o]
  BY <1>1 DEF TypeOK, NewOp
<1>4. ancestors'[nextOp] = Reach(ps) /\ author'[nextOp] = who
  BY <1>1 DEF TypeOK, NewOp
<1>5. DagGrows
  BY <1>1, <1>3, BoundsAssumption DEF DagGrows, NewOp, TypeOK
<1>6. \A o \in Created : ancestors[o] \subseteq Created
  <2> SUFFICES ASSUME NEW o \in Created, NEW a \in ancestors[o]
               PROVE  a \in Created
    OBVIOUS
  <2>1. a < o /\ a \in Ops
    BY <1>1 DEF DagInv, TypeOK
  <2>2. QED
    BY <2>1, BoundsAssumption DEF TypeOK, Created, Ops
<1>7. Reach(ps) \subseteq Created
  BY <1>6 DEF Reach
<1>8. DagInv'
  <2> SUFFICES ASSUME NEW o \in Ops
               PROVE  /\ o \notin Created' => ancestors'[o] = {}
                      /\ \A a \in ancestors'[o] : a < o /\ ancestors'[a] \subseteq ancestors'[o]
    BY DEF DagInv
  <2>1. CASE o = nextOp
    <3> SUFFICES ASSUME NEW a \in Reach(ps)
                 PROVE  a < nextOp /\ ancestors'[a] \subseteq Reach(ps)
      BY <1>2, <1>4, <2>1
    <3>1. a \in Created
      BY <1>7
    <3>2. a < nextOp
      BY <3>1, BoundsAssumption DEF TypeOK, Created
    <3>3. ancestors'[a] = ancestors[a]
      BY <1>5, <3>1 DEF DagGrows
    <3>4. PICK h \in ps : a = h \/ a \in ancestors[h]
      BY DEF Reach
    <3>5. ancestors[a] \subseteq ancestors[h]
      BY <1>1, <3>4 DEF DagInv
    <3>6. QED
      BY <3>2, <3>3, <3>4, <3>5 DEF Reach
  <2>2. CASE o # nextOp
    <3>1. ancestors'[o] = ancestors[o]
      BY <1>3, <2>2
    <3>2. o \notin Created' => o \notin Created
      BY <1>2
    <3>3. ASSUME NEW a \in ancestors[o]
          PROVE  ancestors'[a] = ancestors[a]
      <4>1. o \in Created
        BY <3>3 DEF DagInv
      <4>2. a \in Created
        BY <1>6, <3>3, <4>1
      <4>3. QED
        BY <1>5, <4>2 DEF DagGrows
    <3>4. QED
      BY <3>1, <3>2, <3>3 DEF DagInv
  <2>3. QED
    BY <2>1, <2>2
<1>9. QED
  BY <1>1, <1>2, <1>4, <1>5, <1>7, <1>8

LEMMA MirrorSame ==
    ASSUME Inv, DagGrows, mirror' = mirror
    PROVE  MirrorGrows /\ MirrorClosed'
<1>1. mirror.heads \subseteq Created /\ mirror.ops \subseteq Created
  BY DEF Inv, KnownInv, Known
<1>2. Reach(mirror.heads)' = Reach(mirror.heads)
  BY <1>1, ReachSame DEF ReachNext, Reach
<1>3. MirrorClosed'
  BY <1>1 DEF Inv, MirrorClosed, Closed, DagGrows
<1>4. QED
  BY <1>2, <1>3 DEF MirrorGrows

HoldsNext(t) == t.ops \subseteq mirror'.ops /\ t.heads \subseteq Reach(mirror.heads)'

LEMMA HoldsGrows == MirrorGrows => \A t : Holds(t) => HoldsNext(t)
BY DEF MirrorGrows, Holds, HoldsNext

LEMMA HoldsNothing == Holds(NoFiles) /\ Known(NoFiles)
BY DEF Holds, Known, NoFiles

(***************************************************************************)
(* Frames: what a step leaves alone.                                        *)
(***************************************************************************)
LEMMA RoundFrame ==
    ASSUME Inv, DagGrows, MirrorGrows, NEW p \in Procs,
           pc'[p] = pc[p], files'[p] = files[p], repo'[Home[p]] = repo[Home[p]]
    PROVE  RoundInv(p)'
<1> DEFINE t == repo[Home[p]]
<1>1. RoundInv(p) /\ Known(files[p])
  BY DEF Inv, KnownInv
<1>2. CASE pc[p] = "push"
  <2>1. /\ t.heads \subseteq t.ops
        /\ t.ops \subseteq mirror'.ops \cup files[p].ops
        /\ t.heads \subseteq Reach(mirror.heads)' \cup files[p].heads
    BY <1>1, <1>2 DEF RoundInv, MirrorGrows
  <2>2. \A o \in files[p].ops : ancestors'[o] \subseteq mirror'.ops \cup files[p].ops
    BY <1>1, <1>2 DEF RoundInv, MirrorGrows, DagGrows, Known
  <2>3. QED
    BY <1>2, <2>1, <2>2 DEF RoundInv
<1>3. CASE pc[p] # "push"
  BY <1>1, <1>3, HoldsGrows DEF RoundInv, Holds, HoldsNext
<1>4. QED
  BY <1>2, <1>3

LEMMA UserFrame ==
    ASSUME Inv, DagGrows, NEW r \in Repos, user'[r] = user[r], repo'[r] = repo[r],
           Editing(r) => ~Syncing(r)'
    PROVE  UserInv(r)'
<1>1. UserInv(r) /\ user[r].op \in Created
  BY DEF Inv, KnownInv
<1>2. QED
  BY <1>1 DEF UserInv, Editing, DagGrows

LEMMA EditsFrame ==
    ASSUME Inv, UNCHANGED <<dagVars, repo, user, mirror>>
    PROVE  NoEditLost'
BY DEF Inv, NoEditLost, Keeps, Reach, dagVars

\* A step of a round that touches nothing of the others.
LocalFrame(p) ==
    /\ UNCHANGED <<dagVars, repo, user, mirror, pub>>
    /\ \A q \in Procs : q # p =>
           pc'[q] = pc[q] /\ man'[q] = man[q] /\ files'[q] = files[q]

LEMMA LocalStep ==
    ASSUME Inv, TypeOK', NEW p \in Procs, LocalFrame(p), pc[p] # "idle",
           Known(man'[p]), Known(files'[p]), Holds(man'[p]), RoundInv(p)',
           srv'.ops = srv.ops \/ srv'.ops = {}, srv'.heads = srv.heads \/ srv'.heads = {},
           srv'.old = srv.old \/ srv'.old = {}, srv'.new = srv.new \/ srv'.new = 0,
           HandlerInv'
    PROVE  Inv'
<1>1. DagGrows /\ DagInv' /\ Created' = Created
  BY SameDag DEF Inv, LocalFrame
<1>2. MirrorGrows /\ MirrorClosed'
  BY <1>1, MirrorSame DEF LocalFrame
<1>3. KnownInv'
  <2>1. 0 \in Created
    BY DEF Inv, TypeOK, Created
  <2>2. Known(srv)' /\ srv'.new \in Created /\ srv'.old \subseteq Created
    BY <1>1, <2>1 DEF Inv, KnownInv, Known
  <2>3. \A q \in Procs : Known(man[q])' /\ Known(files[q])'
    BY <1>1 DEF Inv, KnownInv, Known, LocalFrame
  <2>4. QED
    BY <1>1, <2>2, <2>3 DEF Inv, KnownInv, Known, LocalFrame
<1>4. ManifestInv'
  <2>1. \A t : Holds(t) => HoldsNext(t)
    BY <1>2, HoldsGrows
  <2>2. \A q \in Procs : HoldsNext(man'[q])
    BY <2>1 DEF Inv, ManifestInv, LocalFrame
  <2>3. HoldsNext(pub') /\ HoldsNext(srv')
    BY <2>1 DEF Inv, ManifestInv, LocalFrame, HoldsNext
  <2>4. QED
    BY <2>2, <2>3 DEF ManifestInv, Holds, HoldsNext
<1>5. \A q \in Procs : RoundInv(q)'
  <2>1. ASSUME NEW q \in Procs, q # p
        PROVE  RoundInv(q)'
    BY <1>1, <1>2, <2>1, RoundFrame DEF LocalFrame
  <2>2. QED
    BY <2>1
<1>6. \A r \in Repos : UserInv(r)'
  <2> SUFFICES ASSUME NEW r \in Repos
               PROVE  UserInv(r)'
    OBVIOUS
  <2>1. Editing(r) => ~Syncing(r)'
    BY DEF Inv, UserInv, Syncing, LocalFrame
  <2>2. QED
    BY <1>1, <2>1, UserFrame DEF LocalFrame
<1>7. NoEditLost'
  BY EditsFrame DEF LocalFrame
<1>8. QED
  BY <1>1, <1>2, <1>3, <1>4, <1>5, <1>6, <1>7 DEF Inv

\* The same with the handler left alone too.
QuietFrame(p) == LocalFrame(p) /\ srv' = srv

LEMMA QuietStep ==
    ASSUME Inv, TypeOK', NEW p \in Procs, QuietFrame(p), pc[p] \notin {"idle", "wait"},
           Known(man'[p]), Known(files'[p]), Holds(man'[p]), RoundInv(p)'
    PROVE  Inv'
<1>1. HandlerInv'
  BY DEF Inv, HandlerInv, QuietFrame, LocalFrame, dagVars
<1>2. QED
  BY <1>1, LocalStep DEF QuietFrame

\* Phases after the upload, where the mirror lacks nothing of the replica.
LEMMA LatePhase ==
    ASSUME Inv, NEW p \in Procs, UNCHANGED <<dagVars, repo, mirror>>,
           pc[p] \notin {"idle", "index_push", "push"},
           pc'[p] \notin {"index_push", "push"}
    PROVE  RoundInv(p)'
BY DEF Inv, RoundInv, Holds, Reach, dagVars

LEMMA EndRoundFacts ==
    ASSUME TypeOK, NEW p \in Procs, EndRound(p)
    PROVE  /\ pc'[p] = "idle" /\ man'[p] = NoFiles /\ files'[p] = NoFiles
           /\ RoundInv(p)'
           /\ \A q \in Procs : q # p =>
                  pc'[q] = pc[q] /\ man'[q] = man[q] /\ files'[q] = files[q]
<1>1. /\ pc'[p] = "idle" /\ man'[p] = NoFiles /\ files'[p] = NoFiles
      /\ \A q \in Procs : q # p =>
             pc'[q] = pc[q] /\ man'[q] = man[q] /\ files'[q] = files[q]
  BY DEF TypeOK, EndRound, GoTo, WorkOn
<1>2. QED
  BY <1>1 DEF RoundInv

LEMMA GiveUpStep ==
    ASSUME Inv, TypeOK', NEW p \in Procs, EndRound(p), pc[p] \notin {"idle", "wait"},
           UNCHANGED <<dagVars, repo, user, mirror, pub, srv>>
    PROVE  Inv'
<1>1. QuietFrame(p) /\ man'[p] = NoFiles /\ files'[p] = NoFiles /\ RoundInv(p)'
  BY EndRoundFacts DEF Inv, QuietFrame, LocalFrame
<1>2. QED
  BY <1>1, HoldsNothing, QuietStep

\* Facts every step of a round starts from.
LEMMA RoundFacts ==
    ASSUME Inv, NEW p \in Procs
    PROVE  /\ pc \in [Procs -> Phases] /\ man \in [Procs -> Tree]
           /\ files \in [Procs -> Tree] /\ repo \in [Repos -> Tree]
           /\ Home[p] \in Repos /\ Known(repo[Home[p]])
           /\ Known(man[p]) /\ Known(files[p]) /\ Holds(man[p]) /\ RoundInv(p)
           /\ Known(pub) /\ Holds(pub) /\ Known(mirror)
BY HomeAssumption DEF Inv, TypeOK, KnownInv, ManifestInv

LEMMA ListDirStep ==
    ASSUME Inv, TypeOK', NEW p \in Procs, NEW d \in Dirs, ListDir(p, d)
    PROVE  Inv'
<1> DEFINE t == repo[Home[p]]
<1>1. pc[p] \in ListPhases /\ pc[p] \notin {"idle", "wait"}
  BY DEF ListDir, ListPhases
<1>2. CASE EndRound(p)
  BY <1>1, <1>2, GiveUpStep DEF ListDir
<1>3. CASE /\ \E names \in Listings(files[p][d], t[d]) :
                  files' = [files EXCEPT ![p][d] = names]
           /\ UNCHANGED <<pc, man>>
  <2>1. PICK names \in Listings(files[p][d], t[d]) :
               files' = [files EXCEPT ![p][d] = names]
    BY <1>3
  <2>2. names \subseteq files[p][d] \cup t[d]
    BY <2>1 DEF Listings
  <2>3. files[p] = t => names = t[d]
    BY <2>1 DEF Listings
  <2>4. files'[p] = [files[p] EXCEPT ![d] = names]
    BY <2>1, RoundFacts
  <2>5. Known(files'[p])
    <3>1. CASE d = "ops"
      BY <2>2, <2>4, <3>1, RoundFacts DEF Known, Tree
    <3>2. CASE d = "heads"
      BY <2>2, <2>4, <3>2, RoundFacts DEF Known, Tree
    <3>3. QED
      BY <3>1, <3>2 DEF Dirs
  <2>6. QuietFrame(p)
    BY <1>3, <2>1, RoundFacts DEF ListDir, QuietFrame, LocalFrame
  <2>7. RoundInv(p)'
    <3>1. CASE pc[p] = "index_push"
      <4>1. files[p] = t /\ t.heads \subseteq t.ops
        BY <3>1, RoundFacts DEF RoundInv
      <4>2. files'[p] = t
        BY <2>3, <2>4, <4>1, RoundFacts DEF Tree
      <4>3. QED
        BY <1>3, <2>6, <3>1, <4>1, <4>2 DEF RoundInv, QuietFrame, LocalFrame
    <3>2. CASE pc[p] # "index_push"
      BY <1>1, <1>3, <2>6, <3>2, LatePhase DEF ListPhases, QuietFrame, LocalFrame
    <3>3. QED
      BY <3>1, <3>2
  <2>8. QED
    BY <1>1, <1>3, <2>5, <2>6, <2>7, QuietStep, RoundFacts
<1>4. QED
  BY <1>2, <1>3 DEF ListDir

LEMMA PlanPushStep ==
    ASSUME Inv, TypeOK', NEW p \in Procs, PlanPush(p)
    PROVE  Inv'
<1> DEFINE t == repo[Home[p]]
           need == Minus(files[p], man[p])
<1>1. pc[p] = "index_push"
  BY DEF PlanPush, Listed
<1>2. CASE EndRound(p)
  BY <1>1, <1>2, GiveUpStep DEF PlanPush
<1>3. CASE /\ \A o \in need.ops : {o} \cup ancestors[o] \subseteq t.ops
           /\ GoTo(p, "push") /\ WorkOn(p, need) /\ UNCHANGED <<man, dirs>>
  <2>1. pc'[p] = "push" /\ files'[p] = need /\ QuietFrame(p)
    BY <1>3, RoundFacts DEF PlanPush, GoTo, WorkOn, QuietFrame, LocalFrame
  <2>2. files[p] = t /\ t.heads \subseteq t.ops
    BY <1>1, RoundFacts DEF RoundInv
  <2>3. Known(need)
    BY RoundFacts DEF Known, Minus
  <2>4. t.ops \subseteq mirror.ops \cup need.ops
    BY <2>2, RoundFacts DEF Minus, Holds
  <2>5. t.heads \subseteq Reach(mirror.heads) \cup need.heads
    BY <2>2, RoundFacts DEF Minus, Holds
  <2>6. \A o \in need.ops : ancestors[o] \subseteq mirror.ops \cup need.ops
    BY <1>3, <2>4
  <2>7. RoundInv(p)'
    BY <2>1, <2>2, <2>4, <2>5, <2>6 DEF RoundInv, QuietFrame, LocalFrame, Reach, dagVars
  <2>8. QED
    BY <1>1, <1>3, <2>1, <2>3, <2>7, QuietStep, RoundFacts
<1>4. QED
  BY <1>2, <1>3 DEF PlanPush

LEMMA FinishPushStep ==
    ASSUME Inv, TypeOK', NEW p \in Procs, FinishPush(p)
    PROVE  Inv'
<1>1. pc[p] = "push" /\ pc'[p] = "notify" /\ QuietFrame(p)
  BY RoundFacts DEF FinishPush, GoTo, QuietFrame, LocalFrame
<1>2. Holds(repo[Home[p]])
  BY <1>1, RoundFacts DEF RoundInv, FinishPush, NoFiles, Holds
<1>3. RoundInv(p)'
  BY <1>1, <1>2 DEF RoundInv, Holds, Reach, QuietFrame, LocalFrame, dagVars
<1>4. QED
  BY <1>1, <1>3, QuietStep, RoundFacts DEF FinishPush

LEMMA NotifyCompleteStep ==
    ASSUME Inv, TypeOK', NEW p \in Procs, NotifyComplete(p)
    PROVE  Inv'
<1>1. pc[p] = "notify" /\ pc'[p] = "wait" /\ LocalFrame(p) /\ srv.phase = "free"
  BY RoundFacts DEF NotifyComplete, GoTo, LocalFrame
<1>2. RoundInv(p)'
  BY <1>1, LatePhase DEF LocalFrame
<1>3. /\ srv'.phase = "normalize" /\ srv'.caller = p /\ srv'.ops = {} /\ srv'.heads = {}
      /\ srv'.old = {} /\ srv'.new = 0
  BY DEF NotifyComplete, FreeSrv
<1>4. HandlerInv'
  BY <1>1, <1>3 DEF HandlerInv
<1>5. QED
  BY <1>1, <1>2, <1>3, <1>4, LocalStep, RoundFacts DEF NotifyComplete

LEMMA FetchPublishedStep ==
    ASSUME Inv, TypeOK', NEW p \in Procs, FetchPublished(p)
    PROVE  Inv'
<1>1. /\ pc[p] = "refetch" /\ pc'[p] = "index_pull" /\ QuietFrame(p)
      /\ man'[p] = pub /\ files'[p] = repo[Home[p]]
  BY RoundFacts DEF FetchPublished, StartListing, GoTo, WorkOn, QuietFrame, LocalFrame
<1>2. RoundInv(p)'
  BY <1>1, LatePhase DEF QuietFrame, LocalFrame
<1>3. QED
  BY <1>1, <1>2, QuietStep, RoundFacts

LEMMA PlanPullStep ==
    ASSUME Inv, TypeOK', NEW p \in Procs, PlanPull(p)
    PROVE  Inv'
<1>1. /\ pc[p] = "index_pull" /\ pc'[p] = "pull" /\ QuietFrame(p)
      /\ man'[p] = man[p] /\ files'[p] = Minus(man[p], files[p])
  BY RoundFacts DEF PlanPull, Listed, GoTo, WorkOn, QuietFrame, LocalFrame
<1>2. RoundInv(p)'
  BY <1>1, LatePhase DEF QuietFrame, LocalFrame
<1>3. Known(Minus(man[p], files[p]))
  BY RoundFacts DEF Known, Minus
<1>4. QED
  BY <1>1, <1>2, <1>3, QuietStep, RoundFacts

\* A work list only shrinks.
LEMMA DoneFacts ==
    ASSUME Inv, NEW p \in Procs, NEW d \in Dirs, NEW o \in Ops, Done(p, d, o)
    PROVE  /\ Known(files'[p])
           /\ files'[p].ops = IF d = "ops" THEN files[p].ops \ {o} ELSE files[p].ops
           /\ files'[p].heads = IF d = "heads" THEN files[p].heads \ {o} ELSE files[p].heads
           /\ \A q \in Procs : q # p => files'[q] = files[q]
<1>1. files'[p] = [files[p] EXCEPT ![d] = @ \ {o}]
  BY RoundFacts DEF Done
<1>2. \A q \in Procs : q # p => files'[q] = files[q]
  BY RoundFacts DEF Done
<1>3. files[p] \in Tree
  BY RoundFacts
<1>4. CASE d = "ops"
  BY <1>1, <1>2, <1>3, <1>4, RoundFacts DEF Known, Tree
<1>5. CASE d = "heads"
  BY <1>1, <1>2, <1>3, <1>5, RoundFacts DEF Known, Tree
<1>6. QED
  BY <1>4, <1>5 DEF Dirs

LEMMA Refetch404Step ==
    ASSUME Inv, TypeOK', NEW p \in Procs, NEW d \in Dirs, NEW o \in Ops, Refetch404(p, d, o)
    PROVE  Inv'
<1>1. pc[p] = "pull"
  BY DEF Refetch404
<1>2. CASE EndRound(p)
  BY <1>1, <1>2, GiveUpStep DEF Refetch404
<1>3. CASE man' = [man EXCEPT ![p] = pub] /\ UNCHANGED <<pc, files, dirs>>
  <2>1. QuietFrame(p) /\ man'[p] = pub /\ pc'[p] = pc[p] /\ files'[p] = files[p]
    BY <1>3, RoundFacts DEF Refetch404, QuietFrame, LocalFrame
  <2>2. RoundInv(p)'
    BY <1>1, <2>1, LatePhase DEF QuietFrame, LocalFrame
  <2>3. QED
    BY <1>1, <2>1, <2>2, QuietStep, RoundFacts
<1>4. QED
  BY <1>2, <1>3 DEF Refetch404

LEMMA SkipUnlistedStep ==
    ASSUME Inv, TypeOK', NEW p \in Procs, NEW d \in Dirs, NEW o \in Ops, SkipUnlisted(p, d, o)
    PROVE  Inv'
<1>1. pc[p] = "pull" /\ pc'[p] = pc[p] /\ man'[p] = man[p] /\ Done(p, d, o)
  BY DEF SkipUnlisted
<1>2. QuietFrame(p) /\ Known(files'[p])
  BY <1>1, DoneFacts DEF SkipUnlisted, QuietFrame, LocalFrame
<1>3. RoundInv(p)'
  BY <1>1, <1>2, LatePhase DEF QuietFrame, LocalFrame
<1>4. QED
  BY <1>1, <1>2, <1>3, QuietStep, RoundFacts

LEMMA FinishPullStep ==
    ASSUME Inv, TypeOK', NEW p \in Procs, FinishPull(p)
    PROVE  Inv'
<1>1. /\ pc[p] = "pull" /\ pc'[p] = "index_prune" /\ QuietFrame(p)
      /\ man'[p] = man[p] /\ files'[p] = repo[Home[p]]
  BY RoundFacts DEF FinishPull, StartListing, GoTo, WorkOn, QuietFrame, LocalFrame
<1>2. RoundInv(p)'
  BY <1>1, LatePhase DEF QuietFrame, LocalFrame
<1>3. QED
  BY <1>1, <1>2, QuietStep, RoundFacts

LEMMA PlanPruneStep ==
    ASSUME Inv, TypeOK', NEW p \in Procs, PlanPrune(p)
    PROVE  Inv'
<1>1. /\ pc[p] = "index_prune" /\ pc'[p] = "prune" /\ QuietFrame(p)
      /\ man'[p] = man[p] /\ files'[p] = Minus(files[p], man[p])
  BY RoundFacts DEF PlanPrune, Listed, GoTo, WorkOn, QuietFrame, LocalFrame
<1>2. RoundInv(p)'
  BY <1>1, LatePhase DEF QuietFrame, LocalFrame
<1>3. Known(Minus(files[p], man[p]))
  BY RoundFacts DEF Known, Minus
<1>4. QED
  BY <1>1, <1>2, <1>3, QuietStep, RoundFacts

LEMMA VerifyAndSaveStep ==
    ASSUME Inv, TypeOK', NEW p \in Procs, VerifyAndSave(p)
    PROVE  Inv'
BY GiveUpStep DEF VerifyAndSave

LEMMA AbortRoundStep ==
    ASSUME Inv, TypeOK', NEW p \in Procs, AbortRound(p)
    PROVE  Inv'
<1>1. LocalFrame(p) /\ man'[p] = NoFiles /\ files'[p] = NoFiles /\ RoundInv(p)'
  BY EndRoundFacts DEF Inv, AbortRound, LocalFrame
<1>2. /\ srv'.ops = srv.ops /\ srv'.heads = srv.heads /\ srv'.old = srv.old
      /\ srv'.new = srv.new /\ srv'.phase = srv.phase
      /\ srv'.caller = IF srv.caller = p THEN None ELSE srv.caller
  BY DEF AbortRound, Inv, TypeOK
<1>3. HandlerInv'
  BY <1>1, <1>2, NamesAssumption DEF Inv, HandlerInv, LocalFrame, dagVars
<1>4. QED
  BY <1>1, <1>2, <1>3, HoldsNothing, LocalStep DEF AbortRound

(***************************************************************************)
(* The handler.                                                             *)
(***************************************************************************)
LEMMA EditsInterval ==
    ASSUME NEW x \in 1 .. MaxOps + 1
    PROVE  1 .. x - 1 = (0 .. x - 1) \ {0}
BY BoundsAssumption

LEMMA EditsGrow ==
    ASSUME Inv, TypeOK', UNCHANGED <<repo, user>>, DagGrows, MirrorGrows,
           \A o \in Created' : o \in Created \/ author'[o] = Server
    PROVE  NoEditLost'
<1> SUFFICES ASSUME NEW o \in Created', o # 0, author'[o] \in Repos,
                    user'[author'[o]].op # o
             PROVE  Keeps(mirror, o)' \/ Keeps(repo[author[o]], o)'
  <2>1. nextOp' \in 1 .. MaxOps + 1
    BY DEF TypeOK
  <2>2. (1 .. nextOp' - 1) = Created' \ {0}
    BY <2>1, EditsInterval DEF Created
  <2>3. QED
    BY <2>2 DEF NoEditLost
<1>1. o \in Created /\ author'[o] = author[o]
  BY NamesAssumption DEF DagGrows
<1>2. o \in 1 .. nextOp - 1
  <2>1. nextOp \in 1 .. MaxOps + 1
    BY DEF Inv, TypeOK
  <2>2. (1 .. nextOp - 1) = Created \ {0}
    BY <2>1, EditsInterval DEF Created
  <2>3. QED
    BY <1>1, <2>2
<1>3. Keeps(mirror, o) \/ Keeps(repo[author[o]], o)
  BY <1>1, <1>2 DEF Inv, NoEditLost
<1>4. CASE Keeps(mirror, o)
  BY <1>4 DEF Keeps, MirrorGrows
<1>5. CASE Keeps(repo[author[o]], o)
  <2>1. repo[author[o]].heads \in SUBSET Created
    BY <1>1 DEF Inv, KnownInv, Known
  <2>2. ReachNext(repo[author[o]].heads) = Reach(repo[author[o]].heads)
    BY <2>1, ReachSame
  <2>3. QED
    BY <1>1, <1>5, <2>2 DEF Keeps, Reach, ReachNext
<1>6. QED
  BY <1>3, <1>4, <1>5

\* What each round sees of a step of the server: nothing, or its answer.
Answered(p) == /\ pc[p] # "idle"
               /\ Known(man[p])' /\ Known(files[p])' /\ HoldsNext(man'[p])
               /\ RoundInv(p)'
Unanswered(p) == pc'[p] = pc[p] /\ man'[p] = man[p] /\ files'[p] = files[p]

LEMMA ServerStep ==
    ASSUME Inv, TypeOK', UNCHANGED <<repo, user>>, DagGrows, DagInv', MirrorGrows, MirrorClosed',
           \A o \in Created' : o \in Created \/ author'[o] = Server,
           Known(mirror)', Known(srv)', srv'.new \in Created', srv'.old \subseteq Created',
           Known(pub)', HoldsNext(pub'), HoldsNext(srv'), HandlerInv',
           \A p \in Procs : Unanswered(p) \/ Answered(p)
    PROVE  Inv'
<1>1. Created \subseteq Created'
  BY CreatedGrows DEF Inv
<1>2. KnownInv'
  <2>1. \A r \in Repos : /\ Known(repo[r])' /\ user'[r].op \in Created'
                         /\ user'[r].old \subseteq Created'
    BY <1>1 DEF Inv, KnownInv, Known
  <2>2. \A p \in Procs : Known(man[p])' /\ Known(files[p])'
    BY <1>1 DEF Inv, KnownInv, Known, Answered, Unanswered
  <2>3. QED
    BY <2>1, <2>2 DEF KnownInv
<1>3. ManifestInv'
  <2>1. ASSUME NEW p \in Procs
        PROVE  HoldsNext(man'[p])
    <3>1. CASE Unanswered(p)
      BY <3>1, HoldsGrows DEF Inv, ManifestInv, Unanswered
    <3>2. CASE Answered(p)
      BY <3>2 DEF Answered
    <3>3. QED
      BY <3>1, <3>2
  <2>2. QED
    BY <2>1 DEF ManifestInv, Holds, HoldsNext
<1>4. \A p \in Procs : RoundInv(p)'
  <2> SUFFICES ASSUME NEW p \in Procs
               PROVE  RoundInv(p)'
    OBVIOUS
  <2>1. CASE Unanswered(p)
    BY <2>1, RoundFrame DEF Unanswered
  <2>2. CASE Answered(p)
    BY <2>2 DEF Answered
  <2>3. QED
    BY <2>1, <2>2
<1>5. \A r \in Repos : UserInv(r)'
  <2> SUFFICES ASSUME NEW r \in Repos
               PROVE  UserInv(r)'
    OBVIOUS
  <2>1. Editing(r) => ~Syncing(r)'
    BY DEF Inv, UserInv, Syncing, Answered, Unanswered
  <2>2. QED
    BY <2>1, UserFrame
<1>6. NoEditLost'
  BY EditsGrow
<1>7. QED
  BY <1>2, <1>3, <1>4, <1>5, <1>6 DEF Inv

LEMMA ReplyStep ==
    ASSUME Inv, TypeOK', NEW ok \in BOOLEAN, Reply(ok), UNCHANGED <<dagVars, repo, user>>,
           MirrorGrows, MirrorClosed', Known(mirror)', Known(pub)', HoldsNext(pub')
    PROVE  Inv'
<1>1. DagGrows /\ DagInv' /\ Created' = Created
  BY SameDag DEF Inv
<1>2. /\ srv'.phase = "free" /\ srv'.caller = None /\ srv'.ops = {} /\ srv'.heads = {}
      /\ srv'.old = {} /\ srv'.new = 0
  BY DEF Reply, FreeSrv
<1>3. /\ HandlerInv' /\ Known(srv)' /\ srv'.new \in Created' /\ srv'.old \subseteq Created'
      /\ HoldsNext(srv')
  <2>1. 0 \in Created
    BY DEF Inv, TypeOK, Created
  <2>2. HandlerInv'
    BY <1>2, NamesAssumption DEF HandlerInv
  <2>3. QED
    BY <1>1, <1>2, <2>1, <2>2 DEF Known, HoldsNext
<1>4. ASSUME NEW p \in Procs
      PROVE  Unanswered(p) \/ Answered(p)
  <2>1. CASE srv.caller = None
    BY <2>1 DEF Reply, Unanswered, roundVars
  <2>2. CASE srv.caller \in Procs /\ p # srv.caller
    <3>1. CASE ok
      BY <2>2, <3>1, NamesAssumption DEF Reply, GoTo, Unanswered, Inv, TypeOK
    <3>2. CASE ~ok
      BY <2>2, <3>2, NamesAssumption, EndRoundFacts DEF Reply, Unanswered, Inv
    <3>3. QED
      BY <3>1, <3>2
  <2>3. CASE srv.caller \in Procs /\ p = srv.caller
    <3>1. pc[p] = "wait"
      BY <2>3 DEF Inv, HandlerInv
    <3>2. CASE ok
      <4>1. /\ pc'[p] = "refetch" /\ man'[p] = man[p] /\ files'[p] = files[p]
        BY <2>3, <3>2, NamesAssumption DEF Reply, GoTo, Inv, TypeOK
      <4>2. HoldsNext(repo'[Home[p]])
        BY <3>1, RoundFacts, HoldsGrows DEF RoundInv
      <4>3. RoundInv(p)'
        BY <4>1, <4>2 DEF RoundInv, Holds, HoldsNext
      <4>4. Known(man[p])' /\ Known(files[p])' /\ HoldsNext(man'[p])
        BY <1>1, <4>1, RoundFacts, HoldsGrows DEF Known
      <4>5. QED
        BY <3>1, <4>3, <4>4 DEF Answered
    <3>3. CASE ~ok
      <4>1. man'[p] = NoFiles /\ files'[p] = NoFiles /\ RoundInv(p)'
        BY <2>3, <3>3, NamesAssumption, EndRoundFacts DEF Reply, Inv
      <4>2. QED
        BY <3>1, <4>1, HoldsNothing DEF Answered, Known, NoFiles, HoldsNext
    <3>4. QED
      BY <3>2, <3>3
  <2>4. QED
    BY <2>1, <2>2, <2>3 DEF Inv, TypeOK
<1>5. QED
  BY <1>1, <1>3, <1>4, ServerStep

\* The handler goes on without answering.
LEMMA HandlerGoesOn ==
    ASSUME Inv, TypeOK', UNCHANGED <<repo, user, pub, roundVars>>,
           DagGrows, DagInv', Created \subseteq Created', MirrorGrows, MirrorClosed',
           \A o \in Created' : o \in Created \/ author'[o] = Server,
           Known(mirror)', Known(srv)', srv'.new \in Created', srv'.old \subseteq Created',
           HoldsNext(srv'), HandlerInv'
    PROVE  Inv'
<1>1. Known(pub)' /\ HoldsNext(pub')
  BY HoldsGrows DEF Inv, KnownInv, ManifestInv, Known
<1>2. \A p \in Procs : Unanswered(p)
  BY DEF Unanswered, roundVars
<1>3. QED
  BY <1>1, <1>2, ServerStep

LEMMA SrvFacts ==
    ASSUME Inv
    PROVE  /\ srv \in [phase : {"free", "normalize", "swap", "scan"},
                       caller : Procs \cup {None}, new : Ops, old : SUBSET Ops,
                       ops : SUBSET Ops, heads : SUBSET Ops, dirs : SUBSET Dirs]
           /\ mirror \in Tree /\ Known(mirror) /\ Known(srv) /\ srv.new \in Created
           /\ srv.old \subseteq Created /\ Known(pub)
           /\ Holds(srv) /\ Holds(pub) /\ HandlerInv /\ MirrorClosed
BY DEF Inv, TypeOK, KnownInv, ManifestInv

\* Nothing but the handler's own record changes.
LEMMA HandlerOnly ==
    ASSUME Inv, TypeOK', UNCHANGED <<dagVars, repo, user, mirror, pub, roundVars>>,
           Known(srv)', srv'.new \in Created, srv'.old \subseteq Created,
           HoldsNext(srv'), HandlerInv'
    PROVE  Inv'
<1>1. DagGrows /\ DagInv' /\ Created' = Created
  BY SameDag DEF Inv
<1>2. MirrorGrows /\ MirrorClosed'
  BY <1>1, MirrorSame
<1>3. Known(mirror)'
  BY <1>1, SrvFacts DEF Known
<1>4. QED
  BY <1>1, <1>2, <1>3, HandlerGoesOn

LEMMA HoldsMirror == Holds(mirror) /\ HoldsNext(mirror')
BY DEF Holds, HoldsNext, Reach

LEMMA ScanDirStep ==
    ASSUME Inv, TypeOK', NEW d \in Dirs, ScanDir(d)
    PROVE  Inv'
<1>1. UNCHANGED <<dagVars, repo, user, mirror, pub>> /\ srv.phase = "scan"
  BY DEF ScanDir
<1>2. Created' = Created /\ DagGrows /\ MirrorGrows /\ MirrorClosed'
  BY <1>1, SameDag, MirrorSame DEF Inv
<1>3. CASE Reply(FALSE)
  <2>1. Known(mirror)' /\ Known(pub)' /\ HoldsNext(pub')
    BY <1>1, <1>2, SrvFacts, HoldsGrows DEF Known
  <2>2. QED
    BY <1>1, <1>2, <1>3, <2>1, ReplyStep
<1>4. ASSUME NEW names \in Listings(srv[d], mirror[d]), UNCHANGED roundVars,
             srv' = [srv EXCEPT ![d] = names, !.dirs = @ \ {d}]
      PROVE  Inv'
  <2>1. names \subseteq srv[d] \cup mirror[d]
    BY <1>4 DEF Listings
  <2>2. /\ srv'.phase = "scan" /\ srv'.caller = srv.caller /\ srv'.new = srv.new
        /\ srv'.old = srv.old
        /\ srv'.ops \subseteq srv.ops \cup mirror.ops
        /\ srv'.heads \subseteq srv.heads \cup mirror.heads
    <3>1. CASE d = "ops"
      BY <1>1, <1>4, <2>1, <3>1, SrvFacts
    <3>2. CASE d = "heads"
      BY <1>1, <1>4, <2>1, <3>2, SrvFacts
    <3>3. QED
      BY <3>1, <3>2 DEF Dirs
  <2>3. Holds(srv')
    BY <2>2, SrvFacts, HoldsMirror DEF Holds
  <2>4. Known(srv')
    BY <2>2, SrvFacts DEF Known
  <2>5. HandlerInv'
    BY <1>1, <1>4, <2>2, SrvFacts DEF HandlerInv, roundVars
  <2>6. Reach(mirror.heads)' = Reach(mirror.heads)
    BY <1>1 DEF Reach, dagVars
  <2>7. Known(srv)' /\ HoldsNext(srv')
    BY <1>1, <1>2, <2>3, <2>4, <2>6 DEF Known, Holds, HoldsNext
  <2>8. QED
    BY <1>1, <1>4, <2>2, <2>5, <2>7, HandlerOnly, SrvFacts
<1>5. QED
  BY <1>3, <1>4 DEF ScanDir

LEMMA PublishStep ==
    ASSUME Inv, TypeOK', Publish
    PROVE  Inv'
<1>1. DagGrows /\ DagInv' /\ Created' = Created
  BY SameDag DEF Inv, Publish
<1>2. MirrorGrows /\ MirrorClosed'
  BY <1>1, MirrorSame DEF Publish
<1>3. pub' = [ops |-> srv.ops, heads |-> srv.heads] \/ pub' = pub
  BY DEF Publish
<1>4. Known(mirror)' /\ Known(pub)'
  BY <1>1, <1>3, SrvFacts DEF Known, Publish
<1>5. HoldsNext(pub')
  BY <1>2, <1>3, SrvFacts, HoldsGrows DEF HoldsNext
<1>6. Reply(Closed(srv.ops)) /\ Closed(srv.ops) \in BOOLEAN
  BY DEF Publish, Closed
<1>7. QED
  BY <1>2, <1>4, <1>5, <1>6, ReplyStep DEF Publish

LEMMA DropHandlerStep ==
    ASSUME Inv, TypeOK', DropHandler
    PROVE  Inv'
<1>1. /\ srv'.phase = "free" /\ srv'.caller = None /\ srv'.ops = {} /\ srv'.heads = {}
      /\ srv'.old = {} /\ srv'.new = 0
  BY DEF DropHandler, FreeSrv
<1>2. 0 \in Created
  BY DEF Inv, TypeOK, Created
<1>3. HandlerInv'
  BY <1>1, NamesAssumption DEF HandlerInv
<1>4. QED
  BY <1>1, <1>2, <1>3, HandlerOnly DEF DropHandler, Known, HoldsNext

LEMMA StartScanFacts ==
    ASSUME Inv, NEW t, srv' = StartScan(t)
    PROVE  /\ srv'.phase = "scan" /\ srv'.caller = srv.caller /\ srv'.new = 0
           /\ srv'.old = {} /\ srv'.ops = t.ops /\ srv'.heads = t.heads
BY SrvFacts DEF StartScan

\* Reconciling heads adds at most a merge of them, and the head it keeps has
\* all the others behind it.
LEMMA ResolveFacts ==
    ASSUME Inv, NEW head \in Ops, Resolves(head)
    PROVE  /\ DagGrows /\ DagInv' /\ Created \subseteq Created'
           /\ MirrorGrows /\ MirrorClosed' /\ Known(mirror)'
           /\ \A o \in Created' : o \in Created \/ author'[o] = Server
           /\ head \in Created' /\ head \in mirror'.ops /\ mirror'.heads = mirror.heads
           /\ mirror.heads \subseteq Created
           /\ mirror.heads \ {head} \subseteq ancestors'[head]
<1> DEFINE tips == Tips(mirror.heads)
<1>1. /\ mirror.heads \in SUBSET Ops /\ tips \subseteq mirror.heads
      /\ mirror.heads \in SUBSET Created
  BY SrvFacts DEF Tips, Tree, Known
<1>2. mirror.heads \subseteq Reach(tips)
  <2>1. Reach(mirror.heads) \subseteq Reach(tips)
    BY <1>1, TipsCover DEF Inv
  <2>2. QED
    BY <2>1 DEF Reach
<1>3. CASE /\ Cardinality(tips) = 1
           /\ head = CHOOSE h \in tips : TRUE
           /\ UNCHANGED <<dagVars, mirror>>
  <2>1. tips = {head}
    BY <1>1, <1>3, SingleHead
  <2>2. mirror.heads \ {head} \subseteq ancestors[head]
    BY <1>2, <2>1 DEF Reach
  <2>3. head \in mirror.ops
    BY <1>1, <2>1, SrvFacts DEF MirrorClosed
  <2>4. DagGrows /\ DagInv' /\ Created' = Created
    BY <1>3, SameDag DEF Inv
  <2>5. MirrorGrows /\ MirrorClosed' /\ Known(mirror)'
    BY <1>3, <2>4, MirrorSame, SrvFacts DEF Known
  <2>6. QED
    BY <1>1, <1>3, <2>1, <2>2, <2>3, <2>4, <2>5 DEF dagVars
<1>4. CASE /\ head = nextOp /\ NewOp(tips, Server)
           /\ mirror' = [mirror EXCEPT !.ops = @ \cup {nextOp}]
  <2>1. tips \in SUBSET Created
    BY <1>1
  <2>2. /\ DagGrows /\ DagInv'
        /\ nextOp \in Ops /\ nextOp \notin Created /\ Created' = Created \cup {nextOp}
        /\ ancestors'[nextOp] = Reach(tips) /\ author'[nextOp] = Server
    BY <1>4, <2>1, NewOpDag DEF Inv
  <2>3. mirror'.ops = mirror.ops \cup {nextOp} /\ mirror'.heads = mirror.heads
    BY <1>4, SrvFacts DEF Tree
  <2>4. Reach(mirror.heads)' = Reach(mirror.heads)
    BY <1>1, <2>2, <2>3, ReachSame DEF Reach, ReachNext
  <2>5. MirrorGrows
    BY <2>3, <2>4 DEF MirrorGrows
  <2>6. Reach(mirror.heads) \subseteq mirror.ops
    BY SrvFacts DEF Reach, MirrorClosed, Closed
  <2>7. Reach(tips) \subseteq mirror.ops
    BY <1>1, <2>6 DEF Reach
  <2>8. MirrorClosed'
    <3>1. \A o \in mirror.ops : ancestors'[o] = ancestors[o]
      BY <2>2, SrvFacts DEF DagGrows, Known
    <3>2. \A o \in mirror'.ops : ancestors'[o] \subseteq mirror'.ops
      BY <2>2, <2>3, <2>7, <3>1, SrvFacts DEF MirrorClosed, Closed
    <3>3. QED
      BY <2>3, <3>2, SrvFacts DEF MirrorClosed, Closed
  <2>9. Known(mirror)'
    BY <1>1, <2>2, <2>3, SrvFacts DEF Known
  <2>10. QED
    BY <1>1, <1>2, <1>4, <2>2, <2>3, <2>5, <2>8, <2>9
<1>5. QED
  BY <1>3, <1>4 DEF Resolves

LEMMA NormalizeStep ==
    ASSUME Inv, TypeOK', Normalize
    PROVE  Inv'
<1>1. UNCHANGED <<repo, user, saved, pub, failures>> /\ srv.phase = "normalize"
  BY DEF Normalize
<1>2. CASE Reply(FALSE) /\ UNCHANGED <<dagVars, mirror>>
  <2>1. DagGrows /\ Created' = Created
    BY <1>2, SameDag DEF Inv
  <2>2. MirrorGrows /\ MirrorClosed'
    BY <1>2, <2>1, MirrorSame
  <2>3. Known(mirror)' /\ Known(pub)' /\ HoldsNext(pub')
    BY <1>1, <1>2, <2>1, <2>2, SrvFacts, HoldsGrows DEF Known
  <2>4. QED
    BY <1>1, <1>2, <2>2, <2>3, ReplyStep
<1>3. CASE srv' = StartScan(mirror) /\ UNCHANGED <<dagVars, mirror, roundVars>>
  <2>1. 0 \in Created
    BY DEF Inv, TypeOK, Created
  <2>2. Created' = Created
    BY <1>3, SameDag DEF Inv
  <2>3. Known(srv)' /\ srv'.new \in Created /\ srv'.old \subseteq Created
    BY <1>3, <2>1, <2>2, StartScanFacts, SrvFacts DEF Known
  <2>4. HoldsNext(srv')
    BY <1>3, StartScanFacts, HoldsMirror DEF HoldsNext
  <2>5. HandlerInv'
    BY <1>3, StartScanFacts, SrvFacts DEF HandlerInv, roundVars
  <2>6. QED
    BY <1>1, <1>3, <2>3, <2>4, <2>5, HandlerOnly
<1>4. ASSUME NEW head \in Ops, Resolves(head), UNCHANGED roundVars,
             srv' = [srv EXCEPT !.phase = "swap", !.new = head, !.old = mirror.heads \ {head}]
      PROVE  Inv'
  <2>1. /\ srv'.phase = "swap" /\ srv'.caller = srv.caller /\ srv'.new = head
        /\ srv'.old = mirror.heads \ {head} /\ srv'.ops = srv.ops /\ srv'.heads = srv.heads
    BY <1>4, SrvFacts
  <2>2. Known(srv)' /\ srv'.new \in Created' /\ srv'.old \subseteq Created'
    BY <1>4, <2>1, ResolveFacts, SrvFacts DEF Known
  <2>3. HoldsNext(srv')
    BY <1>4, <2>1, ResolveFacts, SrvFacts DEF Holds, HoldsNext, MirrorGrows
  <2>4. HandlerInv'
    BY <1>4, <2>1, ResolveFacts, SrvFacts DEF HandlerInv, roundVars
  <2>5. QED
    BY <1>1, <1>4, <2>2, <2>3, <2>4, ResolveFacts, HandlerGoesOn
<1>5. QED
  BY <1>2, <1>3, <1>4 DEF Normalize

\* Markers that go lie behind a head that is there, or is added.
LEMMA HeadsReplaced ==
    ASSUME Inv, dagVars' = dagVars, NEW new \in mirror.ops, NEW heads,
           mirror' = [mirror EXCEPT !.heads = heads],
           heads \subseteq mirror.heads \cup {new},
           \A h \in mirror.heads : h \in heads \/ (new \in heads /\ h \in ancestors[new])
    PROVE  MirrorGrows /\ MirrorClosed' /\ Known(mirror)'
<1>1. mirror'.ops = mirror.ops /\ mirror'.heads = heads
  BY SrvFacts DEF Tree
<1>2. new \in Ops /\ new \in Created
  BY SrvFacts DEF Tree, Known
<1>3. ASSUME NEW x \in Reach(mirror.heads)
      PROVE  x \in Reach(mirror.heads)'
  <2>1. PICK h \in mirror.heads : x = h \/ x \in ancestors[h]
    BY <1>3 DEF Reach
  <2>2. CASE h \in mirror'.heads
    BY <2>1, <2>2 DEF Reach, dagVars
  <2>3. CASE new \in heads /\ h \in ancestors[new]
    <3>1. x \in ancestors[new]
      BY <1>2, <2>1, <2>3 DEF Inv, DagInv
    <3>2. QED
      BY <1>1, <2>3, <3>1 DEF Reach, dagVars
  <2>4. QED
    BY <1>1, <2>1, <2>2, <2>3
<1>4. MirrorClosed'
  BY <1>1, SrvFacts DEF MirrorClosed, Closed, dagVars
<1>5. Known(mirror)'
  BY <1>1, <1>2, SrvFacts DEF Known, Created, dagVars
<1>6. QED
  BY <1>1, <1>3, <1>4, <1>5 DEF MirrorGrows

\* The same for the handler's swap, finished or cut.
LEMMA SwapReach ==
    ASSUME Inv, srv.phase = "swap", dagVars' = dagVars, NEW gone \in SUBSET srv.old,
           mirror' = [mirror EXCEPT !.heads = (@ \cup {srv.new}) \ gone]
    PROVE  MirrorGrows /\ MirrorClosed' /\ Known(mirror)'
<1> DEFINE heads == (mirror.heads \cup {srv.new}) \ gone
<1>1. /\ srv.new \in mirror.ops /\ srv.old \subseteq ancestors[srv.new] /\ srv.new \in Ops
  BY SrvFacts DEF HandlerInv
<1>2. srv.new \notin ancestors[srv.new]
  BY <1>1, BoundsAssumption DEF Inv, DagInv, Ops
<1>3. srv.new \in heads
  BY <1>1, <1>2
<1>4. \A h \in mirror.heads : h \in heads \/ h \in ancestors[srv.new]
  BY <1>1
<1>5. mirror' = [mirror EXCEPT !.heads = heads] /\ heads \subseteq mirror.heads \cup {srv.new}
  OBVIOUS
<1> HIDE DEF heads
<1>6. QED
  BY <1>1, <1>3, <1>4, <1>5, HeadsReplaced

LEMMA SwapHeadsStep ==
    ASSUME Inv, TypeOK', SwapHeads
    PROVE  Inv'
<1>1. DagGrows /\ DagInv' /\ Created' = Created /\ 0 \in Created
  BY SameDag DEF Inv, SwapHeads, TypeOK, Created
<1>2. MirrorGrows /\ MirrorClosed' /\ Known(mirror)'
  BY srv.old \in SUBSET srv.old, SwapReach DEF SwapHeads
<1>3. /\ srv'.phase = "scan" /\ srv'.caller = srv.caller /\ srv'.new = 0
      /\ srv'.old = {} /\ srv'.ops = mirror'.ops /\ srv'.heads = mirror'.heads
  BY StartScanFacts DEF SwapHeads
<1>4. Known(srv)' /\ srv'.new \in Created' /\ srv'.old \subseteq Created' /\ HoldsNext(srv')
  BY <1>1, <1>2, <1>3, HoldsMirror DEF Known, HoldsNext
<1>5. HandlerInv'
  BY <1>3, SrvFacts DEF HandlerInv, SwapHeads, roundVars
<1>6. QED
  BY <1>1, <1>2, <1>4, <1>5, HandlerGoesOn DEF SwapHeads

LEMMA RestartServerStep ==
    ASSUME Inv, TypeOK', RestartServer
    PROVE  Inv'
<1>1. DagGrows /\ DagInv' /\ Created' = Created
  BY SameDag DEF Inv, RestartServer
<1>2. MirrorGrows /\ MirrorClosed' /\ Known(mirror)'
  <2>1. CASE mirror' = mirror
    BY <1>1, <2>1, MirrorSame, SrvFacts DEF Known
  <2>2. ASSUME srv.phase = "swap", NEW gone \in SUBSET srv.old,
               mirror' = [mirror EXCEPT !.heads = (@ \cup {srv.new}) \ gone]
        PROVE  MirrorGrows /\ MirrorClosed' /\ Known(mirror)'
    BY <2>2, SwapReach DEF RestartServer
  <2>3. QED
    BY <2>1, <2>2 DEF RestartServer
<1>3. Known(pub)' /\ HoldsNext(pub')
  BY <1>1, <1>2, SrvFacts, HoldsGrows DEF RestartServer, Known
<1>4. QED
  BY <1>2, <1>3, ReplyStep DEF RestartServer

(***************************************************************************)
(* Normalizations whose handler was dropped.                                *)
(***************************************************************************)
LEMMA StrayReadsStep ==
    ASSUME Inv, TypeOK', StrayReads
    PROVE  Inv'
<1>1. UNCHANGED <<repo, user, pub, srv, roundVars>>
  BY DEF StrayReads
<1>2. CASE UNCHANGED <<dagVars, mirror>>
  <2>1. HandlerInv' /\ HoldsNext(srv')
    BY <1>1, <1>2, SrvFacts DEF HandlerInv, Holds, HoldsNext, Reach, roundVars, dagVars
  <2>2. Known(srv)'
    BY <1>1, <1>2, SrvFacts DEF Known, Created, dagVars
  <2>3. QED
    BY <1>1, <1>2, <2>1, <2>2, SrvFacts, HandlerOnly
<1>3. ASSUME NEW head \in Ops, Resolves(head)
      PROVE  Inv'
  <2>1. HandlerInv' /\ HoldsNext(srv')
    BY <1>1, <1>3, ResolveFacts, SrvFacts
       DEF HandlerInv, Holds, HoldsNext, MirrorGrows, DagGrows, roundVars
  <2>2. Known(srv)' /\ srv'.new \in Created' /\ srv'.old \subseteq Created'
    BY <1>1, <1>3, ResolveFacts, SrvFacts DEF Known
  <2>3. QED
    BY <1>1, <1>3, <2>1, <2>2, ResolveFacts, HandlerGoesOn
<1>4. QED
  BY <1>2, <1>3 DEF StrayReads

LEMMA StraySwapsReach ==
    ASSUME Inv, StrayInv, StraySwaps
    PROVE  MirrorGrows /\ MirrorClosed' /\ Known(mirror)'
<1>1. dagVars' = dagVars /\ stray.new \in mirror.ops /\ stray.old \subseteq ancestors[stray.new]
  BY DEF StraySwaps, StrayInv
<1>2. CASE mirror' = mirror
  <2>1. DagGrows /\ Created' = Created
    BY <1>1, SameDag DEF Inv
  <2>2. QED
    BY <1>2, <2>1, MirrorSame, SrvFacts DEF Known
<1>3. CASE mirror' = [mirror EXCEPT !.heads = mirror.heads \cup {stray.new}]
  BY <1>1, <1>3, HeadsReplaced
<1>4. ASSUME NEW h \in stray.old, stray.new \in mirror.heads,
             mirror' = [mirror EXCEPT !.heads = mirror.heads \ {h}]
      PROVE  MirrorGrows /\ MirrorClosed' /\ Known(mirror)'
  <2>1. h \in ancestors[stray.new] /\ stray.new \in Ops
    BY <1>1, <1>4, SrvFacts DEF Tree
  <2>2. h # stray.new
    BY <2>1, BoundsAssumption DEF Inv, DagInv, Ops
  <2>3. stray.new \in mirror.heads \ {h}
    BY <1>4, <2>2
  <2>4. \A g \in mirror.heads : g \in mirror.heads \ {h} \/ g \in ancestors[stray.new]
    BY <2>1
  <2>5. QED
    BY <1>1, <1>4, <2>3, <2>4, HeadsReplaced
<1>5. QED
  BY <1>2, <1>3, <1>4 DEF StraySwaps

LEMMA StraySwapsStep ==
    ASSUME Inv, TypeOK', StrayInv, StraySwaps
    PROVE  Inv'
<1>1. UNCHANGED <<dagVars, repo, user, pub, srv, roundVars>>
  BY DEF StraySwaps
<1>2. DagGrows /\ DagInv' /\ Created' = Created
  BY <1>1, SameDag DEF Inv
<1>3. MirrorGrows /\ MirrorClosed' /\ Known(mirror)'
  BY StraySwapsReach
<1>4. HandlerInv' /\ HoldsNext(srv')
  BY <1>1, <1>2, <1>3, SrvFacts
     DEF HandlerInv, Holds, HoldsNext, MirrorGrows, DagGrows, roundVars
<1>5. Known(srv)' /\ srv'.new \in Created' /\ srv'.old \subseteq Created'
  BY <1>1, <1>2, SrvFacts DEF Known
<1>6. QED
  BY <1>1, <1>2, <1>3, <1>4, <1>5, HandlerGoesOn

(***************************************************************************)
(* Uploads.                                                                 *)
(***************************************************************************)
LEMMA UploadStep ==
    ASSUME Inv, TypeOK', NEW p \in Procs, NEW d \in Dirs, NEW o \in Ops, Upload(p, d, o)
    PROVE  Inv'
<1> DEFINE t == repo[Home[p]]
<1>1. pc[p] = "push" /\ Ready(p, d, o)
  BY DEF Upload
<1>2. CASE EndRound(p) /\ UNCHANGED mirror
  BY <1>1, <1>2, GiveUpStep DEF Upload
<1>3. CASE /\ o \in t[d] /\ mirror' = [mirror EXCEPT ![d] = @ \cup {o}]
           /\ Done(p, d, o) /\ UNCHANGED <<pc, man, dirs>>
  <2>1. /\ t.heads \subseteq t.ops
        /\ t.ops \subseteq mirror.ops \cup files[p].ops
        /\ t.heads \subseteq Reach(mirror.heads) \cup files[p].heads
        /\ \A x \in files[p].ops : ancestors[x] \subseteq mirror.ops \cup files[p].ops
    BY <1>1, RoundFacts DEF RoundInv
  <2>2. DagGrows /\ DagInv' /\ Created' = Created /\ UNCHANGED <<dagVars, repo, user, pub, srv>>
    BY SameDag DEF Inv, Upload
  <2>3. /\ mirror.ops \subseteq mirror'.ops
        /\ mirror'.ops \subseteq mirror.ops \cup {o}
        /\ d = "ops" => o \in mirror'.ops /\ mirror'.heads = mirror.heads
        /\ d = "heads" => mirror'.heads = mirror.heads \cup {o} /\ mirror'.ops = mirror.ops
    <3>1. CASE d = "ops"
      BY <1>3, <3>1, SrvFacts DEF Tree
    <3>2. CASE d = "heads"
      BY <1>3, <3>2, SrvFacts DEF Tree
    <3>3. QED
      BY <3>1, <3>2 DEF Dirs
  <2>4. MirrorGrows
    <3>1. mirror.heads \subseteq mirror'.heads
      BY <2>3 DEF Dirs
    <3>2. Reach(mirror.heads) \subseteq Reach(mirror.heads)'
      BY <2>2, <3>1 DEF Reach, dagVars
    <3>3. QED
      BY <2>3, <3>2 DEF MirrorGrows
  <2>5. o \in Created
    <3>1. CASE d = "ops"
      BY <1>3, <3>1, RoundFacts DEF Known
    <3>2. CASE d = "heads"
      BY <1>3, <3>2, RoundFacts DEF Known
    <3>3. QED
      BY <3>1, <3>2 DEF Dirs
  <2>6. MirrorClosed' /\ Known(mirror)'
    <3>1. CASE d = "ops"
      <4>1. o \in files[p].ops /\ ancestors[o] \cap files[p].ops = {}
        BY <1>1, <3>1 DEF Ready
      <4>2. ancestors[o] \subseteq mirror.ops
        BY <2>1, <4>1
      <4>3. QED
        BY <2>2, <2>3, <2>5, <3>1, <4>2, SrvFacts
           DEF MirrorClosed, Closed, Known, dagVars
    <3>2. CASE d = "heads"
      <4>1. files[p].ops = {}
        BY <1>1, <3>2 DEF Ready
      <4>2. o \in mirror.ops
        BY <1>3, <2>1, <3>2, <4>1
      <4>3. QED
        BY <2>2, <2>3, <2>5, <3>2, <4>2, SrvFacts
           DEF MirrorClosed, Closed, Known, dagVars
    <3>3. QED
      BY <3>1, <3>2 DEF Dirs
  <2>7. /\ Known(files[p])' /\ \A q \in Procs : q # p => files'[q] = files[q]
        /\ files'[p].ops = IF d = "ops" THEN files[p].ops \ {o} ELSE files[p].ops
        /\ files'[p].heads = IF d = "heads" THEN files[p].heads \ {o} ELSE files[p].heads
    BY <1>3, <2>2, DoneFacts DEF Known
  <2>8. RoundInv(p)'
    <3>1. t.ops \subseteq mirror'.ops \cup files'[p].ops
      BY <2>1, <2>3, <2>7
    <3>2. t.heads \subseteq Reach(mirror.heads)' \cup files'[p].heads
      BY <2>1, <2>3, <2>4, <2>7 DEF MirrorGrows, Reach
    <3>3. \A x \in files'[p].ops : ancestors[x] \subseteq mirror'.ops \cup files'[p].ops
      BY <2>1, <2>3, <2>7
    <3>4. QED
      BY <1>1, <1>3, <2>1, <2>2, <3>1, <3>2, <3>3 DEF RoundInv, dagVars
  <2>9. Answered(p)
    BY <1>1, <1>3, <2>2, <2>4, <2>7, <2>8, RoundFacts, HoldsGrows DEF Answered, Known
  <2>10. \A q \in Procs : q # p => Unanswered(q)
    BY <1>3, <2>7 DEF Unanswered
  <2>11. HandlerInv'
    BY <1>3, <2>2, <2>3, SrvFacts DEF HandlerInv, dagVars
  <2>12. /\ Known(srv)' /\ srv'.new \in Created' /\ srv'.old \subseteq Created'
         /\ Known(pub)' /\ HoldsNext(pub') /\ HoldsNext(srv')
    BY <2>2, <2>4, SrvFacts, HoldsGrows DEF Known
  <2>13. QED
    BY <2>2, <2>4, <2>6, <2>9, <2>10, <2>11, <2>12, ServerStep
<1>4. QED
  BY <1>2, <1>3 DEF Upload

(***************************************************************************)
(* Steps that write a replica.                                              *)
(***************************************************************************)
KeepsNext(t, o) == o \in t.ops /\ o \in ReachNext(t.heads)

LEMMA KeepsFrame ==
    ASSUME Inv, DagGrows, NEW r \in Repos, NEW o
    PROVE  Keeps(repo[r], o) <=> KeepsNext(repo[r], o)
<1>1. repo[r].heads \in SUBSET Created
  BY DEF Inv, KnownInv, Known
<1>2. QED
  BY <1>1, ReachSame DEF Keeps, KeepsNext

LEMMA EditsKept ==
    ASSUME Inv, TypeOK', DagGrows, MirrorGrows,
           \A r \in Repos : \A o \in Created :
               o # 0 /\ user'[r].op # o /\ author[o] = r /\ (Keeps(repo[r], o) \/ user[r].op = o)
                   => KeepsNext(repo'[r], o) \/ Keeps(mirror, o),
           \A o \in Created' \ Created :
               author'[o] \in Repos =>
                   user'[author'[o]].op = o \/ KeepsNext(repo'[author'[o]], o)
    PROVE  NoEditLost'
<1> SUFFICES ASSUME NEW o \in Created', o # 0, author'[o] \in Repos,
                    user'[author'[o]].op # o
             PROVE  Keeps(mirror, o)' \/ Keeps(repo[author[o]], o)'
  <2>1. nextOp' \in 1 .. MaxOps + 1
    BY DEF TypeOK
  <2>2. (1 .. nextOp' - 1) = Created' \ {0}
    BY <2>1, EditsInterval DEF Created
  <2>3. QED
    BY <2>2 DEF NoEditLost
<1>1. KeepsNext(repo'[author'[o]], o) => Keeps(repo[author[o]], o)'
  BY DEF Keeps, KeepsNext, Reach, ReachNext
<1>2. Keeps(mirror, o) => Keeps(mirror, o)'
  BY DEF Keeps, MirrorGrows
<1>3. CASE o \notin Created
  BY <1>1, <1>3
<1>4. CASE o \in Created
  <2>1. author'[o] = author[o]
    BY <1>4 DEF DagGrows
  <2>2. o \in 1 .. nextOp - 1
    <3>1. nextOp \in 1 .. MaxOps + 1
      BY DEF Inv, TypeOK
    <3>2. (1 .. nextOp - 1) = Created \ {0}
      BY <3>1, EditsInterval DEF Created
    <3>3. QED
      BY <1>4, <3>2
  <2>3. user[author[o]].op = o \/ Keeps(mirror, o) \/ Keeps(repo[author[o]], o)
    BY <2>1, <2>2 DEF Inv, NoEditLost
  <2>4. QED
    BY <1>1, <1>2, <1>4, <2>1, <2>3
<1>5. QED
  BY <1>3, <1>4

LEMMA RepoStep ==
    ASSUME Inv, TypeOK', OneWriter, NEW p \in Procs,
           UNCHANGED <<user, mirror, pub, srv>>, DagGrows, DagInv',
           ~Editing(Home[p]), pc[p] # "wait",
           \A r \in Repos : r # Home[p] => repo'[r] = repo[r],
           \A q \in Procs : q # p => Unanswered(q),
           Known(repo[Home[p]])', Known(man[p])', Known(files[p])', Holds(man'[p]),
           RoundInv(p)',
           \A o \in Created : Keeps(repo[Home[p]], o)
                                  => KeepsNext(repo'[Home[p]], o) \/ Keeps(mirror, o),
           \A o \in Created' \ Created :
               author'[o] = Home[p] /\ KeepsNext(repo'[Home[p]], o)
    PROVE  Inv'
<1>1. Created \subseteq Created'
  BY CreatedGrows DEF Inv
<1>2. MirrorGrows /\ MirrorClosed'
  BY MirrorSame
<1>3. KnownInv'
  <2>1. Known(mirror)' /\ Known(pub)'
    BY <1>1, SrvFacts DEF Known
  <2>2. ASSUME NEW r \in Repos
        PROVE  Known(repo[r])'
    <3>1. CASE r = Home[p]
      BY <3>1 DEF Known
    <3>2. CASE r # Home[p]
      BY <1>1, <3>2 DEF Inv, KnownInv, Known
    <3>3. QED
      BY <3>1, <3>2
  <2>3. \A r \in Repos : user'[r].op \in Created' /\ user'[r].old \subseteq Created'
    BY <1>1 DEF Inv, KnownInv
  <2>4. ASSUME NEW q \in Procs
        PROVE  Known(man[q])' /\ Known(files[q])'
    <3>1. CASE q = p
      BY <3>1 DEF Known
    <3>2. CASE q # p
      BY <1>1, <3>2 DEF Inv, KnownInv, Known, Unanswered
    <3>3. QED
      BY <3>1, <3>2
  <2>5. Known(srv)' /\ srv'.new \in Created' /\ srv'.old \subseteq Created'
    BY <1>1, SrvFacts DEF Known
  <2>6. QED
    BY <2>1, <2>2, <2>3, <2>4, <2>5 DEF KnownInv
<1>4. ManifestInv'
  <2>1. \A t : Holds(t) => HoldsNext(t)
    BY <1>2, HoldsGrows
  <2>2. \A q \in Procs : HoldsNext(man'[q])
    BY <2>1 DEF Inv, ManifestInv, Unanswered
  <2>3. QED
    BY <2>1, <2>2, SrvFacts DEF ManifestInv, Holds, HoldsNext
<1>5. HandlerInv'
  BY SrvFacts DEF HandlerInv, Unanswered, DagGrows
<1>6. \A q \in Procs : RoundInv(q)'
  <2> SUFFICES ASSUME NEW q \in Procs, q # p
               PROVE  RoundInv(q)'
    OBVIOUS
  <2>1. Home[q] # Home[p] /\ Home[q] \in Repos
    BY HomeAssumption DEF OneWriter
  <2>2. QED
    BY <1>2, <2>1, RoundFrame DEF Unanswered
<1>7. \A r \in Repos : UserInv(r)'
  <2> SUFFICES ASSUME NEW r \in Repos
               PROVE  UserInv(r)'
    OBVIOUS
  <2>1. CASE r = Home[p]
    <3>1. ~Editing(r)'
      BY <2>1 DEF Editing
    <3>2. QED
      BY <3>1 DEF UserInv
  <2>2. CASE r # Home[p]
    <3>1. Editing(r) => ~Syncing(r)'
      <4>1. ASSUME NEW q \in Procs, Home[q] = r
            PROVE  pc'[q] = pc[q]
        BY <2>2, <4>1 DEF Unanswered
      <4>2. Editing(r) => ~Syncing(r)
        BY DEF Inv, UserInv
      <4>3. QED
        BY <4>1, <4>2 DEF Syncing
    <3>2. QED
      BY <2>2, <3>1, UserFrame
  <2>3. QED
    BY <2>1, <2>2
<1>8. NoEditLost'
  <2>1. ASSUME NEW r \in Repos, NEW o \in Created, user'[r].op # o, Keeps(repo[r], o)
        PROVE  KeepsNext(repo'[r], o) \/ Keeps(mirror, o)
    BY <2>1, KeepsFrame
  <2>2. QED
    BY <1>2, <2>1, EditsKept
<1>9. QED
  BY <1>2, <1>3, <1>4, <1>5, <1>6, <1>7, <1>8 DEF Inv

LEMMA DownloadStep ==
    ASSUME Inv, TypeOK', OneWriter, NEW p \in Procs, NEW d \in Dirs, NEW o \in Ops,
           Download(p, d, o)
    PROVE  Inv'
<1> DEFINE t == repo[Home[p]]
           tt == repo'[Home[p]]
<1>1. /\ pc[p] = "pull" /\ pc' = pc /\ man' = man /\ o \in mirror[d] /\ Done(p, d, o)
      /\ UNCHANGED <<dagVars, user, mirror, pub, srv>>
  BY DEF Download
<1>2. DagGrows /\ DagInv' /\ Created' = Created
  BY <1>1, SameDag DEF Inv
<1>3. /\ t.ops \subseteq tt.ops /\ tt.ops \subseteq t.ops \cup mirror.ops
      /\ t.heads \subseteq tt.heads /\ tt.heads \subseteq t.heads \cup mirror.heads
      /\ \A r \in Repos : r # Home[p] => repo'[r] = repo[r]
  <2>1. tt = [t EXCEPT ![d] = @ \cup {o}] /\ \A r \in Repos : r # Home[p] => repo'[r] = repo[r]
    BY RoundFacts DEF Download
  <2>2. t \in Tree
    BY RoundFacts
  <2>3. CASE d = "ops"
    BY <1>1, <2>1, <2>2, <2>3 DEF Tree
  <2>4. CASE d = "heads"
    BY <1>1, <2>1, <2>2, <2>4 DEF Tree
  <2>5. QED
    BY <2>3, <2>4 DEF Dirs
<1>4. ~Editing(Home[p])
  BY <1>1, HomeAssumption DEF Inv, UserInv, Syncing
<1>5. Known(repo[Home[p]])' /\ Known(man[p])' /\ Known(files[p])' /\ Holds(man'[p])
  <2>1. Known(tt)
    BY <1>3, RoundFacts DEF Known
  <2>2. Known(man'[p]) /\ Known(files'[p]) /\ Holds(man'[p])
    BY <1>1, DoneFacts, RoundFacts
  <2>3. QED
    BY <1>2, <2>1, <2>2 DEF Known
<1>6. RoundInv(p)'
  <2>1. Holds(t)
    BY <1>1, RoundFacts DEF RoundInv
  <2>2. Holds(tt)
    BY <1>3, <2>1 DEF Holds, Reach
  <2>3. QED
    BY <1>1, <2>2 DEF RoundInv, Holds, Reach, dagVars
<1>7. ASSUME NEW x \in Created, Keeps(t, x)
      PROVE  KeepsNext(tt, x)
  <2>1. KeepsNext(t, x)
    BY <1>2, <1>7, KeepsFrame, RoundFacts
  <2>2. QED
    BY <1>3, <2>1 DEF KeepsNext, ReachNext
<1>8. \A q \in Procs : q # p => Unanswered(q)
  BY <1>1, DoneFacts DEF Unanswered
<1>9. \A x \in Created' \ Created : author'[x] = Home[p] /\ KeepsNext(repo'[Home[p]], x)
  BY <1>2
<1>10. QED
  BY <1>1, <1>2, <1>3, <1>4, <1>5, <1>6, <1>7, <1>8, <1>9, RepoStep

\* Every operation of the replica is kept by the mirror before any is pruned.
LEMMA PruneStep ==
    ASSUME Inv, TypeOK', OneWriter, NEW p \in Procs, NEW d \in Dirs, NEW o \in Ops,
           Prune(p, d, o)
    PROVE  Inv'
<1> DEFINE t == repo[Home[p]]
           tt == repo'[Home[p]]
<1>1. pc[p] = "prune" /\ UNCHANGED <<dagVars, user, mirror, pub, srv>>
  BY DEF Prune
<1>2. CASE EndRound(p) /\ UNCHANGED repo
  BY <1>1, <1>2, GiveUpStep
<1>3. CASE /\ repo' = [repo EXCEPT ![Home[p]][d] = @ \ {o}]
           /\ Done(p, d, o) /\ UNCHANGED <<pc, man, dirs>>
  <2>1. DagGrows /\ DagInv' /\ Created' = Created
    BY <1>1, SameDag DEF Inv
  <2>2. /\ tt.ops \subseteq t.ops /\ tt.heads \subseteq t.heads
        /\ \A r \in Repos : r # Home[p] => repo'[r] = repo[r]
    <3>1. tt = [t EXCEPT ![d] = @ \ {o}] /\ \A r \in Repos : r # Home[p] => repo'[r] = repo[r]
      BY <1>3, RoundFacts
    <3>2. t \in Tree
      BY RoundFacts
    <3>3. CASE d = "ops"
      BY <3>1, <3>2, <3>3 DEF Tree
    <3>4. CASE d = "heads"
      BY <3>1, <3>2, <3>4 DEF Tree
    <3>5. QED
      BY <3>1, <3>3, <3>4 DEF Dirs
  <2>3. ~Editing(Home[p])
    BY <1>1, HomeAssumption DEF Inv, UserInv, Syncing
  <2>4. Known(repo[Home[p]])' /\ Known(man[p])' /\ Known(files[p])' /\ Holds(man'[p])
    <3>1. Known(tt)
      BY <2>2, RoundFacts DEF Known
    <3>2. Known(man'[p]) /\ Known(files'[p]) /\ Holds(man'[p])
      BY <1>3, DoneFacts, RoundFacts
    <3>3. QED
      BY <2>1, <3>1, <3>2 DEF Known
  <2>5. Holds(t)
    BY <1>1, RoundFacts DEF RoundInv
  <2>6. RoundInv(p)'
    <3>1. Holds(tt)
      BY <2>2, <2>5 DEF Holds
    <3>2. QED
      BY <1>1, <1>3, <3>1 DEF RoundInv, Holds, Reach, dagVars
  <2>7. ASSUME NEW x \in Created, Keeps(t, x)
        PROVE  Keeps(mirror, x)
    <3>1. t.heads \in SUBSET Ops /\ mirror.heads \in SUBSET Ops
      BY RoundFacts, SrvFacts DEF Tree
    <3>2. Reach(t.heads) \subseteq Reach(mirror.heads)
      BY <2>5, <3>1, ReachReach DEF Inv, Holds
    <3>3. QED
      BY <2>5, <2>7, <3>2 DEF Keeps, Holds
  <2>8. \A q \in Procs : q # p => Unanswered(q)
    BY <1>3, DoneFacts DEF Unanswered
  <2>9. \A x \in Created' \ Created : author'[x] = Home[p] /\ KeepsNext(repo'[Home[p]], x)
    BY <2>1
  <2>10. QED
    BY <1>1, <2>1, <2>2, <2>3, <2>4, <2>6, <2>7, <2>8, <2>9, RepoStep
<1>4. QED
  BY <1>2, <1>3 DEF Prune

LEMMA StartRoundStep ==
    ASSUME Inv, TypeOK', OneWriter, NEW p \in Procs, StartRound(p)
    PROVE  Inv'
<1> DEFINE r == Home[p]
           t == repo[r]
           tt == repo'[r]
           tips == Tips(t.heads)
<1>1. /\ pc[p] = "idle" /\ ~Editing(r) /\ t.heads \subseteq t.ops
      /\ man' = [man EXCEPT ![p] = pub] /\ StartListing(p, "index_push", tt)
      /\ UNCHANGED <<user, saved, mirror, pub, srv, failures>>
  BY DEF StartRound, OneWriter, Loadable
<1>2. t \in Tree /\ r \in Repos /\ Known(t) /\ t.heads \in SUBSET Ops /\ t.heads \in SUBSET Created
  BY RoundFacts DEF Tree, Known
<1>3. tips \in SUBSET Created /\ tips \subseteq t.heads /\ Reach(t.heads) \subseteq Reach(tips)
  BY <1>2, TipsCover DEF Tips, Inv
<1>4. /\ DagGrows /\ DagInv' /\ tt.heads \subseteq tt.ops /\ t.ops \subseteq tt.ops
      /\ tt.ops \subseteq Created' /\ Reach(t.heads) \subseteq ReachNext(tt.heads)
      /\ \A o \in Created' \ Created : author'[o] = r /\ KeepsNext(tt, o)
      /\ \A s \in Repos : s # r => repo'[s] = repo[s]
  <2>1. CASE repo' = [repo EXCEPT ![r].heads = tips] /\ UNCHANGED dagVars
    <3>1. DagGrows /\ DagInv' /\ Created' = Created
      BY <2>1, SameDag DEF Inv
    <3>2. /\ tt.ops = t.ops /\ tt.heads = tips
          /\ \A s \in Repos : s # r => repo'[s] = repo[s]
      BY <1>2, <2>1, RoundFacts DEF Tree
    <3>3. Reach(t.heads) \subseteq ReachNext(tt.heads)
      BY <1>3, <3>1, <3>2, ReachSame
    <3>4. QED
      BY <1>1, <1>2, <1>3, <3>1, <3>2, <3>3 DEF Known
  <2>2. CASE /\ NewOp(tips, r)
             /\ repo' = [repo EXCEPT ![r] = [ops |-> @.ops \cup {nextOp}, heads |-> {nextOp}]]
    <3>1. /\ DagGrows /\ DagInv' /\ Created' = Created \cup {nextOp}
          /\ ancestors'[nextOp] = Reach(tips) /\ author'[nextOp] = r
      BY <1>2, <1>3, <2>2, NewOpDag DEF Inv
    <3>2. /\ tt.ops = t.ops \cup {nextOp} /\ tt.heads = {nextOp}
          /\ \A s \in Repos : s # r => repo'[s] = repo[s]
      BY <1>2, <2>2, RoundFacts DEF Tree
    <3>3. ReachNext({nextOp}) = {nextOp} \cup Reach(tips)
      BY <3>1 DEF ReachNext
    <3>4. Reach(t.heads) \subseteq ReachNext(tt.heads) /\ KeepsNext(tt, nextOp)
      BY <1>3, <3>2, <3>3 DEF KeepsNext
    <3>5. QED
      BY <1>2, <3>1, <3>2, <3>4 DEF Known
  <2>3. QED
    BY <1>1, <2>1, <2>2 DEF StartRound
<1>5. /\ pc'[p] = "index_push" /\ man'[p] = pub /\ files'[p] = tt
      /\ \A q \in Procs : q # p => Unanswered(q)
  BY <1>1, RoundFacts DEF StartListing, GoTo, WorkOn, Unanswered
<1>6. RoundInv(p)'
  BY <1>4, <1>5 DEF RoundInv
<1>7. Known(repo[Home[p]])' /\ Known(man[p])' /\ Known(files[p])' /\ Holds(man'[p])
  <2>1. Created \subseteq Created'
    BY <1>4, CreatedGrows DEF Inv
  <2>2. QED
    BY <1>4, <1>5, <2>1, SrvFacts DEF Known
<1>8. \A o \in Created : Keeps(t, o) => KeepsNext(tt, o)
  BY <1>4 DEF Keeps, KeepsNext
<1>9. QED
  BY <1>1, <1>4, <1>5, <1>6, <1>7, <1>8, RepoStep

LEMMA UserStep ==
    ASSUME Inv, TypeOK', NEW r \in Repos, UNCHANGED <<mirror, pub, srv, roundVars>>,
           DagGrows, DagInv', ~Syncing(r),
           \A s \in Repos : s # r => repo'[s] = repo[s] /\ user'[s] = user[s],
           Known(repo[r])', user'[r].op \in Created', user'[r].old \subseteq Created',
           UserInv(r)', NoEditLost'
    PROVE  Inv'
<1>1. Created \subseteq Created'
  BY CreatedGrows DEF Inv
<1>2. MirrorGrows /\ MirrorClosed'
  BY MirrorSame
<1>3. KnownInv'
  <2>1. Known(mirror)' /\ Known(pub)' /\ Known(srv)' /\ srv'.new \in Created'
        /\ srv'.old \subseteq Created'
    BY <1>1, SrvFacts DEF Known
  <2>2. ASSUME NEW s \in Repos
        PROVE  Known(repo[s])' /\ user'[s].op \in Created' /\ user'[s].old \subseteq Created'
    <3>1. CASE s = r
      BY <3>1 DEF Known
    <3>2. CASE s # r
      BY <1>1, <3>2 DEF Inv, KnownInv, Known
    <3>3. QED
      BY <3>1, <3>2
  <2>3. \A q \in Procs : Known(man[q])' /\ Known(files[q])'
    BY <1>1 DEF Inv, KnownInv, Known, roundVars
  <2>4. QED
    BY <2>1, <2>2, <2>3 DEF KnownInv
<1>4. ManifestInv' /\ HandlerInv'
  <2>1. \A t : Holds(t) => HoldsNext(t)
    BY <1>2, HoldsGrows
  <2>2. \A q \in Procs : HoldsNext(man'[q])
    BY <2>1 DEF Inv, ManifestInv, roundVars
  <2>3. ManifestInv'
    BY <2>1, <2>2, SrvFacts DEF ManifestInv, Holds, HoldsNext
  <2>4. HandlerInv'
    BY SrvFacts DEF HandlerInv, DagGrows, roundVars
  <2>5. QED
    BY <2>3, <2>4
<1>5. \A q \in Procs : RoundInv(q)'
  <2> SUFFICES ASSUME NEW q \in Procs
               PROVE  RoundInv(q)'
    OBVIOUS
  <2>1. CASE Home[q] = r
    <3>1. pc'[q] = "idle"
      BY <2>1 DEF Syncing, roundVars
    <3>2. QED
      BY <3>1 DEF RoundInv
  <2>2. CASE Home[q] # r
    BY <1>2, <2>2, RoundFrame, HomeAssumption DEF roundVars
  <2>3. QED
    BY <2>1, <2>2
<1>6. \A s \in Repos : UserInv(s)'
  <2> SUFFICES ASSUME NEW s \in Repos, s # r
               PROVE  UserInv(s)'
    OBVIOUS
  <2>1. Editing(s) => ~Syncing(s)'
    BY DEF Inv, UserInv, Syncing, roundVars
  <2>2. QED
    BY <2>1, UserFrame
<1>7. QED
  BY <1>2, <1>3, <1>4, <1>5, <1>6 DEF Inv

LEMMA UserWritesOpStep ==
    ASSUME Inv, TypeOK', OneWriter, NEW r \in Repos, UserWritesOp(r)
    PROVE  Inv'
<1> DEFINE t == repo[r]
           tt == repo'[r]
<1>1. /\ ~Editing(r) /\ ~Syncing(r) /\ NewOp(t.heads, r)
      /\ UNCHANGED <<mirror, pub, srv, roundVars>>
  BY DEF UserWritesOp, OneWriter
<1>2. t \in Tree /\ Known(t) /\ t.heads \in SUBSET Created
  BY DEF Inv, TypeOK, KnownInv, Known
<1>3. /\ DagGrows /\ DagInv' /\ nextOp \notin Created /\ Created' = Created \cup {nextOp}
      /\ ancestors'[nextOp] = Reach(t.heads) /\ author'[nextOp] = r
  BY <1>1, <1>2, NewOpDag DEF Inv
<1>4. /\ tt.ops = t.ops \cup {nextOp} /\ tt.heads = t.heads
      /\ user'[r].op = nextOp /\ user'[r].old = t.heads
      /\ \A s \in Repos : s # r => repo'[s] = repo[s] /\ user'[s] = user[s]
  BY <1>2 DEF UserWritesOp, Inv, TypeOK, Tree
<1>5. Known(repo[r])' /\ user'[r].op \in Created' /\ user'[r].old \subseteq Created'
  BY <1>2, <1>3, <1>4 DEF Known
<1>6. UserInv(r)'
  BY <1>1, <1>3, <1>4 DEF UserInv, Syncing, Reach, roundVars
<1>7. NoEditLost'
  <2>1. ASSUME NEW s \in Repos, NEW o \in Created, o # 0, user'[s].op # o, author[o] = s,
               Keeps(repo[s], o) \/ user[s].op = o
        PROVE  KeepsNext(repo'[s], o) \/ Keeps(mirror, o)
    <3>1. CASE s # r
      BY <1>3, <1>4, <2>1, <3>1, KeepsFrame
    <3>2. CASE s = r /\ Keeps(repo[s], o)
      <4>1. KeepsNext(t, o)
        BY <1>3, <3>2, KeepsFrame
      <4>2. QED
        BY <1>4, <3>2, <4>1 DEF KeepsNext
    <3>3. user[r].op = 0
      BY <1>1 DEF Editing
    <3>4. QED
      BY <2>1, <3>1, <3>2, <3>3
  <2>2. MirrorGrows
    BY <1>1, <1>3, MirrorSame
  <2>3. \A o \in Created' \ Created : user'[author'[o]].op = o
    BY <1>3, <1>4
  <2>4. QED
    BY <1>3, <2>1, <2>2, <2>3, EditsKept
<1>8. QED
  BY <1>1, <1>3, <1>4, <1>5, <1>6, <1>7, UserStep

\* The new head leads to the heads it replaces and to the new operation.
LEMMA UserPublishesHeadStep ==
    ASSUME Inv, TypeOK', NEW r \in Repos, UserPublishesHead(r)
    PROVE  Inv'
<1> DEFINE t == repo[r]
           tt == repo'[r]
           new == user[r].op
<1>1. /\ new # 0 /\ ~Syncing(r) /\ new \in t.ops /\ user[r].old \subseteq ancestors[new]
      /\ UNCHANGED <<dagVars, mirror, pub, srv, roundVars>>
  BY DEF UserPublishesHead, Editing, Inv, UserInv
<1>2. t \in Tree /\ Known(t) /\ new \in Ops /\ new \in Created
  BY DEF Inv, TypeOK, KnownInv
<1>3. DagGrows /\ DagInv' /\ Created' = Created /\ 0 \in Created
  BY <1>1, SameDag DEF Inv, TypeOK, Created
<1>4. /\ tt.ops = t.ops /\ tt.heads = (t.heads \ user[r].old) \cup {new}
      /\ user'[r].op = 0 /\ user'[r].old = {}
      /\ \A s \in Repos : s # r => repo'[s] = repo[s] /\ user'[s] = user[s]
  BY <1>2 DEF UserPublishesHead, Inv, TypeOK, Tree
<1>5. Known(repo[r])' /\ user'[r].op \in Created' /\ user'[r].old \subseteq Created'
  BY <1>2, <1>3, <1>4 DEF Known
<1>6. UserInv(r)'
  BY <1>4 DEF UserInv, Editing
<1>7. ASSUME NEW o, Keeps(t, o) \/ o = new
      PROVE  KeepsNext(tt, o)
  <2>1. CASE o = new
    BY <1>1, <1>4, <2>1 DEF KeepsNext, ReachNext
  <2>2. CASE Keeps(t, o)
    <3>1. PICK h \in t.heads : o = h \/ o \in ancestors[h]
      BY <2>2 DEF Keeps, Reach
    <3>2. CASE h \notin user[r].old
      BY <1>1, <1>4, <2>2, <3>1, <3>2 DEF Keeps, KeepsNext, ReachNext, dagVars
    <3>3. CASE h \in user[r].old
      <4>1. o \in ancestors[new]
        BY <1>1, <1>2, <3>1, <3>3 DEF Inv, DagInv
      <4>2. QED
        BY <1>1, <1>4, <2>2, <4>1 DEF Keeps, KeepsNext, ReachNext, dagVars
    <3>4. QED
      BY <3>2, <3>3
  <2>3. QED
    BY <1>7, <2>1, <2>2
<1>8. NoEditLost'
  <2>1. ASSUME NEW s \in Repos, NEW o \in Created, o # 0, user'[s].op # o, author[o] = s,
               Keeps(repo[s], o) \/ user[s].op = o
        PROVE  KeepsNext(repo'[s], o) \/ Keeps(mirror, o)
    <3>1. CASE s # r
      BY <1>3, <1>4, <2>1, <3>1, KeepsFrame
    <3>2. CASE s = r
      BY <1>7, <2>1, <3>2
    <3>3. QED
      BY <3>1, <3>2
  <2>2. MirrorGrows
    BY <1>1, <1>3, MirrorSame
  <2>3. QED
    BY <1>3, <2>1, <2>2, EditsKept
<1>9. QED
  BY <1>1, <1>3, <1>4, <1>5, <1>6, <1>8, UserStep

(***************************************************************************)
(* The invariant and what follows from it.                                  *)
(***************************************************************************)
LEMMA InitInv == Init => Inv
<1> SUFFICES ASSUME Init
             PROVE  Inv
  OBVIOUS
<1>1. TypeOK
  BY InitType
<1>2. nextOp = 1 /\ Created = {0} /\ 0 \in Ops
  BY BoundsAssumption DEF Init, Created, Ops
<1>3. \A o \in Ops : ancestors[o] = {}
  BY DEF Init
<1>4. Reach(mirror.heads) = {0}
  BY <1>2, <1>3 DEF Init, FirstTree, Reach
<1>5. DagInv
  BY <1>3 DEF DagInv
<1>6. KnownInv
  BY <1>2 DEF Init, KnownInv, Known, FirstTree, NoFiles, FreeSrv
<1>7. MirrorClosed
  BY <1>2, <1>3 DEF Init, MirrorClosed, Closed, FirstTree
<1>8. ManifestInv
  BY <1>4 DEF Init, ManifestInv, Holds, FirstTree, NoFiles, FreeSrv
<1>9. HandlerInv
  BY NamesAssumption DEF Init, HandlerInv, FreeSrv
<1>10. \A p \in Procs : RoundInv(p)
  BY DEF Init, RoundInv
<1>11. \A r \in Repos : UserInv(r)
  BY DEF Init, UserInv, Editing
<1>12. NoEditLost
  BY <1>2 DEF NoEditLost
<1>13. QED
  BY <1>1, <1>5, <1>6, <1>7, <1>8, <1>9, <1>10, <1>11, <1>12 DEF Inv

LEMMA StutterInv ==
    ASSUME Inv, UNCHANGED vars
    PROVE  Inv'
<1> USE DEF vars, dagVars, roundVars
<1>1. TypeOK'
  BY TypeStep DEF Inv
<1>2. DagInv' /\ Created' = Created
  BY SameDag DEF Inv
<1>3. KnownInv'
  BY <1>2 DEF Inv, KnownInv, Known
<1>4. MirrorClosed'
  BY DEF Inv, MirrorClosed, Closed
<1>5. ManifestInv'
  BY DEF Inv, ManifestInv, Holds, Reach
<1>6. HandlerInv'
  BY DEF Inv, HandlerInv
<1>7. \A p \in Procs : RoundInv(p)'
  BY DEF Inv, RoundInv, Holds, Reach
<1>8. \A r \in Repos : UserInv(r)'
  BY DEF Inv, UserInv, Editing, Syncing
<1>9. NoEditLost'
  BY EditsFrame
<1>10. QED
  BY <1>1, <1>2, <1>3, <1>4, <1>5, <1>6, <1>7, <1>8, <1>9 DEF Inv

LEMMA NextInv ==
    ASSUME OneWriter, Inv, StrayInv, [Next]_vars
    PROVE  Inv'
<1>1. TypeOK'
  BY TypeStep DEF Inv
<1>2. ASSUME NEW r \in Repos, UserWritesOp(r) \/ UserPublishesHead(r)
      PROVE  Inv'
  BY <1>1, <1>2, UserWritesOpStep, UserPublishesHeadStep
<1>3. ASSUME NEW p \in Procs, RoundStep(p)
      PROVE  Inv'
  <2>1. CASE \E d \in Dirs : ListDir(p, d)
    BY <1>1, <2>1, ListDirStep
  <2>2. CASE PlanPush(p) \/ FinishPush(p) \/ NotifyComplete(p) \/ FetchPublished(p)
    BY <1>1, <2>2, PlanPushStep, FinishPushStep, NotifyCompleteStep, FetchPublishedStep
  <2>3. CASE PlanPull(p) \/ FinishPull(p) \/ PlanPrune(p) \/ VerifyAndSave(p)
    BY <1>1, <2>3, PlanPullStep, FinishPullStep, PlanPruneStep, VerifyAndSaveStep
  <2>4. CASE \E d \in Dirs, o \in Ops :
                 \/ Upload(p, d, o) \/ Prune(p, d, o)
                 \/ Download(p, d, o) \/ Refetch404(p, d, o) \/ SkipUnlisted(p, d, o)
    BY <1>1, <2>4, UploadStep, PruneStep, DownloadStep, Refetch404Step, SkipUnlistedStep
  <2>5. QED
    BY <1>3, <2>1, <2>2, <2>3, <2>4 DEF RoundStep
<1>4. ASSUME NEW p \in Procs, StartRound(p) \/ AbortRound(p)
      PROVE  Inv'
  BY <1>1, <1>4, StartRoundStep, AbortRoundStep
<1>5. CASE HandlerStep
  BY <1>1, <1>5, NormalizeStep, SwapHeadsStep, PublishStep, ScanDirStep DEF HandlerStep
<1>6. CASE DropHandler \/ RestartServer
  BY <1>1, <1>6, DropHandlerStep, RestartServerStep
<1>7. CASE StrayStep
  BY <1>1, <1>7, StrayReadsStep, StraySwapsStep DEF StrayStep
<1>8. CASE UNCHANGED vars
  BY <1>8, StutterInv
<1>9. QED
  BY <1>2, <1>3, <1>4, <1>5, <1>6, <1>7, <1>8 DEF Next

(***************************************************************************)
(* History is kept: each step leaves what the mirror's heads reach.         *)
(***************************************************************************)
LEMMA UploadGrows ==
    ASSUME Inv, NEW p \in Procs, NEW d \in Dirs, NEW o \in Ops, Upload(p, d, o)
    PROVE  MirrorGrows
<1>1. dagVars' = dagVars
  BY DEF Upload
<1>2. mirror.ops \subseteq mirror'.ops /\ mirror.heads \subseteq mirror'.heads
  <2>1. CASE mirror' = mirror
    BY <2>1
  <2>2. CASE mirror' = [mirror EXCEPT ![d] = @ \cup {o}]
    <3>1. CASE d = "ops"
      BY <2>2, <3>1, SrvFacts DEF Tree
    <3>2. CASE d = "heads"
      BY <2>2, <3>2, SrvFacts DEF Tree
    <3>3. QED
      BY <3>1, <3>2 DEF Dirs
  <2>3. QED
    BY <2>1, <2>2 DEF Upload
<1>3. QED
  BY <1>1, <1>2 DEF MirrorGrows, Reach, dagVars

LEMMA ReplicaStepGrows ==
    ASSUME Inv, mirror' = mirror,
           UNCHANGED dagVars
             \/ \E r \in Repos : \/ NewOp(repo[r].heads, r)
                                 \/ NewOp(Tips(repo[r].heads), r)
    PROVE  MirrorGrows
<1>1. CASE UNCHANGED dagVars
  BY <1>1, SameDag, MirrorSame DEF Inv
<1>2. ASSUME NEW r \in Repos, NewOp(repo[r].heads, r) \/ NewOp(Tips(repo[r].heads), r)
      PROVE  MirrorGrows
  <2>1. repo[r].heads \in SUBSET Created /\ Tips(repo[r].heads) \in SUBSET Created
    BY DEF Inv, KnownInv, Known, Tips
  <2>2. DagGrows
    BY <1>2, <2>1, NewOpDag DEF Inv
  <2>3. QED
    BY <2>2, MirrorSame
<1>3. QED
  BY <1>1, <1>2

LEMMA StepGrows ==
    ASSUME Inv, StrayInv, [Next]_vars
    PROVE  MirrorGrows
<1>1. ASSUME NEW r \in Repos, UserWritesOp(r) \/ UserPublishesHead(r)
      PROVE  MirrorGrows
  BY <1>1, ReplicaStepGrows DEF UserWritesOp, UserPublishesHead
<1>2. ASSUME NEW p \in Procs, StartRound(p)
      PROVE  MirrorGrows
  BY <1>2, ReplicaStepGrows, HomeAssumption DEF StartRound
<1>3. ASSUME NEW p \in Procs, NEW d \in Dirs, NEW o \in Ops, Upload(p, d, o)
      PROVE  MirrorGrows
  BY <1>3, UploadGrows
<1>4. ASSUME NEW p \in Procs, RoundStep(p) \/ AbortRound(p),
             ~ \E d \in Dirs, o \in Ops : Upload(p, d, o)
      PROVE  MirrorGrows
  <2>1. UNCHANGED <<dagVars, mirror>>
    BY <1>4 DEF RoundStep, AbortRound, ListDir, PlanPush, FinishPush, NotifyComplete,
                FetchPublished, PlanPull, FinishPull, PlanPrune, VerifyAndSave,
                Prune, Download, Refetch404, SkipUnlisted
  <2>2. QED
    BY <2>1, ReplicaStepGrows
<1>5. CASE Normalize \/ StrayStep
  <2>1. ASSUME NEW head \in Ops, Resolves(head)
        PROVE  MirrorGrows
    BY <2>1, ResolveFacts
  <2>2. CASE UNCHANGED <<dagVars, mirror>>
    BY <2>2, ReplicaStepGrows
  <2>3. CASE StraySwaps
    BY <2>3, StraySwapsReach
  <2>4. QED
    BY <1>5, <2>1, <2>2, <2>3 DEF Normalize, StrayStep, StrayReads
<1>6. CASE SwapHeads \/ RestartServer
  <2>1. CASE mirror' = mirror /\ UNCHANGED dagVars
    BY <2>1, ReplicaStepGrows
  <2>2. ASSUME srv.phase = "swap", NEW gone \in SUBSET srv.old, dagVars' = dagVars,
               mirror' = [mirror EXCEPT !.heads = (@ \cup {srv.new}) \ gone]
        PROVE  MirrorGrows
    BY <2>2, SwapReach
  <2>3. QED
    BY <1>6, <2>1, <2>2, srv.old \in SUBSET srv.old DEF SwapHeads, RestartServer
<1>7. CASE DropHandler \/ Publish \/ \E d \in Dirs : ScanDir(d)
  <2>1. UNCHANGED <<dagVars, mirror>>
    BY <1>7 DEF DropHandler, Publish, ScanDir
  <2>2. QED
    BY <2>1, ReplicaStepGrows
<1>8. CASE UNCHANGED vars
  BY <1>8, ReplicaStepGrows DEF vars
<1>9. QED
  BY <1>1, <1>2, <1>3, <1>4, <1>5, <1>6, <1>7, <1>8 DEF Next, RoundStep, HandlerStep

\* A step that writes an operation moves no head on the server.
LEMMA StepWrites ==
    ASSUME Inv, [Next]_vars, ~UNCHANGED dagVars
    PROVE  /\ DagGrows
           /\ nextOp' = nextOp + 1 /\ nextOp \in Ops
           /\ mirror'.heads = mirror.heads /\ pub' = pub
           /\ srv'.phase = "scan" => srv' = srv
<1>1. ASSUME NEW ps \in SUBSET Created, NEW who \in Repos \cup {Server}, NewOp(ps, who)
      PROVE  DagGrows /\ nextOp' = nextOp + 1 /\ nextOp \in Ops
  BY <1>1, NewOpDag DEF Inv, NewOp
<1>2. ASSUME NEW r \in Repos, UserWritesOp(r)
      PROVE  /\ NewOp(repo[r].heads, r) /\ repo[r].heads \in SUBSET Created
             /\ mirror' = mirror /\ pub' = pub /\ srv' = srv
  BY <1>2 DEF UserWritesOp, Inv, KnownInv, Known
<1>3. ASSUME NEW p \in Procs, StartRound(p)
      PROVE  /\ NewOp(Tips(repo[Home[p]].heads), Home[p])
             /\ Tips(repo[Home[p]].heads) \in SUBSET Created /\ Home[p] \in Repos
             /\ mirror' = mirror /\ pub' = pub /\ srv' = srv
  <2>1. NewOp(Tips(repo[Home[p]].heads), Home[p]) /\ mirror' = mirror /\ pub' = pub /\ srv' = srv
    BY <1>3 DEF StartRound
  <2>2. Home[p] \in Repos
    BY HomeAssumption
  <2>3. QED
    BY <2>1, <2>2 DEF Tips, Inv, KnownInv, Known
<1>4. CASE Normalize \/ StrayReads
  <2>1. PICK head \in Ops : Resolves(head)
    BY <1>4 DEF Normalize, StrayReads
  <2>2. NewOp(Tips(mirror.heads), Server)
    BY <2>1 DEF Resolves, dagVars
  <2>3. Tips(mirror.heads) \in SUBSET Created
    BY SrvFacts DEF Known, Tips
  <2>4. mirror'.heads = mirror.heads /\ pub' = pub
    BY <1>4, <2>1, ResolveFacts DEF Normalize, StrayReads
  <2>5. srv'.phase = "scan" => srv' = srv
    <3>1. srv' = srv \/ \E h, old : srv' = [srv EXCEPT !.phase = "swap", !.new = h, !.old = old]
      BY <1>4, <2>2 DEF Normalize, StrayReads, NewOp, dagVars
    <3>2. QED
      BY <3>1, SrvFacts
  <2>6. QED
    BY <1>1, <2>2, <2>3, <2>4, <2>5
<1>5. ASSUME NEW p \in Procs, RoundStep(p) \/ AbortRound(p)
      PROVE  UNCHANGED dagVars
  <2>1. ASSUME NEW d \in Dirs, NEW o \in Ops, Upload(p, d, o)
        PROVE  UNCHANGED dagVars
    BY <2>1 DEF Upload
  <2>2. CASE ~ \E d \in Dirs, o \in Ops : Upload(p, d, o)
    BY <1>5, <2>2 DEF RoundStep, AbortRound, ListDir, PlanPush, FinishPush, NotifyComplete,
                FetchPublished, PlanPull, FinishPull, PlanPrune, VerifyAndSave,
                Prune, Download, Refetch404, SkipUnlisted
  <2>3. QED
    BY <2>1, <2>2
<1>6. CASE \/ SwapHeads \/ Publish \/ DropHandler \/ StraySwaps \/ RestartServer
           \/ \E d \in Dirs : ScanDir(d)
  BY <1>6 DEF SwapHeads, Publish, DropHandler, StraySwaps, RestartServer, ScanDir
<1>7. ASSUME NEW r \in Repos, UserPublishesHead(r)
      PROVE  UNCHANGED dagVars
  BY <1>7 DEF UserPublishesHead
<1>8. CASE \E r \in Repos : UserWritesOp(r)
  BY <1>1, <1>2, <1>8
<1>9. CASE \E p \in Procs : StartRound(p)
  BY <1>1, <1>3, <1>9
<1>10. CASE UNCHANGED vars
  BY <1>10 DEF vars
<1>11. QED
  BY <1>4, <1>5, <1>6, <1>7, <1>8, <1>9, <1>10
     DEF Next, HandlerStep, StrayStep

\* A normalization without its handler keeps to what it has read.
LEMMA StrayInvStep ==
    ASSUME Inv, StrayInv, [Next]_vars
    PROVE  StrayInv'
<1>1. MirrorGrows /\ DagGrows
  BY StepGrows, StepWrites, SameDag DEF Inv
<1>2. ASSUME stray'.swapping => stray.swapping,
             stray'.swapping => stray'.new = stray.new /\ stray'.old = stray.old
      PROVE  StrayInv'
  BY <1>1, <1>2, SrvFacts DEF StrayInv, MirrorGrows, DagGrows, Known
<1>3. CASE DropHandler
  <2>1. CASE srv.phase = "swap"
    <3>1. stray'.new = srv.new /\ stray'.old = srv.old /\ mirror' = mirror /\ dagVars' = dagVars
      BY <1>3, <2>1 DEF DropHandler, Inv, TypeOK
    <3>2. QED
      BY <2>1, <3>1, SrvFacts DEF HandlerInv, StrayInv, dagVars
  <2>2. CASE srv.phase \in {"normalize", "scan"}
    <3>1. stray' = [stray EXCEPT !.waiting = @ + 1] \/ stray' = stray
      BY <1>3, <2>2 DEF DropHandler
    <3>2. QED
      BY <1>2, <3>1 DEF Inv, TypeOK
  <2>3. QED
    BY <1>3, <2>1, <2>2, BoundsAssumption DEF DropHandler
<1>4. CASE StrayReads
  <2>1. CASE stray' = [stray EXCEPT !.waiting = @ - 1]
    BY <1>2, <2>1 DEF Inv, TypeOK
  <2>2. ASSUME NEW head \in Ops, Resolves(head),
               stray' = [waiting |-> stray.waiting - 1, swapping |-> TRUE,
                         new |-> head, old |-> mirror.heads \ {head}]
        PROVE  StrayInv'
    BY <2>2, ResolveFacts DEF StrayInv
  <2>3. QED
    BY <1>4, <2>1, <2>2 DEF StrayReads
<1>5. CASE StraySwaps \/ RestartServer
  <2>1. \/ stray' = stray \/ stray' = NoStray
        \/ stray' = [NoStray EXCEPT !.waiting = stray.waiting]
    BY <1>5 DEF StraySwaps, RestartServer
  <2>2. stray' = stray \/ ~stray'.swapping
    BY <2>1 DEF NoStray
  <2>3. QED
    BY <1>2, <2>2
<1>6. CASE stray' = stray
  BY <1>2, <1>6
<1>7. QED
  BY <1>3, <1>4, <1>5, <1>6, StepFrame DEF StrayStep

\* With one writer at a time on each replica the inductive invariant holds
\* in every behavior, whatever rounds overlap, are aborted or are answered
\* by a server that restarts.
THEOREM InvHolds ==
    ASSUME OneWriter
    PROVE  Spec => [](Inv /\ StrayInv)
<1>1. Init => StrayInv
  BY DEF Init, StrayInv, NoStray
<1>2. Inv /\ StrayInv /\ [Next]_vars => Inv' /\ StrayInv'
  BY NextInv, StrayInvStep
<1>3. QED
  BY <1>1, <1>2, InitInv, PTL DEF Spec

\* No edit is lost: an operation whose `jj` command has finished stays
\* reachable from the heads of the mirror or of its author's replica.
THEOREM NoEditLostHolds ==
    ASSUME OneWriter
    PROVE  Spec => []NoEditLost
<1>1. Inv => NoEditLost
  BY DEF Inv
<1>2. QED
  BY <1>1, InvHolds, PTL

\* The mirror always has the parents of each operation it has, and the
\* operation of each head marker.
THEOREM MirrorClosedHolds ==
    ASSUME OneWriter
    PROVE  Spec => []MirrorClosed
<1>1. Inv => MirrorClosed
  BY DEF Inv, MirrorClosed
<1>2. QED
  BY <1>1, InvHolds, PTL

\* Whatever rounds overlap, the mirror has all that its manifest speaks of.
THEOREM PublishedAvailableHolds ==
    ASSUME OneWriter
    PROVE  Spec => []PublishedAvailable
<1>1. ASSUME Inv PROVE PublishedAvailable
  <2>1. /\ pub.heads \subseteq Ops /\ mirror.heads \subseteq Ops
        /\ pub.ops \subseteq mirror.ops /\ pub.heads \subseteq Reach(mirror.heads)
    BY <1>1 DEF Inv, TypeOK, Tree, ManifestInv, Holds
  <2>2. Reach(pub.heads) \subseteq Reach(mirror.heads)
    BY <1>1, <2>1, ReachReach DEF Inv
  <2>3. Reach(mirror.heads) \subseteq mirror.ops
    BY <1>1 DEF Inv, MirrorClosed, Closed, Reach
  <2>4. QED
    BY <2>1, <2>2, <2>3 DEF PublishedAvailable
<1>2. QED
  BY <1>1, InvHolds, PTL

\* What the mirror's heads reach, they reach for good: normalization and
\* restarts in the middle of it drop no operation from the shared history.
THEOREM HistoryKeptHolds ==
    ASSUME OneWriter
    PROVE  Spec => HistoryKept
<1>1. Inv /\ StrayInv /\ [Next]_vars => [Reach(mirror.heads) \subseteq Reach(mirror.heads)']_vars
  BY StepGrows DEF MirrorGrows
<1>2. QED
  BY <1>1, InvHolds, PTL DEF Spec, HistoryKept


(***************************************************************************)
(* The rounds implement SharedHistory.                                      *)
(***************************************************************************)
\* No step but Publish changes the manifest.
LEMMA StepPublishes ==
    ASSUME [Next]_vars, pub' # pub
    PROVE  Publish
<1>1. ASSUME NEW d \in Dirs, NEW o \in Ops, NEW p \in Procs, Upload(p, d, o)
      PROVE  pub' = pub
  BY <1>1 DEF Upload
<1>2. ASSUME NEW p \in Procs, RoundStep(p) \/ AbortRound(p) \/ StartRound(p),
             ~ \E d \in Dirs, o \in Ops : Upload(p, d, o)
      PROVE  pub' = pub
  BY <1>2 DEF RoundStep, AbortRound, StartRound, ListDir, PlanPush, FinishPush,
              NotifyComplete, FetchPublished, PlanPull, FinishPull, PlanPrune,
              VerifyAndSave, Prune, Download, Refetch404, SkipUnlisted
<1>3. ASSUME NEW r \in Repos, UserWritesOp(r) \/ UserPublishesHead(r)
      PROVE  pub' = pub
  BY <1>3 DEF UserWritesOp, UserPublishesHead
<1>4. CASE \/ Normalize \/ SwapHeads \/ DropHandler \/ StrayStep \/ RestartServer
           \/ \E d \in Dirs : ScanDir(d)
  BY <1>4 DEF Normalize, SwapHeads, DropHandler, StrayStep, StrayReads, StraySwaps,
              RestartServer, ScanDir
<1>5. CASE UNCHANGED vars
  BY <1>5 DEF vars
<1>6. QED
  BY <1>1, <1>2, <1>3, <1>4, <1>5 DEF Next, RoundStep, HandlerStep

\* Only uploads, normalization and a restart in the middle of it change the
\* mirror, and an upload takes nothing away.
LEMMA UploadMirror ==
    ASSUME Inv, NEW p \in Procs, NEW d \in Dirs, NEW o \in Ops, Upload(p, d, o)
    PROVE  mirror.heads \subseteq mirror'.heads
<1>1. CASE mirror' = mirror
  BY <1>1
<1>2. CASE mirror' = [mirror EXCEPT ![d] = @ \cup {o}]
  <2>1. CASE d = "ops"
    BY <1>2, <2>1, SrvFacts DEF Tree
  <2>2. CASE d = "heads"
    BY <1>2, <2>2, SrvFacts DEF Tree
  <2>3. QED
    BY <2>1, <2>2 DEF Dirs
<1>3. QED
  BY <1>1, <1>2 DEF Upload

LEMMA StepMirror ==
    ASSUME Inv, stray = NoStray, [Next]_vars, srv'.phase = "scan", srv.phase = "scan"
    PROVE  \/ mirror' = mirror
           \/ \E p \in Procs, d \in Dirs, o \in Ops : Upload(p, d, o)
<1>1. ASSUME NEW p \in Procs, RoundStep(p) \/ AbortRound(p) \/ StartRound(p),
             ~ \E d \in Dirs, o \in Ops : Upload(p, d, o)
      PROVE  mirror' = mirror
  BY <1>1 DEF RoundStep, AbortRound, StartRound, ListDir, PlanPush, FinishPush,
              NotifyComplete, FetchPublished, PlanPull, FinishPull, PlanPrune,
              VerifyAndSave, Prune, Download, Refetch404, SkipUnlisted
<1>2. ASSUME NEW r \in Repos, UserWritesOp(r) \/ UserPublishesHead(r)
      PROVE  mirror' = mirror
  BY <1>2 DEF UserWritesOp, UserPublishesHead
<1>3. CASE Normalize \/ SwapHeads \/ Publish \/ DropHandler \/ RestartServer
             \/ \E d \in Dirs : ScanDir(d)
  BY <1>3 DEF Normalize, SwapHeads, Publish, DropHandler, RestartServer, ScanDir
<1>4. CASE StrayStep
  BY <1>4 DEF StrayStep, StrayReads, StraySwaps, NoStray
<1>5. CASE UNCHANGED vars
  BY <1>5 DEF vars
<1>6. QED
  BY <1>1, <1>2, <1>3, <1>4, <1>5 DEF Next, HandlerStep

\* Which steps touch the handler's scan.
LEMMA StepScans ==
    ASSUME Inv, [Next]_vars, srv'.phase = "scan"
    PROVE  \/ srv' = srv
           \/ Normalize /\ srv' = StartScan(mirror) /\ mirror' = mirror
           \/ SwapHeads
           \/ \E d \in Dirs : ScanDir(d)
           \/ srv' = [srv EXCEPT !.caller = None]
<1>1. ASSUME NEW d \in Dirs, NEW o \in Ops, NEW p \in Procs, Upload(p, d, o)
      PROVE  srv' = srv
  BY <1>1 DEF Upload
<1>2. ASSUME NEW p \in Procs, RoundStep(p) \/ StartRound(p), ~ NotifyComplete(p),
             ~ \E d \in Dirs, o \in Ops : Upload(p, d, o)
      PROVE  srv' = srv
  BY <1>2 DEF RoundStep, StartRound, ListDir, PlanPush, FinishPush,
              FetchPublished, PlanPull, FinishPull, PlanPrune,
              VerifyAndSave, Prune, Download, Refetch404, SkipUnlisted
<1>3. ASSUME NEW p \in Procs, NotifyComplete(p)
      PROVE  FALSE
  <2>1. srv'.phase = "normalize"
    BY <1>3 DEF NotifyComplete, FreeSrv
  <2>2. QED
    BY <2>1
<1>4. ASSUME NEW p \in Procs, AbortRound(p)
      PROVE  srv' = srv \/ srv' = [srv EXCEPT !.caller = None]
  BY <1>4 DEF AbortRound
<1>5. ASSUME NEW r \in Repos, UserWritesOp(r) \/ UserPublishesHead(r)
      PROVE  srv' = srv
  BY <1>5 DEF UserWritesOp, UserPublishesHead
<1>6. ASSUME NEW ok, Reply(ok)
      PROVE  FALSE
  <2>1. srv'.phase = "free"
    BY <1>6 DEF Reply, FreeSrv
  <2>2. QED
    BY <2>1
<1>7. CASE Normalize
  <2>1. ASSUME NEW h, srv' = [srv EXCEPT !.phase = "swap", !.new = h,
                                         !.old = mirror.heads \ {h}]
        PROVE  FALSE
    <3>1. srv'.phase = "swap"
      BY <2>1, SrvFacts
    <3>2. QED
      BY <3>1
  <2>2. CASE Reply(FALSE)
    BY <1>6, <2>2
  <2>3. CASE srv' = StartScan(mirror) /\ UNCHANGED <<dagVars, mirror, roundVars>>
    BY <1>7, <2>3
  <2>4. QED
    <3>1. \/ Reply(FALSE)
          \/ srv' = StartScan(mirror) /\ UNCHANGED <<dagVars, mirror, roundVars>>
          \/ \E h : srv' = [srv EXCEPT !.phase = "swap", !.new = h,
                                        !.old = mirror.heads \ {h}]
      BY <1>7, Zenon DEF Normalize
    <3>2. QED
      BY <2>1, <2>2, <2>3, <3>1
<1>8. CASE Publish \/ RestartServer \/ DropHandler
  <2>1. CASE DropHandler
    BY <2>1 DEF DropHandler, FreeSrv
  <2>2. QED
    BY <1>6, <1>8, <2>1 DEF Publish, RestartServer
<1>9. CASE UNCHANGED vars
  BY <1>9 DEF vars
<1>10. CASE StrayStep
  BY <1>10 DEF StrayStep, StrayReads, StraySwaps
<1>11. QED
  BY <1>1, <1>2, <1>3, <1>4, <1>5, <1>7, <1>8, <1>9, <1>10 DEF Next, RoundStep, HandlerStep

\* The scan goes on to lead to all that is published.
LEMMA ScanStep ==
    ASSUME Inv, Inv', ScanInv, stray = NoStray, [Next]_vars, DagGrows, MirrorGrows
    PROVE  ScanInv'
<1> SUFFICES ASSUME srv'.phase = "scan"
             PROVE  srv'.heads \subseteq mirror'.heads /\ pub'.heads \subseteq Reach(srv.heads)'
  BY DEF ScanInv
<1>1. pub' = pub
  <2>1. ASSUME NEW ok \in BOOLEAN, Reply(ok)
        PROVE  FALSE
    <3>1. srv'.phase = "free"
      BY <2>1 DEF Reply, FreeSrv
    <3>2. QED
      BY <3>1
  <2>2. QED
    BY <2>1, StepPublishes DEF Publish
<1>2. ASSUME srv'.heads = mirror'.heads
      PROVE  srv'.heads \subseteq mirror'.heads /\ pub'.heads \subseteq Reach(srv.heads)'
  <2>1. Holds(pub)'
    BY DEF Inv, ManifestInv
  <2>2. QED
    BY <1>2, <2>1 DEF Holds, Reach
<1>3. ASSUME srv.phase = "scan", srv.heads \subseteq srv'.heads,
             srv'.heads \subseteq mirror'.heads
      PROVE  srv'.heads \subseteq mirror'.heads /\ pub'.heads \subseteq Reach(srv.heads)'
  <2>1. Reach(srv.heads) \subseteq Reach(srv.heads)'
    <3>1. srv.heads \in SUBSET Created
      BY SrvFacts DEF Known
    <3>2. ReachNext(srv.heads) = Reach(srv.heads)
      BY <3>1, ReachSame
    <3>3. ReachNext(srv.heads) \subseteq Reach(srv.heads)'
      BY <1>3 DEF ReachNext, Reach
    <3>4. QED
      BY <3>2, <3>3
  <2>2. QED
    BY <1>1, <1>3, <2>1 DEF ScanInv
<1>4. CASE srv' = srv \/ srv' = [srv EXCEPT !.caller = None]
  <2>1. srv'.heads = srv.heads /\ srv.phase = "scan"
    BY <1>4, SrvFacts
  <2>2. mirror.heads \subseteq mirror'.heads
    <3>1. ASSUME NEW d \in Dirs, NEW o \in Ops, NEW p \in Procs, Upload(p, d, o)
          PROVE  mirror.heads \subseteq mirror'.heads
      BY <3>1, UploadMirror
    <3>2. CASE mirror' = mirror
      BY <3>2
    <3>3. QED
      BY <2>1, <3>1, <3>2, StepMirror
  <2>3. QED
    BY <1>3, <2>1, <2>2 DEF ScanInv
<1>5. CASE Normalize /\ srv' = StartScan(mirror) /\ mirror' = mirror
  BY <1>2, <1>5, StartScanFacts
<1>6. CASE SwapHeads
  <2>1. srv'.heads = mirror'.heads
    BY <1>6, SrvFacts DEF SwapHeads, StartScan
  <2>2. QED
    BY <1>2, <2>1
<1>7. ASSUME NEW d \in Dirs, ScanDir(d)
      PROVE  srv'.heads \subseteq mirror'.heads /\ pub'.heads \subseteq Reach(srv.heads)'
  <2>1. srv.phase = "scan" /\ mirror' = mirror /\ srv.heads \subseteq mirror.heads
    BY <1>7 DEF ScanDir, ScanInv
  <2>2. PICK names \in Listings(srv[d], mirror[d]) :
            srv' = [srv EXCEPT ![d] = names, !.dirs = @ \ {d}]
    <3>1. srv[d] \subseteq mirror[d]
      BY <2>1, SrvFacts DEF Holds, Dirs
    <3>2. QED
      BY <1>7, <3>1 DEF ScanDir
  <2>3. CASE d = "heads"
    <3>1. srv'.heads = names
      BY <2>2, <2>3, SrvFacts
    <3>2. srv.heads \subseteq names /\ names \subseteq mirror.heads
      BY <2>1, <2>2, <2>3 DEF Listings
    <3>3. QED
      BY <1>3, <2>1, <3>1, <3>2
  <2>4. CASE d = "ops"
    <3>1. srv'.heads = srv.heads
      BY <2>2, <2>4, SrvFacts
    <3>2. QED
      BY <1>3, <2>1, <3>1
  <2>5. QED
    BY <2>3, <2>4 DEF Dirs
<1>8. QED
  BY <1>4, <1>5, <1>6, <1>7, StepScans

LEMMA CreatedOps == TypeOK => Created \subseteq Ops
<1> SUFFICES ASSUME TypeOK
             PROVE  Created \subseteq Ops
  OBVIOUS
<1>1. nextOp \in 1 .. MaxOps + 1
  BY DEF TypeOK
<1>2. QED
  BY <1>1, BoundsAssumption DEF Created, Ops

\* Heads that exist lead to operations that exist.
LEMMA ReachCreated ==
    ASSUME TypeOK, DagInv, NEW S \in SUBSET Created
    PROVE  Reach(S) \subseteq Created
<1>1. ASSUME NEW h \in S, NEW a \in ancestors[h]
      PROVE  a \in Created
  <2>1. h \in Ops /\ nextOp \in 1 .. MaxOps + 1 /\ h \in 0 .. nextOp - 1
    BY CreatedOps DEF TypeOK, Created
  <2>2. a \in Ops /\ a < h
    BY <2>1 DEF TypeOK, DagInv
  <2>3. QED
    BY <2>1, <2>2, BoundsAssumption DEF Created, Ops
<1>2. QED
  BY <1>1 DEF Reach

LEMMA Below ==
    ASSUME NEW n \in Nat, NEW h \in 0 .. n - 1, NEW a \in Nat, a < h
    PROVE  a \in 0 .. n - 1
OBVIOUS

LEMMA ReachCreatedNext ==
    ASSUME TypeOK', DagInv', (mirror.heads \in SUBSET Created)'
    PROVE  Reach(mirror.heads)' \subseteq Created'
<1>1. nextOp' \in 1 .. MaxOps + 1 /\ ancestors' \in [Ops -> SUBSET Ops]
  BY DEF TypeOK
<1>2. nextOp' \in Nat /\ nextOp' <= nextOp' /\ Ops \subseteq Nat
  BY <1>1, BoundsAssumption DEF Ops
<1>3. Created' = 0 .. nextOp' - 1
  BY DEF Created
<1>4. ASSUME NEW h \in mirror'.heads, NEW a \in ancestors'[h]
      PROVE  a \in Created'
  <2>1. h \in 0 .. nextOp' - 1
    BY <1>3
  <2>2. h \in Ops
    BY <1>1, <1>2, <2>1, Intervals
  <2>3. a \in Ops /\ a < h
    BY <1>1, <2>2 DEF DagInv
  <2>4. QED
    BY <1>2, <1>3, <2>1, <2>3, Below
<1>5. QED
  BY <1>4 DEF Reach

LEMMA ReachReachNext ==
    ASSUME TypeOK', DagInv', Holds(pub)'
    PROVE  Reach(pub.heads)' \subseteq Reach(mirror.heads)'
<1>1. /\ pub'.heads \subseteq Reach(mirror.heads)'
      /\ pub'.heads \subseteq Ops /\ mirror'.heads \subseteq Ops
  BY DEF Holds, TypeOK, Tree
<1>2. ASSUME NEW h \in pub'.heads, NEW a \in ancestors'[h]
      PROVE  a \in Reach(mirror.heads)'
  <2>1. CASE h \in mirror'.heads
    BY <1>2, <2>1 DEF Reach
  <2>2. CASE \E g \in mirror'.heads : h \in ancestors'[g]
    BY <1>1, <1>2, <2>2 DEF Reach, DagInv
  <2>3. QED
    BY <1>1, <2>1, <2>2 DEF Reach
<1>3. QED
  BY <1>1, <1>2 DEF Reach

\* Every step of the rounds is a step of the shared history.
LEMMA HistoryStep ==
    ASSUME Inv, Inv', StrayInv, ScanInv, [Next]_vars
    PROVE  \/ History!Next
           \/ UNCHANGED <<Created, Reach(mirror.heads), Reach(pub.heads)>>
<1>1. MirrorGrows
  BY StepGrows
<1>2. Reach(mirror.heads) \subseteq Created /\ Reach(pub.heads) \subseteq Reach(mirror.heads)
  <2>1. mirror.heads \in SUBSET Created /\ Known(pub) /\ Holds(pub) /\ DagInv /\ TypeOK
    BY SrvFacts DEF Known, Inv
  <2>2. QED
    BY <2>1, ReachCreated, ReachReach, CreatedOps DEF Known, Holds
<1>3. Reach(mirror.heads)' \subseteq Created' /\ Reach(pub.heads)' \subseteq Reach(mirror.heads)'
  <2>1. mirror.heads \in SUBSET Created /\ Known(pub) /\ Holds(pub) /\ DagInv /\ TypeOK
    BY SrvFacts DEF Known, Inv
  <2>2. /\ (mirror.heads \in SUBSET Created)' /\ Known(pub)' /\ Holds(pub)' /\ DagInv' /\ TypeOK'
    BY DEF Inv, KnownInv, Known, ManifestInv
  <2>3. QED
    BY <2>2, ReachCreatedNext, ReachReachNext
<1>4. CASE ~UNCHANGED dagVars
  <2>1. /\ DagGrows /\ nextOp' = nextOp + 1 /\ nextOp \in Ops
        /\ mirror'.heads = mirror.heads /\ pub' = pub
    BY <1>4, StepWrites
  <2>2. mirror.heads \in SUBSET Created /\ pub.heads \in SUBSET Created
    BY SrvFacts DEF Known
  <2>3. Reach(mirror.heads)' = Reach(mirror.heads) /\ Reach(pub.heads)' = Reach(pub.heads)
    BY <2>1, <2>2, ReachSame DEF Reach, ReachNext
  <2>4. Created' = Created \cup {nextOp} /\ nextOp \notin Created
    BY <2>1, BoundsAssumption DEF Created, Ops
  <2>5. History!Write
    BY <2>1, <2>3, <2>4 DEF History!Write, Created
  <2>6. QED
    BY <2>5 DEF History!Next
<1>5. CASE UNCHANGED dagVars /\ pub' = pub
  <2>1. Created' = Created /\ Reach(pub.heads)' = Reach(pub.heads)
    BY <1>5 DEF Created, Reach, dagVars
  <2>2. Reach(mirror.heads)' = Reach(mirror.heads) \cup Reach(mirror.heads)'
    BY <1>1 DEF MirrorGrows
  <2>3. Reach(mirror.heads)' \in SUBSET Created
    BY <1>3, <2>1
  <2>4. History!Share
    BY <2>1, <2>2, <2>3 DEF History!Share, Created
  <2>5. QED
    BY <2>4 DEF History!Next
<1>6. CASE UNCHANGED dagVars /\ pub' # pub
  <2>1. Publish
    BY <1>6, StepPublishes
  <2>2. mirror' = mirror /\ pub'.heads = srv.heads /\ srv.phase = "scan"
    BY <1>6, <2>1 DEF Publish
  <2>3. Created' = Created /\ Reach(mirror.heads)' = Reach(mirror.heads)
    BY <1>6, <2>2 DEF Created, Reach, dagVars
  <2>4. Reach(pub.heads) \subseteq Reach(pub.heads)'
    <3>1. Reach(pub.heads)' = Reach(srv.heads)
      BY <1>6, <2>2 DEF Reach, dagVars
    <3>2. pub.heads \in SUBSET Ops /\ srv.heads \in SUBSET Ops /\ pub.heads \subseteq Reach(srv.heads)
      BY <2>2, SrvFacts, CreatedOps DEF Known, ScanInv, Inv
    <3>3. QED
      BY <3>1, <3>2, ReachReach DEF Inv
  <2>5. Reach(pub.heads)' = Reach(pub.heads) \cup Reach(pub.heads)'
    BY <2>4
  <2>6. Reach(pub.heads)' \in SUBSET Reach(mirror.heads)
    BY <1>3, <2>3
  <2>7. History!Publish
    BY <2>3, <2>5, <2>6 DEF History!Publish, Created
  <2>8. QED
    BY <2>7 DEF History!Next
<1>7. QED
  BY <1>4, <1>5, <1>6

\* Where the server drops no handler before its scan, no normalization is ever
\* left without one.
LEMMA NoneStray ==
    ASSUME DropPhases \subseteq {"scan"}
    PROVE  Spec => [](stray = NoStray)
<1>1. Init => stray = NoStray
  BY DEF Init
<1>2. stray = NoStray /\ [Next]_vars => (stray = NoStray)'
  <2> SUFFICES ASSUME stray = NoStray, [Next]_vars
               PROVE  stray' = NoStray
    BY DEF NoStray
  <2>1. CASE DropHandler
    BY <2>1 DEF DropHandler
  <2>2. CASE StrayStep
    BY <2>2 DEF StrayStep, StrayReads, StraySwaps, NoStray
  <2>3. CASE RestartServer
    BY <2>3 DEF RestartServer
  <2>4. QED
    BY <2>1, <2>2, <2>3, StepFrame
<1>3. QED
  BY <1>1, <1>2, PTL DEF Spec

\* With one writer at a time on each replica, and no handler dropped before its
\* scan, the rounds of all machines implement a single history that only grows,
\* first written, then shared, then published, whatever rounds and handlers
\* overlap or fail.
THEOREM SharedHistoryHolds ==
    ASSUME OneWriter, DropPhases \subseteq {"scan"}
    PROVE  Spec => ImplementsSharedHistory
<1>1. Init => History!Init /\ ScanInv
  <2> SUFFICES ASSUME Init
               PROVE  History!Init /\ ScanInv
    OBVIOUS
  <2>1. 0 .. nextOp - 1 = {0}
    BY DEF Init
  <2>2. Reach(mirror.heads) = {0} /\ Reach(pub.heads) = {0}
    BY BoundsAssumption DEF Init, Reach, FirstTree, Ops
  <2>3. {0} \in SUBSET Ops
    BY BoundsAssumption DEF Ops
  <2>4. ScanInv
    BY DEF Init, FreeSrv, ScanInv
  <2>5. QED
    BY <2>1, <2>2, <2>3, <2>4 DEF History!Init
<1>2. Inv /\ Inv' /\ StrayInv /\ ScanInv /\ stray = NoStray /\ [Next]_vars => ScanInv'
  BY ScanStep, StepGrows, StepWrites, SameDag DEF Inv
<1>3. Inv /\ Inv' /\ StrayInv /\ ScanInv /\ [Next]_vars
        => [History!Next]_<<0 .. nextOp - 1, Reach(mirror.heads), Reach(pub.heads)>>
  BY HistoryStep DEF Created
<1>4. QED
  BY <1>1, <1>2, <1>3, InvHolds, NoneStray, PTL
     DEF Spec, ImplementsSharedHistory, History!Spec

(***************************************************************************)
(* Rounds that run one at a time leave every replica such that jj can open  *)
(* it, at every step.                                                       *)
(***************************************************************************)
OpensNext(t) == /\ t.heads # {} /\ t.heads \subseteq t.ops
                /\ \A o \in t.ops : ancestors'[o] \subseteq t.ops

LEMMA OpensReplicas == (\A r \in Repos : OpensNext(repo'[r])) => ReplicaOpens'
BY DEF OpensNext, ReplicaOpens, Loadable, Closed

LEMMA OpensSame ==
    ASSUME Inv, DagGrows, ReplicaOpens, NEW r \in Repos
    PROVE  OpensNext(repo[r])
BY DEF Inv, KnownInv, Known, DagGrows, ReplicaOpens, Loadable, Closed, OpensNext

\* A step that changes one replica at most.
LEMMA OpensOne ==
    ASSUME Inv, DagGrows, ReplicaOpens, NEW r \in Repos, OpensNext(repo'[r]),
           \A s \in Repos : s # r => repo'[s] = repo[s]
    PROVE  ReplicaOpens'
BY OpensSame, OpensReplicas

LEMMA OpensAll ==
    ASSUME Inv, DagGrows, ReplicaOpens, repo' = repo
    PROVE  ReplicaOpens'
BY OpensSame, OpensReplicas

\* The phases that PullInv says something about.
Late == PullPhases \cup {"refetch"}

LEMMA PullIdle ==
    ASSUME NEW p \in Procs, pc'[p] \notin Late
    PROVE  PullInv(p)'
BY DEF Late, PullPhases, PullInv

LEMMA PullFrame ==
    ASSUME NEW p \in Procs, PullInv(p), Unanswered(p),
           pc[p] \in Late => /\ repo'[Home[p]] = repo[Home[p]]
                             /\ mirror'.ops = mirror.ops /\ pub' = pub
    PROVE  PullInv(p)'
BY DEF Late, PullPhases, PullInv, Unanswered

\* While one round is under way, there is nothing to say of the others.
LEMMA PullOthers ==
    ASSUME OneAtATime, NEW p \in Procs, pc[p] # "idle",
           \A q \in Procs : q # p => pc'[q] = pc[q],
           PullInv(p)'
    PROVE  \A q \in Procs : PullInv(q)'
<1>1. ASSUME NEW q \in Procs, q # p
      PROVE  PullInv(q)'
  <2>1. pc'[q] = "idle"
    BY <1>1 DEF OneAtATime
  <2>2. QED
    BY <2>1, PullIdle DEF Late, PullPhases
<1>2. QED
  BY <1>1

\* A round that ends leaves nothing to say of it.
LEMMA PullEnds ==
    ASSUME Inv, OneAtATime, NEW p \in Procs, pc[p] # "idle", EndRound(p)
    PROVE  \A q \in Procs : PullInv(q)'
<1>1. pc'[p] = "idle" /\ \A q \in Procs : q # p => pc'[q] = pc[q]
  BY EndRoundFacts DEF Inv
<1>2. PullInv(p)'
  BY <1>1, PullIdle DEF Late, PullPhases
<1>3. QED
  BY <1>1, <1>2, PullOthers

\* While the server is at work, the round it works for waits and the others are
\* idle.
NoneAtWork == \A q \in Procs : pc[q] \in {"idle", "wait"}

LEMMA PullHandler ==
    ASSUME Inv, NoneAtWork, pc' = pc
    PROVE  \A q \in Procs : PullInv(q)'
BY PullIdle DEF NoneAtWork, Late, PullPhases

LEMMA PullReply ==
    ASSUME Inv, NoneAtWork, NEW ok \in BOOLEAN, Reply(ok), ok => mirror'.ops = pub'.ops
    PROVE  \A q \in Procs : PullInv(q)'
<1>1. ASSUME NEW q \in Procs, pc'[q] \notin {"idle", "wait"}
      PROVE  pc'[q] = "refetch" /\ ok
  BY <1>1, ReplyPc DEF Inv, NoneAtWork
<1>2. ASSUME NEW q \in Procs
      PROVE  PullInv(q)'
  <2>1. CASE pc'[q] \in {"idle", "wait"}
    BY <2>1, PullIdle DEF Late, PullPhases
  <2>2. CASE pc'[q] \notin {"idle", "wait"}
    BY <1>1, <2>2 DEF PullInv, PullPhases
  <2>3. QED
    BY <2>1, <2>2
<1>3. QED
  BY <1>2

LEMMA SerialUserWrites ==
    ASSUME Inv, SerialInv, NEW r \in Repos, UserWritesOp(r), ~EditWhileSyncing
    PROVE  SerialInv'
<1> DEFINE t == repo[r]
           tt == repo'[r]
<1>1. /\ t \in Tree /\ t.heads \in SUBSET Created /\ r \in Repos \cup {Server}
      /\ NewOp(t.heads, r)
  BY DEF Inv, TypeOK, KnownInv, Known, UserWritesOp
<1>2. /\ DagGrows /\ ancestors'[nextOp] = Reach(t.heads)
      /\ tt = [t EXCEPT !.ops = @ \cup {nextOp}]
      /\ \A s \in Repos : s # r => repo'[s] = repo[s]
  BY <1>1, NewOpDag DEF Inv, TypeOK, UserWritesOp
<1>3. OpensNext(t) /\ Closed(t.ops)
  BY <1>2, OpensSame DEF SerialInv, ReplicaOpens
<1>4. Reach(t.heads) \subseteq t.ops
  BY <1>3 DEF OpensNext, Closed, Reach
<1>5. OpensNext(tt)
  BY <1>1, <1>2, <1>3, <1>4 DEF OpensNext, Tree
<1>6. ReplicaOpens'
  BY <1>2, <1>5, OpensOne DEF SerialInv
<1>7. ASSUME NEW p \in Procs
      PROVE  PullInv(p)'
  <2>1. pc[p] \in Late => Home[p] # r
    BY DEF UserWritesOp, Syncing, Late, PullPhases
  <2>2. QED
    BY <1>2, <2>1, PullFrame, HomeAssumption
       DEF SerialInv, UserWritesOp, Unanswered, roundVars
<1>8. QED
  BY <1>6, <1>7 DEF SerialInv

LEMMA SerialUserPublishes ==
    ASSUME Inv, SerialInv, NEW r \in Repos, UserPublishesHead(r)
    PROVE  SerialInv'
<1> DEFINE t == repo[r]
           tt == repo'[r]
<1>1. t \in Tree /\ user[r].op \in t.ops /\ ~Syncing(r)
  BY DEF Inv, TypeOK, UserInv, UserPublishesHead
<1>2. /\ DagGrows /\ tt = [t EXCEPT !.heads = (@ \ user[r].old) \cup {user[r].op}]
      /\ \A s \in Repos : s # r => repo'[s] = repo[s]
  BY SameDag DEF Inv, TypeOK, UserPublishesHead
<1>3. OpensNext(tt)
  BY <1>1, <1>2, OpensSame DEF SerialInv, OpensNext, Tree
<1>4. ReplicaOpens'
  BY <1>2, <1>3, OpensOne DEF SerialInv
<1>5. ASSUME NEW p \in Procs
      PROVE  PullInv(p)'
  <2>1. pc[p] \in Late => Home[p] # r
    BY <1>1 DEF Syncing, Late, PullPhases
  <2>2. QED
    BY <1>2, <2>1, PullFrame, HomeAssumption
       DEF SerialInv, UserPublishesHead, Unanswered, roundVars
<1>6. QED
  BY <1>4, <1>5 DEF SerialInv

LEMMA SerialStarts ==
    ASSUME Inv, Serial, SerialInv, NEW p \in Procs, StartRound(p)
    PROVE  SerialInv'
<1> DEFINE r == Home[p]
           t == repo[r]
           tt == repo'[r]
           tips == Tips(t.heads)
<1>1. /\ r \in Repos /\ t \in Tree /\ t.heads \in SUBSET Created /\ tips \in SUBSET Created
      /\ tips \subseteq t.heads /\ r \in Repos \cup {Server}
  BY RoundFacts DEF Known, Tips
<1>2. Closed(t.ops) /\ t.heads \subseteq t.ops
  BY <1>1 DEF SerialInv, ReplicaOpens, Loadable
<1>3. ASSUME Cardinality(tips) = 1,
             repo' = [repo EXCEPT ![r].heads = tips], UNCHANGED dagVars
      PROVE  ReplicaOpens'
  <2>1. tips # {}
    BY <1>3, FS_EmptySet
  <2>2. tt = [t EXCEPT !.heads = tips] /\ \A s \in Repos : s # r => repo'[s] = repo[s]
    BY <1>1, <1>3, RoundFacts
  <2>3. DagGrows
    BY <1>3, SameDag DEF Inv
  <2>4. OpensNext(tt)
    BY <1>1, <2>1, <2>2, <2>3, OpensSame DEF SerialInv, OpensNext, Tree
  <2>5. QED
    BY <1>1, <2>2, <2>3, <2>4, OpensOne DEF SerialInv
<1>4. ASSUME NewOp(tips, r),
             repo' = [repo EXCEPT ![r] = [ops |-> @.ops \cup {nextOp}, heads |-> {nextOp}]]
      PROVE  ReplicaOpens'
  <2>1. DagGrows /\ ancestors'[nextOp] = Reach(tips)
    BY <1>1, <1>4, NewOpDag DEF Inv
  <2>2. /\ tt = [ops |-> t.ops \cup {nextOp}, heads |-> {nextOp}]
        /\ \A s \in Repos : s # r => repo'[s] = repo[s]
    BY <1>1, <1>4, RoundFacts
  <2>3. Reach(tips) \subseteq t.ops
    BY <1>1, <1>2 DEF Reach, Closed
  <2>4. OpensNext(tt)
    BY <1>1, <2>1, <2>2, <2>3, OpensSame DEF SerialInv, OpensNext
  <2>5. QED
    BY <1>1, <2>1, <2>2, <2>4, OpensOne DEF SerialInv
<1>5. ReplicaOpens' => SerialInv'
  <2>1. \A q \in Procs : pc[q] = "idle"
    BY NothingUnderWay DEF Inv, StartRound
  <2>2. pc'[p] = "index_push" /\ \A q \in Procs : q # p => pc'[q] = pc[q]
    BY GoToPc DEF Inv, StartRound, StartListing
  <2>3. \A q \in Procs : pc'[q] \notin Late
    BY <2>1, <2>2 DEF Late, PullPhases
  <2>4. QED
    BY <2>3, PullIdle DEF SerialInv
<1>6. ReplicaOpens'
  BY <1>3, <1>4 DEF StartRound
<1>7. QED
  BY <1>5, <1>6

\* A step of a round that writes nothing but its own notes.
LEMMA SerialNotes ==
    ASSUME Inv, OneAtATime, SerialInv, NEW p \in Procs, pc[p] # "idle",
           \A q \in Procs : q # p => pc'[q] = pc[q],
           UNCHANGED <<dagVars, repo>>, PullInv(p)'
    PROVE  SerialInv'
<1>1. ReplicaOpens'
  BY SameDag, OpensAll DEF Inv, SerialInv
<1>2. QED
  BY <1>1, PullOthers DEF SerialInv

LEMMA SerialEnds ==
    ASSUME Inv, OneAtATime, SerialInv, NEW p \in Procs, pc[p] # "idle", EndRound(p),
           UNCHANGED <<dagVars, repo>>
    PROVE  SerialInv'
BY SameDag, OpensAll, PullEnds DEF Inv, SerialInv

LEMMA SerialPushes ==
    ASSUME Inv, OneAtATime, SerialInv, NEW p \in Procs,
           \/ PlanPush(p) \/ FinishPush(p) \/ NotifyComplete(p)
           \/ \E d \in Dirs, o \in Ops : Upload(p, d, o)
    PROVE  SerialInv'
<1>1. pc[p] \in {"index_push", "push", "notify"} /\ UNCHANGED <<dagVars, repo>>
  BY DEF PlanPush, Listed, FinishPush, NotifyComplete, Upload
<1>2. CASE EndRound(p)
  BY <1>1, <1>2, SerialEnds
<1>3. ASSUME NEW phase \in {"push", "notify", "wait"}, GoTo(p, phase)
      PROVE  SerialInv'
  <2>1. pc'[p] = phase /\ \A q \in Procs : q # p => pc'[q] = pc[q]
    BY <1>3, GoToPc DEF Inv
  <2>2. QED
    BY <1>1, <2>1, PullIdle, SerialNotes DEF Late, PullPhases
<1>4. CASE pc' = pc
  BY <1>1, <1>4, PullIdle, SerialNotes DEF Late, PullPhases
<1>5. QED
  BY <1>2, <1>3, <1>4 DEF PlanPush, FinishPush, NotifyComplete, Upload

LEMMA SerialListDir ==
    ASSUME Inv, OneAtATime, SerialInv, NEW p \in Procs, NEW d \in Dirs, ListDir(p, d)
    PROVE  SerialInv'
<1> DEFINE t == repo[Home[p]]
<1>1. pc[p] \in ListPhases /\ pc[p] # "idle" /\ UNCHANGED <<dagVars, repo>>
  BY DEF ListDir, ListPhases
<1>2. CASE EndRound(p)
  BY <1>1, <1>2, SerialEnds
<1>3. CASE /\ \E names \in Listings(files[p][d], t[d]) :
                  files' = [files EXCEPT ![p][d] = names]
           /\ UNCHANGED <<pc, man>>
  <2>1. PICK names \in Listings(files[p][d], t[d]) :
               files' = [files EXCEPT ![p][d] = names]
    BY <1>3
  <2>2. files'[p] = [files[p] EXCEPT ![d] = names] /\ t \in Tree
    BY <2>1, RoundFacts
  <2>3. files[p] = t => files'[p] = t
    <3>1. files[p] = t => names = t[d]
      BY <2>1 DEF Listings
    <3>2. QED
      BY <2>2, <3>1 DEF Tree
  <2>4. PullInv(p)'
    BY <1>1, <1>3, <2>3 DEF PullInv, PullPhases, SerialInv, ListPhases, ListDir
  <2>5. QED
    BY <1>1, <1>3, <2>4, SerialNotes
<1>4. QED
  BY <1>2, <1>3 DEF ListDir

LEMMA SerialFetchPublished ==
    ASSUME Inv, OneAtATime, SerialInv, NEW p \in Procs, FetchPublished(p)
    PROVE  SerialInv'
<1>1. /\ pc[p] = "refetch" /\ pc'[p] = "index_pull" /\ man'[p] = pub
      /\ files'[p] = repo[Home[p]] /\ \A q \in Procs : q # p => pc'[q] = pc[q]
  BY RoundFacts DEF FetchPublished, StartListing, GoTo, WorkOn
<1>2. PullInv(p)'
  BY <1>1 DEF FetchPublished, PullInv, PullPhases, SerialInv
<1>3. QED
  BY <1>1, <1>2, SerialNotes DEF FetchPublished

LEMMA SerialPlanPull ==
    ASSUME Inv, OneAtATime, SerialInv, NEW p \in Procs, PlanPull(p)
    PROVE  SerialInv'
<1>1. /\ pc[p] = "index_pull" /\ pc'[p] = "pull" /\ man'[p] = man[p]
      /\ files'[p] = Minus(man[p], files[p]) /\ \A q \in Procs : q # p => pc'[q] = pc[q]
  BY RoundFacts DEF PlanPull, Listed, GoTo, WorkOn
<1>2. man[p] = pub /\ files[p] = repo[Home[p]] /\ mirror.ops = pub.ops
  BY <1>1 DEF SerialInv, PullInv, PullPhases
<1>3. PullInv(p)'
  BY <1>1, <1>2 DEF PlanPull, PullInv, PullPhases, Minus
<1>4. QED
  BY <1>1, <1>3, SerialNotes DEF PlanPull

\* What a round in its pull knows.
LEMMA PullFacts ==
    ASSUME SerialInv, NEW p \in Procs, pc[p] = "pull"
    PROVE  /\ mirror.ops = pub.ops /\ man[p] = pub
           /\ files[p].ops \subseteq pub.ops /\ files[p].heads \subseteq pub.heads
           /\ pub.ops \subseteq repo[Home[p]].ops \cup files[p].ops
           /\ pub.heads \subseteq repo[Home[p]].heads \cup files[p].heads
BY DEF SerialInv, PullInv, PullPhases

LEMMA SerialDownload ==
    ASSUME Inv, OneAtATime, PublishInv, SerialInv, NEW p \in Procs, NEW d \in Dirs,
           NEW o \in Ops, Download(p, d, o)
    PROVE  SerialInv'
<1> DEFINE t == repo[Home[p]]
           tt == repo'[Home[p]]
<1>1. /\ pc[p] = "pull" /\ pc' = pc /\ man' = man /\ UNCHANGED <<mirror, pub, dagVars>>
      /\ Ready(p, d, o) /\ o \in pub[d] /\ Done(p, d, o) /\ t \in Tree /\ Home[p] \in Repos
  BY RoundFacts, PullFacts DEF Download
<1>2. DagGrows
  BY <1>1, SameDag DEF Inv
<1>3. tt = [t EXCEPT ![d] = @ \cup {o}] /\ \A s \in Repos : s # Home[p] => repo'[s] = repo[s]
  BY <1>1, RoundFacts DEF Download
<1>4. OpensNext(t)
  BY <1>1, <1>2, OpensSame DEF SerialInv
<1>5. CASE d = "ops"
  <2>1. tt.ops = t.ops \cup {o} /\ tt.heads = t.heads
    BY <1>1, <1>3, <1>5 DEF Tree
  <2>2. ancestors[o] \subseteq pub.ops /\ ancestors[o] \cap files[p].ops = {}
    BY <1>1, <1>5 DEF Ready, PublishInv, Closed
  <2>3. ancestors'[o] \subseteq t.ops
    BY <1>1, <2>2, PullFacts DEF dagVars
  <2>4. OpensNext(tt)
    BY <1>4, <2>1, <2>3 DEF OpensNext
  <2>5. files'[p].ops = files[p].ops \ {o} /\ files'[p].heads = files[p].heads
    BY <1>1, <1>5, DoneFacts
  <2>6. PullInv(p)'
    BY <1>1, <2>1, <2>5, PullFacts DEF PullInv, PullPhases
  <2>7. QED
    BY <1>1, <1>2, <1>3, <2>4, <2>6, OpensOne, PullOthers DEF SerialInv
<1>6. CASE d = "heads"
  <2>1. tt.ops = t.ops /\ tt.heads = t.heads \cup {o}
    BY <1>1, <1>3, <1>6 DEF Tree
  <2>2. files[p].ops = {} /\ o \in pub.ops
    BY <1>1, <1>6 DEF Ready, PublishInv, OneHead
  <2>3. o \in t.ops
    BY <1>1, <2>2, PullFacts
  <2>4. OpensNext(tt)
    BY <1>4, <2>1, <2>3 DEF OpensNext
  <2>5. files'[p].ops = files[p].ops /\ files'[p].heads = files[p].heads \ {o}
    BY <1>1, <1>6, DoneFacts
  <2>6. PullInv(p)'
    BY <1>1, <2>1, <2>5, PullFacts DEF PullInv, PullPhases
  <2>7. QED
    BY <1>1, <1>2, <1>3, <2>4, <2>6, OpensOne, PullOthers DEF SerialInv
<1>7. QED
  BY <1>5, <1>6 DEF Dirs

LEMMA SerialRefetch404 ==
    ASSUME Inv, OneAtATime, SerialInv, NEW p \in Procs, NEW d \in Dirs, NEW o \in Ops,
           Refetch404(p, d, o)
    PROVE  SerialInv'
<1>1. pc[p] = "pull" /\ UNCHANGED <<dagVars, repo, mirror, pub>>
  BY DEF Refetch404
<1>2. CASE EndRound(p)
  BY <1>1, <1>2, SerialEnds
<1>3. CASE man' = [man EXCEPT ![p] = pub] /\ UNCHANGED <<pc, files, dirs>>
  <2>1. man'[p] = pub
    BY <1>3, RoundFacts
  <2>2. PullInv(p)'
    BY <1>1, <1>3, <2>1, PullFacts DEF PullInv, PullPhases
  <2>3. QED
    BY <1>1, <1>3, <2>2, SerialNotes
<1>4. QED
  BY <1>2, <1>3 DEF Refetch404

\* Nothing is skipped: the manifest is the one the list was made from.
LEMMA SerialSkipUnlisted ==
    ASSUME SerialInv, NEW p \in Procs, NEW d \in Dirs, NEW o \in Ops, SkipUnlisted(p, d, o)
    PROVE  FALSE
<1>1. pc[p] = "pull" /\ o \in files[p][d] /\ o \notin man[p][d]
  BY DEF SkipUnlisted, Ready
<1>2. QED
  BY <1>1, PullFacts DEF Dirs

LEMMA SerialFinishPull ==
    ASSUME Inv, OneAtATime, SerialInv, NEW p \in Procs, FinishPull(p)
    PROVE  SerialInv'
<1>1. /\ pc[p] = "pull" /\ pc'[p] = "index_prune" /\ man'[p] = man[p]
      /\ files[p] = NoFiles /\ files'[p] = repo[Home[p]]
      /\ \A q \in Procs : q # p => pc'[q] = pc[q]
  BY RoundFacts DEF FinishPull, StartListing, GoTo, WorkOn
<1>2. pub.ops \subseteq repo[Home[p]].ops /\ pub.heads \subseteq repo[Home[p]].heads
  BY <1>1, PullFacts DEF NoFiles
<1>3. PullInv(p)'
  BY <1>1, <1>2, PullFacts DEF FinishPull, PullInv, PullPhases
<1>4. QED
  BY <1>1, <1>3, SerialNotes DEF FinishPull

\* The mirror had all operations of the replica before it was published.
LEMMA SerialPlanPrune ==
    ASSUME Inv, OneAtATime, SerialInv, NEW p \in Procs, PlanPrune(p)
    PROVE  SerialInv'
<1> DEFINE t == repo[Home[p]]
<1>1. /\ pc[p] = "index_prune" /\ pc'[p] = "prune" /\ man'[p] = man[p]
      /\ files'[p] = Minus(files[p], man[p]) /\ \A q \in Procs : q # p => pc'[q] = pc[q]
  BY RoundFacts DEF PlanPrune, Listed, GoTo, WorkOn
<1>2. /\ man[p] = pub /\ files[p] = t /\ mirror.ops = pub.ops
      /\ pub.ops \subseteq t.ops /\ pub.heads \subseteq t.heads
  BY <1>1 DEF SerialInv, PullInv, PullPhases
<1>3. t.ops \subseteq pub.ops
  BY <1>1, <1>2, RoundFacts DEF RoundInv, Holds
<1>4. /\ files'[p].ops = {} /\ files'[p].heads \cap pub.heads = {}
      /\ t.heads \subseteq pub.heads \cup files'[p].heads
  BY <1>1, <1>2, <1>3 DEF Minus
<1>5. PullInv(p)'
  BY <1>1, <1>2, <1>4 DEF PlanPrune, PullInv, PullPhases
<1>6. QED
  BY <1>1, <1>5, SerialNotes DEF PlanPrune

LEMMA SerialPrune ==
    ASSUME Inv, OneAtATime, PublishInv, SerialInv, NEW p \in Procs, NEW d \in Dirs,
           NEW o \in Ops, Prune(p, d, o)
    PROVE  SerialInv'
<1> DEFINE t == repo[Home[p]]
           tt == repo'[Home[p]]
<1>1. /\ pc[p] = "prune" /\ o \in files[p][d] /\ UNCHANGED <<dagVars, mirror, pub>>
      /\ t \in Tree /\ Home[p] \in Repos
  BY RoundFacts DEF Prune
<1>2. /\ files[p].ops = {} /\ files[p].heads \cap pub.heads = {} /\ man[p] = pub
      /\ pub.ops \subseteq t.ops /\ pub.heads \subseteq t.heads /\ mirror.ops = pub.ops
      /\ t.heads \subseteq pub.heads \cup files[p].heads
  BY <1>1 DEF SerialInv, PullInv, PullPhases
<1>3. d = "heads" /\ o \notin pub.heads
  BY <1>1, <1>2 DEF Dirs
<1>4. CASE EndRound(p) /\ UNCHANGED repo
  BY <1>1, <1>4, SerialEnds
<1>5. CASE /\ repo' = [repo EXCEPT ![Home[p]][d] = @ \ {o}]
           /\ Done(p, d, o) /\ UNCHANGED <<pc, man, dirs>>
  <2>1. /\ tt.ops = t.ops /\ tt.heads = t.heads \ {o}
        /\ \A s \in Repos : s # Home[p] => repo'[s] = repo[s]
    BY <1>1, <1>3, <1>5, RoundFacts DEF Tree
  <2>2. DagGrows
    BY <1>1, SameDag DEF Inv
  <2>3. pub.heads # {} /\ pub.heads \subseteq tt.heads
    BY <1>2, <1>3, <2>1 DEF PublishInv, OneHead
  <2>4. OpensNext(tt)
    BY <1>1, <2>1, <2>2, <2>3, OpensSame DEF SerialInv, OpensNext
  <2>5. files'[p].ops = files[p].ops /\ files'[p].heads = files[p].heads \ {o}
    BY <1>3, <1>5, DoneFacts
  <2>6. PullInv(p)'
    BY <1>1, <1>2, <1>5, <2>1, <2>3, <2>5 DEF PullInv, PullPhases
  <2>7. QED
    BY <1>1, <1>5, <2>1, <2>2, <2>4, <2>6, OpensOne, PullOthers DEF SerialInv
<1>6. QED
  BY <1>4, <1>5 DEF Prune

ServerActs == HandlerStep \/ DropHandler \/ StrayStep \/ RestartServer

LEMMA SerialHandler ==
    ASSUME Inv, OneAtATime, PublishInv, SerialInv, DagGrows, ServerActs
    PROVE  SerialInv'
<1>1. repo' = repo
  BY DEF ServerActs, HandlerStep, DropHandler, RestartServer, StrayStep, StrayReads, StraySwaps,
         Normalize, SwapHeads, ScanDir, Publish
<1>2. NoneAtWork
  <2>1. srv.phase # "free" \/ Straying
    BY BoundsAssumption
       DEF ServerActs, HandlerStep, DropHandler, RestartServer, StrayStep, StrayReads, StraySwaps,
           Straying, Normalize, SwapHeads, ScanDir, Publish
  <2>2. QED
    BY <2>1 DEF OneAtATime, NoneAtWork
<1>3. \A q \in Procs : PullInv(q)'
  <2>1. CASE pc' = pc
    BY <1>2, <2>1, PullHandler
  <2>2. CASE Reply(FALSE)
    BY <1>2, <2>2, PullReply
  <2>3. CASE Publish
    <3>1. Closed(srv.ops) => pub'.ops = mirror'.ops
      BY <2>3 DEF Publish, PublishInv
    <3>2. Reply(Closed(srv.ops)) /\ Closed(srv.ops) \in BOOLEAN
      BY <2>3 DEF Publish, Closed
    <3>3. QED
      BY <1>2, <3>1, <3>2, PullReply
  <2>4. QED
    BY <2>1, <2>2, <2>3
       DEF ServerActs, HandlerStep, DropHandler, RestartServer, StrayStep, StrayReads, StraySwaps,
           Normalize, SwapHeads, ScanDir, roundVars
<1>4. QED
  BY <1>1, <1>3, OpensAll DEF SerialInv

\* The server adds operations to the mirror but changes none.
LEMMA ServerDag ==
    ASSUME Inv, ServerActs
    PROVE  DagGrows
<1>1. ASSUME NEW head \in Ops, Resolves(head)
      PROVE  DagGrows
  BY <1>1, ResolveFacts
<1>2. UNCHANGED dagVars \/ \E head \in Ops : Resolves(head)
  BY DEF ServerActs, HandlerStep, DropHandler, RestartServer, StrayStep, StrayReads, StraySwaps,
         Normalize, SwapHeads, ScanDir, Publish
<1>3. QED
  BY <1>1, <1>2, SameDag DEF Inv

LEMMA SerialStep ==
    ASSUME OneWriter, Serial, Inv, OneAtATime, PublishInv, SerialInv, [Next]_vars
    PROVE  SerialInv'
<1>1. ASSUME NEW r \in Repos, UserWritesOp(r) \/ UserPublishesHead(r)
      PROVE  SerialInv'
  BY <1>1, SerialUserWrites, SerialUserPublishes DEF OneWriter
<1>2. ASSUME NEW p \in Procs, StartRound(p)
      PROVE  SerialInv'
  BY <1>2, SerialStarts
<1>3. ASSUME NEW p \in Procs, RoundStep(p)
      PROVE  SerialInv'
  <2>1. CASE VerifyAndSave(p)
    BY <2>1, SerialEnds DEF VerifyAndSave
  <2>2. QED
    BY <1>3, <2>1, SerialPushes, SerialListDir, SerialFetchPublished, SerialPlanPull,
       SerialDownload, SerialRefetch404, SerialSkipUnlisted, SerialFinishPull,
       SerialPlanPrune, SerialPrune DEF RoundStep
<1>4. ASSUME NEW p \in Procs, AbortRound(p)
      PROVE  SerialInv'
  BY <1>4, SerialEnds DEF AbortRound
<1>5. CASE ServerActs
  BY <1>5, ServerDag, SerialHandler
<1>6. CASE UNCHANGED vars
  <2>1. ReplicaOpens'
    BY <1>6, SameDag, OpensAll DEF Inv, SerialInv, vars
  <2>2. \A p \in Procs : PullInv(p)'
    BY <1>6, PullFrame DEF SerialInv, Unanswered, vars, roundVars
  <2>3. QED
    BY <2>1, <2>2 DEF SerialInv
<1>7. QED
  BY <1>1, <1>2, <1>3, <1>4, <1>5, <1>6 DEF Next, ServerActs

\* The invariant of serial rounds holds in every state.
LEMMA SerialHolds ==
    ASSUME OneWriter, Serial
    PROVE  Spec => []SerialInv
<1>1. Init => SerialInv
  <2> SUFFICES ASSUME Init
               PROVE  SerialInv
    OBVIOUS
  <2>1. ReplicaOpens
    <3>1. 0 \in Ops
      BY BoundsAssumption DEF Ops
    <3>2. \A r \in Repos : OneHead(repo[r]) /\ Closed(repo[r].ops)
      BY <3>1 DEF Init, OneHead, Closed, FirstTree
    <3>3. QED
      BY <3>2, OneHeadOpens DEF ReplicaOpens
  <2>2. \A p \in Procs : PullInv(p)
    BY DEF Init, PullInv, PullPhases
  <2>3. QED
    BY <2>1, <2>2 DEF SerialInv
<1>2. Inv /\ OneAtATime /\ PublishInv /\ SerialInv /\ [Next]_vars => SerialInv'
  BY SerialStep
<1>3. QED
  BY <1>1, <1>2, InvHolds, OneAtATimeHolds, PublishInvHolds, PTL DEF Spec

\* While users wait for the rounds of their replica and rounds run one at a
\* time, jj can open every replica at every step of a round, and so wherever
\* the pull, the prune, the program or the server may be cut short; and no
\* operation in it lacks an ancestor.
THEOREM ReplicaOpensHolds ==
    ASSUME OneWriter, Serial
    PROVE  Spec => []ReplicaOpens
<1>1. SerialInv => ReplicaOpens
  BY DEF SerialInv
<1>2. QED
  BY <1>1, SerialHolds, PTL

\* ... and a round that comes to its last look finds the published tree.
THEOREM RoundSettlesHolds ==
    ASSUME OneWriter, Serial
    PROVE  Spec => []RoundSettles
<1>1. ASSUME Inv, SerialInv PROVE RoundSettles
  <2> SUFFICES ASSUME NEW p \in Procs, pc[p] = "prune", files[p] = NoFiles
               PROVE  repo[Home[p]] = pub
    BY DEF RoundSettles
  <2>1. repo[Home[p]] \in Tree /\ pub \in Tree
    BY <1>1, HomeAssumption DEF Inv, TypeOK
  <2>2. /\ mirror.ops = pub.ops
        /\ pub.ops \subseteq repo[Home[p]].ops /\ pub.heads \subseteq repo[Home[p]].heads
        /\ repo[Home[p]].heads \subseteq pub.heads
    BY <1>1 DEF SerialInv, PullInv, PullPhases, NoFiles
  <2>3. repo[Home[p]].ops \subseteq pub.ops
    BY <1>1, <2>2 DEF Inv, RoundInv, Holds
  <2>4. repo[Home[p]].ops = pub.ops /\ repo[Home[p]].heads = pub.heads
    BY <2>2, <2>3
  <2>5. QED
    BY <2>1, <2>4 DEF Tree
<1>2. QED
  BY <1>1, InvHolds, SerialHolds, PTL
================================================================================
