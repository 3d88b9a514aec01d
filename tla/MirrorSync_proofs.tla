--------------------------- MODULE MirrorSync_proofs ---------------------------
(***************************************************************************)
(* Proofs about MirrorSync for every number of replicas, processes,         *)
(* operations, overlapping rounds and failures.                             *)
(***************************************************************************)
EXTENDS MirrorSyncInv, FiniteSetTheorems, WellFoundedInduction, TLAPS

(***************************************************************************)
(* Type correctness.                                                        *)
(***************************************************************************)
LEMMA TreeUpdate ==
    ASSUME NEW t \in Tree, NEW d \in Dirs, NEW s \in SUBSET Ops
    PROVE  [t EXCEPT ![d] = s] \in Tree
BY DEF Tree, Dirs

LEMMA TreeSelect ==
    ASSUME NEW t \in Tree, NEW d \in Dirs
    PROVE  t[d] \in SUBSET Ops
BY DEF Tree, Dirs

LEMMA NewOpType ==
    ASSUME TypeOK, NEW ps \in SUBSET Ops, NEW who \in Repos \cup {Server}, NewOp(ps, who)
    PROVE  /\ nextOp \in Ops
           /\ nextOp' \in 1 .. MaxOps + 1
           /\ ancestors' \in [Ops -> SUBSET Ops]
           /\ author' \in [Ops -> Repos \cup {Server}]
<1>1. nextOp \in Ops /\ nextOp' \in 1 .. MaxOps + 1
  BY BoundsAssumption DEF TypeOK, NewOp, Ops
<1>2. Reach(ps) \in SUBSET Ops
  BY DEF TypeOK, Reach
<1>3. QED
  BY <1>1, <1>2 DEF TypeOK, NewOp

LEMMA InitType == Init => TypeOK
BY BoundsAssumption DEF Init, TypeOK, Ops, Tree, FirstTree, NoFiles, FreeSrv, NoStray, Phases,
   Dirs

RoundTypes ==
    /\ pc \in [Procs -> Phases]
    /\ man \in [Procs -> Tree]
    /\ files \in [Procs -> Tree]
    /\ dirs \in [Procs -> SUBSET Dirs]

SrvTypes ==
    srv \in [phase : {"free", "normalize", "swap", "scan"},
             caller : Procs \cup {None}, new : Ops, old : SUBSET Ops,
             ops : SUBSET Ops, heads : SUBSET Ops, dirs : SUBSET Dirs]

LEMMA NoFilesType == NoFiles \in Tree
BY DEF NoFiles, Tree

LEMMA MinusType ==
    ASSUME NEW s \in Tree, NEW t \in Tree
    PROVE  Minus(s, t) \in Tree
BY DEF Minus, Tree

LEMMA EndRoundType ==
    ASSUME TypeOK, NEW p \in Procs, EndRound(p)
    PROVE  RoundTypes'
BY NoFilesType DEF TypeOK, EndRound, GoTo, WorkOn, RoundTypes, Phases

LEMMA StartListingType ==
    ASSUME TypeOK, NEW p \in Procs, NEW phase \in Phases, NEW t \in Tree,
           StartListing(p, phase, t), man' \in [Procs -> Tree]
    PROVE  RoundTypes'
BY DEF TypeOK, StartListing, GoTo, WorkOn, RoundTypes

LEMMA FreeSrvType == FreeSrv \in [phase : {"free", "normalize", "swap", "scan"},
             caller : Procs \cup {None}, new : Ops, old : SUBSET Ops,
             ops : SUBSET Ops, heads : SUBSET Ops, dirs : SUBSET Dirs]
BY BoundsAssumption DEF FreeSrv, Ops

LEMMA StartScanType ==
    ASSUME TypeOK, NEW t \in Tree, srv' = StartScan(t)
    PROVE  SrvTypes'
<1>1. 0 \in Ops /\ Dirs \in SUBSET Dirs /\ {} \in SUBSET Ops
  BY BoundsAssumption DEF Ops
<1>2. t.ops \in SUBSET Ops /\ t.heads \in SUBSET Ops
  BY DEF Tree
<1>3. QED
  BY <1>1, <1>2 DEF TypeOK, StartScan, SrvTypes

LEMMA ReplyType ==
    ASSUME TypeOK, NEW ok \in BOOLEAN, Reply(ok)
    PROVE  SrvTypes' /\ RoundTypes'
<1>1. SrvTypes'
  BY FreeSrvType DEF Reply, SrvTypes
<1>2. RoundTypes'
  <2>1. CASE srv.caller = None
    BY <2>1 DEF Reply, RoundTypes, TypeOK, roundVars
  <2>2. CASE srv.caller # None
    <3>1. srv.caller \in Procs
      BY <2>2 DEF TypeOK
    <3>2. CASE ok
      BY <2>2, <3>1, <3>2 DEF Reply, RoundTypes, TypeOK, GoTo, Phases
    <3>3. CASE ~ok
      BY <2>2, <3>1, <3>3, EndRoundType DEF Reply
    <3>4. QED
      BY <3>2, <3>3
  <2>3. QED
    BY <2>1, <2>2
<1>3. QED
  BY <1>1, <1>2

LEMMA ListingsType ==
    ASSUME NEW base \in SUBSET Ops, NEW now \in SUBSET Ops, NEW names \in Listings(base, now)
    PROVE  /\ names \in SUBSET Ops /\ base \cap now \subseteq names
           /\ names \subseteq base \cup now
BY DEF Listings

StrayTypes == stray \in [waiting : Nat, swapping : BOOLEAN, new : Ops, old : SUBSET Ops]

LEMMA NoStrayType == NoStray \in [waiting : Nat, swapping : BOOLEAN, new : Ops, old : SUBSET Ops]
BY BoundsAssumption DEF NoStray, Ops

LEMMA ResolvesType ==
    ASSUME TypeOK, NEW head \in Ops, Resolves(head)
    PROVE  /\ nextOp' \in 1 .. MaxOps + 1
           /\ ancestors' \in [Ops -> SUBSET Ops]
           /\ author' \in [Ops -> Repos \cup {Server}]
           /\ mirror' \in Tree
           /\ mirror.heads \ {head} \in SUBSET Ops
<1> DEFINE tips == Tips(mirror.heads)
<1>1. mirror.heads \in SUBSET Ops /\ tips \in SUBSET Ops
  BY DEF TypeOK, Tree, Tips
<1>2. CASE UNCHANGED <<dagVars, mirror>>
  BY <1>1, <1>2 DEF TypeOK, dagVars
<1>3. CASE NewOp(tips, Server) /\ mirror' = [mirror EXCEPT !.ops = @ \cup {nextOp}]
  <2>1. /\ nextOp \in Ops
        /\ nextOp' \in 1 .. MaxOps + 1
        /\ ancestors' \in [Ops -> SUBSET Ops]
        /\ author' \in [Ops -> Repos \cup {Server}]
    BY <1>1, <1>3, NewOpType
  <2>2. mirror' \in Tree
    BY <1>3, <2>1 DEF TypeOK, Tree
  <2>3. QED
    BY <1>1, <2>1, <2>2
<1>4. QED
  BY <1>2, <1>3 DEF Resolves

LEMMA TypeStep == TypeOK /\ [Next]_vars => TypeOK'
<1> SUFFICES ASSUME TypeOK, [Next]_vars
             PROVE  TypeOK'
  OBVIOUS
<1> USE HomeAssumption DEF dagVars, roundVars
<1>1. ASSUME NEW r \in Repos, UserWritesOp(r)
      PROVE  TypeOK'
  <2>1. repo[r].heads \in SUBSET Ops /\ repo[r].ops \in SUBSET Ops
    BY DEF TypeOK, Tree
  <2>2. /\ nextOp \in Ops
        /\ nextOp' \in 1 .. MaxOps + 1
        /\ ancestors' \in [Ops -> SUBSET Ops]
        /\ author' \in [Ops -> Repos \cup {Server}]
    BY <1>1, <2>1, NewOpType DEF UserWritesOp
  <2>3. repo' \in [Repos -> Tree]
    BY ZenonT(30), <1>1, <2>2 DEF UserWritesOp, TypeOK, Tree
  <2>4. QED
    BY <1>1, <2>1, <2>2, <2>3 DEF UserWritesOp, TypeOK
<1>2. ASSUME NEW r \in Repos, UserPublishesHead(r)
      PROVE  TypeOK'
  <2>1. repo' \in [Repos -> Tree]
    <3>1. user[r].op \in Ops /\ repo[r] \in Tree
      BY DEF TypeOK
    <3>2. (repo[r].heads \ user[r].old) \cup {user[r].op} \in SUBSET Ops
      BY <3>1 DEF Tree
    <3>3. [repo[r] EXCEPT !.heads = (@ \ user[r].old) \cup {user[r].op}] \in Tree
      BY <3>1, <3>2 DEF Tree
    <3>4. QED
      BY <1>2, <3>3 DEF UserPublishesHead, TypeOK
  <2>2. user' \in [Repos -> [op : Ops, old : SUBSET Ops]]
    BY <1>2, BoundsAssumption DEF UserPublishesHead, TypeOK, Ops
  <2>3. QED
    BY <1>2, <2>1, <2>2 DEF UserPublishesHead, TypeOK
<1>3. ASSUME NEW p \in Procs, StartRound(p)
      PROVE  TypeOK'
  <2> DEFINE r == Home[p]
             tips == Tips(repo[r].heads)
  <2>1. r \in Repos /\ repo[r] \in Tree /\ tips \in SUBSET Ops
    BY DEF TypeOK, Tree, Tips
  <2>2. /\ repo' \in [Repos -> Tree]
        /\ nextOp' \in 1 .. MaxOps + 1
        /\ ancestors' \in [Ops -> SUBSET Ops]
        /\ author' \in [Ops -> Repos \cup {Server}]
    <3>1. CASE repo' = [repo EXCEPT ![r].heads = tips] /\ UNCHANGED dagVars
      BY <2>1, <3>1 DEF TypeOK, Tree
    <3>2. CASE /\ NewOp(tips, r)
               /\ repo' = [repo EXCEPT ![r] = [ops |-> @.ops \cup {nextOp}, heads |-> {nextOp}]]
      <4>1. /\ nextOp \in Ops
            /\ nextOp' \in 1 .. MaxOps + 1
            /\ ancestors' \in [Ops -> SUBSET Ops]
            /\ author' \in [Ops -> Repos \cup {Server}]
        BY <2>1, <3>2, NewOpType
      <4>2. repo' \in [Repos -> Tree]
        BY <2>1, <3>2, <4>1 DEF TypeOK, Tree
      <4>3. QED
        BY <4>1, <4>2
    <3>3. QED
      BY <1>3, <3>1, <3>2 DEF StartRound
  <2>3. RoundTypes'
    <3>1. repo'[r] \in Tree /\ man' \in [Procs -> Tree]
      BY <1>3, <2>1, <2>2 DEF StartRound, TypeOK
    <3>2. "index_push" \in Phases
      BY DEF Phases, ListPhases
    <3>3. StartListing(p, "index_push", repo'[r])
      BY <1>3 DEF StartRound
    <3>4. QED
      BY <3>1, <3>2, <3>3, StartListingType
  <2>4. QED
    BY <1>3, <2>2, <2>3 DEF StartRound, TypeOK, RoundTypes
<1>4. ASSUME NEW p \in Procs, NEW d \in Dirs, ListDir(p, d)
      PROVE  TypeOK'
  <2>1. CASE EndRound(p)
    BY <1>4, <2>1, EndRoundType DEF ListDir, TypeOK, RoundTypes
  <2>2. CASE /\ \E names \in Listings(files[p][d], repo[Home[p]][d]) :
                    files' = [files EXCEPT ![p][d] = names]
             /\ dirs' = [dirs EXCEPT ![p] = @ \ {d}]
             /\ UNCHANGED <<pc, man>>
    <3>1. PICK names \in Listings(files[p][d], repo[Home[p]][d]) :
                    files' = [files EXCEPT ![p][d] = names]
      BY <2>2
    <3>2. names \in SUBSET Ops
      <4>1. files[p] \in Tree /\ repo[Home[p]] \in Tree
        BY DEF TypeOK
      <4>2. files[p][d] \in SUBSET Ops /\ repo[Home[p]][d] \in SUBSET Ops
        BY <4>1, TreeSelect
      <4>3. QED
        BY <3>1, <4>2, ListingsType
    <3>3. [files[p] EXCEPT ![d] = names] \in Tree
      BY <3>2, TreeUpdate DEF TypeOK
    <3>4. files' \in [Procs -> Tree]
      BY <3>1, <3>3 DEF TypeOK
    <3>5. QED
      BY <1>4, <2>2, <3>4 DEF ListDir, TypeOK
  <2>3. QED
    BY <1>4, <2>1, <2>2 DEF ListDir
<1>5. ASSUME NEW p \in Procs, PlanPush(p)
      PROVE  TypeOK'
  <2>1. Minus(files[p], man[p]) \in Tree
    BY MinusType DEF TypeOK
  <2>2. RoundTypes'
    <3>1. CASE EndRound(p)
      BY <3>1, EndRoundType
    <3>2. CASE GoTo(p, "push") /\ WorkOn(p, Minus(files[p], man[p])) /\ UNCHANGED <<man, dirs>>
      BY <2>1, <3>2 DEF TypeOK, GoTo, WorkOn, RoundTypes, Phases
    <3>3. QED
      BY <1>5, <3>1, <3>2 DEF PlanPush
  <2>3. QED
    BY <1>5, <2>2 DEF PlanPush, TypeOK, RoundTypes
<1>6. ASSUME NEW p \in Procs, NEW d \in Dirs, NEW o \in Ops, Done(p, d, o)
      PROVE  files' \in [Procs -> Tree]
  <2>1. [files[p] EXCEPT ![d] = @ \ {o}] \in Tree
    BY TreeUpdate, TreeSelect DEF TypeOK
  <2>2. QED
    BY <1>6, <2>1 DEF Done, TypeOK
<1>7. ASSUME NEW p \in Procs, NEW d \in Dirs, NEW o \in Ops, Upload(p, d, o)
      PROVE  TypeOK'
  <2>1. CASE EndRound(p) /\ UNCHANGED mirror
    BY <1>7, <2>1, EndRoundType DEF Upload, TypeOK, RoundTypes
  <2>2. CASE /\ mirror' = [mirror EXCEPT ![d] = @ \cup {o}]
             /\ Done(p, d, o)
             /\ UNCHANGED <<pc, man, dirs>>
    <3>1. mirror' \in Tree
      BY <2>2, TreeUpdate, TreeSelect DEF TypeOK
    <3>2. QED
      BY <1>6, <1>7, <2>2, <3>1 DEF Upload, TypeOK
  <2>3. QED
    BY <1>7, <2>1, <2>2 DEF Upload
<1>8. ASSUME NEW p \in Procs, FinishPush(p)
      PROVE  TypeOK'
  BY <1>8 DEF FinishPush, GoTo, TypeOK, Phases
<1>9. ASSUME NEW p \in Procs, NotifyComplete(p)
      PROVE  TypeOK'
  BY <1>9, FreeSrvType DEF NotifyComplete, GoTo, TypeOK, Phases
<1>10. ASSUME NEW p \in Procs, FetchPublished(p)
       PROVE  TypeOK'
  <2>1. "index_pull" \in Phases /\ repo[Home[p]] \in Tree /\ man' \in [Procs -> Tree]
    BY <1>10 DEF FetchPublished, TypeOK, Phases, ListPhases
  <2>2. RoundTypes'
    BY <1>10, <2>1, StartListingType DEF FetchPublished
  <2>3. QED
    BY <1>10, <2>2 DEF FetchPublished, TypeOK, RoundTypes
<1>11. ASSUME NEW p \in Procs, PlanPull(p)
       PROVE  TypeOK'
  BY <1>11, MinusType DEF PlanPull, GoTo, WorkOn, TypeOK, Phases
<1>12. ASSUME NEW p \in Procs, NEW d \in Dirs, NEW o \in Ops, Download(p, d, o)
       PROVE  TypeOK'
  <2>1. [repo[Home[p]] EXCEPT ![d] = @ \cup {o}] \in Tree
    BY TreeUpdate, TreeSelect DEF TypeOK
  <2>2. repo' \in [Repos -> Tree]
    BY <1>12, <2>1 DEF Download, TypeOK
  <2>3. QED
    BY <1>6, <1>12, <2>2 DEF Download, TypeOK
<1>13. ASSUME NEW p \in Procs, NEW d \in Dirs, NEW o \in Ops, Refetch404(p, d, o)
       PROVE  TypeOK'
  <2>1. RoundTypes'
    <3>1. CASE EndRound(p)
      BY <3>1, EndRoundType
    <3>2. CASE man' = [man EXCEPT ![p] = pub] /\ UNCHANGED <<pc, files, dirs>>
      BY <3>2 DEF TypeOK, RoundTypes
    <3>3. QED
      BY <1>13, <3>1, <3>2 DEF Refetch404
  <2>2. QED
    BY <1>13, <2>1 DEF Refetch404, TypeOK, RoundTypes
<1>14. ASSUME NEW p \in Procs, NEW d \in Dirs, NEW o \in Ops, SkipUnlisted(p, d, o)
       PROVE  TypeOK'
  BY <1>6, <1>14 DEF SkipUnlisted, TypeOK
<1>15. ASSUME NEW p \in Procs, FinishPull(p)
       PROVE  TypeOK'
  <2>1. "index_prune" \in Phases /\ repo[Home[p]] \in Tree /\ man' \in [Procs -> Tree]
    BY <1>15 DEF FinishPull, TypeOK, Phases, ListPhases
  <2>2. RoundTypes'
    BY <1>15, <2>1, StartListingType DEF FinishPull
  <2>3. QED
    BY <1>15, <2>2 DEF FinishPull, TypeOK, RoundTypes
<1>16. ASSUME NEW p \in Procs, PlanPrune(p)
       PROVE  TypeOK'
  BY <1>16, MinusType DEF PlanPrune, GoTo, WorkOn, TypeOK, Phases
<1>17. ASSUME NEW p \in Procs, NEW d \in Dirs, NEW o \in Ops, Prune(p, d, o)
       PROVE  TypeOK'
  <2>1. CASE EndRound(p) /\ UNCHANGED repo
    BY <1>17, <2>1, EndRoundType DEF Prune, TypeOK, RoundTypes
  <2>2. CASE /\ repo' = [repo EXCEPT ![Home[p]][d] = @ \ {o}]
             /\ Done(p, d, o)
             /\ UNCHANGED <<pc, man, dirs>>
    <3>1. [repo[Home[p]] EXCEPT ![d] = @ \ {o}] \in Tree
      BY TreeUpdate, TreeSelect DEF TypeOK
    <3>2. repo' \in [Repos -> Tree]
      BY <2>2, <3>1 DEF TypeOK
    <3>3. QED
      BY <1>6, <1>17, <2>2, <3>2 DEF Prune, TypeOK
  <2>3. QED
    BY <1>17, <2>1, <2>2 DEF Prune
<1>18. ASSUME NEW p \in Procs, VerifyAndSave(p)
       PROVE  TypeOK'
  <2>1. saved' \in [Repos -> Tree]
    BY <1>18 DEF VerifyAndSave, TypeOK
  <2>2. RoundTypes'
    BY <1>18, EndRoundType DEF VerifyAndSave
  <2>3. QED
    BY <1>18, <2>1, <2>2 DEF VerifyAndSave, TypeOK, RoundTypes
<1>19. ASSUME Normalize
       PROVE  TypeOK'
  <2>1. CASE Reply(FALSE) /\ UNCHANGED <<dagVars, mirror>>
    BY <1>19, <2>1, ReplyType DEF Normalize, TypeOK, SrvTypes, RoundTypes
  <2>2. CASE srv' = StartScan(mirror) /\ UNCHANGED <<dagVars, mirror, roundVars>>
    <3>1. SrvTypes'
      BY <2>2, StartScanType DEF TypeOK
    <3>2. QED
      BY <1>19, <2>2, <3>1 DEF Normalize, TypeOK, SrvTypes
  <2>3. ASSUME NEW head \in Ops, Resolves(head), UNCHANGED roundVars,
               srv' = [srv EXCEPT !.phase = "swap", !.new = head, !.old = mirror.heads \ {head}]
        PROVE  TypeOK'
    <3>1. SrvTypes'
      BY <2>3, ResolvesType DEF TypeOK, SrvTypes
    <3>2. QED
      BY <1>19, <2>3, <3>1, ResolvesType DEF Normalize, TypeOK, SrvTypes
  <2>4. QED
    BY <1>19, <2>1, <2>2, <2>3 DEF Normalize
<1>20. ASSUME SwapHeads
       PROVE  TypeOK'
  <2>1. mirror' \in Tree
    BY <1>20 DEF SwapHeads, TypeOK, Tree
  <2>2. SrvTypes'
    BY <1>20, <2>1, StartScanType DEF SwapHeads
  <2>3. QED
    BY <1>20, <2>1, <2>2 DEF SwapHeads, TypeOK, SrvTypes
<1>21. ASSUME NEW d \in Dirs, ScanDir(d)
       PROVE  TypeOK'
  <2>1. CASE Reply(FALSE)
    BY <1>21, <2>1, ReplyType DEF ScanDir, TypeOK, SrvTypes, RoundTypes
  <2>2. ASSUME NEW names \in Listings(srv[d], mirror[d]), UNCHANGED roundVars,
               srv' = [srv EXCEPT ![d] = names, !.dirs = @ \ {d}]
        PROVE  TypeOK'
    <3>1. srv[d] \in SUBSET Ops
      <4>1. srv.ops \in SUBSET Ops /\ srv.heads \in SUBSET Ops
        BY DEF TypeOK
      <4>2. QED
        BY <4>1 DEF Dirs
    <3>2. names \in SUBSET Ops
      <4>1. mirror[d] \in SUBSET Ops
        BY TreeSelect DEF TypeOK
      <4>2. QED
        BY <2>2, <3>1, <4>1 DEF Listings
    <3>3. SrvTypes'
      <4>1. CASE d = "ops"
        BY <2>2, <3>2, <4>1 DEF TypeOK, SrvTypes
      <4>2. CASE d = "heads"
        BY <2>2, <3>2, <4>2 DEF TypeOK, SrvTypes
      <4>3. QED
        BY <4>1, <4>2 DEF Dirs
    <3>4. QED
      BY <1>21, <2>2, <3>3 DEF ScanDir, TypeOK, SrvTypes
  <2>3. QED
    BY <1>21, <2>1, <2>2 DEF ScanDir
<1>22. ASSUME Publish
       PROVE  TypeOK'
  <2>1. pub' \in Tree
    BY <1>22 DEF Publish, TypeOK, Tree
  <2>2. SrvTypes' /\ RoundTypes'
    BY <1>22, ReplyType DEF Publish, Closed
  <2>3. QED
    BY <1>22, <2>1, <2>2 DEF Publish, TypeOK, SrvTypes, RoundTypes
<1>23. ASSUME NEW p \in Procs, AbortRound(p)
       PROVE  TypeOK'
  <2>1. failures' \in 0 .. MaxFailures
    BY <1>23, BoundsAssumption DEF AbortRound, Fails, TypeOK
  <2>2. SrvTypes'
    BY <1>23 DEF AbortRound, TypeOK, SrvTypes
  <2>3. RoundTypes'
    BY <1>23, EndRoundType DEF AbortRound
  <2>4. QED
    BY <1>23, <2>1, <2>2, <2>3 DEF AbortRound, TypeOK, SrvTypes, RoundTypes
<1>24. ASSUME DropHandler
       PROVE  TypeOK'
  <2>1. StrayTypes'
    <3>1. CASE srv.phase = "normalize"
      <4>1. stray' = [stray EXCEPT !.waiting = stray.waiting + 1]
        BY <1>24, <3>1 DEF DropHandler
      <4>2. stray.waiting + 1 \in Nat
        BY DEF TypeOK
      <4>3. QED
        BY <4>1, <4>2 DEF TypeOK, StrayTypes
    <3>2. CASE srv.phase = "swap"
      BY <1>24, <3>2 DEF DropHandler, TypeOK, StrayTypes
    <3>3. CASE srv.phase = "scan"
      BY <1>24, <3>3 DEF DropHandler, TypeOK, StrayTypes
    <3>4. QED
      BY <1>24, <3>1, <3>2, <3>3, BoundsAssumption DEF DropHandler
  <2>2. QED
    BY <1>24, <2>1, FreeSrvType DEF DropHandler, TypeOK, StrayTypes
<1>25. ASSUME StrayReads
       PROVE  TypeOK'
  <2>1. stray.waiting - 1 \in Nat
    BY <1>25 DEF StrayReads, TypeOK
  <2>2. CASE stray' = [stray EXCEPT !.waiting = @ - 1] /\ UNCHANGED <<dagVars, mirror>>
    BY <1>25, <2>1, <2>2 DEF StrayReads, TypeOK
  <2>3. ASSUME NEW head \in Ops, Resolves(head),
               stray' = [waiting |-> stray.waiting - 1, swapping |-> TRUE,
                         new |-> head, old |-> mirror.heads \ {head}]
        PROVE  TypeOK'
    <3>1. StrayTypes'
      BY <2>1, <2>3, ResolvesType DEF StrayTypes
    <3>2. QED
      BY <1>25, <2>3, <3>1, ResolvesType DEF StrayReads, TypeOK, StrayTypes
  <2>4. QED
    BY <1>25, <2>2, <2>3 DEF StrayReads
<1>26. ASSUME StraySwaps
       PROVE  TypeOK'
  <2>1. mirror' \in Tree
    <3>1. mirror \in Tree /\ stray.new \in Ops
      BY DEF TypeOK
    <3>2. \/ mirror' = mirror
          \/ mirror' = [mirror EXCEPT !.heads = mirror.heads \cup {stray.new}]
          \/ \E h : mirror' = [mirror EXCEPT !.heads = mirror.heads \ {h}]
      BY <1>26 DEF StraySwaps
    <3>3. QED
      BY <3>1, <3>2 DEF Tree
  <2>2. StrayTypes'
    BY <1>26, NoStrayType DEF StraySwaps, TypeOK, StrayTypes
  <2>3. QED
    BY <1>26, <2>1, <2>2 DEF StraySwaps, TypeOK, StrayTypes
<1>27. ASSUME RestartServer
       PROVE  TypeOK'
  <2>1. failures' \in 0 .. MaxFailures
    BY <1>27, BoundsAssumption DEF RestartServer, Fails, TypeOK
  <2>2. mirror' \in Tree
    <3>1. mirror \in Tree /\ srv.new \in Ops
      BY DEF TypeOK
    <3>2. \/ mirror' = mirror
          \/ \E gone \in SUBSET srv.old :
                 mirror' = [mirror EXCEPT !.heads = (mirror.heads \cup {srv.new}) \ gone]
      BY <1>27 DEF RestartServer
    <3>3. QED
      BY <3>1, <3>2 DEF Tree
  <2>3. SrvTypes' /\ RoundTypes'
    BY <1>27, ReplyType DEF RestartServer
  <2>4. QED
    BY <1>27, <2>1, <2>2, <2>3, NoStrayType DEF RestartServer, TypeOK, SrvTypes, RoundTypes
<1>28. CASE UNCHANGED vars
  BY <1>28 DEF vars, TypeOK
<1>29. QED
  BY <1>1, <1>2, <1>3, <1>4, <1>5, <1>7, <1>8, <1>9, <1>10, <1>11, <1>12, <1>13,
     <1>14, <1>15, <1>16, <1>17, <1>18, <1>19, <1>20, <1>21, <1>22, <1>23,
     <1>24, <1>25, <1>26, <1>27, <1>28 DEF Next, RoundStep, HandlerStep, StrayStep

\* In every behavior each variable keeps its type: the phases a round or a
\* handler can be in are those of its code and every tree holds operations.
THEOREM TypeCorrect == Spec => []TypeOK
BY InitType, TypeStep, PTL DEF Spec

(***************************************************************************)
(* Every name stands for an operation that exists.                          *)
(***************************************************************************)
LEMMA NewOpCreates ==
    ASSUME TypeOK, NEW ps \in SUBSET Ops, NEW who, NewOp(ps, who)
    PROVE  /\ nextOp \in Ops /\ Created' = Created \cup {nextOp}
           /\ \A o \in Created : ancestors'[o] = ancestors[o]
<1>1. nextOp \in 1 .. MaxOps + 1 /\ nextOp <= MaxOps /\ nextOp' = nextOp + 1
  BY DEF TypeOK, NewOp
<1>2. nextOp \in Ops /\ nextOp \in Nat /\ Created \subseteq Nat /\ nextOp \notin Created
  BY <1>1, BoundsAssumption DEF Ops, Created
<1>3. Created' = Created \cup {nextOp}
  BY <1>1, <1>2 DEF Created
<1>4. \A o \in Created : ancestors'[o] = ancestors[o]
  <2>1. Created \subseteq Ops
    BY <1>1, BoundsAssumption DEF Created, Ops
  <2>2. QED
    BY <1>2, <2>1 DEF NewOp, TypeOK
<1>5. QED
  BY <1>2, <1>3, <1>4

LEMMA SameCreated == dagVars' = dagVars => Created' = Created
BY DEF dagVars, Created

LEMMA KnownUpdate ==
    ASSUME NEW t \in Tree, NEW d \in Dirs, NEW s, NEW C,
           s \subseteq C, t.ops \subseteq C, t.heads \subseteq C
    PROVE  [t EXCEPT ![d] = s].ops \subseteq C /\ [t EXCEPT ![d] = s].heads \subseteq C
BY DEF Tree, Dirs

LEMMA KnownFrame ==
    ASSUME KnownInv, Created \subseteq Created',
           mirror' = mirror \/ Known(mirror)',
           pub' = pub \/ Known(pub)',
           \A r \in Repos : repo'[r] = repo[r] \/ Known(repo[r])',
           \A r \in Repos : \/ user'[r] = user[r]
                            \/ user'[r].op \in Created' /\ user'[r].old \subseteq Created',
           \A p \in Procs : man'[p] = man[p] \/ Known(man[p])',
           \A p \in Procs : files'[p] = files[p] \/ Known(files[p])',
           srv' = srv \/ /\ Known(srv)' /\ srv'.new \in Created' /\ srv'.old \subseteq Created'
    PROVE  KnownInv'
<1>1. Known(mirror)' /\ Known(pub)'
  BY DEF KnownInv, Known
<1>2. \A r \in Repos : /\ Known(repo[r])'
                       /\ user'[r].op \in Created' /\ user'[r].old \subseteq Created'
  BY DEF KnownInv, Known
<1>3. \A p \in Procs : Known(man[p])' /\ Known(files[p])'
  BY DEF KnownInv, Known
<1>4. Known(srv)' /\ srv'.new \in Created' /\ srv'.old \subseteq Created'
  BY DEF KnownInv, Known
<1>5. QED
  BY <1>1, <1>2, <1>3, <1>4 DEF KnownInv

LEMMA ZeroCreated == TypeOK => 0 \in Created
BY BoundsAssumption DEF TypeOK, Created

LEMMA EndRoundKnown ==
    ASSUME TypeOK, NEW p \in Procs, EndRound(p)
    PROVE  /\ \A q \in Procs : man'[q] = man[q] \/ Known(man[q])'
           /\ \A q \in Procs : files'[q] = files[q] \/ Known(files[q])'
BY DEF TypeOK, EndRound, GoTo, WorkOn, Known, NoFiles

LEMMA ReplyKnown ==
    ASSUME TypeOK, NEW ok \in BOOLEAN, Reply(ok), dagVars' = dagVars
    PROVE  /\ Known(srv)' /\ srv'.new \in Created' /\ srv'.old \subseteq Created'
           /\ \A q \in Procs : man'[q] = man[q] \/ Known(man[q])'
           /\ \A q \in Procs : files'[q] = files[q] \/ Known(files[q])'
<1>1. Known(srv)' /\ srv'.new \in Created' /\ srv'.old \subseteq Created'
  BY ZeroCreated, SameCreated DEF Reply, FreeSrv, Known
<1>2. CASE srv.caller = None
  BY <1>1, <1>2 DEF Reply, roundVars
<1>3. CASE srv.caller # None /\ ok
  BY <1>1, <1>3 DEF Reply
<1>4. CASE srv.caller # None /\ ~ok
  <2>1. srv.caller \in Procs
    BY <1>4 DEF TypeOK
  <2>2. QED
    BY <1>1, <1>4, <2>1, EndRoundKnown DEF Reply
<1>5. QED
  BY <1>2, <1>3, <1>4

LEMMA DoneKnown ==
    ASSUME TypeOK, KnownInv, NEW p \in Procs, NEW d \in Dirs, NEW o \in Ops,
           Done(p, d, o), Created' = Created
    PROVE  /\ o \in files[p][d] => o \in Created
           /\ \A q \in Procs : files'[q] = files[q] \/ Known(files[q])'
<1>1. files[p] \in Tree /\ Known(files[p])
  BY DEF TypeOK, KnownInv
<1>2. files[p][d] \subseteq Created
  BY <1>1 DEF Known, Dirs
<1>3. files'[p] = [files[p] EXCEPT ![d] = files[p][d] \ {o}]
  BY DEF Done, TypeOK
<1>4. files'[p].ops \subseteq Created /\ files'[p].heads \subseteq Created
  BY <1>1, <1>2, <1>3, KnownUpdate DEF Known
<1>5. \A q \in Procs : q # p => files'[q] = files[q]
  BY DEF Done, TypeOK
<1>6. QED
  BY <1>2, <1>4, <1>5 DEF Known

LEMMA ResolvesKnown ==
    ASSUME TypeOK, KnownInv, NEW head \in Ops, Resolves(head)
    PROVE  /\ Created \subseteq Created' /\ Known(mirror)' /\ head \in Created'
           /\ mirror.heads \subseteq Created
<1> DEFINE tips == Tips(mirror.heads)
<1>1. mirror \in Tree /\ Known(mirror) /\ tips \subseteq mirror.heads /\ tips \in SUBSET Ops
  BY DEF TypeOK, KnownInv, Tree, Tips
<1>2. CASE /\ Cardinality(tips) = 1
           /\ head = CHOOSE h \in tips : TRUE
           /\ UNCHANGED <<dagVars, mirror>>
  <2>1. tips # {}
    BY <1>2, FS_EmptySet
  <2>2. head \in tips
    BY <1>2, <2>1
  <2>3. Created' = Created
    BY <1>2, SameCreated
  <2>4. QED
    BY <1>1, <1>2, <2>2, <2>3 DEF Known
<1>3. CASE /\ head = nextOp /\ NewOp(tips, Server)
           /\ mirror' = [mirror EXCEPT !.ops = @ \cup {nextOp}]
  <2>1. Created' = Created \cup {nextOp}
    BY <1>1, <1>3, NewOpCreates
  <2>2. QED
    BY <1>1, <1>3, <2>1 DEF Known, Tree
<1>4. QED
  BY <1>2, <1>3 DEF Resolves

LEMMA KnownStep ==
    ASSUME TypeOK, TypeOK', KnownInv, StrayKnown, [Next]_vars
    PROVE  KnownInv'
<1> USE HomeAssumption DEF dagVars, roundVars
<1>0. 0 \in Created
  BY ZeroCreated
<1>1. ASSUME NEW r \in Repos, UserWritesOp(r)
      PROVE  KnownInv'
  <2>1. repo[r] \in Tree /\ repo[r].heads \subseteq Ops /\ Known(repo[r])
    BY DEF TypeOK, Tree, KnownInv
  <2>2. Created' = Created \cup {nextOp}
    BY <1>1, <2>1, NewOpCreates DEF UserWritesOp
  <2>3. repo'[r] = [repo[r] EXCEPT !.ops = @ \cup {nextOp}]
    BY <1>1 DEF UserWritesOp, TypeOK
  <2>4. Known(repo[r])'
    BY <2>1, <2>2, <2>3 DEF Known, Tree
  <2>5. user'[r].op \in Created' /\ user'[r].old \subseteq Created'
    BY <1>1, <2>1, <2>2 DEF UserWritesOp, TypeOK, Known
  <2>6. \A s \in Repos : s # r => repo'[s] = repo[s] /\ user'[s] = user[s]
    BY <1>1 DEF UserWritesOp, TypeOK
  <2>7. QED
    BY <1>1, <2>2, <2>4, <2>5, <2>6, KnownFrame DEF UserWritesOp
<1>2. ASSUME NEW r \in Repos, UserPublishesHead(r)
      PROVE  KnownInv'
  <2>1. repo[r] \in Tree /\ Known(repo[r]) /\ user[r].op \in Created
    BY DEF TypeOK, KnownInv
  <2>2. repo'[r] = [repo[r] EXCEPT !.heads = (@ \ user[r].old) \cup {user[r].op}]
    BY <1>2 DEF UserPublishesHead, TypeOK
  <2>3. Created' = Created
    BY <1>2, SameCreated DEF UserPublishesHead
  <2>4. Known(repo[r])'
    BY <2>1, <2>2, <2>3 DEF Known, Tree
  <2>5. user'[r].op \in Created' /\ user'[r].old \subseteq Created'
    BY <1>0, <1>2, <2>3 DEF UserPublishesHead, TypeOK
  <2>6. \A s \in Repos : s # r => repo'[s] = repo[s] /\ user'[s] = user[s]
    BY <1>2 DEF UserPublishesHead, TypeOK
  <2>7. QED
    BY <1>2, <2>3, <2>4, <2>5, <2>6, KnownFrame DEF UserPublishesHead
<1>3. ASSUME NEW p \in Procs, StartRound(p)
      PROVE  KnownInv'
  <2> DEFINE r == Home[p]
             tips == Tips(repo[r].heads)
  <2>1. r \in Repos /\ repo[r] \in Tree /\ Known(repo[r]) /\ tips \subseteq repo[r].heads
        /\ tips \in SUBSET Ops
    BY DEF TypeOK, KnownInv, Tree, Tips
  <2>2. Created \subseteq Created' /\ Known(repo[r])' /\ \A s \in Repos : s # r => repo'[s] = repo[s]
    <3>1. CASE repo' = [repo EXCEPT ![r].heads = tips] /\ UNCHANGED dagVars
      <4>1. repo'[r] = [repo[r] EXCEPT !.heads = tips]
        BY <2>1, <3>1 DEF TypeOK
      <4>2. Created' = Created
        BY <3>1, SameCreated
      <4>3. QED
        BY <2>1, <3>1, <4>1, <4>2 DEF TypeOK, Known, Tree
    <3>2. CASE /\ NewOp(tips, r)
               /\ repo' = [repo EXCEPT ![r] = [ops |-> @.ops \cup {nextOp}, heads |-> {nextOp}]]
      <4>1. Created' = Created \cup {nextOp}
        BY <2>1, <3>2, NewOpCreates
      <4>2. repo'[r] = [ops |-> repo[r].ops \cup {nextOp}, heads |-> {nextOp}]
        BY <2>1, <3>2 DEF TypeOK
      <4>3. QED
        BY <2>1, <3>2, <4>1, <4>2 DEF TypeOK, Known
    <3>3. QED
      BY <1>3, <3>1, <3>2 DEF StartRound
  <2>3. \A q \in Procs : man'[q] = man[q] \/ Known(man[q])'
    BY <1>3, <2>2 DEF StartRound, TypeOK, KnownInv, Known
  <2>4. \A q \in Procs : files'[q] = files[q] \/ Known(files[q])'
    BY <1>3, <2>2 DEF StartRound, StartListing, WorkOn, TypeOK, Known
  <2>5. QED
    BY <1>3, <2>2, <2>3, <2>4, KnownFrame DEF StartRound
<1>4. ASSUME NEW p \in Procs, NEW d \in Dirs, ListDir(p, d)
      PROVE  KnownInv'
  <2>1. Created' = Created
    BY <1>4, SameCreated DEF ListDir
  <2>2. CASE EndRound(p)
    BY <1>4, <2>1, <2>2, EndRoundKnown, KnownFrame DEF ListDir
  <2>3. CASE /\ \E names \in Listings(files[p][d], repo[Home[p]][d]) :
                    files' = [files EXCEPT ![p][d] = names]
             /\ UNCHANGED <<pc, man>>
    <3>1. PICK names \in Listings(files[p][d], repo[Home[p]][d]) :
                    files' = [files EXCEPT ![p][d] = names]
      BY <2>3
    <3>2. names \subseteq files[p][d] \cup repo[Home[p]][d]
      BY <3>1 DEF Listings
    <3>3. repo[Home[p]][d] \subseteq Created /\ files[p][d] \subseteq Created
      BY DEF KnownInv, Known, Dirs
    <3>4. files[p] \in Tree /\ Known(files[p]) /\ files'[p] = [files[p] EXCEPT ![d] = names]
      BY <3>1 DEF TypeOK, KnownInv
    <3>5. files'[p].ops \subseteq Created /\ files'[p].heads \subseteq Created
      BY <3>2, <3>3, <3>4, KnownUpdate DEF Known
    <3>6. \A q \in Procs : files'[q] = files[q] \/ Known(files[q])'
      BY <2>1, <3>1, <3>5 DEF TypeOK, Known
    <3>7. QED
      BY <1>4, <2>1, <2>3, <3>6, KnownFrame DEF ListDir
  <2>4. QED
    BY <1>4, <2>2, <2>3 DEF ListDir
<1>5. ASSUME NEW p \in Procs, PlanPush(p)
      PROVE  KnownInv'
  <2>1. Created' = Created
    BY <1>5, SameCreated DEF PlanPush
  <2>2. CASE EndRound(p)
    BY <1>5, <2>1, <2>2, EndRoundKnown, KnownFrame DEF PlanPush
  <2>3. CASE WorkOn(p, Minus(files[p], man[p])) /\ UNCHANGED <<man, dirs>>
    <3>1. Minus(files[p], man[p]).ops \subseteq Created /\ Minus(files[p], man[p]).heads \subseteq Created
      BY DEF KnownInv, Known, Minus
    <3>2. \A q \in Procs : files'[q] = files[q] \/ Known(files[q])'
      BY <2>1, <2>3, <3>1 DEF WorkOn, TypeOK, Known
    <3>3. QED
      BY <1>5, <2>1, <2>3, <3>2, KnownFrame DEF PlanPush
  <2>4. QED
    BY <1>5, <2>2, <2>3 DEF PlanPush
<1>6. ASSUME NEW p \in Procs, NEW d \in Dirs, NEW o \in Ops, Upload(p, d, o)
      PROVE  KnownInv'
  <2>1. Created' = Created
    BY <1>6, SameCreated DEF Upload
  <2>2. CASE EndRound(p) /\ UNCHANGED mirror
    BY <1>6, <2>1, <2>2, EndRoundKnown, KnownFrame DEF Upload
  <2>3. CASE mirror' = [mirror EXCEPT ![d] = @ \cup {o}] /\ Done(p, d, o) /\ UNCHANGED man
    <3>1. o \in Created
      BY <1>6, <2>1, <2>3, DoneKnown DEF Upload, Ready
    <3>2. mirror \in Tree /\ Known(mirror) /\ mirror[d] \subseteq Created
      BY DEF TypeOK, KnownInv, Known, Dirs
    <3>3. Known(mirror)'
      BY <2>1, <2>3, <3>1, <3>2, KnownUpdate DEF Known
    <3>4. QED
      BY <1>6, <2>1, <2>3, <3>3, DoneKnown, KnownFrame DEF Upload
  <2>4. QED
    BY <1>6, <2>2, <2>3 DEF Upload
<1>7. ASSUME NEW p \in Procs, FinishPush(p)
      PROVE  KnownInv'
  BY <1>7, SameCreated, KnownFrame DEF FinishPush
<1>8. ASSUME NEW p \in Procs, NotifyComplete(p)
      PROVE  KnownInv'
  <2>1. Known(srv)' /\ srv'.new \in Created /\ srv'.old \subseteq Created
    BY <1>0, <1>8 DEF NotifyComplete, FreeSrv, Known
  <2>2. QED
    BY <1>8, <2>1, SameCreated, KnownFrame DEF NotifyComplete
<1>9. ASSUME NEW p \in Procs, FetchPublished(p)
      PROVE  KnownInv'
  <2>1. Created' = Created
    BY <1>9, SameCreated DEF FetchPublished
  <2>2. \A q \in Procs : man'[q] = man[q] \/ Known(man[q])'
    BY <1>9, <2>1 DEF FetchPublished, TypeOK, KnownInv, Known
  <2>3. \A q \in Procs : files'[q] = files[q] \/ Known(files[q])'
    BY <1>9, <2>1 DEF FetchPublished, StartListing, WorkOn, TypeOK, KnownInv, Known
  <2>4. QED
    BY <1>9, <2>1, <2>2, <2>3, KnownFrame DEF FetchPublished
<1>10. ASSUME NEW p \in Procs, PlanPull(p)
       PROVE  KnownInv'
  <2>1. Created' = Created
    BY <1>10, SameCreated DEF PlanPull
  <2>2. Minus(man[p], files[p]).ops \subseteq Created /\ Minus(man[p], files[p]).heads \subseteq Created
    BY DEF KnownInv, Known, Minus
  <2>3. \A q \in Procs : files'[q] = files[q] \/ Known(files[q])'
    BY <1>10, <2>1, <2>2 DEF PlanPull, WorkOn, TypeOK, Known
  <2>4. QED
    BY <1>10, <2>1, <2>3, KnownFrame DEF PlanPull
<1>11. ASSUME NEW p \in Procs, NEW d \in Dirs, NEW o \in Ops, Download(p, d, o)
       PROVE  KnownInv'
  <2> DEFINE r == Home[p]
  <2>1. Created' = Created
    BY <1>11, SameCreated DEF Download
  <2>2. o \in Created
    BY <1>11, <2>1, DoneKnown DEF Download, Ready
  <2>3. r \in Repos /\ repo[r] \in Tree /\ Known(repo[r]) /\ repo[r][d] \subseteq Created
    BY DEF TypeOK, KnownInv, Known, Dirs
  <2>4. repo'[r] = [repo[r] EXCEPT ![d] = repo[r][d] \cup {o}]
    BY <1>11, <2>3 DEF Download, TypeOK
  <2>5. Known(repo[r])'
    BY <2>1, <2>2, <2>3, <2>4, KnownUpdate DEF Known
  <2>6. \A s \in Repos : s # r => repo'[s] = repo[s]
    BY <1>11 DEF Download, TypeOK
  <2>7. QED
    BY <1>11, <2>1, <2>5, <2>6, DoneKnown, KnownFrame DEF Download
<1>12. ASSUME NEW p \in Procs, NEW d \in Dirs, NEW o \in Ops, Refetch404(p, d, o)
       PROVE  KnownInv'
  <2>1. Created' = Created
    BY <1>12, SameCreated DEF Refetch404
  <2>2. CASE EndRound(p)
    BY <1>12, <2>1, <2>2, EndRoundKnown, KnownFrame DEF Refetch404
  <2>3. CASE man' = [man EXCEPT ![p] = pub] /\ UNCHANGED <<pc, files, dirs>>
    <3>1. \A q \in Procs : man'[q] = man[q] \/ Known(man[q])'
      BY <2>1, <2>3 DEF TypeOK, KnownInv, Known
    <3>2. QED
      BY <1>12, <2>1, <2>3, <3>1, KnownFrame DEF Refetch404
  <2>4. QED
    BY <1>12, <2>2, <2>3 DEF Refetch404
<1>13. ASSUME NEW p \in Procs, NEW d \in Dirs, NEW o \in Ops, SkipUnlisted(p, d, o)
       PROVE  KnownInv'
  <2>1. Created' = Created
    BY <1>13, SameCreated DEF SkipUnlisted
  <2>2. QED
    BY <1>13, <2>1, DoneKnown, KnownFrame DEF SkipUnlisted
<1>14. ASSUME NEW p \in Procs, FinishPull(p)
       PROVE  KnownInv'
  <2>1. Created' = Created
    BY <1>14, SameCreated DEF FinishPull
  <2>2. \A q \in Procs : files'[q] = files[q] \/ Known(files[q])'
    BY <1>14, <2>1 DEF FinishPull, StartListing, WorkOn, TypeOK, KnownInv, Known
  <2>3. QED
    BY <1>14, <2>1, <2>2, KnownFrame DEF FinishPull
<1>15. ASSUME NEW p \in Procs, PlanPrune(p)
       PROVE  KnownInv'
  <2>1. Created' = Created
    BY <1>15, SameCreated DEF PlanPrune
  <2>2. Minus(files[p], man[p]).ops \subseteq Created /\ Minus(files[p], man[p]).heads \subseteq Created
    BY DEF KnownInv, Known, Minus
  <2>3. \A q \in Procs : files'[q] = files[q] \/ Known(files[q])'
    BY <1>15, <2>1, <2>2 DEF PlanPrune, WorkOn, TypeOK, Known
  <2>4. QED
    BY <1>15, <2>1, <2>3, KnownFrame DEF PlanPrune
<1>16. ASSUME NEW p \in Procs, NEW d \in Dirs, NEW o \in Ops, Prune(p, d, o)
       PROVE  KnownInv'
  <2> DEFINE r == Home[p]
  <2>1. Created' = Created
    BY <1>16, SameCreated DEF Prune
  <2>2. CASE EndRound(p) /\ UNCHANGED repo
    BY <1>16, <2>1, <2>2, EndRoundKnown, KnownFrame DEF Prune
  <2>3. CASE repo' = [repo EXCEPT ![r][d] = @ \ {o}] /\ Done(p, d, o) /\ UNCHANGED man
    <3>1. r \in Repos /\ repo[r] \in Tree /\ Known(repo[r]) /\ repo[r][d] \ {o} \subseteq Created
      BY DEF TypeOK, KnownInv, Known, Dirs
    <3>2. repo'[r] = [repo[r] EXCEPT ![d] = repo[r][d] \ {o}]
      BY <2>3, <3>1 DEF TypeOK
    <3>3. Known(repo[r])'
      BY <2>1, <3>1, <3>2, KnownUpdate DEF Known
    <3>4. \A s \in Repos : s # r => repo'[s] = repo[s]
      BY <2>3 DEF TypeOK
    <3>5. QED
      BY <1>16, <2>1, <2>3, <3>3, <3>4, DoneKnown, KnownFrame DEF Prune
  <2>4. QED
    BY <1>16, <2>2, <2>3 DEF Prune
<1>17. ASSUME NEW p \in Procs, VerifyAndSave(p)
       PROVE  KnownInv'
  <2>1. Created' = Created
    BY <1>17, SameCreated DEF VerifyAndSave
  <2>2. QED
    BY <1>17, <2>1, EndRoundKnown, KnownFrame DEF VerifyAndSave
<1>18. ASSUME NEW p \in Procs, AbortRound(p)
       PROVE  KnownInv'
  <2>1. Created' = Created
    BY <1>18, SameCreated DEF AbortRound
  <2>2. Known(srv)' /\ srv'.new \in Created' /\ srv'.old \subseteq Created'
    BY <1>18, <2>1 DEF AbortRound, KnownInv, Known, TypeOK
  <2>3. QED
    BY <1>18, <2>1, <2>2, EndRoundKnown, KnownFrame DEF AbortRound
<1>19. ASSUME Normalize
       PROVE  KnownInv'
  <2>1. mirror \in Tree /\ Known(mirror) /\ Known(srv)
    BY DEF TypeOK, KnownInv
  <2>2. CASE Reply(FALSE) /\ UNCHANGED <<dagVars, mirror>>
    BY <1>19, <2>2, SameCreated, ReplyKnown, KnownFrame DEF Normalize
  <2>3. CASE srv' = StartScan(mirror) /\ UNCHANGED <<dagVars, mirror, roundVars>>
    <3>1. Known(srv)' /\ srv'.new \in Created' /\ srv'.old \subseteq Created'
      BY <1>0, <2>1, <2>3, SameCreated DEF StartScan, Known, TypeOK
    <3>2. QED
      BY <1>19, <2>3, <3>1, SameCreated, KnownFrame DEF Normalize
  <2>4. ASSUME NEW head \in Ops, Resolves(head), UNCHANGED roundVars,
               srv' = [srv EXCEPT !.phase = "swap", !.new = head, !.old = mirror.heads \ {head}]
        PROVE  KnownInv'
    <3>1. /\ srv'.ops = srv.ops /\ srv'.heads = srv.heads
          /\ srv'.new = head /\ srv'.old = mirror.heads \ {head}
      BY <2>4 DEF TypeOK
    <3>2. Known(srv)' /\ srv'.new \in Created' /\ srv'.old \subseteq Created'
      BY <2>1, <2>4, <3>1, ResolvesKnown DEF Known
    <3>3. QED
      BY <1>19, <2>4, <3>2, ResolvesKnown, KnownFrame DEF Normalize
  <2>5. QED
    BY <1>19, <2>2, <2>3, <2>4 DEF Normalize
<1>20. ASSUME SwapHeads
       PROVE  KnownInv'
  <2>1. mirror \in Tree /\ Known(mirror) /\ srv.new \in Created /\ Created' = Created
    BY <1>20, SameCreated DEF SwapHeads, TypeOK, KnownInv
  <2>2. Known(mirror)'
    BY <1>20, <2>1 DEF SwapHeads, Known, Tree
  <2>3. Known(srv)' /\ srv'.new \in Created' /\ srv'.old \subseteq Created'
    BY <1>0, <1>20, <2>1, <2>2 DEF SwapHeads, StartScan, Known, TypeOK
  <2>4. QED
    BY <1>20, <2>1, <2>2, <2>3, KnownFrame DEF SwapHeads
<1>21. ASSUME NEW d \in Dirs, ScanDir(d)
       PROVE  KnownInv'
  <2>1. Created' = Created
    BY <1>21, SameCreated DEF ScanDir
  <2>2. CASE Reply(FALSE)
    BY <1>21, <2>1, <2>2, ReplyKnown, KnownFrame DEF ScanDir
  <2>3. ASSUME NEW names \in Listings(srv[d], mirror[d]), UNCHANGED roundVars,
               srv' = [srv EXCEPT ![d] = names, !.dirs = @ \ {d}]
        PROVE  KnownInv'
    <3>1. names \subseteq srv[d] \cup mirror[d]
      BY <2>3 DEF Listings
    <3>2. srv[d] \subseteq Created /\ mirror[d] \subseteq Created
      BY DEF KnownInv, Known, Dirs
    <3>3. Known(srv)' /\ srv'.new \in Created' /\ srv'.old \subseteq Created'
      <4>1. CASE d = "ops"
        BY <2>1, <2>3, <3>1, <3>2, <4>1 DEF KnownInv, Known, TypeOK
      <4>2. CASE d = "heads"
        BY <2>1, <2>3, <3>1, <3>2, <4>2 DEF KnownInv, Known, TypeOK
      <4>3. QED
        BY <4>1, <4>2 DEF Dirs
    <3>4. QED
      BY <1>21, <2>1, <2>3, <3>3, KnownFrame DEF ScanDir
  <2>4. QED
    BY <1>21, <2>2, <2>3 DEF ScanDir
<1>22. ASSUME Publish
       PROVE  KnownInv'
  <2>1. Created' = Created
    BY <1>22, SameCreated DEF Publish
  <2>2. pub' = pub \/ Known(pub)'
    BY <1>22, <2>1 DEF Publish, KnownInv, Known
  <2>3. Reply(Closed(srv.ops)) /\ Closed(srv.ops) \in BOOLEAN
    BY <1>22 DEF Publish, Closed
  <2>4. QED
    BY <1>22, <2>1, <2>2, <2>3, ReplyKnown, KnownFrame DEF Publish
<1>23. ASSUME DropHandler
       PROVE  KnownInv'
  <2>1. Created' = Created
    BY <1>23, SameCreated DEF DropHandler
  <2>2. Known(srv)' /\ srv'.new \in Created' /\ srv'.old \subseteq Created'
    BY <1>0, <1>23, <2>1 DEF DropHandler, FreeSrv, Known
  <2>3. QED
    BY <1>23, <2>1, <2>2, KnownFrame DEF DropHandler
<1>24. ASSUME RestartServer
       PROVE  KnownInv'
  <2>1. mirror \in Tree /\ Known(mirror) /\ srv.new \in Created /\ Created' = Created
    BY <1>24, SameCreated DEF RestartServer, TypeOK, KnownInv
  <2>2. mirror' = mirror \/ Known(mirror)'
    BY <1>24, <2>1 DEF RestartServer, Known, Tree
  <2>3. QED
    BY <1>24, <2>1, <2>2, ReplyKnown, KnownFrame DEF RestartServer
<1>25. ASSUME StrayReads
       PROVE  KnownInv'
  <2>1. CASE UNCHANGED <<dagVars, mirror>>
    BY <1>25, <2>1, SameCreated, KnownFrame DEF StrayReads
  <2>2. ASSUME NEW head \in Ops, Resolves(head)
        PROVE  KnownInv'
    BY <1>25, <2>2, ResolvesKnown, KnownFrame DEF StrayReads
  <2>3. QED
    BY <1>25, <2>1, <2>2 DEF StrayReads
<1>26. ASSUME StraySwaps
       PROVE  KnownInv'
  <2>1. mirror \in Tree /\ Known(mirror) /\ stray.new \in Created /\ Created' = Created
    BY <1>26, SameCreated DEF StraySwaps, TypeOK, KnownInv, StrayKnown
  <2>2. Known(mirror)'
    BY <1>26, <2>1 DEF StraySwaps, Known, Tree
  <2>3. QED
    BY <1>26, <2>1, <2>2, KnownFrame DEF StraySwaps
<1>27. CASE UNCHANGED vars
  BY <1>27, SameCreated, KnownFrame DEF vars
<1>28. QED
  BY <1>1, <1>2, <1>3, <1>4, <1>5, <1>6, <1>7, <1>8, <1>9, <1>10, <1>11, <1>12, <1>13,
     <1>14, <1>15, <1>16, <1>17, <1>18, <1>19, <1>20, <1>21, <1>22, <1>23,
     <1>24, <1>25, <1>26, <1>27 DEF Next, RoundStep, HandlerStep, StrayStep

LEMMA Intervals ==
    ASSUME NEW x \in 1 .. MaxOps + 1, NEW y \in 1 .. MaxOps + 1, x <= y
    PROVE  0 .. x - 1 \subseteq 0 .. y - 1 /\ 0 .. y - 1 \subseteq Ops
BY BoundsAssumption DEF Ops

\* Only what resolves heads and what a user writes create operations, and only
\* the server's own steps touch the normalizations without a handler.
LEMMA StepFrame ==
    ASSUME [Next]_vars
    PROVE  /\ dagVars' = dagVars \/ \E ps, who : NewOp(ps, who)
           /\ stray' = stray \/ DropHandler \/ StrayStep \/ RestartServer
<1>1. ASSUME NEW r \in Repos, UserWritesOp(r) \/ UserPublishesHead(r)
      PROVE  stray' = stray /\ (dagVars' = dagVars \/ NewOp(repo[r].heads, r))
  BY <1>1 DEF UserWritesOp, UserPublishesHead
<1>2. ASSUME NEW p \in Procs, StartRound(p)
      PROVE  stray' = stray /\ (dagVars' = dagVars \/ NewOp(Tips(repo[Home[p]].heads), Home[p]))
  BY <1>2 DEF StartRound
<1>3. ASSUME NEW p \in Procs, RoundStep(p) \/ AbortRound(p)
      PROVE  stray' = stray /\ dagVars' = dagVars
  BY <1>3 DEF RoundStep, ListDir, PlanPush, Upload, FinishPush, NotifyComplete, FetchPublished,
     PlanPull, Download, Refetch404, SkipUnlisted, FinishPull, PlanPrune, Prune, VerifyAndSave,
     AbortRound
<1>4. ASSUME NEW head, Resolves(head)
      PROVE  dagVars' = dagVars \/ NewOp(Tips(mirror.heads), Server)
  BY <1>4 DEF Resolves
<1>5. CASE HandlerStep
  <2>1. stray' = stray
    BY <1>5 DEF HandlerStep, Normalize, SwapHeads, ScanDir, Publish
  <2>2. dagVars' = dagVars \/ NewOp(Tips(mirror.heads), Server)
    BY <1>4, <1>5 DEF HandlerStep, Normalize, SwapHeads, ScanDir, Publish
  <2>3. QED
    BY <2>1, <2>2
<1>6. CASE DropHandler \/ StrayStep \/ RestartServer
  BY <1>4, <1>6 DEF DropHandler, StrayStep, StrayReads, StraySwaps, RestartServer
<1>7. CASE UNCHANGED vars
  BY <1>7 DEF vars
<1>8. QED
  BY <1>1, <1>2, <1>3, <1>5, <1>6, <1>7 DEF Next

LEMMA CreatedStep ==
    ASSUME TypeOK, TypeOK', [Next]_vars
    PROVE  Created \subseteq Created'
<1>1. nextOp' = nextOp \/ nextOp' = nextOp + 1
  BY StepFrame DEF NewOp, dagVars
<1>2. nextOp \in 1 .. MaxOps + 1 /\ nextOp' \in 1 .. MaxOps + 1 /\ nextOp <= nextOp'
  BY <1>1, BoundsAssumption DEF TypeOK
<1>3. QED
  BY <1>2, Intervals DEF Created

LEMMA StrayKnownStep ==
    ASSUME TypeOK, TypeOK', KnownInv, StrayKnown, [Next]_vars
    PROVE  StrayKnown'
<1>1. Created \subseteq Created' /\ 0 \in Created
  BY CreatedStep, ZeroCreated
<1>2. CASE stray' = stray
  BY <1>1, <1>2 DEF StrayKnown
<1>3. CASE DropHandler
  <2>1. srv.new \in Created
    BY DEF KnownInv
  <2>2. CASE srv.phase = "normalize"
    BY <1>1, <1>3, <2>2 DEF DropHandler, StrayKnown, TypeOK
  <2>3. CASE srv.phase = "swap"
    BY <1>1, <1>3, <2>1, <2>3 DEF DropHandler, StrayKnown, TypeOK
  <2>4. CASE srv.phase = "scan"
    BY <1>1, <1>3, <2>4 DEF DropHandler, StrayKnown
  <2>5. QED
    BY <1>3, <2>2, <2>3, <2>4, BoundsAssumption DEF DropHandler
<1>4. CASE StrayReads
  <2>1. CASE stray' = [stray EXCEPT !.waiting = @ - 1]
    BY <1>1, <2>1 DEF StrayKnown, TypeOK
  <2>2. ASSUME NEW head \in Ops, Resolves(head), stray'.new = head
        PROVE  StrayKnown'
    BY <2>2, ResolvesKnown DEF StrayKnown
  <2>3. QED
    BY <1>4, <2>1, <2>2 DEF StrayReads
<1>5. CASE StraySwaps
  BY <1>1, <1>5 DEF StraySwaps, StrayKnown, NoStray
<1>6. CASE RestartServer
  BY <1>1, <1>6 DEF RestartServer, StrayKnown, NoStray
<1>7. QED
  BY <1>2, <1>3, <1>4, <1>5, <1>6, StepFrame DEF StrayStep

LEMMA KnownHolds == Spec => [](KnownInv /\ StrayKnown)
<1>1. Init => KnownInv /\ StrayKnown
  <2> SUFFICES ASSUME Init
               PROVE  KnownInv /\ StrayKnown
    OBVIOUS
  <2>1. 0 \in Created
    BY InitType, ZeroCreated
  <2>2. QED
    BY <2>1 DEF Init, KnownInv, Known, StrayKnown, FirstTree, NoFiles, FreeSrv, NoStray
<1>2. TypeOK /\ TypeOK' /\ KnownInv /\ StrayKnown /\ [Next]_vars => KnownInv' /\ StrayKnown'
  BY KnownStep, StrayKnownStep
<1>3. QED
  BY <1>1, <1>2, TypeCorrect, PTL DEF Spec

(***************************************************************************)
(* Rounds that run one at a time.                                           *)
(***************************************************************************)

\* A step of a round that neither calls the handler nor hears from it.
LEMMA OneRoundStep ==
    ASSUME OneAtATime, NEW p \in Procs, pc[p] # "idle", pc[p] # "wait",
           \A q \in Procs : q # p => pc'[q] = pc[q], srv' = srv, stray' = stray
    PROVE  OneAtATime'
BY DEF OneAtATime, Straying

\* A step of the handler on its way, or one that nobody waits for.
LEMMA OneHandlerStep ==
    ASSUME OneAtATime, pc' = pc, srv'.caller = srv.caller, stray' = stray,
           srv'.phase # "free" => srv.phase # "free"
    PROVE  OneAtATime'
BY DEF OneAtATime, Straying

LEMMA EndRoundPc ==
    ASSUME TypeOK, NEW p \in Procs, EndRound(p)
    PROVE  pc'[p] = "idle" /\ \A q \in Procs : q # p => pc'[q] = pc[q]
BY DEF TypeOK, EndRound, GoTo

LEMMA GoToPc ==
    ASSUME TypeOK, NEW p \in Procs, NEW phase, GoTo(p, phase)
    PROVE  pc'[p] = phase /\ \A q \in Procs : q # p => pc'[q] = pc[q]
BY DEF TypeOK, GoTo

LEMMA ReplyPc ==
    ASSUME TypeOK, NEW ok \in BOOLEAN, Reply(ok)
    PROVE  /\ srv'.phase = "free" /\ srv'.caller = None
           /\ \A q \in Procs : q # srv.caller => pc'[q] = pc[q]
           /\ srv.caller \in Procs => pc'[srv.caller] = IF ok THEN "refetch" ELSE "idle"
<1>1. srv'.phase = "free" /\ srv'.caller = None
  BY DEF Reply, FreeSrv
<1>2. CASE srv.caller = None
  BY <1>1, <1>2, NamesAssumption DEF Reply, roundVars
<1>3. CASE srv.caller # None
  <2>1. srv.caller \in Procs
    BY <1>3 DEF TypeOK
  <2>2. QED
    BY <1>1, <1>3, <2>1, GoToPc, EndRoundPc DEF Reply
<1>4. QED
  BY <1>2, <1>3

LEMMA OneReply ==
    ASSUME TypeOK, OneAtATime, NEW ok \in BOOLEAN, Reply(ok),
           stray' = NoStray \/ (stray' = stray /\ srv.phase # "free")
    PROVE  OneAtATime'
<1>1. ~Straying'
  BY DEF OneAtATime, Straying, NoStray
<1>2. QED
  BY <1>1, ReplyPc, NamesAssumption DEF OneAtATime, Straying

\* A round starts when nothing else is under way.
LEMMA NothingUnderWay ==
    ASSUME TypeOK, Serial, UnderWay < MaxOverlap
    PROVE  srv.phase = "free" /\ ~Straying /\ \A p \in Procs : pc[p] = "idle"
<1> DEFINE Busy == {p \in Procs : pc[p] # "idle"}
<1>1. IsFiniteSet(Busy)
  BY ProcsAssumption, FS_Subset
<1>2. Cardinality(Busy) \in Nat
  BY <1>1, FS_CardinalityType
<1> DEFINE handlers == IF srv.phase = "free" THEN 0 ELSE 1
           swaps == IF stray.swapping THEN 1 ELSE 0
<1>3. handlers \in 0 .. 1 /\ swaps \in 0 .. 1 /\ stray.waiting \in Nat
  BY DEF TypeOK
<1>4. Cardinality(Busy) + handlers + stray.waiting + swaps < 1
  BY BoundsAssumption, <1>2, <1>3 DEF UnderWay, Serial
<1> HIDE DEF handlers, swaps
<1>5. Cardinality(Busy) = 0 /\ handlers = 0 /\ stray.waiting = 0 /\ swaps = 0
  BY <1>2, <1>3, <1>4
<1>6. Busy = {}
  BY <1>1, <1>5, FS_EmptySet
<1>7. srv.phase = "free" /\ ~Straying
  BY <1>5 DEF handlers, swaps, Straying
<1>8. QED
  BY <1>5, <1>6, <1>7

LEMMA OneAtATimeStep ==
    ASSUME TypeOK, Serial, OneAtATime, [Next]_vars
    PROVE  OneAtATime'
<1>1. ASSUME NEW r \in Repos, UserWritesOp(r) \/ UserPublishesHead(r)
      PROVE  OneAtATime'
  BY <1>1 DEF UserWritesOp, UserPublishesHead, roundVars, OneAtATime, Straying
<1>2. ASSUME NEW p \in Procs, StartRound(p)
      PROVE  OneAtATime'
  <2>1. srv.phase = "free" /\ ~Straying /\ stray' = stray /\ \A q \in Procs : pc[q] = "idle"
    BY <1>2, NothingUnderWay DEF StartRound
  <2>2. srv' = srv /\ \A q \in Procs : q # p => pc'[q] = pc[q]
    BY <1>2, GoToPc DEF StartRound, StartListing
  <2>3. QED
    BY <2>1, <2>2 DEF OneAtATime, Straying
<1>3. ASSUME NEW p \in Procs, RoundStep(p)
      PROVE  OneAtATime'
  <2>1. CASE NotifyComplete(p)
    <3>1. /\ pc[p] = "notify" /\ srv'.caller = p /\ pc'[p] = "wait" /\ stray' = stray
          /\ \A q \in Procs : q # p => pc'[q] = pc[q]
      BY <2>1, GoToPc DEF NotifyComplete, FreeSrv
    <3>2. QED
      BY <3>1 DEF OneAtATime, Straying
  <2>2. CASE ~NotifyComplete(p)
    <3>1. /\ pc[p] # "idle" /\ pc[p] # "wait" /\ srv' = srv /\ stray' = stray
      BY <1>3, <2>2 DEF RoundStep, ListDir, PlanPush, Upload, FinishPush, FetchPublished,
         PlanPull, Download, Refetch404, SkipUnlisted, FinishPull, PlanPrune, Prune,
         VerifyAndSave, Listed, ListPhases
    <3>2. \/ EndRound(p) \/ pc' = pc
          \/ \E phase \in Phases : GoTo(p, phase)
      BY <1>3, <2>2 DEF RoundStep, ListDir, PlanPush, Upload, FinishPush, FetchPublished,
         PlanPull, Download, Refetch404, SkipUnlisted, FinishPull, PlanPrune, Prune,
         VerifyAndSave, StartListing, Phases, ListPhases
    <3>3. \A q \in Procs : q # p => pc'[q] = pc[q]
      BY <3>2, GoToPc, EndRoundPc
    <3>4. QED
      BY <3>1, <3>3, OneRoundStep
  <2>3. QED
    BY <2>1, <2>2
<1>4. ASSUME NEW p \in Procs, AbortRound(p)
      PROVE  OneAtATime'
  <2>1. /\ pc[p] # "idle" /\ pc'[p] = "idle" /\ \A q \in Procs : q # p => pc'[q] = pc[q]
    BY <1>4, EndRoundPc DEF AbortRound
  <2>2. /\ srv'.phase = srv.phase
        /\ srv'.caller = IF srv.caller = p THEN None ELSE srv.caller
        /\ stray' = stray
    BY <1>4 DEF AbortRound, TypeOK
  <2>3. QED
    BY <2>1, <2>2, NamesAssumption DEF OneAtATime, Straying
<1>5. CASE Normalize
  <2>1. CASE Reply(FALSE)
    BY <1>5, <2>1, OneReply DEF Normalize
  <2>2. CASE pc' = pc /\ srv'.caller = srv.caller
    BY <1>5, <2>2, OneHandlerStep DEF Normalize
  <2>3. \/ Reply(FALSE)
        \/ /\ pc' = pc
           /\ srv' = StartScan(mirror) \/ \E head, old :
                  srv' = [srv EXCEPT !.phase = "swap", !.new = head, !.old = old]
    BY <1>5 DEF Normalize, roundVars
  <2>4. QED
    BY <2>1, <2>2, <2>3 DEF StartScan, TypeOK
<1>6. CASE SwapHeads
  <2>1. pc' = pc /\ srv'.caller = srv.caller /\ srv.phase # "free" /\ stray' = stray
    BY <1>6 DEF SwapHeads, StartScan, roundVars, TypeOK
  <2>2. QED
    BY <2>1, OneHandlerStep
<1>7. ASSUME NEW d \in Dirs, ScanDir(d)
      PROVE  OneAtATime'
  <2>1. CASE Reply(FALSE)
    BY <1>7, <2>1, OneReply DEF ScanDir
  <2>2. ASSUME NEW names, UNCHANGED roundVars,
               srv' = [srv EXCEPT ![d] = names, !.dirs = @ \ {d}]
        PROVE  OneAtATime'
    <3>1. pc' = pc /\ srv'.caller = srv.caller
      BY <2>2 DEF roundVars, TypeOK, Dirs
    <3>2. QED
      BY <1>7, <3>1, OneHandlerStep DEF ScanDir
  <2>3. QED
    BY <1>7, <2>1, <2>2 DEF ScanDir
<1>8. CASE Publish
  BY <1>8, OneReply DEF Publish, Closed
<1>9. CASE DropHandler
  <2>1. srv.phase # "free" /\ srv.caller = None /\ pc' = pc /\ srv' = FreeSrv
    BY <1>9, BoundsAssumption DEF DropHandler, roundVars
  <2>2. \A p \in Procs : pc[p] = "idle"
    BY <2>1, NamesAssumption DEF OneAtATime, Straying
  <2>3. QED
    BY <2>1, <2>2, NamesAssumption DEF OneAtATime, Straying, FreeSrv
<1>10. CASE StrayStep
  <2>1. Straying
    BY <1>10 DEF StrayStep, StrayReads, StraySwaps, Straying
  <2>2. pc' = pc /\ srv' = srv
    BY <1>10 DEF StrayStep, StrayReads, StraySwaps, roundVars
  <2>3. QED
    BY <2>1, <2>2 DEF OneAtATime, Straying
<1>11. CASE RestartServer
  <2>1. Reply(FALSE) /\ stray' = NoStray
    BY <1>11 DEF RestartServer
  <2>2. QED
    BY <2>1, OneReply
<1>12. CASE UNCHANGED vars
  BY <1>12 DEF vars, roundVars, OneAtATime, Straying
<1>13. QED
  BY <1>1, <1>2, <1>3, <1>4, <1>5, <1>6, <1>7, <1>8, <1>9, <1>10, <1>11, <1>12
     DEF Next, HandlerStep

LEMMA OneAtATimeHolds ==
    ASSUME Serial
    PROVE  Spec => []OneAtATime
<1>1. Init => OneAtATime
  BY NamesAssumption DEF Init, OneAtATime, Straying, FreeSrv, NoStray
<1>2. TypeOK /\ OneAtATime /\ [Next]_vars => OneAtATime'
  BY OneAtATimeStep
<1>3. QED
  BY <1>1, <1>2, TypeCorrect, PTL DEF Spec

LEMMA ClosedSame ==
    ASSUME NEW S \in SUBSET Created, \A o \in Created : ancestors'[o] = ancestors[o], Closed(S)
    PROVE  \A o \in S : ancestors'[o] \subseteq S
BY DEF Closed

\* A step that leaves the server alone but may write an operation elsewhere.
LEMMA PublishFrame ==
    ASSUME PublishInv, KnownInv, mirror' = mirror, pub' = pub,
           \/ srv' = srv
           \/ srv'.phase \notin {"swap", "scan"}
           \/ /\ srv'.phase = srv.phase /\ srv'.new = srv.new /\ srv'.old = srv.old
              /\ srv'.ops = srv.ops /\ srv'.heads = srv.heads,
           \A o \in Created : ancestors'[o] = ancestors[o]
    PROVE  PublishInv'
<1>1. OneHead(pub)'
  BY DEF PublishInv, OneHead
<1>2. Closed(pub.ops)'
  <2>1. pub.ops \in SUBSET Created /\ Closed(pub.ops)
    BY DEF KnownInv, Known, PublishInv
  <2>2. QED
    BY <2>1, ClosedSame DEF Closed
<1>3. QED
  BY <1>1, <1>2 DEF PublishInv, OneHead

LEMMA SingleHead ==
    ASSUME NEW S \in SUBSET Ops, Cardinality(S) = 1
    PROVE  \E h \in S : S = {h}
<1>1. IsFiniteSet(Ops)
  BY FS_Interval, BoundsAssumption DEF Ops
<1>2. IsFiniteSet(S)
  BY <1>1, FS_Subset
<1>3. QED
  BY <1>2, FS_Singleton

LEMMA SameAncestors ==
    dagVars' = dagVars => \A o \in Created : ancestors'[o] = ancestors[o]
BY DEF dagVars

LEMMA ResolvesPublish ==
    ASSUME TypeOK, KnownInv, NEW head \in Ops, Resolves(head)
    PROVE  /\ \A o \in Created : ancestors'[o] = ancestors[o]
           /\ head \in mirror'.ops /\ mirror'.heads = mirror.heads
<1> DEFINE tips == Tips(mirror.heads)
<1>1. mirror \in Tree /\ tips \subseteq mirror.heads /\ tips \in SUBSET Ops
  BY DEF TypeOK, Tree, Tips
<1>2. CASE /\ Cardinality(tips) = 1
           /\ head = CHOOSE h \in tips : TRUE
           /\ UNCHANGED <<dagVars, mirror>>
  <2>1. tips # {}
    BY <1>2, FS_EmptySet
  <2>2. head \in tips
    BY <1>2, <2>1
  <2>3. head \in mirror.ops
    BY <1>1, <2>2 DEF Resolves, Loadable
  <2>4. QED
    BY <1>2, <2>3, SameAncestors
<1>3. CASE /\ head = nextOp /\ NewOp(tips, Server)
           /\ mirror' = [mirror EXCEPT !.ops = @ \cup {nextOp}]
  <2>1. \A o \in Created : ancestors'[o] = ancestors[o]
    BY <1>1, <1>3, NewOpCreates
  <2>2. QED
    BY <1>1, <1>3, <2>1 DEF Tree
<1>4. QED
  BY <1>2, <1>3 DEF Resolves

LEMMA NormalizePublish ==
    ASSUME TypeOK, KnownInv, PublishInv, Normalize
    PROVE  PublishInv'
<1>1. mirror \in Tree /\ mirror.heads \in SUBSET Ops /\ pub' = pub
  BY DEF TypeOK, Tree, Normalize
<1>2. CASE Reply(FALSE) /\ UNCHANGED <<dagVars, mirror>>
  BY <1>1, <1>2, ReplyPc, SameAncestors, PublishFrame
<1>3. CASE /\ Loadable(mirror) /\ Cardinality(mirror.heads) = 1
           /\ srv' = StartScan(mirror)
           /\ UNCHANGED <<dagVars, mirror, roundVars>>
  <2>1. OneHead(mirror)
    BY <1>1, <1>3, SingleHead DEF Loadable, OneHead
  <2>2. /\ srv'.phase = "scan" /\ srv'.ops = mirror.ops /\ srv'.heads = mirror.heads
    BY <1>3 DEF StartScan, TypeOK
  <2>3. Closed(pub.ops)'
    BY <1>1, <1>3 DEF PublishInv, Closed, dagVars
  <2>4. QED
    BY <1>1, <1>3, <2>1, <2>2, <2>3 DEF PublishInv, OneHead
<1>4. ASSUME NEW head \in Ops, Resolves(head),
             srv' = [srv EXCEPT !.phase = "swap", !.new = head, !.old = mirror.heads \ {head}]
      PROVE  PublishInv'
  <2>1. /\ \A o \in Created : ancestors'[o] = ancestors[o]
        /\ head \in mirror'.ops /\ mirror'.heads = mirror.heads
    BY <1>4, ResolvesPublish
  <2>2. srv'.phase = "swap" /\ srv'.new = head /\ srv'.old = mirror.heads \ {head}
    BY <1>4 DEF TypeOK
  <2>3. Closed(pub.ops)'
    <3>1. pub.ops \in SUBSET Created /\ Closed(pub.ops)
      BY DEF KnownInv, Known, PublishInv
    <3>2. QED
      BY <1>1, <2>1, <3>1, ClosedSame DEF Closed
  <2>4. QED
    BY <1>1, <2>1, <2>2, <2>3 DEF PublishInv, OneHead
<1>5. QED
  BY <1>2, <1>3, <1>4 DEF Normalize

LEMMA PublishInvStep ==
    ASSUME TypeOK, KnownInv, OneAtATime, PublishInv, [Next]_vars
    PROVE  PublishInv'
<1>1. ASSUME NEW r \in Repos, UserWritesOp(r) \/ UserPublishesHead(r)
      PROVE  PublishInv'
  <2>1. repo[r].heads \in SUBSET Ops
    BY DEF TypeOK, Tree
  <2>2. \A o \in Created : ancestors'[o] = ancestors[o]
    BY <1>1, <2>1, NewOpCreates, SameAncestors DEF UserWritesOp, UserPublishesHead
  <2>3. QED
    BY <1>1, <2>2, PublishFrame DEF UserWritesOp, UserPublishesHead
<1>2. ASSUME NEW p \in Procs, StartRound(p)
      PROVE  PublishInv'
  <2>1. Tips(repo[Home[p]].heads) \in SUBSET Ops
    BY HomeAssumption DEF TypeOK, Tree, Tips
  <2>2. \A o \in Created : ancestors'[o] = ancestors[o]
    BY <1>2, <2>1, NewOpCreates, SameAncestors DEF StartRound
  <2>3. QED
    BY <1>2, <2>2, PublishFrame DEF StartRound
<1>3. ASSUME NEW p \in Procs, NEW d \in Dirs, NEW o \in Ops, Upload(p, d, o)
      PROVE  PublishInv'
  <2>1. srv.phase = "free" /\ srv' = srv /\ pub' = pub /\ dagVars' = dagVars
    BY <1>3 DEF Upload, OneAtATime
  <2>2. Closed(pub.ops)'
    BY <2>1 DEF PublishInv, Closed, dagVars
  <2>3. QED
    BY <2>1, <2>2 DEF PublishInv, OneHead
<1>4. ASSUME NEW p \in Procs, RoundStep(p), ~ \E d \in Dirs, o \in Ops : Upload(p, d, o)
      PROVE  PublishInv'
  <2>1. dagVars' = dagVars /\ mirror' = mirror /\ pub' = pub
    BY <1>4 DEF RoundStep, ListDir, PlanPush, FinishPush, NotifyComplete, FetchPublished,
       PlanPull, Download, Refetch404, SkipUnlisted, FinishPull, PlanPrune, Prune, VerifyAndSave
  <2>2. srv' = srv \/ srv'.phase = "normalize"
    BY <1>4 DEF RoundStep, ListDir, PlanPush, FinishPush, NotifyComplete, FetchPublished,
       PlanPull, Download, Refetch404, SkipUnlisted, FinishPull, PlanPrune, Prune,
       VerifyAndSave, FreeSrv
  <2>3. QED
    BY <2>1, <2>2, SameAncestors, PublishFrame
<1>5. ASSUME NEW p \in Procs, AbortRound(p)
      PROVE  PublishInv'
  <2>1. /\ srv'.phase = srv.phase /\ srv'.new = srv.new /\ srv'.old = srv.old
        /\ srv'.ops = srv.ops /\ srv'.heads = srv.heads
    BY <1>5 DEF AbortRound, TypeOK
  <2>2. QED
    BY <1>5, <2>1, SameAncestors, PublishFrame DEF AbortRound
<1>6. CASE Normalize
  BY <1>6, NormalizePublish
<1>7. CASE SwapHeads
  <2>1. /\ srv.new \in mirror.ops \ srv.old /\ mirror.heads \subseteq srv.old \cup {srv.new}
        /\ mirror \in Tree
    BY <1>7 DEF SwapHeads, PublishInv, TypeOK
  <2>2. mirror'.heads = {srv.new} /\ mirror'.ops = mirror.ops
    BY <1>7, <2>1 DEF SwapHeads, Tree
  <2>3. srv'.phase = "scan" /\ srv'.ops = mirror'.ops /\ srv'.heads = mirror'.heads
    BY <1>7 DEF SwapHeads, StartScan, TypeOK
  <2>4. Closed(pub.ops)' /\ pub' = pub
    BY <1>7 DEF SwapHeads, PublishInv, Closed, dagVars
  <2>5. QED
    BY <2>1, <2>2, <2>3, <2>4 DEF PublishInv, OneHead
<1>8. ASSUME NEW d \in Dirs, ScanDir(d)
      PROVE  PublishInv'
  <2>1. srv[d] = mirror[d]
    BY <1>8 DEF ScanDir, PublishInv, Dirs
  <2>2. PICK names \in Listings(srv[d], mirror[d]) :
               srv' = [srv EXCEPT ![d] = names, !.dirs = @ \ {d}]
    BY <1>8, <2>1 DEF ScanDir
  <2>3. names = srv[d]
    BY <2>1, <2>2 DEF Listings
  <2>4. /\ srv'.phase = srv.phase /\ srv'.new = srv.new /\ srv'.old = srv.old
        /\ srv'.ops = srv.ops /\ srv'.heads = srv.heads
    <3>1. CASE d = "ops"
      BY <2>2, <2>3, <3>1 DEF TypeOK
    <3>2. CASE d = "heads"
      BY <2>2, <2>3, <3>2 DEF TypeOK
    <3>3. QED
      BY <3>1, <3>2 DEF Dirs
  <2>5. QED
    BY <1>8, <2>4, SameAncestors, PublishFrame DEF ScanDir
<1>9. CASE Publish
  <2>1. srv'.phase = "free" /\ mirror' = mirror /\ dagVars' = dagVars
    BY <1>9, ReplyPc DEF Publish, Closed
  <2>2. OneHead(pub') /\ Closed(pub'.ops)
    BY <1>9 DEF Publish, PublishInv, OneHead
  <2>3. QED
    BY <2>1, <2>2 DEF PublishInv, OneHead, Closed, dagVars
<1>10. CASE DropHandler
  BY <1>10, SameAncestors, PublishFrame DEF DropHandler, FreeSrv
<1>11. CASE RestartServer
  <2>1. srv'.phase = "free" /\ pub' = pub /\ dagVars' = dagVars
    BY <1>11, ReplyPc DEF RestartServer
  <2>2. QED
    BY <2>1 DEF PublishInv, OneHead, Closed, dagVars
<1>12. CASE StrayStep
  <2>1. srv.phase = "free" /\ srv' = srv /\ pub' = pub
    BY <1>12 DEF StrayStep, StrayReads, StraySwaps, OneAtATime, Straying
  <2>2. \A o \in Created : ancestors'[o] = ancestors[o]
    BY <1>12, SameAncestors, ResolvesPublish DEF StrayStep, StrayReads, StraySwaps
  <2>3. Closed(pub.ops)'
    <3>1. pub.ops \in SUBSET Created /\ Closed(pub.ops)
      BY DEF KnownInv, Known, PublishInv
    <3>2. QED
      BY <2>1, <2>2, <3>1, ClosedSame DEF Closed
  <2>4. QED
    BY <2>1, <2>3 DEF PublishInv, OneHead
<1>13. CASE UNCHANGED vars
  BY <1>13, SameAncestors, PublishFrame DEF vars
<1>14. QED
  BY <1>1, <1>2, <1>3, <1>4, <1>5, <1>6, <1>7, <1>8, <1>9, <1>10, <1>11, <1>12, <1>13
     DEF Next, RoundStep, HandlerStep

LEMMA OneHeadOpens ==
    ASSUME NEW t, OneHead(t), Closed(t.ops)
    PROVE  Loadable(t)
BY FS_Singleton DEF OneHead, Loadable, Closed

LEMMA PublishInvHolds ==
    ASSUME Serial
    PROVE  Spec => []PublishInv
<1>1. Init => PublishInv
  <2> SUFFICES ASSUME Init
               PROVE  PublishInv
    OBVIOUS
  <2>1. 0 \in Ops
    BY BoundsAssumption DEF Ops
  <2>2. QED
    BY <2>1 DEF Init, PublishInv, OneHead, FirstTree, Closed, FreeSrv
<1>2. TypeOK /\ KnownInv /\ OneAtATime /\ PublishInv /\ [Next]_vars => PublishInv'
  BY PublishInvStep
<1>3. QED
  BY <1>1, <1>2, TypeCorrect, KnownHolds, OneAtATimeHolds, PTL DEF Spec

\* What sync-complete publishes jj can open, with every parent there to put
\* it in order, while rounds run one at a time: whatever users do to their
\* replicas in the middle of a round, and wherever a round or the server is
\* cut short.
THEOREM PublishedOpensHolds ==
    ASSUME Serial
    PROVE  Spec => []PublishedOpens
<1>1. PublishInv => PublishedOpens
  BY OneHeadOpens DEF PublishInv, PublishedOpens
<1>2. QED
  BY <1>1, PublishInvHolds, PTL
================================================================================
