------------------------ MODULE GitTransport_proofs ------------------------
(***************************************************************************)
(* Proofs about GitTransport: for any machines, commits, torn packs and     *)
(* cuts, operations travel with their commits.                              *)
(***************************************************************************)
EXTENDS GitTransport, TLAPS

\* Where a ref that is not on the bare is of a late commit: after the push, and
\* in a fetch that takes the refs of a sound store.
Pushed(m) ==
  \/ round[m].pc \in {"index", "upload", "complete", "manifest", "refs", "refetch"}
  \/ At(m, "fetch") /\ round[m].caller # "heal" /\ round[m].attempt = 0

\* What every machine keeps to.
\* Commits, refs and operations have a ref here, or are on the bare.
Anchored(m) ==
  /\ objects[m] \subseteq refs[m] \cup bare \cup Unsaved
  /\ ops[m] \subseteq refs[m] \cup bare \cup overtaken \cup Unsaved
  /\ refs[m] \subseteq objects[m] \cup bare \cup lost
  /\ Pushed(m) \/ ~joined[m] => refs[m] \subseteq bare \cup late[m] \cup lost
  /\ At(m, "index") => refs[m] \subseteq bare \cup overtaken \cup lost

\* What a round carries is on the bare, and once fetched has a ref.
Carried(m) ==
  /\ round[m].listed \subseteq bare \cup overtaken \cup Unsaved
  /\ At(m, "verify") \/ At(m, "pull") =>
       round[m].listed \subseteq refs[m] \cup overtaken \cup Unsaved

\* The replica is whole unless its store is being replaced.
Kept(m) ==
  /\ ~emptied[m] /\ (joined[m] \/ At(m, "verify")) =>
       ops[m] \subseteq refs[m] \cup overtaken \cup Unsaved
  /\ At(m, "refs") \/ At(m, "refetch") => emptied[m]
  /\ At(m, "verify") => ~emptied[m]
  /\ At(m, "joinpull") => ~joined[m]
  /\ At(m, "fetch") /\ round[m].caller = "heal" /\ round[m].attempt = 0 => ~Sound(m)

\* A machine has a ref for all the bare has of it, and has no other ref that
\* the bare lacks.
Own(m) ==
  /\ ~emptied[m] => \A c \in bare : author[c] = m => c \in refs[m]
  /\ \A c \in refs[m] \ bare : author[c] = m

\* As long as nothing outside damages a store, none is wiped, and a commit that
\* is on the bare or has an operation is in the store of its author.
Undamaged ==
  tears = 0 =>
    /\ lost = {}
    /\ \A m \in Machines : /\ Sound(m) /\ round[m].attempt = 0
                            /\ ~At(m, "refs") /\ ~At(m, "refetch")
    /\ \A c \in bare \cup written : c \in objects[author[c]]

\* The server has operations of commits it has.
Server == published \subseteq mirror /\ mirror \subseteq bare \cup overtaken \cup Unsaved

Inv ==
  /\ TypeOK
  /\ Server
  /\ \A m \in Machines : Anchored(m) /\ Carried(m) /\ Own(m) /\ Kept(m)
  /\ Undamaged

-----------------------------------------------------------------------------

\* What the actions make of a round is a round.
LEMMA RoundTypes ==
  ASSUME NEW rd \in [Machines -> Rounds], NEW m \in Machines, NEW phase \in Phases,
         NEW listed \in SUBSET Commits
  PROVE  /\ NoRound \in Rounds
         /\ [NoRound EXCEPT !.pc = phase] \in Rounds
         /\ [NoRound EXCEPT !.pc = phase, !.listed = listed] \in Rounds
         /\ [rd EXCEPT ![m].pc = phase] \in [Machines -> Rounds]
         /\ [rd EXCEPT ![m].pc = phase, ![m].listed = listed] \in [Machines -> Rounds]
         /\ [rd EXCEPT ![m].pc = phase, ![m].attempt = 1] \in [Machines -> Rounds]
<1>1. rd[m] \in Rounds
  OBVIOUS
<1>2. NoRound \in Rounds
  BY DEF NoRound, Rounds, Phases, Callers
<1>3. /\ [NoRound EXCEPT !.pc = phase] \in Rounds
      /\ [NoRound EXCEPT !.pc = phase, !.listed = listed] \in Rounds
  BY <1>2 DEF Rounds
<1>4. /\ [rd[m] EXCEPT !.pc = phase] \in Rounds
      /\ [rd[m] EXCEPT !.pc = phase, !.listed = listed] \in Rounds
  BY <1>1 DEF Rounds
<1>5. [rd[m] EXCEPT !.pc = phase, !.attempt = 1] \in Rounds
  BY <1>1 DEF Rounds
<1>6. /\ [rd EXCEPT ![m].pc = phase] = [rd EXCEPT ![m] = [rd[m] EXCEPT !.pc = phase]]
      /\ [rd EXCEPT ![m].pc = phase, ![m].listed = listed]
           = [rd EXCEPT ![m] = [rd[m] EXCEPT !.pc = phase, !.listed = listed]]
      /\ [rd EXCEPT ![m].pc = phase, ![m].attempt = 1]
           = [rd EXCEPT ![m] = [rd[m] EXCEPT !.pc = phase, !.attempt = 1]]
  BY <1>1 DEF Rounds
<1>7. QED
  BY <1>2, <1>3, <1>4, <1>5, <1>6

\* A step keeps the type of every variable.
LEMMA TypeStep == Inv /\ [Next]_vars => TypeOK'
<1> SUFFICES ASSUME Inv, [Next]_vars PROVE TypeOK'
  OBVIOUS
<1> USE GitAssumption DEF Inv, TypeOK, At, Goto, vars, machine, server,
        bounds, history
<1>0. /\ {"idle", "push", "index", "upload", "pull", "joinpull", "fetch", "verify",
       "manifest", "refs", "refetch"} \subseteq Phases
      /\ NoRound \in Rounds /\ round[Creator] \in Rounds
  BY RoundTypes DEF Phases
<1>1. CASE UNCHANGED vars
  BY <1>1
<1>2. ASSUME NEW m \in Machines, NEW c \in Commits, WriteCommit(m, c) PROVE TypeOK'
  BY <1>2 DEF WriteCommit, TakesRefs
<1>3. ASSUME NEW m \in Machines, NEW c \in Commits, WriteOp(m, c) PROVE TypeOK'
  BY <1>3 DEF WriteOp
<1>4. ASSUME NEW m \in Machines, Tear(m) PROVE TypeOK'
  BY <1>4 DEF Tear
<1>5. ASSUME NEW m \in Machines, CutShort(m) PROVE TypeOK'
  BY SMTT(30), <1>5 DEF CutShort, Rounds, NoRound, Phases, Callers
<1>6. ASSUME NEW m \in Machines, Start(m) PROVE TypeOK'
  <2>1. round' \in [Machines -> Rounds]
    <3>1. [round[m] EXCEPT !.pc = "push"] \in Rounds /\ Fetches(m, "heal", {}) \in Rounds
      <4>1. round[m] \in Rounds
        OBVIOUS
      <4>2. QED
        BY <4>1 DEF Fetches, Rounds, Phases, Callers
    <3>2. QED
      BY <1>6, <3>1 DEF Start
  <2>2. QED
    BY <1>6, <2>1 DEF Start
<1>7. ASSUME NEW m \in Machines, JoinStart(m) PROVE TypeOK'
  <2>1. round' \in [Machines -> Rounds]
    BY <1>7, <1>0, RoundTypes DEF JoinStart
  <2>2. QED
    BY <1>7, <2>1 DEF JoinStart
<1>8. ASSUME NEW m \in Machines, WipeObjects(m) PROVE TypeOK'
  <2>1. round' \in [Machines -> Rounds]
    BY <1>8, <1>0, RoundTypes DEF WipeObjects
  <2>2. QED
    BY <1>8, <2>1 DEF WipeObjects, EmptyStore
<1>9. ASSUME NEW m \in Machines, WipeRefs(m) PROVE TypeOK'
  <2>1. round' \in [Machines -> Rounds]
    BY <1>9, <1>0, RoundTypes DEF WipeRefs
  <2>2. QED
    BY <1>9, <2>1 DEF WipeRefs, EmptyStore, Dropped
<1>10. ASSUME NEW m \in Machines, Fetch(m) PROVE TypeOK'
  <2>1. round' \in [Machines -> Rounds]
    BY <1>10, <1>0, RoundTypes DEF Fetch, Broken, Dropped
  <2>2. QED
    BY <1>10, <2>1 DEF Fetch, Broken, Dropped
<1>11. ASSUME NEW m \in Machines, Verify(m) PROVE TypeOK'
  <2>1. NoRound \in Rounds /\ round[m].listed \in SUBSET Commits
    BY RoundTypes, <1>0 DEF Rounds
  <2>2. AfterFetch(m) \in Rounds
    BY ZenonT(30), <1>11, <2>1, <1>0, RoundTypes DEF AfterFetch, HealedStore, FetchedForPull, FetchedForJoin, Rounds, Callers
  <2>3. /\ [round EXCEPT ![m] = AfterFetch(m)] \in [Machines -> Rounds]
        /\ [round EXCEPT ![m].pc = "fetch", ![m].attempt = 1] \in [Machines -> Rounds]
        /\ [round EXCEPT ![m] = NoRound] \in [Machines -> Rounds]
    BY <2>1, <2>2, <1>0, RoundTypes
  <2>4. round' \in [Machines -> Rounds]
    BY <1>11, <2>3 DEF Verify
  <2>5. joined' \in [Machines -> BOOLEAN]
    BY <1>11 DEF Verify, ConfigSaved
  <2>6. QED
    BY <1>11, <2>4, <2>5 DEF Verify
<1>12. ASSUME NEW m \in Machines, GitPush(m) PROVE TypeOK'
  <2>0. /\ [round EXCEPT ![m].pc = "index"] \in [Machines -> Rounds]
        /\ [round EXCEPT ![m] = NoRound] \in [Machines -> Rounds]
    BY <1>0, RoundTypes
  <2>1. round' \in [Machines -> Rounds]
    BY <1>12, <2>0 DEF GitPush
  <2>2. QED
    BY <1>12, <2>1 DEF GitPush, Received
<1>13. ASSUME NEW m \in Machines, Index(m) PROVE TypeOK'
  <2>1. round' \in [Machines -> Rounds]
    BY <1>13, <1>0, RoundTypes DEF Index
  <2>2. QED
    BY <1>13, <2>1 DEF Index
<1>14. ASSUME NEW m \in Machines, Upload(m) PROVE TypeOK'
  <2>0. "complete" \in Phases
    BY DEF Phases
  <2>1. round[m].listed \in SUBSET Commits /\ [NoRound EXCEPT !.pc = "complete"] \in Rounds
    BY <1>0, <2>0, RoundTypes DEF Rounds
  <2>2. round' \in [Machines -> Rounds] /\ mirror' \in SUBSET Commits
    BY <1>14, <2>1 DEF Upload
  <2>3. QED
    BY <1>14, <2>2 DEF Upload
<1>15. ASSUME NEW m \in Machines, Publish(m) PROVE TypeOK'
  <2>1. round' \in [Machines -> Rounds]
    BY <1>15, <1>0, RoundTypes DEF Publish
  <2>2. QED
    BY <1>15, <2>1 DEF Publish
<1>16. ASSUME NEW m \in Machines, ReadPublished(m) PROVE TypeOK'
  BY <1>16 DEF ReadPublished, Fetches, Rounds, NoRound, Phases, Callers
<1>17. ASSUME NEW m \in Machines, Pull(m) PROVE TypeOK'
  <2>1. round[m].listed \in SUBSET Commits /\ [round EXCEPT ![m] = NoRound] \in [Machines -> Rounds]
    BY <1>0 DEF Rounds
  <2>2. round' \in [Machines -> Rounds] /\ ops' \in [Machines -> SUBSET Commits]
    BY <1>17, <2>1 DEF Pull
  <2>3. QED
    BY <1>17, <2>2 DEF Pull
<1>18. ASSUME NEW m \in Machines, JoinPull(m) PROVE TypeOK'
  <2>1. /\ round[m].listed \in SUBSET Commits
        /\ [round EXCEPT ![m] = Fetches(m, "join", {})] \in [Machines -> Rounds]
    BY DEF Fetches, Rounds, Phases, Callers
  <2>2. round' \in [Machines -> Rounds] /\ ops' \in [Machines -> SUBSET Commits]
    BY <1>18, <2>1 DEF JoinPull
  <2>3. QED
    BY <1>18, <2>2 DEF JoinPull
<1>19. QED
  BY <1>1, <1>2, <1>3, <1>4, <1>5, <1>6, <1>7, <1>8, <1>9, <1>10, <1>11,
     <1>12, <1>13, <1>14, <1>15, <1>16, <1>17, <1>18
  DEF Next, UserStep, RoundStep

\* The mirror has only operations that rounds carry.
LEMMA ServerStep == Inv /\ [Next]_vars => Server'
<1> SUFFICES ASSUME Inv, [Next]_vars PROVE Server'
  OBVIOUS
<1> USE DEF Inv, TypeOK, Unsaved, At, Goto, vars, machine, server, bounds,
        history, Server, Anchored, Carried
<1>1. CASE UNCHANGED vars
  BY <1>1
<1>2. ASSUME NEW m \in Machines, NEW c \in Commits, WriteCommit(m, c) PROVE Server'
  BY <1>2 DEF WriteCommit, TakesRefs
<1>3. ASSUME NEW m \in Machines, NEW c \in Commits, WriteOp(m, c) PROVE Server'
  BY <1>3 DEF WriteOp
<1>4. ASSUME NEW m \in Machines, Tear(m) PROVE Server'
  BY <1>4 DEF Tear
<1>5. ASSUME NEW m \in Machines, CutShort(m) PROVE Server'
  BY <1>5 DEF CutShort
<1>6. ASSUME NEW m \in Machines, Start(m) PROVE Server'
  BY <1>6 DEF Start, Fetches
<1>7. ASSUME NEW m \in Machines, JoinStart(m) PROVE Server'
  BY <1>7 DEF JoinStart
<1>8. ASSUME NEW m \in Machines, WipeObjects(m) PROVE Server'
  BY <1>8 DEF WipeObjects, EmptyStore, Broken
<1>9. ASSUME NEW m \in Machines, WipeRefs(m) PROVE Server'
  BY <1>9 DEF WipeRefs, EmptyStore, Dropped
<1>10. ASSUME NEW m \in Machines, Fetch(m) PROVE Server'
  BY <1>10 DEF Fetch, Broken, Dropped
<1>11. ASSUME NEW m \in Machines, Verify(m) PROVE Server'
  BY <1>11 DEF Verify, AfterFetch, HealedStore, FetchedForPull, FetchedForJoin, ConfigSaved
<1>12. ASSUME NEW m \in Machines, GitPush(m) PROVE Server'
  BY <1>12 DEF GitPush, Received
<1>13. ASSUME NEW m \in Machines, Index(m) PROVE Server'
  BY <1>13 DEF Index
<1>14. ASSUME NEW m \in Machines, Upload(m) PROVE Server'
  BY <1>14 DEF Upload
<1>15. ASSUME NEW m \in Machines, Publish(m) PROVE Server'
  BY <1>15 DEF Publish
<1>16. ASSUME NEW m \in Machines, ReadPublished(m) PROVE Server'
  BY <1>16 DEF ReadPublished, Fetches
<1>17. ASSUME NEW m \in Machines, Pull(m) PROVE Server'
  BY <1>17 DEF Pull
<1>18. ASSUME NEW m \in Machines, JoinPull(m) PROVE Server'
  BY <1>18 DEF JoinPull, Fetches
<1>19. QED
  BY <1>1, <1>2, <1>3, <1>4, <1>5, <1>6, <1>7, <1>8, <1>9, <1>10, <1>11,
     <1>12, <1>13, <1>14, <1>15, <1>16, <1>17, <1>18
  DEF Next, UserStep, RoundStep

\* Nothing of a machine loses its last ref unseen.
LEMMA AnchoredStep == Inv /\ [Next]_vars => \A k \in Machines : Anchored(k)'
<1> SUFFICES ASSUME Inv, [Next]_vars, NEW k \in Machines PROVE Anchored(k)'
  OBVIOUS
<1> USE DEF Inv, TypeOK, Unsaved, At, Goto, vars, machine, server, bounds,
        history, Server, Anchored, Carried, Kept, Pushed, Sound
<1>1. CASE UNCHANGED vars
  BY <1>1
<1>2. ASSUME NEW m \in Machines, NEW c \in Commits, WriteCommit(m, c) PROVE Anchored(k)'
  BY <1>2 DEF WriteCommit, TakesRefs
<1>3. ASSUME NEW m \in Machines, NEW c \in Commits, WriteOp(m, c) PROVE Anchored(k)'
  BY <1>3 DEF WriteOp
<1>4. ASSUME NEW m \in Machines, Tear(m) PROVE Anchored(k)'
  BY <1>4 DEF Tear
<1>5. ASSUME NEW m \in Machines, CutShort(m) PROVE Anchored(k)'
  BY <1>5 DEF CutShort, Rounds, NoRound
<1>6. ASSUME NEW m \in Machines, Start(m) PROVE Anchored(k)'
  BY <1>6 DEF Start, Fetches
<1>7. ASSUME NEW m \in Machines, JoinStart(m) PROVE Anchored(k)'
  BY <1>7 DEF JoinStart
<1>8. ASSUME NEW m \in Machines, WipeObjects(m) PROVE Anchored(k)'
  BY <1>8 DEF WipeObjects, EmptyStore, Broken
<1>9. ASSUME NEW m \in Machines, WipeRefs(m) PROVE Anchored(k)'
  BY <1>9 DEF WipeRefs, EmptyStore, Dropped
<1>10. ASSUME NEW m \in Machines, Fetch(m) PROVE Anchored(k)'
  BY <1>10 DEF Fetch, Broken, Dropped, Rounds
<1>11. ASSUME NEW m \in Machines, Verify(m) PROVE Anchored(k)'
  <2>1. CASE k # m
    BY <1>11, <2>1 DEF Verify, ConfigSaved
  <2>2. CASE k = m
    <3>0. \/ round'[m].pc \in {"idle", "push", "pull"}
          \/ round'[m].pc = "fetch" /\ round'[m].attempt = 1
      <4>1. AfterFetch(m).pc \in {"idle", "push", "pull"}
        <5>1. round[m].caller \in Callers
          BY DEF Rounds
        <5>2. /\ HealedStore(m).pc = "push" /\ FetchedForPull(m).pc = "pull"
              /\ FetchedForJoin(m).pc = "idle"
          BY DEF HealedStore, FetchedForPull, FetchedForJoin, NoRound
        <5>3. QED
          BY <5>1, <5>2 DEF AfterFetch, Callers
      <4>2. NoRound.pc = "idle"
        BY DEF NoRound
      <4>3. \/ round' = [round EXCEPT ![m] = AfterFetch(m)]
            \/ round' = [round EXCEPT ![m].pc = "fetch", ![m].attempt = 1]
            \/ round' = [round EXCEPT ![m] = NoRound]
        BY <1>11 DEF Verify
      <4>4. CASE round' = [round EXCEPT ![m] = AfterFetch(m)]
        BY <4>1, <4>4
      <4>5. CASE round' = [round EXCEPT ![m].pc = "fetch", ![m].attempt = 1]
        BY <4>5 DEF Rounds
      <4>6. CASE round' = [round EXCEPT ![m] = NoRound]
        BY <4>2, <4>6
      <4>7. QED
        BY <4>3, <4>4, <4>5, <4>6
    <3>1. ~Pushed(m)'
      BY <3>0
    <3>2. ~At(m, "index")'
      BY <3>0
    <3>3. /\ UNCHANGED <<objects, refs, ops, bare, lost, unkept, late, overtaken>>
          /\ joined[m] => joined'[m]
      BY <1>11, <2>2 DEF Verify, ConfigSaved
    <3>4. QED
      BY <2>2, <3>1, <3>2, <3>3
  <2>3. QED
    BY <2>1, <2>2
<1>12. ASSUME NEW m \in Machines, GitPush(m) PROVE Anchored(k)'
  <2>1. CASE refs[m] \ bare \subseteq objects[m]
    <3>1. /\ bare' = bare \cup refs[m]
          /\ round' = [round EXCEPT ![m].pc = "index"]
      BY <1>12, <2>1 DEF GitPush, Received
    <3>2. k # m => round'[k] = round[k]
      BY <3>1
    <3>3. QED
      BY <1>12, <3>1, <3>2 DEF GitPush
  <2>2. CASE ~ (refs[m] \ bare \subseteq objects[m])
    <3>1. bare' = bare /\ round' = [round EXCEPT ![m] = NoRound]
      BY <1>12, <2>2 DEF GitPush
    <3>2. /\ k # m => round'[k] = round[k]
          /\ k = m => round'[k].pc = "idle"
      BY <3>1 DEF NoRound
    <3>3. QED
      BY <1>12, <3>1, <3>2 DEF GitPush
  <2>3. QED
    BY <2>1, <2>2
<1>13. ASSUME NEW m \in Machines, Index(m) PROVE Anchored(k)'
  BY <1>13 DEF Index
<1>14. ASSUME NEW m \in Machines, Upload(m) PROVE Anchored(k)'
  <2>1. CASE UNCHANGED round
    BY <1>14, <2>1 DEF Upload, Rounds, NoRound
  <2>2. CASE ~UNCHANGED round
    BY <1>14, <2>2 DEF Upload, Rounds, NoRound
  <2>3. QED
    BY <2>1, <2>2
<1>15. ASSUME NEW m \in Machines, Publish(m) PROVE Anchored(k)'
  BY <1>15 DEF Publish
<1>16. ASSUME NEW m \in Machines, ReadPublished(m) PROVE Anchored(k)'
  BY <1>16 DEF ReadPublished, Fetches
<1>17. ASSUME NEW m \in Machines, Pull(m) PROVE Anchored(k)'
  BY <1>17 DEF Pull, Rounds, NoRound
<1>18. ASSUME NEW m \in Machines, JoinPull(m) PROVE Anchored(k)'
  BY <1>18 DEF JoinPull, Fetches
<1>19. QED
  BY <1>1, <1>2, <1>3, <1>4, <1>5, <1>6, <1>7, <1>8, <1>9, <1>10, <1>11,
     <1>12, <1>13, <1>14, <1>15, <1>16, <1>17, <1>18
  DEF Next, UserStep, RoundStep

\* What is listed is on the bare when it is.
LEMMA CarriedStep == Inv /\ [Next]_vars => \A k \in Machines : Carried(k)'
<1> SUFFICES ASSUME Inv, [Next]_vars, NEW k \in Machines PROVE Carried(k)'
  OBVIOUS
<1> USE DEF Inv, TypeOK, Unsaved, At, Goto, vars, machine, server, bounds,
        history, Server, Anchored, Carried, Kept, Pushed, Sound
<1>1. CASE UNCHANGED vars
  BY <1>1
<1>2. ASSUME NEW m \in Machines, NEW c \in Commits, WriteCommit(m, c) PROVE Carried(k)'
  BY <1>2 DEF WriteCommit, TakesRefs
<1>3. ASSUME NEW m \in Machines, NEW c \in Commits, WriteOp(m, c) PROVE Carried(k)'
  BY <1>3 DEF WriteOp
<1>4. ASSUME NEW m \in Machines, Tear(m) PROVE Carried(k)'
  BY <1>4 DEF Tear
<1>5. ASSUME NEW m \in Machines, CutShort(m) PROVE Carried(k)'
  BY <1>5 DEF CutShort, Rounds, NoRound
<1>6. ASSUME NEW m \in Machines, Start(m) PROVE Carried(k)'
  BY <1>6 DEF Start, Fetches
<1>7. ASSUME NEW m \in Machines, JoinStart(m) PROVE Carried(k)'
  BY <1>7 DEF JoinStart
<1>8. ASSUME NEW m \in Machines, WipeObjects(m) PROVE Carried(k)'
  BY <1>8 DEF WipeObjects, EmptyStore, Broken
<1>9. ASSUME NEW m \in Machines, WipeRefs(m) PROVE Carried(k)'
  BY <1>9 DEF WipeRefs, EmptyStore, Dropped
<1>10. ASSUME NEW m \in Machines, Fetch(m) PROVE Carried(k)'
  BY <1>10 DEF Fetch, Broken, Dropped
<1>11. ASSUME NEW m \in Machines, Verify(m) PROVE Carried(k)'
  <2>1. CASE k # m
    BY <1>11, <2>1 DEF Verify, ConfigSaved
  <2>2. CASE k = m /\ Sound(m)
    <3>0. /\ round'[m] = AfterFetch(m)
          /\ round[m] \in Rounds
      BY <1>11, <2>2 DEF Verify
    <3>1. CASE round[m].caller = "heal"
      BY <1>11, <2>2, <3>0, <3>1 DEF Verify, ConfigSaved, AfterFetch, HealedStore, FetchedForPull, FetchedForJoin,
                               NoRound, Rounds
    <3>2. CASE round[m].caller = "sync"
      <4>1. round'[m].pc = "pull" /\ round'[m].listed = round[m].listed
        BY <3>0, <3>2 DEF AfterFetch, FetchedForPull, NoRound
      <4>2. QED
        BY <1>11, <2>2, <3>2, <4>1 DEF Verify, ConfigSaved
    <3>3. CASE round[m].caller = "join"
      BY <1>11, <2>2, <3>0, <3>3 DEF Verify, ConfigSaved, AfterFetch, HealedStore, FetchedForPull, FetchedForJoin,
                               NoRound, Rounds
    <3>4. QED
      BY <3>0, <3>1, <3>2, <3>3 DEF Rounds, Callers
  <2>3. CASE k = m /\ ~Sound(m)
    BY <1>11, <2>3 DEF Verify, NoRound, Rounds
  <2>4. QED
    BY <2>1, <2>2, <2>3
<1>12. ASSUME NEW m \in Machines, GitPush(m) PROVE Carried(k)'
  <2>1. CASE refs[m] \ bare \subseteq objects[m]
    <3>1. /\ bare \subseteq bare'
          /\ round' = [round EXCEPT ![m].pc = "index"]
          /\ round[m] \in Rounds
      BY <1>12, <2>1 DEF GitPush, Received
    <3>2. /\ round'[k].listed = round[k].listed
          /\ k # m => round'[k] = round[k]
          /\ k = m => round'[k].pc = "index"
      BY <3>1 DEF Rounds
    <3>3. QED
      BY <1>12, <3>1, <3>2 DEF GitPush
  <2>2. CASE ~ (refs[m] \ bare \subseteq objects[m])
    <3>1. bare' = bare /\ round' = [round EXCEPT ![m] = NoRound]
      BY <1>12, <2>2 DEF GitPush
    <3>2. /\ k # m => round'[k] = round[k]
          /\ k = m => round'[k].pc = "idle" /\ round'[k].listed = {}
      BY <3>1 DEF NoRound
    <3>3. QED
      BY <1>12, <3>1, <3>2 DEF GitPush
  <2>3. QED
    BY <2>1, <2>2
<1>13. ASSUME NEW m \in Machines, Index(m) PROVE Carried(k)'
  BY <1>13 DEF Index
<1>14. ASSUME NEW m \in Machines, Upload(m) PROVE Carried(k)'
  <2>1. CASE UNCHANGED round
    BY <1>14, <2>1 DEF Upload, Rounds, NoRound
  <2>2. CASE ~UNCHANGED round
    <3>1. /\ k # m => round'[k] = round[k]
          /\ round'[m].pc = "complete" /\ round'[m].listed = {}
      BY <1>14, <2>2 DEF Upload, NoRound
    <3>2. QED
      BY <1>14, <3>1 DEF Upload
  <2>3. QED
    BY <2>1, <2>2
<1>15. ASSUME NEW m \in Machines, Publish(m) PROVE Carried(k)'
  BY <1>15 DEF Publish
<1>16. ASSUME NEW m \in Machines, ReadPublished(m) PROVE Carried(k)'
  BY <1>16 DEF ReadPublished, Fetches
<1>17. ASSUME NEW m \in Machines, Pull(m) PROVE Carried(k)'
  <2>1. CASE UNCHANGED round
    BY <1>17, <2>1 DEF Pull, Rounds, NoRound
  <2>2. CASE ~UNCHANGED round
    <3>1. /\ k # m => round'[k] = round[k]
          /\ round'[m].pc = "idle" /\ round'[m].listed = {}
      BY <1>17, <2>2 DEF Pull, NoRound
    <3>2. QED
      BY <1>17, <3>1 DEF Pull
  <2>3. QED
    BY <2>1, <2>2
<1>18. ASSUME NEW m \in Machines, JoinPull(m) PROVE Carried(k)'
  <2>1. CASE UNCHANGED round
    BY <1>18, <2>1 DEF JoinPull, Fetches
  <2>2. CASE ~UNCHANGED round
    BY <1>18, <2>2 DEF JoinPull, Fetches
  <2>3. QED
    BY <2>1, <2>2
<1>19. QED
  BY <1>1, <1>2, <1>3, <1>4, <1>5, <1>6, <1>7, <1>8, <1>9, <1>10, <1>11,
     <1>12, <1>13, <1>14, <1>15, <1>16, <1>17, <1>18
  DEF Next, UserStep, RoundStep

\* What a machine has written, it has a ref for.
LEMMA OwnStep == Inv /\ [Next]_vars => \A k \in Machines : Own(k)'
<1> SUFFICES ASSUME Inv, [Next]_vars, NEW k \in Machines PROVE Own(k)'
  OBVIOUS
<1> USE DEF Inv, TypeOK, Unsaved, At, Goto, vars, machine, server, bounds,
        history, Own, Kept
<1>1. CASE UNCHANGED vars
  BY <1>1
<1>2. ASSUME NEW m \in Machines, NEW c \in Commits, WriteCommit(m, c) PROVE Own(k)'
  BY <1>2 DEF WriteCommit, TakesRefs
<1>3. ASSUME NEW m \in Machines, NEW c \in Commits, WriteOp(m, c) PROVE Own(k)'
  BY <1>3 DEF WriteOp
<1>4. ASSUME NEW m \in Machines, Tear(m) PROVE Own(k)'
  BY <1>4 DEF Tear
<1>5. ASSUME NEW m \in Machines, CutShort(m) PROVE Own(k)'
  BY <1>5 DEF CutShort
<1>6. ASSUME NEW m \in Machines, Start(m) PROVE Own(k)'
  BY <1>6 DEF Start, Fetches
<1>7. ASSUME NEW m \in Machines, JoinStart(m) PROVE Own(k)'
  BY <1>7 DEF JoinStart
<1>8. ASSUME NEW m \in Machines, WipeObjects(m) PROVE Own(k)'
  BY <1>8 DEF WipeObjects, EmptyStore, Broken
<1>9. ASSUME NEW m \in Machines, WipeRefs(m) PROVE Own(k)'
  BY <1>9 DEF WipeRefs, EmptyStore, Dropped
<1>10. ASSUME NEW m \in Machines, Fetch(m) PROVE Own(k)'
  BY <1>10 DEF Fetch, Broken, Dropped
<1>11. ASSUME NEW m \in Machines, Verify(m) PROVE Own(k)'
  BY <1>11 DEF Verify, AfterFetch, HealedStore, FetchedForPull, FetchedForJoin, ConfigSaved
<1>12. ASSUME NEW m \in Machines, GitPush(m) PROVE Own(k)'
  BY <1>12 DEF GitPush, Received
<1>13. ASSUME NEW m \in Machines, Index(m) PROVE Own(k)'
  BY <1>13 DEF Index
<1>14. ASSUME NEW m \in Machines, Upload(m) PROVE Own(k)'
  BY <1>14 DEF Upload
<1>15. ASSUME NEW m \in Machines, Publish(m) PROVE Own(k)'
  BY <1>15 DEF Publish
<1>16. ASSUME NEW m \in Machines, ReadPublished(m) PROVE Own(k)'
  BY <1>16 DEF ReadPublished, Fetches
<1>17. ASSUME NEW m \in Machines, Pull(m) PROVE Own(k)'
  BY <1>17 DEF Pull
<1>18. ASSUME NEW m \in Machines, JoinPull(m) PROVE Own(k)'
  BY <1>18 DEF JoinPull, Fetches
<1>19. QED
  BY <1>1, <1>2, <1>3, <1>4, <1>5, <1>6, <1>7, <1>8, <1>9, <1>10, <1>11,
     <1>12, <1>13, <1>14, <1>15, <1>16, <1>17, <1>18
  DEF Next, UserStep, RoundStep

\* The replica becomes whole with the fetch, and stays so.
LEMMA KeptStep == Inv /\ [Next]_vars => \A k \in Machines : Kept(k)'
<1> SUFFICES ASSUME Inv, [Next]_vars, NEW k \in Machines PROVE Kept(k)'
  OBVIOUS
<1> USE DEF Inv, TypeOK, Unsaved, At, Goto, vars, machine, server, bounds,
        history, Server, Anchored, Carried, Own, Kept, Pushed, Sound
<1>1. CASE UNCHANGED vars
  BY <1>1
<1>2. ASSUME NEW m \in Machines, NEW c \in Commits, WriteCommit(m, c) PROVE Kept(k)'
  BY <1>2 DEF WriteCommit, TakesRefs
<1>3. ASSUME NEW m \in Machines, NEW c \in Commits, WriteOp(m, c) PROVE Kept(k)'
  BY <1>3 DEF WriteOp
<1>4. ASSUME NEW m \in Machines, Tear(m) PROVE Kept(k)'
  BY <1>4 DEF Tear
<1>5. ASSUME NEW m \in Machines, CutShort(m) PROVE Kept(k)'
  BY <1>5 DEF CutShort, Rounds, NoRound
<1>6. ASSUME NEW m \in Machines, Start(m) PROVE Kept(k)'
  BY <1>6 DEF Start, Fetches
<1>7. ASSUME NEW m \in Machines, JoinStart(m) PROVE Kept(k)'
  BY <1>7 DEF JoinStart
<1>8. ASSUME NEW m \in Machines, WipeObjects(m) PROVE Kept(k)'
  BY <1>8 DEF WipeObjects, EmptyStore, Broken
<1>9. ASSUME NEW m \in Machines, WipeRefs(m) PROVE Kept(k)'
  BY <1>9 DEF WipeRefs, EmptyStore, Dropped
<1>10. ASSUME NEW m \in Machines, Fetch(m) PROVE Kept(k)'
  BY <1>10 DEF Fetch, Broken, Dropped, Rounds
<1>11. ASSUME NEW m \in Machines, Verify(m) PROVE Kept(k)'
  <2>1. CASE k # m
    BY <1>11, <2>1 DEF Verify, ConfigSaved
  <2>2. CASE k = m /\ Sound(m)
    <3>0. /\ round'[m] = AfterFetch(m)
          /\ round[m] \in Rounds
      BY <1>11, <2>2 DEF Verify
    <3>1. CASE round[m].caller = "heal"
      BY <1>11, <2>2, <3>0, <3>1 DEF Verify, ConfigSaved, AfterFetch, HealedStore, FetchedForPull, FetchedForJoin,
                               NoRound, Rounds
    <3>2. CASE round[m].caller = "sync"
      <4>1. round'[m].pc = "pull" /\ round'[m].listed = round[m].listed
        BY ZenonT(30), <3>0, <3>2 DEF AfterFetch, FetchedForPull, NoRound
      <4>2. QED
        BY <1>11, <2>2, <3>2, <4>1 DEF Verify, ConfigSaved
    <3>3. CASE round[m].caller = "join"
      BY <1>11, <2>2, <3>0, <3>3 DEF Verify, ConfigSaved, AfterFetch, HealedStore, FetchedForPull, FetchedForJoin,
                               NoRound, Rounds
    <3>4. QED
      BY <3>0, <3>1, <3>2, <3>3 DEF Rounds, Callers
  <2>3. CASE k = m /\ ~Sound(m)
    BY <1>11, <2>3 DEF Verify, NoRound, Rounds
  <2>4. QED
    BY <2>1, <2>2, <2>3
<1>12. ASSUME NEW m \in Machines, GitPush(m) PROVE Kept(k)'
  <2>1. CASE refs[m] \ bare \subseteq objects[m]
    <3>1. /\ bare \subseteq bare'
          /\ round' = [round EXCEPT ![m].pc = "index"]
          /\ round[m] \in Rounds
      BY <1>12, <2>1 DEF GitPush, Received
    <3>2. /\ round'[k].listed = round[k].listed
          /\ k # m => round'[k] = round[k]
          /\ k = m => round'[k].pc = "index"
      BY <3>1 DEF Rounds
    <3>3. QED
      BY <1>12, <3>1, <3>2 DEF GitPush
  <2>2. CASE ~ (refs[m] \ bare \subseteq objects[m])
    <3>1. bare' = bare /\ round' = [round EXCEPT ![m] = NoRound]
      BY <1>12, <2>2 DEF GitPush
    <3>2. /\ k # m => round'[k] = round[k]
          /\ k = m => round'[k].pc = "idle" /\ round'[k].listed = {}
      BY <3>1 DEF NoRound
    <3>3. QED
      BY <1>12, <3>1, <3>2 DEF GitPush
  <2>3. QED
    BY <2>1, <2>2
<1>13. ASSUME NEW m \in Machines, Index(m) PROVE Kept(k)'
  BY <1>13 DEF Index
<1>14. ASSUME NEW m \in Machines, Upload(m) PROVE Kept(k)'
  <2>1. CASE UNCHANGED round
    BY <1>14, <2>1 DEF Upload, Rounds, NoRound
  <2>2. CASE ~UNCHANGED round
    BY <1>14, <2>2 DEF Upload, Rounds, NoRound
  <2>3. QED
    BY <2>1, <2>2
<1>15. ASSUME NEW m \in Machines, Publish(m) PROVE Kept(k)'
  BY <1>15 DEF Publish
<1>16. ASSUME NEW m \in Machines, ReadPublished(m) PROVE Kept(k)'
  BY <1>16 DEF ReadPublished, Fetches
<1>17. ASSUME NEW m \in Machines, Pull(m) PROVE Kept(k)'
  BY <1>17 DEF Pull, Rounds, NoRound
<1>18. ASSUME NEW m \in Machines, JoinPull(m) PROVE Kept(k)'
  BY <1>18 DEF JoinPull, Fetches
<1>19. QED
  BY <1>1, <1>2, <1>3, <1>4, <1>5, <1>6, <1>7, <1>8, <1>9, <1>10, <1>11,
     <1>12, <1>13, <1>14, <1>15, <1>16, <1>17, <1>18
  DEF Next, UserStep, RoundStep

\* Without damage fsck finds nothing, and nothing but a wipe removes a commit.
LEMMA UndamagedStep == Inv /\ [Next]_vars => Undamaged'
<1> SUFFICES ASSUME Inv, [Next]_vars PROVE Undamaged'
  OBVIOUS
<1> USE DEF Inv, TypeOK, At, Goto, vars, machine, server, bounds, history, Rounds,
        Own, Sound, Undamaged
<1>1. CASE UNCHANGED vars
  BY <1>1
<1>2. ASSUME NEW m \in Machines, NEW c \in Commits, WriteCommit(m, c) PROVE Undamaged'
  BY <1>2 DEF WriteCommit, TakesRefs
<1>3. ASSUME NEW m \in Machines, NEW c \in Commits, WriteOp(m, c) PROVE Undamaged'
  BY <1>3 DEF WriteOp
<1>4. ASSUME NEW m \in Machines, Tear(m) PROVE Undamaged'
  BY <1>4 DEF Tear
<1>5. ASSUME NEW m \in Machines, CutShort(m) PROVE Undamaged'
  BY <1>5 DEF CutShort, NoRound
<1>6. ASSUME NEW m \in Machines, Start(m) PROVE Undamaged'
  BY <1>6 DEF Start, Fetches
<1>7. ASSUME NEW m \in Machines, JoinStart(m) PROVE Undamaged'
  BY <1>7 DEF JoinStart
<1>8. ASSUME NEW m \in Machines, WipeObjects(m) PROVE Undamaged'
  BY <1>8 DEF WipeObjects, EmptyStore, Broken
<1>9. ASSUME NEW m \in Machines, WipeRefs(m) PROVE Undamaged'
  BY <1>9 DEF WipeRefs, EmptyStore, Dropped
<1>10. ASSUME NEW m \in Machines, Fetch(m) PROVE Undamaged'
  <2>1. CASE tears = 0
    <3>1. /\ objects' = [objects EXCEPT ![m] = @ \cup (bare \ refs[m])]
          /\ refs' = [refs EXCEPT ![m] = bare]
          /\ round' = [round EXCEPT ![m].pc = "verify"]
          /\ UNCHANGED <<author, bare, written, lost, tears>>
      BY <1>10, <2>1 DEF Fetch
    <3>2. \A k \in Machines : objects[k] \subseteq objects'[k]
      BY <3>1
    <3>3. bare \subseteq objects'[m]
      BY <2>1, <3>1
    <3>4. \A k \in Machines : Sound(k)' /\ round'[k].attempt = 0
      BY <2>1, <3>1, <3>3
    <3>5. \A k \in Machines : ~At(k, "refs")' /\ ~At(k, "refetch")'
      BY <2>1, <3>1
    <3>6. \A c \in bare' \cup written' : c \in objects'[author'[c]]
      BY <2>1, <3>1, <3>2
    <3>7. QED
      BY <2>1, <3>1, <3>4, <3>5, <3>6
  <2>2. CASE tears # 0
    BY <1>10, <2>2 DEF Fetch
  <2>3. QED
    BY <2>1, <2>2
<1>11. ASSUME NEW m \in Machines, Verify(m) PROVE Undamaged'
  <2>1. CASE tears' # 0
    BY <2>1
  <2>2. CASE tears' = 0
    <3>1. /\ tears = 0 /\ Sound(m) /\ round' = [round EXCEPT ![m] = AfterFetch(m)]
          /\ UNCHANGED <<author, objects, refs, bare, written, lost>>
      BY <1>11, <2>2 DEF Verify
    <3>2. AfterFetch(m).attempt = 0 /\ AfterFetch(m).pc \in {"idle", "push", "pull"}
      <4>1. round[m].caller \in Callers
        OBVIOUS
      <4>2. /\ HealedStore(m).pc = "push" /\ FetchedForPull(m).pc = "pull"
            /\ FetchedForJoin(m).pc = "idle"
            /\ HealedStore(m).attempt = 0 /\ FetchedForPull(m).attempt = 0
            /\ FetchedForJoin(m).attempt = 0
        BY DEF HealedStore, FetchedForPull, FetchedForJoin, NoRound
      <4>3. QED
        BY <4>1, <4>2 DEF AfterFetch, Callers
    <3>3. QED
      BY <3>1, <3>2
  <2>3. QED
    BY <2>1, <2>2
<1>12. ASSUME NEW m \in Machines, GitPush(m) PROVE Undamaged'
  <2>1. CASE tears = 0
    <3>1. /\ \A k \in Machines : round'[k] \in {round[k], NoRound, [round[k] EXCEPT !.pc = "index"]}
          /\ bare' \in {bare, bare \cup refs[m]}
          /\ UNCHANGED <<author, objects, refs, written, lost, tears>>
      BY <1>12 DEF GitPush, Received
    <3>2. \A k \in Machines : round'[k].attempt = 0 /\ ~At(k, "refs")' /\ ~At(k, "refetch")'
      BY <2>1, <3>1 DEF NoRound
    <3>3. \A c \in refs[m] \ bare : c \in objects[author[c]]
      BY <2>1
    <3>4. \A c \in bare' \cup written' : c \in objects'[author'[c]]
      BY <2>1, <3>1, <3>3
    <3>5. QED
      BY <2>1, <3>1, <3>2, <3>4
  <2>2. CASE tears # 0
    BY <1>12, <2>2 DEF GitPush
  <2>3. QED
    BY <2>1, <2>2
<1>13. ASSUME NEW m \in Machines, Index(m) PROVE Undamaged'
  BY <1>13 DEF Index
<1>14. ASSUME NEW m \in Machines, Upload(m) PROVE Undamaged'
  <2>1. \A k \in Machines : round'[k] \in {round[k], [NoRound EXCEPT !.pc = "complete"]}
    BY <1>14 DEF Upload
  <2>2. tears = 0 =>
          \A k \in Machines : round'[k].attempt = 0 /\ ~At(k, "refs")' /\ ~At(k, "refetch")'
    BY <2>1 DEF NoRound
  <2>3. UNCHANGED <<author, objects, refs, bare, written, lost, tears>>
    BY <1>14 DEF Upload
  <2>4. QED
    BY <2>2, <2>3
<1>15. ASSUME NEW m \in Machines, Publish(m) PROVE Undamaged'
  BY <1>15 DEF Publish
<1>16. ASSUME NEW m \in Machines, ReadPublished(m) PROVE Undamaged'
  BY <1>16 DEF ReadPublished, Fetches
<1>17. ASSUME NEW m \in Machines, Pull(m) PROVE Undamaged'
  BY <1>17 DEF Pull, NoRound
<1>18. ASSUME NEW m \in Machines, JoinPull(m) PROVE Undamaged'
  BY <1>18 DEF JoinPull, Fetches
<1>19. QED
  BY <1>1, <1>2, <1>3, <1>4, <1>5, <1>6, <1>7, <1>8, <1>9, <1>10, <1>11,
     <1>12, <1>13, <1>14, <1>15, <1>16, <1>17, <1>18
  DEF Next, UserStep, RoundStep

\* What create leaves is whole.
LEMMA InitInv == Init => Inv
<1> SUFFICES ASSUME Init PROVE Inv
  OBVIOUS
<1> USE GitAssumption DEF Init
<1>1. TypeOK
  BY DEF TypeOK, NoRound, Rounds, Phases, Callers
<1>2. Server
  BY DEF Server
<1>3. ASSUME NEW m \in Machines PROVE Anchored(m)
  BY <1>3 DEF Anchored, Pushed, At, NoRound
<1>4. ASSUME NEW m \in Machines PROVE Carried(m)
  BY <1>4 DEF Carried, At, NoRound
<1>5. ASSUME NEW m \in Machines PROVE Own(m)
  BY <1>5 DEF Own
<1>6. ASSUME NEW m \in Machines PROVE Kept(m)
  BY <1>6 DEF Kept, At, NoRound
<1>7. Undamaged
  BY DEF Undamaged, Sound, At, NoRound
<1>8. QED
  BY <1>1, <1>2, <1>3, <1>4, <1>5, <1>6, <1>7 DEF Inv

-----------------------------------------------------------------------------

\* The invariant holds in every state: what rounds carry and what machines keep
\* fits together whatever was damaged or cut short.
THEOREM InvHolds == Spec => []Inv
<1>1. Inv /\ [Next]_vars => Inv'
  BY TypeStep, ServerStep, AnchoredStep, CarriedStep, OwnStep, KeptStep, UndamagedStep DEF Inv
<1>2. QED
  BY InitInv, <1>1, PTL DEF Spec

\* Every variable keeps its type, whatever the machines do.
THEOREM TypeCorrect == Spec => []TypeOK
<1>1. Inv => TypeOK
  BY DEF Inv
<1>2. QED
  BY <1>1, InvHolds, PTL

\* sync.rs pushes Git, then lists and uploads: the mirror has no operation
\* before the bare has its commit.
THEOREM CommitsBeforeOpsHolds == Spec => []CommitsBeforeOps
<1>1. Inv => CommitsBeforeOps
  BY DEF Inv, Server, CommitsBeforeOps
<1>2. QED
  BY <1>1, InvHolds, PTL

\* sync.rs reads the manifest, fetches Git, then pulls, and join.rs saves
\* config.json last: where fsck finds nothing wrong, every operation of a
\* replica has its commit and a ref that keeps it.
THEOREM ReplicaWholeHolds == Spec => []ReplicaWhole
<1>1. Inv => ReplicaWhole
  BY DEF Inv, TypeOK, Kept, ReplicaWhole, Sound
<1>2. QED
  BY <1>1, InvHolds, PTL
\* git_fetch_dojjo wipes a store only if fsck fails: without damage from outside
\* it never does, and every commit that has an operation stays with its author,
\* wherever rounds and joins are cut short.
THEOREM AuthorKeepsHolds == Spec => []AuthorKeeps
<1>1. Inv => AuthorKeeps
  BY DEF Inv, Undamaged, AuthorKeeps
<1>2. QED
  BY <1>1, InvHolds, PTL
=============================================================================
