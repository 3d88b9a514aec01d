--------------------------- MODULE TusUpload_proofs ---------------------------
(***************************************************************************)
(* Proofs about TusUpload.  TypeCorrect holds of every instance.  The rest  *)
(* assumes that no request comes for an upload while the server works on an *)
(* earlier one (~Resends): with one, TLC finds MirrorWhole violated.        *)
(***************************************************************************)
EXTENDS TusUpload, TLAPS

(***************************************************************************)
(* The inductive invariant.                                                 *)
(***************************************************************************)

\* No two requests under way are on one upload.
Alone == \A r, s \in Requests : Target(r) # None /\ Target(r) = Target(s) => r = s

\* A data file that is not in the mirror yet is a prefix of the body.
PrefixStaged ==
    \A u \in Uploads : file[u].at \in {"none", "staged"} =>
        file[u].intact /\ file[u].len <= Size[u]

\* The mirror's files are those that were moved there, whole.
MovedWhole ==
    /\ \A u \in Uploads : file[u].at = "mirror" => mirror[Dest[u]] = u /\ Whole(u)
    /\ \A p \in Paths : mirror[p] # None =>
           Dest[mirror[p]] = p /\ file[mirror[p]].at = "mirror"

\* The path of an upload has a file, unless it is one that files go from.
Filled(u) == mirror[Dest[u]] # None \/ Dest[u] \in HeadPaths

\* What a request has established when it is at a step.
Established(r) ==
    LET u == Target(r)
    IN  /\ u # None => file[u].at # "none"
        /\ req[r].pc \in {"open", "append"} =>
               Staged(u) /\ file[u].len = req[r].offset /\ End(r) <= Size[u]
        /\ At(r, "stat") => Staged(u) /\ file[u].len = End(r)
        /\ At(r, "finalize") => Staged(u) /\ file[u].len = Size[u]
        /\ At(r, "rename") => Staged(u) /\ file[u].len = Size[u]
        /\ req[r].pc \in {"unmeta", "rmdir", "verify"} =>
               Filled(u) /\ file[u].at \in {"mirror", "gone"}
        /\ req[r].pc \in {"rmdir", "verify"} => u \notin meta
        /\ At(r, "verify") => u \notin staging

AllEstablished == \A r \in Requests : Established(r)

\* An upload that was reported complete has left staging for good.
DeliveredLeft ==
    \A u \in delivered : /\ file[u].at \in {"mirror", "gone"}
                         /\ Filled(u)
                         /\ u \notin staging
                         /\ u \notin meta

Inv == /\ TypeOK
       /\ Alone
       /\ PrefixStaged
       /\ MovedWhole
       /\ AllEstablished
       /\ DeliveredLeft

(***************************************************************************)
(* Types.                                                                   *)
(***************************************************************************)

\* A request under way has an upload.
LEMMA HasUpload ==
    ASSUME TypeOK, NEW r \in Requests, ~At(r, "idle")
    PROVE  Target(r) \in Uploads
BY DEF TypeOK, At, Target

\* An append keeps the data files' types.
LEMMA AppendedType ==
    ASSUME TypeOK, NEW r \in Requests, ~At(r, "idle"), NEW n \in Nat
    PROVE  Appended(r, n) \in [Uploads -> [at : {"none", "staged", "mirror", "gone"},
                                           len : Nat, intact : BOOLEAN]]
<1>1. Target(r) \in Uploads
  BY HasUpload
<1> DEFINE u == Target(r)
           f == file[u]
           in == f.intact /\ (n > 0 => f.len = req[r].offset)
           g == [f EXCEPT !.len = f.len + n, !.intact = in]
<1>2. f \in [at : {"none", "staged", "mirror", "gone"}, len : Nat, intact : BOOLEAN]
  BY <1>1 DEF TypeOK
<1>3. in \in BOOLEAN /\ f.len + n \in Nat
  BY <1>2
<1>4. g \in [at : {"none", "staged", "mirror", "gone"}, len : Nat, intact : BOOLEAN]
  <2> HIDE DEF in, f
  <2>1. QED
    BY <1>2, <1>3
<1>5. [file EXCEPT ![u] = g] \in [Uploads -> [at : {"none", "staged", "mirror", "gone"},
                                           len : Nat, intact : BOOLEAN]]
  <2> HIDE DEF g, u
  <2>1. QED
    BY <1>4 DEF TypeOK
<1>6. Appended(r, n) = [file EXCEPT ![u] = g]
  BY <1>1 DEF Appended, TypeOK
<1>7. QED
  BY <1>5, <1>6

\* A handler's move from phase to phase, or its end, keeps the requests' types.
LEMMA ProceedType ==
    ASSUME TypeOK, NEW r \in Requests, ~At(r, "idle"),
           NEW phase \in Phases \ {"idle"},
           GoTo(r, phase) \/ Answer(r)
    PROVE  /\ req' \in [Requests -> [pc : Phases, upload : Uploads \cup {None},
                                    offset : Nat, count : Nat]]
           /\ \A s \in Requests : (req'[s].pc = "idle") <=> (req'[s].upload = None)
<1> DEFINE R == [pc : Phases, upload : Uploads \cup {None}, offset : Nat, count : Nat]
<1>1. CASE GoTo(r, phase)
  <2>1. [req[r] EXCEPT !.pc = phase] \in R
    BY DEF TypeOK
  <2>2. req' = [req EXCEPT ![r] = [req[r] EXCEPT !.pc = phase]]
    BY <1>1 DEF GoTo, TypeOK
  <2>3. req'[r].pc # "idle" /\ req'[r].upload # None
    BY <2>2, HasUpload, UploadAssumption DEF TypeOK, Target
  <2>4. QED
    BY <2>1, <2>2, <2>3 DEF TypeOK, At, Target
<1>2. CASE Answer(r)
  <2>1. NoRequest \in R
    BY DEF NoRequest, Phases
  <2>2. NoRequest.pc = "idle" /\ NoRequest.upload = None
    BY DEF NoRequest
  <2>3. QED
    BY <1>2, <2>1, <2>2 DEF TypeOK, Answer, At, Target
<1>3. QED
  BY <1>1, <1>2

\* Every variable keeps its type at every step of every instance.
LEMMA TypeStep == TypeOK /\ [Next]_vars => TypeOK'
<1> SUFFICES ASSUME TypeOK, [Next]_vars PROVE TypeOK'
  OBVIOUS
<1> USE UploadAssumption DEF TypeOK
<1>1. ASSUME NEW u \in Uploads, Create(u) PROVE TypeOK'
  BY <1>1 DEF Create, At, Target
<1>2. ASSUME NEW u \in Uploads, CreateCutShort(u) PROVE TypeOK'
  BY <1>2 DEF CreateCutShort, Fails, At, Target
<1>3. ASSUME NEW r \in Requests, NEW u \in Uploads, NEW phase \in {"get", "delete_get"},
             NEW offset \in Nat, NEW count \in Nat, Send(r, u, phase, offset, count)
      PROVE  TypeOK'
  BY <1>3 DEF Send, At, Target, Phases
<1>4. ASSUME NEW r \in Requests, Drop(r) PROVE TypeOK'
  <2>1. file' \in [Uploads -> [at : {"none", "staged", "mirror", "gone"},
                               len : Nat, intact : BOOLEAN]]
    BY <1>4, AppendedType DEF Drop
  <2>2. failures' \in 0 .. MaxFailures
    BY <1>4 DEF Drop, Fails
  <2>3. QED
    BY <1>4, <2>1, <2>2, ProceedType DEF Drop, At, Target, Phases
<1>5. ASSUME NEW r \in Requests,
             GetUpload(r) \/ CheckOffset(r) \/ OpenData(r) \/ DataLen(r) \/ CheckLength(r)
               \/ GetForDelete(r)
      PROVE  TypeOK'
  <2>1. ~At(r, "idle")
    BY <1>5 DEF GetUpload, CheckOffset, OpenData, DataLen, CheckLength, GetForDelete, At
  <2>2. PICK phase \in Phases \ {"idle"} : GoTo(r, phase) \/ Answer(r)
    BY <1>5 DEF GetUpload, CheckOffset, OpenData, DataLen, CheckLength, GetForDelete,
                Proceed, Phases
  <2>3. UNCHANGED <<file, meta, staging, mirror, delivered, failures>>
    BY <1>5 DEF GetUpload, CheckOffset, OpenData, DataLen, CheckLength, GetForDelete
  <2>4. QED
    BY <2>1, <2>2, <2>3, ProceedType DEF At, Target
<1>6. ASSUME NEW r \in Requests, AppendChunk(r) PROVE TypeOK'
  BY <1>6, AppendedType, ProceedType DEF AppendChunk, At, Target, Phases
<1>7. ASSUME NEW r \in Requests, RenameData(r) PROVE TypeOK'
  <2>1. Target(r) \in Uploads
    BY <1>7, HasUpload DEF RenameData, At
  <2>2. Moved(Target(r)) \in [Uploads -> [at : {"none", "staged", "mirror", "gone"},
                                          len : Nat, intact : BOOLEAN]]
    BY DEF Moved
  <2>3. QED
    BY <1>7, <2>1, <2>2, ProceedType DEF RenameData, At, Target, Phases
<1>8. ASSUME NEW r \in Requests, RemoveMeta(r) \/ RemoveDir(r) PROVE TypeOK'
  BY <1>8, ProceedType DEF RemoveMeta, RemoveDir, Proceed, At, Target, Phases
<1>9. ASSUME NEW r \in Requests, VerifySize(r) PROVE TypeOK'
  BY <1>9, HasUpload, ProceedType DEF VerifySize, At, Target, Phases
<1>10. ASSUME NEW r \in Requests, DeleteUpload(r) PROVE TypeOK'
  <2>1. Target(r) \in Uploads
    BY <1>10, HasUpload DEF DeleteUpload, At
  <2>2. [file EXCEPT ![Target(r)].at = "gone"] \in
            [Uploads -> [at : {"none", "staged", "mirror", "gone"}, len : Nat, intact : BOOLEAN]]
    BY <2>1
  <2>3. QED
    BY <1>10, <2>2, ProceedType DEF DeleteUpload, At, Target, Phases
<1>11. ASSUME NEW p \in HeadPaths, RemoveHead(p) PROVE TypeOK'
  <2>1. p \in Paths /\ mirror[p] \in Uploads
    BY <1>11 DEF RemoveHead
  <2>2. QED
    BY <1>11, <2>1 DEF RemoveHead, At, Target
<1>12. CASE UNCHANGED vars
  BY <1>12 DEF vars, At, Target
<1>13. QED
  BY <1>1, <1>2, <1>3, <1>4, <1>5, <1>6, <1>7, <1>8, <1>9, <1>10, <1>11, <1>12
     DEF Next, PatchStep

\* Every variable keeps its type, for any uploads, requests and bounds.
THEOREM TypeCorrect == Spec => []TypeOK
<1>1. Init => TypeOK
  BY UploadAssumption DEF Init, TypeOK, NoFile, NoRequest, Phases, At, Target
<1>2. QED
  BY <1>1, TypeStep, PTL DEF Spec

(***************************************************************************)
(* The steps that only move a request on.                                   *)
(***************************************************************************)

\* Such a step keeps the invariant if it establishes what the request's new
\* place needs, and does not take an upload another request is on.
LEMMA QuietStep ==
    ASSUME Inv, TypeOK', NEW r \in Requests,
           UNCHANGED <<file, meta, staging, mirror, delivered>>,
           \A s \in Requests \ {r} : req'[s] = req[s],
           req'[r].upload \in {None, Target(r)} \/ ~Waiting(req'[r].upload),
           Established(r)'
    PROVE  Inv'
<1>1. Alone'
  BY DEF Inv, Alone, Waiting, Target
<1>2. PrefixStaged' /\ MovedWhole' /\ DeliveredLeft'
  BY DEF Inv, PrefixStaged, MovedWhole, DeliveredLeft, Staged, Whole, Filled
<1>3. ASSUME NEW s \in Requests \ {r} PROVE Established(s)'
  <2>1. Established(s)
    BY DEF Inv, AllEstablished
  <2>2. QED
    BY <2>1 DEF Established, Target, At, End, Staged, Filled
<1>4. QED
  BY <1>1, <1>2, <1>3 DEF Inv, AllEstablished

\* The request whose step it is, after it goes on or ends.
LEMMA ReqAfter ==
    ASSUME TypeOK, NEW r \in Requests
    PROVE  /\ \A phase : GoTo(r, phase) =>
                 /\ req'[r].pc = phase /\ req'[r].upload = Target(r)
                 /\ req'[r].offset = req[r].offset /\ req'[r].count = req[r].count
                 /\ \A s \in Requests \ {r} : req'[s] = req[s]
           /\ Answer(r) =>
                 /\ req'[r].pc = "idle" /\ req'[r].upload = None
                 /\ \A s \in Requests \ {r} : req'[s] = req[s]
BY DEF TypeOK, GoTo, Answer, NoRequest, Target

\* A request that ends establishes what it needs.
LEMMA AnswerEstablishes ==
    ASSUME TypeOK, NEW r \in Requests, Answer(r)
    PROVE  Established(r)'
BY ReqAfter DEF Established, At, Target

LEMMA MoveOn ==
    ASSUME Inv, TypeOK', NEW r \in Requests,
           GetUpload(r) \/ CheckOffset(r) \/ OpenData(r) \/ DataLen(r) \/ CheckLength(r)
             \/ GetForDelete(r)
    PROVE  Inv'
<1>1. UNCHANGED <<file, meta, staging, mirror, delivered>>
  BY DEF GetUpload, CheckOffset, OpenData, DataLen, CheckLength, GetForDelete
<1>2. TypeOK /\ Established(r)
  BY DEF Inv, AllEstablished
<1>3. CASE Answer(r)
  BY <1>1, <1>2, <1>3, ReqAfter, AnswerEstablishes, QuietStep
<1>4. CASE ~Answer(r)
  <2>1. Target(r) \in Uploads
    BY <1>2, HasUpload
       DEF GetUpload, CheckOffset, OpenData, DataLen, CheckLength, GetForDelete, At
  <2>2. /\ file[Target(r)].at # "none"
        /\ req[r].offset \in Nat /\ req[r].count \in Nat
        /\ Size[Target(r)] \in Nat
    BY <1>2, <2>1, UploadAssumption DEF Established, TypeOK
  <2>3. PICK phase : GoTo(r, phase)
    BY <1>4 DEF GetUpload, CheckOffset, OpenData, DataLen, CheckLength, GetForDelete, Proceed
  <2>4. Established(r)'
    <3>1. ASSUME GetUpload(r) PROVE Established(r)'
      BY <1>1, <1>2, <1>4, <2>2, <3>1, ReqAfter
         DEF GetUpload, Proceed, Established, At, Target, End, Staged
    <3>2. ASSUME CheckOffset(r) PROVE Established(r)'
      BY <1>1, <1>2, <1>4, <2>2, <3>2, ReqAfter
         DEF CheckOffset, Proceed, Established, At, Target, End, Staged
    <3>3. ASSUME OpenData(r) PROVE Established(r)'
      BY <1>1, <1>2, <1>4, <2>2, <3>3, ReqAfter
         DEF OpenData, Proceed, Established, At, Target, End, Staged
    <3>4. ASSUME DataLen(r) PROVE Established(r)'
      BY <1>1, <1>2, <1>4, <2>2, <3>4, ReqAfter
         DEF DataLen, Proceed, Established, At, Target, End, Staged
    <3>5. ASSUME CheckLength(r) PROVE Established(r)'
      BY <1>1, <1>2, <1>4, <2>2, <3>5, ReqAfter
         DEF CheckLength, Proceed, Established, At, Target, End, Staged
    <3>6. ASSUME GetForDelete(r) PROVE Established(r)'
      BY <1>1, <1>2, <1>4, <2>2, <3>6, ReqAfter
         DEF GetForDelete, Proceed, Established, At, Target, End, Staged
    <3>7. QED
      BY <3>1, <3>2, <3>3, <3>4, <3>5, <3>6
  <2>5. QED
    BY <1>1, <1>2, <2>3, <2>4, ReqAfter, QuietStep
<1>5. QED
  BY <1>3, <1>4

LEMMA SendStep ==
    ASSUME Inv, TypeOK', ~Resends, NEW r \in Requests, NEW u \in Uploads,
           NEW phase \in {"get", "delete_get"}, NEW offset, NEW count,
           Send(r, u, phase, offset, count)
    PROVE  Inv'
<1>1. req' = [req EXCEPT ![r] = [pc |-> phase, upload |-> u,
                                 offset |-> offset, count |-> count]]
  BY DEF Send
<1>2. /\ req'[r].pc = phase /\ req'[r].upload = u
      /\ \A s \in Requests \ {r} : req'[s] = req[s]
  BY <1>1 DEF Inv, TypeOK
<1>3. UNCHANGED <<file, meta, staging, mirror, delivered>> /\ ~Waiting(u)
  BY DEF Send
<1>4. Established(r)'
  BY <1>2, <1>3 DEF Send, Established, At, Target
<1>5. QED
  BY <1>2, <1>3, <1>4, QuietStep

(***************************************************************************)
(* The steps that change files.                                             *)
(***************************************************************************)

\* A step on one upload leaves what the requests on others have established,
\* also when it replaces the mirror's file of another upload.
LEMMA OthersKeep ==
    ASSUME Inv, TypeOK', NEW r \in Requests, Target(r) \in Uploads,
           \A s \in Requests \ {r} : req'[s] = req[s],
           req'[r].upload \in {None, Target(r)},
           \A v \in Uploads \ {Target(r)} :
               /\ \/ file'[v] = file[v]
                  \/ file[v].at = "mirror" /\ file'[v].at = "gone"
               /\ v \in meta' => v \in meta
               /\ v \in staging' => v \in staging,
           \A p \in Paths : mirror[p] # None => mirror'[p] # None
    PROVE  Alone' /\ \A s \in Requests \ {r} : Established(s)'
<1>1. Alone'
  BY DEF Inv, Alone, Target
<1>2. ASSUME NEW s \in Requests \ {r} PROVE Established(s)'
  <2>1. Established(s) /\ req'[s] = req[s]
    BY DEF Inv, AllEstablished
  <2>2. CASE Target(s) = None
    <3>1. At(s, "idle")
      BY <2>2 DEF Inv, TypeOK
    <3>2. QED
      BY <2>1, <2>2, <3>1 DEF Established, Target, At
  <2>3. CASE Target(s) # None
    <3>1. Target(s) \in Uploads \ {Target(r)} /\ Dest[Target(s)] \in Paths
      BY <2>3, UploadAssumption DEF Inv, TypeOK, Alone, Target
    <3>2. QED
      BY <2>1, <3>1 DEF Established, Target, At, End, Staged, Filled
  <2>4. QED
    BY <2>2, <2>3
<1>3. QED
  BY <1>1, <1>2

LEMMA CreateStep ==
    ASSUME Inv, TypeOK', NEW u \in Uploads, Create(u) \/ CreateCutShort(u)
    PROVE  Inv'
<1>1. /\ UNCHANGED <<req, mirror, delivered>>
      /\ file[u].at = "none"
      /\ \A v \in Uploads \ {u} : /\ file'[v] = file[v]
                                  /\ v \in meta' <=> v \in meta
                                  /\ v \in staging' <=> v \in staging
  BY DEF Inv, TypeOK, Create, CreateCutShort
<1>2. \A s \in Requests : Target(s) # u
  BY <1>1, UploadAssumption DEF Inv, AllEstablished, Established
<1>3. file'[u].at \in {"none", "staged"} /\ file'[u].len = file[u].len
          /\ file'[u].intact = file[u].intact
  BY <1>1 DEF Inv, TypeOK, Create, CreateCutShort
<1>4. Alone' /\ AllEstablished'
  <2>1. ASSUME NEW s \in Requests PROVE Established(s)'
    <3>1. Established(s) /\ req'[s] = req[s] /\ Target(s) # u
      BY <1>1, <1>2 DEF Inv, AllEstablished
    <3>2. CASE Target(s) = None
      <4>1. At(s, "idle")
        BY <3>2 DEF Inv, TypeOK
      <4>2. QED
        BY <3>1, <3>2, <4>1 DEF Established, Target, At
    <3>3. CASE Target(s) # None
      <4>1. Target(s) \in Uploads \ {u}
        BY <3>1, <3>3 DEF Inv, TypeOK, Target
      <4>2. QED
        BY <1>1, <3>1, <4>1 DEF Established, Target, At, End, Staged, Filled
    <3>4. QED
      BY <3>2, <3>3
  <2>2. QED
    BY <1>1, <2>1 DEF Inv, Alone, AllEstablished, Target
<1>5. PrefixStaged'
  BY <1>1, <1>3 DEF Inv, PrefixStaged
<1>6. MovedWhole'
  <2>1. \A v \in Uploads : file[v].at = "mirror" => v # u /\ file'[v] = file[v]
    BY <1>1
  <2>2. QED
    BY <1>1, <1>3, <2>1 DEF Inv, TypeOK, MovedWhole, Whole
<1>7. DeliveredLeft'
  BY <1>1 DEF Inv, TypeOK, DeliveredLeft, Filled
<1>8. QED
  BY <1>4, <1>5, <1>6, <1>7 DEF Inv

\* An append of the first n bytes of a chunk that got as far as the append.
LEMMA AppendedIs ==
    ASSUME Inv, NEW r \in Requests, At(r, "append"), NEW n \in 0 .. req[r].count,
           file' = Appended(r, n)
    PROVE  LET u == Target(r)
           IN  /\ u \in Uploads
               /\ file'[u].at = "staged" /\ file'[u].intact
               /\ file'[u].len = req[r].offset + n /\ file'[u].len <= Size[u]
               /\ file[u].at = "staged"
               /\ \A v \in Uploads \ {u} : file'[v] = file[v]
<1> DEFINE u == Target(r)
<1>1. u \in Uploads /\ TypeOK
  BY HasUpload DEF Inv, At
<1>2. /\ file[u].at = "staged" /\ file[u].len = req[r].offset
      /\ req[r].offset + req[r].count <= Size[u]
  BY <1>1 DEF Inv, AllEstablished, Established, Staged, At, End, Target
<1>3. file[u].intact
  BY <1>1, <1>2 DEF Inv, PrefixStaged
<1>4. /\ file'[u].at = file[u].at /\ file'[u].len = file[u].len + n
      /\ file'[u].intact = (file[u].intact /\ (n > 0 => file[u].len = req[r].offset))
      /\ \A v \in Uploads \ {u} : file'[v] = file[v]
  BY <1>1 DEF Appended, TypeOK
<1>5. req[r].offset \in Nat /\ req[r].count \in Nat /\ Size[u] \in Nat
  BY <1>1, UploadAssumption DEF TypeOK
<1>6. req[r].offset + n <= Size[u]
  <2> HIDE DEF u
  <2>1. QED
    BY <1>2, <1>5
<1>7. QED
  BY <1>1, <1>2, <1>3, <1>4, <1>6

\* A step that changes the data file of a request's upload, and leaves it a
\* prefix in staging, keeps what is said of files.
LEMMA PrefixStep ==
    ASSUME Inv, TypeOK', NEW u \in Uploads, file[u].at = "staged",
           file'[u].at = "staged", file'[u].intact, file'[u].len <= Size[u],
           \A v \in Uploads \ {u} : file'[v] = file[v],
           UNCHANGED <<meta, staging, mirror, delivered>>
    PROVE  PrefixStaged' /\ MovedWhole' /\ DeliveredLeft'
<1>1. PrefixStaged'
  BY DEF Inv, PrefixStaged
<1>2. \A v \in Uploads : file[v].at \in {"mirror", "gone"} => file'[v] = file[v]
  OBVIOUS
<1>3. \A v \in Uploads : file'[v].at = "mirror" => file'[v] = file[v]
  OBVIOUS
<1>4. MovedWhole'
  BY <1>2, <1>3 DEF Inv, TypeOK, MovedWhole, Whole
<1>5. DeliveredLeft'
  BY <1>2 DEF Inv, TypeOK, DeliveredLeft, Filled
<1>6. QED
  BY <1>1, <1>4, <1>5

LEMMA AppendStep ==
    ASSUME Inv, TypeOK', NEW r \in Requests, AppendChunk(r)
    PROVE  Inv'
<1> DEFINE u == Target(r)
<1>1. /\ TypeOK /\ At(r, "append") /\ req[r].count \in 0 .. req[r].count
      /\ file' = Appended(r, req[r].count)
      /\ UNCHANGED <<meta, staging, mirror, delivered>>
  BY DEF AppendChunk, Inv, TypeOK
<1>2. /\ u \in Uploads /\ file[u].at = "staged"
      /\ file'[u].at = "staged" /\ file'[u].intact
      /\ file'[u].len = End(r) /\ file'[u].len <= Size[u]
      /\ \A v \in Uploads \ {u} : file'[v] = file[v]
  BY <1>1, AppendedIs DEF End
<1>3. /\ req'[r].pc = "stat" /\ req'[r].upload = u
      /\ req'[r].offset = req[r].offset /\ req'[r].count = req[r].count
      /\ \A s \in Requests \ {r} : req'[s] = req[s]
  BY <1>1, ReqAfter DEF AppendChunk
<1>4. Alone' /\ \A s \in Requests \ {r} : Established(s)'
  BY <1>1, <1>2, <1>3, OthersKeep
<1>5. PrefixStaged' /\ MovedWhole' /\ DeliveredLeft'
  BY <1>1, <1>2, PrefixStep
<1>6. Established(r)'
  BY <1>2, <1>3 DEF Established, At, Target, End, Staged
<1>7. QED
  BY <1>4, <1>5, <1>6 DEF Inv, AllEstablished

LEMMA DropStep ==
    ASSUME Inv, TypeOK', NEW r \in Requests, Drop(r)
    PROVE  Inv'
<1> DEFINE u == Target(r)
<1>1. /\ TypeOK /\ u \in Uploads /\ Answer(r)
      /\ UNCHANGED <<meta, staging, mirror, delivered>>
  BY HasUpload DEF Drop, Inv
<1>2. Established(r)' /\ req'[r].upload = None /\ \A s \in Requests \ {r} : req'[s] = req[s]
  BY <1>1, ReqAfter, AnswerEstablishes
<1>3. CASE file' = file
  BY <1>1, <1>2, <1>3, QuietStep
<1>4. CASE At(r, "append") /\ file' # file
  <2>1. PICK n \in 0 .. req[r].count : file' = Appended(r, n)
    BY <1>4 DEF Drop
  <2>2. /\ file[u].at = "staged" /\ file'[u].at = "staged" /\ file'[u].intact
        /\ file'[u].len <= Size[u]
        /\ \A v \in Uploads \ {u} : file'[v] = file[v]
    BY <1>4, <2>1, AppendedIs
  <2>3. Alone' /\ \A s \in Requests \ {r} : Established(s)'
    BY <1>1, <1>2, <2>2, OthersKeep
  <2>4. PrefixStaged' /\ MovedWhole' /\ DeliveredLeft'
    BY <1>1, <2>2, PrefixStep
  <2>5. QED
    BY <1>2, <2>3, <2>4 DEF Inv, AllEstablished
<1>5. QED
  BY <1>3, <1>4 DEF Drop

\* The rename is the one step that changes the mirror: what it puts there is
\* whole, and what it replaces is no longer of the mirror.
LEMMA RenameStep ==
    ASSUME Inv, TypeOK', NEW r \in Requests, RenameData(r)
    PROVE  Inv'
<1> DEFINE u == Target(r)
           p == Dest[u]
           old == mirror[p]
<1>1. TypeOK /\ u \in Uploads /\ p \in Paths /\ UNCHANGED <<meta, staging, delivered>>
  BY HasUpload, UploadAssumption DEF RenameData, Inv, At
<1>2. Staged(u) /\ file[u].len = Size[u] /\ file[u].intact
  BY <1>1 DEF RenameData, Inv, AllEstablished, Established, PrefixStaged, At, Target, Staged
<1>3. /\ mirror' = [mirror EXCEPT ![p] = u] /\ file' = Moved(u) /\ GoTo(r, "unmeta")
  BY <1>2 DEF RenameData
<1>4. /\ mirror'[p] = u /\ \A q \in Paths \ {p} : mirror'[q] = mirror[q]
  BY <1>1, <1>3 DEF TypeOK
<1>5. /\ file'[u].at = "mirror" /\ file'[u].len = file[u].len
      /\ file'[u].intact = file[u].intact
  BY <1>1, <1>3 DEF Moved, TypeOK
<1>6. ASSUME NEW v \in Uploads \ {u}
      PROVE  /\ v = old => file'[v].at = "gone"
             /\ v # old => file'[v] = file[v]
  BY <1>1, <1>3, <1>6 DEF Moved, TypeOK
<1>7. \A v \in Uploads : v = old => file[v].at = "mirror"
  BY <1>1, UploadAssumption DEF Inv, MovedWhole
<1>8. /\ req'[r].pc = "unmeta" /\ req'[r].upload = u
      /\ \A s \in Requests \ {r} : req'[s] = req[s]
  BY <1>1, <1>3, ReqAfter
<1>9. u # None
  BY <1>1, UploadAssumption
<1>10. \A q \in Paths : mirror[q] # None => mirror'[q] # None
  BY <1>4, <1>9
<1>11. Alone' /\ \A s \in Requests \ {r} : Established(s)'
  BY <1>1, <1>6, <1>7, <1>8, <1>10, OthersKeep
<1>12. Established(r)'
  BY <1>4, <1>5, <1>8, <1>9 DEF Established, At, Target, Filled
<1>13. PrefixStaged'
  BY <1>1, <1>5, <1>6, <1>7 DEF Inv, PrefixStaged
<1>14. MovedWhole'
  <2>1. ASSUME NEW v \in Uploads, file'[v].at = "mirror"
        PROVE  mirror'[Dest[v]] = v /\ Whole(v)'
    <3>1. CASE v = u
      BY <1>2, <1>4, <1>5, <3>1 DEF Whole
    <3>2. CASE v # u
      <4>1. v # old /\ file'[v] = file[v]
        BY <1>6, <2>1, <3>2
      <4>2. mirror[Dest[v]] = v /\ Whole(v)
        BY <2>1, <4>1 DEF Inv, MovedWhole
      <4>3. Dest[v] \in Paths \ {p}
        BY <4>1, <4>2, UploadAssumption
      <4>4. QED
        BY <1>4, <4>1, <4>2, <4>3 DEF Whole
    <3>3. QED
      BY <3>1, <3>2
  <2>2. ASSUME NEW q \in Paths, mirror'[q] # None
        PROVE  Dest[mirror'[q]] = q /\ file'[mirror'[q]].at = "mirror"
    <3>1. CASE q = p
      BY <1>4, <1>5, <3>1
    <3>2. CASE q # p
      <4>1. mirror'[q] = mirror[q]
        BY <1>4, <3>2
      <4>2. /\ mirror[q] \in Uploads /\ Dest[mirror[q]] = q
            /\ file[mirror[q]].at = "mirror"
        BY <1>1, <2>2, <4>1 DEF Inv, TypeOK, MovedWhole
      <4>3. mirror[q] # u /\ mirror[q] # old
        BY <1>2, <1>1, <3>2, <4>2, UploadAssumption DEF Staged, Inv, MovedWhole
      <4>4. QED
        BY <1>6, <4>1, <4>2, <4>3
    <3>3. QED
      BY <3>1, <3>2
  <2>3. QED
    BY <2>1, <2>2 DEF MovedWhole
<1>15. DeliveredLeft'
  BY <1>1, <1>5, <1>6, <1>10, UploadAssumption DEF Inv, TypeOK, DeliveredLeft, Filled
<1>16. QED
  BY <1>11, <1>12, <1>13, <1>14, <1>15 DEF Inv, AllEstablished

\* Meta, then directory, are removed once the data is in the mirror.
LEMMA RemoveStep ==
    ASSUME Inv, TypeOK', NEW r \in Requests, RemoveMeta(r) \/ RemoveDir(r)
    PROVE  Inv'
<1> DEFINE u == Target(r)
<1>1. /\ TypeOK /\ u \in Uploads /\ Established(r)
      /\ UNCHANGED <<file, mirror, delivered>>
      /\ meta' \subseteq meta /\ staging' \subseteq staging
  BY HasUpload DEF RemoveMeta, RemoveDir, Inv, AllEstablished, At
<1>2. /\ \A s \in Requests \ {r} : req'[s] = req[s]
      /\ req'[r].upload \in {None, u}
  BY <1>1, ReqAfter DEF RemoveMeta, RemoveDir, Proceed
<1>3. Alone' /\ \A s \in Requests \ {r} : Established(s)'
  BY <1>1, <1>2, OthersKeep
<1>4. PrefixStaged' /\ MovedWhole' /\ DeliveredLeft'
  BY <1>1 DEF Inv, PrefixStaged, MovedWhole, DeliveredLeft, Whole, Filled
<1>5. Established(r)'
  <2>1. CASE Answer(r)
    BY <1>1, <2>1, AnswerEstablishes
  <2>2. CASE ~Answer(r) /\ RemoveMeta(r)
    <3>1. /\ At(r, "unmeta") /\ req'[r].pc = "rmdir" /\ req'[r].upload = u
          /\ u \notin meta'
      BY <1>1, <2>2, ReqAfter DEF RemoveMeta, Proceed
    <3>2. QED
      BY <1>1, <3>1 DEF Established, At, Target, Filled
  <2>3. CASE ~Answer(r) /\ RemoveDir(r)
    <3>1. /\ At(r, "rmdir") /\ req'[r].pc = "verify" /\ req'[r].upload = u
          /\ u \notin staging' /\ meta' = meta
      BY <1>1, <2>3, ReqAfter DEF RemoveDir, Proceed
    <3>2. QED
      BY <1>1, <3>1 DEF Established, At, Target, Filled
  <2>4. QED
    BY <2>1, <2>2, <2>3
<1>6. QED
  BY <1>3, <1>4, <1>5 DEF Inv, AllEstablished

LEMMA VerifyStep ==
    ASSUME Inv, TypeOK', NEW r \in Requests, VerifySize(r)
    PROVE  Inv'
<1> DEFINE u == Target(r)
<1>1. /\ TypeOK /\ u \in Uploads /\ Established(r) /\ Answer(r)
      /\ UNCHANGED <<file, meta, staging, mirror>>
      /\ delivered' \in {delivered, delivered \cup {u}}
  BY HasUpload DEF VerifySize, Inv, AllEstablished, At
<1>2. Established(r)' /\ req'[r].upload = None /\ \A s \in Requests \ {r} : req'[s] = req[s]
  BY <1>1, ReqAfter, AnswerEstablishes
<1>3. Alone' /\ \A s \in Requests \ {r} : Established(s)'
  BY <1>1, <1>2, OthersKeep
<1>4. /\ Filled(u) /\ file[u].at \in {"mirror", "gone"}
      /\ u \notin meta /\ u \notin staging
  BY <1>1 DEF VerifySize, Established, At
<1>5. PrefixStaged' /\ MovedWhole' /\ DeliveredLeft'
  BY <1>1, <1>4 DEF Inv, PrefixStaged, MovedWhole, DeliveredLeft, Whole, Filled
<1>6. QED
  BY <1>2, <1>3, <1>5 DEF Inv, AllEstablished

LEMMA DeleteStep ==
    ASSUME Inv, TypeOK', NEW r \in Requests, DeleteUpload(r)
    PROVE  Inv'
<1> DEFINE u == Target(r)
<1>1. /\ TypeOK /\ u \in Uploads /\ Answer(r) /\ UNCHANGED <<mirror, delivered>>
      /\ meta' \subseteq meta /\ staging' \subseteq staging
  BY HasUpload DEF DeleteUpload, Inv, At
<1>2. Established(r)' /\ req'[r].upload = None /\ \A s \in Requests \ {r} : req'[s] = req[s]
  BY <1>1, ReqAfter, AnswerEstablishes
<1>3. /\ \A v \in Uploads \ {u} : file'[v] = file[v]
      /\ file'[u].len = file[u].len /\ file'[u].intact = file[u].intact
      /\ file'[u].at = IF file[u].at = "staged" THEN "gone" ELSE file[u].at
  BY <1>1 DEF DeleteUpload, TypeOK, Staged
<1>4. Alone' /\ \A s \in Requests \ {r} : Established(s)'
  BY <1>1, <1>2, <1>3, OthersKeep
<1>5. PrefixStaged'
  BY <1>3 DEF Inv, PrefixStaged
<1>6. MovedWhole'
  <2>1. \A v \in Uploads : file[v].at = "mirror" <=> file'[v].at = "mirror"
    BY <1>3
  <2>2. \A v \in Uploads : Whole(v)' <=> Whole(v)
    BY <1>3 DEF Whole
  <2>3. \A p \in Paths : mirror[p] # None => mirror[p] \in Uploads
    BY <1>1 DEF TypeOK
  <2>4. QED
    BY <1>1, <2>1, <2>2, <2>3 DEF Inv, MovedWhole
<1>7. DeliveredLeft'
  BY <1>1, <1>3 DEF Inv, TypeOK, DeliveredLeft, Filled
<1>8. QED
  BY <1>2, <1>4, <1>5, <1>6, <1>7 DEF Inv, AllEstablished

\* A head marker that goes takes no request and no other file with it.
LEMMA RemoveHeadStep ==
    ASSUME Inv, TypeOK', NEW p \in HeadPaths, RemoveHead(p)
    PROVE  Inv'
<1> DEFINE old == mirror[p]
<1>1. /\ TypeOK /\ p \in Paths /\ old \in Uploads
      /\ UNCHANGED <<req, meta, staging, delivered>>
  BY UploadAssumption DEF RemoveHead, Inv, TypeOK
<1>2. Dest[old] = p /\ file[old].at = "mirror"
  BY <1>1 DEF RemoveHead, Inv, MovedWhole
<1>3. /\ mirror'[p] = None /\ \A q \in Paths \ {p} : mirror'[q] = mirror[q]
      /\ file'[old].at = "gone"
      /\ \A v \in Uploads : file'[v].len = file[v].len /\ file'[v].intact = file[v].intact
      /\ \A v \in Uploads \ {old} : file'[v] = file[v]
  BY <1>1 DEF RemoveHead, TypeOK
<1>4. \A v \in Uploads : Filled(v) => Filled(v)'
  BY <1>3, UploadAssumption DEF Filled
<1>5. Alone' /\ PrefixStaged'
  BY <1>1, <1>3 DEF Inv, Alone, PrefixStaged, Target
<1>6. MovedWhole'
  <2>1. ASSUME NEW v \in Uploads, file'[v].at = "mirror" PROVE mirror'[Dest[v]] = v /\ Whole(v)'
    <3>1. v # old /\ file'[v] = file[v]
      BY <1>3, <2>1
    <3>2. mirror[Dest[v]] = v /\ Whole(v)
      BY <2>1, <3>1 DEF Inv, MovedWhole
    <3>3. Dest[v] \in Paths \ {p}
      BY <3>1, <3>2, UploadAssumption
    <3>4. QED
      BY <1>3, <3>1, <3>2, <3>3 DEF Whole
  <2>2. ASSUME NEW q \in Paths, mirror'[q] # None
        PROVE  Dest[mirror'[q]] = q /\ file'[mirror'[q]].at = "mirror"
    <3>1. q # p /\ mirror'[q] = mirror[q]
      BY <1>3, <2>2
    <3>2. mirror[q] \in Uploads /\ Dest[mirror[q]] = q /\ file[mirror[q]].at = "mirror"
      BY <1>1, <2>2, <3>1 DEF Inv, TypeOK, MovedWhole
    <3>3. mirror[q] # old
      BY <1>2, <3>1, <3>2
    <3>4. QED
      BY <1>3, <3>1, <3>2, <3>3
  <2>3. QED
    BY <2>1, <2>2 DEF MovedWhole
<1>7. AllEstablished'
  <2>1. ASSUME NEW s \in Requests PROVE Established(s)'
    <3>1. Established(s) /\ req'[s] = req[s] /\ (Target(s) = None <=> At(s, "idle"))
      BY <1>1 DEF Inv, AllEstablished, TypeOK
    <3>2. CASE Target(s) = None
      BY <3>1, <3>2 DEF Established, Target, At
    <3>3. CASE Target(s) # None
      <4>1. Target(s) \in Uploads
        BY <1>1, <3>3 DEF TypeOK, Target
      <4>2. \/ file'[Target(s)] = file[Target(s)]
            \/ file[Target(s)].at = "mirror" /\ file'[Target(s)].at = "gone"
        BY <1>2, <1>3, <4>1
      <4>3. QED
        BY <1>1, <1>4, <3>1, <4>1, <4>2 DEF Established, Target, At, End, Staged
    <3>4. QED
      BY <3>2, <3>3
  <2>2. QED
    BY <2>1 DEF AllEstablished
<1>8. DeliveredLeft'
  BY <1>1, <1>3, <1>4 DEF Inv, TypeOK, DeliveredLeft
<1>9. QED
  BY <1>5, <1>6, <1>7, <1>8 DEF Inv

(***************************************************************************)
(* The theorems.                                                            *)
(***************************************************************************)

LEMMA InvStep == ASSUME ~Resends, Inv, [Next]_vars PROVE Inv'
<1>1. TypeOK'
  BY TypeStep DEF Inv
<1>2. CASE UNCHANGED vars
  BY <1>2 DEF vars, Inv, TypeOK, Alone, PrefixStaged, MovedWhole, AllEstablished, Established,
              DeliveredLeft, Filled, Whole, Staged, At, Target, End
<1>3. CASE Next
  <2>1. ASSUME NEW u \in Uploads, Create(u) \/ CreateCutShort(u) PROVE Inv'
    BY <1>1, <2>1, CreateStep
  <2>2. ASSUME NEW r \in Requests, NEW u \in Uploads,
               \/ \E offset, count \in 0 .. MaxSize : Send(r, u, "get", offset, count)
               \/ Send(r, u, "delete_get", 0, 0)
        PROVE  Inv'
    BY <1>1, <2>2, SendStep
  <2>3. ASSUME NEW r \in Requests, PatchStep(r) PROVE Inv'
    BY <1>1, <2>3, MoveOn, AppendStep, RenameStep, RemoveStep, VerifyStep DEF PatchStep
  <2>4. ASSUME NEW r \in Requests, GetForDelete(r) \/ DeleteUpload(r) \/ Drop(r) PROVE Inv'
    BY <1>1, <2>4, MoveOn, DeleteStep, DropStep
  <2>5. ASSUME NEW p \in HeadPaths, RemoveHead(p) PROVE Inv'
    BY <1>1, <2>5, RemoveHeadStep
  <2>6. QED
    BY <1>3, <2>1, <2>2, <2>3, <2>4, <2>5 DEF Next
<1>4. QED
  BY <1>2, <1>3

LEMMA InitInv == Init => Inv
<1> SUFFICES ASSUME Init PROVE Inv
  OBVIOUS
<1>1. TypeOK
  BY UploadAssumption DEF Init, TypeOK, NoFile, NoRequest, Phases, At, Target
<1>2. /\ \A u \in Uploads : file[u] = [at |-> "none", len |-> 0, intact |-> TRUE]
      /\ \A r \in Requests : req[r].pc = "idle" /\ req[r].upload = None
      /\ \A p \in Paths : mirror[p] = None
      /\ delivered = {}
  BY DEF Init, NoFile, NoRequest
<1>3. \A u \in Uploads : 0 <= Size[u]
  BY UploadAssumption
<1>4. QED
  BY <1>1, <1>2, <1>3 DEF Inv, Alone, PrefixStaged, MovedWhole, AllEstablished, Established,
                          DeliveredLeft, At, Target

\* The invariant is inductive when requests on one upload do not overlap.
THEOREM InvHolds == ASSUME ~Resends PROVE Spec => []Inv
<1>1. Inv /\ [Next]_vars => Inv'
  BY InvStep
<1>2. QED
  BY InitInv, <1>1, PTL DEF Spec

\* Then every file of the mirror is whole, wherever requests are cut short.
THEOREM MirrorWholeHolds == ASSUME ~Resends PROVE Spec => []MirrorWhole
<1>1. Inv => MirrorWhole
  BY DEF Inv, TypeOK, MovedWhole, MirrorWhole
<1>2. QED
  BY InvHolds, <1>1, PTL

\* And what a client was told is complete stays so, head markers apart.
THEOREM DeliveredForGoodHolds == ASSUME ~Resends PROVE Spec => []DeliveredForGood
<1>1. Inv => DeliveredForGood
  BY DEF Inv, DeliveredLeft, DeliveredForGood, Filled
<1>2. QED
  BY InvHolds, <1>1, PTL

\* What a reader sees is the mirror: no path shows a torn file.
LEMMA ContentIsMirror == Inv => Content = mirror
BY DEF Inv, TypeOK, MovedWhole, Content

\* The uploads implement MirrorFiles: beside the removal of head markers a
\* rename is the one step a reader sees.
THEOREM UploadIsAtomicHolds == ASSUME ~Resends PROVE Spec => UploadIsAtomic
<1>1. Init => Promise!Init
  BY DEF Init, Promise!Init, Content
<1>2. Inv /\ Inv' /\ [Next]_vars => [Promise!Next]_Content
  <2> SUFFICES ASSUME Inv, Inv', [Next]_vars PROVE Promise!Next \/ Content' = Content
    OBVIOUS
  <2>1. Content = mirror
    BY ContentIsMirror
  <2>2. Content' = mirror'
    BY DEF Inv, TypeOK, MovedWhole, Content
  <2>3. ASSUME NEW r \in Requests, RenameData(r), mirror' # mirror PROVE Promise!Next
    <3>1. Target(r) \in Uploads
      BY <2>3, HasUpload DEF RenameData, Inv, At
    <3>2. mirror' = [mirror EXCEPT ![Dest[Target(r)]] = Target(r)]
      BY <2>3 DEF RenameData
    <3>3. QED
      BY <2>1, <2>2, <3>1, <3>2 DEF Promise!Next, Promise!Put
  <2>4. CASE mirror' = mirror
    BY <2>1, <2>2, <2>4
  <2>5. CASE mirror' # mirror
    <3>1. (\E r \in Requests : RenameData(r)) \/ (\E p \in HeadPaths : RemoveHead(p))
      BY <2>5 DEF Next, vars, PatchStep, Create, CreateCutShort, Send, Drop, GetUpload,
                  CheckOffset, OpenData, AppendChunk, DataLen, CheckLength, RemoveMeta,
                  RemoveDir, VerifySize, GetForDelete, DeleteUpload
    <3>2. ASSUME NEW p \in HeadPaths, RemoveHead(p) PROVE Promise!Next
      <4>1. mirror' = [mirror EXCEPT ![p] = None]
        BY <3>2 DEF RemoveHead
      <4>2. QED
        BY <2>1, <2>2, <4>1 DEF Promise!Next, Promise!Remove
    <3>3. QED
      BY <2>3, <2>5, <3>1, <3>2
  <2>6. QED
    BY <2>4, <2>5
<1>3. QED
  BY InvHolds, <1>1, <1>2, PTL DEF Spec, UploadIsAtomic, Promise!Spec
===============================================================================
