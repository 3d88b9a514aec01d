------------------------------ MODULE TusUpload -------------------------------
(***************************************************************************)
(* Uploads of one dojo: the TUS requests of sync-server, each a handler     *)
(* that awaits file operations one by one (tus-server/src/handler.rs over   *)
(* sync-server/src/dojo_tus_store.rs).  An upload is a staging directory    *)
(* `tus/<id>/` with `meta` and `data`; a PATCH appends to data and, when    *)
(* all the declared bytes are there, renames it to its path in `mirror/`.   *)
(* Every request makes a store of its own, so the store's lock keeps two    *)
(* requests apart only if nothing else does: it is not in the model.        *)
(*                                                                          *)
(* Of a data file the model keeps its length and whether its bytes are      *)
(* those of the body in order: an append whose chunk was meant for another  *)
(* offset spoils it.  The file is an inode: a handler that has it open      *)
(* writes to it wherever it has been moved since.                           *)
(***************************************************************************)
EXTENDS Naturals, FiniteSets

CONSTANTS
    Uploads,     \* upload ids, each used once
    Requests,    \* requests under way at a time
    Paths,       \* mirror paths
    HeadPaths,   \* those of head markers (op_heads/heads, store/extra/heads)
    None,        \* no upload
    Torn,        \* what a reader gets that gets no whole file
    Dest,        \* the path each upload declares (jj_rel_path)
    Size,        \* the length each upload declares
    MaxSize,     \* bound: offsets and chunks of requests
    MaxFailures, \* bound: requests cut short
    Resends      \* whether a request may come for an upload while the server
                 \* still works on an earlier one

ASSUME UploadAssumption ==
    /\ Dest \in [Uploads -> Paths]
    /\ Size \in [Uploads -> Nat]
    /\ HeadPaths \subseteq Paths
    /\ MaxSize \in Nat
    /\ MaxFailures \in Nat
    /\ Resends \in BOOLEAN
    /\ None \notin Uploads /\ Torn \notin Uploads /\ None # Torn

VARIABLES
    file,       \* the data file of each upload
    meta,       \* the uploads whose staging directory has its meta file
    staging,    \* the uploads that have a staging directory
    mirror,     \* the upload whose data file is at each path of the mirror
    req,        \* the requests under way
    delivered,  \* the uploads a client was told are complete
    failures    \* requests cut short so far

vars == <<file, meta, staging, mirror, req, delivered, failures>>

Phases == {"idle", "get", "check", "open", "append", "stat", "finalize",
           "rename", "unmeta", "rmdir", "verify", "delete_get", "delete"}
NoRequest == [pc |-> "idle", upload |-> None, offset |-> 0, count |-> 0]
NoFile == [at |-> "none", len |-> 0, intact |-> TRUE]

Init ==
    /\ file = [u \in Uploads |-> NoFile]
    /\ meta = {}
    /\ staging = {}
    /\ mirror = [p \in Paths |-> None]
    /\ req = [r \in Requests |-> NoRequest]
    /\ delivered = {}
    /\ failures = 0

(***************************************************************************)
(* Helpers.                                                                 *)
(***************************************************************************)
GoTo(r, phase) == req' = [req EXCEPT ![r].pc = phase]

\* Mutant of Answer: a request that is over still holds its upload.
AnswerKeepsUpload(r) == req' = [req EXCEPT ![r].pc = "idle"]

\* The request is answered, with an error where nothing else changes.
Answer(r) == req' = [req EXCEPT ![r] = NoRequest]

At(r, phase) == req[r].pc = phase
Target(r) == req[r].upload
End(r) == req[r].offset + req[r].count
Staged(u) == file[u].at = "staged"
Whole(u) == file[u].intact /\ file[u].len = Size[u]

\* A handler goes on to its next step, or ends with an error.
Proceed(r, ok, phase) == IF ok THEN GoTo(r, phase) ELSE Answer(r)

Fails == failures < MaxFailures /\ failures' = failures + 1

(***************************************************************************)
(* Clients.                                                                 *)
(***************************************************************************)
Waiting(u) == \E r \in Requests : Target(r) = u

\* POST: a fresh id, its directory, its meta and its empty data file.
Create(u) ==
    /\ u \notin staging
    /\ file[u].at = "none"
    /\ file' = [file EXCEPT ![u].at = "staged"]
    /\ meta' = meta \cup {u}
    /\ staging' = staging \cup {u}
    /\ UNCHANGED <<mirror, req, delivered, failures>>

\* A POST cut short leaves a directory nobody learns the id of.
CreateCutShort(u) ==
    /\ u \notin staging
    /\ file[u].at = "none"
    /\ Fails
    /\ staging' = staging \cup {u}
    /\ meta' \in {meta, meta \cup {u}}
    /\ UNCHANGED <<file, mirror, req, delivered>>

Send(r, u, phase, offset, count) ==
    /\ At(r, "idle")
    /\ file[u].at # "none"
    /\ Resends \/ ~Waiting(u)
    /\ req' = [req EXCEPT ![r] = [pc |-> phase, upload |-> u,
                                  offset |-> offset, count |-> count]]
    /\ UNCHANGED <<file, meta, staging, mirror, delivered, failures>>

\* The data files once n bytes of the chunk of r are appended.
Appended(r, n) ==
    LET u == Target(r)
    IN  [file EXCEPT ![u].len = @ + n,
                     ![u].intact = @ /\ (n > 0 => file[u].len = req[r].offset)]

\* The connection is lost, or the server stops: a handler stops between two
\* file operations, or the server in the middle of an append.
Drop(r) ==
    /\ ~At(r, "idle")
    /\ Fails
    /\ Answer(r)
    /\ file' \in IF At(r, "append")
                 THEN {Appended(r, n) : n \in 0 .. req[r].count} ELSE {file}
    /\ UNCHANGED <<meta, staging, mirror, delivered>>

(***************************************************************************)
(* PATCH: handle_patch with get_upload and write_chunk.                     *)
(***************************************************************************)

\* The upload is there, the offset is where its data ends, and the chunk
\* does not go past the declared length.
GetUpload(r) ==
    LET u == Target(r)
    IN  /\ At(r, "get")
        /\ Proceed(r, /\ u \in meta /\ Staged(u)
                      /\ file[u].len = req[r].offset
                      /\ End(r) <= Size[u], "check")
        /\ UNCHANGED <<file, meta, staging, mirror, delivered, failures>>

\* write_chunk asserts the same again.
CheckOffset(r) ==
    LET u == Target(r)
    IN  /\ At(r, "check")
        /\ Proceed(r, /\ u \in meta /\ Staged(u)
                      /\ file[u].len = req[r].offset
                      /\ End(r) <= Size[u], "open")
        /\ UNCHANGED <<file, meta, staging, mirror, delivered, failures>>

OpenData(r) ==
    /\ At(r, "open")
    /\ Proceed(r, Staged(Target(r)), "append")
    /\ UNCHANGED <<file, meta, staging, mirror, delivered, failures>>

AppendChunk(r) ==
    /\ At(r, "append")
    /\ file' = Appended(r, req[r].count)
    /\ GoTo(r, "stat")
    /\ UNCHANGED <<meta, staging, mirror, delivered, failures>>

\* Mutant of DataLen: whatever has arrived goes to the mirror.
FinalizeEveryChunk(r) ==
    /\ At(r, "stat")
    /\ Proceed(r, Staged(Target(r)), "rename")
    /\ UNCHANGED <<file, meta, staging, mirror, delivered, failures>>

\* Mutant of DataLen: the upload is reported complete and left in staging.
ForgetFinalize(r) ==
    /\ At(r, "stat")
    /\ Answer(r)
    /\ delivered' = IF Whole(Target(r)) THEN delivered \cup {Target(r)} ELSE delivered
    /\ UNCHANGED <<file, meta, staging, mirror, failures>>

\* The data must now end where the chunk ends; if that is the declared
\* length the upload is finalized, else the chunk is acknowledged.
DataLen(r) ==
    LET u == Target(r)
    IN  /\ At(r, "stat")
        /\ Proceed(r, /\ Staged(u)
                      /\ file[u].len = End(r)
                      /\ End(r) = Size[u], "finalize")
        /\ UNCHANGED <<file, meta, staging, mirror, delivered, failures>>

(***************************************************************************)
(* finalize_into_mirror.                                                    *)
(***************************************************************************)
CheckLength(r) ==
    LET u == Target(r)
    IN  /\ At(r, "finalize")
        /\ Proceed(r, u \in meta /\ Staged(u) /\ file[u].len = Size[u], "rename")
        /\ UNCHANGED <<file, meta, staging, mirror, delivered, failures>>

\* Where each file is once the data file of u replaces the one at its path.
Moved(u) ==
    [v \in Uploads |->
        IF v = u THEN [file[v] EXCEPT !.at = "mirror"]
        ELSE IF v = mirror[Dest[u]] THEN [file[v] EXCEPT !.at = "gone"]
        ELSE file[v]]

\* Mutant of RenameData: the file at the path is removed first.
UnlinkThenRename(r) ==
    LET u == Target(r)
        old == mirror[Dest[u]]
    IN  /\ At(r, "rename")
        /\ IF Staged(u) /\ old = None
           THEN /\ mirror' = [mirror EXCEPT ![Dest[u]] = u]
                /\ file' = Moved(u)
                /\ GoTo(r, "unmeta")
           ELSE IF Staged(u)
           THEN /\ mirror' = [mirror EXCEPT ![Dest[u]] = None]
                /\ file' = [file EXCEPT ![old].at = "gone"]
                /\ UNCHANGED req
           ELSE Answer(r) /\ UNCHANGED <<mirror, file>>
        /\ UNCHANGED <<meta, staging, delivered, failures>>

\* rename(2) replaces what was at the path.
RenameData(r) ==
    LET u == Target(r)
    IN  /\ At(r, "rename")
        /\ IF Staged(u)
           THEN /\ mirror' = [mirror EXCEPT ![Dest[u]] = u]
                /\ file' = Moved(u)
                /\ GoTo(r, "unmeta")
           ELSE Answer(r) /\ UNCHANGED <<mirror, file>>
        /\ UNCHANGED <<meta, staging, delivered, failures>>

RemoveMeta(r) ==
    /\ At(r, "unmeta")
    /\ Proceed(r, Target(r) \in meta, "rmdir")
    /\ meta' = meta \ {Target(r)}
    /\ UNCHANGED <<file, staging, mirror, delivered, failures>>

RemoveDir(r) ==
    /\ At(r, "rmdir")
    /\ Proceed(r, Target(r) \in staging, "verify")
    /\ staging' = staging \ {Target(r)}
    /\ UNCHANGED <<file, meta, mirror, delivered, failures>>

\* The file at the path must have the declared length (a head marker may be
\* gone by now, which is an error); then the client is told that the upload is
\* complete.
VerifySize(r) ==
    LET u == Target(r)
        there == mirror[Dest[u]]
    IN  /\ At(r, "verify")
        /\ Answer(r)
        /\ delivered' = IF there # None /\ file[there].len = Size[u]
                        THEN delivered \cup {u} ELSE delivered
        /\ UNCHANGED <<file, meta, staging, mirror, failures>>

(***************************************************************************)
(* DELETE.                                                                  *)
(***************************************************************************)
GetForDelete(r) ==
    LET u == Target(r)
    IN  /\ At(r, "delete_get")
        /\ Proceed(r, u \in meta /\ Staged(u) /\ file[u].len <= Size[u], "delete")
        /\ UNCHANGED <<file, meta, staging, mirror, delivered, failures>>

DeleteUpload(r) ==
    LET u == Target(r)
    IN  /\ At(r, "delete")
        /\ Answer(r)
        /\ meta' = meta \ {u}
        /\ staging' = staging \ {u}
        /\ file' = IF Staged(u) THEN [file EXCEPT ![u].at = "gone"] ELSE file
        /\ UNCHANGED <<mirror, delivered, failures>>

(***************************************************************************)
(* Normalization (MirrorSync has the whole of it): beside the requests of   *)
(* uploads it removes head markers from the mirror.                         *)
(***************************************************************************)
RemoveHead(p) ==
    /\ mirror[p] # None
    /\ mirror' = [mirror EXCEPT ![p] = None]
    /\ file' = [file EXCEPT ![mirror[p]].at = "gone"]
    /\ UNCHANGED <<meta, staging, req, delivered, failures>>

(***************************************************************************)
(* The specification.                                                       *)
(***************************************************************************)
PatchStep(r) ==
    \/ GetUpload(r) \/ CheckOffset(r) \/ OpenData(r) \/ AppendChunk(r) \/ DataLen(r)
    \/ CheckLength(r) \/ RenameData(r) \/ RemoveMeta(r) \/ RemoveDir(r) \/ VerifySize(r)

Next ==
    \/ \E u \in Uploads : Create(u) \/ CreateCutShort(u)
    \/ \E p \in HeadPaths : RemoveHead(p)
    \/ \E r \in Requests :
           \/ \E u \in Uploads :
                  \/ \E offset, count \in 0 .. MaxSize : Send(r, u, "get", offset, count)
                  \/ Send(r, u, "delete_get", 0, 0)
           \/ PatchStep(r)
           \/ GetForDelete(r) \/ DeleteUpload(r)
           \/ Drop(r)

Spec == Init /\ [][Next]_vars

(***************************************************************************)
(* Properties.                                                              *)
(***************************************************************************)

\* Every variable has its type, and the requests under way are those that have
\* an upload.
TypeOK ==
    /\ file \in [Uploads -> [at : {"none", "staged", "mirror", "gone"},
                             len : Nat, intact : BOOLEAN]]
    /\ meta \subseteq Uploads
    /\ staging \subseteq Uploads
    /\ mirror \in [Paths -> Uploads \cup {None}]
    /\ req \in [Requests -> [pc : Phases, upload : Uploads \cup {None},
                             offset : Nat, count : Nat]]
    /\ \A r \in Requests : At(r, "idle") <=> Target(r) = None
    /\ delivered \subseteq Uploads
    /\ failures \in 0 .. MaxFailures

\* Every file of the mirror is the whole body of an upload made for its path,
\* wherever requests are cut short and however those of different uploads
\* interleave.
MirrorWhole ==
    \A p \in Paths : mirror[p] # None => Dest[mirror[p]] = p /\ Whole(mirror[p])

\* A client that is told its upload is complete finds a whole file at its
\* path, from then on, unless it is a head marker, which normalization may
\* remove; and nothing of the upload is left in staging.
DeliveredForGood ==
    \A u \in delivered :
        /\ mirror[Dest[u]] # None \/ Dest[u] \in HeadPaths
        /\ u \notin staging /\ u \notin meta

\* What a reader of the mirror sees at a path.
Content == [p \in Paths |-> IF mirror[p] = None THEN None
                            ELSE IF Whole(mirror[p]) THEN mirror[p] ELSE Torn]

Promise == INSTANCE MirrorFiles WITH
    Files <- Uploads, PathOf <- Dest, Nothing <- None, store <- Content

\* To the rest of the system an upload is one step that puts a whole file at
\* its path, and no other file than a head marker ever goes.
UploadIsAtomic == Promise!Spec
===============================================================================
