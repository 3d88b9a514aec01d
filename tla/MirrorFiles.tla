----------------------------- MODULE MirrorFiles ------------------------------
(***************************************************************************)
(* What the upload service promises the rest of the system: the mirror is a *)
(* map from paths to whole files, and an upload puts one whole file at its  *)
(* path in one step.  Only head markers are ever removed.                   *)
(***************************************************************************)
CONSTANTS
    Paths,      \* the paths of the mirror
    HeadPaths,  \* those of head markers
    Files,      \* the whole files clients upload
    PathOf,     \* the path each file is for
    Nothing     \* no file

VARIABLE store

Init == store = [p \in Paths |-> Nothing]

Put(f) == store' = [store EXCEPT ![PathOf[f]] = f]

Remove(p) == store' = [store EXCEPT ![p] = Nothing]

Next ==
    \/ \E f \in Files : Put(f)
    \/ \E p \in HeadPaths : Remove(p)

Spec == Init /\ [][Next]_store
===============================================================================
