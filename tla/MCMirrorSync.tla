----------------------------- MODULE MCMirrorSync -----------------------------
(* Instances of MirrorSync for TLC: two machines, one process on each.        *)
EXTENDS MirrorSyncInv, TLC

CONSTANTS r1, r2, p1, p2

OwnHome == p1 :> r1 @@ p2 :> r2

\* One machine for the other, replica and process together.
Symmetry == {f \in Permutations({r1, r2, p1, p2}) :
               \A p \in {p1, p2} : f[p] \in {p1, p2} /\ OwnHome[f[p]] = f[OwnHome[p]]}
===============================================================================
