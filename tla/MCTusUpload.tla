------------------------------ MODULE MCTusUpload -----------------------------
(* Instances of TusUpload for TLC: two uploads for one path, one for another, *)
(* which is that of a head marker: an empty file.                              *)
EXTENDS TusUpload, TLC

CONSTANTS u1, u2, u3, a, b

TwoToOnePath == u1 :> a @@ u2 :> a @@ u3 :> b
SomeSizes == u1 :> 2 @@ u2 :> 1 @@ u3 :> 0
===============================================================================
