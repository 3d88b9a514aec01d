----------------------------- MODULE SharedHistory -----------------------------
(***************************************************************************)
(* What a dojo promises the machines that share it, without rounds, files   *)
(* or locks: one history of operations that only grows.  Operations are     *)
(* written somewhere, written operations come to be shared, and shared ones *)
(* are published for everyone; nothing shared or published is taken back.   *)
(***************************************************************************)
CONSTANT Ops

VARIABLES
    written,   \* operations that some machine or the server has written
    shared,    \* those the dojo's server can be reached by
    published  \* those its manifest tells everyone of

Init ==
    /\ written \in SUBSET Ops
    /\ shared = written
    /\ published = written

Write ==
    /\ \E o \in Ops \ written : written' = written \cup {o}
    /\ UNCHANGED <<shared, published>>

Share ==
    /\ \E new \in SUBSET written : shared' = shared \cup new
    /\ UNCHANGED <<written, published>>

Publish ==
    /\ \E new \in SUBSET shared : published' = published \cup new
    /\ UNCHANGED <<written, shared>>

Next == Write \/ Share \/ Publish

Spec == Init /\ [][Next]_<<written, shared, published>>
================================================================================
