------------------------------- MODULE MCFeed --------------------------------
(* A small instance of Feed: two items of a band each.                          *)
EXTENDS Feed, TLC

CONSTANTS i, j, one, other, call1, call2, r

MCBandOf == (i :> one) @@ (j :> other)

\* The bands trade places, and the recomputes do.
Trade == (i :> j) @@ (j :> i) @@ (one :> other) @@ (other :> one)
Calls == Permutations({call1, call2})
Symmetry == Calls \cup {Trade @@ p : p \in Calls}
==============================================================================
