------------------------------ MODULE GraphStore -------------------------------
(* What the mapper promises of the graph, whatever its transactions have in     *)
(* common and however they end: pages land one at a time, each as a whole; a    *)
(* page that lands makes all the rows it mentions known, takes nothing that is  *)
(* known away, and adds nothing that it does not tell.                          *)
CONSTANTS
  Pages,
  Keys,
  Facts,    \* what there can be to know of a row
  Tells,    \* the facts a page tells of each row
  Before    \* the pages that must have landed before it

VARIABLES
  known,    \* the facts known of each row
  landed    \* the pages that landed

storeVars == <<known, landed>>

Init ==
  /\ known = [k \in Keys |-> {}]
  /\ landed = {}

\* Some facts may go unsaid: a page that finds a row in the hands of another leaves it as it is.
Land(p) ==
  /\ Before[p] \subseteq landed
  /\ landed' = landed \cup {p}
  /\ known' \in [Keys -> SUBSET Facts]
  /\ \A k \in Keys :
       /\ known[k] \subseteq known'[k]
       /\ known'[k] \subseteq known[k] \cup Tells[p][k]
       /\ Tells[p][k] # {} => known'[k] # {}

Next == \E p \in Pages : Land(p)

Spec == Init /\ [][Next]_storeVars
================================================================================
