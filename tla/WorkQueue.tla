------------------------------ MODULE WorkQueue ------------------------------
(* What a crawl frontier promises to the crawl, whatever table and whatever    *)
(* races lie beneath: items are added, an item is in the hands of at most one  *)
(* worker, the worker that has it either puts it back or settles it, what is   *)
(* settled stays settled, and the workers may lose what they hold all at once. *)
EXTENDS FiniteSets

CONSTANTS
    Items,
    Workers,
    Initial,    \* the items it starts with
    None        \* what an empty hand holds, not an item

VARIABLES
    added,      \* items ever put on the queue
    settled,    \* items finished for good
    hand        \* the item each worker holds, or None

queueVars == <<added, settled, hand>>

Free == {i \in added \ settled : \A w \in Workers : hand[w] # i}

Init ==
    /\ added = Initial
    /\ settled = {}
    /\ hand = [w \in Workers |-> None]

Take(w) ==
    /\ hand[w] = None
    /\ \E i \in Free : hand' = [hand EXCEPT ![w] = i]
    /\ UNCHANGED <<added, settled>>

\* Only a worker holding an item discovers others.
Add(w) ==
    /\ hand[w] # None
    /\ added' \in SUBSET Items
    /\ added \subseteq added'
    /\ UNCHANGED <<settled, hand>>

PutBack(w) ==
    /\ hand[w] # None
    /\ hand' = [hand EXCEPT ![w] = None]
    /\ UNCHANGED <<added, settled>>

Settle(w) ==
    /\ hand[w] # None
    /\ settled' = settled \cup {hand[w]}
    /\ hand' = [hand EXCEPT ![w] = None]
    /\ UNCHANGED added

LoseAll ==
    /\ hand' = [w \in Workers |-> None]
    /\ UNCHANGED <<added, settled>>

Next == LoseAll \/ \E w \in Workers : Take(w) \/ Add(w) \/ PutBack(w) \/ Settle(w)

Spec == Init /\ [][Next]_queueVars

==============================================================================
