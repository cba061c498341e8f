------------------------------- MODULE Reading -------------------------------
(* What the crawl promises of entries that take many visits to read, however    *)
(* the visits are cut short: the units of an entry are committed one by one,    *)
(* each with the bookmark that names it; the next one to be committed is always *)
(* the one after the bookmark, which stands at 0 before the first unit and      *)
(* again after the last, and which moves one on unless the provider itself ends *)
(* the entry or goes back in it; and an entry is closed, for good, only when    *)
(* all of it has been read.                                                     *)
EXTENDS Naturals

CONSTANTS
    Entries,
    Units       \* how many units each entry has

VARIABLES
    state,      \* of an entry: "open", "done" or "error"
    bookmark,   \* the unit from which the reading goes on
    read,       \* the units that are committed
    ended       \* entries that the provider ended early

readingVars == <<state, bookmark, read, ended>>

Init ==
    /\ state = [e \in Entries |-> "open"]
    /\ bookmark = [e \in Entries |-> 0]
    /\ read = [e \in Entries |-> {}]
    /\ ended = {}

Commit(e) ==
    /\ state[e] = "open"
    /\ LET n == bookmark[e] + 1
       IN  /\ read' = [read EXCEPT ![e] = @ \cup {n}]
           /\ \/ /\ bookmark' = [bookmark EXCEPT ![e] = IF n < Units[e] THEN n ELSE 0]
                 /\ ended' = ended
              \/ /\ n < Units[e]
                 /\ \E b \in 1..(n - 2) : bookmark' = [bookmark EXCEPT ![e] = b]
                 /\ ended' = ended
              \/ /\ n < Units[e]
                 /\ bookmark' = [bookmark EXCEPT ![e] = 0]
                 /\ ended' = ended \cup {e}
    /\ UNCHANGED state

Close(e) ==
    /\ state[e] = "open" /\ bookmark[e] = 0
    /\ e \in ended \/ read[e] = 1..Units[e]
    /\ state' = [state EXCEPT ![e] = "done"]
    /\ UNCHANGED <<bookmark, read, ended>>

GiveUp(e) ==
    /\ state[e] = "open"
    /\ state' = [state EXCEPT ![e] = "error"]
    /\ UNCHANGED <<bookmark, read, ended>>

Next == \E e \in Entries : Commit(e) \/ Close(e) \/ GiveUp(e)

Spec == Init /\ [][Next]_readingVars

==============================================================================
