-------------------------------- MODULE Feed --------------------------------
(***************************************************************************)
(* The stored recommendations of one scan of one user: the curates that    *)
(* replace them, the likes and blocks that prune them, the readers that    *)
(* cache them under the scan's recompute_generation, and the cooldown of   *)
(* the recompute endpoint.  The database is PostgreSQL under READ          *)
(* COMMITTED: a statement sees what was committed when it started, waits   *)
(* for the rows that another transaction has deleted, and does not see the *)
(* rows which that transaction has put in their place.                     *)
(*                                                                         *)
(* What a curate scores is taken from module Curation; here it is the      *)
(* known items whose band is not dismissed.                                *)
(***************************************************************************)
EXTENDS Naturals, FiniteSets

CONSTANTS
  Items,        \* albums and tracks the crawl may reveal
  Bands,        \* their bands (an item without one counts as a band of its own)
  BandOf,       \* the band of each item
  Curates,      \* one element per call of curate()
  ApiCurates,   \* those that POST /recommendations/recompute makes
  Readers,      \* clients, each with a cached response of /recommendations or /facets
  MaxChanges    \* bound: likes, blocks and their withdrawals

ASSUME FeedAssumption ==
  /\ BandOf \in [Items -> Bands]
  /\ ApiCurates \subseteq Curates
  /\ MaxChanges \in Nat

VARIABLES
  graph,      \* items the scan's neighbours are known to own
  dismissed,  \* bands with a like, or an active and unexpired blacklist row
  rows,       \* committed rows of recommendations: an item and the curate that stored it
  generation, \* scans.recompute_generation
  pc,         \* where each curate is
  base,       \* the generation it loaded with the scan
  scored,     \* the items it is going to store
  target,     \* the rows that its DELETE found
  dismissal,  \* bands with a like or block under way
  found,      \* the rows that the dismissal's DELETE found
  changes,    \* likes, blocks and withdrawals so far
  reading,    \* where each reader's request is
  tag,        \* the generation the request read
  facet,      \* the rows a facet request has used for its first half
  cache,      \* the response the reader keeps
  mark,       \* _last_recompute_at of the user is there and younger than the cooldown
  window,     \* calls let through, and not refused, in the cooldown under way (history)
  restored,   \* a call was refused after its cooldown, over another call's mark (history)
  overlapped, \* curates under way while the feed changed (history)
  raced,      \* the last store was one of them, or a dismissal was under way (history)
  overwritten \* some store overwrote a generation it had not read (history)

curateVars == <<pc, base, scored, target>>
dismissVars == <<dismissed, dismissal, found, changes>>
readVars == <<reading, tag, facet, cache>>
coolVars == <<mark, window, restored>>
vars == <<graph, rows, generation, curateVars, dismissVars, readVars, coolVars, overlapped,
          raced, overwritten>>

Row == Items \X Curates
Response == [tag : Nat, first : SUBSET Row, second : SUBSET Row]
NoResponse == [tag |-> 0, first |-> {}, second |-> {}]

\* The rows that a curate has deleted but not yet committed: others wait for them.
Held(c) == IF pc[c] = "storing" THEN target[c] ELSE {}

Running(c) == pc[c] \notin {"idle", "stored", "failed"}

Reading(c) == Running(c) /\ pc[c] # "accepted"

Locked(set, c) == \E d \in Curates \ {c} : set \cap Held(d) # {}

Init ==
  /\ graph = {} /\ dismissed = {} /\ rows = {} /\ generation = 0
  /\ pc = [c \in Curates |-> "idle"]
  /\ base = [c \in Curates |-> 0]
  /\ scored = [c \in Curates |-> {}]
  /\ target = [c \in Curates |-> {}]
  /\ dismissal = {}
  /\ found = [b \in Bands |-> {}]
  /\ changes = 0
  /\ reading = [r \in Readers |-> "idle"]
  /\ tag = [r \in Readers |-> 0]
  /\ facet = [r \in Readers |-> {}]
  /\ cache = [r \in Readers |-> NoResponse]
  /\ mark = FALSE /\ window = {} /\ restored = FALSE
  /\ overlapped = {} /\ raced = FALSE /\ overwritten = FALSE

-----------------------------------------------------------------------------
(* A curate.                                                               *)

\* Mutant: the mark is not looked at.
AnyTime == TRUE

\* Nothing younger than the cooldown is on record.
CooledDown == ~mark

\* recompute() lets a call through, or answers 429 and leaves everything as it is.  The mark is
\* set before the curate starts.
Accept(c) ==
  /\ c \in ApiCurates /\ pc[c] = "idle"
  /\ CooledDown
  /\ mark' = TRUE
  /\ window' = window \cup {c}
  /\ pc' = [pc EXCEPT ![c] = "accepted"]
  /\ UNCHANGED <<restored, graph, rows, generation, base, scored, target, dismissVars, readVars,
                 overlapped, raced, overwritten>>

\* A ValueError puts back the mark that was there before, which no longer stops anybody.  A call
\* that has waited for its first lookups beyond the cooldown takes away another call's mark.
Refuse(c) ==
  /\ pc[c] = "accepted"
  /\ mark' = FALSE
  /\ window' = window \ {c}
  /\ restored' = (restored \/ c \notin window)
  /\ pc' = [pc EXCEPT ![c] = "failed"]
  /\ UNCHANGED <<graph, rows, generation, base, scored, target, dismissVars, readVars,
                 overlapped, raced, overwritten>>

\* The mark comes of age.
CoolDown ==
  /\ mark
  /\ mark' = FALSE /\ window' = {}
  /\ UNCHANGED <<restored, graph, rows, generation, curateVars, dismissVars, readVars, overlapped, raced,
                 overwritten>>

\* curate() loads the scan's row, its generation included.
Load(c) ==
  /\ pc[c] = IF c \in ApiCurates THEN "accepted" ELSE "idle"
  /\ base' = [base EXCEPT ![c] = generation]
  /\ pc' = [pc EXCEPT ![c] = "loaded"]
  /\ UNCHANGED <<graph, rows, generation, scored, target, dismissVars, readVars, coolVars,
                 overlapped, raced, overwritten>>

\* Mutant: the exclusions are forgotten.
Everything == graph

Recommendable == {i \in graph : BandOf[i] \notin dismissed}

\* compute_recommendations reads the exclusions, then scores the rest of the graph.
Score(c) ==
  /\ pc[c] = "loaded"
  /\ scored' = [scored EXCEPT ![c] = Recommendable]
  /\ pc' = [pc EXCEPT ![c] = "scored"]
  /\ UNCHANGED <<graph, rows, generation, base, target, dismissVars, readVars, coolVars,
                 overlapped, raced, overwritten>>

\* Mutant: a curate deletes only the rows it has something new for.
Upserted(c) == {row \in rows : row[1] \in scored[c]}

\* What store_recommendations deletes: all of the scan.
Replaced(c) == rows

\* The DELETE of store_recommendations starts: these are the rows it will ever see.
StartDelete(c) ==
  /\ pc[c] = "scored"
  /\ target' = [target EXCEPT ![c] = Replaced(c)]
  /\ pc' = [pc EXCEPT ![c] = "deleting"]
  /\ UNCHANGED <<graph, rows, generation, base, scored, dismissVars, readVars, coolVars,
                 overlapped, raced, overwritten>>

\* The DELETE ends once nobody else holds one of its rows.
FinishDelete(c) ==
  /\ pc[c] = "deleting"
  /\ ~Locked(target[c], c)
  /\ pc' = [pc EXCEPT ![c] = "storing"]
  /\ UNCHANGED <<graph, rows, generation, base, scored, target, dismissVars, readVars, coolVars,
                 overlapped, raced, overwritten>>

\* Its transaction is over; what it read is gone with its session.
End(c, how) ==
  /\ pc' = [pc EXCEPT ![c] = how]
  /\ base' = [base EXCEPT ![c] = 0]
  /\ target' = [target EXCEPT ![c] = {}]

\* What the INSERTs of a curate collide with: rows of the same items which its DELETE did not see.
Collision(c) == {r \in rows \ target[c] : r[1] \in scored[c]}

NextGeneration(c) == base[c] + 1

\* The INSERTs, the new generation and the commit.
Store(c) ==
  /\ pc[c] = "storing" /\ Collision(c) = {}
  /\ rows' = (rows \ target[c]) \cup (scored[c] \X {c})
  /\ generation' = NextGeneration(c)
  /\ End(c, "stored")
  /\ raced' = (c \in overlapped \/ dismissal # {})
  /\ overlapped' = overlapped \cup {d \in Curates \ {c} : Reading(d)}
  /\ overwritten' = (overwritten \/ base[c] # generation)
  /\ UNCHANGED <<graph, scored, dismissVars, readVars, coolVars>>

\* The unique index of recommendations refuses a row: the transaction is rolled back.  That is no
\* ValueError, so a recompute keeps its mark.
Collide(c) ==
  /\ pc[c] = "storing" /\ Collision(c) # {}
  /\ End(c, "failed")
  /\ UNCHANGED <<graph, rows, generation, scored, dismissVars, readVars, coolVars,
                 overlapped, raced, overwritten>>

\* The API's process is replaced: its transactions are rolled back and the marks forgotten.
Restart ==
  /\ LET lost == {c \in ApiCurates : Running(c)}
     IN /\ pc' = [c \in Curates |-> IF c \in lost THEN "failed" ELSE pc[c]]
        /\ base' = [c \in Curates |-> IF c \in lost THEN 0 ELSE base[c]]
        /\ target' = [c \in Curates |-> IF c \in lost THEN {} ELSE target[c]]
  /\ dismissal' = {}
  /\ found' = [b \in Bands |-> {}]
  /\ mark' = FALSE /\ window' = {}
  /\ UNCHANGED <<restored, graph, rows, generation, scored, dismissed, changes, readVars,
                 overlapped, raced, overwritten>>

Curate(c) == Load(c) \/ Score(c) \/ StartDelete(c) \/ FinishDelete(c) \/ Store(c) \/ Collide(c)

-----------------------------------------------------------------------------
(* Likes, blocks and their withdrawal.                                     *)

\* Mutant: a like prunes the whole feed.
PrunedAll(b) == rows

Pruned(b) == {r \in rows : BandOf[r[1]] = b}

\* The like is inserted, or the blacklist row inserted or made active again, and the DELETE of the
\* band's rows starts.
Dismiss(b) ==
  /\ b \notin dismissal /\ changes < MaxChanges
  /\ dismissal' = dismissal \cup {b}
  /\ found' = [found EXCEPT ![b] = Pruned(b)]
  /\ changes' = changes + 1
  /\ UNCHANGED <<graph, rows, generation, dismissed, curateVars, readVars, coolVars, overlapped,
                 raced, overwritten>>

Like(b) == Dismiss(b)

Block(b) == Dismiss(b)

\* The DELETE has its rows, bump_generations raises the generation in place, and all is committed.
Dismissing(b) ==
  /\ b \in dismissal
  /\ \A c \in Curates : found[b] \cap Held(c) = {}
  /\ rows' = rows \ found[b]
  /\ generation' = generation + 1
  /\ dismissed' = dismissed \cup {b}
  /\ dismissal' = dismissal \ {b}
  /\ found' = [found EXCEPT ![b] = {}]
  /\ overlapped' = overlapped \cup {c \in Curates : Reading(c)}
  /\ UNCHANGED <<graph, changes, curateVars, readVars, coolVars, raced, overwritten>>

\* The generation is raised, and the next curate may bring the band back unless it is dismissed
\* in another way, too.
Withdraw(b) ==
  /\ b \in dismissed /\ changes < MaxChanges
  /\ dismissed' \in {dismissed, dismissed \ {b}}
  /\ generation' = generation + 1
  /\ changes' = changes + 1
  /\ UNCHANGED <<graph, rows, dismissal, found, curateVars, readVars, coolVars, overlapped,
                 raced, overwritten>>

Unlike(b) == Withdraw(b)

Unblock(b) == Withdraw(b)

\* A block with expires_at stops counting; nobody writes anything.
Expire(b) ==
  /\ b \in dismissed /\ changes < MaxChanges
  /\ dismissed' = dismissed \ {b}
  /\ changes' = changes + 1
  /\ UNCHANGED <<graph, rows, generation, dismissal, found, curateVars, readVars, coolVars,
                 overlapped, raced, overwritten>>

-----------------------------------------------------------------------------
(* Readers and the crawl.                                                  *)

\* A conditional GET reads the generation first; 304 if the cached tag is the same, which changes
\* nothing, else the rows are read by later statements.
ReadTag(r) ==
  /\ reading[r] = "idle" /\ cache[r].tag # generation
  /\ tag' = [tag EXCEPT ![r] = generation]
  /\ reading' = [reading EXCEPT ![r] = "tagged"]
  /\ UNCHANGED <<graph, rows, generation, facet, cache, curateVars, dismissVars, coolVars,
                 overlapped, raced, overwritten>>

\* Mutant: the generation is read again for the response.
AnswerAnew(r, first, second) ==
  /\ cache' = [cache EXCEPT ![r] = [tag |-> generation, first |-> first, second |-> second]]
  /\ reading' = [reading EXCEPT ![r] = "idle"]
  /\ tag' = [tag EXCEPT ![r] = 0]
  /\ facet' = [facet EXCEPT ![r] = {}]

Answer(r, first, second) ==
  /\ cache' = [cache EXCEPT ![r] = [tag |-> tag[r], first |-> first, second |-> second]]
  /\ reading' = [reading EXCEPT ![r] = "idle"]
  /\ tag' = [tag EXCEPT ![r] = 0]
  /\ facet' = [facet EXCEPT ![r] = {}]

\* recommendations(): one statement, the response goes out under the tag read before.
ReadRows(r) ==
  /\ reading[r] = "tagged"
  /\ Answer(r, rows, rows)
  /\ UNCHANGED <<graph, rows, generation, curateVars, dismissVars, coolVars,
                 overlapped, raced, overwritten>>

\* facets(): the tags are counted by one statement, the labels by the next.
ReadTagFacet(r) ==
  /\ reading[r] = "tagged"
  /\ facet' = [facet EXCEPT ![r] = rows]
  /\ reading' = [reading EXCEPT ![r] = "half"]
  /\ UNCHANGED <<graph, rows, generation, tag, cache, curateVars, dismissVars, coolVars,
                 overlapped, raced, overwritten>>

ReadLabelFacet(r) ==
  /\ reading[r] = "half"
  /\ Answer(r, facet[r], rows)
  /\ UNCHANGED <<graph, rows, generation, curateVars, dismissVars, coolVars,
                 overlapped, raced, overwritten>>

Read(r) == ReadTag(r) \/ ReadRows(r) \/ ReadTagFacet(r) \/ ReadLabelFacet(r)

\* The crawl goes on meanwhile.
Discover(i) ==
  /\ graph' = graph \cup {i} /\ i \notin graph
  /\ UNCHANGED <<rows, generation, curateVars, dismissVars, readVars, coolVars, overlapped,
                 raced, overwritten>>

Next ==
  \/ \E c \in Curates : Accept(c) \/ Refuse(c) \/ Curate(c)
  \/ Restart
  \/ \E b \in Bands : \/ Like(b) \/ Block(b) \/ Dismissing(b)
                      \/ Unlike(b) \/ Unblock(b) \/ Expire(b)
  \/ \E r \in Readers : Read(r)
  \/ \E i \in Items : Discover(i)
  \/ CoolDown

Spec == Init /\ [][Next]_vars

-----------------------------------------------------------------------------
(* Properties.                                                             *)

\* The types, and that every pruning transaction prunes rows of its own band.
TypeOK ==
  /\ graph \subseteq Items /\ dismissed \subseteq Bands
  /\ rows \subseteq Row /\ generation \in Nat
  /\ pc \in [Curates -> {"idle", "accepted", "loaded", "scored", "deleting", "storing",
                         "stored", "failed"}]
  /\ base \in [Curates -> Nat]
  /\ scored \in [Curates -> SUBSET Items]
  /\ target \in [Curates -> SUBSET Row]
  /\ dismissal \subseteq Bands
  /\ found \in [Bands -> SUBSET Row]
  /\ \A b \in Bands : \A row \in found[b] : BandOf[row[1]] = b
  /\ changes \in Nat
  /\ reading \in [Readers -> {"idle", "tagged", "half"}]
  /\ tag \in [Readers -> Nat]
  /\ facet \in [Readers -> SUBSET Row]
  /\ cache \in [Readers -> Response]
  /\ mark \in BOOLEAN /\ window \subseteq ApiCurates /\ restored \in BOOLEAN
  /\ overlapped \subseteq Curates /\ raced \in BOOLEAN /\ overwritten \in BOOLEAN

\* A reader who is told 304 has the rows of the table: unless some curate stored while another
\* change had raised the generation it started from, a response cached under the present
\* generation shows the present rows in both of its halves.
TagIsTruthful ==
  \A r \in Readers :
    ~overwritten /\ cache[r].tag = generation => cache[r].first = rows /\ cache[r].second = rows

\* The feed is what one curate computed, less what was dismissed since.  A store that overlaps
\* another change may spoil it; the next store that does not puts it right again.
FeedIsOneRanking ==
  ~raced => /\ \A p, q \in rows : p[2] = q[2]
            /\ \A row \in rows : row[1] \in scored[row[2]]

\* A liked or blocked band is not in the feed, whichever curates ran before or since, unless the
\* last store overlapped the dismissal.
DismissedStayOut ==
  ~raced => \A row \in rows : BandOf[row[1]] \notin dismissed

\* However calls come, are refused or fail, one process lets at most one of them through and
\* goes on with it per cooldown; unless some call was refused only after its own cooldown.
CooldownHonoured == restored \/ \A c, d \in window : c = d
=============================================================================
