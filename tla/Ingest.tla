-------------------------------- MODULE Ingest ---------------------------------
(***************************************************************************)
(* The graph of fans, bands, releases, tags and edges, written by workers  *)
(* of one or several slices whose pages overlap.  A page is one            *)
(* transaction: for everything it mentions the mapper looks for the row,   *)
(* and inserts it or fills in what it lacks.  What a page mentions, and in *)
(* which order, is module IngestPages.                                     *)
(*                                                                         *)
(* The database is PostgreSQL at READ COMMITTED: a SELECT sees what is     *)
(* committed and the transaction's own writes; who writes a row, or a      *)
(* unique key, that an open transaction has written waits for its end; of  *)
(* transactions that wait for each other one is made to fail.              *)
(*                                                                         *)
(* A fan's row has three unique columns, the Bandcamp id, the username and *)
(* the address.  It is one row however a page mentions the fan; but two    *)
(* fans may come under one name or address, if a name has changed hands.   *)
(***************************************************************************)
EXTENDS Naturals, Sequences

CONSTANTS
  Workers,   \* the workers of all slices
  Pages,     \* the pages there are to ingest
  Parsed,    \* what each mentions: a sequence of sightings
  After,     \* what a visit has committed before it comes to the page
  Keys,      \* the rows there can be
  Namesakes, \* per row: those of other fans under the same username or address
  None,      \* no row
  Retries,   \* _DB_RETRIES
  Visits     \* bound: visits of pages

\* What is known of a row: whether its descriptive columns are set, whether its Bandcamp id is,
\* and whether, as an edge of a fan to an item, it is a wish only.
Row == [full : BOOLEAN, id : BOOLEAN, wish : BOOLEAN]

\* How a page mentions a row: as the fan it is about, or otherwise; and what it tells of it.
Sighting == [kind : {"fan", "supporter", "node", "edge"}, key : Keys, row : Row]

ASSUME IngestAssumption ==
  /\ Pages # {} /\ Parsed \in [Pages -> Seq(Sighting)]
  /\ After \in [Pages -> SUBSET Pages]
  /\ None \notin Row
  /\ Namesakes \in [Keys -> SUBSET Keys]
  /\ Retries \in Nat \ {0} /\ Visits \in Nat

\* Namesakes come across as fans with pages of their own: a supporter, looked for by name, would
\* be taken for a namesake who is there already, which is left out.
ASSUME NamesakeAssumption ==
  \A p \in Pages : \A n \in DOMAIN Parsed[p] :
    Parsed[p][n].kind # "fan" => Namesakes[Parsed[p][n].key] = {}

\* A definition, which TLC evaluates once.
Content == Parsed

VARIABLES
  table,    \* the rows that are committed
  mine,     \* per worker: the rows its transaction has written
  pc,       \* per worker: what it does next
  page,     \* the page it ingests
  at,       \* its place in the page
  attempt,  \* _DB_RETRIES it has used
  visits,   \* visits that are left
  landed,   \* the pages that were committed (history)
  raced,    \* edges whose owner's sighting lost the race to a wish (history)
  refused   \* the rows on whose unique keys a page failed (history)

ghosts == <<landed, raced, refused>>
vars == <<table, mine, pc, page, at, attempt, visits, ghosts>>

Untouched == [k \in Keys |-> None]

\* Some page, while a worker has none.
NoPage == CHOOSE p \in Pages : TRUE

Init ==
  /\ table = Untouched
  /\ mine = [w \in Workers |-> Untouched]
  /\ pc = [w \in Workers |-> "idle"]
  /\ page = [w \in Workers |-> NoPage]
  /\ at = [w \in Workers |-> 1]
  /\ attempt = [w \in Workers |-> 0]
  /\ visits = Visits
  /\ landed = {} /\ raced = {} /\ refused = {}

-----------------------------------------------------------------------------
(* What a transaction sees and what it waits for.                          *)

\* Of two rows of a key, the transaction's own comes first.
Sees(w, k) == IF mine[w][k] # None THEN mine[w][k] ELSE table[k]

OnPage(w) == at[w] <= Len(Content[page[w]])
Sighted(w) == Content[page[w]][at[w]]

\* The row, or a unique key of the one to insert, is being written by v.
Locked(w, v) ==
  /\ v # w
  /\ \/ mine[v][Sighted(w).key] # None
     \/ pc[w] = "insert" /\ \E k \in Namesakes[Sighted(w).key] : mine[v][k] # None

Writable(w) == \A v \in Workers : ~Locked(w, v)

WaitsFor(w, v) == pc[w] \in {"insert", "update"} /\ Locked(w, v)

\* w is one of a ring of transactions that wait for each other.
Deadlocked(w) ==
  \E ring \in SUBSET Workers :
    /\ w \in ring
    /\ \A v \in ring : (\E u \in ring : WaitsFor(v, u)) /\ (\E u \in ring : WaitsFor(u, v))

-----------------------------------------------------------------------------
(* The mapper.                                                             *)

\* A worker takes up a page: of its own scan, or one that another worker reads as well.
Start(w, p) ==
  /\ pc[w] = "idle" /\ visits > 0 /\ After[p] \subseteq landed
  /\ visits' = visits - 1
  /\ pc' = [pc EXCEPT ![w] = "look"]
  /\ page' = [page EXCEPT ![w] = p]
  /\ at' = [at EXCEPT ![w] = 1]
  /\ attempt' = [attempt EXCEPT ![w] = 1]
  /\ UNCHANGED <<table, mine, ghosts>>

\* The SELECT finds the row.  The fan a page is about is looked for by its id only, a supporter
\* by its id and then by its username, anything else by what it is.
Found(s, r) == r # None /\ (s.kind = "fan" => r.id)

\* Mutant: an item once wished for stays wished for.
WithWish(s, r) == [full |-> r.full \/ s.row.full, id |-> r.id \/ s.row.id, wish |-> r.wish]

\* Mutant: what the page says replaces what is known.
Overwritten(s, r) == s.row

\* The row with what the page adds: missing columns are filled, a wish that came true is struck.
Enriched(s, r) ==
  [full |-> r.full \/ s.row.full, id |-> r.id \/ s.row.id, wish |-> r.wish /\ s.row.wish]

GoOn(w) ==
  /\ at' = [at EXCEPT ![w] = @ + 1]
  /\ pc' = [pc EXCEPT ![w] = "look"]

\* The SELECT: the row has to be inserted, has to be filled in, or is as the page says.
Look(w) ==
  /\ pc[w] = "look" /\ OnPage(w)
  /\ LET s == Sighted(w)
         r == Sees(w, s.key)
     IN  \/ /\ ~Found(s, r)
            /\ pc' = [pc EXCEPT ![w] = "insert"] /\ UNCHANGED at
         \/ /\ Found(s, r) /\ Enriched(s, r) # r
            /\ pc' = [pc EXCEPT ![w] = "update"] /\ UNCHANGED at
         \/ /\ Found(s, r) /\ Enriched(s, r) = r
            /\ GoOn(w)
  /\ UNCHANGED <<table, mine, page, attempt, visits, ghosts>>

Write(w, row) ==
  /\ mine' = [mine EXCEPT ![w][Sighted(w).key] = row]
  /\ GoOn(w)

\* The columns found missing are set, whatever others have set meanwhile.
Update(w) ==
  /\ pc[w] = "update" /\ Writable(w)
  /\ Write(w, Enriched(Sighted(w), Sees(w, Sighted(w).key)))
  /\ UNCHANGED <<table, page, attempt, visits, ghosts>>

\* Mutant: losing the race for a row rolls the whole page back, not to the savepoint.
LoseAll(w) == mine' = [mine EXCEPT ![w] = Untouched]

\* The savepoint: what the page has written before stays.
LoseInsert(w) == UNCHANGED mine

Leave(w) ==
  /\ pc' = [pc EXCEPT ![w] = "idle"]
  /\ page' = [page EXCEPT ![w] = NoPage]
  /\ at' = [at EXCEPT ![w] = 1]
  /\ attempt' = [attempt EXCEPT ![w] = 0]

\* Mutant: the worker leaves its transaction open.
IdleOpen(w) == Leave(w) /\ UNCHANGED mine

\* The transaction ends, and with it the visit.
Idle(w) == Leave(w) /\ mine' = [mine EXCEPT ![w] = Untouched]

\* Mutant: the error of the INSERT surfaces.
Surfaces(s, r) == FALSE

\* The SELECT that follows a lost INSERT is the one before it; for an edge there is none.
Reselected(s, r) == Found(s, r)

\* One of the row's unique keys is taken, by that very row or by another fan's.
Taken(w) == \E k \in {Sighted(w).key} \cup Namesakes[Sighted(w).key] : Sees(w, k) # None

\* The INSERT: the row is new.
InsertNew(w) ==
  /\ pc[w] = "insert" /\ Writable(w)
  /\ ~Taken(w)
  /\ Write(w, Sighted(w).row)
  /\ UNCHANGED <<table, page, attempt, visits, ghosts>>

\* Somebody else has inserted it: the mapper goes on with the row it finds now, as it is.  If its
\* SELECT does not find the row whose key is taken, the visit fails.
InsertCollides(w) ==
  /\ pc[w] = "insert" /\ Writable(w)
  /\ Taken(w)
  /\ LET s == Sighted(w)
         r == Sees(w, s.key)
     IN  IF Reselected(s, r)
         THEN /\ GoOn(w) /\ LoseInsert(w)
              /\ raced' = IF r.wish /\ ~s.row.wish THEN raced \cup {s.key} ELSE raced
              /\ UNCHANGED <<page, attempt, refused>>
         ELSE Idle(w) /\ refused' = refused \cup {s.key} /\ UNCHANGED raced
  /\ UNCHANGED <<table, visits, landed>>

\* One commit for the page.
Commit(w) ==
  /\ pc[w] = "look" /\ ~OnPage(w)
  /\ table' = [k \in Keys |-> Sees(w, k)]
  /\ landed' = landed \cup {page[w]}
  /\ Idle(w)
  /\ UNCHANGED <<visits, raced, refused>>

-----------------------------------------------------------------------------
(* Failures.                                                               *)

MayRetry(w) == attempt[w] < Retries

\* The database breaks a deadlock: the page is rolled back and ingested anew, or given up.
Retry(w) ==
  /\ Deadlocked(w) /\ MayRetry(w)
  /\ attempt' = [attempt EXCEPT ![w] = @ + 1]
  /\ at' = [at EXCEPT ![w] = 1]
  /\ pc' = [pc EXCEPT ![w] = "look"]
  /\ mine' = [mine EXCEPT ![w] = Untouched]
  /\ UNCHANGED <<table, page, visits, ghosts>>

GiveUp(w) ==
  /\ Deadlocked(w) /\ ~MayRetry(w)
  /\ Idle(w)
  /\ UNCHANGED <<table, visits, ghosts>>

\* The time-out of the visit, or the death of the process: the transaction is rolled back.
Interrupt(w) ==
  /\ pc[w] # "idle"
  /\ Idle(w)
  /\ UNCHANGED <<table, visits, ghosts>>

Step(w) ==
  \/ Look(w) \/ Update(w) \/ InsertNew(w) \/ InsertCollides(w)
  \/ Commit(w) \/ Retry(w) \/ GiveUp(w)

Next ==
  \E w \in Workers : (\E p \in Pages : Start(w, p)) \/ Step(w) \/ Interrupt(w)

Spec == Init /\ [][Next]_vars

\* The workers go on, and the database sees every deadlock.
FairSpec == Spec /\ \A w \in Workers : WF_vars(Step(w))

-----------------------------------------------------------------------------
(* Properties.                                                             *)

\* The types.
TypeOK ==
  /\ table \in [Keys -> Row \cup {None}]
  /\ mine \in [Workers -> [Keys -> Row \cup {None}]]
  /\ pc \in [Workers -> {"idle", "look", "insert", "update"}]
  /\ page \in [Workers -> Pages]
  /\ at \in [Workers -> Nat \ {0}]
  /\ attempt \in [Workers -> 0 .. Retries]
  /\ visits \in 0 .. Visits
  /\ landed \subseteq Pages /\ raced \subseteq Keys /\ refused \subseteq Keys

\* The rows of a page.
Mentions(p) == {Content[p][n].key : n \in DOMAIN Content[p]}

\* A page lands whole or not at all, though its rows collide with those of other pages: all its
\* rows are there once it is committed, and there is no row that no committed page mentions.
PagesLandWhole ==
  \A k \in Keys : table[k] # None <=> \E p \in landed : k \in Mentions(p)

\* Ownership wins over a wish, in whatever order the pages land, unless the sighting of the owner
\* lost the race to insert the edge.
OwnershipWins ==
  \A p \in landed : \A n \in DOMAIN Content[p] :
    LET s == Content[p][n]
    IN  s.kind = "edge" /\ ~s.row.wish /\ s.key \notin raced => ~table[s.key].wish

\* Collisions are benign: no page fails on a unique key, but that of a fan whose username or
\* address is that of another fan's row.
NoPageIsRefused == \A k \in refused : Namesakes[k] # {}

\* What is once known of a row stays known, whoever writes it on the strength of an old read.
NothingIsForgotten ==
  [][\A k \in Keys : table[k] # None =>
       /\ table'[k] # None
       /\ table[k].full => table'[k].full
       /\ table[k].id => table'[k].id
       /\ table'[k].wish => table[k].wish]_table

\* Every visit of a page ends, deadlocks or not.
EveryVisitSettles == \A w \in Workers : pc[w] # "idle" ~> pc[w] = "idle"

\* The facts that a row holds, and those that a page tells of a key.
FactsOf(r) ==
  IF r = None THEN {}
  ELSE {"there"} \cup {c \in {"full", "id"} : r[c]} \cup (IF r.wish THEN {} ELSE {"owned"})

Told(p, k) == UNION {FactsOf(Content[p][n].row) : n \in {m \in DOMAIN Content[p] : Content[p][m].key = k}}

Tells == [p \in Pages |-> [k \in Keys |-> Told(p, k)]]

\* To whoever reads what is committed, the workers are one that lands a page at a time: nothing of
\* a page is missing, nothing is made up, and nothing known is lost.
Store == INSTANCE GraphStore WITH
  Facts  <- {"there", "full", "id", "owned"},
  Before <- After,
  known  <- [k \in Keys |-> FactsOf(table[k])]

StoreSpec == Store!Spec
================================================================================
