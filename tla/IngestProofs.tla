----------------------------- MODULE IngestProofs ------------------------------
(* Proofs about Ingest, for any workers, pages and keys, whatever the pages     *)
(* mention and in whatever order.                                               *)
EXTENDS Ingest, TLAPS

\* A sighting of a page is one.
LEMMA SightingType ==
  ASSUME NEW p \in Pages, NEW n \in DOMAIN Content[p]
  PROVE  /\ Content[p] \in Seq(Sighting) /\ DOMAIN Content[p] = 1 .. Len(Content[p])
         /\ Content[p][n] \in Sighting
         /\ Content[p][n].key \in Keys /\ Content[p][n].row \in Row
  <1>1. Content[p] \in Seq(Sighting)
    BY IngestAssumption DEF IngestAssumption, Content
  <1>2. DOMAIN Content[p] = 1 .. Len(Content[p])
    BY <1>1
  <1>3. Content[p][n] \in Sighting
    BY <1>1, <1>2
  <1> QED
    BY <1>1, <1>2, <1>3 DEF Sighting

\* The sighting at a worker's place.
LEMMA SightedType ==
  ASSUME TypeOK, NEW w \in Workers, OnPage(w)
  PROVE  /\ at[w] \in DOMAIN Content[page[w]] /\ page[w] \in Pages
         /\ Sighted(w) = Content[page[w]][at[w]]
         /\ Sighted(w) \in Sighting /\ Sighted(w).key \in Keys /\ Sighted(w).row \in Row
  <1>1. page[w] \in Pages /\ at[w] \in Nat \ {0}
    BY DEF TypeOK
  <1>2. Content[page[w]] \in Seq(Sighting)
    BY <1>1, IngestAssumption DEF IngestAssumption, Content
  <1>3. at[w] \in DOMAIN Content[page[w]]
    BY <1>1, <1>2 DEF OnPage
  <1> QED
    BY <1>1, <1>3, SightingType DEF Sighted

\* What a worker sees of a key is a row or none.
LEMMA SeesType ==
  ASSUME TypeOK, NEW w \in Workers, NEW k \in Keys
  PROVE  Sees(w, k) \in Row \cup {None}
  BY DEF TypeOK, Sees

\* A row that is filled in is a row, and covers both of what it is made of.
LEMMA EnrichedType ==
  ASSUME NEW s \in Sighting, NEW r \in Row
  PROVE  /\ Enriched(s, r) \in Row /\ Enriched(s, r) # None
         /\ r.full => Enriched(s, r).full
         /\ r.id => Enriched(s, r).id
         /\ Enriched(s, r).wish => r.wish /\ s.row.wish
  BY IngestAssumption DEF IngestAssumption, Sighting, Row, Enriched

-------------------------------------------------------------------------------
(* The types.                                                                   *)

\* A transaction that has written nothing.
LEMMA UntouchedType == Untouched \in [Keys -> Row \cup {None}]
  BY DEF Untouched

\* A worker without a page has some page all the same.
LEMMA NoPageType == NoPage \in Pages
  BY IngestAssumption DEF IngestAssumption, NoPage

\* At the start the types hold: nothing is ingested.
LEMMA IngestInitType == Init => TypeOK
  <1> SUFFICES ASSUME Init PROVE TypeOK
    OBVIOUS
  <1>1. 0 \in 0 .. Retries /\ Visits \in 0 .. Visits /\ 1 \in Nat \ {0}
    BY IngestAssumption DEF IngestAssumption
  <1> QED
    BY <1>1, UntouchedType, NoPageType DEF Init, TypeOK

\* A step to the next sighting.
LEMMA GoOnType ==
  ASSUME TypeOK, NEW w \in Workers, GoOn(w)
  PROVE  /\ at' \in [Workers -> Nat \ {0}]
         /\ pc' \in [Workers -> {"idle", "look", "insert", "update"}]
  <1>1. at \in [Workers -> Nat \ {0}] /\ at[w] + 1 \in Nat \ {0}
    BY DEF TypeOK
  <1>2. at' \in [Workers -> Nat \ {0}]
    BY <1>1 DEF GoOn
  <1> QED
    BY <1>2 DEF TypeOK, GoOn

\* A write of one's own, of a row.
LEMMA WriteType ==
  ASSUME TypeOK, NEW w \in Workers, OnPage(w), NEW row \in Row, Write(w, row)
  PROVE  mine' \in [Workers -> [Keys -> Row \cup {None}]]
  <1>1. Sighted(w).key \in Keys
    BY SightedType
  <1>2. mine[w] \in [Keys -> Row \cup {None}]
    BY DEF TypeOK
  <1>3. [mine[w] EXCEPT ![Sighted(w).key] = row] \in [Keys -> Row \cup {None}]
    BY <1>1, <1>2
  <1>4. mine' = [mine EXCEPT ![w] = [mine[w] EXCEPT ![Sighted(w).key] = row]]
    BY <1>2 DEF Write, TypeOK
  <1> QED
    BY <1>3, <1>4 DEF TypeOK

\* A worker that leaves its page keeps the types.
LEMMA LeaveType ==
  ASSUME TypeOK, NEW w \in Workers, Leave(w)
  PROVE  /\ pc' \in [Workers -> {"idle", "look", "insert", "update"}]
         /\ page' \in [Workers -> Pages]
         /\ at' \in [Workers -> Nat \ {0}]
         /\ attempt' \in [Workers -> 0 .. Retries]
  BY NoPageType, IngestAssumption DEF TypeOK, Leave, IngestAssumption

\* So does one whose transaction ends.
LEMMA EmptiedType ==
  ASSUME TypeOK, NEW w \in Workers, mine' = [mine EXCEPT ![w] = Untouched]
  PROVE  mine' \in [Workers -> [Keys -> Row \cup {None}]]
  BY UntouchedType DEF TypeOK

\* Where every worker is: it writes what is on its page, it fills in a row that is there,
\* and an idle worker has written nothing.
Place(w) ==
  /\ pc[w] \in {"insert", "update"} => OnPage(w)
  /\ pc[w] = "update" => Sees(w, Sighted(w).key) # None
  /\ pc[w] = "idle" => at[w] = 1 /\ mine[w] = Untouched

PlaceInv == \A w \in Workers : Place(w)

\* Every step keeps the types, with every worker at a place its page has.
LEMMA IngestNextType == TypeOK /\ PlaceInv /\ [Next]_vars => TypeOK'
  <1> SUFFICES ASSUME TypeOK, PlaceInv, [Next]_vars PROVE TypeOK'
    OBVIOUS
  <1>1. CASE UNCHANGED vars
    BY <1>1 DEF TypeOK, vars, ghosts
  <1>2. ASSUME NEW w \in Workers, NEW p \in Pages, Start(w, p) PROVE TypeOK'
    <2>1. visits' \in 0 .. Visits
      BY <1>2, IngestAssumption DEF TypeOK, Start, IngestAssumption
    <2>2. 1 \in 0 .. Retries
      BY IngestAssumption DEF IngestAssumption
    <2>3. attempt' \in [Workers -> 0 .. Retries] /\ at' \in [Workers -> Nat \ {0}]
      BY <1>2, <2>2 DEF TypeOK, Start
    <2> QED
      BY <1>2, <2>1, <2>3 DEF TypeOK, Start, ghosts
  <1>3. ASSUME NEW w \in Workers, Look(w) PROVE TypeOK'
    BY <1>3, GoOnType DEF TypeOK, Look, ghosts
  <1>4. ASSUME NEW w \in Workers, Update(w) PROVE TypeOK'
    <2>1. OnPage(w) /\ Sees(w, Sighted(w).key) # None
      BY <1>4 DEF PlaceInv, Place, Update
    <2>2. Enriched(Sighted(w), Sees(w, Sighted(w).key)) \in Row
      BY <2>1, SightedType, SeesType, EnrichedType
    <2> QED
      BY <1>4, <2>1, <2>2, WriteType, GoOnType DEF TypeOK, Update, Write, ghosts
  <1>5. ASSUME NEW w \in Workers, InsertNew(w) PROVE TypeOK'
    <2>1. OnPage(w)
      BY <1>5 DEF PlaceInv, Place, InsertNew
    <2> QED
      BY <1>5, <2>1, SightedType, WriteType, GoOnType DEF TypeOK, InsertNew, Write, ghosts
  <1>6. ASSUME NEW w \in Workers, InsertCollides(w) PROVE TypeOK'
    <2>1. OnPage(w)
      BY <1>6 DEF PlaceInv, Place, InsertCollides
    <2>2. CASE Reselected(Sighted(w), Sees(w, Sighted(w).key))
      <3>1. GoOn(w) /\ UNCHANGED <<table, mine, page, attempt, visits, landed, refused>>
        BY <1>6, <2>2 DEF InsertCollides, LoseInsert
      <3>2. raced' \in {raced, raced \cup {Sighted(w).key}}
        BY <1>6, <2>2 DEF InsertCollides
      <3> QED
        BY <2>1, <3>1, <3>2, SightedType, GoOnType DEF TypeOK
    <2>3. CASE ~Reselected(Sighted(w), Sees(w, Sighted(w).key))
      <3>1. /\ Idle(w) /\ UNCHANGED <<table, visits, landed, raced>>
            /\ refused' = refused \cup {Sighted(w).key}
        BY <1>6, <2>3 DEF InsertCollides
      <3>2. refused' \subseteq Keys
        BY <2>1, <3>1, SightedType DEF TypeOK
      <3> QED
        BY <3>1, <3>2, LeaveType, EmptiedType DEF TypeOK, Idle
    <2> QED
      BY <2>2, <2>3
  <1>7. ASSUME NEW w \in Workers, Commit(w) PROVE TypeOK'
    <2>1. table' \in [Keys -> Row \cup {None}]
      BY <1>7, SeesType DEF Commit
    <2>2. QED
      <3>1. landed' \subseteq Pages
        BY <1>7 DEF TypeOK, Commit
      <3> QED
        BY <1>7, <2>1, <3>1, LeaveType, EmptiedType DEF TypeOK, Commit, Idle
  <1>8. ASSUME NEW w \in Workers, Retry(w) PROVE TypeOK'
    <2>1. attempt[w] + 1 \in 0 .. Retries
      BY <1>8, IngestAssumption DEF TypeOK, Retry, MayRetry, IngestAssumption
    <2>2. attempt' \in [Workers -> 0 .. Retries] /\ at' \in [Workers -> Nat \ {0}]
      BY <1>8, <2>1 DEF TypeOK, Retry
    <2> QED
      BY <1>8, <2>2, EmptiedType DEF TypeOK, Retry, ghosts
  <1>9. ASSUME NEW w \in Workers, GiveUp(w) \/ Interrupt(w) PROVE TypeOK'
    BY <1>9, LeaveType, EmptiedType DEF TypeOK, GiveUp, Interrupt, Idle, ghosts
  <1> QED
    BY <1>1, <1>2, <1>3, <1>4, <1>5, <1>6, <1>7, <1>8, <1>9 DEF Next, Step

-------------------------------------------------------------------------------
(* The invariant.                                                               *)

\* The new row of a key has all that the old one had, and is a wish only if that was.
Covers(new, old) ==
  old # None =>
    /\ new # None
    /\ old.full => new.full
    /\ old.id => new.id
    /\ new.wish => old.wish

\* What a transaction has written is of its page, is written by no other, and covers what
\* is committed.
OwnInv ==
  \A w \in Workers : \A k \in Keys : mine[w][k] # None =>
    /\ k \in Mentions(page[w])
    /\ \A v \in Workers : mine[v][k] # None => v = w
    /\ Covers(mine[w][k], table[k])

\* The owner's sighting of an item.
Owners(s) == s.kind = "edge" /\ ~s.row.wish

\* A sighting has been dealt with, for what w sees.
Settled(w, s) ==
  /\ Sees(w, s.key) # None
  /\ Owners(s) /\ s.key \notin raced => ~Sees(w, s.key).wish

\* All that a worker has passed is dealt with.
SeenInv ==
  \A w \in Workers : \A n \in DOMAIN Content[page[w]] :
    n < at[w] => Settled(w, Content[page[w]][n])

GraphInv == OwnInv /\ SeenInv /\ PagesLandWhole /\ OwnershipWins

\* What covers a row covers what that covers.
LEMMA CoversTrans ==
  ASSUME NEW a, NEW b, NEW c, Covers(a, b), Covers(b, c) PROVE Covers(a, c)
  BY Zenon DEF Covers

\* Seeing a row that covers the one seen before keeps a sighting dealt with.
LEMMA CoversSettled ==
  ASSUME NEW w \in Workers, NEW s, Settled(w, s), raced \subseteq raced',
         Covers(Sees(w, s.key)', Sees(w, s.key))
  PROVE  Settled(w, s)'
  BY Zenon DEF Settled, Covers

\* A worker whose transaction is empty sees what is committed.
LEMMA EmptySees ==
  ASSUME NEW w \in Workers, NEW k \in Keys, mine[w] = Untouched
  PROVE  mine[w][k] = None /\ Sees(w, k) = table[k]
  BY DEF Untouched, Sees

\* What holds of the rows seen, when w's place on its page is one that it has reached before, or
\* is the start of a page, or is one further, past a sighting that is dealt with.
PlaceMoves(w) ==
  /\ \A v \in Workers \ {w} : page'[v] = page[v] /\ at'[v] = at[v]
  /\ \/ at'[w] = 1
     \/ page'[w] = page[w] /\ at'[w] = at[w]
     \/ page'[w] = page[w] /\ at'[w] = at[w] + 1 /\ \A s : s = Sighted(w) => Settled(w, s)'

\* What the workers have passed stays dealt with in a step that moves one of them as PlaceMoves says
\* and forgets nothing that the others see.
LEMMA SeenKept ==
  ASSUME TypeOK, TypeOK', SeenInv, NEW w \in Workers, PlaceMoves(w), raced \subseteq raced',
         \A v \in Workers : \A k \in Keys : at'[v] = 1 \/ Covers(Sees(v, k)', Sees(v, k))
  PROVE  SeenInv'
  <1> SUFFICES ASSUME NEW v \in Workers, NEW n \in DOMAIN Content[page'[v]], n < at'[v]
               PROVE  Settled(v, Content[page[v]][n])'
    BY DEF SeenInv, Content
  <1>1. page'[v] \in Pages /\ at'[v] \in Nat /\ at[v] \in Nat
    BY DEF TypeOK
  <1>2. n \in 1 .. Len(Content[page'[v]]) /\ Content[page'[v]][n].key \in Keys
    BY <1>1, SightingType
  <1>3. at'[v] # 1 /\ page'[v] = page[v]
    BY <1>1, <1>2 DEF PlaceMoves
  <1> PICK s : s = Content[page[v]][n]
    OBVIOUS
  <1>4. Settled(v, s)'
    <2>1. CASE n < at[v]
      <3>1. Settled(v, s)
        BY <1>3, <2>1 DEF SeenInv
      <3>2. Covers(Sees(v, s.key)', Sees(v, s.key))
        BY <1>2, <1>3
      <3> QED
        BY <3>1, <3>2, CoversSettled
    <2>2. CASE n >= at[v]
      <3>1. v = w /\ n = at[w]
        BY <1>1, <1>2, <1>3, <2>2 DEF PlaceMoves
      <3>2. \A t : t = Sighted(w) => Settled(w, t)'
        BY <1>1, <1>2, <1>3, <2>2, <3>1 DEF PlaceMoves
      <3>3. s = Sighted(w)
        BY <3>1 DEF Sighted
      <3> QED
        BY <3>1, <3>2, <3>3
    <2> QED
      BY <1>1, <1>2, <2>1, <2>2
  <1> QED
    BY <1>3, <1>4 DEF Settled, Sees, Content

\* A step that commits nothing keeps what is said of the pages that landed.
LEMMA LandedKept ==
  ASSUME PagesLandWhole, OwnershipWins, table' = table, landed' = landed, raced \subseteq raced'
  PROVE  PagesLandWhole' /\ OwnershipWins'
  BY DEF PagesLandWhole, OwnershipWins, Mentions, Content

\* A step that writes nothing: w moves on, or over to a page while its transaction is empty.
LEMMA MoveKeeps ==
  ASSUME TypeOK, TypeOK', GraphInv, NEW w \in Workers, UNCHANGED <<table, mine, landed>>,
         raced \subseteq raced', PlaceMoves(w), page'[w] = page[w] \/ mine[w] = Untouched
  PROVE  GraphInv'
  <1>1. PagesLandWhole' /\ OwnershipWins'
    BY LandedKept DEF GraphInv
  <1>2. \A v \in Workers : \A k \in Keys : Covers(Sees(v, k)', Sees(v, k))
    BY Zenon DEF Covers, Sees
  <1>3. SeenInv'
    BY <1>2, SeenKept DEF GraphInv
  <1>4. OwnInv'
    <2> SUFFICES ASSUME NEW v \in Workers, NEW k \in Keys, mine[v][k] # None
                 PROVE  k \in Mentions(page'[v])
      BY DEF GraphInv, OwnInv, Mentions, Content, Covers
    <2>1. page'[v] = page[v]
      BY EmptySees DEF PlaceMoves
    <2> QED
      BY <2>1 DEF GraphInv, OwnInv
  <1> QED
    BY <1>1, <1>3, <1>4 DEF GraphInv

\* A step that gives up what w has written, and goes back to the start of a page.
LEMMA EmptyKeeps ==
  ASSUME TypeOK, TypeOK', GraphInv, NEW w \in Workers, UNCHANGED <<table, landed>>,
         raced \subseteq raced', mine' = [mine EXCEPT ![w] = Untouched], at'[w] = 1, PlaceMoves(w)
  PROVE  GraphInv'
  <1>1. PagesLandWhole' /\ OwnershipWins'
    BY LandedKept DEF GraphInv
  <1>2. ASSUME NEW v \in Workers, NEW k \in Keys PROVE at'[v] = 1 \/ Covers(Sees(v, k)', Sees(v, k))
    BY DEF Covers, Sees, TypeOK
  <1>3. SeenInv'
    BY <1>2, SeenKept DEF GraphInv
  <1>4. OwnInv'
    <2> SUFFICES ASSUME NEW v \in Workers, NEW k \in Keys, mine'[v][k] # None
                 PROVE  /\ k \in Mentions(page'[v])
                        /\ \A u \in Workers : mine'[u][k] # None => u = v
                        /\ Covers(mine'[v][k], table[k])
      BY DEF OwnInv, Mentions, Content, Covers
    <2>1. v # w /\ \A u \in Workers : mine'[u][k] # None => u # w /\ mine'[u] = mine[u]
      BY DEF TypeOK, Untouched
    <2> QED
      BY <2>1 DEF GraphInv, OwnInv, PlaceMoves
  <1> QED
    BY <1>1, <1>3, <1>4 DEF GraphInv

\* A row that w writes where no other has written covers what w saw of its key.
LEMMA WriteKeeps ==
  ASSUME TypeOK, TypeOK', GraphInv, NEW w \in Workers, NEW row \in Row, OnPage(w), Writable(w),
         Write(w, row), UNCHANGED <<table, page, landed, raced>>,
         Covers(row, Sees(w, Sighted(w).key)), Owners(Sighted(w)) => ~row.wish
  PROVE  GraphInv'
  <1> PICK s : s = Sighted(w)
    OBVIOUS
  <1>1. s.key \in Keys /\ s = Content[page[w]][at[w]] /\ at[w] \in DOMAIN Content[page[w]]
    BY SightedType
  <1>2. row # None
    BY IngestAssumption DEF IngestAssumption
  <1>3. ASSUME NEW v \in Workers, NEW k \in Keys
        PROVE  mine'[v][k] = IF v = w /\ k = s.key THEN row ELSE mine[v][k]
    BY <1>1 DEF Write, TypeOK
  <1>4. ASSUME NEW v \in Workers, NEW k \in Keys PROVE Covers(Sees(v, k)', Sees(v, k))
    <2>1. CASE v = w /\ k = s.key
      BY <1>2, <1>3, <2>1 DEF Sees
    <2>2. CASE ~(v = w /\ k = s.key)
      <3>1. Sees(v, k)' = Sees(v, k)
        BY <1>3, <2>2 DEF Sees
      <3> QED
        BY <3>1, Zenon DEF Covers
    <2> QED
      BY <2>1, <2>2
  <1>5. PlaceMoves(w)
    <2>1. ASSUME NEW t, t = s PROVE Settled(w, t)'
      BY <1>1, <1>2, <1>3, <2>1 DEF Settled, Sees
    <2>2. at[w] \in Nat /\ at'[w] = at[w] + 1 /\ \A v \in Workers \ {w} : at'[v] = at[v]
      BY DEF Write, GoOn, TypeOK
    <2> QED
      BY <2>1, <2>2 DEF PlaceMoves
  <1>6. SeenInv'
    BY <1>4, <1>5, SeenKept DEF GraphInv
  <1>7. OwnInv'
    <2> SUFFICES ASSUME NEW v \in Workers, NEW k \in Keys, mine'[v][k] # None
                 PROVE  /\ k \in Mentions(page[v])
                        /\ \A u \in Workers : mine'[u][k] # None => u = v
                        /\ Covers(mine'[v][k], table[k])
      BY DEF OwnInv, Mentions, Content, Covers
    <2>1. CASE k = s.key
      <3>1. \A u \in Workers : u # w => mine[u][k] = None
        BY <2>1 DEF Writable, Locked
      <3>2. v = w /\ \A u \in Workers : mine'[u][k] # None => u = w
        BY <1>3, <2>1, <3>1
      <3>3. k \in Mentions(page[w])
        BY <1>1, <2>1 DEF Mentions
      <3>4. Covers(Sees(w, k), table[k])
        <4>1. CASE mine[w][k] # None
          BY <4>1 DEF Sees, GraphInv, OwnInv
        <4>2. CASE mine[w][k] = None
          BY <4>2, Zenon DEF Sees, Covers
        <4> QED
          BY <4>1, <4>2
      <3>5. Covers(row, table[k])
        BY <2>1, <3>4, CoversTrans
      <3> QED
        BY <1>3, <2>1, <3>2, <3>3, <3>5
    <2>2. CASE k # s.key
      BY <1>3, <2>2 DEF GraphInv, OwnInv
    <2> QED
      BY <2>1, <2>2
  <1> QED
    BY <1>6, <1>7, LandedKept DEF GraphInv

\* What a transaction commits covers what was committed before.
LEMMA CommitCovers ==
  ASSUME GraphInv, NEW w \in Workers, NEW k \in Keys, Commit(w)
  PROVE  table'[k] = Sees(w, k) /\ Covers(table'[k], table[k])
  <1>1. table'[k] = Sees(w, k)
    BY DEF Commit
  <1>2. CASE mine[w][k] # None
    BY <1>1, <1>2 DEF Sees, GraphInv, OwnInv
  <1>3. CASE mine[w][k] = None
    BY <1>1, <1>3, Zenon DEF Sees, Covers
  <1> QED
    BY <1>1, <1>2, <1>3

\* Where another transaction has written, the commit of w changes nothing.
LEMMA CommitSpares ==
  ASSUME TypeOK, GraphInv, NEW w \in Workers, NEW v \in Workers, NEW k \in Keys, Commit(w), v # w,
         mine[v][k] # None
  PROVE  table'[k] = table[k]
  BY CommitCovers DEF GraphInv, OwnInv, Sees

\* The commit of a page: its rows were dealt with in the transaction, so they are in the table, and
\* what it has written covers what others have committed.
LEMMA CommitKeeps ==
  ASSUME TypeOK, TypeOK', GraphInv, NEW w \in Workers, Commit(w), PlaceMoves(w)
  PROVE  GraphInv'
  <1>0. /\ at'[w] = 1 /\ raced' = raced /\ landed' = landed \cup {page[w]}
        /\ mine' = [mine EXCEPT ![w] = Untouched]
    BY DEF Commit, Idle, Leave, TypeOK
  <1>1. ASSUME NEW v \in Workers, NEW k \in Keys PROVE at'[v] = 1 \/ Covers(Sees(v, k)', Sees(v, k))
    <2>1. CASE v = w
      BY <1>0, <2>1
    <2>2. CASE v # w /\ mine[v][k] # None
      <3>1. Sees(v, k)' = Sees(v, k)
        BY <1>0, <2>2 DEF Sees, TypeOK
      <3> QED
        BY <3>1, Zenon DEF Covers
    <2>3. CASE v # w /\ mine[v][k] = None
      <3>1. Sees(v, k)' = table'[k] /\ Sees(v, k) = table[k]
        BY <1>0, <2>3 DEF Sees, TypeOK
      <3> QED
        BY <3>1, CommitCovers
    <2> QED
      BY <2>1, <2>2, <2>3
  <1>2. SeenInv'
    BY <1>0, <1>1, SeenKept DEF GraphInv
  <1>3. OwnInv'
    <2> SUFFICES ASSUME NEW v \in Workers, NEW k \in Keys, mine'[v][k] # None
                 PROVE  /\ k \in Mentions(page'[v])
                        /\ \A u \in Workers : mine'[u][k] # None => u = v
                        /\ Covers(mine'[v][k], table'[k])
      BY DEF OwnInv, Mentions, Content, Covers
    <2>1. v # w /\ \A u \in Workers : mine'[u][k] # None => u # w /\ mine'[u] = mine[u]
      BY <1>0 DEF TypeOK, Untouched
    <2>2. table'[k] = table[k]
      BY <2>1, CommitSpares
    <2> QED
      BY <2>1, <2>2 DEF GraphInv, OwnInv, PlaceMoves
  <1>4. \A n \in DOMAIN Content[page[w]] : Settled(w, Content[page[w]][n])
    <2> SUFFICES ASSUME NEW n \in DOMAIN Content[page[w]] PROVE n < at[w]
      BY DEF GraphInv, SeenInv
    <2>1. page[w] \in Pages /\ at[w] \in Nat
      BY DEF TypeOK
    <2> QED
      BY <2>1, SightingType DEF Commit, OnPage
  <1>5. PagesLandWhole'
    <2> SUFFICES ASSUME NEW k \in Keys
                 PROVE  table'[k] # None <=> \E p \in landed' : k \in Mentions(p)
      BY DEF PagesLandWhole, Mentions, Content
    <2>1. table[k] # None <=> \E p \in landed : k \in Mentions(p)
      BY DEF GraphInv, PagesLandWhole
    <2>2. table[k] # None => table'[k] # None
      BY CommitCovers DEF Covers
    <2>3. k \in Mentions(page[w]) => table'[k] # None
      BY <1>4, CommitCovers DEF Mentions, Settled
    <2>4. table'[k] # None => table[k] # None \/ k \in Mentions(page[w])
      BY CommitCovers DEF Sees, GraphInv, OwnInv
    <2> QED
      BY <1>0, <2>1, <2>2, <2>3, <2>4
  <1>6. OwnershipWins'
    <2> SUFFICES ASSUME NEW p \in landed', NEW n \in DOMAIN Content[p], NEW s, s = Content[p][n],
                        Owners(s), s.key \notin raced
                 PROVE  ~table'[s.key].wish
      BY <1>0 DEF OwnershipWins, Content, Owners
    <2>1. p \in Pages /\ s.key \in Keys
      BY SightingType DEF TypeOK
    <2>2. CASE p \in landed
      <3>1. ~table[s.key].wish
        BY <2>2 DEF GraphInv, OwnershipWins, Owners
      <3>2. table[s.key] # None
        BY <2>1, <2>2 DEF GraphInv, PagesLandWhole, Mentions
      <3> QED
        BY <2>1, <3>1, <3>2, CommitCovers DEF Covers
    <2>3. CASE p = page[w]
      BY <1>4, <2>1, <2>3, CommitCovers DEF Settled
    <2> QED
      BY <1>0, <2>2, <2>3
  <1> QED
    BY <1>2, <1>3, <1>5, <1>6 DEF GraphInv

-------------------------------------------------------------------------------
(* Every step keeps the invariant.                                              *)

IngestInv == TypeOK /\ PlaceInv /\ GraphInv

\* At the start the invariant holds: nothing is written, passed or landed.
LEMMA IngestInitInv == Init => IngestInv
  <1> SUFFICES ASSUME Init PROVE IngestInv
    OBVIOUS
  <1>1. PlaceInv
    BY DEF Init, PlaceInv, Place
  <1>2. OwnInv
    BY DEF Init, OwnInv, Untouched
  <1>3. SeenInv
    <2> SUFFICES ASSUME NEW w \in Workers, NEW n \in DOMAIN Content[page[w]], n < at[w] PROVE FALSE
      BY DEF SeenInv
    <2>1. n \in Nat \ {0} /\ at[w] = 1
      BY NoPageType, SightingType DEF Init
    <2> QED
      BY <2>1
  <1>4. PagesLandWhole /\ OwnershipWins
    BY DEF Init, PagesLandWhole, OwnershipWins, Untouched
  <1> QED
    BY <1>1, <1>2, <1>3, <1>4, IngestInitType DEF IngestInv, GraphInv

\* Committed rows do not go away.
Stays == \A k \in Keys : table[k] # None => table'[k] # None

\* The step of another leaves a worker where it is.
LEMMA PlaceKept ==
  ASSUME TypeOK, PlaceInv, NEW w \in Workers, Stays,
         \A v \in Workers \ {w} : /\ pc'[v] = pc[v] /\ page'[v] = page[v]
                                  /\ at'[v] = at[v] /\ mine'[v] = mine[v],
         Place(w)'
  PROVE  PlaceInv'
  <1> SUFFICES ASSUME NEW v \in Workers \ {w} PROVE Place(v)'
    BY DEF PlaceInv
  <1>1. OnPage(v)' <=> OnPage(v)
    BY DEF OnPage, Content
  <1>2. Sighted(v)' = Sighted(v)
    BY DEF Sighted, Content
  <1>3. CASE pc[v] = "update"
    <2>1. OnPage(v) /\ Sees(v, Sighted(v).key) # None
      BY <1>3 DEF PlaceInv, Place
    <2> PICK k : k = Sighted(v).key
      OBVIOUS
    <2>2. k \in Keys
      BY <2>1, SightedType
    <2>3. Sees(v, k)' # None
      BY <2>1, <2>2 DEF Sees, Stays
    <2>4. Sees(v, Sighted(v).key)' # None
      BY <1>2, <2>3 DEF Sees
    <2> QED
      BY <1>1, <1>3, <2>1, <2>4 DEF Place
  <1>4. CASE pc[v] # "update"
    BY <1>1, <1>4 DEF PlaceInv, Place, Untouched
  <1> QED
    BY <1>3, <1>4

\* A visit that ends leaves nothing behind.
LEMMA IdlePlaces ==
  ASSUME TypeOK, NEW w \in Workers, Idle(w)
  PROVE  /\ Place(w)' /\ PlaceMoves(w) /\ at'[w] = 1 /\ mine' = [mine EXCEPT ![w] = Untouched]
         /\ \A v \in Workers \ {w} : /\ pc'[v] = pc[v] /\ page'[v] = page[v]
                                      /\ at'[v] = at[v] /\ mine'[v] = mine[v]
  BY DEF TypeOK, Idle, Leave, Place, PlaceMoves, Untouched

\* A visit begins with an empty transaction and with nothing passed.
LEMMA StartInv ==
  ASSUME IngestInv, TypeOK', NEW w \in Workers, NEW p \in Pages, Start(w, p)
  PROVE  IngestInv'
  <1>1. PlaceMoves(w) /\ Place(w)'
    BY DEF IngestInv, TypeOK, Start, PlaceMoves, Place
  <1>2. mine[w] = Untouched
    BY DEF IngestInv, PlaceInv, Place, Start
  <1>3. GraphInv'
    BY <1>1, <1>2, MoveKeeps DEF IngestInv, Start, ghosts
  <1>4. PlaceInv'
    BY <1>1, PlaceKept DEF IngestInv, TypeOK, Start, Stays
  <1> QED
    BY <1>3, <1>4 DEF IngestInv

\* The SELECT passes a sighting only if the row is there and is as the sighting says.
LEMMA LookInv ==
  ASSUME IngestInv, TypeOK', NEW w \in Workers, Look(w)
  PROVE  IngestInv'
  <1> PICK s : s = Sighted(w)
    OBVIOUS
  <1>0. OnPage(w) /\ s.key \in Keys /\ s \in Sighting
    BY SightedType DEF IngestInv, Look
  <1>1. UNCHANGED <<table, mine, page, landed, raced>>
    BY DEF Look, ghosts
  <1>2. \A v \in Workers \ {w} : pc'[v] = pc[v] /\ at'[v] = at[v]
    BY DEF IngestInv, TypeOK, Look, GoOn
  <1>3. PlaceMoves(w) /\ Place(w)'
    <2>1. CASE ~Found(s, Sees(w, s.key))
      BY <1>0, <1>1, <1>2, <2>1 DEF IngestInv, TypeOK, Look, PlaceMoves, Place, OnPage, Content
    <2>2. CASE Found(s, Sees(w, s.key)) /\ Enriched(s, Sees(w, s.key)) # Sees(w, s.key)
      <3>1. pc'[w] = "update" /\ at' = at /\ Sees(w, s.key) # None
        BY <2>2 DEF Found, IngestInv, TypeOK, Look
      <3> QED
        BY <1>0, <1>1, <3>1 DEF PlaceMoves, Place, OnPage, Content, Sees, Sighted
    <2>3. CASE Found(s, Sees(w, s.key)) /\ Enriched(s, Sees(w, s.key)) = Sees(w, s.key)
      <3>1. pc'[w] = "look" /\ at'[w] = at[w] + 1
        BY <2>3 DEF IngestInv, TypeOK, Look, GoOn
      <3>2. Sees(w, s.key) # None /\ Sees(w, s.key) \in Row
        BY <1>0, <2>3, SeesType DEF Found, IngestInv
      <3>3. Sees(w, s.key).wish => s.row.wish
        BY <1>0, <2>3, <3>2, EnrichedType
      <3>4. Settled(w, s)'
        BY <1>1, <3>2, <3>3 DEF Settled, Owners, Sees
      <3> QED
        BY <1>1, <1>2, <3>1, <3>4 DEF PlaceMoves, Place
    <2> QED
      BY <2>1, <2>2, <2>3
  <1>4. GraphInv'
    BY <1>1, <1>3, MoveKeeps DEF IngestInv
  <1>5. PlaceInv'
    BY <1>1, <1>2, <1>3, PlaceKept DEF IngestInv, Stays
  <1> QED
    BY <1>4, <1>5 DEF IngestInv

\* A write of a row that covers what was seen.
LEMMA WriteInv ==
  ASSUME IngestInv, TypeOK', NEW w \in Workers, NEW new \in Row, OnPage(w), Writable(w),
         Write(w, new), Covers(new, Sees(w, Sighted(w).key)), Owners(Sighted(w)) => ~new.wish,
         UNCHANGED <<table, page, landed, raced>>
  PROVE  IngestInv'
  <1>1. GraphInv'
    BY WriteKeeps DEF IngestInv
  <1>2. GoOn(w) /\ mine' = [mine EXCEPT ![w][Sighted(w).key] = new]
    BY DEF Write
  <1>3. pc'[w] = "look" /\ \A v \in Workers \ {w} : /\ pc'[v] = pc[v] /\ at'[v] = at[v]
                                                     /\ mine'[v] = mine[v]
    BY <1>2 DEF IngestInv, TypeOK, GoOn
  <1>4. PlaceInv'
    BY <1>3, PlaceKept DEF IngestInv, Stays, Place
  <1> QED
    BY <1>1, <1>4 DEF IngestInv

\* Filling in a row covers what was there and what the page says of it.
LEMMA UpdateInv ==
  ASSUME IngestInv, TypeOK', NEW w \in Workers, Update(w)
  PROVE  IngestInv'
  <1>1. OnPage(w) /\ Writable(w) /\ Sees(w, Sighted(w).key) # None
    BY DEF IngestInv, PlaceInv, Place, Update
  <1>2. Sighted(w) \in Sighting /\ Sees(w, Sighted(w).key) \in Row
    BY <1>1, SightedType, SeesType DEF IngestInv
  <1>3. /\ Enriched(Sighted(w), Sees(w, Sighted(w).key)) \in Row
        /\ Covers(Enriched(Sighted(w), Sees(w, Sighted(w).key)), Sees(w, Sighted(w).key))
        /\ Owners(Sighted(w)) => ~Enriched(Sighted(w), Sees(w, Sighted(w).key)).wish
    BY <1>2, EnrichedType DEF Covers, Owners
  <1> QED
    BY <1>1, <1>3, WriteInv DEF Update, ghosts

\* An insert writes what the page says of a row that nobody has.
LEMMA InsertInv ==
  ASSUME IngestInv, TypeOK', NEW w \in Workers, InsertNew(w)
  PROVE  IngestInv'
  <1>1. OnPage(w) /\ Writable(w) /\ Sees(w, Sighted(w).key) = None
    BY DEF IngestInv, PlaceInv, Place, InsertNew, Taken
  <1>2. Sighted(w).row \in Row
    BY <1>1, SightedType DEF IngestInv
  <1>3. Covers(Sighted(w).row, Sees(w, Sighted(w).key)) /\ (Owners(Sighted(w)) => ~Sighted(w).row.wish)
    BY <1>1 DEF Covers, Owners
  <1> QED
    BY <1>1, <1>2, <1>3, WriteInv DEF InsertNew, ghosts

\* A lost insert passes a row that is there; a wish that an owner meets this way is in raced.
LEMMA CollideInv ==
  ASSUME IngestInv, TypeOK', NEW w \in Workers, InsertCollides(w)
  PROVE  IngestInv'
  <1> PICK s : s = Sighted(w)
    OBVIOUS
  <1>0. UNCHANGED <<table, landed>> /\ raced \subseteq raced' /\ Stays
    BY DEF InsertCollides, Stays
  <1>1. CASE Reselected(s, Sees(w, s.key))
    <2>1. /\ GoOn(w) /\ UNCHANGED <<mine, page>>
          /\ raced' = IF Sees(w, s.key).wish /\ ~s.row.wish THEN raced \cup {s.key} ELSE raced
      BY <1>1 DEF InsertCollides, LoseInsert
    <2>2. Settled(w, s)'
      BY <1>0, <1>1, <2>1 DEF Reselected, Found, Settled, Owners, Sees
    <2>3. /\ pc'[w] = "look" /\ at'[w] = at[w] + 1
          /\ \A v \in Workers \ {w} : pc'[v] = pc[v] /\ at'[v] = at[v]
      BY <2>1 DEF IngestInv, TypeOK, GoOn
    <2>4. PlaceMoves(w) /\ Place(w)'
      BY <2>1, <2>2, <2>3 DEF PlaceMoves, Place
    <2>5. GraphInv'
      BY <1>0, <2>1, <2>4, MoveKeeps DEF IngestInv
    <2>6. PlaceInv'
      BY <1>0, <2>1, <2>3, <2>4, PlaceKept DEF IngestInv
    <2> QED
      BY <2>5, <2>6 DEF IngestInv
  <1>2. CASE ~Reselected(s, Sees(w, s.key))
    <2>1. Idle(w)
      BY <1>2 DEF InsertCollides
    <2> QED
      BY <1>0, <2>1, IdlePlaces, EmptyKeeps, PlaceKept DEF IngestInv
  <1> QED
    BY <1>1, <1>2

\* The commit keeps the invariant, and takes no row away.
LEMMA CommitInv ==
  ASSUME IngestInv, TypeOK', NEW w \in Workers, Commit(w)
  PROVE  IngestInv'
  <1>1. Idle(w)
    BY DEF Commit
  <1>2. Stays
    BY CommitCovers DEF IngestInv, Stays, Covers
  <1> QED
    BY <1>1, <1>2, IdlePlaces, CommitKeeps, PlaceKept DEF IngestInv

\* A deadlock, a time-out, a death: what the transaction has written is gone.
LEMMA TroubleInv ==
  ASSUME IngestInv, TypeOK', NEW w \in Workers, Retry(w) \/ GiveUp(w) \/ Interrupt(w)
  PROVE  IngestInv'
  <1>0. UNCHANGED <<table, landed, raced>> /\ Stays
    BY DEF Retry, GiveUp, Interrupt, ghosts, Stays
  <1>1. CASE Retry(w)
    <2>1. /\ Place(w)' /\ PlaceMoves(w) /\ at'[w] = 1 /\ mine' = [mine EXCEPT ![w] = Untouched]
          /\ \A v \in Workers \ {w} : /\ pc'[v] = pc[v] /\ page'[v] = page[v]
                                       /\ at'[v] = at[v] /\ mine'[v] = mine[v]
      BY <1>1 DEF IngestInv, TypeOK, Retry, Place, PlaceMoves
    <2> QED
      BY <1>0, <2>1, EmptyKeeps, PlaceKept DEF IngestInv
  <1>2. CASE GiveUp(w) \/ Interrupt(w)
    <2>1. Idle(w)
      BY <1>2 DEF GiveUp, Interrupt
    <2> QED
      BY <1>0, <2>1, IdlePlaces, EmptyKeeps, PlaceKept DEF IngestInv
  <1> QED
    BY <1>1, <1>2

\* Every step keeps the invariant.
LEMMA IngestNextInv == IngestInv /\ [Next]_vars => IngestInv'
  <1> SUFFICES ASSUME IngestInv, [Next]_vars PROVE IngestInv'
    OBVIOUS
  <1>0. TypeOK'
    BY IngestNextType DEF IngestInv
  <1>1. CASE UNCHANGED vars
    BY <1>1 DEF vars, ghosts, IngestInv, TypeOK, PlaceInv, Place, GraphInv, OwnInv, SeenInv, Settled,
       Sees, OnPage, Sighted, Content, Mentions, PagesLandWhole, OwnershipWins, Covers, Untouched, Owners
  <1>2. CASE Next
    BY <1>0, <1>2, StartInv, LookInv, UpdateInv, InsertInv, CollideInv, CommitInv, TroubleInv DEF Next, Step
  <1> QED
    BY <1>1, <1>2

-------------------------------------------------------------------------------
(* The theorems.                                                                *)

\* The types of the tables, of the open transactions and of the workers' places.
THEOREM IngestTypeCorrect == Spec => []TypeOK
  <1>1. Spec => []IngestInv
    BY IngestInitInv, IngestNextInv, PTL DEF Spec
  <1>2. IngestInv => TypeOK
    BY DEF IngestInv
  <1> QED
    BY <1>1, <1>2, PTL

\* One transaction per page, with savepoints around its inserts: whatever rows a page has in
\* common with others, it lands whole or not at all.
THEOREM PagesAreAtomic == Spec => []PagesLandWhole
  <1>1. Spec => []IngestInv
    BY IngestInitInv, IngestNextInv, PTL DEF Spec
  <1>2. IngestInv => PagesLandWhole
    BY DEF IngestInv, GraphInv
  <1> QED
    BY <1>1, <1>2, PTL

\* _add_fan_item: an item that its owner's page has shown is not left a wish, in whatever order
\* the pages land, but for the race that the model records.
THEOREM OwnershipPrevails == Spec => []OwnershipWins
  <1>1. Spec => []IngestInv
    BY IngestInitInv, IngestNextInv, PTL DEF Spec
  <1>2. IngestInv => OwnershipWins
    BY DEF IngestInv, GraphInv
  <1> QED
    BY <1>1, <1>2, PTL

\* No commit takes back what another has committed, though it writes on the strength of reads
\* made before.
THEOREM KnowledgeGrows == Spec => NothingIsForgotten
  <1>1. ASSUME IngestInv, [Next]_vars, NEW k \in Keys, table[k] # None, table' # table
        PROVE  Covers(table'[k], table[k])
    <2>1. PICK w \in Workers : Commit(w)
      BY <1>1 DEF Next, Step, vars, Start, Look, Update, InsertNew, InsertCollides, Retry, GiveUp,
         Interrupt
    <2> QED
      BY <1>1, <2>1, CommitCovers DEF IngestInv
  <1>2. IngestInv /\ [Next]_vars
        => [\A k \in Keys : table[k] # None =>
              /\ table'[k] # None
              /\ table[k].full => table'[k].full
              /\ table[k].id => table'[k].id
              /\ table'[k].wish => table[k].wish]_table
    BY <1>1 DEF Covers
  <1>3. Spec => []IngestInv
    BY IngestInitInv, IngestNextInv, PTL DEF Spec
  <1> QED
    BY <1>2, <1>3, PTL DEF Spec, NothingIsForgotten

-------------------------------------------------------------------------------
(* No page is refused.                                                          *)

\* A key that a page looks for by id.
FanKey(k) == \E p \in Pages : \E n \in DOMAIN Content[p] :
               Content[p][n].kind = "fan" /\ Content[p][n].key = k

\* Whoever mentions a fan that has a page gives the id.
FansIdentified ==
  \A p \in Pages : \A n \in DOMAIN Content[p] : FanKey(Content[p][n].key) => Content[p][n].row.id

Known(k) ==
  /\ table[k] # None => table[k].id
  /\ \A w \in Workers : mine[w][k] # None => mine[w][k].id

KnownInv == NoPageIsRefused /\ \A k \in Keys : FanKey(k) => Known(k)

\* A step that writes nothing but the row of a sighting, which has the id whenever the fan's
\* rows have theirs, keeps the fans known.
LEMMA KnownKept ==
  ASSUME TypeOK, KnownInv, NEW w \in Workers, UNCHANGED table, NoPageIsRefused',
         \/ mine' = mine
         \/ mine' = [mine EXCEPT ![w] = Untouched]
         \/ \E row \in Row : /\ OnPage(w) /\ (FanKey(Sighted(w).key) => row.id)
                             /\ mine' = [mine EXCEPT ![w][Sighted(w).key] = row]
  PROVE  KnownInv'
  <1> SUFFICES ASSUME NEW k \in Keys, FanKey(k), NEW v \in Workers, mine'[v][k] # None
               PROVE  mine'[v][k].id
    BY DEF KnownInv, Known, FanKey, Content, NoPageIsRefused
  <1>1. mine[v][k] # None => mine[v][k].id
    BY DEF KnownInv, Known
  <1>2. CASE mine' = mine
    BY <1>1, <1>2
  <1>3. CASE mine' = [mine EXCEPT ![w] = Untouched]
    BY <1>1, <1>3 DEF TypeOK, Untouched
  <1>4. ASSUME NEW row \in Row, OnPage(w), FanKey(Sighted(w).key) => row.id,
               mine' = [mine EXCEPT ![w][Sighted(w).key] = row]
        PROVE  mine'[v][k].id
    <2>1. mine'[v][k] = IF v = w /\ k = Sighted(w).key THEN row ELSE mine[v][k]
      BY <1>4, SightedType DEF TypeOK
    <2> QED
      BY <1>1, <1>4, <2>1
  <1> QED
    BY <1>2, <1>3, <1>4

\* A row that is there is found: that of a fan has the id it is looked for by.
LEMMA KnownIsFound ==
  ASSUME TypeOK, KnownInv, NEW w \in Workers, OnPage(w), Sees(w, Sighted(w).key) # None
  PROVE  Found(Sighted(w), Sees(w, Sighted(w).key))
  <1> PICK s : s = Sighted(w)
    OBVIOUS
  <1>1. s.key \in Keys /\ (s.kind = "fan" => FanKey(s.key))
    BY SightedType DEF FanKey
  <1>2. FanKey(s.key) => Sees(w, s.key).id
    BY <1>1 DEF KnownInv, Known, Sees
  <1> QED
    BY <1>1, <1>2 DEF Found

\* Every step keeps the fans known and refuses no page.
LEMMA KnownNext == FansIdentified /\ IngestInv /\ KnownInv /\ [Next]_vars => KnownInv'
  <1> SUFFICES ASSUME FansIdentified, IngestInv, KnownInv, [Next]_vars PROVE KnownInv'
    OBVIOUS
  <1>0. TypeOK
    BY DEF IngestInv
  <1>1. CASE UNCHANGED vars
    BY <1>1 DEF vars, ghosts, KnownInv, Known, FanKey, Content, NoPageIsRefused
  <1>2. ASSUME NEW w \in Workers, \/ (\E p \in Pages : Start(w, p)) \/ Look(w)
                                  \/ Retry(w) \/ GiveUp(w) \/ Interrupt(w)
        PROVE  KnownInv'
    <2>1. /\ UNCHANGED table /\ NoPageIsRefused'
          /\ mine' = mine \/ mine' = [mine EXCEPT ![w] = Untouched]
      BY <1>2 DEF Start, Look, Retry, GiveUp, Interrupt, Idle, ghosts, KnownInv, NoPageIsRefused
    <2> QED
      BY <1>0, <2>1, KnownKept
  <1>3. ASSUME NEW w \in Workers, Update(w) PROVE KnownInv'
    <2> DEFINE old == Sees(w, Sighted(w).key)
    <2>1. OnPage(w) /\ old # None
      BY <1>3 DEF IngestInv, PlaceInv, Place, Update
    <2>2. Sighted(w) \in Sighting /\ Sighted(w).key \in Keys /\ old \in Row
      BY <1>0, <2>1, SightedType, SeesType
    <2>3. FanKey(Sighted(w).key) => old.id
      BY <2>1, <2>2 DEF KnownInv, Known, Sees
    <2>4. Enriched(Sighted(w), old) \in Row /\ (old.id => Enriched(Sighted(w), old).id)
      BY <2>2, EnrichedType
    <2>5. UNCHANGED table /\ NoPageIsRefused'
          /\ mine' = [mine EXCEPT ![w][Sighted(w).key] = Enriched(Sighted(w), old)]
      BY <1>3 DEF Update, Write, ghosts, KnownInv, NoPageIsRefused
    <2> QED
      BY <1>0, <2>1, <2>3, <2>4, <2>5, KnownKept
  <1>4. ASSUME NEW w \in Workers, InsertNew(w) PROVE KnownInv'
    <2>1. OnPage(w)
      BY <1>4 DEF IngestInv, PlaceInv, Place, InsertNew
    <2>2. /\ at[w] \in DOMAIN Content[page[w]] /\ page[w] \in Pages
          /\ Sighted(w) = Content[page[w]][at[w]] /\ Sighted(w).row \in Row
      BY <1>0, <2>1, SightedType
    <2>3. FanKey(Sighted(w).key) => Sighted(w).row.id
      BY <2>2 DEF FansIdentified
    <2>4. UNCHANGED table /\ NoPageIsRefused'
          /\ mine' = [mine EXCEPT ![w][Sighted(w).key] = Sighted(w).row]
      BY <1>4 DEF InsertNew, Write, ghosts, KnownInv, NoPageIsRefused
    <2> QED
      BY <1>0, <2>1, <2>2, <2>3, <2>4, KnownKept
  <1>5. ASSUME NEW w \in Workers, InsertCollides(w) PROVE KnownInv'
    <2>1. OnPage(w) /\ Taken(w) /\ UNCHANGED table
      BY <1>5 DEF IngestInv, PlaceInv, Place, InsertCollides
    <2>2. CASE Reselected(Sighted(w), Sees(w, Sighted(w).key))
      <3>1. UNCHANGED mine /\ NoPageIsRefused'
        BY <1>5, <2>2 DEF InsertCollides, LoseInsert, KnownInv, NoPageIsRefused
      <3> QED
        BY <1>0, <2>1, <3>1, KnownKept
    <2>3. CASE ~Reselected(Sighted(w), Sees(w, Sighted(w).key))
      <3>1. Sees(w, Sighted(w).key) = None
        BY <1>0, <2>1, <2>3, KnownIsFound DEF Reselected
      <3>2. Namesakes[Sighted(w).key] # {}
        BY <2>1, <3>1 DEF Taken
      <3>3. Idle(w) /\ refused' = refused \cup {Sighted(w).key}
        BY <1>5, <2>3 DEF InsertCollides
      <3>4. NoPageIsRefused' /\ mine' = [mine EXCEPT ![w] = Untouched]
        BY <3>2, <3>3 DEF KnownInv, NoPageIsRefused, Idle
      <3> QED
        BY <1>0, <2>1, <3>4, KnownKept
    <2> QED
      BY <2>2, <2>3
  <1>6. ASSUME NEW w \in Workers, Commit(w) PROVE KnownInv'
    <2> SUFFICES ASSUME NEW k \in Keys, FanKey(k) PROVE Known(k)'
      BY <1>6 DEF KnownInv, FanKey, Content, Commit, NoPageIsRefused
    <2>1. table'[k] # None => table'[k].id
      BY <1>6 DEF Commit, Sees, KnownInv, Known
    <2>2. \A v \in Workers : mine'[v][k] # None => mine'[v][k].id
      BY <1>0, <1>6 DEF Commit, Idle, TypeOK, Untouched, KnownInv, Known
    <2> QED
      BY <2>1, <2>2 DEF Known
  <1> QED
    BY <1>1, <1>2, <1>3, <1>4, <1>5, <1>6 DEF Next, Step

\* get_or_create_fan and its kin: as long as every page that mentions a fan gives the id, the only
\* page that fails on a unique key is one of a fan under another fan's username or address, whoever
\* inserts first.
THEOREM IdentifiedFansAreSafe == FansIdentified => (Spec => []NoPageIsRefused)
  <1> SUFFICES ASSUME FansIdentified PROVE Spec => []NoPageIsRefused
    OBVIOUS
  <1>1. Init => KnownInv
    BY DEF Init, KnownInv, Known, Untouched, NoPageIsRefused
  <1>2. IngestInv /\ KnownInv /\ [Next]_vars => KnownInv'
    BY KnownNext
  <1>3. KnownInv => NoPageIsRefused
    BY DEF KnownInv
  <1> QED
    BY <1>1, <1>2, <1>3, IngestInitInv, IngestNextInv, PTL DEF Spec

-------------------------------------------------------------------------------
(* The store that the workers make up.                                          *)

\* The facts of a row are facts; there is one as soon as there is a row.
LEMMA FactsType ==
  ASSUME NEW r \in Row \cup {None}
  PROVE  /\ FactsOf(r) \subseteq {"there", "full", "id", "owned"}
         /\ r = None => FactsOf(r) = {}
         /\ r # None => "there" \in FactsOf(r)
  BY Zenon DEF FactsOf

\* What covers a row holds its facts.
LEMMA CoversFacts ==
  ASSUME NEW new \in Row \cup {None}, NEW old \in Row \cup {None}, Covers(new, old)
  PROVE  FactsOf(old) \subseteq FactsOf(new)
  BY IngestAssumption DEF IngestAssumption, Row, FactsOf, Covers

\* Filling in adds what the sighting tells.
LEMMA EnrichedFacts ==
  ASSUME NEW s \in Sighting, NEW r \in Row
  PROVE  FactsOf(Enriched(s, r)) \subseteq FactsOf(r) \cup FactsOf(s.row)
  BY IngestAssumption DEF IngestAssumption, Sighting, Row, FactsOf, Enriched

\* A page tells what its sightings tell.
LEMMA SightingTold ==
  ASSUME NEW p \in Pages, NEW n \in DOMAIN Content[p]
  PROVE  FactsOf(Content[p][n].row) \subseteq Told(p, Content[p][n].key)
  BY DEF Told

\* What a transaction has written is what was committed, with what its page tells.
MadeInv ==
  \A w \in Workers : \A k \in Keys : mine[w][k] # None =>
    FactsOf(mine[w][k]) \subseteq FactsOf(table[k]) \cup Told(page[w], k)

\* A page is under way only after those that its visit reads before.
OrderInv == \A w \in Workers : pc[w] # "idle" => After[page[w]] \subseteq landed

StoreInv == IngestInv /\ MadeInv /\ OrderInv

\* At the start nothing is written and nobody at work.
LEMMA StoreInitInv == Init => StoreInv
  BY IngestInitInv DEF Init, StoreInv, MadeInv, OrderInv, Untouched

\* A row made of what a worker sees and of what the sighting at its place tells is made as
\* MadeInv says.
LEMMA WriteMade ==
  ASSUME IngestInv, MadeInv, NEW w \in Workers, NEW new \in Row, OnPage(w), Write(w, new),
         UNCHANGED <<table, page>>,
         FactsOf(new) \subseteq FactsOf(Sees(w, Sighted(w).key)) \cup FactsOf(Sighted(w).row)
  PROVE  MadeInv'
  <1> SUFFICES ASSUME NEW v \in Workers, NEW k \in Keys, mine'[v][k] # None
               PROVE  FactsOf(mine'[v][k]) \subseteq FactsOf(table[k]) \cup Told(page[v], k)
    BY DEF MadeInv, FactsOf, Told, Content
  <1>1. /\ at[w] \in DOMAIN Content[page[w]] /\ page[w] \in Pages
        /\ Sighted(w) = Content[page[w]][at[w]] /\ Sighted(w).key \in Keys
    BY SightedType DEF IngestInv
  <1>2. mine'[v][k] = IF v = w /\ k = Sighted(w).key THEN new ELSE mine[v][k]
    BY <1>1 DEF Write, IngestInv, TypeOK
  <1>3. CASE v = w /\ k = Sighted(w).key
    <2>1. FactsOf(Sighted(w).row) \subseteq Told(page[w], k)
      BY <1>1, <1>3, SightingTold
    <2>2. FactsOf(Sees(w, k)) \subseteq FactsOf(table[k]) \cup Told(page[w], k)
      BY <1>1, <1>3 DEF MadeInv, Sees
    <2> QED
      BY <1>2, <1>3, <2>1, <2>2
  <1>4. CASE ~(v = w /\ k = Sighted(w).key)
    BY <1>2, <1>4 DEF MadeInv
  <1> QED
    BY <1>3, <1>4

\* A step that writes nothing, and takes up a page only with an empty transaction.
LEMMA MoveMade ==
  ASSUME IngestInv, MadeInv, NEW w \in Workers, table' = table,
         mine' = mine \/ mine' = [mine EXCEPT ![w] = Untouched],
         \A v \in Workers : page'[v] = page[v] \/ mine'[v] = Untouched
  PROVE  MadeInv'
  <1> SUFFICES ASSUME NEW v \in Workers, NEW k \in Keys, mine'[v][k] # None
               PROVE  FactsOf(mine'[v][k]) \subseteq FactsOf(table[k]) \cup Told(page'[v], k)
    BY DEF MadeInv, FactsOf, Told, Content
  <1>1. mine'[v] # Untouched
    BY DEF Untouched
  <1>2. page'[v] = page[v] /\ mine'[v] = mine[v]
    BY <1>1 DEF IngestInv, TypeOK
  <1> QED
    BY <1>2 DEF MadeInv

\* The rows that others have written rest on what is committed, which a commit leaves alone.
LEMMA CommitMade ==
  ASSUME IngestInv, MadeInv, NEW w \in Workers, Commit(w)
  PROVE  MadeInv'
  <1> SUFFICES ASSUME NEW v \in Workers, NEW k \in Keys, mine'[v][k] # None
               PROVE  FactsOf(mine'[v][k]) \subseteq FactsOf(table'[k]) \cup Told(page'[v], k)
    BY DEF MadeInv, FactsOf, Told, Content
  <1>1. v # w /\ mine'[v] = mine[v] /\ page'[v] = page[v]
    BY DEF Commit, Idle, Leave, Untouched, IngestInv, TypeOK
  <1>2. table'[k] = table[k]
    BY <1>1, CommitSpares DEF IngestInv
  <1> QED
    BY <1>1, <1>2 DEF MadeInv

\* Every step keeps MadeInv.
LEMMA MadeNext == IngestInv /\ MadeInv /\ [Next]_vars => MadeInv'
  <1> SUFFICES ASSUME IngestInv, MadeInv, [Next]_vars PROVE MadeInv'
    OBVIOUS
  <1>1. CASE UNCHANGED vars
    BY <1>1 DEF vars, ghosts, MadeInv, FactsOf, Told, Content
  <1>2. ASSUME NEW w \in Workers, NEW p \in Pages, Start(w, p) PROVE MadeInv'
    <2>1. mine[w] = Untouched
      BY <1>2 DEF IngestInv, PlaceInv, Place, Start
    <2>2. /\ table' = table /\ mine' = mine
          /\ \A v \in Workers : page'[v] = page[v] \/ mine'[v] = Untouched
      BY <1>2, <2>1 DEF Start, IngestInv, TypeOK
    <2> QED
      BY <2>2, MoveMade
  <1>3. ASSUME NEW w \in Workers, Look(w) \/ Retry(w) PROVE MadeInv'
    <2>1. /\ table' = table /\ page' = page
          /\ mine' = mine \/ mine' = [mine EXCEPT ![w] = Untouched]
      BY <1>3 DEF Look, Retry
    <2> QED
      BY <2>1, MoveMade
  <1>4. ASSUME NEW w \in Workers, Update(w) PROVE MadeInv'
    <2> DEFINE old == Sees(w, Sighted(w).key)
    <2>1. OnPage(w) /\ old # None
      BY <1>4 DEF IngestInv, PlaceInv, Place, Update
    <2>2. Sighted(w) \in Sighting /\ old \in Row
      BY <2>1, SightedType, SeesType DEF IngestInv
    <2>3. /\ Enriched(Sighted(w), old) \in Row
          /\ FactsOf(Enriched(Sighted(w), old)) \subseteq FactsOf(old) \cup FactsOf(Sighted(w).row)
      BY <2>2, EnrichedType, EnrichedFacts
    <2> QED
      BY <1>4, <2>1, <2>3, WriteMade DEF Update
  <1>5. ASSUME NEW w \in Workers, InsertNew(w) PROVE MadeInv'
    <2>1. OnPage(w)
      BY <1>5 DEF IngestInv, PlaceInv, Place, InsertNew
    <2>2. Sighted(w).row \in Row
      BY <2>1, SightedType DEF IngestInv
    <2> QED
      BY <1>5, <2>1, <2>2, WriteMade DEF InsertNew
  <1>6. ASSUME NEW w \in Workers, table' = table, Idle(w) PROVE MadeInv'
    <2>1. /\ mine' = [mine EXCEPT ![w] = Untouched]
          /\ \A v \in Workers : page'[v] = page[v] \/ mine'[v] = Untouched
      BY <1>6 DEF Idle, Leave, IngestInv, TypeOK
    <2> QED
      BY <1>6, <2>1, MoveMade
  <1>7. ASSUME NEW w \in Workers, InsertCollides(w) PROVE MadeInv'
    <2>1. table' = table /\ (Idle(w) \/ UNCHANGED <<mine, page>>)
      BY <1>7 DEF InsertCollides, LoseInsert
    <2> QED
      BY <1>6, <2>1, MoveMade
  <1>8. ASSUME NEW w \in Workers, GiveUp(w) \/ Interrupt(w) PROVE MadeInv'
    BY <1>6, <1>8 DEF GiveUp, Interrupt
  <1> QED
    BY <1>1, <1>2, <1>3, <1>4, <1>5, <1>7, <1>8, CommitMade DEF Next, Step

\* Every step keeps OrderInv: pages are taken up after those before them, and none is withdrawn.
LEMMA OrderNext == TypeOK /\ OrderInv /\ [Next]_vars => OrderInv'
  <1> SUFFICES ASSUME TypeOK, OrderInv, [Next]_vars, NEW v \in Workers, pc'[v] # "idle"
               PROVE  After[page'[v]] \subseteq landed'
    BY DEF OrderInv
  <1>1. CASE UNCHANGED vars
    BY <1>1 DEF vars, ghosts, OrderInv
  <1>2. ASSUME NEW w \in Workers, NEW p \in Pages, Start(w, p)
        PROVE  After[page'[v]] \subseteq landed'
    BY <1>2 DEF Start, OrderInv, TypeOK, ghosts
  <1>3. ASSUME NEW w \in Workers, Step(w) \/ Interrupt(w)
        PROVE  After[page'[v]] \subseteq landed'
    <2>1. landed \subseteq landed'
      BY <1>3 DEF Step, Look, Update, InsertNew, InsertCollides, Commit, Retry, GiveUp, Interrupt,
         ghosts
    <2>2. pc[v] # "idle" /\ page'[v] = page[v]
      <3>1. CASE Idle(w)
        BY <3>1 DEF Idle, Leave, TypeOK
      <3>2. CASE ~Idle(w)
        BY <1>3, <3>2 DEF Step, Look, Update, Write, GoOn, InsertNew, InsertCollides, Commit, Retry,
           GiveUp, Interrupt, Deadlocked, WaitsFor, TypeOK
      <3> QED
        BY <3>1, <3>2
    <2> QED
      BY <2>1, <2>2 DEF OrderInv
  <1> QED
    BY <1>1, <1>2, <1>3 DEF Next

\* A commit lands the worker's page, as the store has it.
LEMMA CommitLands ==
  ASSUME StoreInv, IngestInv', NEW w \in Workers, Commit(w)
  PROVE  Store!Land(page[w])
  <1>1. page[w] \in Pages /\ landed' = landed \cup {page[w]}
    BY DEF Commit, StoreInv, IngestInv, TypeOK
  <1>2. After[page[w]] \subseteq landed
    BY DEF StoreInv, OrderInv, Commit
  <1>3. ASSUME NEW k \in Keys
        PROVE  /\ FactsOf(table'[k]) \subseteq {"there", "full", "id", "owned"}
               /\ FactsOf(table[k]) \subseteq FactsOf(table'[k])
               /\ FactsOf(table'[k]) \subseteq FactsOf(table[k]) \cup Tells[page[w]][k]
               /\ Tells[page[w]][k] # {} => FactsOf(table'[k]) # {}
    <2>1. table[k] \in Row \cup {None} /\ table'[k] \in Row \cup {None}
      BY DEF StoreInv, IngestInv, TypeOK
    <2>2. table'[k] = Sees(w, k) /\ Covers(table'[k], table[k])
      BY CommitCovers DEF StoreInv, IngestInv
    <2>3. Tells[page[w]][k] = Told(page[w], k)
      BY <1>1 DEF Tells
    <2>4. FactsOf(table'[k]) \subseteq FactsOf(table[k]) \cup Told(page[w], k)
      BY <2>2 DEF StoreInv, MadeInv, Sees
    <2>5. Told(page[w], k) # {} => k \in Mentions(page[w])
      BY DEF Told, Mentions
    <2>6. k \in Mentions(page[w]) => table'[k] # None
      BY <1>1 DEF IngestInv, GraphInv, PagesLandWhole, Mentions, Content
    <2> QED
      BY <2>1, <2>2, <2>3, <2>4, <2>5, <2>6, FactsType, CoversFacts
  <1> QED
    BY <1>1, <1>2, <1>3 DEF Store!Land, FactsOf

\* Every step lands a page or leaves the store as it is.
LEMMA NextStores == StoreInv /\ IngestInv' /\ [Next]_vars => [Store!Next]_Store!storeVars
  <1> SUFFICES ASSUME StoreInv, IngestInv', [Next]_vars PROVE [Store!Next]_Store!storeVars
    OBVIOUS
  <1>1. ASSUME NEW w \in Workers, Commit(w) PROVE Store!Next
    BY <1>1, CommitLands DEF Store!Next, StoreInv, IngestInv, TypeOK
  <1>2. CASE UNCHANGED <<table, landed>>
    BY <1>2 DEF Store!storeVars, FactsOf
  <1> QED
    BY <1>1, <1>2 DEF vars, ghosts, Next, Step, Start, Look, Update, InsertNew, InsertCollides, Retry,
       GiveUp, Interrupt

\* One transaction per page, get-or-create, enrichment and _DB_RETRIES: to whoever reads the graph,
\* any number of workers with overlapping pages are one that lands a page at a time.  Nothing that
\* was known is lost, and nothing is known that no page has told.
THEOREM WorkersMakeUpAStore == Spec => StoreSpec
  <1>1. Init => Store!Init
    BY DEF Init, Store!Init, Untouched, FactsOf
  <1>2. StoreInv /\ [Next]_vars => StoreInv' /\ [Store!Next]_Store!storeVars
    BY IngestNextInv, MadeNext, OrderNext, NextStores DEF StoreInv, IngestInv
  <1> QED
    BY <1>1, <1>2, StoreInitInv, PTL DEF Spec, StoreSpec, Store!Spec
================================================================================
