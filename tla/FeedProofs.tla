------------------------------ MODULE FeedProofs -------------------------------
(* Proofs about Feed, for any number of items, curates, likes and readers.      *)
EXTENDS Feed, TLAPS

\* The types in four parts: the feed and its history, the curates, the dismissals, the readers.
FeedType ==
  /\ graph \subseteq Items /\ dismissed \subseteq Bands
  /\ rows \subseteq Row /\ generation \in Nat
  /\ mark \in BOOLEAN /\ window \subseteq ApiCurates /\ restored \in BOOLEAN
  /\ overlapped \subseteq Curates /\ raced \in BOOLEAN /\ overwritten \in BOOLEAN

CurateType ==
  /\ pc \in [Curates -> {"idle", "accepted", "loaded", "scored", "deleting", "storing",
                         "stored", "failed"}]
  /\ base \in [Curates -> Nat]
  /\ scored \in [Curates -> SUBSET Items]
  /\ target \in [Curates -> SUBSET Row]

PruneType ==
  /\ dismissal \subseteq Bands
  /\ found \in [Bands -> SUBSET Row]
  /\ \A b \in Bands : \A row \in found[b] : BandOf[row[1]] = b
  /\ changes \in Nat

ReaderType ==
  /\ reading \in [Readers -> {"idle", "tagged", "half"}]
  /\ tag \in [Readers -> Nat]
  /\ facet \in [Readers -> SUBSET Row]
  /\ cache \in [Readers -> Response]

\* TypeOK is the four together.
LEMMA TypeParts == TypeOK <=> FeedType /\ CurateType /\ PruneType /\ ReaderType
  BY DEF TypeOK, FeedType, CurateType, PruneType, ReaderType

\* The types hold before anything is crawled.
LEMMA FeedInitType == Init => TypeOK
  <1> SUFFICES ASSUME Init PROVE FeedType /\ CurateType /\ PruneType /\ ReaderType
    BY TypeParts
  <1> USE DEF Init
  <1>1. raced \in BOOLEAN /\ overwritten \in BOOLEAN /\ mark \in BOOLEAN /\ restored \in BOOLEAN
    BY Zenon
  <1>2. FeedType
    BY <1>1 DEF FeedType
  <1>3. CurateType /\ PruneType
    BY DEF CurateType, PruneType
  <1>4. ReaderType
    BY DEF ReaderType, Response, NoResponse
  <1> QED
    BY <1>2, <1>3, <1>4

\* Every step of a curate keeps the types.
LEMMA CurateKeepsTypes ==
  ASSUME TypeOK, NEW c \in Curates, Accept(c) \/ Refuse(c) \/ Curate(c)
  PROVE  TypeOK'
  <1> USE FeedAssumption DEF FeedAssumption, TypeOK, curateVars, dismissVars, readVars, coolVars
  <1>1. CASE Accept(c) \/ Refuse(c)
    BY <1>1 DEF Accept, Refuse
  <1>2. CASE Load(c) \/ Score(c) \/ StartDelete(c) \/ FinishDelete(c)
    BY <1>2 DEF Load, Score, StartDelete, FinishDelete, Recommendable, Replaced
  <1>3. CASE Store(c)
    <2>1. raced' \in BOOLEAN /\ overwritten' \in BOOLEAN
      BY <1>3 DEF Store
    <2>2. rows' \subseteq Row
      BY <1>3 DEF Store, Row
    <2> QED
      BY <1>3, <2>1, <2>2 DEF Store, End, NextGeneration
  <1>4. CASE Collide(c)
    BY <1>4 DEF Collide, End
  <1> QED
    BY <1>1, <1>2, <1>3, <1>4 DEF Curate

\* So does every like, block or withdrawal.
LEMMA DismissalKeepsTypes ==
  ASSUME TypeOK, NEW b \in Bands,
         Like(b) \/ Block(b) \/ Dismissing(b) \/ Unlike(b) \/ Unblock(b) \/ Expire(b)
  PROVE  TypeOK'
  <1> USE FeedAssumption DEF FeedAssumption, TypeOK, curateVars, dismissVars, readVars, coolVars
  <1>1. CASE Like(b) \/ Block(b)
    BY <1>1 DEF Like, Block, Dismiss, Pruned
  <1>2. CASE Dismissing(b)
    BY <1>2 DEF Dismissing
  <1>3. CASE Unlike(b) \/ Unblock(b) \/ Expire(b)
    BY <1>3 DEF Unlike, Unblock, Withdraw, Expire
  <1> QED
    BY <1>1, <1>2, <1>3

\* So does every step of a reader.
LEMMA ReadKeepsTypes ==
  ASSUME TypeOK, NEW r \in Readers, Read(r)
  PROVE  TypeOK'
  <1> USE DEF TypeOK, curateVars, dismissVars, readVars, coolVars
  <1>1. CASE ReadTag(r) \/ ReadTagFacet(r)
    BY <1>1 DEF ReadTag, ReadTagFacet
  <1>2. ASSUME NEW first \in SUBSET Row, NEW second \in SUBSET Row, Answer(r, first, second)
        PROVE  ReaderType'
    <2>1. [tag |-> tag[r], first |-> first, second |-> second] \in Response
      BY DEF Response
    <2> QED
      BY <1>2, <2>1 DEF Answer, ReaderType
  <1>3. CASE ReadRows(r) \/ ReadLabelFacet(r)
    <2>1. ReaderType'
      BY <1>2, <1>3 DEF ReadRows, ReadLabelFacet
    <2> QED
      BY <1>3, <2>1 DEF ReadRows, ReadLabelFacet, ReaderType
  <1> QED
    BY <1>1, <1>3 DEF Read

\* So does every step.
LEMMA FeedNextType == TypeOK /\ [Next]_vars => TypeOK'
  <1> SUFFICES ASSUME TypeOK, [Next]_vars PROVE TypeOK'
    OBVIOUS
  <1>1. CASE Restart
    BY <1>1 DEF Restart, TypeOK, readVars
  <1>2. CASE CoolDown \/ \E i \in Items : Discover(i)
    BY <1>2 DEF CoolDown, Discover, TypeOK, curateVars, dismissVars, readVars, coolVars
  <1>3. CASE UNCHANGED vars
    BY <1>3 DEF vars, TypeOK, curateVars, dismissVars, readVars, coolVars
  <1> QED
    BY <1>1, <1>2, <1>3, CurateKeepsTypes, DismissalKeepsTypes, ReadKeepsTypes DEF Next

\* The feed, its curates, dismissals and readers have their types, whatever the instance.
THEOREM FeedTypeCorrect == Spec => []TypeOK
  <1> QED
    BY FeedInitType, FeedNextType, PTL DEF Spec

-------------------------------------------------------------------------------
\* What makes a tag truthful.  No tag is ahead of the generation, and what was read under the
\* present one is what the table holds: rows change only together with the generation, which
\* only grows as long as no curate overwrites one it has not read.
TagInv ==
  ~overwritten =>
    \A r \in Readers :
      /\ tag[r] <= generation /\ cache[r].tag <= generation
      /\ reading[r] = "half" /\ tag[r] = generation => facet[r] = rows
      /\ cache[r].tag = generation => cache[r].first = rows /\ cache[r].second = rows

\* It is true of the empty feed.
LEMMA TagInit == Init => TagInv
  BY DEF Init, TagInv, NoResponse

\* It survives every step: those that change rows raise the generation past every tag.
LEMMA TagNext == TypeOK /\ TagInv /\ [Next]_vars => TagInv'
  <1> SUFFICES ASSUME TypeOK, TagInv, [Next]_vars, ~overwritten' PROVE TagInv'
    BY DEF TagInv
  <1> USE DEF curateVars, dismissVars, readVars, coolVars
  <1>1. generation \in Nat /\ tag \in [Readers -> Nat] /\ cache \in [Readers -> Response]
    BY DEF TypeOK
  <1>2. ASSUME UNCHANGED <<rows, generation, readVars, overwritten>> PROVE TagInv'
    BY <1>2 DEF TagInv
  <1>3. ASSUME generation' = generation + 1, ~overwritten, UNCHANGED readVars PROVE TagInv'
    <2>1. \A r \in Readers : cache[r].tag \in Nat
      BY <1>1 DEF Response
    <2> QED
      BY <1>1, <1>3, <2>1 DEF TagInv
  <1>4. ASSUME NEW c \in Curates, Accept(c) \/ Refuse(c) \/ Curate(c) PROVE TagInv'
    <2>1. CASE Store(c)
      BY <1>3, <2>1 DEF Store, NextGeneration
    <2>2. CASE Accept(c) \/ Refuse(c) \/ Load(c) \/ Score(c) \/ StartDelete(c) \/ FinishDelete(c)
               \/ Collide(c)
      BY <1>2, <2>2 DEF Accept, Refuse, Load, Score, StartDelete, FinishDelete, Collide
    <2> QED
      BY <1>4, <2>1, <2>2 DEF Curate
  <1>5. ASSUME NEW b \in Bands,
               Like(b) \/ Block(b) \/ Dismissing(b) \/ Unlike(b) \/ Unblock(b) \/ Expire(b)
        PROVE  TagInv'
    <2>1. CASE Like(b) \/ Block(b) \/ Expire(b)
      BY <1>2, <2>1 DEF Like, Block, Dismiss, Expire
    <2>2. CASE Dismissing(b) \/ Unlike(b) \/ Unblock(b)
      BY <1>3, <2>2 DEF Dismissing, Unlike, Unblock, Withdraw
    <2> QED
      BY <1>5, <2>1, <2>2
  <1>6. ASSUME NEW r \in Readers, Read(r) PROVE TagInv'
    <2>1. CASE ReadTag(r)
      BY <1>1, <2>1 DEF ReadTag, TagInv, TypeOK
    <2>2. CASE ReadTagFacet(r)
      BY <1>1, <2>2 DEF ReadTagFacet, TagInv, TypeOK
    <2>3. CASE ReadRows(r)
      BY <1>1, <2>3 DEF ReadRows, Answer, TagInv, TypeOK
    <2>4. CASE ReadLabelFacet(r)
      BY <1>1, <2>4 DEF ReadLabelFacet, Answer, TagInv, TypeOK
    <2> QED
      BY <1>6, <2>1, <2>2, <2>3, <2>4 DEF Read
  <1>7. CASE Restart \/ CoolDown \/ \E i \in Items : Discover(i)
    BY <1>2, <1>7 DEF Restart, CoolDown, Discover
  <1>8. CASE UNCHANGED vars
    BY <1>2, <1>8 DEF vars
  <1> QED
    BY <1>4, <1>5, <1>6, <1>7, <1>8 DEF Next

\* Without overwritten generations, a reader who is told 304 has the rows of the table.
THEOREM ReadersAreNotDeceived == Spec => []TagIsTruthful
  <1>1. TagInv => TagIsTruthful
    BY DEF TagInv, TagIsTruthful
  <1> QED
    BY <1>1, FeedTypeCorrect, TagInit, TagNext, PTL DEF Spec

-------------------------------------------------------------------------------
\* A call in the window keeps the mark there, and with it every other call out, until a call that
\* is refused late takes that mark away.
WindowInv == CooldownHonoured /\ (~restored /\ window # {} => mark)

\* One process lets one call through per cooldown, however many come and whichever fail, unless
\* some call was refused only after its own cooldown.
THEOREM OneCallPerCooldown == Spec => []CooldownHonoured
  <1>1. Init => WindowInv
    BY DEF Init, WindowInv, CooldownHonoured
  <1>2. WindowInv /\ [Next]_vars => WindowInv'
    <2> SUFFICES ASSUME WindowInv, [Next]_vars PROVE WindowInv'
      OBVIOUS
    <2> USE DEF WindowInv, CooldownHonoured
    <2>1. ASSUME UNCHANGED coolVars PROVE WindowInv'
      BY <2>1 DEF coolVars
    <2>2. ASSUME NEW c \in Curates, Accept(c) \/ Refuse(c) PROVE WindowInv'
      <3>1. CASE Accept(c)
        BY <3>1 DEF Accept, CooledDown
      <3>2. CASE Refuse(c)
        BY <3>2 DEF Refuse
      <3> QED
        BY <2>2, <3>1, <3>2
    <2>3. CASE Restart \/ CoolDown
      BY <2>3 DEF Restart, CoolDown
    <2>4. ASSUME NEW c \in Curates, Curate(c) PROVE WindowInv'
      BY <2>1, <2>4 DEF Curate, Load, Score, StartDelete, FinishDelete, Store, Collide
    <2>5. ASSUME NEW b \in Bands,
                 Like(b) \/ Block(b) \/ Dismissing(b) \/ Unlike(b) \/ Unblock(b) \/ Expire(b)
          PROVE  WindowInv'
      BY <2>1, <2>5 DEF Like, Block, Dismiss, Dismissing, Unlike, Unblock, Withdraw, Expire
    <2>6. ASSUME NEW r \in Readers, Read(r) PROVE WindowInv'
      BY <2>1, <2>6 DEF Read, ReadTag, ReadRows, ReadTagFacet, ReadLabelFacet
    <2>7. CASE \E i \in Items : Discover(i)
      BY <2>1, <2>7 DEF Discover
    <2>8. CASE UNCHANGED vars
      BY <2>1, <2>8 DEF vars
    <2> QED
      BY <2>2, <2>3, <2>4, <2>5, <2>6, <2>7, <2>8 DEF Next
  <1>3. WindowInv => CooldownHonoured
    BY DEF WindowInv
  <1> QED
    BY <1>1, <1>2, <1>3, PTL DEF Spec

-------------------------------------------------------------------------------
\* A curate that nothing overlapped still has the exclusions and the rows of the table in hand.
Undisturbed ==
  \A c \in Curates \ overlapped :
    /\ pc[c] \in {"scored", "deleting", "storing"} =>
         \A i \in scored[c] : BandOf[i] \notin dismissed
    /\ pc[c] \in {"deleting", "storing"} => target[c] = rows

\* After an undisturbed store the feed is that curate's ranking without the dismissed bands, and a
\* dismissal under way has found all it must prune.
Ranked ==
  ~raced =>
    /\ \A row \in rows : BandOf[row[1]] \notin dismissed
    /\ \A b \in dismissal : \A row \in rows : BandOf[row[1]] = b => row \in found[b]
    /\ \A p, q \in rows : p[2] = q[2]
    /\ \A row \in rows : pc[row[2]] = "stored" /\ row[1] \in scored[row[2]]

RankingInv == Undisturbed /\ Ranked

\* It is true of the empty feed.
LEMMA RankingInit == Init => RankingInv
  BY DEF Init, RankingInv, Undisturbed, Ranked

\* A curate's steps up to its DELETE, and its failures, leave the feed alone.
LEMMA CurateKeepsRanking ==
  ASSUME TypeOK, RankingInv, NEW c \in Curates,
         \/ Accept(c) \/ Refuse(c) \/ Load(c) \/ Score(c)
         \/ StartDelete(c) \/ FinishDelete(c) \/ Collide(c)
  PROVE  RankingInv'
  <1> USE DEF TypeOK, Row, RankingInv, Undisturbed, Ranked, curateVars, dismissVars
  <1>1. CASE Accept(c) \/ Refuse(c)
    BY <1>1 DEF Accept, Refuse
  <1>2. CASE Load(c)
    BY <1>2 DEF Load
  <1>3. CASE Score(c)
    BY <1>3 DEF Score, Recommendable
  <1>4. CASE StartDelete(c)
    BY <1>4 DEF StartDelete, Replaced
  <1>5. CASE FinishDelete(c)
    BY <1>5 DEF FinishDelete
  <1>6. CASE Collide(c)
    BY <1>6 DEF Collide, End
  <1> QED
    BY <1>1, <1>2, <1>3, <1>4, <1>5, <1>6

\* A store disturbs the other curates; if nothing has disturbed it, the feed is its ranking.
LEMMA StoreKeepsRanking ==
  ASSUME TypeOK, RankingInv, NEW c \in Curates, Store(c)
  PROVE  RankingInv'
  <1> USE DEF TypeOK, Store, End, dismissVars
  <1>1. Undisturbed'
    <2> SUFFICES ASSUME NEW d \in Curates, d \notin overlapped',
                        pc'[d] \in {"scored", "deleting", "storing"}
                 PROVE  FALSE
      BY DEF Undisturbed
    <2>1. d # c /\ pc[d] = pc'[d]
      OBVIOUS
    <2> QED
      BY <2>1 DEF Reading, Running
  <1>2. Ranked'
    <2> SUFFICES ASSUME ~raced' PROVE Ranked'
      BY DEF Ranked
    <2>1. c \notin overlapped /\ dismissal = {}
      BY Zenon
    <2>2. rows' = scored[c] \X {c} /\ \A i \in scored[c] : BandOf[i] \notin dismissed
      BY <2>1 DEF RankingInv, Undisturbed
    <2>3. pc'[c] = "stored" /\ scored' = scored /\ dismissal' = {} /\ dismissed' = dismissed
      BY <2>1
    <2> QED
      BY <2>2, <2>3 DEF Ranked
  <1> QED
    BY <1>1, <1>2 DEF RankingInv

\* A dismissal disturbs every curate under way, and prunes what it has found.
LEMMA DismissalKeepsRanking ==
  ASSUME TypeOK, RankingInv, NEW b \in Bands,
         Like(b) \/ Block(b) \/ Dismissing(b) \/ Unlike(b) \/ Unblock(b) \/ Expire(b)
  PROVE  RankingInv'
  <1> USE DEF TypeOK, Row, RankingInv, curateVars
  <1>1. CASE Like(b) \/ Block(b)
    BY <1>1 DEF Like, Block, Dismiss, Pruned, Undisturbed, Ranked
  <1>2. CASE Dismissing(b)
    <2>1. Undisturbed'
      BY <1>2 DEF Dismissing, Reading, Running, Undisturbed
    <2>2. Ranked'
      BY <1>2 DEF Dismissing, Ranked
    <2> QED
      BY <2>1, <2>2
  <1>3. CASE Unlike(b) \/ Unblock(b) \/ Expire(b)
    BY <1>3 DEF Unlike, Unblock, Withdraw, Expire, Undisturbed, Ranked
  <1> QED
    BY <1>1, <1>2, <1>3

\* Nothing else touches the feed.
LEMMA RankingNext == TypeOK /\ RankingInv /\ [Next]_vars => RankingInv'
  <1> SUFFICES ASSUME TypeOK, RankingInv, [Next]_vars PROVE RankingInv'
    OBVIOUS
  <1> USE DEF RankingInv, Undisturbed, Ranked, curateVars, dismissVars, coolVars, readVars
  <1>1. CASE Restart
    BY <1>1 DEF Restart, Running, TypeOK, Row
  <1>2. CASE CoolDown \/ \E i \in Items : Discover(i)
    BY <1>2 DEF CoolDown, Discover
  <1>3. ASSUME NEW r \in Readers, Read(r) PROVE RankingInv'
    BY <1>3 DEF Read, ReadTag, ReadRows, ReadTagFacet, ReadLabelFacet
  <1>4. CASE UNCHANGED vars
    BY <1>4 DEF vars
  <1>5. ASSUME NEW c \in Curates, Accept(c) \/ Refuse(c) \/ Curate(c) PROVE RankingInv'
    BY <1>5, CurateKeepsRanking, StoreKeepsRanking DEF Curate
  <1> QED
    BY <1>1, <1>2, <1>3, <1>4, <1>5, DismissalKeepsRanking DEF Next

\* A store that nothing overlaps leaves one curate's ranking, whatever happened before it.
THEOREM UndisturbedFeedIsOneRanking == Spec => []FeedIsOneRanking
  <1>1. RankingInv => FeedIsOneRanking
    BY DEF RankingInv, Ranked, FeedIsOneRanking
  <1> QED
    BY <1>1, FeedTypeCorrect, RankingInit, RankingNext, PTL DEF Spec

\* And no row of a band that is liked or blocked.
THEOREM DismissedBandsStayOut == Spec => []DismissedStayOut
  <1>1. RankingInv => DismissedStayOut
    BY DEF RankingInv, Ranked, DismissedStayOut
  <1> QED
    BY <1>1, FeedTypeCorrect, RankingInit, RankingNext, PTL DEF Spec
================================================================================
