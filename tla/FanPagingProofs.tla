--------------------------- MODULE FanPagingProofs ---------------------------
(* Proofs about FanPaging, for lists of any length, any page budget and any     *)
(* number of broken visits.                                                     *)
EXTENDS FanPaging, FiniteSetTheorems, TLAPS

\* The mode of the entry agrees with the mode of its visit, and a visit that pages has
\* one page in hand at most.
TypeInv ==
    /\ TypeOK
    /\ phase # "paging" => row = "visiting"
    /\ hand # NoTokens => row = "visiting" /\ phase = "paging"
    /\ \A r, s \in Streams : hand[r] # 0 /\ hand[s] # 0 => r = s

\* The types of what the actions are built from.
LEMMA PagingBounds ==
    /\ PageCount \in [Streams -> Nat \ {0}]
    /\ PagesPerVisit \in Nat \ {0} /\ MaxBreaks \in Nat /\ MaxBacks \in Nat /\ MaxSpent \in Nat
    /\ NoTokens \in [Streams -> Nat] /\ FirstTokens \in [Streams -> Nat]
    /\ Wanted \subseteq Streams /\ "collection" \in Wanted
  BY FanPagingAssumption DEF FanPagingAssumption, NoTokens, FirstTokens, NextToken, Wanted, Streams

\* A page goes into one list, and its bookmark is the row's.
LEMMA AbsorbType ==
    ASSUME TypeOK, NEW s \in Streams, NEW n \in Nat, NEW t \in [Streams -> Nat], Absorb(s, n, t)
    PROVE  /\ cursor' \in [Streams -> Nat] /\ tokens' \in [Streams -> Nat]
           /\ ingested' \in [Streams -> SUBSET Nat] /\ fresh' \in [Streams -> SUBSET Nat]
  BY DEF TypeOK, Absorb, Snapshot

\* The next token of a list is the place after the page just read, or None.
LEMMA NextTokens ==
    ASSUME TypeOK, NEW s \in Streams, NEW nxt \in Nat, NEW more \in BOOLEAN
    PROVE  [tokens EXCEPT ![s] = NextToken(tokens[s], nxt, more)] \in [Streams -> Nat]
  BY DEF TypeOK, NextToken

\* Types hold in the first state.
LEMMA PagingInitType == Init => TypeInv
  BY PagingBounds DEF Init, TypeInv, TypeOK, NoTokens, Streams

\* Every step of a visit, and every break of it, keeps the types.
LEMMA PagingNextType == TypeInv /\ [Next]_vars => TypeInv'
  <1> SUFFICES ASSUME TypeInv, [Next]_vars PROVE TypeInv'
    OBVIOUS
  <1> USE PagingBounds DEF TypeInv
  <1>1. CASE Render
    BY <1>1 DEF Render, TypeOK, Streams
  <1>2. CASE Resume
    BY <1>2 DEF Resume, TypeOK
  <1>3. CASE FinishVisit
    BY <1>3 DEF FinishVisit, VisitOver, TypeOK
  <1>4. ASSUME NEW s \in Streams, AbsorbEmbedded(s) PROVE TypeInv'
    <2>1. /\ cursor' \in [Streams -> Nat] /\ tokens' \in [Streams -> Nat]
          /\ ingested' \in [Streams -> SUBSET Nat] /\ fresh' \in [Streams -> SUBSET Nat]
      BY <1>4, AbsorbType DEF AbsorbEmbedded, TypeOK
    <2>2. phase \in Streams /\ phase # "paging" /\ UNCHANGED <<row, hand>>
      BY <1>4 DEF AbsorbEmbedded, Streams
    <2>3. AfterEmbedded(s) \in Streams \cup {"paging"}
      BY DEF AfterEmbedded, Streams
    <2> QED
      BY <1>4, <2>1, <2>3, <2>2 DEF AbsorbEmbedded, TypeOK
  <1>5. ASSUME NEW s \in Streams, BuyPage(s) PROVE TypeInv'
    <2> DEFINE n == tokens[s] + 1
    <2>1. PICK nxt \in 1..n :
            /\ nxt < tokens[s] => backs < MaxBacks
            /\ backs' = IF nxt < tokens[s] THEN backs + 1 ELSE backs
            /\ tokens' = [tokens EXCEPT ![s] = NextToken(tokens[s], nxt, n < PageCount[s])]
      BY <1>5 DEF BuyPage
    <2>2. tokens[s] \in Nat /\ n \in Nat /\ nxt \in Nat /\ (n < PageCount[s]) \in BOOLEAN
      BY DEF TypeOK
    <2>3. tokens' \in [Streams -> Nat]
      BY <2>1, <2>2, NextTokens
    <2>4. backs' \in 0..MaxBacks /\ spent' \in Nat
      BY <1>5, <2>1, <2>2 DEF BuyPage, TypeOK
    <2>5. /\ left' \in 0..PagesPerVisit /\ row = "visiting" /\ phase = "paging" /\ hand = NoTokens
          /\ hand' = [hand EXCEPT ![s] = n]
      BY <1>5 DEF BuyPage, MayFetch, TypeOK
    <2>6. /\ hand' \in [Streams -> Nat]
          /\ \A r, q \in Streams : hand'[r] # 0 /\ hand'[q] # 0 => r = q
      BY <2>2, <2>5 DEF NoTokens
    <2> QED
      BY <1>5, <2>3, <2>4, <2>5, <2>6 DEF BuyPage, TypeOK
  <1>6. ASSUME NEW s \in Streams, AbsorbPage(s) PROVE TypeInv'
    <2>1. hand[s] \in Nat /\ tokens \in [Streams -> Nat] /\ Absorb(s, hand[s], tokens)
      BY <1>6 DEF AbsorbPage, TypeOK
    <2>2. /\ cursor' \in [Streams -> Nat] /\ tokens' \in [Streams -> Nat]
          /\ ingested' \in [Streams -> SUBSET Nat] /\ fresh' \in [Streams -> SUBSET Nat]
      BY <2>1, AbsorbType
    <2>3. hand' = NoTokens /\ \A r \in Streams : NoTokens[r] = 0
      BY <1>6 DEF AbsorbPage, NoTokens
    <2> QED
      BY <1>6, <2>2, <2>3 DEF AbsorbPage, TypeOK
  <1>7. CASE CutShort \/ GiveUp
    <2>1. hand' = NoTokens /\ \A r \in Streams : NoTokens[r] = 0
      BY <1>7 DEF CutShort, GiveUp, NoTokens
    <2> QED
      BY <1>7, <2>1 DEF CutShort, GiveUp, TypeOK
  <1>8. CASE UNCHANGED vars
    BY <1>8 DEF vars, TypeOK
  <1> QED
    BY <1>1, <1>2, <1>3, <1>4, <1>5, <1>6, <1>7, <1>8 DEF Next, Visit

\* In every behaviour every variable of a fan entry has its type.
THEOREM PagingTypeCorrect == Spec => []TypeOK
  <1>1. TypeInv => TypeOK
    BY DEF TypeInv
  <1> QED
    BY <1>1, PagingInitType, PagingNextType, PTL DEF Spec

-----------------------------------------------------------------------------
(* The bookmark.  Covers(t): whoever pages on from the tokens t misses no page  *)
(* of the collection.  The bookmark, the tokens of a visit past the embedded    *)
(* collection, and having no token at all once the entry is done must cover.    *)
(* While a page of the collection is in hand the tokens stand after it already, *)
(* or at a page before it, and all that comes before it is committed.           *)

Covers(t) ==
    IF t["collection"] # 0 THEN 1..t["collection"] \subseteq ingested["collection"]
    ELSE "collection" \in cut \/ AllPages("collection") \subseteq ingested["collection"]

CoverInv ==
    /\ cursor # NoTokens => Covers(cursor)
    /\ row = "visiting" /\ phase # "collection" /\ hand["collection"] = 0 => Covers(tokens)
    /\ hand["collection"] # 0 => /\ 1..(hand["collection"] - 1) \subseteq ingested["collection"]
                                /\ tokens["collection"] <= hand["collection"]
    /\ row = "visiting" /\ phase = "collection" => tokens = FirstTokens
    /\ row = "done" => Covers(NoTokens)

\* Covering is about the tokens only through the one of the collection.
LEMMA FirstPageCovers ==
    ASSUME TypeOK, NEW i, i = ingested["collection"] \cup {1}
    PROVE  IF FirstTokens["collection"] # 0 THEN 1..FirstTokens["collection"] \subseteq i
           ELSE AllPages("collection") \subseteq i
  BY PagingBounds DEF FirstTokens, NextToken, AllPages, Wanted, Streams

\* A page bought from the collection is the one after all that is covered.
LEMMA BuyingCovers ==
    ASSUME TypeOK, Covers(tokens), BuyPage("collection")
    PROVE  /\ hand'["collection"] # 0
           /\ 1..(hand'["collection"] - 1) \subseteq ingested["collection"]
           /\ tokens'["collection"] <= hand'["collection"]
  <1> DEFINE c == "collection"
             n == tokens[c] + 1
  <1>1. PICK nxt \in 1..n :
          tokens' = [tokens EXCEPT ![c] = NextToken(tokens[c], nxt, n < PageCount[c])]
    BY DEF BuyPage
  <1>2. c \in Streams /\ tokens[c] \in Nat \ {0} /\ hand'[c] = n
    BY DEF TypeOK, BuyPage, MayFetch, Streams
  <1>3. 1..tokens[c] \subseteq ingested[c]
    BY <1>2 DEF Covers
  <1>4. tokens'[c] = NextToken(tokens[c], nxt, n < PageCount[c]) /\ nxt <= n /\ nxt \in Nat
    BY <1>1, <1>2 DEF TypeOK
  <1>5. tokens'[c] <= n
    BY <1>2, <1>4 DEF NextToken
  <1> QED
    BY <1>2, <1>3, <1>5

\* Once it is committed, the tokens cover.
LEMMA PageCovers ==
    ASSUME TypeOK, CoverInv, AbsorbPage("collection")
    PROVE  Covers(tokens)'
  <1> DEFINE c == "collection"
             n == hand[c]
  <1>1. /\ c \in Streams /\ n \in Nat \ {0} /\ PageCount[c] \in Nat \ {0} /\ tokens[c] \in Nat
        /\ tokens[c] <= n /\ 1..(n - 1) \subseteq ingested[c]
    BY PagingBounds DEF TypeOK, AbsorbPage, CoverInv, Streams
  <1>2. ingested'[c] = ingested[c] \cup {n} /\ tokens' = tokens
    BY <1>1 DEF AbsorbPage, Absorb, TypeOK
  <1>3. 1..n \subseteq ingested'[c]
    BY <1>1, <1>2
  <1>4. CASE tokens[c] # 0
    BY <1>1, <1>2, <1>3, <1>4 DEF Covers
  <1>5. CASE tokens[c] = 0 /\ n < PageCount[c]
    BY <1>2, <1>5 DEF AbsorbPage, Covers
  <1>6. CASE tokens[c] = 0 /\ ~(n < PageCount[c])
    <2>1. AllPages(c) \subseteq 1..n
      BY <1>1, <1>6 DEF AllPages
    <2>2. (AllPages(c) \subseteq ingested[c])'
      BY <1>3, <2>1 DEF AllPages
    <2> QED
      BY <1>2, <1>6, <2>2 DEF Covers
  <1> QED
    BY <1>4, <1>5, <1>6

\* Nothing is covered too much in the first state.
LEMMA InitCover == Init => CoverInv
  BY DEF Init, CoverInv, NoTokens, Streams

\* Every step keeps the bookmark and the visit's tokens covering.
LEMMA NextCover == TypeInv /\ CoverInv /\ [Next]_vars => CoverInv'
  <1> SUFFICES ASSUME TypeInv, CoverInv, [Next]_vars PROVE CoverInv'
    OBVIOUS
  <1>1. TypeOK /\ TypeOK'
    BY PagingNextType DEF TypeInv
  <1>2. CASE Render
    BY <1>2 DEF Render, TypeInv, CoverInv, FirstTokens, Wanted, NoTokens, Streams
  <1>3. CASE Resume
    BY <1>3 DEF Resume, TypeInv, CoverInv, Covers, AllPages, NoTokens, Streams
  <1>4. CASE FinishVisit
    BY <1>4 DEF FinishVisit, VisitOver, ReadOut, CoverInv, Covers, AllPages, NoTokens, Streams
  <1>5. ASSUME NEW s \in Streams, AbsorbEmbedded(s) PROVE CoverInv'
    <2>1. /\ row = "visiting" /\ row' = row /\ phase = s /\ cut' = cut /\ phase # "paging"
          /\ tokens' = tokens /\ cursor' = tokens /\ phase' # "collection" /\ hand' = hand
      BY <1>5 DEF AbsorbEmbedded, Absorb, Snapshot, AfterEmbedded, Streams
    <2>2. hand["collection"] = 0
      BY <2>1 DEF TypeInv, NoTokens, Streams
    <2>3. CASE s = "collection"
      <3>1. tokens = FirstTokens
        BY <2>1, <2>3 DEF CoverInv
      <3>2. ingested'["collection"] = ingested["collection"] \cup {1}
        BY <1>1, <1>5, <2>3 DEF AbsorbEmbedded, Absorb, TypeOK
      <3>3. IF FirstTokens["collection"] # 0
            THEN 1..FirstTokens["collection"] \subseteq ingested'["collection"]
            ELSE AllPages("collection") \subseteq ingested'["collection"]
        BY <1>1, <3>2, FirstPageCovers
      <3>4. Covers(tokens)'
        BY <2>1, <3>1, <3>3 DEF Covers, AllPages
      <3> QED
        BY <2>2, <2>1, <3>4 DEF CoverInv, Covers, AllPages
    <2>4. CASE s # "collection"
      <3>1. Covers(tokens)
        BY <2>2, <2>1, <2>4 DEF CoverInv
      <3>2. ingested'["collection"] = ingested["collection"]
        BY <1>1, <1>5, <2>4 DEF AbsorbEmbedded, Absorb, TypeOK, Streams
      <3>3. Covers(tokens)'
        BY <2>1, <3>1, <3>2 DEF Covers, AllPages
      <3> QED
        BY <2>2, <2>1, <3>3 DEF CoverInv, Covers, AllPages
    <2> QED
      BY <2>3, <2>4
  <1>6. ASSUME NEW s \in Streams, BuyPage(s) PROVE CoverInv'
    <2>1. /\ row = "visiting" /\ row' = row /\ phase = "paging" /\ phase' = phase
          /\ hand = NoTokens /\ hand["collection"] = 0 /\ UNCHANGED <<cursor, ingested, cut>>
      BY <1>6 DEF BuyPage, MayFetch, NoTokens, Streams
    <2>2. Covers(tokens)
      BY <2>1 DEF CoverInv
    <2>3. CASE s = "collection"
      BY <1>1, <1>6, <2>1, <2>2, <2>3, BuyingCovers DEF CoverInv, Covers, AllPages
    <2>4. CASE s # "collection"
      <3>1. hand'["collection"] = 0 /\ tokens'["collection"] = tokens["collection"]
        BY <1>1, <1>6, <2>1, <2>4 DEF BuyPage, TypeOK, Streams
      <3> QED
        BY <2>1, <2>2, <3>1 DEF CoverInv, Covers, AllPages
    <2> QED
      BY <2>3, <2>4
  <1>7. ASSUME NEW s \in Streams, AbsorbPage(s) PROVE CoverInv'
    <2>1. /\ row = "visiting" /\ row' = row /\ phase = "paging" /\ phase' = phase
          /\ hand[s] # 0 /\ hand' = NoTokens /\ tokens' = tokens /\ cursor' = tokens /\ cut \subseteq cut'
      BY <1>7 DEF AbsorbPage, Absorb, Snapshot, TypeInv, NoTokens
    <2>2. Covers(tokens)'
      <3>1. CASE s = "collection"
        BY <1>1, <1>7, <3>1, PageCovers
      <3>2. CASE s # "collection"
        <4>1. hand["collection"] = 0
          BY <2>1, <3>2 DEF TypeInv, Streams
        <4>2. ingested'["collection"] = ingested["collection"]
          BY <1>1, <1>7, <3>2 DEF AbsorbPage, Absorb, TypeOK, Streams
        <4> QED
          BY <2>1, <4>1, <4>2 DEF CoverInv, Covers, AllPages
      <3> QED
        BY <3>1, <3>2
    <2>3. hand'["collection"] = 0
      BY <2>1 DEF NoTokens, Streams
    <2> QED
      BY <2>1, <2>2, <2>3 DEF CoverInv, Covers, AllPages
  <1>8. CASE CutShort \/ GiveUp
    BY <1>8 DEF CutShort, GiveUp, CoverInv, Covers, AllPages, NoTokens, Streams
  <1>9. CASE UNCHANGED vars
    BY <1>9 DEF vars, CoverInv, Covers, AllPages, FirstTokens, Wanted
  <1> QED
    BY <1>2, <1>3, <1>4, <1>5, <1>6, <1>7, <1>8, <1>9 DEF Next, Visit

\* The committed bookmark is honest about the collection in every behaviour.
THEOREM BookmarkStaysHonest == Spec => []BookmarkIsHonest
  <1>1. CoverInv => BookmarkIsHonest
    BY DEF CoverInv, Covers, BookmarkIsHonest
  <1> QED
    BY <1>1, PagingInitType, PagingNextType, InitCover, NextCover, PTL DEF Spec

\* However many visits are broken, an entry marked done lost no page of the
\* collection that the provider was willing to give.
THEOREM DoneCollectionIsComplete == Spec => []CollectionComplete
  <1>1. CoverInv => CollectionComplete
    BY DEF CoverInv, Covers, NoTokens, CollectionComplete, Streams
  <1> QED
    BY <1>1, PagingInitType, PagingNextType, InitCover, NextCover, PTL DEF Spec

-----------------------------------------------------------------------------
(* Buying, as long as the provider never goes back.  Behind(t): the pages that  *)
(* were committed since the render lie at or before the tokens t, so the page   *)
(* after a token is a new one; so is the page in hand.                          *)

Behind(t) == \A s \in Streams : t[s] # 0 => \A n \in fresh[s] : n <= t[s]

BuyInv ==
    backs = 0 =>
        /\ Behind(cursor) /\ (row = "visiting" => Behind(tokens))
        /\ \A s \in Streams : hand[s] # 0 => /\ hand[s] > 1 /\ hand[s] \notin fresh[s]
                                              /\ tokens[s] \in {0, hand[s]}

\* Every step keeps what was committed behind the tokens.
LEMMA NextBuy == TypeInv /\ BuyInv /\ [Next]_vars => BuyInv'
  <1> SUFFICES ASSUME TypeInv, BuyInv, [Next]_vars, backs' = 0 PROVE BuyInv'
    BY DEF BuyInv
  <1>1. TypeOK /\ TypeOK'
    BY PagingNextType DEF TypeInv
  <1>2. \A s \in Streams : NoTokens[s] = 0
    BY DEF NoTokens
  <1>3. CASE Render
    BY <1>3, <1>2 DEF Render, TypeInv, BuyInv, Behind
  <1>4. CASE Resume
    BY <1>4, <1>2 DEF Resume, TypeInv, BuyInv, Behind
  <1>5. CASE FinishVisit
    BY <1>5, <1>2 DEF FinishVisit, VisitOver, ReadOut, BuyInv, Behind
  <1>6. ASSUME NEW s \in Streams, AbsorbEmbedded(s) PROVE BuyInv'
    <2>1. /\ row = "visiting" /\ tokens' = tokens /\ cursor' = tokens /\ backs = 0 /\ hand' = hand
          /\ fresh' = [fresh EXCEPT ![s] = @ \cup {1}] /\ phase # "paging"
      BY <1>6 DEF AbsorbEmbedded, Absorb, Snapshot, Streams
    <2>2. ASSUME NEW r \in Streams, tokens[r] # 0, NEW m \in fresh'[r] PROVE m <= tokens[r]
      BY <1>1, <2>1, <2>2 DEF BuyInv, Behind, TypeOK
    <2>3. \A r \in Streams : hand'[r] = 0
      BY <1>2, <2>1 DEF TypeInv
    <2> QED
      BY <2>1, <2>2, <2>3 DEF BuyInv, Behind
  <1>7. ASSUME NEW s \in Streams, BuyPage(s) PROVE BuyInv'
    <2> DEFINE n == tokens[s] + 1
    <2>1. PICK nxt \in 1..n :
            /\ backs' = IF nxt < tokens[s] THEN backs + 1 ELSE backs
            /\ tokens' = [tokens EXCEPT ![s] = NextToken(tokens[s], nxt, n < PageCount[s])]
      BY <1>7 DEF BuyPage
    <2>2. /\ row = "visiting" /\ tokens[s] \in Nat \ {0} /\ n \in Nat /\ n > 1 /\ n > tokens[s]
          /\ \A r \in Streams : hand[r] = 0
      BY <1>1, <1>7, <1>2 DEF BuyPage, MayFetch, TypeOK
    <2>3. backs = 0 /\ ~(nxt < tokens[s])
      BY <1>1, <2>1, <2>2 DEF TypeOK
    <2>4. NextToken(tokens[s], nxt, n < PageCount[s]) \in {0, n}
      BY <2>2, <2>3 DEF NextToken
    <2>5. /\ tokens'[s] \in {0, n} /\ \A r \in Streams \ {s} : tokens'[r] = tokens[r]
          /\ hand'[s] = n /\ \A r \in Streams \ {s} : hand'[r] = 0
          /\ UNCHANGED <<fresh, cursor, row>>
      BY <1>1, <1>7, <2>1, <2>2, <2>4 DEF BuyPage, TypeOK
    <2>6. \A m \in fresh[s] : m <= tokens[s] /\ m \in Nat
      BY <1>1, <2>2, <2>3 DEF BuyInv, Behind, TypeOK
    <2>7. n \notin fresh[s] /\ \A m \in fresh[s] : m <= n
      BY <2>2, <2>6
    <2>8. Behind(tokens)'
      BY <2>2, <2>3, <2>5, <2>7 DEF BuyInv, Behind
    <2> QED
      BY <2>2, <2>3, <2>5, <2>7, <2>8 DEF BuyInv, Behind
  <1>8. ASSUME NEW s \in Streams, AbsorbPage(s) PROVE BuyInv'
    <2>1. /\ backs = 0 /\ row = "visiting" /\ hand[s] \in Nat \ {0} /\ tokens[s] \in {0, hand[s]}
          /\ tokens' = tokens /\ cursor' = tokens /\ fresh' = [fresh EXCEPT ![s] = @ \cup {hand[s]}]
          /\ \A r \in Streams : hand'[r] = 0
      BY <1>1, <1>8, <1>2 DEF AbsorbPage, Absorb, Snapshot, BuyInv, TypeOK
    <2>2. ASSUME NEW r \in Streams, tokens[r] # 0, NEW m \in fresh'[r] PROVE m <= tokens[r]
      BY <1>1, <2>1, <2>2 DEF BuyInv, Behind, TypeOK
    <2> QED
      BY <2>1, <2>2 DEF BuyInv, Behind
  <1>9. CASE CutShort \/ GiveUp
    BY <1>9, <1>2 DEF CutShort, GiveUp, BuyInv, Behind
  <1>10. CASE UNCHANGED vars
    BY <1>10 DEF vars, BuyInv, Behind
  <1> QED
    BY <1>3, <1>4, <1>5, <1>6, <1>7, <1>8, <1>9, <1>10 DEF Next, Visit

\* The count of the committed pages grows by the page in hand, if that is a new one.
LEMMA PaidGrows ==
    ASSUME TypeOK, IsFiniteSet(Paid), NEW s \in Streams, NEW n \in Nat, n > 1, n \notin fresh[s],
           fresh' = [fresh EXCEPT ![s] = @ \cup {n}]
    PROVE  IsFiniteSet(Paid') /\ Cardinality(Paid') = Cardinality(Paid) + 1
  <1>1. \A r \in Streams : \A m : <<r, m>> \in Paid <=> m \in fresh[r] \ {1}
    BY DEF Paid
  <1>2. <<s, n>> \notin Paid
    BY <1>1
  <1>3. Paid' = Paid \cup {<<s, n>>}
    <2>1. \A r \in Streams : fresh'[r] \ {1} = (fresh[r] \ {1}) \cup (IF r = s THEN {n} ELSE {})
      BY DEF TypeOK
    <2> QED
      BY <2>1 DEF Paid
  <1> QED
    BY <1>2, <1>3, FS_AddElement

\* The committed pages are not touched by a commit of an embedded page, which was free.
LEMMA EmbeddedIsFree ==
    ASSUME TypeOK, NEW s \in Streams, fresh' = [fresh EXCEPT ![s] = @ \cup {1}]
    PROVE  Paid' = Paid
  <1>1. \A r \in Streams : fresh'[r] \ {1} = fresh[r] \ {1}
    BY DEF TypeOK
  <1> QED
    BY <1>1 DEF Paid

SpendInv == IsFiniteSet(Paid) /\ OnePageLostPerBreak

\* A page that is bought is committed, in hand, or was lost to a break or to the failure.
LEMMA NextSpend == TypeInv /\ BuyInv /\ SpendInv /\ [Next]_vars => SpendInv'
  <1> SUFFICES ASSUME TypeInv, BuyInv, SpendInv, [Next]_vars PROVE SpendInv'
    OBVIOUS
  <1>1. TypeOK /\ TypeOK'
    BY PagingNextType DEF TypeInv
  <1>2. /\ Cardinality(Paid) \in Nat /\ spent \in Nat /\ breaks \in Nat /\ backs \in Nat
        /\ MaxBreaks \in Nat /\ spent' \in Nat /\ backs' \in Nat
    BY <1>1, PagingBounds, FS_CardinalityType DEF SpendInv, TypeOK
  <1>3. CASE Render
    <2>1. Paid' = {}
      BY <1>3 DEF Render, Paid
    <2> QED
      BY <1>3, <1>2, <2>1, FS_EmptySet DEF Render, SpendInv, OnePageLostPerBreak
  <1>4. CASE Resume
    BY <1>4, <1>2 DEF Resume, TypeInv, SpendInv, OnePageLostPerBreak, Paid
  <1>5. CASE FinishVisit
    BY <1>5, <1>2 DEF FinishVisit, VisitOver, SpendInv, OnePageLostPerBreak, Paid
  <1>6. ASSUME NEW s \in Streams, AbsorbEmbedded(s) PROVE SpendInv'
    <2>1. Paid' = Paid
      BY <1>1, <1>6, EmbeddedIsFree DEF AbsorbEmbedded, Absorb
    <2> QED
      BY <1>6, <2>1 DEF AbsorbEmbedded, SpendInv, OnePageLostPerBreak
  <1>7. ASSUME NEW s \in Streams, BuyPage(s) PROVE SpendInv'
    <2>1. /\ Paid' = Paid /\ spent' <= spent + 1 /\ breaks' = breaks /\ hand = NoTokens
          /\ row = "visiting" /\ row' = row
      BY <1>7, <1>2, PagingBounds DEF BuyPage, MayFetch, Paid
    <2>2. backs' = 0 => backs = 0
      BY <1>7, <1>2 DEF BuyPage
    <2>3. hand' # NoTokens
      <3>1. hand'[s] = tokens[s] + 1 /\ tokens[s] \in Nat
        BY <1>1, <1>7 DEF BuyPage, TypeOK
      <3> QED
        BY <3>1 DEF NoTokens
    <2> QED
      BY <1>2, <2>1, <2>2, <2>3 DEF SpendInv, OnePageLostPerBreak
  <1>8. ASSUME NEW s \in Streams, AbsorbPage(s) PROVE SpendInv'
    <2>1. /\ spent' = spent /\ breaks' = breaks /\ backs' = backs /\ row = "visiting"
          /\ hand[s] \in Nat /\ hand[s] # 0 /\ fresh' = [fresh EXCEPT ![s] = @ \cup {hand[s]}]
      BY <1>1, <1>8 DEF AbsorbPage, Absorb, TypeOK
    <2>2. CASE backs = 0
      <3>1. hand[s] > 1 /\ hand[s] \notin fresh[s]
        BY <2>1, <2>2 DEF BuyInv
      <3>2. IsFiniteSet(Paid') /\ Cardinality(Paid') = Cardinality(Paid) + 1
        BY <1>1, <2>1, <3>1, PaidGrows DEF SpendInv
      <3> QED
        BY <1>2, <2>1, <2>2, <3>2 DEF SpendInv, OnePageLostPerBreak
    <2>3. CASE backs # 0
      <3>1. Paid' \subseteq Paid \cup {<<s, hand[s]>>}
        BY <1>1, <2>1 DEF Paid, TypeOK
      <3>2. IsFiniteSet(Paid \cup {<<s, hand[s]>>})
        BY FS_AddElement DEF SpendInv
      <3>3. IsFiniteSet(Paid')
        BY <3>1, <3>2, FS_Subset
      <3> QED
        BY <2>1, <2>3, <3>3 DEF SpendInv, OnePageLostPerBreak
    <2> QED
      BY <2>2, <2>3
  <1>9. CASE CutShort
    BY <1>9, <1>2 DEF CutShort, SpendInv, OnePageLostPerBreak, Paid
  <1>10. CASE GiveUp
    BY <1>10, <1>2 DEF GiveUp, SpendInv, OnePageLostPerBreak, Paid
  <1>11. CASE UNCHANGED vars
    BY <1>11 DEF vars, SpendInv, OnePageLostPerBreak, Paid
  <1> QED
    BY <1>3, <1>4, <1>5, <1>6, <1>7, <1>8, <1>9, <1>10, <1>11 DEF Next, Visit

\* However often visits are cut short, between the purchase of a page and its commit or anywhere
\* else, resuming from the bookmark buys no more pages again than there were breaks: every other
\* page that was bought since the render is committed, provided the provider never goes back.
THEOREM ResumingLosesOnePage == Spec => []OnePageLostPerBreak
  <1>1. Init => BuyInv /\ SpendInv
    <2> SUFFICES ASSUME Init PROVE BuyInv /\ SpendInv
      OBVIOUS
    <2>1. Paid = {}
      BY DEF Init, Paid
    <2>2. SpendInv
      BY <2>1, FS_EmptySet, PagingBounds DEF Init, SpendInv, OnePageLostPerBreak
    <2> QED
      BY <2>2 DEF Init, BuyInv, Behind, NoTokens
  <1>2. SpendInv => OnePageLostPerBreak
    BY DEF SpendInv
  <1> QED
    BY <1>1, <1>2, PagingInitType, PagingNextType, NextBuy, NextSpend, PTL DEF Spec

-----------------------------------------------------------------------------
(* The refinement.  SyncInv: once the embedded collection is absorbed, the      *)
(* bookmark is the visit's tokens, and before the page in hand where one is;    *)
(* before, there is none.  WithinInv: tokens and pages are those of the         *)
(* collection, and the token after the page in hand is the next one, none, or   *)
(* an older one.                                                                *)

SyncInv ==
    row = "visiting" =>
        IF phase = "collection" THEN cursor = NoTokens
        ELSE \A s \in Streams : cursor[s] = IF hand[s] = 0 THEN tokens[s] ELSE hand[s] - 1

\* n is a page of a list of c pages, and t a token that may follow it.
Follows(t, n, c) ==
    /\ n \in 2..c
    /\ t = (IF n < c THEN n ELSE 0) \/ (n < c /\ t \in 0..(n - 2))

WithinInv ==
    /\ cursor["collection"] < PageCount["collection"]
    /\ tokens["collection"] < PageCount["collection"]
    /\ ingested["collection"] \subseteq AllPages("collection")
    /\ hand["collection"] # 0 => Follows(tokens["collection"], hand["collection"], PageCount["collection"])

ReadingInv == TypeInv /\ CoverInv /\ SyncInv /\ WithinInv

\* The token after a page of the collection.
LEMMA TokenWithin ==
    ASSUME NEW t \in Nat \ {0}, NEW c \in Nat \ {0}, t < c, NEW nxt \in 1..(t + 1)
    PROVE  Follows(NextToken(t, nxt, t + 1 < c), t + 1, c)
  BY DEF NextToken, Follows

\* The first token of the collection is that after the embedded page.
LEMMA FirstWithin ==
    /\ FirstTokens["collection"] = (IF 1 < PageCount["collection"] THEN 1 ELSE 0)
    /\ FirstTokens["collection"] < PageCount["collection"]
    /\ PageCount["collection"] \in Nat \ {0}
  BY PagingBounds DEF FirstTokens, NextToken, Streams

\* With no page in hand, the bookmark of a visit that pages is its tokens.
LEMMA InStep ==
    ASSUME TypeInv, SyncInv, row = "visiting", phase # "collection", hand = NoTokens
    PROVE  cursor = tokens
  <1>1. \A s \in Streams : cursor[s] = tokens[s]
    BY DEF SyncInv, NoTokens
  <1> QED
    BY <1>1 DEF TypeInv, TypeOK

\* What absorbing the embedded page of a list does.
LEMMA EmbeddedStep ==
    ASSUME ReadingInv, NEW s \in Streams, AbsorbEmbedded(s)
    PROVE  /\ row = "visiting" /\ phase = s /\ phase' # "collection" /\ row' = row /\ cut' = cut
           /\ tokens' = tokens /\ cursor' = tokens /\ hand = NoTokens /\ hand' = hand
           /\ s = "collection" =>
                /\ tokens = FirstTokens /\ cursor["collection"] = 0
                /\ ingested'["collection"] = ingested["collection"] \cup {1}
           /\ s # "collection" => /\ cursor = tokens
                                  /\ ingested'["collection"] = ingested["collection"]
  <1>1. /\ row = "visiting" /\ phase = s /\ phase' # "collection" /\ row' = row /\ cut' = cut
        /\ tokens' = tokens /\ cursor' = tokens /\ ingested' = [ingested EXCEPT ![s] = @ \cup {1}]
        /\ hand' = hand /\ s # "paging"
    BY DEF AbsorbEmbedded, Absorb, Snapshot, AfterEmbedded, Streams
  <1>2. hand = NoTokens
    BY <1>1 DEF ReadingInv, TypeInv
  <1>3. s # "collection" => cursor = tokens
    BY <1>1, <1>2, InStep DEF ReadingInv
  <1> QED
    BY <1>1, <1>2, <1>3 DEF ReadingInv, TypeInv, TypeOK, CoverInv, SyncInv, NoTokens, Streams

\* What buying a page does: the bookmark stays before it.
LEMMA BuyStep ==
    ASSUME ReadingInv, NEW s \in Streams, BuyPage(s)
    PROVE  /\ row = "visiting" /\ row' = row /\ phase = "paging" /\ phase' = phase
           /\ UNCHANGED <<cursor, ingested, cut>>
           /\ SyncInv' /\ WithinInv'
  <1> DEFINE n == tokens[s] + 1
  <1>1. PICK nxt \in 1..n :
          tokens' = [tokens EXCEPT ![s] = NextToken(tokens[s], nxt, n < PageCount[s])]
    BY DEF BuyPage
  <1>2. /\ row = "visiting" /\ row' = row /\ phase = "paging" /\ phase' = phase /\ hand = NoTokens
        /\ UNCHANGED <<cursor, ingested, cut>> /\ hand' = [hand EXCEPT ![s] = n]
        /\ tokens[s] \in Nat \ {0}
    BY DEF BuyPage, MayFetch, ReadingInv, TypeInv, TypeOK
  <1>3. cursor = tokens
    BY <1>2, InStep DEF ReadingInv
  <1>4. /\ hand'[s] = n /\ \A r \in Streams \ {s} : hand'[r] = 0 /\ tokens'[r] = tokens[r]
        /\ tokens'[s] = NextToken(tokens[s], nxt, n < PageCount[s])
    BY <1>1, <1>2 DEF ReadingInv, TypeInv, TypeOK, NoTokens
  <1>5. SyncInv'
    BY <1>2, <1>3, <1>4 DEF SyncInv
  <1>6. WithinInv'
    <2>1. CASE s = "collection"
      <3>1. PageCount[s] \in Nat \ {0} /\ tokens[s] < PageCount[s]
        BY <2>1, PagingBounds DEF ReadingInv, WithinInv, Streams
      <3>2. Follows(tokens'[s], n, PageCount[s])
        BY <1>2, <1>4, <3>1, TokenWithin
      <3>3. tokens'[s] < PageCount[s]
        BY <1>2, <3>1, <3>2 DEF Follows
      <3> QED
        BY <1>2, <1>4, <2>1, <3>2, <3>3 DEF ReadingInv, WithinInv, AllPages
    <2>2. CASE s # "collection"
      <3>1. hand'["collection"] = 0 /\ tokens'["collection"] = tokens["collection"]
        BY <1>4, <2>2 DEF Streams
      <3> QED
        BY <1>2, <3>1 DEF ReadingInv, WithinInv, AllPages
    <2> QED
      BY <2>1, <2>2
  <1> QED
    BY <1>2, <1>5, <1>6

\* What committing the page in hand does.
LEMMA PageStep ==
    ASSUME ReadingInv, NEW s \in Streams, AbsorbPage(s)
    PROVE  /\ row = "visiting" /\ row' = row /\ phase = "paging" /\ phase' = phase
           /\ tokens' = tokens /\ cursor' = tokens /\ hand' = NoTokens
           /\ s # "collection" =>
                /\ cursor'["collection"] = cursor["collection"]
                /\ ingested'["collection"] = ingested["collection"]
                /\ cut' \cap {"collection"} = cut \cap {"collection"}
           /\ s = "collection" =>
                /\ hand[s] = cursor[s] + 1 /\ hand[s] \in AllPages(s)
                /\ Follows(cursor'[s], hand[s], PageCount[s])
                /\ ingested'[s] = ingested[s] \cup {hand[s]}
                /\ cut' = IF cursor'[s] = 0 /\ hand[s] < PageCount[s] THEN cut \cup {s} ELSE cut
  <1>1. /\ row = "visiting" /\ row' = row /\ phase' = phase /\ hand[s] # 0 /\ hand[s] \in Nat
        /\ tokens' = tokens /\ cursor' = tokens /\ hand' = NoTokens
        /\ cut' = (IF tokens[s] = 0 /\ hand[s] < PageCount[s] THEN cut \cup {s} ELSE cut)
        /\ ingested'[s] = ingested[s] \cup {hand[s]}
        /\ \A r \in Streams \ {s} : ingested'[r] = ingested[r]
    BY DEF AbsorbPage, Absorb, Snapshot, ReadingInv, TypeInv, TypeOK
  <1>2. phase = "paging"
    BY <1>1 DEF ReadingInv, TypeInv, NoTokens
  <1>3. \A r \in Streams : cursor[r] = IF hand[r] = 0 THEN tokens[r] ELSE hand[r] - 1
    BY <1>1, <1>2 DEF ReadingInv, SyncInv
  <1>4. CASE s = "collection"
    <2>1. Follows(tokens[s], hand[s], PageCount[s]) /\ PageCount[s] \in Nat
      BY <1>1, <1>4, PagingBounds DEF ReadingInv, WithinInv, Streams
    <2>2. hand[s] \in AllPages(s)
      BY <2>1 DEF Follows, AllPages
    <2> QED
      BY <1>1, <1>2, <1>3, <1>4, <2>1, <2>2
  <1>5. CASE s # "collection"
    <2>1. hand["collection"] = 0 /\ "collection" \in Streams
      BY <1>1, <1>5 DEF ReadingInv, TypeInv, Streams
    <2> QED
      BY <1>1, <1>2, <1>3, <1>5, <2>1
  <1> QED
    BY <1>4, <1>5

\* At the start there is nothing to be out of step.
LEMMA InitReading == Init => ReadingInv
  <1> SUFFICES ASSUME Init PROVE ReadingInv
    OBVIOUS
  <1>1. SyncInv /\ WithinInv
    BY FirstWithin DEF Init, SyncInv, WithinInv, NoTokens, Streams
  <1> QED
    BY <1>1, PagingInitType, InitCover DEF ReadingInv

\* Every step keeps bookmark and tokens in step, and within the collection.
LEMMA NextReading == ReadingInv /\ [Next]_vars => ReadingInv'
  <1> SUFFICES ASSUME ReadingInv, [Next]_vars PROVE SyncInv' /\ WithinInv'
    BY PagingNextType, NextCover DEF ReadingInv
  <1> USE DEF ReadingInv
  <1>1. NoTokens["collection"] = 0 /\ \A s \in Streams : NoTokens[s] = 0
    BY DEF NoTokens, Streams
  <1>2. CASE Render
    <2>1. hand = NoTokens
      BY <1>2 DEF Render, TypeInv
    <2> QED
      BY <1>2, <1>1, <2>1, FirstWithin DEF Render, SyncInv, WithinInv, AllPages
  <1>3. CASE Resume
    <2>1. hand = NoTokens
      BY <1>3 DEF Resume, TypeInv
    <2> QED
      BY <1>3, <1>1, <2>1 DEF Resume, SyncInv, WithinInv, AllPages
  <1>4. CASE FinishVisit
    BY <1>4, <1>1, FirstWithin DEF FinishVisit, VisitOver, SyncInv, WithinInv, AllPages
  <1>5. ASSUME NEW s \in Streams, AbsorbEmbedded(s) PROVE SyncInv' /\ WithinInv'
    <2>1. SyncInv'
      BY <1>5, <1>1, EmbeddedStep DEF SyncInv
    <2>2. 1 \in AllPages("collection")
      BY FirstWithin DEF AllPages
    <2>3. WithinInv'
      BY <1>5, <1>1, <2>2, EmbeddedStep, FirstWithin DEF WithinInv, AllPages
    <2> QED
      BY <2>1, <2>3
  <1>6. ASSUME NEW s \in Streams, BuyPage(s) PROVE SyncInv' /\ WithinInv'
    BY <1>6, BuyStep
  <1>7. ASSUME NEW s \in Streams, AbsorbPage(s) PROVE SyncInv' /\ WithinInv'
    <2>1. SyncInv'
      BY <1>7, <1>1, PageStep DEF SyncInv
    <2>2. ingested'["collection"] \subseteq AllPages("collection")
      BY <1>7, PageStep DEF WithinInv
    <2>3. WithinInv'
      BY <1>7, <1>1, <2>2, PageStep DEF WithinInv, AllPages
    <2> QED
      BY <2>1, <2>3
  <1>8. CASE CutShort \/ GiveUp
    BY <1>8, <1>1, FirstWithin DEF CutShort, GiveUp, SyncInv, WithinInv, AllPages
  <1>9. CASE UNCHANGED vars
    BY <1>9 DEF vars, SyncInv, WithinInv, AllPages
  <1> QED
    BY <1>2, <1>3, <1>4, <1>5, <1>6, <1>7, <1>8, <1>9 DEF Next, Visit

\* A step that reads no page of the collection and does not end the entry is none of Reading's.
LEMMA ReadingStutters ==
    ASSUME row' = row \/ {row, row'} \subseteq {"pending", "visiting"},
           cursor'["collection"] = cursor["collection"],
           ingested'["collection"] = ingested["collection"],
           cut' \cap {"collection"} = cut \cap {"collection"}
    PROVE  UNCHANGED Paging!readingVars
  BY DEF Paging!readingVars

\* A page of the collection is Reading's next unit.
LEMMA PageIsCommit ==
    ASSUME row = "visiting", row' = row, NEW n \in Nat, n = cursor["collection"] + 1,
           PageCount["collection"] \in Nat,
           ingested'["collection"] = ingested["collection"] \cup {n},
           n = 1 \/ Follows(cursor'["collection"], n, PageCount["collection"]),
           n = 1 => cursor'["collection"] = (IF n < PageCount["collection"] THEN n ELSE 0),
           cut' = IF cursor'["collection"] = 0 /\ n < PageCount["collection"]
                  THEN cut \cup {"collection"} ELSE cut
    PROVE  Paging!Commit("collection")
  <1> DEFINE c == "collection"
             b == cursor'[c]
  <1>1. \/ b = (IF n < PageCount[c] THEN n ELSE 0)
        \/ n < PageCount[c] /\ b \in 0..(n - 2)
    BY DEF Follows
  <1>2. CASE b = (IF n < PageCount[c] THEN n ELSE 0)
    BY <1>2 DEF Paging!Commit
  <1>3. CASE n < PageCount[c] /\ b = 0
    BY <1>3 DEF Paging!Commit
  <1>4. CASE n < PageCount[c] /\ b \in 1..(n - 2)
    BY <1>4 DEF Paging!Commit
  <1> QED
    BY <1>1, <1>2, <1>3, <1>4

\* Every step reads the next page, ends the entry, or leaves the reading as it is.
LEMMA NextReads == ReadingInv /\ [Next]_vars => [Paging!Next]_Paging!readingVars
  <1> SUFFICES ASSUME ReadingInv, [Next]_vars PROVE Paging!Next \/ UNCHANGED Paging!readingVars
    OBVIOUS
  <1>1. CASE Render \/ Resume \/ CutShort
    BY <1>1, ReadingStutters DEF Render, Resume, CutShort
  <1>2. CASE FinishVisit
    <2>1. /\ row = "visiting" /\ cursor = tokens /\ UNCHANGED <<ingested, cut>>
          /\ row' = (IF ReadOut THEN "done" ELSE "pending") /\ cursor' = cursor
      BY <1>2, InStep DEF FinishVisit, VisitOver, ReadOut, ReadingInv
    <2>2. CASE ReadOut
      <3>1. cursor["collection"] = 0 /\ tokens["collection"] = 0
        BY <2>1, <2>2 DEF ReadOut, NoTokens, Streams
      <3>2. "collection" \in cut \/ ingested["collection"] = 1..PageCount["collection"]
        BY <1>2, <3>1 DEF FinishVisit, VisitOver, ReadingInv, CoverInv, Covers, WithinInv, AllPages
      <3>3. Paging!Close("collection")
        BY <2>1, <2>2, <3>1, <3>2 DEF Paging!Close
      <3> QED
        BY <3>3 DEF Paging!Next
    <2>3. CASE ~ReadOut
      BY <2>1, <2>3, ReadingStutters
    <2> QED
      BY <2>2, <2>3
  <1>3. CASE AbsorbEmbedded("collection")
    <2>1. /\ row = "visiting" /\ row' = row /\ cursor["collection"] = 0 /\ cut' = cut
          /\ ingested'["collection"] = ingested["collection"] \cup {1}
          /\ cursor'["collection"] = (IF 1 < PageCount["collection"] THEN 1 ELSE 0)
          /\ PageCount["collection"] \in Nat
      BY <1>3, EmbeddedStep, FirstWithin DEF Streams
    <2>2. Paging!Commit("collection")
      BY <2>1, PageIsCommit
    <2> QED
      BY <2>2 DEF Paging!Next
  <1>4. ASSUME NEW s \in Streams,
               BuyPage(s) \/ (s # "collection" /\ (AbsorbEmbedded(s) \/ AbsorbPage(s)))
        PROVE  UNCHANGED Paging!readingVars
    BY <1>4, EmbeddedStep, BuyStep, PageStep, ReadingStutters
  <1>5. CASE AbsorbPage("collection")
    <2>1. PageCount["collection"] \in Nat /\ hand["collection"] \in Nat /\ hand["collection"] # 1
      BY <1>5, PagingBounds, PageStep DEF ReadingInv, TypeInv, TypeOK, Follows, Streams
    <2>2. Paging!Commit("collection")
      BY <1>5, <2>1, PageStep, PageIsCommit DEF Streams
    <2> QED
      BY <2>2 DEF Paging!Next
  <1>6. CASE GiveUp
    <2>1. Paging!GiveUp("collection")
      BY <1>6 DEF GiveUp, Paging!GiveUp
    <2> QED
      BY <2>1 DEF Paging!Next
  <1>7. CASE UNCHANGED vars
    BY <1>7, ReadingStutters DEF vars
  <1> QED
    BY <1>1, <1>2, <1>3, <1>4, <1>5, <1>6, <1>7 DEF Next, Visit

\* crawl_fan_collection over all its visits, with page budgets, time-outs, echoes and older tokens,
\* reads the collection as Reading says: the page that is committed is the one after the bookmark,
\* which follows it unless the provider goes back, and the entry is done only at the end.
THEOREM CollectionIsReadInOrder == Spec => PagingSpec
  <1>1. Init => Paging!Init
    BY DEF Init, Paging!Init, NoTokens, Streams
  <1> QED
    BY <1>1, InitReading, NextReading, NextReads, PTL DEF Spec, PagingSpec, Paging!Spec

=============================================================================
