------------------------------ MODULE FanPaging ------------------------------
(* One frontier entry of a fan page, through all the visits it takes to read    *)
(* the page out (backend/app/crawl/service.py crawl_fan_collection): three      *)
(* lists paged one after the other, each page committed together with the       *)
(* bookmark from which a later visit resumes.                                   *)
(*                                                                              *)
(* Page 1 of every list is embedded in the rendered page.  A token n stands for *)
(* the place after page n; 0 stands for None.  The bookmark (the row's cursor)  *)
(* is the three tokens: it is NULL exactly when all of them are None.           *)
EXTENDS Naturals, FiniteSets

CONSTANTS
    PageCount,      \* how many pages each list has, the embedded one included
    PagesPerVisit,  \* service.PAGES_PER_VISIT
    MaxBreaks,      \* bound: how often a visit is cut short
    MaxBacks,       \* bound: how often the provider answers with an older token
    MaxSpent        \* bound: where the count of bought pages stops

Streams == {"collection", "wishlist", "follows"}

ASSUME FanPagingAssumption ==
    /\ PageCount \in [Streams -> Nat \ {0}]
    /\ PagesPerVisit \in Nat \ {0}
    /\ MaxBreaks \in Nat
    /\ MaxBacks \in Nat
    /\ MaxSpent \in Nat

VARIABLES
    isMe,       \* the page is the scan owner's own; never changes
    row,        \* the entry: "pending", "visiting", "done" or "error"
    cursor,     \* its committed bookmark
    ingested,   \* the pages of each list that are committed
    phase,      \* the visit: the embedded list to absorb next, or "paging"
    tokens,     \* the visit's own tokens
    left,       \* pages the visit may still buy
    hand,       \* of each list, the page that is bought and not ingested yet; 0 is none
    cut,        \* history: lists that an echoed token ended early
    fresh,      \* history: the pages committed since the page was last rendered
    spent,      \* history: how many pages were bought since then, up to MaxSpent
    breaks,
    backs

vars == <<isMe, row, cursor, ingested, phase, tokens, left, hand, cut, fresh, spent, breaks, backs>>

NoTokens == [s \in Streams |-> 0]
AllPages(s) == 1..PageCount[s]

\* Only the owner's own page has its wishlist and follows read.
Wanted == IF isMe THEN Streams ELSE {"collection"}

-----------------------------------------------------------------------------
\* Mutant: no guard against an echo.
TrustingToken(current, nxt, more) == IF more THEN nxt ELSE 0

\* The token to page from next; a provider that echoes ours has no more to give.
NextToken(current, nxt, more) == IF more /\ nxt # current THEN nxt ELSE 0

\* The tokens of a freshly rendered page: what follows its embedded lists.
FirstTokens ==
    [s \in Streams |-> IF s \in Wanted THEN NextToken(0, 1, PageCount[s] > 1) ELSE 0]

Init ==
    /\ isMe \in BOOLEAN
    /\ row = "pending"
    /\ cursor = NoTokens
    /\ ingested = [s \in Streams |-> {}]
    /\ phase = "paging"
    /\ tokens = NoTokens
    /\ left = 0
    /\ cut = {}
    /\ hand = NoTokens
    /\ fresh = [s \in Streams |-> {}]
    /\ spent = 0
    /\ breaks = 0
    /\ backs = 0

\* A visit without a bookmark renders the page.
Render ==
    /\ row = "pending"
    /\ cursor = NoTokens
    /\ row'    = "visiting"
    /\ phase'  = "collection"
    /\ tokens' = FirstTokens
    /\ left'   = PagesPerVisit
    /\ fresh'  = [s \in Streams |-> {}]
    /\ spent'  = 0
    /\ UNCHANGED <<isMe, cursor, ingested, hand, cut, breaks, backs>>

\* A visit with one pages on from there and renders nothing.
Resume ==
    /\ row = "pending"
    /\ cursor # NoTokens
    /\ row'    = "visiting"
    /\ phase'  = "paging"
    /\ tokens' = cursor
    /\ left'   = PagesPerVisit
    /\ UNCHANGED <<isMe, cursor, ingested, hand, cut, fresh, spent, breaks, backs>>

\* Mutants: only the end of a visit moves the bookmark; it names the page after the
\* next one.
OnlyAtTheEnd(t) == cursor
PageAhead(t) == [s \in Streams |-> IF t[s] = 0 THEN 0 ELSE t[s] + 1]

\* The bookmark that goes into the page's commit.
Snapshot(t) == t

\* Ingest page n of a list and commit it with the bookmark t: one durable unit.
Absorb(s, n, t) ==
    /\ ingested' = [ingested EXCEPT ![s] = @ \cup {n}]
    /\ fresh'    = [fresh EXCEPT ![s] = @ \cup {n}]
    /\ tokens'   = t
    /\ cursor'   = Snapshot(t)

AfterEmbedded(s) ==
    IF s = "collection" /\ isMe THEN "wishlist"
    ELSE IF s = "wishlist" THEN "follows" ELSE "paging"

AbsorbEmbedded(s) ==
    /\ row = "visiting"
    /\ phase = s
    /\ Absorb(s, 1, tokens)
    /\ phase' = AfterEmbedded(s)
    /\ UNCHANGED <<isMe, row, left, hand, cut, spent, breaks, backs>>

\* The lists are paged in turn: the collection, the wishlist, the follows.
Turn(s) ==
    /\ s # "collection" => tokens["collection"] = 0
    /\ s = "follows" => tokens["wishlist"] = 0

\* Mutant: the budget of the visit is not looked at.
MayFetchBeyond(s) ==
    row = "visiting" /\ phase = "paging" /\ s \in Wanted /\ tokens[s] # 0 /\ Turn(s)

MayFetch(s) ==
    /\ row = "visiting" /\ phase = "paging"
    /\ left > 0
    /\ s \in Wanted
    /\ tokens[s] # 0
    /\ Turn(s)

\* Buy the page after the token, and move the visit's token on at once.  The
\* provider answers with the token that follows the page, echoes the one it was
\* sent, or goes back to an older one, which the code takes for a new one.
BuyPage(s) ==
    /\ MayFetch(s)
    /\ hand = NoTokens
    /\ LET n == tokens[s] + 1
       IN  /\ hand' = [hand EXCEPT ![s] = n]
           /\ \E nxt \in 1..n :
                 /\ nxt < tokens[s] => backs < MaxBacks
                 /\ backs'  = IF nxt < tokens[s] THEN backs + 1 ELSE backs
                 /\ tokens' = [tokens EXCEPT ![s] = NextToken(tokens[s], nxt, n < PageCount[s])]
    /\ left'  = left - 1
    /\ spent' = IF spent < MaxSpent THEN spent + 1 ELSE spent
    /\ UNCHANGED <<isMe, row, cursor, ingested, phase, cut, fresh, breaks>>

\* Ingest the page in hand and commit it.
AbsorbPage(s) ==
    /\ row = "visiting"
    /\ hand[s] # 0
    /\ Absorb(s, hand[s], tokens)
    /\ cut'  = IF tokens[s] = 0 /\ hand[s] < PageCount[s] THEN cut \cup {s} ELSE cut
    /\ hand' = NoTokens
    /\ UNCHANGED <<isMe, row, phase, left, spent, breaks, backs>>

VisitOver ==
    /\ row = "visiting" /\ phase = "paging"
    /\ hand = NoTokens
    /\ \A s \in Streams : ~MayFetch(s)

\* Mutant: the page counts as read out after one visit.
OneVisitIsEnough == TRUE

ReadOut == tokens = NoTokens

\* mark_done, or mark_partial with the leftover tokens.
FinishVisit ==
    /\ VisitOver
    /\ row'    = IF ReadOut THEN "done" ELSE "pending"
    /\ cursor' = IF ReadOut THEN NoTokens ELSE tokens
    /\ tokens' = NoTokens
    /\ UNCHANGED <<isMe, ingested, phase, left, hand, cut, fresh, spent, breaks, backs>>

\* A time-out, a database retry or the death of the process, at any await: the
\* visit is gone and a bought page with it, what it committed stays, and a later
\* visit starts from the committed bookmark.
CutShort ==
    /\ row = "visiting"
    /\ breaks < MaxBreaks
    /\ breaks' = breaks + 1
    /\ row'    = "pending"
    /\ tokens' = NoTokens
    /\ hand'   = NoTokens
    /\ phase'  = "paging"
    /\ UNCHANGED <<isMe, cursor, ingested, left, cut, fresh, spent, backs>>

\* Any other failure, or one time-out too many.  The bookmark is kept.
GiveUp ==
    /\ row = "visiting"
    /\ row'    = "error"
    /\ tokens' = NoTokens
    /\ hand'   = NoTokens
    /\ phase'  = "paging"
    /\ UNCHANGED <<isMe, cursor, ingested, left, cut, fresh, spent, breaks, backs>>

Visit ==
    \/ Render \/ Resume \/ FinishVisit
    \/ \E s \in Streams : AbsorbEmbedded(s) \/ BuyPage(s) \/ AbsorbPage(s)

Next == Visit \/ CutShort \/ GiveUp

Spec == Init /\ [][Next]_vars

\* Workers keep claiming the entry while it is pending, and a visit goes on.
FairSpec == Spec /\ WF_vars(Visit)

-----------------------------------------------------------------------------
(* Properties.                                                                 *)

\* Every variable has its type.
TypeOK ==
    /\ isMe \in BOOLEAN
    /\ row \in {"pending", "visiting", "done", "error"}
    /\ cursor \in [Streams -> Nat] /\ tokens \in [Streams -> Nat]
    /\ ingested \in [Streams -> SUBSET Nat] /\ fresh \in [Streams -> SUBSET Nat]
    /\ phase \in Streams \cup {"paging"}
    /\ left \in 0..PagesPerVisit
    /\ hand \in [Streams -> Nat]
    /\ cut \subseteq Streams
    /\ spent \in Nat
    /\ breaks \in 0..MaxBreaks /\ backs \in 0..MaxBacks

\* An entry marked done has had every page of the collection ingested, however its
\* visits were cut short, unless the provider itself ended the list with an echo.
CollectionComplete ==
    row = "done" /\ "collection" \notin cut => AllPages("collection") \subseteq ingested["collection"]

\* The committed bookmark never names a page of the collection that is not
\* committed too, nor is it without a token for one that is still to come
\* (service.absorb: "everything up to and including this page is ingested").
BookmarkIsHonest ==
    cursor # NoTokens =>
        IF cursor["collection"] # 0 THEN 1..cursor["collection"] \subseteq ingested["collection"]
        ELSE "collection" \in cut \/ AllPages("collection") \subseteq ingested["collection"]

\* The pages bought since the page was last rendered that are committed.
Paid == UNION {{s} \X (fresh[s] \ {1}) : s \in Streams}

\* What resuming costs: of the pages bought since the render, all but one for each
\* visit that was cut short are committed, so no page is bought again except the one
\* that a time-out, a deadlock or a death caught between its purchase and its commit.
\* A provider that goes back to an older token has its pages bought again too.
OnePageLostPerBreak ==
    backs = 0 => spent <= Cardinality(Paid) + breaks + (IF hand # NoTokens \/ row = "error" THEN 1 ELSE 0)

\* The entry comes to an end although the provider may echo its token: it is not
\* parked with a bookmark for ever.  The code compares an answer with the last token
\* only, so this takes a provider that goes back to older ones no more than MaxBacks
\* times; one that goes round in a circle is paged for ever.
EntryEnds == <>(row \in {"done", "error"})

\* The collection is read as Reading says, from visit to visit: page by page in order, never past
\* the bookmark nor short of it, and to the end.
Paging == INSTANCE Reading WITH
    Entries  <- {"collection"},
    Units    <- PageCount,
    state    <- [s \in {"collection"} |-> IF row \in {"done", "error"} THEN row ELSE "open"],
    bookmark <- [s \in {"collection"} |-> cursor[s]],
    read     <- [s \in {"collection"} |-> ingested[s]],
    ended    <- cut \cap {"collection"}

PagingSpec == Paging!Spec

=============================================================================
