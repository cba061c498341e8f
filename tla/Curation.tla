------------------------------- MODULE Curation --------------------------------
(***************************************************************************)
(* What a curate computes from the graph: the neighbours of a scan, the    *)
(* candidates they vote for, what is excluded and why, the scores, and the *)
(* ranked feed with one release per band.  The steps of the specification  *)
(* are those of its surroundings: the crawl learns who has and supports    *)
(* what, the user follows, likes and blocks.                               *)
(*                                                                         *)
(* Albums and tracks are scored alike and are items here; the two tables   *)
(* each has (items of fans, supporters, tags) are one.  A score is a whole *)
(* number, in ten-thousandths; Log is a table of the logarithm log1p, in   *)
(* thousandths.                                                            *)
(***************************************************************************)
EXTENDS Integers, FiniteSets, FiniteSetsExt, SequencesExt, TLC

CONSTANTS
  Me,         \* the Fan that the user is
  Fans,       \* the fans crawled, Me among them
  Wishers,    \* those who are users too: the crawl reads their wishlists as well
  Albums, Tracks,
  Ident,      \* the id of each album and each track
  Bands, NoBand,
  BandOf,     \* the band of an item, or NoBand
  Hosts, NoHost,
  HostOf, BandHost,   \* the hosts of their addresses
  Tags,
  PageTags,   \* the tags an item's own page gave, if it was crawled
  BandTags,
  Scans,      \* what the scan may be and how it may be curated
  Log,        \* the logarithms of the counts there may be
  Collections, Support,   \* what the crawl has learned at the start
  Changes     \* bound: steps

Items == Albums \cup Tracks

ASSUME CurationAssumption ==
  /\ IsFiniteSet(Fans) /\ Me \in Fans /\ Wishers \subseteq Fans
  /\ IsFiniteSet(Items) /\ Albums \cap Tracks = {} /\ Ident \in [Items -> Nat]
  /\ \A kind \in {Albums, Tracks} : \A x, y \in kind : Ident[x] = Ident[y] => x = y
  /\ NoBand \notin Bands \cup Items /\ BandOf \in [Items -> Bands \cup {NoBand}]
  /\ NoHost \notin Hosts /\ HostOf \in [Items -> Hosts \cup {NoHost}]
  /\ BandHost \in [Bands -> Hosts \cup {NoHost}]
  /\ IsFiniteSet(Tags)
  /\ PageTags \in [Items -> SUBSET Tags] /\ BandTags \in [Bands -> SUBSET Tags]
  /\ Log \in [0 .. Cardinality(Items) * (Cardinality(Tags) + 1) -> Nat]
  /\ \A m, n \in DOMAIN Log : m <= n => Log[m] <= Log[n]
  /\ Scans \subseteq [kind : {"collection", "custom"}, seeds : SUBSET Items,
                      floor : Nat, weighted : BOOLEAN, exclude : SUBSET Tags]
  /\ Collections \in [Fans -> [Items -> {"none", "wish", "own"}]]
  /\ Support \subseteq Fans \X Items /\ Changes \in Nat

VARIABLES
  scan,      \* the scan and the settings of its curates
  holds,     \* fan_items: whether a fan owns an item, wishes for it or neither
  supports,  \* album_supporters and track_supporters: pairs of a fan and an item
  follows,   \* the bands Me follows
  liked,     \* the items the user likes
  blocked,   \* the items and bands the user has blocked
  changes    \* steps so far

vars == <<scan, holds, supports, follows, liked, blocked, changes>>

-----------------------------------------------------------------------------
(* Seeds, exclusions and tags.                                             *)

Owned(f) == {x \in Items : holds[f][x] = "own"}
Wished(f) == {x \in Items : holds[f][x] = "wish"}
Held(f) == {x \in Items : holds[f][x] # "none"}

\* _seed_ids
Seeds == IF scan.kind = "collection" THEN Owned(Me) ELSE scan.seeds

\* build_exclusions
ExcludedItems == Held(Me) \cup (blocked \cap Items) \cup liked
ExcludedBands == follows \cup (blocked \cap Bands) \cup ({BandOf[x] : x \in liked} \ {NoBand})
FollowedHosts == {BandHost[b] : b \in follows} \ {NoHost}

\* _excluded_album, _excluded_track
Excluded(x) ==
  x \in ExcludedItems \/ BandOf[x] \in ExcludedBands \/ HostOf[x] \in FollowedHosts

\* An item whose page was not crawled has the tags of its band.
EffectiveTags(x) ==
  IF PageTags[x] # {} THEN PageTags[x]
  ELSE IF BandOf[x] = NoBand THEN {} ELSE BandTags[BandOf[x]]

\* _my_tag_profile
TagProfile == [t \in Tags |-> Cardinality({x \in Owned(Me) : t \in EffectiveTags(x)})]

-----------------------------------------------------------------------------
(* Neighbours and their votes.                                             *)

\* The fans a seed has led to.
Supporters(s) == {f \in Fans \ {Me} : <<f, s>> \in supports}

\* _scan_neighbours
Neighbours == UNION {Supporters(s) : s \in Seeds}

\* The neighbours who have a row for the item, which for some is a wish.
Owners(x) == {f \in Neighbours : x \in Held(f)}

\* _neighbour_overlap
Overlap(f) == Cardinality(Held(f) \cap Owned(Me))

\* Mutant: a ratio, of the items of the fan that are recorded.
DampedRatio == [f \in Fans |-> 1000 + Log[Overlap(f)] \div Cardinality(Held(f))]

\* _damped_overlap_weight
Damped == [f \in Fans |-> 1000 + Log[Overlap(f)]]

\* _seed_tag_provenance
Provenance(x) ==
  UNION {EffectiveTags(s) : s \in {s \in Seeds : \E f \in Supporters(s) : x \in Held(f)}}

-----------------------------------------------------------------------------
(* The ranking.                                                            *)

\* The candidates, and those who reach the floor.
Candidates ==
  {x \in Items : /\ Owners(x) # {} /\ ~Excluded(x)
                 /\ scan.exclude \cap Provenance(x) = {}}
Passing == {x \in Candidates : Cardinality(Owners(x)) >= scan.floor}

CoOwnerWeight(x) ==
  IF scan.weighted THEN SumFunctionOnSet(Damped, Owners(x)) ELSE 1000 * Cardinality(Owners(x))

TagAffinity(x) == SumFunctionOnSet(TagProfile, EffectiveTags(x))

\* Mutant: the tags weigh as much as co-owners do.
HeavyTagTerm(x) == 10 * Log[TagAffinity(x)]

TagTerm(x) == IF scan.weighted THEN Log[TagAffinity(x)] ELSE 2500 * TagAffinity(x)

Score(x) == 10 * CoOwnerWeight(x) + TagTerm(x)

\* _tie_break_key: the first of these that differ decides; albums come first, then newer ids.
Key(x) ==
  <<-Score(x), -Cardinality(Owners(x)), -TagAffinity(x), IF x \in Albums THEN 0 ELSE 1, -Ident[x]>>

Before(x, y) ==
  LET k == Key(x)  l == Key(y)
  IN  \E n \in 1 .. 5 : k[n] < l[n] /\ \A m \in 1 .. n - 1 : k[m] = l[m]

\* A stable sort: items that no key tells apart stay in the order the database returned them in.
Sorted(rows) ==
  LET Precedes(m, n) == Before(rows[m], rows[n]) \/ (m < n /\ ~Before(rows[n], rows[m]))
      order == CHOOSE p \in SetToSeqs(DOMAIN rows) :
                 \A m, n \in DOMAIN rows : m < n => Precedes(p[m], p[n])
  IN  [n \in DOMAIN rows |-> rows[order[n]]]

\* The loop that keeps the first item of each band; of no band it keeps all.
OnePerBand(ranked) ==
  LET Keep(kept, x) ==
        IF BandOf[x] # NoBand /\ \E y \in ToSet(kept) : BandOf[y] = BandOf[x]
        THEN kept ELSE Append(kept, x)
  IN  FoldLeft(Keep, <<>>, ranked)

\* Mutant: one per band among the rows as they come.
FeedUnsorted(rows) == Sorted(OnePerBand(rows))

Feed(rows) == OnePerBand(Sorted(rows))

-----------------------------------------------------------------------------
(* The reports.                                                            *)

\* Mutant: the reasons there were before likes were counted.
ReasonsWithoutLikes(x) ==
  /\ x \notin Held(Me)
  /\ BandOf[x] \notin follows /\ HostOf[x] \notin FollowedHosts
  /\ x \notin blocked /\ BandOf[x] \notin blocked

\* cold_start_diagnostics counts the candidates of each reason; none counts this one.
Unexplained(x) ==
  /\ x \notin Owned(Me) /\ x \notin Wished(Me)
  /\ BandOf[x] \notin follows /\ HostOf[x] \notin FollowedHosts
  /\ x \notin blocked /\ BandOf[x] \notin blocked
  /\ x \notin liked /\ BandOf[x] \notin {BandOf[y] : y \in liked} \ {NoBand}

\* _candidate_vote_counts
Votes ==
  [f \in Fans |-> Cardinality({x \in Held(f) : /\ x \notin ExcludedItems
                                               /\ BandOf[x] \notin ExcludedBands
                                               /\ HostOf[x] \notin FollowedHosts})]

\* _collection_sizes, in the buckets of the report, which are two here.
Large(f) == Cardinality(Owned(f)) > 1

\* neighbour_size_report: the neighbours and the votes of a bucket.
Bucket(large) == {f \in Neighbours : Large(f) = large}
BucketVotes(large) == SumFunctionOnSet(Votes, Bucket(large))

-----------------------------------------------------------------------------
(* The surroundings.                                                       *)

Init ==
  /\ scan \in Scans
  /\ holds = Collections /\ supports = Support
  /\ follows = {} /\ liked = {} /\ blocked = {}
  /\ changes = 0

Change == changes < Changes /\ changes' = changes + 1
GraphKept == UNCHANGED <<holds, supports, follows>>
ChoicesKept == UNCHANGED <<liked, blocked>>

\* The crawl reads a collection or, of a user, a wishlist.
Learn(f, x, how) ==
  /\ Change
  /\ holds[f][x] # "own" /\ holds[f][x] # how
  /\ holds' = [holds EXCEPT ![f][x] = how]
  /\ ChoicesKept /\ UNCHANGED <<scan, supports, follows>>

\* The crawl reads the supporters of a seed.
LearnSupporter(f, x) ==
  /\ Change
  /\ x \in Seeds /\ <<f, x>> \notin supports
  /\ supports' = supports \cup {<<f, x>>}
  /\ ChoicesKept /\ UNCHANGED <<scan, holds, follows>>

\* The crawl reads whom Me follows.
Follow(b) ==
  /\ Change
  /\ follows' = follows \cup {b}
  /\ ChoicesKept /\ UNCHANGED <<scan, holds, supports>>

Like(x) ==
  /\ Change
  /\ liked' = liked \cup {x}
  /\ GraphKept /\ UNCHANGED <<scan, blocked>>

Block(y) ==
  /\ Change
  /\ blocked' = blocked \cup {y}
  /\ GraphKept /\ UNCHANGED <<scan, liked>>

Next ==
  \/ \E f \in Fans, x \in Items : Learn(f, x, "own") \/ LearnSupporter(f, x)
  \/ \E f \in Wishers, x \in Items : Learn(f, x, "wish")
  \/ \E b \in Bands : Follow(b)
  \/ \E x \in Items : Like(x)
  \/ \E y \in Items \cup Bands : Block(y)

Spec == Init /\ [][Next]_vars

-----------------------------------------------------------------------------
(* Properties.                                                             *)

\* The feed is the best passing item of each band, in the order of their scores, and is the same
\* in whatever order the database returns the rows.
FeedIsBestOfBands ==
  LET best == {x \in Passing :
                 \A y \in Passing : BandOf[x] # NoBand /\ BandOf[y] = BandOf[x] => ~Before(y, x)}
  IN  \A rows \in SetToSeqs(Passing) :
        LET feed == Feed(rows)
        IN  /\ ToSet(feed) = best /\ Len(feed) = Cardinality(best)
            /\ \A n \in 1 .. Len(feed) - 1 : Before(feed[n], feed[n + 1])

\* However well its tags match, no item comes before one that has all its co-owners and another.
OneMoreCoOwnerWins ==
  scan.weighted =>
    \A x, y \in Passing :
      Owners(x) \subseteq Owners(y) /\ Owners(x) # Owners(y) => Before(y, x)

\* What the crawl learns of the collections of others lowers no score.
CrawlingLowersNoScore ==
  [][holds'[Me] = holds[Me] => \A x \in Candidates : x \in Candidates' => Score(x)' >= Score(x)]_holds

\* The reports agree with the ranking: a neighbour's item is left out for a reason exactly if the
\* diagnosis counts one, and the votes of all buckets are those the items that are left have got.
ReportsAgree ==
  /\ \A x \in Items : Excluded(x) <=> ~Unexplained(x)
  /\ BucketVotes(TRUE) + BucketVotes(FALSE)
       = SumFunctionOnSet([x \in Items |-> Cardinality(Owners(x))], {x \in Items : ~Excluded(x)})
================================================================================
