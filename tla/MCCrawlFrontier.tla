--------------------------- MODULE MCCrawlFrontier ---------------------------
(* Small instances of CrawlFrontier.  A collection scan: the owner's fan page   *)
(* "me" pages out after two of its three units, reveals the albums "a" and "b", *)
(* and both lead to the fan "f", which lies at the depth bound.                 *)
EXTENDS CrawlFrontier, TLC

CONSTANTS me, a, b, f, w1, w2

MCWorkers == {w1, w2}

\* The whole neighbourhood.
HoodSeeds == <<me>>
HoodPages == {me, a, b, f}
HoodLinks ==
    (me :> << <<a>>, <<>>, <<b>> >>) @@ (a :> << <<f, me>> >>)
 @@ (b :> << <<f>> >>)               @@ (f :> << <<a>>, <<b>> >>)

\* What another scan stored of "a": not the owner's page, but one album more than
\* the live crawl reveals, and without the fan; of the others, what they reveal.
HoodStored == [u \in HoodPages |->
    IF u = a THEN {b} ELSE UNION {ToSet(HoodLinks[u][n]) : n \in DOMAIN HoodLinks[u]}]

\* Only its start.
FewSeeds == <<me>>
FewPages == {me, a, b}
FewLinks ==
    (me :> << <<a>>, <<>>, <<b>> >>) @@ (a :> << <<me>> >>) @@ (b :> << <<a>> >>)
FewStored == [u \in FewPages |-> {}]

\* The owner's page and one album, for the run with the most trouble.
PairPages == {me, a}
PairLinks == (me :> << <<a>>, <<>>, <<>> >>) @@ (a :> << <<me>> >>)
PairStored == [u \in PairPages |-> {}]

Symmetry == Permutations(MCWorkers)
==============================================================================
