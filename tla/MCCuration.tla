------------------------------ MODULE MCCuration ------------------------------
(* A small instance of Curation: two neighbours, one of them a user as well;    *)
(* two items of mine, an album and a track of one band, a release of no band.   *)
EXTENDS Curation

CONSTANTS me, p, q, g, h

\* "m" and "n" are mine; "x" and "y" have the same id.
MCIdent == [m |-> 1, n |-> 2, x |-> 3, y |-> 3, z |-> 4]
MCBandOf == [m |-> "A", n |-> "B", x |-> "C", y |-> "C", z |-> "none"]
MCHostOf == [m |-> "a", n |-> "label", x |-> "label", y |-> "none", z |-> "none"]
MCBandHost == [A |-> "a", B |-> "label", C |-> "c"]
MCPageTags == [m |-> {g, h}, n |-> {g, h}, x |-> {}, y |-> {g}, z |-> {}]
MCBandTags == [A |-> {g}, B |-> {h}, C |-> {g}]

\* Each item of mine stands for 500 alike.
MCLog ==
  <<6217, 6909, 7314, 7601, 7824, 8007, 8161, 8294, 8412, 8517,
    8613, 8700, 8780, 8854, 8923>> @@ (0 :> 0)

Having(own, wish) ==
  [x \in {"m", "n", "x", "y", "z"} |-> IF x \in own THEN "own" ELSE IF x \in wish THEN "wish" ELSE "none"]

MCCollections ==
  (me :> Having({"m", "n"}, {})) @@ (p :> Having({"m", "x", "y"}, {})) @@ (q :> Having({"x", "z"}, {}))
MCSupport == {<<me, "m">>, <<p, "m">>, <<q, "n">>}

Curate(kind, seeds, floor, weighted, exclude) ==
  [kind |-> kind, seeds |-> seeds, floor |-> floor, weighted |-> weighted, exclude |-> exclude]
MCScans ==
  {Curate("collection", {}, 1, TRUE, {}), Curate("collection", {}, 2, TRUE, {}),
   Curate("custom", {"m", "z"}, 1, TRUE, {}), Curate("collection", {}, 1, FALSE, {g})}
================================================================================
