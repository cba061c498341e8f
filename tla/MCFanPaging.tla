----------------------------- MODULE MCFanPaging -----------------------------
(* Small instances of FanPaging: a collection that takes three visits to page   *)
(* out, a wishlist that fits into one, follows that are embedded or overflow by *)
(* a page.                                                                      *)
EXTENDS FanPaging

ListCount == [s \in Streams |->
    CASE s = "collection" -> 6 [] s = "wishlist" -> 3 [] s = "follows" -> 2]
==============================================================================
