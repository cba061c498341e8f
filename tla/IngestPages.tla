------------------------------ MODULE IngestPages ------------------------------
(***************************************************************************)
(* What the mapper makes of a parsed page: the sightings of rows, in the   *)
(* order in which it ensures them.  The key of a row is the tuple of what  *)
(* it is about: one entity, or the two ends of an edge.  What a page may   *)
(* lack (the band of an item, the album of a track) is a sequence of at    *)
(* most one.                                                               *)
(***************************************************************************)
EXTENDS SequencesExt

\* A sighting is full if it brings all that describes the row.
Seen(kind, key, full, id, wish) ==
  [kind |-> kind, key |-> key, row |-> [full |-> full, id |-> id, wish |-> wish]]

Node(x) == <<Seen("node", <<x>>, TRUE, TRUE, FALSE)>>
Stub(x) == <<Seen("node", <<x>>, FALSE, TRUE, FALSE)>>
Edge(from, to) == <<Seen("edge", <<from, to>>, TRUE, TRUE, FALSE)>>

\* f(x) for the elements of s, one after the other.
Each(s, f(_)) == FlattenSeq([n \in DOMAIN s |-> f(s[n])])

\* get_or_create_fan, and _add_fan_item for an item of the collection or the wishlist.
FanRow(fan) == <<Seen("fan", <<fan>>, TRUE, TRUE, FALSE)>>
FanItem(fan, item, wish) == <<Seen("edge", <<fan, item>>, TRUE, TRUE, wish)>>

\* ingest_item: a collection knows a track but for its number and length, its album by title.
IngestItem(fan, item, wish) ==
  Each(item.band, Node)
    \o (IF item.type = "album" THEN Node(item.id) ELSE Each(item.album, Stub) \o Stub(item.id))
    \o FanItem(fan, item.id, wish)

\* ingest_items_batch
IngestItems(fan, items, wish) ==
  LET Item(item) == IngestItem(fan, item, wish) IN Each(items, Item)

\* ingest_follows_batch
IngestFollows(fan, bands) ==
  LET Follow(band) == Node(band) \o Edge(fan, band) IN Each(bands, Follow)

\* The first page of a collection comes with the fan.
FanPage(fan, items) == FanRow(fan) \o IngestItems(fan, items, FALSE)

\* ingest_album: each tag is put on the album, its band and its tracks.
IngestAlbum(album) ==
  LET Tagged(tag) ==
        LET To(x) == Edge(x, tag) IN Node(tag) \o To(album.id) \o Each(album.band \o album.tracks, To)
  IN  Each(album.band, Node) \o Node(album.id) \o Each(album.tracks, Node) \o Each(album.tags, Tagged)

\* ingest_track_page: the album is known by its address only.
IngestTrackPage(track) ==
  LET Tagged(tag) ==
        LET To(x) == Edge(x, tag) IN Node(tag) \o To(track.id) \o Each(track.band, To)
  IN  Each(track.band, Node) \o Each(track.album, Stub) \o Stub(track.id) \o Each(track.tags, Tagged)

\* ingest_album_supporters and ingest_track_supporters: a supporter whom the page gives without
\* an id is known by name only.
IngestSupporters(item, supporters) ==
  LET Supporter(s) ==
        <<Seen("supporter", <<s.name>>, s.id, s.id, FALSE)>> \o Edge(item, s.name)
  IN  Each(supporters, Supporter)
================================================================================
