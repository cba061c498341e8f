------------------------------- MODULE MCIngest --------------------------------
(* A small instance of Ingest: two fans, two albums of a band each, pages that  *)
(* meet in all of them; and a third fan, who bears the name of the first.       *)
EXTENDS Ingest, IngestPages, FiniteSets

CONSTANT Identified   \* the page of supporters gives their ids

first == [type |-> "album", id |-> "a1", band |-> <<"b1">>, tracks |-> <<"t">>, tags |-> <<"g">>]
second == [type |-> "album", id |-> "a2", band |-> <<"b2">>]
song == [type |-> "track", id |-> "t", band |-> <<"b1">>, album |-> <<"a1">>, tags |-> <<"g">>]

\* "bought" is the seed's collection after the wish of "wishes" has come true.
MCParsed ==
  [collection |-> FanPage("seed", <<second>>),
   wishes     |-> IngestItems("seed", <<first>>, TRUE),
   follows    |-> IngestFollows("seed", <<"b1">>),
   bought     |-> FanPage("seed", <<first, second>>),
   renamed    |-> FanPage("other", <<>>),
   theirs     |-> FanPage("fan", <<second, song, first>>),
   album      |-> IngestAlbum(first),
   track      |-> IngestTrackPage(song),
   supporters |-> IngestSupporters("a1", <<[name |-> "fan", id |-> Identified]>>)]

\* A page that a visit reads only after others.
MCAfter ==
  [p \in DOMAIN MCParsed |->
     CASE p \in {"wishes", "follows"} -> {"collection"}
       [] p = "supporters" -> {"album"}
       [] OTHER -> {}]

MCPages == DOMAIN MCParsed
MCKeys == UNION {{MCParsed[p][n].key : n \in DOMAIN MCParsed[p]} : p \in MCPages}

MCNamesakes ==
  [k \in MCKeys |-> CASE k = <<"seed">> -> {<<"other">>} [] k = <<"other">> -> {<<"seed">>} [] OTHER -> {}]
================================================================================
