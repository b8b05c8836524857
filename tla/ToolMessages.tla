------------------------------ MODULE ToolMessages ------------------------------
(***************************************************************************)
(* Messages for ToolResults: every MCP result of up to three items of up   *)
(* to two units, Shell deltas of as many, trees three levels deep that are *)
(* wider and deeper than the bounds, searches over two workspaces and the  *)
(* active one.                                                             *)
(***************************************************************************)
EXTENDS BoundedText

MCDeltas == BoundedSeq(RawUnits, 2)
Items == [kind : {"text"}, raw : MCDeltas] \cup [kind : {"image", "other", "malformed"}, raw : {<<>>}]
Structured == {[kind |-> "absent", raw |-> <<>>], [kind |-> "malformed", raw |-> <<>>]}
  \cup [kind : {"struct"}, raw : {<<"letter">>, <<"letter", "wide">>}]
MCMcpResults == [items : BoundedSeq(Items, 3), structured : Structured]

MCNames == {"", "a", "b", "c", "d", "e", "root"}
FileLists == {<<>>, <<"a">>, <<"", "b">>}
Leaves == [name : {"", "d"}, files : FileLists, dirs : {<<>>}, malformed : {FALSE}]
  \cup [name : {"d"}, files : {<<"a", "b", "c", "">>, <<"a", "undecodable">>}, dirs : {<<>>}, malformed : {FALSE}]
  \cup [name : {""}, files : {<<>>}, dirs : {<<>>}, malformed : {TRUE}]
Branches == [name : {"e"}, files : {<<>>, <<"a">>}, dirs : BoundedSeq(Leaves, 2), malformed : {FALSE}]
Roots == [name : {"root"}, files : FileLists, malformed : {FALSE},
          dirs : {<<b>> : b \in Branches} \cup {<<l, b>> : l \in Leaves, b \in Branches}]
MCTrees == Roots \cup Branches \cup Leaves
MCListings == [tree : Roots \cup Leaves, depth : 0..3]

MCHits == 1..4
MCUnions == [kind : {"count", "files", "content"}, items : {<<>>, <<1>>, <<1, 2>>, <<1, 2, 3, 4>>}]
  \cup [kind : {"absent", "other"}, items : {<<>>}]
MCSearches == [workspaces : BoundedSeq(MCUnions, 2), active : MCUnions]

===============================================================================
