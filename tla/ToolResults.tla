------------------------------ MODULE ToolResults ------------------------------
(***************************************************************************)
(* What the daemon makes of a tool's result before it gives it to the      *)
(* provider, where it is bounded: an MCP result (summarizeMCPSuccess,      *)
(* protocol/tool_mcp.go), a listing (flattenListTree) and a search         *)
(* (parseGrepResult, both protocol/tool_files.go). Each is a pure function *)
(* of one message of the client. A Shell call takes several: ShellOutput.  *)
(***************************************************************************)
EXTENDS ShellOutput

CONSTANTS
  MaxItems,       \* maxStructuredToolItems
  MaxMcpItems,    \* maxMCPResultItems
  MaxMcpBytes,    \* maxMCPResultBytes
  DefaultDepth,   \* of a listing that asks for none; 64 in the code
  Names,          \* of files and directories
  Trees,          \* directories, with all that are below them
  Hits,           \* what a search may find
  McpResults,     \* messages: [items, structured]
  Listings,       \* messages: [tree, depth]
  Searches        \* messages: [workspaces, active]

Undecodable == "undecodable"   \* a file entry that does not decode
FileNames == Names \cup {Undecodable}
McpItems == [kind : {"text", "image", "other", "malformed"}, raw : Seq(RawUnits)]
McpStructured ==
  [kind : {"struct"}, raw : Seq(RawUnits)] \cup [kind : {"absent", "malformed"}, raw : {<<>>}]
Kinds == {"count", "files", "content"}
Unions == [kind : Kinds \cup {"absent", "other"}, items : Seq(Hits)]

ASSUME ResultsAssumption ==
  /\ MaxItems \in Nat \ {0} /\ MaxMcpItems \in Nat \ {0} /\ MaxMcpBytes \in Nat \ {0}
  /\ DefaultDepth \in Nat
  /\ \A tree \in Trees : tree \in [name : Names, files : Seq(FileNames), dirs : Seq(Trees), malformed : BOOLEAN]
  /\ \A msg \in McpResults : msg \in [items : Seq(McpItems), structured : McpStructured]
  /\ \A msg \in Listings : msg \in [tree : Trees, depth : Nat]
  /\ \A msg \in Searches : msg \in [workspaces : Seq(Unions), active : Unions]

VARIABLES
  tool,      \* what was called
  message,   \* the client's result
  answer     \* what is made of it

resultVars == <<tool, message, answer, shellVars>>

Pending == [status |-> "pending"]
Malformed == [status |-> "malformed"]

(* The first of what is bounded by a number of items.                       *)
Beginning(all, n) == IF Len(all) > n THEN SubSeq(all, 1, n) ELSE all

-------------------------------------------------------------------------------
(***************************************************************************)
(* summarizeMCPSuccess. An item is text, an image, of which the provider   *)
(* is told no more than that there is one, or of a kind that is passed     *)
(* over. The summary so far: its sections, their bytes, whether anything   *)
(* was truncated and whether the loop goes on.                             *)
(***************************************************************************)
Section(item) ==
  CASE item.kind = "text" -> item.raw
    [] item.kind = "image" -> <<"letter", "letter">>
    [] OTHER -> <<>>

AddSection(summary, raw) ==
  LET bounded == Bounded(raw, MaxMcpBytes - summary.bytes)
  IN  [summary EXCEPT !.sections = IF bounded.text = <<>> THEN @ ELSE Append(@, bounded.text),
                      !.bytes = @ + Bytes(bounded.text),
                      !.truncated = @ \/ bounded.cut]

AddItem_NotMarkedFull(summary, item) ==
  IF ~summary.open \/ summary.malformed THEN summary
  ELSE IF item.kind = "malformed" THEN [summary EXCEPT !.malformed = TRUE]
  ELSE LET added == AddSection(summary, Section(item))
       IN  [added EXCEPT !.open = added.bytes < MaxMcpBytes]
AddItem(summary, item) ==
  IF ~summary.open \/ summary.malformed THEN summary
  ELSE IF item.kind = "malformed" THEN [summary EXCEPT !.malformed = TRUE]
  ELSE LET added == AddSection(summary, Section(item))
           full == added.bytes >= MaxMcpBytes
       IN  [added EXCEPT !.truncated = @ \/ full, !.open = ~full]

TakenItems(items) == Beginning(items, MaxMcpItems)

(* The summary before the first item and after each of them.                *)
Summaries(items) ==
  LET summary[i \in 0..Len(TakenItems(items))] ==
        IF i = 0
        THEN [sections |-> <<>>, bytes |-> 0, open |-> TRUE, malformed |-> FALSE,
              truncated |-> Len(items) > MaxMcpItems]
        ELSE AddItem(summary[i - 1], TakenItems(items)[i])
  IN  summary

(* The structured content comes last and only when there is room for it.    *)
AddStructured(summary, structured) ==
  IF structured.kind = "absent" \/ ~summary.open \/ summary.malformed THEN summary
  ELSE IF structured.kind = "malformed" THEN [summary EXCEPT !.malformed = TRUE]
  ELSE AddSection(summary, structured.raw)

SummarizeMcp(msg) ==
  LET summary == AddStructured(Summaries(msg.items)[Len(TakenItems(msg.items))], msg.structured)
  IN  IF summary.malformed THEN Malformed
      ELSE [status |-> "ok", sections |-> summary.sections, truncated |-> summary.truncated]

-------------------------------------------------------------------------------
(***************************************************************************)
(* flattenListTree: a directory's own name, its files, then its            *)
(* directories one by one. A directory at the depth asked for is named but *)
(* its files are not; below it nothing is. entries grows through the whole *)
(* recursion. Here a listing goes a number of levels down, where the code  *)
(* counts them up to the maximum depth. A loop is "open" until an entry    *)
(* comes that is one too many ("full") or does not decode.                 *)
(***************************************************************************)
OwnName(tree, nested) == IF nested /\ tree.name # "" THEN << <<tree.name>> >> ELSE <<>>

(* A file without a name is no entry, but may be the one that is too many.  *)
AddFile_AtMost(dir, listed, name) ==
  IF listed.loop # "open" THEN listed
  ELSE IF Len(listed.entries) > MaxItems THEN [listed EXCEPT !.loop = "full"]
  ELSE IF name = Undecodable THEN [listed EXCEPT !.loop = "malformed"]
  ELSE IF name = "" THEN listed
  ELSE [listed EXCEPT !.entries = Append(@, <<dir, name>>)]
AddFile(dir, listed, name) ==
  IF listed.loop # "open" THEN listed
  ELSE IF Len(listed.entries) >= MaxItems THEN [listed EXCEPT !.loop = "full"]
  ELSE IF name = Undecodable THEN [listed EXCEPT !.loop = "malformed"]
  ELSE IF name = "" THEN listed
  ELSE [listed EXCEPT !.entries = Append(@, <<dir, name>>)]

ListFiles(dir, files, entries) ==
  LET listed[i \in 0..Len(files)] ==
        IF i = 0 THEN [entries |-> entries, truncated |-> FALSE, loop |-> "open"]
        ELSE AddFile(dir, listed[i - 1], files[i])
  IN  listed

(* below is what a listing with one level less makes of a directory.        *)
Visit(tree, nested, entries) == [tree |-> tree, nested |-> nested, entries |-> entries]

AddDirectory(listed, child, below) ==
  IF listed.loop # "open" THEN listed
  ELSE LET sub == below[Visit(child, TRUE, listed.entries)]
       IN  IF sub.status = "malformed" THEN [listed EXCEPT !.loop = "malformed"]
           ELSE [entries |-> sub.entries, truncated |-> listed.truncated \/ sub.truncated,
                 loop |-> IF Len(sub.entries) >= MaxItems THEN "full" ELSE "open"]

ListDirectories(dirs, files, below) ==
  LET listed[i \in 0..Len(dirs)] ==
        IF i = 0 THEN files ELSE AddDirectory(listed[i - 1], dirs[i], below)
  IN  listed

ListDirectory(visit, left, below) ==
  IF Len(visit.entries) >= MaxItems \/ left = 0
  THEN [status |-> "ok", entries |-> visit.entries, truncated |-> TRUE]
  ELSE IF visit.tree.malformed THEN Malformed
  ELSE
    LET named == visit.entries \o OwnName(visit.tree, visit.nested)
        files == IF left = 1 THEN <<>> ELSE visit.tree.files
        filed == ListFiles(visit.tree.name, files, named)[Len(files)]
        all == ListDirectories(visit.tree.dirs, filed, below)[Len(visit.tree.dirs)]
    IN  IF all.loop = "malformed" THEN Malformed
        ELSE [status |-> "ok", entries |-> all.entries, truncated |-> all.truncated \/ all.loop = "full"]

Entries == Seq(Seq(FileNames))
Flatten(levels) ==
  LET flatten[left \in 0..levels] ==
        [visit \in [tree : Trees, nested : BOOLEAN, entries : Entries] |->
           ListDirectory(visit, left, flatten[left - 1])]
  IN  flatten

Levels(listing) == (IF listing.depth = 0 THEN DefaultDepth ELSE listing.depth) + 1
List(listing) == Flatten(Levels(listing))[Levels(listing)][Visit(listing.tree, FALSE, <<>>)]

-------------------------------------------------------------------------------
(***************************************************************************)
(* parseGrepResult and appendGrepUnion: the workspaces' results, then the  *)
(* active one's. One is of counts, of files or of content, the matches of  *)
(* its files one after the other; each kind is bounded on its own, over    *)
(* all of them together, with one flag. A workspace without a result is    *)
(* passed over.                                                            *)
(***************************************************************************)
AppendUnion_LastFlag(found, union) ==
  IF found.malformed \/ union.kind = "absent" THEN found
  ELSE IF union.kind \notin Kinds THEN [found EXCEPT !.malformed = TRUE]
  ELSE LET all == found.items[union.kind] \o union.items
       IN  [found EXCEPT !.items[union.kind] = Beginning(all, MaxItems),
                         !.truncated = Len(all) > MaxItems]
AppendUnion(found, union) ==
  IF found.malformed \/ union.kind = "absent" THEN found
  ELSE IF union.kind \notin Kinds THEN [found EXCEPT !.malformed = TRUE]
  ELSE LET all == found.items[union.kind] \o union.items
       IN  [found EXCEPT !.items[union.kind] = Beginning(all, MaxItems),
                         !.truncated = @ \/ Len(all) > MaxItems]

AppendUnions(unions) ==
  LET found[i \in 0..Len(unions)] ==
        IF i = 0 THEN [malformed |-> FALSE, items |-> [k \in Kinds |-> <<>>], truncated |-> FALSE]
        ELSE AppendUnion(found[i - 1], unions[i])
  IN  found

AllUnions(msg) == Append(msg.workspaces, msg.active)

Search(msg) ==
  LET found == AppendUnions(AllUnions(msg))[Len(AllUnions(msg))]
  IN  IF found.malformed THEN Malformed
      ELSE [status |-> "ok", items |-> found.items, truncated |-> found.truncated]

-------------------------------------------------------------------------------
ResultsInit ==
  /\ answer = Pending /\ ShellInit
  /\ \/ tool = "shell" /\ message = <<>>
     \/ tool = "mcp" /\ message \in McpResults
     \/ tool = "list" /\ message \in Listings
     \/ tool = "search" /\ message \in Searches

(* No result, for a machine that is composed with this one.                 *)
ResultsIdle == tool = "none" /\ message = <<>> /\ answer = Pending /\ ShellInit

Answer(name, value) ==
  /\ tool = name /\ answer = Pending /\ answer' = value
  /\ UNCHANGED <<tool, message, shellVars>>

(* One message of a Shell call.                                             *)
ShellMessage ==
  /\ tool = "shell" /\ ShellNext
  /\ UNCHANGED <<tool, message, answer>>

ResultsNext ==
  \/ ShellMessage
  \/ Answer("mcp", SummarizeMcp(message))
  \/ Answer("list", List(message))
  \/ Answer("search", Search(message))

ResultsSpec == ResultsInit /\ [][ResultsNext]_resultVars

-------------------------------------------------------------------------------
(* Output of a Shell call is only lost where its bound is, and the provider *)
(* is told exactly when some is (ShellOutput).                              *)
ShellLossIsTold == HeadIsKept /\ LossIsTold

Answered(name) == tool = name /\ answer.status = "ok"

(* All that an MCP result says, without the bounds.                         *)
Texts(items) == [i \in DOMAIN items |-> ToValidUTF8(Section(items[i]))]
Said(items, structured) == FlattenSeq(Texts(items)) \o ToValidUTF8(structured.raw)

(* What the provider is given of an MCP result stays within its bytes; of   *)
(* the items that are looked at nothing is lost while a rune still fits;    *)
(* the result is marked when anything is missing, and otherwise only when   *)
(* it happens to fill its bound.                                            *)
McpLossIsTold ==
  Answered("mcp") =>
    LET given == FlattenSeq(answer.sections)
        lost == given # Said(message.items, message.structured)
    IN  /\ Bytes(given) =< MaxMcpBytes
        /\ HeadKept(given, Said(TakenItems(message.items), message.structured), MaxMcpBytes)
        /\ lost => answer.truncated
        /\ answer.truncated => lost \/ Len(message.items) > MaxMcpItems \/ Bytes(given) = MaxMcpBytes

(* What a listing would have without the bound on its entries, in order,    *)
(* and whether there are directories below its levels.                      *)
Named(dir, files) ==
  LET named[i \in 0..Len(files)] ==
        IF i = 0 THEN <<>>
        ELSE IF files[i] = "" THEN named[i - 1]
        ELSE Append(named[i - 1], <<dir, files[i]>>)
  IN  named[Len(files)]
Whole(levels) ==
  LET whole[left \in 0..levels] ==
        [visit \in [tree : Trees, nested : BOOLEAN] |->
           IF left = 0 THEN <<>>
           ELSE OwnName(visit.tree, visit.nested)
                  \o (IF left = 1 THEN <<>> ELSE Named(visit.tree.name, visit.tree.files))
                  \o FlattenSeq([i \in DOMAIN visit.tree.dirs |->
                       whole[left - 1][[tree |-> visit.tree.dirs[i], nested |-> TRUE]]])]
  IN  whole
Deeper(levels) ==
  LET deeper[left \in 0..levels] ==
        [tree \in Trees |-> left = 0 \/ \E i \in DOMAIN tree.dirs : deeper[left - 1][tree.dirs[i]]]
  IN  deeper

(* A listing is the beginning of what it would be without the bound, over   *)
(* all levels of the recursion, and as much of it as the bound allows. One  *)
(* that is not marked names every file and directory down to the depth      *)
(* asked for, and there is no directory below; one that is marked has       *)
(* reached its bound or that depth.                                         *)
ListLossIsTold ==
  Answered("list") =>
    LET levels == Levels(message)
        all == Whole(levels)[levels][[tree |-> message.tree, nested |-> FALSE]]
        deeper == Deeper(levels)[levels][message.tree]
    IN  /\ answer.entries = Beginning(all, MaxItems)
        /\ Len(all) > MaxItems \/ deeper => answer.truncated
        /\ answer.truncated => Len(answer.entries) = MaxItems \/ deeper

(* Of every kind a search gives the first results over all workspaces, the  *)
(* active one last, and it is marked exactly when one of the kinds has more *)
(* of them than its bound.                                                  *)
OfKind(unions, k) ==
  FlattenSeq([i \in DOMAIN unions |-> IF unions[i].kind = k THEN unions[i].items ELSE <<>>])
SearchIsHead ==
  Answered("search") =>
    /\ \A k \in Kinds : answer.items[k] = Beginning(OfKind(AllUnions(message), k), MaxItems)
    /\ answer.truncated = \E k \in Kinds : Len(OfKind(AllUnions(message), k)) > MaxItems

===============================================================================
