------------------------------ MODULE BoundedText ------------------------------
(***************************************************************************)
(* Text that is cut at a number of bytes, as the daemon does with the      *)
(* output of a Shell call (appendBoundedShellOutput, server/agent.go) and  *)
(* with MCP results (boundedMCPSection, protocol/tool_mcp.go). A text is a *)
(* sequence of runes, of which only the number of bytes matters and        *)
(* whether it is white space. What arrives may also hold bytes that are    *)
(* not UTF-8.                                                              *)
(***************************************************************************)
EXTENDS Naturals, SequencesExt

Width == [letter |-> 1, blank |-> 1, wide |-> 4, replacement |-> 3]
MaxWidth == 4   \* utf8.UTFMax

Runes == DOMAIN Width

(* What a string may be made of before it is converted.                    *)
RawUnits == {"letter", "blank", "wide", "invalid"}

Bytes(text) ==
  LET sum[i \in 0..Len(text)] == IF i = 0 THEN 0 ELSE sum[i - 1] + Width[text[i]]
  IN  sum[Len(text)]

(* strings.ToValidUTF8: every run of bytes that are not UTF-8 becomes one   *)
(* replacement character, which is wider than a byte.                       *)
ToValidUTF8(raw) ==
  LET text[i \in 0..Len(raw)] ==
        IF i = 0 THEN <<>>
        ELSE IF raw[i] # "invalid" THEN Append(text[i - 1], raw[i])
        ELSE IF i > 1 /\ raw[i - 1] = "invalid" THEN text[i - 1]
        ELSE Append(text[i - 1], "replacement")
  IN  text[Len(raw)]

(* What is left when bytes are taken off the end until the text both fits   *)
(* and is UTF-8 again: its longest prefix of whole runes that fits.         *)
Fit(text, room) ==
  SubSeq(text, 1, Max({n \in 0..Len(text) : Bytes(SubSeq(text, 1, n)) =< room}))

(* What is accepted of a string when there is room for that many bytes, and *)
(* whether the rest of it was cut off.                                      *)
Bounded(raw, room) ==
  LET text == ToValidUTF8(raw)
  IN  [text |-> Fit(text, room), cut |-> Bytes(text) > room]

(* strings.TrimSpace.                                                       *)
Trim(text) ==
  LET solid == {i \in DOMAIN text : text[i] # "blank"}
  IN  IF solid = {} THEN <<>> ELSE SubSeq(text, Min(solid), Max(solid))

-------------------------------------------------------------------------------
(* Nothing was lost before less than a rune of the bound was left: what a   *)
(* text and what is kept of it have in common from their beginning is all   *)
(* of it, or fills the bound up to the width of one rune.                   *)
HeadKept(kept, text, bound) ==
  \/ kept = text
  \/ \E head \in Prefixes(kept) \cap Prefixes(text) : Bytes(head) > bound - MaxWidth

===============================================================================
