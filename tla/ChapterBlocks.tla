---------------------------- MODULE ChapterBlocks ----------------------------
(***************************************************************************)
(* A chapter's stored HTML as its top-level blocks, and the edits that     *)
(* address blocks by their position: src/mcp_server/blocks.py and the pure *)
(* part of src/mcp_server/writes.py.                                       *)
(*                                                                         *)
(* Content is a sequence of tokens, the events Python's HTMLParser hands   *)
(* to _Splitter.  A token has a kind and a tag:                            *)
(*   open, close   a tag that nests, and its end                           *)
(*   void          a tag that never nests, or a self-closing one           *)
(*   voidclose     </br>, the end of a tag that never nests                *)
(*   text          a character of text, an entity, a comment               *)
(*   ws            a character of whitespace                               *)
(***************************************************************************)
EXTENDS Integers, Sequences, SequencesExt, FiniteSetsExt

CONSTANTS
    Headings,   \* the heading tags, HEADING_TAGS
    MaxOps,     \* MAX_OPS_PER_CALL
    MaxContent  \* MAX_CHAPTER_CONTENT_CHARS, counted in tokens

ASSUME BlocksAssumption == Headings \subseteq STRING

Kinds == {"open", "close", "void", "voidclose", "text", "ws"}
Token == [kind : Kinds, tag : STRING]

Open(tag)  == [kind |-> "open",  tag |-> tag]
Close(tag) == [kind |-> "close", tag |-> tag]
WS         == [kind |-> "ws",    tag |-> "-"]

(***************************************************************************)
(* Splitting.  The scanner only records where a block begins.              *)
(***************************************************************************)
Cut(scan, i, tag, isText) ==
    IF scan.depth = 0
    THEN [depth |-> 0, textOpen |-> isText,
          cuts |-> Append(scan.cuts, [at |-> i, tag |-> tag])]
    ELSE scan

\* Neighbouring top-level text is one block.
CutText(scan, i) == IF scan.textOpen THEN scan ELSE Cut(scan, i, "text", TRUE)

Reads(scan, token, i) ==
    CASE token.kind = "open"  ->
           [Cut(scan, i, token.tag, FALSE) EXCEPT !.depth = scan.depth + 1]
      [] token.kind = "void"  -> Cut(scan, i, token.tag, FALSE)
      [] token.kind = "close" ->
           IF scan.depth = 0 THEN CutText(scan, i)
                             ELSE [scan EXCEPT !.depth = scan.depth - 1]
      [] token.kind = "text"  -> CutText(scan, i)
      [] OTHER                -> scan      \* ws and voidclose

Unread == [depth |-> 0, textOpen |-> FALSE, cuts |-> <<>>]

\* The scanner after each token.
Scanned(content) ==
    LET Scan[n \in 0 .. Len(content)] ==
          IF n = 0 THEN Unread ELSE Reads(Scan[n - 1], content[n], n)
    IN Scan

Cuts(content) == Scanned(content)[Len(content)].cuts

Stripped(html) ==
    LET solid == {i \in DOMAIN html : html[i].kind # "ws"}
    IN SubSeq(html, 1, Max(solid \union {0}))

\* A block runs to where the next one begins.
SplitBlocks(content) ==
    LET cuts == Cuts(content)
        End(n) == IF n < Len(cuts) THEN cuts[n + 1].at - 1 ELSE Len(content)
    IN [n \in DOMAIN cuts |->
          [tag |-> cuts[n].tag,
           html |-> Stripped(SubSeq(content, cuts[n].at, End(n)))]]

BlockCount(content) == Len(SplitBlocks(content))

Glue(content, part) ==
    IF part = <<>> THEN content
    ELSE IF content = <<>> THEN part
    ELSE (content \o <<WS>>) \o part

JoinBlocks(parts) ==
    LET Glued[n \in 0 .. Len(parts)] ==
          IF n = 0 THEN <<>> ELSE Glue(Glued[n - 1], parts[n])
    IN Glued[Len(parts)]

(***************************************************************************)
(* Plain text is a sequence of paragraphs, each a sequence of text tokens: *)
(* it is escaped, so that none of it is a tag.                             *)
(***************************************************************************)
Inline == {token \in Token : token.kind \in {"text", "ws"}}

Element(tag, inline) == (<<Open(tag)>> \o inline) \o <<Close(tag)>>

ParagraphHtml(text) ==
    JoinBlocks([i \in DOMAIN text |-> Element("p", text[i])])

(***************************************************************************)
(* Operations [action, index, text].  An empty text deletes the block.     *)
(***************************************************************************)
NormalOps(ops) ==
    /\ Len(ops) \in 1 .. MaxOps
    /\ \A i, j \in DOMAIN ops : ops[i].index = ops[j].index => i = j
    /\ \A i \in DOMAIN ops :
          ops[i].action = "insert_after" => ops[i].text # <<>>

\* Mutant: in the order of the blocks.
FromTheFront(ops) ==
    CHOOSE sorted \in [DOMAIN ops -> ToSet(ops)] :
       \A i, j \in DOMAIN ops : i < j => sorted[i].index < sorted[j].index

\* From the back, so that no operation moves what a later one addresses.
FromTheBack(ops) ==
    CHOOSE sorted \in [DOMAIN ops -> ToSet(ops)] :
       \A i, j \in DOMAIN ops : i < j => sorted[i].index > sorted[j].index

Deletes(op) == op.action = "replace" /\ op.text = <<>>

\* A block this tool can spell again from plain text: the rest is refused.
Rewritable(tag, text) ==
    \/ tag \in {"p", "text"}
    \/ tag \in Headings /\ Len(text) = 1

Replacement(op, tag) ==
    IF tag \in Headings THEN Element(tag, op.text[1]) ELSE ParagraphHtml(op.text)

\* Positions count from 0 and mean the blocks as they were read.
Applicable(blocks, ops) ==
    \A i \in DOMAIN ops :
       LET op == ops[i] IN
       IF op.action = "insert_after"
       THEN op.index \in -1 .. Len(blocks) - 1
       ELSE /\ op.index \in 0 .. Len(blocks) - 1
            /\ Deletes(op) \/ Rewritable(blocks[op.index + 1].tag, op.text)

\* One operation on the parts as the operations before it left them.
ApplyOp(parts, op, blocks) ==
    CASE op.action = "insert_after" ->
           InsertAt(parts, op.index + 2, ParagraphHtml(op.text))
      [] Deletes(op) -> RemoveAt(parts, op.index + 1)
      [] OTHER -> InsertAt(RemoveAt(parts, op.index + 1), op.index + 1,
                           Replacement(op, blocks[op.index + 1].tag))

Html(blocks) == [n \in DOMAIN blocks |-> blocks[n].html]

ApplyOps(blocks, ops) ==
    LET order == FromTheBack(ops)
        Applied[n \in 0 .. Len(ops)] ==
          IF n = 0 THEN Html(blocks) ELSE ApplyOp(Applied[n - 1], order[n], blocks)
    IN Applied[Len(ops)]

(***************************************************************************)
(* What whoever sends operations means by them, all at once: every         *)
(* operation speaks of the blocks as they were read.                       *)
(***************************************************************************)
Paragraphs(text) ==
    [n \in DOMAIN text |-> [tag |-> "p", html |-> Element("p", text[n])]]

OpsAt(ops, i, action) == {op \in ToSet(ops) : op.index = i /\ op.action = action}

InsertedBy(ops, i) ==
    IF OpsAt(ops, i, "insert_after") = {} THEN <<>>
    ELSE Paragraphs((CHOOSE op \in OpsAt(ops, i, "insert_after") : TRUE).text)

KeptBy(ops, blocks, i) ==
    IF OpsAt(ops, i, "replace") = {} THEN <<blocks[i + 1]>>
    ELSE LET op  == CHOOSE op \in OpsAt(ops, i, "replace") : TRUE
             tag == blocks[i + 1].tag
         IN IF tag \in Headings /\ ~Deletes(op)
            THEN <<[tag |-> tag, html |-> Element(tag, op.text[1])]>>
            ELSE Paragraphs(op.text)

MeantBy(ops, blocks) ==
    LET Upto[n \in 0 .. Len(blocks)] ==
          IF n = 0 THEN InsertedBy(ops, -1)
          ELSE (Upto[n - 1] \o KeptBy(ops, blocks, n - 1)) \o InsertedBy(ops, n - 1)
    IN Upto[Len(blocks)]

Fits(content) == Len(content) <= MaxContent
=============================================================================
