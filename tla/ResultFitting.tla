---------------------------- MODULE ResultFitting ----------------------------
(***************************************************************************)
(* How the assistant's tools keep a result under its ceiling before it     *)
(* enters the prompt: _fit and _fit_chapter_window of                      *)
(* src/assistant/executors.py.  Sizes are those of the JSON encoding, in   *)
(* which a character may take more room than one.                          *)
(*                                                                         *)
(* A roster result is [skeleton, rows, row, text]: what stands around the  *)
(* rows, their number, and for each row its keys and its prose.  A chapter *)
(* window is a sequence of tokens (see ChapterBlocks).                     *)
(***************************************************************************)
EXTENDS Integers, Sequences, SequencesExt, FiniteSetsExt

CONSTANTS
    MaxResultChars, \* ToolRuntime.max_result_chars
    ItemLadder,     \* _ITEM_LADDER after its None
    Ellipsis,       \* the room an ellipsis takes where prose was cut
    Mark,           \* the room of the "truncated" key
    CharWidth,      \* the room of a token, by its kind
    OffsetWidth,    \* the room of next_offset, by its value
    NullWidth       \* the room of a null

Done == -1          \* next_offset is null

\* The binary search of both fitters, as its loop stands after n rounds: what
\* is left to probe, and the best probed so far.  It finds the greatest number
\* that fits only where every smaller one does.
Bisect(fits, first, last, otherwise) ==
    LET Probe(loop) ==
          LET mid == (loop.lo + loop.hi) \div 2
          IN IF loop.lo > loop.hi THEN loop
             ELSE IF mid \in fits THEN [lo |-> mid + 1, hi |-> loop.hi, best |-> mid]
             ELSE [lo |-> loop.lo, hi |-> mid - 1, best |-> loop.best]
        Loop[n \in Nat] ==
          IF n = 0 THEN [lo |-> first, hi |-> last, best |-> otherwise]
          ELSE Probe(Loop[n - 1])
        rounds == Max({0, last - first + 1})
    IN Loop[rounds].best

-----------------------------------------------------------------------------
Encoded(result) == result.skeleton + result.rows * (result.row + result.text)

Clip(result, width, items) ==
    [skeleton |-> result.skeleton, row |-> result.row,
     rows |-> Min({result.rows, items}),
     text |-> IF result.text <= width THEN result.text ELSE width + Ellipsis]

\* Prose gives way before rows do: all rows with less and less prose first,
\* fewer rows only when bare rows overflow.
Fit(result) ==
    LET ladder == <<result.rows>> \o ItemLadder
        marked == [Clip(result, MaxResultChars, result.rows)
                     EXCEPT !.skeleton = result.skeleton + Mark]
        Bare(k) == Encoded(Clip(marked, 0, ladder[k])) <= MaxResultChars
        steps  == {k \in DOMAIN ladder : Bare(k)}
        Holds(items, width) == Encoded(Clip(marked, width, items)) <= MaxResultChars
        Widest(items) ==
          Clip(marked, Bisect({width \in 0 .. MaxResultChars : Holds(items, width)},
                              0, MaxResultChars, 0), items)
    IN IF Encoded(result) <= MaxResultChars
       THEN [result |-> result, truncated |-> FALSE]
       ELSE [result |-> IF steps # {} THEN Widest(ladder[Min(steps)])
                        ELSE [marked EXCEPT !.rows = 0],
             truncated |-> TRUE]

-----------------------------------------------------------------------------
TextWidth(text) ==
    LET Sum[n \in 0 .. Len(text)] == IF n = 0 THEN 0 ELSE Sum[n - 1] + CharWidth[text[n].kind]
    IN Sum[Len(text)]

\* Mutant: the next page starts behind what was fetched.
FitsKeepingNext(head, text, offset, total) ==
    LET Next(n)  == IF offset + n < total THEN offset + n ELSE Done
        Width(n) == head + TextWidth(SubSeq(text, 1, n))
                      + IF Next(n) = Done THEN NullWidth ELSE OffsetWidth[Next(n)]
        shown ==
          IF Width(Len(text)) <= MaxResultChars THEN Len(text)
          ELSE Bisect({n \in DOMAIN text : Width(n) <= MaxResultChars}, 1, Len(text) - 1, 0)
    IN [text |-> SubSeq(text, 1, shown), next |-> Next(Len(text))]

\* The longest prefix of the window that fits, and where the next page is to
\* start: behind what was shown, not behind what was fetched.
FitChapterWindow(head, text, offset, total) ==
    LET Next(n)  == IF offset + n < total THEN offset + n ELSE Done
        Width(n) == head + TextWidth(SubSeq(text, 1, n))
                      + IF Next(n) = Done THEN NullWidth ELSE OffsetWidth[Next(n)]
        shown ==
          IF Width(Len(text)) <= MaxResultChars THEN Len(text)
          ELSE Bisect({n \in DOMAIN text : Width(n) <= MaxResultChars}, 1, Len(text) - 1, 0)
    IN [text |-> SubSeq(text, 1, shown), next |-> Next(shown)]
=============================================================================
