------------------------------ MODULE StoryTools ------------------------------
(***************************************************************************)
(* The tools over one story: what the connector (src/mcp_server/tools.py,  *)
(* data.py, writes.py) and the assistant (src/assistant/executors.py) read *)
(* and write, while the writer goes on working in the web editor.          *)
(*                                                                         *)
(* Of the chapter followed, story-data keeps the last edition and its      *)
(* revision; the editions before it are history.  Whoever calls is a model *)
(* that does as the tools' descriptions tell it:                           *)
(*   - it lists a chapter's blocks page by page, and edits by their index; *)
(*   - it goes on from the revision a write returns without listing again  *)
(*     where the block count returned is the one it expects;               *)
(*   - it reads a chapter page by page, each from the last next_offset.    *)
(* A page of another revision than the pages before makes it start over.   *)
(*                                                                         *)
(* A refusal or an error changes nothing and the caller may ask again.     *)
(* What a write does when story-data does not answer, or two writes race,  *)
(* is McpWrites; here an accepted write is one step.                       *)
(***************************************************************************)
EXTENDS ChapterBlocks, ResultFitting, EntityProposals

CONSTANTS
    Contents,       \* model bound: what the writer may save
    Titles,         \* titles of the chapter, each with the room its page needs
    Edits,          \* model bound: the operation lists the model may send
    Texts,          \* model bound: what the model may append
    PageSizes,      \* model bound: max_blocks
    WindowSizes,    \* model bound: max_chars, limit
    Rosters,        \* the results with rows: [skeleton, row, text, limit] by tool
    RowCounts,      \* model bound: how many rows a roster may have
    MaxEditions,    \* model bound
    FetchLimit,     \* COLLECTION_FETCH_LIMIT
    Loads           \* model bound: what happens in one behaviour

EntityTools == {"characters", "plots"}

ASSUME ToolsAssumption ==
    /\ Loads \subseteq SUBSET {"edit", "read", "list", "propose"}
    /\ {MaxEditions, FetchLimit} \subseteq Nat \ {0}
    /\ RowCounts \subseteq Nat
    /\ \A tool \in EntityTools : Rosters[tool].limit \in Nat

(* What is saved, and what the model sends to edit it: text is plain, and  *)
(* never missing.                                                          *)
ASSUME EditsAssumption ==
    /\ Contents \subseteq Seq(Token)
    /\ PageSizes \subseteq Nat \ {0}
    /\ Texts \subseteq Seq(Seq(Inline)) \ {<<>>}
    /\ Edits \subseteq Seq([action : {"replace", "insert_after"}, index : Int,
                           text : Seq(Seq(Inline))])

(* What a page is made of, and the room its parts take.                    *)
ASSUME PagesAssumption ==
    /\ {MaxResultChars, NullWidth} \subseteq Nat
    /\ WindowSizes \subseteq Nat \ {0}
    /\ IsFiniteSet(DOMAIN CharWidth) /\ IsFiniteSet(DOMAIN OffsetWidth)
    /\ CharWidth \in [DOMAIN CharWidth -> Nat] /\ OffsetWidth \in [DOMAIN OffsetWidth -> Nat]
    /\ Titles \in [DOMAIN Titles -> Nat] /\ DOMAIN Titles # {}
    /\ Contents \subseteq Seq([kind : DOMAIN CharWidth, tag : STRING])
    /\ \A content \in Contents : 0 .. Len(content) \subseteq DOMAIN OffsetWidth

VARIABLES
    there,      \* the story still exists, and is the caller's
    editions,   \* the chapter's: [content, title, by, base, meant]
    listing,    \* the blocks the caller knows: [revision, blocks, next]
    reading,    \* the text the caller has read: [revision, text, next]
    page,       \* a page fetched and not yet delivered
    told,       \* the last roster: [tool, of, shown, truncated]
    load        \* model bound: the load of this behaviour

vars == <<there, editions, listing, reading, page, told, load, entityVars>>
chapterVars == <<editions, listing>>
readVars == <<reading, page>>

Revision == Len(editions)
Content == Last(editions).content

NoListing == [revision |-> 0, blocks |-> <<>>, next |-> 0]
NoReading == [revision |-> 0, text |-> <<>>, next |-> 0]
NoPage == [tool |-> "-", revision |-> 0, offset |-> 0, text |-> <<>>, next |-> 0]
NoRoster == [tool |-> "-", of |-> 0, shown |-> 0, truncated |-> FALSE]

Edition(content, title, by, base, meant) ==
    [content |-> content, title |-> title, by |-> by, base |-> base, meant |-> meant]

\* The chapter's text matters to those who read or edit it only, the room of
\* its page to readers.
ContentsFor(what) == IF what \intersect {"edit", "read"} # {} THEN Contents ELSE {<<>>}
TitlesFor(what) == IF "read" \in what THEN DOMAIN Titles
                   ELSE {CHOOSE title \in DOMAIN Titles : TRUE}

Init ==
    /\ load \in Loads
    /\ there = TRUE
    /\ editions \in {<<Edition(content, title, "writer", 0, <<>>)>> :
                       content \in ContentsFor(load), title \in TitlesFor(load)}
    /\ listing = NoListing
    /\ reading = NoReading /\ page = NoPage
    /\ told = NoRoster
    /\ EntitiesInit

Stores(edition) == editions' = Append(editions, edition)

-----------------------------------------------------------------------------
(* get_chapter_blocks, and the edits that go by it.                        *)

Whole(known) == known.next = Done

ListsBlocks ==
    /\ there /\ "edit" \in load
    /\ \E max \in PageSizes, start \in {0, listing.next} \ {Done} :
         LET all   == SplitBlocks(Content)
             shown == SubSeq(all, start + 1, Min({start + max, Len(all)}))
             next  == IF start + max < Len(all) THEN start + max ELSE Done
         IN listing' =
              IF start = 0 THEN [revision |-> Revision, blocks |-> shown, next |-> next]
              ELSE IF listing.revision = Revision
              THEN [listing EXCEPT !.blocks = listing.blocks \o shown, !.next = next]
              ELSE NoListing
    /\ UNCHANGED <<there, editions, readVars, told, load, entityVars>>

\* Mutant: the answer counts what was put in, not what splitting finds stored.
ChainedBySum(stored, meant) ==
    IF Whole(listing) THEN [revision |-> Revision + 1, blocks |-> meant, next |-> Done]
    ELSE NoListing

\* The answer to a write: the new revision and how many blocks there are now.
Chained(stored, meant) ==
    IF Whole(listing) /\ BlockCount(stored) = Len(meant)
    THEN [revision |-> Revision + 1, blocks |-> meant, next |-> Done]
    ELSE NoListing

AtRevision == listing.revision = Revision

\* StaleRevisionError: the caller is told to list the blocks again.
FindsStale == listing' = NoListing /\ UNCHANGED editions

Writes(stored, by, meant) ==
    /\ Fits(stored)
    /\ Revision < MaxEditions
    /\ Stores(Edition(stored, Last(editions).title, by, listing.revision, meant))
    /\ listing' = Chained(stored, meant)

EditsBlocks ==
    /\ there /\ "edit" \in load /\ Whole(listing)
    /\ \E ops \in Edits :
         /\ NormalOps(ops)
         /\ IF ~AtRevision THEN FindsStale
            ELSE LET blocks == SplitBlocks(Content)
                 IN /\ Applicable(blocks, ops)
                    /\ Writes(JoinBlocks(ApplyOps(blocks, ops)), "edit",
                              MeantBy(ops, listing.blocks))
    /\ UNCHANGED <<there, readVars, told, load, entityVars>>

\* What is there stays as it is, to the last byte.
Appended(text) ==
    IF Content = <<>> THEN ParagraphHtml(text)
    ELSE (Content \o <<WS>>) \o ParagraphHtml(text)

AppendsText ==
    /\ there /\ "edit" \in load /\ listing.revision > 0
    /\ \E text \in Texts :
         IF ~AtRevision THEN FindsStale
         ELSE Writes(Appended(text), "append", listing.blocks \o Paragraphs(text))
    /\ UNCHANGED <<there, readVars, told, load, entityVars>>

-----------------------------------------------------------------------------
(* Reading the chapter's text: get_chapter of the connector, read_chapter  *)
(* of the assistant.  The chapter is fetched first and its place in        *)
(* reading order after, so a page may be of a chapter already changed.     *)

ReadTools == {"get_chapter", "read_chapter"}

Window(tool, max) == IF tool = "read_chapter" THEN Min({max, MaxResultChars}) ELSE max

FetchesPage ==
    /\ there /\ "read" \in load /\ page = NoPage
    /\ \E tool \in ReadTools, max \in WindowSizes, offset \in {0, reading.next} \ {Done} :
         LET end == offset + Window(tool, max)
         IN page' = [tool |-> tool, revision |-> Revision, offset |-> offset,
                     text |-> SubSeq(Content, offset + 1, Min({end, Len(Content)})),
                     next |-> IF end < Len(Content) THEN end ELSE Done]
    /\ UNCHANGED <<there, chapterVars, reading, told, load, entityVars>>

Fitted ==
    LET edition == editions[page.revision]
    IN FitChapterWindow(Titles[edition.title], page.text, page.offset, Len(edition.content))

Shown == IF page.tool = "read_chapter" THEN Fitted ELSE page

\* Without the story there is no place in reading order, and no answer.
DeliversPage ==
    /\ page # NoPage
    /\ reading' =
         IF ~there THEN reading
         ELSE IF page.offset = 0
         THEN [revision |-> page.revision, text |-> Shown.text, next |-> Shown.next]
         ELSE IF page.revision = reading.revision
         THEN [reading EXCEPT !.text = reading.text \o Shown.text, !.next = Shown.next]
         ELSE NoReading
    /\ page' = NoPage
    /\ UNCHANGED <<there, chapterVars, told, load, entityVars>>

-----------------------------------------------------------------------------
(* Rosters.  The connector's tools cap the rows; the assistant's also take *)
(* what the model asked for, and fit the rest to their ceiling.            *)

CapsRows(count) == [shown |-> Min({count, FetchLimit}), truncated |-> count > FetchLimit]

Roster(tool, count, cut) ==
    [tool |-> tool, of |-> count, shown |-> cut.shown, truncated |-> cut.truncated]

Overview(count) == Roster("overview", count, CapsRows(count))
ListsChapters(count) == Roster("chapters", count, CapsRows(count))
ListsEntities(tool, count) == Roster(tool, count, CapsRows(count))

(* The result of a tool with so many rows, each with so much prose. *)
Sized(tool, n, text) ==
    Fit([skeleton |-> Rosters[tool].skeleton, rows |-> n,
         row |-> Rosters[tool].row, text |-> text])

FitsRows(tool, count, n, cut) ==
    LET fitted == Sized(tool, n, Rosters[tool].text)
    IN  Roster(tool, count, [shown |-> fitted.result.rows, truncated |-> cut \/ fitted.truncated])

(* Two marks, of the chapters that were capped and of what was cut to fit. *)
FitsOverview(count) ==
    LET capped == Overview(count)
    IN  FitsRows("overview", count, capped.shown, capped.truncated)

(* Mutant: only what was capped, or cut to fit, is told as cut. *)
FitsAsked(tool, count) ==
    LET capped == ListsEntities(tool, count)
        asked  == Min({capped.shown, Rosters[tool].limit})
    IN  FitsRows(tool, count, asked, capped.truncated)

FitsEntities(tool, count) ==
    LET capped == ListsEntities(tool, count)
        asked  == Min({capped.shown, Rosters[tool].limit})
    IN  FitsRows(tool, count, asked, capped.truncated \/ asked < capped.shown)

(* One entity; its rows are its relationships or its events. *)
FitsEntity(count) == FitsRows("entity", count, count, FALSE)

(* Search gives each passage its share of the ceiling before fitting; what *)
(* a passage loses by that nobody is told, and is no row.                  *)
FitsPassages(count) ==
    LET share == Max({1, MaxResultChars \div Max({1, count})})
        fitted == Sized("passages", count, Min({share, Rosters["passages"].text}))
    IN  Roster("passages", count,
               [shown |-> fitted.result.rows, truncated |-> fitted.truncated])

ListsRows(count) ==
    \/ told' \in {Overview(count), ListsChapters(count)}
    \/ \E tool \in EntityTools : told' = ListsEntities(tool, count)

ShowsRows(count) ==
    \/ told' \in {FitsOverview(count), FitsEntity(count), FitsPassages(count)}
    \/ \E tool \in EntityTools : told' = FitsEntities(tool, count)

TellsRows ==
    /\ there /\ "list" \in load
    /\ \E count \in RowCounts : ListsRows(count) \/ ShowsRows(count)
    /\ UNCHANGED <<there, chapterVars, readVars, load, entityVars>>

-----------------------------------------------------------------------------
(* The writer.                                                             *)

SavesChapter ==
    /\ there /\ load \intersect {"edit", "read"} # {}
    /\ Revision < MaxEditions
    /\ \E content \in Contents, title \in TitlesFor(load) :
          Stores(Edition(content, title, "writer", Revision, <<>>))
    /\ UNCHANGED <<there, listing, readVars, told, load, entityVars>>

DeletesStory ==
    /\ there /\ load \intersect {"edit", "read"} # {}
    /\ there' = FALSE
    /\ UNCHANGED <<chapterVars, readVars, told, load, entityVars>>

WorksOnEntities ==
    /\ "propose" \in load
    /\ EntityStep \/ EntityWriter
    /\ UNCHANGED <<there, chapterVars, readVars, told, load>>

Next ==
    \/ ListsBlocks \/ EditsBlocks \/ AppendsText
    \/ FetchesPage \/ DeliversPage
    \/ TellsRows
    \/ SavesChapter \/ DeletesStory
    \/ WorksOnEntities

Spec == Init /\ [][Next]_vars

-----------------------------------------------------------------------------
\* Every accepted edit is the edit the caller meant: the blocks it addressed,
\* by the listing it read, changed all at once, every other block to the byte,
\* and no save of anyone else in between (edit_chapter_blocks and _apply_ops,
\* writes.py:760-852).  An append changes nothing that was there.
EditsLandWhereRead ==
    \A r \in 2 .. Revision :
       /\ editions[r].base = r - 1
       /\ editions[r].by = "edit" => editions[r].content = JoinBlocks(Html(editions[r].meant))
       /\ editions[r].by = "append" => IsPrefix(editions[r - 1].content, editions[r].content)

\* The blocks a caller knows are the blocks there are at that revision, also
\* where it did not list them again after a write of its own but trusted the
\* block count of the answer (writes.py:616-626).
ListingsHold ==
    LET all == SplitBlocks(editions[listing.revision].content)
    IN listing.revision > 0 =>
         IF Whole(listing) THEN listing.blocks = all ELSE IsPrefix(listing.blocks, all)

\* What a reader has read, page after page and tool after tool, is the chapter
\* of that revision from its start to next_offset, or to its end; and where a
\* result has room for one more character, a page shows one (executors.py:235).
Tiles ==
    LET content == editions[reading.revision].content
    IN reading.revision > 0 =>
         reading.text = SubSeq(content, 1, IF reading.next = Done THEN Len(content)
                                           ELSE reading.next)

HasRoom ==
    \/ page.tool = "get_chapter"
    \/ Titles[editions[page.revision].title]
         + Max({CharWidth[kind] : kind \in DOMAIN CharWidth})
         + Max({NullWidth} \union {OffsetWidth[n] : n \in DOMAIN OffsetWidth})
       <= MaxResultChars

PagesTile ==
    [][page # NoPage /\ page' = NoPage /\ there =>
         /\ Tiles'
         /\ HasRoom /\ page.text # <<>> /\ reading'.revision = page.revision
            => reading'.next = Done \/ reading'.next > page.offset]_vars

\* Rows that were left out of a result, by whichever of the limits it passed,
\* are never left out in silence: "a partial list is never presented as a
\* complete roster" (executors.py:337, data.py:78-88).
RosterNeverSilent == told.shown < told.of => told.truncated
=============================================================================
