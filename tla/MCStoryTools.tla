---------------------------- MODULE MCStoryTools ----------------------------
(***************************************************************************)
(* The instance of StoryTools that TLC checks.                             *)
(***************************************************************************)
EXTENDS StoryTools

Text   == [kind |-> "text", tag |-> "x"]
Other  == [kind |-> "text", tag |-> "y"]
Rule   == [kind |-> "void", tag |-> "hr"]
LineEnd == [kind |-> "voidclose", tag |-> "br"]
P(s)   == Element("p", s)

\* Paragraphs, a heading and a list; text between blocks; the same unclosed,
\* closed too often, or empty.
MCContents == {
    <<>>,
    P(<<Text>>) \o <<WS>> \o P(<<Other>>),
    Element("h2", <<Text>>) \o Element("ul", P(<<Text>>)) \o <<WS>>,
    <<Text, LineEnd, WS, Other, Rule, Text>>,
    P(<<Text>>) \o <<Open("p"), Other, WS>>,
    <<Close("p"), Text>> \o P(<<>>)}

Op(action, index, text) == [action |-> action, index |-> index, text |-> text]

MCTexts == {<<<<Other>>>>, <<<<Text>>, <<Other>>>>}

OneOp == {Op("replace", i, text) : i \in 0 .. 2, text \in MCTexts \union {<<>>}}
           \union {Op("insert_after", i, <<<<Other>>>>) : i \in -1 .. 1}

\* Two operations are sent in the order that does harm if it is kept.
MCEdits == {<<op>> : op \in OneOp}
             \union {pair \in OneOp \X OneOp : pair[1].index < pair[2].index}
             \union {<<Op("replace", 0, <<>>), Op("insert_after", 0, <<<<Text>>>>)>>}

MCHeadings == {"h2"}
MCCharWidth == [kind \in {"open", "close", "void", "voidclose", "text", "ws"} |->
                  IF kind = "text" THEN 3 ELSE IF kind = "ws" THEN 2 ELSE 1]
MCOffsetWidth == [n \in 0 .. 40 |-> IF n < 3 THEN 1 ELSE IF n < 6 THEN 2 ELSE 4]
MCTitles == [short |-> 2, long |-> 13]
MCItemLadder == <<3, 1, 0>>
MCRosters == [overview   |-> [skeleton |-> 2, row |-> 2, text |-> 3, limit |-> 0],
              characters |-> [skeleton |-> 1, row |-> 0, text |-> 2, limit |-> 3],
              plots      |-> [skeleton |-> 3, row |-> 5, text |-> 1, limit |-> 2],
              entity     |-> [skeleton |-> 4, row |-> 1, text |-> 4, limit |-> 0],
              passages   |-> [skeleton |-> 1, row |-> 3, text |-> 6, limit |-> 0]]
MCRowCounts == 0 .. 7

Row(id, kind, line, name) ==
    [id |-> id, kind |-> kind, line |-> line, name |-> name, revision |-> 1]
MCStory == {
    {Row("c1", "character", NoId, "Ana"), Row("c2", "character", NoId, "Ben"),
     Row("l1", "plot", NoId, "War"), Row("l2", "plot", NoId, "Ben"),
     Row("e1", "event", "l1", "Siege"), Row("e2", "event", "l2", "Siege"), Row("k1", "chapter", NoId, "Dawn")}}

Change(op, kind, line, ref, name) ==
    [op |-> op, kind |-> kind, line |-> line, ref |-> ref, name |-> name,
     who |-> NoId, chapter |-> NoId]
With(change, who, chapter) == [change EXCEPT !.who = who, !.chapter = chapter]

Changes == {
    Change("update", "character", NoId, "c1", "Ben"),
    Change("update", "character", NoId, "Ana", NoId),
    Change("create", "character", NoId, NoId, "Cy"),
    Change("update", "plot", NoId, "War", NoId),
    With(Change("update", "event", "War", "Siege", "Truce"), "c1", NoId),
    Change("update", "event", "lost", "e1", NoId),
    With(Change("create", "event", "l1", NoId, "Fall"), NoId, "Dawn"),
    Change("create", "event", "War", NoId, "Fall")}
MCDrafts == {<<one, two>> : one, two \in Changes}
MCLoads == {{"edit"}, {"read"}, {"list"}, {"propose"}}
=============================================================================
