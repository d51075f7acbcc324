------------------------------- MODULE McpWrites -------------------------------
(***************************************************************************)
(* mcp_server/writes.py: create_story, create_chapter, append_to_chapter   *)
(* and edit_chapter_blocks, over the reservation of WriteReservation and   *)
(* the story-data service.                                                 *)
(*                                                                         *)
(* A request to story-data is on the wire until the service has dealt with *)
(* it; the caller may give up on it before (httpx timeouts and errors, a   *)
(* 5xx after the fact), and the service may still apply it later.          *)
(*                                                                         *)
(* story-data is outside src/, modelled from how writes.py relies on it:   *)
(* positions are unique per story, and a chapter is replaced only under    *)
(* the revision sent as If-Match, which every write advances.  The author  *)
(* works on the same chapters in the web editor.                           *)
(***************************************************************************)
EXTENDS WriteReservation, FiniteSets, FiniteSetsExt

CONSTANTS
    ToolOf,             \* "create_story", "create_chapter" or "edit", by key
    Base,               \* the revision an edit was made for, by key
    MAX_CLAIM_ATTEMPTS,
    MaxPosition,        \* model bound: where the editor adds chapters
    MaxEditorSteps      \* model bound

ASSUME WritesAssumption ==
    /\ ToolOf \in [Keys -> {"create_story", "create_chapter", "edit"}]
    /\ Base \in [Keys -> Nat \ {0}]
    /\ MAX_CLAIM_ATTEMPTS \in Nat \ {0}
    /\ MaxPosition \in Nat
    /\ MaxEditorSteps \in Nat

VARIABLES
    stories,        \* the calls whose story exists
    chapters,       \* [by : the call that created it, at : position]
    revision,       \* of the edited chapter
    text,           \* the edited chapter: the writes it still contains
    written,        \* History: every write the edited chapter ever took
    wire,           \* each call's request to story-data
    attempts,       \* chapter positions tried
    place,          \* the position asked for
    draft,          \* the text an edit was computed from
    editorSteps     \* steps of the editor so far

storyVars == <<stories, chapters, revision, text, written>>
vars == <<reservationVars, storyVars, wire, attempts, place, draft, editorSteps>>

Tool(c) == ToolOf[KeyOf[c]]
Author == NoCall        \* whoever works in the web editor

(* After the claim: a story is posted, anything else reads first. *)
Start(c) == IF Tool(c) = "create_story" THEN "post" ELSE "look"

Init ==
    /\ ReservationInit
    /\ stories = {}
    /\ chapters = {[by |-> Author, at |-> 1]}
    /\ revision = 1
    /\ text = {} /\ written = {}
    /\ wire = [c \in Calls |-> "none"]
    /\ attempts = [c \in Calls |-> 0]
    /\ place = [c \in Calls |-> 0]
    /\ draft = [c \in Calls |-> {}]
    /\ editorSteps = 0

(* The steps of the reservation leave the stories alone. *)
Reserves(c) ==
    /\ \/ Arrives(c) \/ ClaimCreates(c, Start(c)) \/ ClaimExists(c) \/ ClaimReads(c)
       \/ ClaimTakesOver(c, Start(c)) \/ ClaimLosesTakeOver(c) \/ ClaimReplays(c)
       \/ ClaimRefused(c) \/ ClaimVacant(c, Start(c))
       \/ Records(c) \/ Releases(c)
    /\ UNCHANGED <<storyVars, wire, attempts, place, draft, editorSteps>>

Leaves(c) ==
    /\ Dies(c)
    /\ UNCHANGED <<storyVars, wire, attempts, place, draft, editorSteps>>

-----------------------------------------------------------------------------
(* The write itself.                                                       *)

(* A call goes to pc `place` and touches nothing of the reservation. *)
Moves(c, next) ==
    /\ Goto(c, next)
    /\ UNCHANGED <<now, docs, began, seen, told, won, overran>>

_next_position == 1 + Max({0} \cup {x.at : x \in chapters})

ListsChapters(c) ==
    /\ pc[c] = "look"
    /\ Tool(c) = "create_chapter"
    /\ attempts' = [attempts EXCEPT ![c] = @ + 1]
    /\ place' = [place EXCEPT ![c] = _next_position]
    /\ Moves(c, "post")
    /\ UNCHANGED <<storyVars, wire, draft, editorSteps>>

(* _chapter_at_revision: the caller's revision must be the current one. *)
ReadsChapter(c) ==
    /\ pc[c] = "look"
    /\ Tool(c) = "edit"
    /\ revision = Base[KeyOf[c]]
    /\ draft' = [draft EXCEPT ![c] = text]
    /\ Moves(c, "post")
    /\ UNCHANGED <<storyVars, wire, attempts, place, editorSteps>>

(* StaleRevisionError, a read that fails, an edit that does not apply or   *)
(* exceeds a ceiling.                                                      *)
LookFails(c) ==
    /\ pc[c] = "look"
    /\ Moves(c, "release")
    /\ UNCHANGED <<storyVars, wire, attempts, place, draft, editorSteps>>

Sends(c) ==
    /\ pc[c] = "post"
    /\ wire' = [wire EXCEPT ![c] = "sent"]
    /\ Moves(c, "wait")
    /\ UNCHANGED <<storyVars, attempts, place, draft, editorSteps>>

TriesEveryFailure(c) == wire[c] # "applied"     \* mutant: uncounted, on any failure
TriesAgain(c) == wire[c] = "conflict" /\ attempts[c] < MAX_CLAIM_ATTEMPTS

(* A lost position is asked for anew; a lost revision is reported. *)
Answered(c) ==
    /\ pc[c] = "wait"
    /\ wire[c] \in {"applied", "refused", "conflict"}
    /\ IF Tool(c) = "create_chapter" /\ TriesAgain(c)
         THEN wire' = [wire EXCEPT ![c] = "none"] /\ Moves(c, "look")
         ELSE /\ Moves(c, IF wire[c] = "applied" THEN "record" ELSE "release")
              /\ UNCHANGED wire
    /\ UNCHANGED <<storyVars, attempts, place, draft, editorSteps>>

NoAnswerRetried(c) ==           \* mutant: the loop also retries when it got no answer
    /\ pc[c] = "wait"
    /\ wire' = [wire EXCEPT ![c] = "none"]
    /\ Moves(c, IF attempts[c] < MAX_CLAIM_ATTEMPTS THEN Start(c) ELSE "release")
    /\ UNCHANGED <<storyVars, attempts, place, draft, editorSteps>>
NoAnswer(c) ==
    /\ pc[c] = "wait"
    /\ Moves(c, "release")
    /\ UNCHANGED <<storyVars, wire, attempts, place, draft, editorSteps>>

-----------------------------------------------------------------------------
(* story-data and the editor.                                              *)

MatchesAnything(c) == TRUE      \* mutant: the If-Match header is not sent
IfMatch(c) == revision = Base[KeyOf[c]]

(* The service deals with a request, whether or not anybody still waits. *)
Applies(c) ==
    /\ wire[c] = "sent"
    /\ CASE Tool(c) = "create_story" ->
              /\ stories' = stories \cup {c}
              /\ wire' = [wire EXCEPT ![c] = "applied"]
              /\ UNCHANGED <<chapters, revision, text, written>>
         [] Tool(c) = "create_chapter" ->
              /\ IF \E x \in chapters : x.at = place[c]
                   THEN wire' = [wire EXCEPT ![c] = "conflict"] /\ UNCHANGED chapters
                   ELSE /\ wire' = [wire EXCEPT ![c] = "applied"]
                        /\ chapters' = chapters \cup {[by |-> c, at |-> place[c]]}
              /\ UNCHANGED <<stories, revision, text, written>>
         [] OTHER ->
              /\ IF IfMatch(c)
                   THEN /\ wire' = [wire EXCEPT ![c] = "applied"]
                        /\ revision' = revision + 1
                        /\ text' = draft[c] \cup {<<c, revision>>}
                        /\ written' = written \cup {<<c, revision>>}
                   ELSE /\ wire' = [wire EXCEPT ![c] = "conflict"]
                        /\ UNCHANGED <<revision, text, written>>
              /\ UNCHANGED <<stories, chapters>>
    /\ UNCHANGED <<reservationVars, attempts, place, draft, editorSteps>>

(* A ceiling, a validation error, an outage, a request that never arrives. *)
Refuses(c) ==
    /\ wire[c] = "sent"
    /\ wire' = [wire EXCEPT ![c] = "refused"]
    /\ UNCHANGED <<reservationVars, storyVars, attempts, place, draft, editorSteps>>

EditorWrites ==
    /\ revision' = revision + 1
    /\ text' = text \cup {<<Author, revision>>}
    /\ written' = written \cup {<<Author, revision>>}
    /\ UNCHANGED <<stories, chapters>>

EditorAddsChapter ==
    /\ \E p \in 1 .. MaxPosition :
          /\ \A x \in chapters : x.at # p
          /\ chapters' = chapters \cup {[by |-> Author, at |-> p]}
    /\ UNCHANGED <<stories, revision, text, written>>

EditorDeletesChapter ==
    /\ \E x \in chapters : chapters' = chapters \ {x}
    /\ UNCHANGED <<stories, revision, text, written>>

Editor ==
    /\ editorSteps < MaxEditorSteps
    /\ editorSteps' = editorSteps + 1
    /\ EditorWrites \/ EditorAddsChapter \/ EditorDeletesChapter
    /\ UNCHANGED <<reservationVars, wire, attempts, place, draft>>

Clock ==
    /\ Tick \/ \E k \in Keys : Collects(k)
    /\ UNCHANGED <<storyVars, wire, attempts, place, draft, editorSteps>>

-----------------------------------------------------------------------------
Works(c) ==
    \/ ListsChapters(c) \/ ReadsChapter(c) \/ LookFails(c)
    \/ Sends(c) \/ Answered(c) \/ NoAnswer(c)

Next ==
    \/ \E c \in Calls : Reserves(c) \/ Works(c) \/ Leaves(c) \/ Applies(c) \/ Refuses(c)
    \/ Editor
    \/ Clock

Spec == Init /\ [][Next]_vars

(* Every await returns or raises: the clients have timeouts.  Whether the  *)
(* service answers, and what the editor and the clock do, is not assumed.  *)
FairSpec == Spec /\ \A c \in Calls : WF_vars(Reserves(c) \/ Works(c))
-----------------------------------------------------------------------------
(* Properties.                                                             *)

(* Every variable stays within its type; a chapter call tries at most      *)
(* MAX_CLAIM_ATTEMPTS positions.                                           *)
TypeOK ==
    /\ ReservationTypeOK
    /\ stories \subseteq Calls
    /\ \A x \in chapters : x.by \in Calls \cup {Author} /\ x.at \in Nat
    /\ revision \in Nat
    /\ text \subseteq (Calls \cup {Author}) \X Nat
    /\ written \subseteq (Calls \cup {Author}) \X Nat
    /\ wire \in [Calls -> {"none", "sent", "applied", "conflict", "refused"}]
    /\ attempts \in [Calls -> 0 .. MAX_CLAIM_ATTEMPTS]
    /\ place \in [Calls -> Nat]
    /\ \A c \in Calls : draft[c] \subseteq (Calls \cup {Author}) \X Nat
    /\ editorSteps \in 0 .. MaxEditorSteps

(* Between a call's claim and the end of its work. *)
Holds(c) == pc[c] \in Working \cup Closing

(* Of identical calls at most one is past its claim, unless one of them    *)
(* outlived its reservation: create admits one, an expired reservation is  *)
(* taken over by one, and a failed call releases only what is its own.     *)
OneWinner ==
    \A c, d \in Calls : c # d /\ KeyOf[c] = KeyOf[d] /\ Holds(c) /\ Holds(d) => Overrun(KeyOf[c])

(* A result is kept for ever, its document without expiresAt, only where a *)
(* call of its key outlived its reservation: nothing else, no crash, lost  *)
(* answer, takeover or collection, makes _record merge into no document.   *)
OnlyOverrunsStay == \A k \in DOMAIN docs : docs[k].expires = Never => Overrun(k)

(* writes.py: "Expiry lives in `expiresAt` and is re-checked on read"; a   *)
(* reservation that is not deleted "simply expires on its own".            *)
EveryReservationExpires == \A k \in DOMAIN docs : docs[k].expires # Never

(* Two identical calls that both report a fresh result claimed the key at  *)
(* least a TTL apart; a replayed result is of a call that really wrote,    *)
(* and whose reservation had not expired.                                  *)
RepeatsReplay ==
    \A c, d \in Calls :
        /\ c # d /\ KeyOf[c] = KeyOf[d] /\ told[c] = c /\ told[d] = d =>
              won[c] >= began[d] + TTL \/ won[d] >= began[c] + TTL
        /\ told[c] = d =>
              KeyOf[c] = KeyOf[d] /\ wire[d] = "applied" /\ won[c] < won[d] + TTL

(* No lost update: the chapter still contains every write it ever took,    *)
(* whichever calls and editor saves ran between a read and its PATCH.      *)
NoLostUpdate == text = written

(* Every revision is succeeded by one edit only: an edit is never applied  *)
(* twice, however often it is repeated, with or without its reservation.   *)
OneEditPerRevision ==
    \A c, d \in Calls :
        /\ Tool(c) = "edit" /\ wire[c] = "applied"
        /\ Tool(d) = "edit" /\ wire[d] = "applied"
        /\ Base[KeyOf[c]] = Base[KeyOf[d]]
        => c = d

(* The retry loop never creates a second chapter for its call. *)
OneChapterPerCall ==
    \A x, y \in chapters : x.by = y.by /\ x.by # Author => x = y

(* Every call that arrives comes to an end: the position loop is bounded   *)
(* and no call waits for another.                                          *)
CallsEnd == \A c \in Calls : pc[c] # "idle" ~> pc[c] = "end"

(* tools.py: "Repeating an identical call within two minutes returns the   *)
(* story already created rather than making a second one."                 *)
RepeatMakesNoSecondStory ==
    \A c, d \in stories :
        c # d /\ KeyOf[c] = KeyOf[d] => won[c] >= began[d] + TTL \/ won[d] >= began[c] + TTL
=============================================================================
