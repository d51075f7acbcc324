----------------------------- MODULE AssistantRun -----------------------------
(***************************************************************************)
(* assistant/run.py, run_assistant: one turn of the writing assistant, with *)
(* assistant/specialists/runner.py for the consults it makes.              *)
(*                                                                         *)
(* The director model is asked at most MaxModelCalls times.  Each answer   *)
(* streams in; an answer that asks for tools has its calls screened, its   *)
(* consults run concurrently in two waves (reviews last), and the rest     *)
(* dispatched in order.  The coroutine interleaves with its consult tasks, *)
(* with both timeouts and with the browser's disconnect wherever it        *)
(* awaits or yields, and nowhere else: everything between two such points  *)
(* is one action.                                                          *)
(*                                                                         *)
(* Position i of `calls` stands for the tool_call_id of the i-th call (ids *)
(* are taken to be distinct within a step, as the provider makes them).    *)
(***************************************************************************)
EXTENDS RunBudget, Sequences, FiniteSets

CONSTANTS
    MaxToolCalls,       \* RunLimits.max_tool_calls
    MaxConsults,        \* RunLimits.max_consults
    MaxRoomConsults,    \* RunLimits.max_room_consults
    MaxCallsPerStep,    \* model bound: calls in one director answer
    EntityProposals,    \* entity_proposals_enabled
    Critic, Drafter,    \* the reviewing and the drafting specialist
    NoOne,              \* consult arguments that do not validate
    Menu,               \* the calls a director may stream
    LateMenu            \* model bound: the calls it may stream third or later

Tools == {"read", "read_current_editor", "consult_specialist",
          "propose_story_changes", "propose_editor_edit", "nameless"}

ASSUME RunAssumption ==
    /\ MaxToolCalls \in Nat
    /\ MaxConsults \in Nat
    /\ MaxRoomConsults \in Nat
    /\ MaxCallsPerStep \in Nat
    /\ EntityProposals \in BOOLEAN
    /\ \A c \in Menu : c.tool \in Tools /\ c.review \in BOOLEAN

VARIABLES
    pc,             \* where the coroutine is suspended
    room,           \* mode "room", fixed when the run starts
    editable,       \* editor_can_propose, fixed when the run starts
    direct,         \* the message is an edit request on the selection
    continuation,   \* "none", "resolved", "revision" or "invalid"
    toolCalls,      \* tool_calls_used
    snapshotRead,   \* editor_snapshot_read
    nudged,         \* nudged_for_empty_reply
    findings,       \* run_findings is not empty
    known,          \* known_findings of the running wave is not empty
    spoke,          \* the answer being read has words (text.strip())
    calls,          \* the answer's tool calls, in index order
    settled,        \* positions that have a result for the model
    building,       \* consults that hold a slot and gather story material
    asking,         \* consults whose model call has been made
    reviewing,      \* of those two, the ones that review colleagues
    denied,         \* access_denied
    at,             \* the call being dispatched
    terminal,       \* how the event stream ended
    directorAsked,  \* chat_stream calls made by the director: step + 1
    \* History, for the properties only:
    specialistAsked,\* chat_stream calls made by specialists
    reviewsAsked,   \* those of them that were reviews
    verdicts        \* tool.completed and tool.failed events per position

stepVars == <<calls, settled, building, asking, reviewing, known, denied, at, verdicts>>
flagVars == <<room, editable, direct, continuation>>
askedVars == <<directorAsked, specialistAsked, reviewsAsked>>
vars == <<budgetVars, pc, flagVars, toolCalls, snapshotRead, nudged, findings,
          spoke, stepVars, terminal, askedVars>>

Positions == 1 .. MaxCallsPerStep

-----------------------------------------------------------------------------
(* The tools of a step.                                                    *)

consulting == maxConsults > 0

ModelTools ==
    {"read", "read_current_editor"}
        \cup (IF editable /\ ~room THEN {"propose_editor_edit"} ELSE {})
        \cup (IF EntityProposals /\ ~room THEN {"propose_story_changes"} ELSE {})
        \cup (IF consulting THEN {"consult_specialist"} ELSE {})

(* The room's first answer must consult; after the editor was read the     *)
(* answer must be the proposal.                                            *)
RequiredTool ==
    IF room /\ directorAsked = 1 THEN "consult_specialist"
    ELSE IF snapshotRead THEN "propose_editor_edit"
    ELSE "none"

AllowedTools ==
    IF RequiredTool = "none" THEN ModelTools ELSE ModelTools \cap {RequiredTool}

Drafts(c) == c.tool = "consult_specialist" /\ c.who = Drafter
Advises(c) == c.tool = "consult_specialist" /\ c.who # Drafter

(* One brief per specialist per step, and no draft in the room. *)
Repeats(i) == \E j \in 1 .. (i - 1) : Advises(calls[j]) /\ calls[j].who = calls[i].who
Refused(i) ==
    \/ calls[i].tool \notin AllowedTools
    \/ Drafts(calls[i]) /\ room
    \/ Advises(calls[i]) /\ Repeats(i)

(* The critic of the room reviews whether or not the model asked it to. *)
ReviewWave(i) == calls[i].review \/ (room /\ calls[i].who = Critic)

(* The consults the running wave holds, or the draft being streamed. *)
Running ==
    IF pc = "plain" THEN {i \in DOMAIN calls : Advises(calls[i]) /\ ~ReviewWave(i)}
    ELSE IF pc = "review" THEN {i \in DOMAIN calls : Advises(calls[i]) /\ ReviewWave(i)}
    ELSE IF pc = "draft" THEN {at}
    ELSE {}

-----------------------------------------------------------------------------
Init ==
    /\ room \in BOOLEAN
    /\ editable \in BOOLEAN
    /\ direct \in BOOLEAN
    /\ continuation \in {"none", "resolved", "revision", "invalid"}
    /\ continuation # "none" => ~room
    /\ direct => editable /\ ~room /\ continuation = "none"
    /\ BudgetInit(IF room THEN MaxRoomConsults ELSE MaxConsults)
    /\ pc = "start"
    /\ toolCalls = 0
    /\ snapshotRead = FALSE /\ nudged = FALSE /\ findings = FALSE /\ spoke = FALSE
    /\ calls = <<>>
    /\ settled = {} /\ building = {} /\ asking = {} /\ reviewing = {}
    /\ known = FALSE /\ denied = FALSE
    /\ at = 1
    /\ verdicts = [i \in Positions |-> 0]
    /\ terminal = "none"
    /\ directorAsked = 0 /\ specialistAsked = 0 /\ reviewsAsked = 0

(* Yield the terminal event and return. *)
End(how) ==
    /\ pc' = "ended"
    /\ terminal' = how

(* A disabled or inconsistent continuation raises ValueError; a decision   *)
(* other than "revision_requested" is answered without a model call.       *)
Begin ==
    /\ pc = "start"
    /\ CASE continuation = "invalid"  -> End("failed") /\ UNCHANGED spoke
         [] continuation = "resolved" -> End("stop") /\ spoke' = TRUE
         [] OTHER -> pc' = "prompt" /\ UNCHANGED <<terminal, spoke>>
    /\ UNCHANGED <<budgetVars, flagVars, toolCalls, snapshotRead, nudged, findings,
                   stepVars, askedVars>>

(* The roster and the history are fetched; a direct edit request carries   *)
(* the selection with it, which counts as having read the editor.          *)
LoadPrompt ==
    /\ pc = "prompt"
    /\ pc' = "loop"
    /\ snapshotRead' = direct
    /\ UNCHANGED <<budgetVars, flagVars, toolCalls, nudged, findings, spoke, stepVars,
                   terminal, askedVars>>

(* while budget.take_director_call(): open the next answer's stream. *)
AskDirector ==
    /\ pc = "loop"
    /\ TakeDirectorCall
    /\ directorAsked' = directorAsked + 1
    /\ pc' = "stream"
    /\ spoke' = FALSE
    /\ calls' = <<>>
    /\ settled' = {} /\ building' = {} /\ asking' = {} /\ reviewing' = {}
    /\ known' = FALSE /\ denied' = FALSE /\ at' = 1
    /\ verdicts' = [i \in Positions |-> 0]
    /\ UNCHANGED <<flagVars, toolCalls, snapshotRead, nudged, findings, terminal,
                   specialistAsked, reviewsAsked>>

OutOfModelCalls ==
    /\ pc = "loop"
    /\ ~CanTakeDirectorCall
    /\ End("max_steps")
    /\ UNCHANGED <<budgetVars, flagVars, toolCalls, snapshotRead, nudged, findings, spoke,
                   stepVars, askedVars>>

-----------------------------------------------------------------------------
(* Reading one answer of the director.                                     *)

StreamText ==
    /\ pc = "stream"
    /\ spoke' = TRUE
    /\ UNCHANGED <<budgetVars, pc, flagVars, toolCalls, snapshotRead, nudged, findings,
                   stepVars, terminal, askedVars>>

StreamCall(c) ==
    /\ pc = "stream"
    /\ Len(calls) < MaxCallsPerStep
    /\ Len(calls) >= 2 => c \in LateMenu
    /\ calls' = Append(calls, c)
    /\ UNCHANGED <<budgetVars, pc, flagVars, toolCalls, snapshotRead, nudged, findings, spoke,
                   settled, building, asking, reviewing, known, denied, at, verdicts,
                   terminal, askedVars>>

(* An error event, a provider exception or a stream without "done". *)
StreamFails ==
    /\ pc = "stream"
    /\ End("failed")
    /\ UNCHANGED <<budgetVars, flagVars, toolCalls, snapshotRead, nudged, findings, spoke,
                   stepVars, askedVars>>

BlankAfterTwoTools == ~spoke /\ toolCalls > 1    \* mutant: an off-by-one
BlankReply == ~spoke /\ toolCalls > 0

(* A reply without tool calls ends the run, unless the model used tools    *)
(* and then said nothing: it is asked once more while a call is left, and  *)
(* failing that the fallback sentence is said for it.                      *)
DirectorReplies(reason) ==
    /\ pc = "stream"
    /\ LET nudge == BlankReply /\ ~nudged /\ modelCalls < MaxModelCalls
       IN  IF nudge
             THEN /\ nudged' = TRUE
                  /\ pc' = "loop"
                  /\ UNCHANGED <<spoke, terminal>>
             ELSE /\ spoke' = (spoke \/ BlankReply)
                  /\ End(reason)
                  /\ UNCHANGED nudged
    /\ UNCHANGED <<budgetVars, flagVars, toolCalls, snapshotRead, findings, stepVars, askedVars>>

(* Checks on the answer as a whole, before any of its calls runs. *)
Malformed ==
    \/ calls = <<>>
    \/ \E i \in DOMAIN calls : calls[i].tool = "nameless"
    \/ /\ Len(calls) # 1
       /\ "propose_editor_edit" \in AllowedTools
       /\ \E i \in DOMAIN calls : calls[i].tool = "propose_editor_edit"

DirectorCallsTools ==
    /\ pc = "stream"
    /\ IF Malformed
         THEN End("failed") /\ UNCHANGED <<settled, verdicts, known>>
         ELSE IF toolCalls + Len(calls) > MaxToolCalls
         THEN End("max_steps") /\ UNCHANGED <<settled, verdicts, known>>
         ELSE LET refused == {i \in DOMAIN calls : Refused(i)}
              IN  /\ settled' = refused
                  /\ verdicts' = [i \in Positions |-> IF i \in refused THEN 1 ELSE 0]
                  /\ known' = findings
                  /\ pc' = "plain"
                  /\ UNCHANGED terminal
    /\ UNCHANGED <<budgetVars, flagVars, toolCalls, snapshotRead, nudged, findings, spoke,
                   calls, building, asking, reviewing, denied, at, askedVars>>

-----------------------------------------------------------------------------
(* Consults (runner.py).  A consult that is settled has emitted its one    *)
(* tool.completed or tool.failed event.                                    *)

Settle(S) ==
    /\ settled' = settled \cup S
    /\ verdicts' = [i \in Positions |-> IF i \in S THEN verdicts[i] + 1 ELSE verdicts[i]]

(* A review needs something to review; without it this is a plain consult, *)
(* and a draft never reviews.                                              *)
WillReview(i) == ReviewWave(i) /\ known /\ ~Drafts(calls[i])

(* What consult_stream answers before it spends anything: invalid          *)
(* arguments, a draft that is not alone, no slot, no review round.         *)
TurnedAwayUnheard(i) ==         \* mutant: a spent budget yields no outcome
    \/ calls[i].who = NoOne
    \/ Drafts(calls[i]) /\ Len(calls) # 1
    \/ WillReview(i) /\ ~CanTakeCritique
TurnedAway(i) ==
    \/ calls[i].who = NoOne
    \/ Drafts(calls[i]) /\ Len(calls) # 1
    \/ ~CanTakeConsult
    \/ WillReview(i) /\ ~CanTakeCritique

IdleAgain(i) == i \in Running /\ i \notin building \cup asking   \* mutant: refused calls run
Idle(i) == i \in Running /\ i \notin settled \cup building \cup asking

ConsultDeclined(i) ==
    /\ Idle(i)
    /\ TurnedAway(i)
    /\ Settle({i})
    /\ UNCHANGED <<budgetVars, pc, flagVars, toolCalls, snapshotRead, nudged, findings, spoke,
                   calls, building, asking, reviewing, known, denied, at, terminal, askedVars>>

ConsultStarts(i) ==
    /\ Idle(i)
    /\ ~TurnedAway(i)
    /\ TakeConsult(WillReview(i))
    /\ building' = building \cup {i}
    /\ reviewing' = IF WillReview(i) THEN reviewing \cup {i} ELSE reviewing
    /\ UNCHANGED <<pc, flagVars, toolCalls, snapshotRead, nudged, findings, spoke, calls,
                   settled, asking, known, denied, at, verdicts, terminal, askedVars>>

(* The material is gathered: called_model is set and the call is made. *)
ConsultAsks(i) ==
    /\ i \in building /\ i \in Running
    /\ building' = building \ {i}
    /\ asking' = asking \cup {i}
    /\ specialistAsked' = specialistAsked + 1
    /\ reviewsAsked' = IF i \in reviewing THEN reviewsAsked + 1 ELSE reviewsAsked
    /\ UNCHANGED <<budgetVars, pc, flagVars, toolCalls, snapshotRead, nudged, findings, spoke,
                   calls, settled, reviewing, known, denied, at, verdicts, terminal,
                   directorAsked>>

(* A bad focus, a story that is not the writer's, an error or the          *)
(* specialist timeout while gathering: the slot goes back.                 *)
ConsultRejected(i, denies) ==
    /\ i \in building /\ i \in Running
    /\ building' = building \ {i}
    /\ reviewing' = reviewing \ {i}
    /\ RefundConsult(i \in reviewing)
    /\ Settle({i})
    /\ denied' = (denied \/ denies)
    /\ UNCHANGED <<pc, flagVars, toolCalls, snapshotRead, nudged, findings, spoke, calls,
                   asking, known, at, terminal, askedVars>>

Finish(i) ==
    /\ i \in asking /\ i \in Running
    /\ asking' = asking \ {i}
    /\ reviewing' = reviewing \ {i}
    /\ Settle({i})

(* Usable findings are kept for a later review. *)
ConsultAnswers(i) ==
    /\ Finish(i)
    /\ ~Drafts(calls[i])
    /\ findings' = TRUE
    /\ UNCHANGED <<budgetVars, pc, flagVars, toolCalls, snapshotRead, nudged, spoke, calls,
                   building, known, denied, at, terminal, askedVars>>

(* A provider error, an unusable answer or the specialist timeout after    *)
(* the call was made: nothing is refunded.                                 *)
ConsultFails(i) ==
    /\ Finish(i)
    /\ UNCHANGED <<budgetVars, pc, flagVars, toolCalls, snapshotRead, nudged, findings, spoke,
                   calls, building, known, denied, at, terminal, askedVars>>

(* task.cancel() of every consult the run leaves behind, delivered where   *)
(* the consult awaits.                                                     *)
CancelUnbilled(i) ==            \* mutant: only consults still gathering are cancelled
    /\ pc = "ended"
    /\ i \in building
    /\ RefundConsult(i \in reviewing)
    /\ building' = building \ {i}
    /\ reviewing' = reviewing \ {i}
    /\ UNCHANGED <<pc, flagVars, toolCalls, snapshotRead, nudged, findings, spoke, calls,
                   settled, asking, known, denied, at, verdicts, terminal, askedVars>>
ConsultCancelled(i) ==
    /\ pc = "ended"
    /\ \/ /\ i \in building
          /\ RefundConsult(i \in reviewing)
          /\ building' = building \ {i}
          /\ UNCHANGED asking
       \/ /\ i \in asking
          /\ asking' = asking \ {i}
          /\ UNCHANGED <<budgetVars, building>>
    /\ reviewing' = reviewing \ {i}
    /\ UNCHANGED <<pc, flagVars, toolCalls, snapshotRead, nudged, findings, spoke, calls,
                   settled, known, denied, at, verdicts, terminal, askedVars>>

WaveUnawaited == TRUE           \* mutant: the reviews do not wait
WaveOver == Running \subseteq settled

(* The review wave starts from what the first wave found. *)
PlainWaveEnds ==
    /\ pc = "plain"
    /\ WaveOver
    /\ pc' = "review"
    /\ known' = findings
    /\ UNCHANGED <<budgetVars, flagVars, toolCalls, snapshotRead, nudged, findings, spoke,
                   calls, settled, building, asking, reviewing, denied, at, verdicts,
                   terminal, askedVars>>

ReviewWaveEnds ==
    /\ pc = "review"
    /\ WaveOver
    /\ IF denied THEN End("failed") ELSE pc' = "dispatch" /\ UNCHANGED terminal
    /\ UNCHANGED <<budgetVars, flagVars, toolCalls, snapshotRead, nudged, findings, spoke,
                   stepVars, askedVars>>

-----------------------------------------------------------------------------
(* The calls are answered in order; a settled one only passes its result   *)
(* on to the model.                                                        *)

ThisCall == calls[at]

NextCall ==
    /\ at' = at + 1
    /\ pc' = IF at = Len(calls) THEN "loop" ELSE "dispatch"

DispatchSettled ==
    /\ pc = "dispatch"
    /\ at \in settled
    /\ toolCalls' = toolCalls + 1
    /\ NextCall
    /\ UNCHANGED <<budgetVars, flagVars, snapshotRead, nudged, findings, spoke, calls, settled,
                   building, asking, reviewing, known, denied, verdicts, terminal, askedVars>>

(* A tool ends in a result or in an error the model is told about. *)
DispatchTool(ok) ==
    /\ pc = "dispatch"
    /\ at \notin settled
    /\ ~Drafts(ThisCall)
    /\ toolCalls' = toolCalls + 1
    /\ Settle({at})
    /\ NextCall
    /\ snapshotRead' = (snapshotRead \/ (ok /\ editable /\ ThisCall.tool = "read_current_editor"))
    /\ UNCHANGED <<budgetVars, flagVars, nudged, findings, spoke, calls, building, asking,
                   reviewing, known, denied, terminal, askedVars>>

(* A bound proposal stops the run at an approval. *)
DispatchProposal ==
    /\ pc = "dispatch"
    /\ at \notin settled
    /\ \/ ThisCall.tool = "propose_editor_edit"
       \/ ThisCall.tool = "propose_story_changes" /\ Len(calls) = 1
    /\ toolCalls' = toolCalls + 1
    /\ Settle({at})
    /\ End("tool_calls")
    /\ UNCHANGED <<budgetVars, flagVars, snapshotRead, nudged, findings, spoke, calls,
                   building, asking, reviewing, known, denied, at, askedVars>>

(* The story is not the writer's (ToolFailed, then RunFailed), or an       *)
(* exception no branch expects (RunFailed alone).                          *)
DispatchBreaks(told) ==
    /\ pc = "dispatch"
    /\ at \notin settled
    /\ ~Drafts(ThisCall)
    /\ toolCalls' = toolCalls + 1
    /\ IF told THEN Settle({at}) ELSE UNCHANGED <<settled, verdicts>>
    /\ End("failed")
    /\ UNCHANGED <<budgetVars, flagVars, snapshotRead, nudged, findings, spoke, calls,
                   building, asking, reviewing, known, denied, at, askedVars>>

(* A draft is not batched: it streams to the writer from the loop. *)
DispatchDraft ==
    /\ pc = "dispatch"
    /\ at \notin settled
    /\ Drafts(ThisCall)
    /\ toolCalls' = toolCalls + 1
    /\ pc' = "draft"
    /\ UNCHANGED <<budgetVars, flagVars, snapshotRead, nudged, findings, spoke, stepVars,
                   terminal, askedVars>>

(* The draft is the reply. *)
DraftDelivered(reason) ==
    /\ pc = "draft"
    /\ Finish(at)
    /\ spoke' = TRUE
    /\ End(reason)
    /\ UNCHANGED <<budgetVars, flagVars, toolCalls, snapshotRead, nudged, findings, calls,
                   building, known, denied, at, askedVars>>

(* Any other outcome is a tool result like the rest. *)
DraftSettled ==
    /\ pc = "draft"
    /\ at \in settled
    /\ IF denied THEN End("failed") /\ UNCHANGED at
                 ELSE NextCall /\ UNCHANGED terminal
    /\ UNCHANGED <<budgetVars, flagVars, toolCalls, snapshotRead, nudged, findings, spoke,
                   calls, settled, building, asking, reviewing, known, denied, verdicts,
                   askedVars>>

-----------------------------------------------------------------------------
(* What can strike wherever the coroutine awaits: the run timeout, an      *)
(* exception before the first answer, and the browser going away, which    *)
(* leaves the stream without a terminal event.                             *)

RunTimeout ==
    /\ pc \notin {"start", "loop", "ended"}
    /\ End("max_steps")
    /\ UNCHANGED <<budgetVars, flagVars, toolCalls, snapshotRead, nudged, findings, spoke,
                   stepVars, askedVars>>

PromptFails ==
    /\ pc = "prompt"
    /\ End("failed")
    /\ UNCHANGED <<budgetVars, flagVars, toolCalls, snapshotRead, nudged, findings, spoke,
                   stepVars, askedVars>>

Disconnect ==
    /\ pc # "ended"
    /\ End("cut")
    /\ UNCHANGED <<budgetVars, flagVars, toolCalls, snapshotRead, nudged, findings, spoke,
                   stepVars, askedVars>>

-----------------------------------------------------------------------------
DirectorStep ==
    \/ Begin \/ LoadPrompt \/ AskDirector \/ OutOfModelCalls
    \/ StreamText \/ (\E c \in Menu : StreamCall(c)) \/ StreamFails
    \/ (\E reason \in {"stop", "length"} : DirectorReplies(reason))
    \/ DirectorCallsTools

ConsultStep ==
    \E i \in Positions :
        \/ ConsultDeclined(i) \/ ConsultStarts(i) \/ ConsultAsks(i)
        \/ (\E denies \in BOOLEAN : ConsultRejected(i, denies))
        \/ ConsultAnswers(i) \/ ConsultFails(i) \/ ConsultCancelled(i)

DispatchStep ==
    \/ PlainWaveEnds \/ ReviewWaveEnds
    \/ DispatchSettled
    \/ (\E ok \in BOOLEAN : DispatchTool(ok))
    \/ DispatchProposal
    \/ (\E told \in BOOLEAN : DispatchBreaks(told))
    \/ DispatchDraft
    \/ (\E reason \in {"stop", "length"} : DraftDelivered(reason))
    \/ DraftSettled

Next == DirectorStep \/ ConsultStep \/ DispatchStep \/ RunTimeout \/ PromptFails \/ Disconnect

Spec == Init /\ [][Next]_vars

(* What each await promises when it returns: the stream ends, a consult    *)
(* moves on (it has its own timeout), the loop goes on.  Neither the run   *)
(* timeout nor the browser is assumed to do anything.                      *)
Progress ==
    \/ Begin \/ LoadPrompt \/ AskDirector \/ OutOfModelCalls \/ StreamFails
    \/ (\E reason \in {"stop", "length"} : DirectorReplies(reason))
    \/ DirectorCallsTools
    \/ ConsultStep \/ DispatchStep

FairSpec == Spec /\ WF_vars(Progress)
-----------------------------------------------------------------------------
(* Properties.                                                             *)

LoopTypeOK ==
    /\ pc \in {"start", "prompt", "loop", "stream", "plain", "review", "dispatch",
               "draft", "ended"}
    /\ terminal \in {"none", "stop", "length", "tool_calls", "max_steps", "failed", "cut"}
    /\ toolCalls \in 0 .. MaxToolCalls
    /\ directorAsked \in Nat /\ specialistAsked \in Nat /\ reviewsAsked \in Nat

FlagTypeOK ==
    /\ room \in BOOLEAN /\ editable \in BOOLEAN /\ direct \in BOOLEAN
    /\ continuation \in {"none", "resolved", "revision", "invalid"}
    /\ snapshotRead \in BOOLEAN /\ nudged \in BOOLEAN /\ findings \in BOOLEAN
    /\ known \in BOOLEAN /\ spoke \in BOOLEAN /\ denied \in BOOLEAN

StepTypeOK ==
    /\ calls \in Seq(Menu) /\ Len(calls) <= MaxCallsPerStep
    /\ settled \subseteq DOMAIN calls
    /\ building \subseteq DOMAIN calls
    /\ asking \subseteq DOMAIN calls
    /\ reviewing \subseteq building \cup asking
    /\ at \in 1 .. (MaxCallsPerStep + 1)
    /\ verdicts \in [Positions -> Nat]

(* Every variable stays within its type; in particular the counters stay   *)
(* under the ceilings of the run.                                          *)
TypeOK == BudgetTypeOK /\ LoopTypeOK /\ FlagTypeOK /\ StepTypeOK

(* The shared counters are exactly the model calls made plus the slots     *)
(* still held by consults that have not reached the model: whatever the    *)
(* order in which concurrent consults claim, fail and refund, nothing is   *)
(* refunded twice, leaked, or given back after it was spent.               *)
BudgetAccounted ==
    /\ modelCalls = directorAsked + specialistAsked + Cardinality(building)
    /\ consults = specialistAsked + Cardinality(building)
    /\ critiques = reviewsAsked + Cardinality(reviewing \cap building)

(* The browser gets one tool.completed or tool.failed for each call it saw *)
(* start, never two, and the model is not asked again while one of its     *)
(* dispatched calls has no result (a provider refuses such a transcript;   *)
(* calls of an answer that did not finish with "tool_calls" are dropped).  *)
EveryCallAnsweredOnce ==
    /\ \A i \in Positions : verdicts[i] <= 1
    /\ pc = "loop" /\ at > 1 => \A i \in DOMAIN calls : verdicts[i] = 1

(* A reviewer starts only when every first-wave colleague of its step has  *)
(* settled, so that it sees what they found.                               *)
ReviewsComeLast ==
    reviewing # {} =>
        \A i \in DOMAIN calls : Advises(calls[i]) /\ ~ReviewWave(i) => i \in settled

(* A reply that ends normally after tools were used has words in it: the   *)
(* writer is not left with tool cards and a blank reply.                   *)
NoWordlessReply ==
    terminal \in {"stop", "length"} /\ toolCalls > 0 => spoke

(* ROOM_RULES: the room does not propose changes; hence no answer in it is *)
(* ever required to be a proposal.                                         *)
RoomNeverRequiresAProposal ==
    room /\ pc = "stream" => RequiredTool # "propose_editor_edit"

(* The loop ends even if the run timeout never fires: each turn of it      *)
(* spends a director call, and refunds give back only what consults took.  *)
RunEnds == <>(pc = "ended")

(* A run that is over leaves no specialist running and billing behind it.  *)
SpecialistsStop == pc = "ended" ~> building \cup asking = {}

(* The run as a meter of model calls. *)
Meter == INSTANCE MeteredRun WITH
    Limit <- MaxModelCalls, ReviewLimit <- MaxCritiqueRounds, ceiling <- maxConsults,
    director <- directorAsked, specialist <- specialistAsked, reviews <- reviewsAsked,
    over <- (pc = "ended")

(* Seen from the bill, the run is a MeteredRun. *)
ImplementsMeter == Meter!Spec
=============================================================================
