----------------------------- MODULE VoiceLearning -----------------------------
(***************************************************************************)
(* The agent service as a whole: the requests of ModelRequests and, among  *)
(* them, the voice lessons (assistant/voice_learning.py and its route in   *)
(* assistant/api.py).  A Function asks for a claim after a chapter save    *)
(* (the preflight) and sends the pass with it, perhaps more than once; the *)
(* writer goes on editing.  One story is followed.                         *)
(*                                                                         *)
(* The rate row lives in PostgreSQL, where each statement is atomic.  The  *)
(* chapters and the voice profile are read from story-data, outside src/,  *)
(* which refuses a note sent with another revision of the profile.         *)
(***************************************************************************)
EXTENDS ModelRequests

CONSTANTS
    Loads,              \* model bound: what may arrive where in one behaviour,
                        \* as functions from Calls to sets of kinds
    Spacing,            \* ticks in the 30 minutes between lessons
    DayLength,          \* ticks in a day
    MaxPerDay,
    MaxTime,            \* model bound
    MaxWriterSteps      \* model bound

ASSUME VoiceAssumption ==
    /\ Loads \subseteq [Calls -> SUBSET (RequestKinds \cup {"preflight"})]
    /\ {Spacing, MaxTime, MaxWriterSteps} \subseteq Nat
    /\ {DayLength, MaxPerDay} \subseteq Nat \ {0}

VARIABLES
    load,               \* model bound: the load of this behaviour
    now,
    row,                \* story_voice_learning_state: [last, day, count, claim]
    claims,             \* History: when each claim was given; claim n is the n-th
    tickets,            \* what the Function was given: [claim, revision]
    job,                \* each request's: [revision, claim, profile, op]
    lessons,            \* History: how many passes went to the model on each claim
    profile,            \* the voice profile: [revision, learning, note]
    source,             \* the chapter's revision
    writerSteps

lessonVars == <<row, claims, tickets, lessons>>
writerVars == <<profile, source, writerSteps>>
vars == <<requestVars, load, now, lessonVars, job, writerVars>>

NoClaim == 0
NoRow == [last |-> -1, day |-> -1, count |-> 0, claim |-> NoClaim]
NoProfile == [revision |-> 0, learning |-> FALSE, note |-> "none"]
NoJob == [revision |-> 0, claim |-> NoClaim, profile |-> NoProfile, op |-> "no_change"]

(* The profile has room for one note: the agent's, the same pinned by the  *)
(* writer, or the writer's own.                                            *)
Init ==
    /\ RequestInit
    /\ load \in Loads
    /\ now = 0
    /\ row = NoRow /\ claims = <<>> /\ tickets = {} /\ lessons = <<>>
    /\ job = [c \in Calls |-> NoJob]
    /\ profile \in [revision : {1}, learning : {TRUE}, note : {"none", "agent"}]
    /\ source = 1
    /\ writerSteps = 0

-----------------------------------------------------------------------------
(* A place takes the next request once the last has ended.  What           *)
(* creditProxy may still do for a lesson that got its answer is not        *)
(* followed further.                                                       *)
Free(c) == req[c].at \in {"idle", "end"}

Forgets(c, r, j) ==
    /\ req' = [req EXCEPT ![c] = r]
    /\ inflight' = [inflight EXCEPT ![c] = {}]
    /\ charges' = [charges EXCEPT ![c] = 0]
    /\ job' = [job EXCEPT ![c] = j]

Comes(c, k, place, j) ==
    /\ Free(c)
    /\ k \in load[c]
    /\ Forgets(c, [NoRequest EXCEPT !.kind = k, !.at = place], j)
    /\ UNCHANGED <<load, now, lessonVars, writerVars>>

Proceeds(c, place) == Goto(c, place) /\ UNCHANGED gatewayVars
Done(c, reply) == Forgets(c, Ended(NoRequest, reply), NoJob)

PreflightArrives(c) == Comes(c, "preflight", "profile", [NoJob EXCEPT !.revision = source])

PassArrives(c) ==
    \E t \in tickets :
        Comes(c, "voice", "spend", [NoJob EXCEPT !.revision = t.revision, !.claim = t.claim])

(* _material: learning is on, the chapter is the one of the job, and three *)
(* passages of two chapters are long enough.  Without them there is no     *)
(* claim, and no pass.                                                     *)
ReadsProfile(c) ==
    /\ req[c].at = "profile"
    /\ IF profile.learning
         THEN /\ Proceeds(c, "chapter")
              /\ job' = IF req[c].kind = "voice" THEN [job EXCEPT ![c].profile = profile]
                        ELSE job
         ELSE Done(c, Success)
    /\ UNCHANGED <<load, now, lessonVars, writerVars>>

AfterMaterial(c) == IF req[c].kind = "preflight" THEN "claim" ELSE "ready"

ReadsChapters(c) ==
    /\ req[c].at = "chapter"
    /\ \/ /\ source = job[c].revision
          /\ Proceeds(c, AfterMaterial(c))
          /\ lessons' = IF req[c].kind = "voice" THEN [lessons EXCEPT ![job[c].claim] = @ + 1]
                        ELSE lessons
          /\ UNCHANGED job
       \/ Done(c, Success) /\ UNCHANGED lessons
    /\ UNCHANGED <<load, now, row, claims, tickets, writerVars>>

(* A StoryDataError is nobody's: the route answers 500. *)
ReadFails(c) ==
    /\ req[c].at \in {"profile", "chapter"}
    /\ Done(c, Unhandled)
    /\ UNCHANGED <<load, now, lessonVars, writerVars>>

(* The upsert of claim(): one statement, so of two at once one comes       *)
(* second and finds the other's row.                                       *)
Today == now \div DayLength

SlotFreeEitherWay ==            \* mutant: OR for AND between spacing and ceiling
    row = NoRow \/ row.last < now - Spacing \/ row.day # Today \/ row.count < MaxPerDay
SlotFree ==
    \/ row = NoRow
    \/ row.last < now - Spacing /\ (row.day # Today \/ row.count < MaxPerDay)

Claims(c) ==
    /\ req[c].at = "claim"
    /\ IF SlotFree
         THEN LET n == Len(claims) + 1
              IN  /\ row' = [last |-> now, day |-> Today, claim |-> n,
                             count |-> IF row.day = Today THEN row.count + 1 ELSE 1]
                  /\ claims' = Append(claims, now)
                  /\ lessons' = Append(lessons, 0)
                  /\ tickets' = tickets \cup {[claim |-> n, revision |-> job[c].revision]}
         ELSE UNCHANGED lessonVars
    /\ Done(c, Success)
    /\ UNCHANGED <<load, now, writerVars>>

(* The UPDATE of _process: a claim that was spent, or that a newer one     *)
(* replaced, is worth nothing.                                             *)
Live(c) == row.claim = job[c].claim

SpendsClaim(c) ==
    /\ req[c].at = "spend"
    /\ IF Live(c)
         THEN Proceeds(c, "profile") /\ row' = [row EXCEPT !.claim = NoClaim] /\ UNCHANGED job
         ELSE Done(c, Success) /\ UNCHANGED row
    /\ UNCHANGED <<load, now, claims, tickets, lessons, writerVars>>

(* validate_proposal, on the notes as they were read.  A paid answer whose *)
(* body is no JSON, or has no output, is nobody's error: the route's 500.  *)
Proposable(note) ==
    {"no_change"} \cup (IF note = "none" THEN {"add"} ELSE {})
                  \cup (IF note = "agent" THEN {"revise", "retire"} ELSE {})

Proposes(c) ==
    /\ req[c].at = "answer" /\ req[c].kind = "voice"
    /\ \/ \E op \in Proposable(job[c].profile.note) :
             IF op = "no_change" THEN Done(c, Success)
             ELSE Proceeds(c, "note") /\ job' = [job EXCEPT ![c].op = op]
       \/ Done(c, Unhandled)
    /\ UNCHANGED <<load, now, lessonVars, writerVars>>

(* update_story_voice_note; If-Match is the revision read before the model *)
(* was asked.  Its answer may be lost.                                     *)
SentForLatest(c) == TRUE        \* mutant: sent for whatever revision is current
IfMatch(c) == profile.revision = job[c].profile.revision

UpdatesNote(c) ==
    /\ req[c].at = "note"
    /\ profile' = IF IfMatch(c)
                    THEN [profile EXCEPT !.revision = @ + 1,
                                         !.note = IF job[c].op = "retire" THEN "none" ELSE "agent"]
                    ELSE profile
    /\ \E reply \in {Success, Unhandled} : Done(c, reply)
    /\ UNCHANGED <<load, now, lessonVars, source, writerSteps>>

NoteIsLost(c) ==
    /\ req[c].at = "note"
    /\ Done(c, Unhandled)
    /\ UNCHANGED <<load, now, lessonVars, writerVars>>

-----------------------------------------------------------------------------
(* The writer, through the web editor. *)
WriterStep ==
    /\ writerSteps < MaxWriterSteps
    /\ writerSteps' = writerSteps + 1
    /\ UNCHANGED <<requestVars, load, now, lessonVars, job>>

SavesChapter == WriterStep /\ source' = source + 1 /\ UNCHANGED profile

EditsProfile ==
    /\ WriterStep
    /\ \/ profile' = [profile EXCEPT !.revision = @ + 1, !.learning = ~@]
       \/ \E to \in {"none", "pinned", "writer"} :
             /\ <<profile.note, to>> \in
                   {<<"none", "writer">>, <<"agent", "pinned">>, <<"agent", "none">>}
             /\ profile' = [profile EXCEPT !.revision = @ + 1, !.note = to]
    /\ UNCHANGED source

Writer == SavesChapter \/ EditsProfile

Tick ==
    /\ now < MaxTime
    /\ now' = now + 1
    /\ UNCHANGED <<requestVars, load, lessonVars, job, writerVars>>

-----------------------------------------------------------------------------
LessonStep(c) ==
    \/ ReadsProfile(c) \/ ReadsChapters(c) \/ ReadFails(c) \/ Claims(c)
    \/ SpendsClaim(c) \/ Proposes(c) \/ UpdatesNote(c) \/ NoteIsLost(c)

ServiceStep(c) ==
    /\ \/ \E k \in load[c] : Arrives(c, k) \/ TurnedAway(c, k)
       \/ "image" \in load[c] /\ ImageArrives(c)
       \/ RequestStep(c)
    /\ UNCHANGED <<load, now, lessonVars, job, writerVars>>

Next ==
    \/ \E c \in Calls : PreflightArrives(c) \/ PassArrives(c) \/ LessonStep(c) \/ ServiceStep(c)
    \/ Writer \/ Tick

Spec == Init /\ [][Next]_vars

-----------------------------------------------------------------------------
(* Properties; PaidOnce is ModelRequests'.                                 *)

(* However the preflights of several saves and the passes race, repeat or  *)
(* come late: lessons are claimed more than half an hour apart and at most *)
(* three times a day, and a claim pays for one analysis at most ("only one *)
(* concurrent caller gets a claim, and the pass itself runs only with that *)
(* claim").                                                                *)
LessonsRationed ==
    /\ \A i, j \in DOMAIN claims : i < j => claims[j] > claims[i] + Spacing
    /\ \A day \in 0 .. Today :
          Cardinality({i \in DOMAIN claims : claims[i] \div DayLength = day}) <= MaxPerDay
    /\ \A i \in DOMAIN lessons : lessons[i] <= 1

(* A lesson changes the profile only while learning is on, never a note    *)
(* that is the writer's or pinned, whatever the writer did while the model *)
(* was asked ("a conflict is skipped, never forced").                      *)
WriterPrevails ==
    [][\A c \in Calls :
          req[c].at = "note" /\ profile' # profile /\ req'[c].at = "end" =>
             /\ profile.learning
             /\ profile.note \in (IF job[c].op = "add" THEN {"none"} ELSE {"agent"})]_vars
=============================================================================
