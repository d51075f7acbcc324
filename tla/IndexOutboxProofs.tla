--------------------------- MODULE IndexOutboxProofs ---------------------------
(***************************************************************************)
(* Proofs about IndexOutbox, for every value of its constants.             *)
(*                                                                         *)
(* Labels: an event is older than the text read for it, and a text no      *)
(* newer than its source, however many workers there are.                  *)
(* Survival: as long as the index is wrong about a source, some event of   *)
(* it is owed: not delivered, not superseded and of its last revision.     *)
(* This is of one worker.                                                  *)
(***************************************************************************)
EXTENDS IndexOutbox, SequenceTheorems, TLAPS

-----------------------------------------------------------------------------
(* Types, and the event a worker is at.                                    *)

Busy(w) == pc[w] \notin {"idle", "batch"}

Types == TypeOK /\ \A w \in Workers : Busy(w) => event[w] \in Events

(* What no step does to the outbox: forget an event, or what it says. *)
Extends ==
    /\ outbox' \in Seq(EventRows)
    /\ Events \subseteq Events'
    /\ \A i \in Events :
          /\ outbox'[i].source = outbox[i].source
          /\ outbox'[i].op = outbox[i].op
          /\ outbox'[i].revision = outbox[i].revision
          /\ outbox[i].delivered => outbox'[i].delivered

(* Every step but the author's keeps to the events there are. *)
Keeping == Extends /\ Events' = Events

-----------------------------------------------------------------------------
(* Labels.                                                                 *)

Reading(w) == pc[w] \in {"charge", "defer", "replace", "replacing", "embed"}

EventsPast == \A i \in Events :
    /\ outbox[i].op = "upsert" =>
          0 < outbox[i].revision /\ outbox[i].revision <= revision[Source(i)]
    /\ outbox[i].op = "delete" => Source(i) \in gone /\ 0 < revision[Source(i)]

TextsPast == \A w \in Workers : Reading(w) =>
    /\ outbox[event[w]].op = "upsert"
    /\ outbox[event[w]].revision <= text[w]
    /\ text[w] <= revision[Source(event[w])]

RowsPast == \A s \in Sources : \A row \in chunks[s] :
    row.label <= row.text /\ row.text <= revision[s]

LabelInv == Types /\ EventsPast /\ TextsPast /\ RowsPast

-----------------------------------------------------------------------------
(* Survival.                                                               *)

Right(s) ==
    IF s \in gone \/ revision[s] = 0 THEN chunks[s] = {}
    ELSE \E row \in chunks[s] : chunks[s] = {row} /\ row.text = revision[s]

Owed(i, s) ==
    /\ i \in Events
    /\ Source(i) = s
    /\ ~outbox[i].delivered
    /\ outbox[i].revision >= revision[s]
    /\ \A w \in Workers : i \notin skip[w]

OwedBut(e, s) == \E i \in Events : i # e /\ Owed(i, s)

(* Nothing is lost sight of. *)
Watched == \A s \in Sources : Right(s) \/ \E i \in Events : Owed(i, s)

(* A worker at a source. *)
Purging(w) == pc[w] \in {"purge", "purging"} => Source(event[w]) \in gone

Replacing(w) ==
    pc[w] \in {"charge", "replace", "replacing", "embed"} =>
        \/ text[w] = revision[Source(event[w])] /\ Source(event[w]) \notin gone
        \/ OwedBut(event[w], Source(event[w]))

Seeing(w) ==
    pc[w] \in {"purging", "replacing", "embed"} => victims[w] = chunks[Source(event[w])]

Completing(w) ==
    pc[w] = "complete" =>
        \/ event[w] \in skip[w]
        \/ Right(Source(event[w]))
        \/ OwedBut(event[w], Source(event[w]))

SurvivalInv ==
    /\ Watched
    /\ \A w \in Workers : Purging(w) /\ Replacing(w) /\ Seeing(w) /\ Completing(w)

OneWorker == \A v, w \in Workers : v = w

-----------------------------------------------------------------------------
(* The outbox, step by step.                                               *)

LEMMA TypesFacts ==
    ASSUME Types
    PROVE  /\ Len(outbox) \in Nat
           /\ Events = 1 .. Len(outbox)
           /\ outbox \in [1 .. Len(outbox) -> EventRows]
           /\ \A i \in Events : outbox[i] \in EventRows
BY LenProperties DEF Types, TypeOK, Events

(* Rows rewritten in place. *)
LEMMA RewrittenKeeps ==
    ASSUME Types,
           outbox' \in [Events -> EventRows],
           \A i \in Events :
              /\ outbox'[i].source = outbox[i].source
              /\ outbox'[i].op = outbox[i].op
              /\ outbox'[i].revision = outbox[i].revision
              /\ outbox[i].delivered => outbox'[i].delivered
    PROVE  Keeping
<1>1. /\ Events = 1 .. Len(outbox)
      /\ Len(outbox) \in Nat
  BY TypesFacts
<1>2. outbox' \in Seq(EventRows)
  BY <1>1, SeqDef
<1>3. Events' = Events
  BY DEF Events
<1> QED
  BY <1>2, <1>3 DEF Keeping, Extends

LEMMA UnchangedKeeps == ASSUME Types, UNCHANGED outbox PROVE Keeping
BY DEF Types, TypeOK, Keeping, Extends, Events

LEMMA ClaimsKeeps == ASSUME Types, NEW w \in Workers, Claims(w) PROVE Keeping
<1>1. outbox' = [i \in Events |->
                    IF i \in NextBatch THEN [outbox[i] EXCEPT !.lease = "held"] ELSE outbox[i]]
  BY DEF Claims
<1>2. \A i \in Events : outbox[i] \in EventRows
  BY TypesFacts
<1>3. \A i \in Events : [outbox[i] EXCEPT !.lease = "held"] \in EventRows
  BY <1>2 DEF EventRows
<1> QED
  BY <1>1, <1>2, <1>3, RewrittenKeeps DEF EventRows

LEMMA LetsGoKeeps ==
    ASSUME Types, NEW w \in Workers, Busy(w),
           NEW d \in BOOLEAN, NEW wait \in {"none", "retry", "day"}, LetsGo(w, d, wait)
    PROVE  Keeping
<1> DEFINE e == event[w]
           row == [outbox[e] EXCEPT !.lease = "none", !.wait = wait,
                                    !.delivered = outbox[e].delivered \/ d]
<1>1. e \in Events
  BY DEF Types
<1>2. \A i \in Events : outbox[i] \in EventRows
  BY TypesFacts
<1>3. row \in EventRows
  BY <1>1, <1>2 DEF EventRows
<1>5. outbox \in [Events -> EventRows]
  BY TypesFacts
<1>4. outbox' = [outbox EXCEPT ![e] = row]
  BY <1>1, <1>5 DEF LetsGo
<1>6. /\ row.source = outbox[e].source
      /\ row.op = outbox[e].op
      /\ row.revision = outbox[e].revision
      /\ outbox[e].delivered => row.delivered
  BY <1>1, <1>2 DEF EventRows
<1> HIDE DEF row, e
<1>7. outbox' \in [Events -> EventRows]
  BY <1>3, <1>4, <1>5
<1> QED
  BY <1>1, <1>4, <1>5, <1>6, <1>7, RewrittenKeeps

LEMMA ClockKeeps == ASSUME Types, Clock PROVE Keeping
<1>1. outbox \in [Events -> EventRows]
  BY TypesFacts
<1>2. \A i \in Events : outbox[i] \in EventRows
  BY TypesFacts
<1>3. CASE NewDay
  <2>1. \A i \in Events :
           [outbox[i] EXCEPT !.wait = IF @ = "day" THEN "none" ELSE @] \in EventRows
    BY <1>2 DEF EventRows
  <2> QED
    BY <1>2, <1>3, <2>1, RewrittenKeeps DEF NewDay, EventRows
<1>4. ASSUME NEW i \in Events, Lapses(i) PROVE Keeping
  <2>1. outbox' = [outbox EXCEPT ![i] = [outbox[i] EXCEPT !.lease = "lapsed"]]
    BY <1>1, <1>4 DEF Lapses
  <2>2. [outbox[i] EXCEPT !.lease = "lapsed"] \in EventRows
    BY <1>2 DEF EventRows
  <2> QED
    BY <1>1, <1>2, <2>1, <2>2, RewrittenKeeps DEF EventRows
<1>5. ASSUME NEW i \in Events, RetryDue(i) PROVE Keeping
  <2>1. outbox' = [outbox EXCEPT ![i] = [outbox[i] EXCEPT !.wait = "none"]]
    BY <1>1, <1>5 DEF RetryDue
  <2>2. [outbox[i] EXCEPT !.wait = "none"] \in EventRows
    BY <1>2 DEF EventRows
  <2> QED
    BY <1>1, <1>2, <2>1, <2>2, RewrittenKeeps DEF EventRows
<1> QED
  BY <1>3, <1>4, <1>5 DEF Clock

(* A worker's steps, whatever they do. *)
LEMMA WorkerKeeps ==
    ASSUME Types, NEW w \in Workers, Works(w) \/ Errs(w)
    PROVE  Keeping /\ UNCHANGED storyVars
<1>1. CASE Claims(w)
  BY <1>1, ClaimsKeeps DEF Claims, storyVars
<1>2. CASE Completes(w)
  <2>1. Busy(w) /\ outbox[event[w]].wait \in {"none", "retry", "day"}
    BY <1>2, TypesFacts DEF Completes, Busy, Types, EventRows
  <2> QED
    BY <1>2, <2>1, LetsGoKeeps DEF Completes, LetsGo, storyVars
<1>3. CASE Defers(w)
  BY <1>3, LetsGoKeeps DEF Defers, Busy, LetsGo, storyVars
<1>4. CASE Fails(w)
  BY <1>4, LetsGoKeeps DEF Fails, Busy, LetsGo, storyVars
<1>5. ASSUME ~Claims(w), ~Completes(w), ~Defers(w), ~Fails(w)
      PROVE  UNCHANGED <<outbox, storyVars>>
  BY <1>5 DEF Works, Errs, BatchEnds, PassesOver, FindsNothing, ReadsSource, ReadFails, TurnsTo,
        Charges, Sees, Purges, Locks, Commits, Breaks, Dies, storyVars
<1> QED
  BY <1>1, <1>2, <1>3, <1>4, <1>5, UnchangedKeeps DEF storyVars

-----------------------------------------------------------------------------
(* Types are kept.                                                         *)

(* The types of all but the outbox, and the event a busy worker is at. *)
RestTyped ==
    /\ revision \in [Sources -> Nat]
    /\ gone \subseteq Sources
    /\ used \in 0 .. DayLimit
    /\ chunks \in [Sources -> SUBSET Rows]
    /\ pc \in [Workers -> Places]
    /\ batch \in [Workers -> SUBSET Events]
    /\ skip \in [Workers -> SUBSET Events]
    /\ event \in [Workers -> {Nothing} \cup Events]
    /\ text \in [Workers -> Nat]
    /\ victims \in [Workers -> SUBSET Rows]
    /\ failures \in Nat /\ crashes \in Nat
    /\ \A w \in Workers : Busy(w) => event[w] \in Events

LEMMA TypesSplit == Types <=> outbox \in Seq(EventRows) /\ RestTyped
BY DEF Types, TypeOK, RestTyped

LEMMA WorkerTypes ==
    ASSUME Types, NEW w \in Workers, Works(w) \/ Errs(w)
    PROVE  Types'
<1> SUFFICES RestTyped'
  BY WorkerKeeps, TypesSplit DEF Keeping, Extends, Types, TypeOK, RestTyped, Busy
<1>1. RestTyped /\ Events' = Events /\ UNCHANGED storyVars
  BY TypesSplit, WorkerKeeps DEF Keeping
<1>2. \A i \in Events : outbox[i] \in EventRows
  BY TypesFacts
<1>3. OutboxAssumption
  BY OutboxAssumption
<1> USE <1>1 DEF RestTyped, storyVars, workVars, Busy, Places
<1>4. CASE Claims(w)
  BY <1>4 DEF Claims, NextBatch
<1>5. CASE BatchEnds(w)
  BY <1>5 DEF BatchEnds
<1>6. ASSUME NEW i \in batch[w],
             PassesOver(w, i) \/ FindsNothing(w, i) \/ ReadsSource(w, i) \/ ReadFails(w, i)
      PROVE  RestTyped'
  BY <1>2, <1>6 DEF PassesOver, FindsNothing, ReadsSource, ReadFails, TurnsTo, Source, EventRows
<1>7. CASE Charges(w)
  BY <1>3, <1>7 DEF Charges, Affordable, Goes, OutboxAssumption
<1>8. CASE Sees(w)
  BY <1>2, <1>8 DEF Sees, Goes, Source, EventRows
<1>9. CASE Purges(w)
  BY <1>2, <1>9 DEF Purges, Rewrites, Goes, Source, EventRows
<1>10. CASE Locks(w)
  BY <1>10 DEF Locks, Goes
<1>11. CASE Commits(w)
  <2>1. event[w] \in Events /\ Label(w) \in Nat /\ Source(event[w]) \in Sources
    BY <1>2, <1>11 DEF Commits, Label, Source, EventRows
  <2>2. {[label |-> Label(w), text |-> text[w], by |-> w]} \subseteq Rows
    BY <2>1 DEF Rows
  <2>3. chunks' \in [Sources -> SUBSET Rows]
    BY <2>1, <2>2, <1>11 DEF Commits, Rewrites
  <2> QED
    BY <2>3, <1>11 DEF Commits, Goes
<1>12. CASE Completes(w) \/ Defers(w) \/ Fails(w)
  BY <1>12 DEF Completes, Defers, Fails, LetsGo, Goes, Forgets, Nothing
<1>13. CASE Breaks(w)
  BY <1>13 DEF Breaks, Goes
<1>14. CASE Dies(w)
  BY <1>14 DEF Dies, Goes, Forgets, Nothing
<1> QED
  BY <1>4, <1>5, <1>6, <1>7, <1>8, <1>9, <1>10, <1>11, <1>12, <1>13, <1>14 DEF Works, Errs

LEMMA ClockTypes == ASSUME Types, Clock PROVE Types'
<1>1. RestTyped /\ outbox' \in Seq(EventRows) /\ Events' = Events
  BY ClockKeeps, TypesSplit DEF Keeping, Extends
<1>2. UNCHANGED <<storyVars, chunks, pc, workVars, failures, crashes>>
  BY DEF Clock, NewDay, Lapses, RetryDue
<1>3. used' \in 0 .. DayLimit
  BY <1>1, OutboxAssumption DEF Clock, NewDay, Lapses, RetryDue, RestTyped, OutboxAssumption
<1>4. RestTyped'
  BY <1>1, <1>2, <1>3 DEF RestTyped, storyVars, workVars, Busy
<1> QED
  BY <1>1, <1>4 DEF Types, TypeOK, RestTyped

(* What the author's steps add. *)
LEMMA AuthorAdds ==
    ASSUME Types, Author
    PROVE  \E s \in Sources, op \in {"upsert", "delete"}, rev \in Nat :
              /\ outbox' = Append(outbox, Event(s, op, rev))
              /\ Events' = Events \cup {Len(outbox) + 1}
              /\ Len(outbox) + 1 \notin Events
              /\ outbox'[Len(outbox) + 1] = Event(s, op, rev)
              /\ \A i \in Events : outbox'[i] = outbox[i]
              /\ Extends
              /\ s \notin gone
              /\ \/ op = "upsert" /\ Saves(s) /\ rev = revision[s] + 1
                 \/ op = "delete" /\ Removes(s) /\ rev \in {revision[s], revision[s] + 1}
<1>1. PICK s \in Sources : Saves(s) \/ Removes(s)
  BY DEF Author
<1>2. revision[s] \in Nat
  BY DEF Types, TypeOK
<1>3. PICK op \in {"upsert", "delete"}, rev \in Nat :
         /\ outbox' = Append(outbox, Event(s, op, rev))
         /\ s \notin gone
         /\ \/ op = "upsert" /\ Saves(s) /\ rev = revision[s] + 1
            \/ op = "delete" /\ Removes(s) /\ rev \in {revision[s], revision[s] + 1}
  BY <1>1, <1>2 DEF Saves, Removes
<1>4. Event(s, op, rev) \in EventRows
  BY DEF Event, EventRows
<1>5. /\ outbox' \in Seq(EventRows)
      /\ Len(outbox') = Len(outbox) + 1
      /\ Events' = 1 .. Len(outbox) + 1
      /\ outbox'[Len(outbox) + 1] = Event(s, op, rev)
      /\ \A i \in Events : outbox'[i] = outbox[i]
  BY <1>3, <1>4, TypesFacts DEF Types, TypeOK, Events
<1> QED
  BY <1>3, <1>5, TypesFacts DEF Extends

LEMMA AuthorTypes == ASSUME Types, Author PROVE Types'
<1>1. RestTyped /\ outbox' \in Seq(EventRows) /\ Events \subseteq Events'
  BY AuthorAdds, TypesSplit DEF Extends
<1>2. /\ revision' \in [Sources -> Nat]
      /\ gone' \subseteq Sources
      /\ UNCHANGED <<used, chunks, pc, workVars, failures, crashes>>
  <2>1. PICK s \in Sources : Saves(s) \/ Removes(s)
    BY DEF Author
  <2>2. CASE Saves(s)
    BY <1>1, <2>2 DEF Saves, RestTyped
  <2>3. CASE Removes(s)
    BY <1>1, <2>3 DEF Removes, RestTyped
  <2> QED
    BY <2>1, <2>2, <2>3
<1>3. RestTyped'
  BY <1>1, <1>2 DEF RestTyped, workVars, Busy
<1> QED
  BY <1>1, <1>3 DEF Types, TypeOK, RestTyped

-----------------------------------------------------------------------------
(* Labels are kept.                                                        *)

LEMMA InitTypes == ASSUME Init PROVE Types
<1>1. <<>> \in Seq(EventRows) /\ DOMAIN <<>> = {}
  OBVIOUS
<1> QED
  BY <1>1, OutboxAssumption DEF Init, Types, TypeOK, Busy, Places, Nothing, Events, OutboxAssumption

LEMMA InitLabels == ASSUME Init PROVE LabelInv
<1>1. Events = {}
  BY DEF Init, Events
<1> QED
  BY <1>1, InitTypes DEF Init, LabelInv, EventsPast, TextsPast, RowsPast, Reading

LEMMA WorkerLabels ==
    ASSUME LabelInv, NEW w \in Workers, Works(w) \/ Errs(w)
    PROVE  LabelInv'
<1>1. Types /\ Types' /\ Keeping /\ UNCHANGED storyVars
  BY WorkerTypes, WorkerKeeps DEF LabelInv
<1>2. EventsPast'
  BY <1>1 DEF LabelInv, EventsPast, Keeping, Extends, Source, storyVars
<1>3. \A i \in Events : outbox[i] \in EventRows
  BY <1>1, TypesFacts
<1>4. /\ \A i \in Events : /\ outbox'[i].source = outbox[i].source
                           /\ outbox'[i].op = outbox[i].op
                           /\ outbox'[i].revision = outbox[i].revision
      /\ Events' = Events
      /\ revision' = revision
  BY <1>1 DEF Keeping, Extends, storyVars
<1>5. /\ revision \in [Sources -> Nat]
      /\ pc \in [Workers -> Places]
      /\ event \in [Workers -> {Nothing} \cup Events]
      /\ text \in [Workers -> Nat]
      /\ batch \in [Workers -> SUBSET Events]
      /\ chunks \in [Sources -> SUBSET Rows]
      /\ \A v \in Workers : Reading(v) => event[v] \in Events
  BY <1>1 DEF Types, TypeOK, Busy, Reading
<1>6. TextsPast'
  <2> SUFFICES ASSUME NEW v \in Workers, Reading(v)'
               PROVE  (/\ outbox[event[v]].op = "upsert"
                       /\ outbox[event[v]].revision <= text[v]
                       /\ text[v] <= revision[Source(event[v])])'
    BY DEF TextsPast
  <2>1. CASE Reading(v) /\ event'[v] = event[v] /\ text'[v] = text[v]
    BY <1>4, <1>5, <2>1 DEF LabelInv, TextsPast, Source
  <2>2. ASSUME NEW i \in batch[w], ReadsSource(w, i), v = w
        PROVE  (/\ outbox[event[v]].op = "upsert"
                /\ outbox[event[v]].revision <= text[v]
                /\ text[v] <= revision[Source(event[v])])'
    <3>1. i \in Events /\ Source(i) \in Sources /\ revision[Source(i)] \in Nat
      BY <1>3, <1>5 DEF Source, EventRows
    <3>2. event'[w] = i /\ text'[w] = revision[Source(i)] /\ outbox[i].op = "upsert"
      BY <1>5, <2>2 DEF ReadsSource, TurnsTo
    <3>3. outbox[i].revision <= revision[Source(i)]
      BY <3>1, <3>2 DEF LabelInv, EventsPast
    <3> QED
      BY <1>4, <2>2, <3>1, <3>2, <3>3 DEF Source
  <2>3. \/ Reading(v) /\ event'[v] = event[v] /\ text'[v] = text[v]
        \/ v = w /\ \E i \in batch[w] : ReadsSource(w, i)
    <3> USE <1>5 DEF Reading, Places
    <3>1. CASE Claims(w) \/ BatchEnds(w)
      BY <3>1 DEF Claims, BatchEnds
    <3>2. CASE \E i \in batch[w] : PassesOver(w, i) \/ FindsNothing(w, i) \/ ReadFails(w, i)
      BY <3>2 DEF PassesOver, FindsNothing, ReadFails, TurnsTo
    <3>3. CASE Charges(w) \/ Sees(w) \/ Purges(w) \/ Locks(w) \/ Commits(w) \/ Breaks(w)
      BY <3>3 DEF Charges, Sees, Purges, Locks, Commits, Breaks, Goes, workVars
    <3>4. CASE Completes(w) \/ Defers(w) \/ Fails(w) \/ Dies(w)
      BY <3>4 DEF Completes, Defers, Fails, Dies, LetsGo, Goes, Forgets
    <3>5. CASE \E i \in batch[w] : ReadsSource(w, i)
      BY <3>5 DEF ReadsSource, TurnsTo
    <3> QED
      BY <3>1, <3>2, <3>3, <3>4, <3>5 DEF Works, Errs
  <2> QED
    BY <2>1, <2>2, <2>3
<1>7. RowsPast'
  <2>1. CASE Commits(w)
    <3>1. Reading(w) /\ event[w] \in Events
      BY <1>5, <2>1 DEF Commits, Reading
    <3>2. Label(w) <= text[w] /\ text[w] <= revision[Source(event[w])]
      BY <3>1 DEF LabelInv, TextsPast, Label
    <3>3. ASSUME NEW s \in Sources, NEW row \in chunks'[s]
          PROVE  row.label <= row.text /\ row.text <= revision[s]
      <4>1. \/ row \in chunks[s]
            \/ /\ s = Source(event[w])
               /\ row = [label |-> Label(w), text |-> text[w], by |-> w]
        BY <1>5, <2>1, <3>3 DEF Commits, Rewrites
      <4> QED
        BY <3>2, <4>1 DEF LabelInv, RowsPast
    <3> QED
      BY <1>4, <3>3 DEF RowsPast
  <2>2. CASE ~Commits(w)
    <3>1. \A s \in Sources : chunks'[s] \subseteq chunks[s]
      BY <1>5, <2>2 DEF Works, Errs, Claims, BatchEnds, PassesOver, FindsNothing, ReadsSource,
            ReadFails, TurnsTo, Charges, Sees, Purges, Rewrites, Locks, Completes, Defers, Fails,
            LetsGo, Breaks, Dies
    <3> QED
      BY <1>4, <3>1 DEF LabelInv, RowsPast
  <2> QED
    BY <2>1, <2>2
<1> QED
  BY <1>1, <1>2, <1>6, <1>7 DEF LabelInv

LEMMA ClockLabels == ASSUME LabelInv, Clock PROVE LabelInv'
<1>1. Types /\ Types' /\ Keeping
  BY ClockTypes, ClockKeeps DEF LabelInv
<1>2. UNCHANGED <<storyVars, chunks, pc, workVars>>
  BY DEF Clock, NewDay, Lapses, RetryDue
<1>3. \A v \in Workers : Reading(v) => event[v] \in Events
  BY <1>1 DEF Types, Busy, Reading
<1> QED
  BY <1>1, <1>2, <1>3 DEF LabelInv, EventsPast, TextsPast, RowsPast, Keeping, Extends, Source,
        Reading, storyVars, workVars

LEMMA AuthorLabels == ASSUME LabelInv, Author PROVE LabelInv'
<1>1. Types /\ Types'
  BY AuthorTypes DEF LabelInv
<1>2. PICK s \in Sources, op \in {"upsert", "delete"}, rev \in Nat :
         /\ Events' = Events \cup {Len(outbox) + 1}
         /\ outbox'[Len(outbox) + 1] = Event(s, op, rev)
         /\ \A i \in Events : outbox'[i] = outbox[i]
         /\ \/ op = "upsert" /\ Saves(s) /\ rev = revision[s] + 1
            \/ op = "delete" /\ Removes(s)
  BY <1>1, AuthorAdds
<1>3. /\ revision \in [Sources -> Nat] /\ revision' \in [Sources -> Nat]
      /\ \A i \in Events : outbox[i] \in EventRows
      /\ chunks \in [Sources -> SUBSET Rows]
      /\ text \in [Workers -> Nat]
      /\ \A v \in Workers : Reading(v) => event[v] \in Events
  BY <1>1, TypesFacts DEF Types, TypeOK, Busy, Reading
<1>4. /\ \A t \in Sources : revision[t] <= revision'[t]
      /\ gone \subseteq gone'
      /\ op = "upsert" => rev = revision'[s] /\ 0 < rev
      /\ op = "delete" => s \in gone' /\ 0 < revision'[s]
  <2>1. CASE op = "upsert" /\ Saves(s) /\ rev = revision[s] + 1
    BY <1>3, <2>1 DEF Saves
  <2>2. CASE op = "delete" /\ Removes(s)
    BY <1>3, <2>2 DEF Removes
  <2> QED
    BY <1>2, <2>1, <2>2
<1>5. UNCHANGED <<chunks, pc, workVars>>
  BY DEF Author, Saves, Removes
<1>6. EventsPast'
  <2> SUFFICES ASSUME NEW i \in Events'
               PROVE  /\ outbox'[i].op = "upsert" =>
                            /\ 0 < outbox'[i].revision
                            /\ outbox'[i].revision <= revision'[outbox'[i].source]
                      /\ outbox'[i].op = "delete" =>
                            outbox'[i].source \in gone' /\ 0 < revision'[outbox'[i].source]
    BY DEF EventsPast, Source
  <2>1. CASE i \in Events
    <3>1. outbox'[i] = outbox[i] /\ outbox[i].source \in Sources /\ outbox[i].revision \in Nat
      BY <1>2, <1>3, <2>1 DEF EventRows
    <3> QED
      BY <1>3, <1>4, <2>1, <3>1 DEF LabelInv, EventsPast, Source
  <2>2. CASE i = Len(outbox) + 1
    BY <1>2, <1>3, <1>4, <2>2 DEF Event
  <2> QED
    BY <1>2, <2>1, <2>2
<1>7. TextsPast'
  <2> SUFFICES ASSUME NEW v \in Workers, Reading(v)
               PROVE  (/\ outbox[event[v]].op = "upsert"
                       /\ outbox[event[v]].revision <= text[v]
                       /\ text[v] <= revision[Source(event[v])])'
    BY <1>5 DEF TextsPast, Reading
  <2>1. event[v] \in Events /\ event' = event /\ text' = text /\ Source(event[v]) \in Sources
    BY <1>3, <1>5 DEF workVars, Source, EventRows
  <2> QED
    BY <1>2, <1>3, <1>4, <2>1 DEF LabelInv, TextsPast, Source
<1>8. RowsPast'
  BY <1>3, <1>4, <1>5 DEF LabelInv, RowsPast, Rows
<1> QED
  BY <1>1, <1>6, <1>7, <1>8 DEF LabelInv

LEMMA StutterLabels == ASSUME LabelInv, UNCHANGED vars PROVE LabelInv'
BY DEF LabelInv, Types, TypeOK, Busy, EventsPast, TextsPast, RowsPast, Reading, Source, Events,
       vars, storyVars, workVars

LEMMA LabelsKept == ASSUME LabelInv, [Next]_vars PROVE LabelInv'
BY WorkerLabels, ClockLabels, AuthorLabels, StutterLabels DEF Next

(* However many workers there are and however their leases lapse: what is  *)
(* read, written and labelled is never from the future.                    *)
THEOREM OutboxLabels == Spec => []LabelInv
<1>1. Init => LabelInv
  BY InitLabels
<1>2. LabelInv /\ [Next]_vars => LabelInv'
  BY LabelsKept
<1> QED
  BY <1>1, <1>2, PTL DEF Spec

(* The types, and the daily budget, hold with any number of workers.       *)
THEOREM OutboxTypeOK == Spec => []TypeOK
<1>1. LabelInv => TypeOK
  BY DEF LabelInv, Types
<1> QED
  BY <1>1, OutboxLabels, PTL

(* A search hit that is not flagged stale has the current text: its label  *)
(* is at most the revision of its text, which is at most the source's.     *)
THEOREM OutboxUnflaggedIsCurrent == Spec => []UnflaggedIsCurrent
<1>1. ASSUME LabelInv PROVE UnflaggedIsCurrent
  <2> SUFFICES ASSUME NEW s \in Sources, NEW row \in chunks[s], ~Stale(s, row)
               PROVE  row.text = revision[s]
    BY DEF UnflaggedIsCurrent
  <2>1. /\ row.label \in Nat /\ row.text \in Nat /\ revision[s] \in Nat
        /\ row.label <= row.text /\ row.text <= revision[s]
    BY <1>1 DEF LabelInv, Types, TypeOK, Rows, RowsPast
  <2>2. row.label = revision[s]
    BY DEF Stale
  <2> QED
    BY <2>1, <2>2
<1> QED
  BY <1>1, OutboxLabels, PTL

-----------------------------------------------------------------------------
(* One worker loses nothing.                                               *)

LEMMA OwedKept ==
    ASSUME Extends, NEW s, revision'[s] = revision[s], NEW i \in Events, Source(i) = s,
           outbox[i].revision >= revision[s], ~outbox'[i].delivered, \A v \in Workers : i \notin skip'[v]
    PROVE  Owed(i, s)'
BY DEF Extends, Owed, Source

LEMMA RightKept ==
    ASSUME UNCHANGED storyVars, NEW s, chunks'[s] = chunks[s], Right(s)
    PROVE  Right(s)'
BY DEF Right, storyVars

(* Where nothing is delivered, skipped or asked for, what is owed is owed. *)
LEMMA QuietOwed ==
    ASSUME Keeping, UNCHANGED storyVars,
           \A i \in Events : outbox'[i].delivered = outbox[i].delivered,
           \A v \in Workers : skip'[v] \subseteq skip[v]
    PROVE  /\ \A i, s : Owed(i, s) => Owed(i, s)'
           /\ \A i, s : OwedBut(i, s) => OwedBut(i, s)'
BY DEF Keeping, Extends, Owed, OwedBut, Source, storyVars

LEMMA QuietWatched ==
    ASSUME Watched, Keeping, UNCHANGED storyVars, UNCHANGED chunks,
           \A i \in Events : outbox'[i].delivered = outbox[i].delivered,
           \A v \in Workers : skip'[v] \subseteq skip[v]
    PROVE  Watched'
<1>1. ASSUME NEW s \in Sources PROVE (Right(s) \/ \E i \in Events : Owed(i, s))'
  <2>1. CASE Right(s)
    BY <2>1, RightKept
  <2>2. CASE \E i \in Events : Owed(i, s)
    BY <2>2, QuietOwed DEF Keeping
  <2> QED
    BY <2>1, <2>2 DEF Watched
<1> QED
  BY <1>1 DEF Watched

(* Nothing is asked of a worker between two events. *)
LEMMA NothingAsked ==
    ASSUME OneWorker, NEW w \in Workers, pc'[w] \in {"idle", "batch", "fail", "defer"}, Watched'
    PROVE  SurvivalInv'
BY DEF OneWorker, SurvivalInv, Purging, Replacing, Seeing, Completing

(* A superseded event leaves one of its source that is as new. *)
LEMMA ClaimsSurvives ==
    ASSUME OneWorker, LabelInv, SurvivalInv, NEW w \in Workers, Claims(w)
    PROVE  SurvivalInv'
<1>1. /\ Types /\ Keeping /\ UNCHANGED <<storyVars, chunks>>
      /\ \A v \in Workers : v = w
      /\ pc'[w] = "batch"
  BY ClaimsKeeps DEF LabelInv, Claims, OneWorker, Types, TypeOK
<1>2. PICK K \in SUBSET NextBatch : Keeps(NextBatch, K) /\ skip' = [skip EXCEPT ![w] = NextBatch \ K]
  BY DEF Claims
<1>3. \A i \in Events : outbox[i] \in EventRows
  BY <1>1, TypesFacts
<1>4. \A i \in Events : outbox'[i].delivered = outbox[i].delivered
  BY <1>3 DEF Claims, EventRows
<1>5. NextBatch \subseteq Events /\ skip'[w] = NextBatch \ K /\ revision \in [Sources -> Nat]
  BY <1>1, <1>2 DEF NextBatch, Types, TypeOK
<1>6. ASSUME NEW s \in Sources, NEW i \in Events, Owed(i, s)
      PROVE  \E j \in Events : Owed(j, s)'
  <2>1. PICK j \in Events : /\ Source(j) = s /\ outbox[j].revision >= revision[s]
                            /\ ~outbox[j].delivered /\ j \notin skip'[w]
    <3>1. CASE i \notin skip'[w]
      BY <1>6, <3>1 DEF Owed
    <3>2. CASE i \in skip'[w]
      <4>1. PICK j \in K : Source(j) = Source(i) /\ outbox[j].revision >= outbox[i].revision
        BY <1>2, <1>5, <3>2 DEF Keeps
      <4>2. j \in Events /\ ~outbox[j].delivered /\ j \notin skip'[w]
        BY <1>2, <1>5, <4>1 DEF NextBatch, Claimable
      <4>3. outbox[j].revision >= revision[s]
        BY <1>3, <1>5, <1>6, <4>1, <4>2 DEF Owed, EventRows
      <4> QED
        BY <1>6, <4>1, <4>2, <4>3 DEF Owed
    <3> QED
      BY <3>1, <3>2
  <2>2. Extends /\ revision'[s] = revision[s] /\ ~outbox'[j].delivered
    BY <1>1, <1>4, <2>1 DEF Keeping, storyVars
  <2> QED
    BY <1>1, <2>1, <2>2, OwedKept
<1>7. Watched'
  BY <1>1, <1>6, RightKept DEF SurvivalInv, Watched, Keeping
<1> QED
  BY <1>1, <1>7, NothingAsked

(* An event is delivered only when it is superseded, or its source right,  *)
(* or another event owed.                                                  *)
LEMMA CompletesSurvives ==
    ASSUME OneWorker, LabelInv, SurvivalInv, NEW w \in Workers, Completes(w)
    PROVE  SurvivalInv'
<1> DEFINE e == event[w]
<1>1. /\ Types /\ Keeping /\ UNCHANGED <<storyVars, chunks, skip>>
      /\ \A v \in Workers : v = w
      /\ pc'[w] = "batch"
      /\ e \in Events /\ Source(e) \in Sources
      /\ \A i \in Events : outbox[i] \in EventRows
      /\ outbox \in [Events -> EventRows]
  BY WorkerKeeps, TypesFacts DEF Works, LabelInv, Completes, LetsGo, Goes, OneWorker, Types, TypeOK,
        Busy, Source, EventRows
<1>2. \A i \in Events \ {e} : outbox'[i] = outbox[i]
  BY <1>1 DEF Completes, LetsGo
<1>3. ASSUME NEW s \in Sources, NEW i \in Events \ {e}, Owed(i, s)
      PROVE  Owed(i, s)'
  BY <1>1, <1>2, <1>3, OwedKept DEF Keeping, Owed, storyVars
<1>4. ASSUME NEW s \in Sources PROVE (Right(s) \/ \E i \in Events : Owed(i, s))'
  <2>1. CASE Right(s)
    BY <1>1, <2>1, RightKept
  <2>2. ASSUME NEW i \in Events, Owed(i, s), ~Right(s)
        PROVE  \E j \in Events' : Owed(j, s)'
    <3>1. CASE i # e
      BY <1>1, <1>3, <2>2, <3>1 DEF Keeping
    <3>2. CASE i = e
      <4>1. s = Source(e) /\ e \notin skip[w]
        BY <2>2, <3>2 DEF Owed
      <4>2. OwedBut(e, s)
        BY <2>2, <4>1 DEF SurvivalInv, Completing, Completes
      <4> QED
        BY <1>1, <1>3, <4>2 DEF OwedBut, Keeping
    <3> QED
      BY <3>1, <3>2
  <2> QED
    BY <2>1, <2>2 DEF SurvivalInv, Watched
<1>5. Watched'
  BY <1>4 DEF Watched
<1> QED
  BY <1>1, <1>5, NothingAsked

(* The rows of the worker's source are rewritten, of no other. *)
LEMMA RewritesSurvives ==
    ASSUME OneWorker, LabelInv, SurvivalInv, NEW w \in Workers, Purges(w) \/ Commits(w)
    PROVE  SurvivalInv'
<1>0. PICK e \in Events, src \in Sources : e = event[w] /\ src = Source(e)
  <2>1. event[w] \in Events
    BY DEF LabelInv, Types, Busy, Purges, Commits
  <2> QED
    BY <2>1, TypesFacts DEF LabelInv, Source, EventRows
<1>1. /\ Types /\ Keeping /\ UNCHANGED <<storyVars, outbox, skip, event>>
      /\ \A v \in Workers : v = w
      /\ pc'[w] = "complete"
      /\ victims[w] = chunks[src]
      /\ chunks \in [Sources -> SUBSET Rows] /\ text \in [Workers -> Nat]
  <2>1. Types /\ Keeping /\ Busy(w) /\ pc \in [Workers -> Places]
    BY WorkerKeeps DEF Works, LabelInv, Purges, Commits, Busy, Types, TypeOK
  <2> QED
    BY <1>0, <2>1 DEF Purges, Commits, Goes, OneWorker, Types, TypeOK, workVars, SurvivalInv, Seeing
<1>2. \A s \in Sources \ {src} : chunks'[s] = chunks[s]
  BY <1>0, <1>1 DEF Purges, Commits, Rewrites
<1>3. (Right(src) \/ OwedBut(e, src))'
  <2>1. CASE Purges(w)
    <3>1. src \in gone
      BY <1>0, <1>1, <2>1 DEF SurvivalInv, Purging, Purges
    <3>2. chunks'[src] = {}
      BY <1>0, <1>1, <2>1 DEF Purges, Rewrites
    <3> QED
      BY <1>1, <3>1, <3>2 DEF Right, storyVars
  <2>2. ASSUME Commits(w), text[w] = revision[src], src \notin gone
        PROVE  Right(src)'
    <3>1. chunks'[src] = {[label |-> Label(w), text |-> text[w], by |-> w]}
      BY <1>0, <1>1, <2>2 DEF Commits, Rewrites
    <3>2. revision[src] # 0
      <4>1. Reading(w) /\ outbox[e].op = "upsert" /\ revision[src] \in Nat
        BY <1>0, <1>1, <2>2 DEF Reading, Commits, LabelInv, TextsPast, Types, TypeOK
      <4> QED
        BY <1>0, <1>1, <4>1, TypesFacts DEF LabelInv, EventsPast, EventRows
    <3> QED
      BY <1>1, <2>2, <3>1, <3>2 DEF Right, storyVars
  <2>3. ASSUME OwedBut(e, src) PROVE OwedBut(e, src)'
    BY <1>1, <2>3, QuietOwed
  <2> QED
    BY <1>0, <1>1, <2>1, <2>2, <2>3 DEF SurvivalInv, Replacing, Commits
<1>4. Watched'
  <2>1. ASSUME NEW s \in Sources, s # src PROVE (Right(s) \/ \E i \in Events : Owed(i, s))'
    BY <1>1, <1>2, <2>1, RightKept, QuietOwed DEF SurvivalInv, Watched, Keeping
  <2> QED
    BY <1>1, <1>3, <2>1 DEF Watched, OwedBut
<1>5. Completing(w)'
  BY <1>0, <1>1, <1>3 DEF Completing, Source
<1> QED
  BY <1>1, <1>4, <1>5 DEF SurvivalInv, Purging, Replacing, Seeing

(* Steps that deliver, supersede and write nothing. *)
LEMMA QuietSurvives ==
    ASSUME OneWorker, LabelInv, SurvivalInv, NEW w \in Workers, Works(w) \/ Errs(w),
           ~Claims(w), ~Completes(w), ~Purges(w), ~Commits(w)
    PROVE  SurvivalInv'
<1>1. /\ Types /\ Keeping /\ UNCHANGED storyVars
      /\ pc \in [Workers -> Places]
      /\ \A i \in Events : outbox[i] \in EventRows
      /\ \A v \in Workers : v = w
  BY WorkerKeeps, TypesFacts DEF LabelInv, OneWorker, Types, TypeOK
<1>2. UNCHANGED chunks
  BY DEF Works, Errs, BatchEnds, PassesOver, FindsNothing, ReadsSource, ReadFails, TurnsTo, Charges,
         Sees, Locks, Defers, Fails, LetsGo, Breaks, Dies
<1>3. \A i \in Events : outbox'[i].delivered = outbox[i].delivered
  <2>1. CASE Defers(w) \/ Fails(w)
    <3>0. outbox \in [Events -> EventRows]
      BY <1>1, TypesFacts
    <3> DEFINE e == event[w]
    <3>1. e \in Events /\ outbox[e].delivered \in BOOLEAN
      BY <1>1, <2>1 DEF Types, Busy, Defers, Fails, EventRows
    <3>2. \A i \in Events \ {e} : outbox'[i] = outbox[i]
      BY <2>1, <3>0, <3>1 DEF Defers, Fails, LetsGo
    <3>3. outbox'[e].delivered = (outbox[e].delivered \/ FALSE)
      <4>1. PICK wait : outbox' = [outbox EXCEPT ![e] = [@ EXCEPT !.lease = "none", !.wait = wait,
                                      !.delivered = outbox[e].delivered \/ FALSE]]
        BY <2>1 DEF Defers, Fails, LetsGo
      <4>2. outbox'[e] = [outbox[e] EXCEPT !.lease = "none", !.wait = wait,
                                      !.delivered = outbox[e].delivered \/ FALSE]
        BY <3>0, <3>1, <4>1
      <4> QED
        BY <1>1, <3>1, <4>2 DEF EventRows
    <3> QED
      BY <3>1, <3>2, <3>3
  <2>2. CASE ~Defers(w) /\ ~Fails(w)
    BY <2>2 DEF Works, Errs, BatchEnds, PassesOver, FindsNothing, ReadsSource, ReadFails, TurnsTo,
          Charges, Sees, Locks, Breaks, Dies
  <2> QED
    BY <2>1, <2>2
<1>4. \A v \in Workers : skip'[v] \subseteq skip[v]
  BY <1>1 DEF Works, Errs, BatchEnds, PassesOver, FindsNothing, ReadsSource, ReadFails, TurnsTo,
        Charges, Sees, Locks, Defers, Fails, LetsGo, Breaks, Dies, workVars, Types, TypeOK
<1>5. Watched'
  BY <1>1, <1>2, <1>3, <1>4, QuietWatched DEF SurvivalInv
<1>6. CASE pc'[w] \in {"idle", "batch", "fail", "defer"}
  BY <1>5, <1>6, NothingAsked
<1>7. ASSUME NEW i \in batch[w], PassesOver(w, i) PROVE SurvivalInv'
  <2>1. pc'[w] = "complete" /\ event'[w] = i /\ i \in skip'[w]
    BY <1>1, <1>7 DEF PassesOver, TurnsTo, Types, TypeOK
  <2> QED
    BY <1>1, <1>5, <2>1 DEF SurvivalInv, Purging, Replacing, Seeing, Completing
<1>8. ASSUME NEW i \in batch[w], FindsNothing(w, i) PROVE SurvivalInv'
  <2>1. i \in Events /\ Source(i) \in gone
    BY <1>1, <1>8 DEF FindsNothing, LabelInv, EventsPast, Types, TypeOK
  <2>2. pc'[w] = "purge" /\ event'[w] = i /\ (Source(i) \in gone)'
    BY <1>1, <1>8, <2>1 DEF FindsNothing, TurnsTo, Types, TypeOK, storyVars, Keeping, Extends, Source
  <2> QED
    BY <1>1, <1>5, <2>2 DEF SurvivalInv, Purging, Replacing, Seeing, Completing, Source
<1>9. ASSUME NEW i \in batch[w], ReadsSource(w, i) PROVE SurvivalInv'
  <2>1. i \in Events /\ outbox'[i].source = outbox[i].source
    BY <1>1 DEF Keeping, Extends, Types, TypeOK
  <2>2. /\ pc'[w] = "charge" /\ event'[w] = i
        /\ text'[w] = revision'[outbox'[i].source] /\ outbox'[i].source \notin gone'
    BY <1>1, <1>9, <2>1 DEF ReadsSource, TurnsTo, Types, TypeOK, storyVars, Source
  <2> QED
    BY <1>1, <1>5, <2>2 DEF SurvivalInv, Purging, Replacing, Seeing, Completing, Source
<1>10. CASE /\ Charges(w) \/ Sees(w) \/ Locks(w)
            /\ pc'[w] \notin {"idle", "batch", "fail", "defer"}
  <2>1. PICK e \in Events, src \in Sources : e = event[w] /\ src = Source(e)
    <3>1. event[w] \in Events
      BY <1>1, <1>10 DEF Types, Busy, Charges, Sees, Locks
    <3> QED
      BY <1>1, <3>1 DEF Source, EventRows
  <2>2. UNCHANGED <<outbox, event, text, chunks, storyVars>>
    BY <1>10 DEF Charges, Sees, Locks, workVars
  <2>3. \/ pc[w] = "charge" /\ pc'[w] = "replace"
        \/ pc[w] = "purge" /\ pc'[w] = "purging" /\ victims'[w] = chunks[src]
        \/ pc[w] = "replace" /\ pc'[w] = "replacing" /\ victims'[w] = chunks[src]
        \/ pc[w] = "replacing" /\ pc'[w] = "embed" /\ victims'[w] = victims[w]
    BY <1>1, <1>10, <2>1 DEF Charges, Sees, Locks, Goes, workVars, Types, TypeOK
  <2>4. OwedBut(e, src) => OwedBut(e, src)'
    BY <1>1, <1>3, <1>4, QuietOwed
  <2>5. Source(e)' = src
    BY <2>1, <2>2 DEF Source
  <2>6. Purging(w)' /\ Seeing(w)' /\ Completing(w)'
    BY <2>1, <2>2, <2>3, <2>5 DEF SurvivalInv, Purging, Seeing, Completing, Source, storyVars
  <2>7. Replacing(w)'
    <3>1. CASE pc[w] = "purge"
      BY <2>3, <3>1 DEF Replacing
    <3>2. CASE OwedBut(e, src)
      BY <2>1, <2>2, <2>4, <2>5, <3>2 DEF Replacing, Source
    <3>3. CASE text[w] = revision[src] /\ src \notin gone
      BY <2>1, <2>2, <2>5, <3>3 DEF Replacing, Source, storyVars
    <3> QED
      BY <2>1, <2>3, <3>1, <3>2, <3>3 DEF SurvivalInv, Replacing
  <2> QED
    BY <1>1, <1>5, <2>6, <2>7 DEF SurvivalInv
<1>11. \/ pc'[w] \in {"idle", "batch", "fail", "defer"}
       \/ \E i \in batch[w] : PassesOver(w, i) \/ FindsNothing(w, i) \/ ReadsSource(w, i)
       \/ Charges(w) \/ Sees(w) \/ Locks(w)
  BY <1>1 DEF Works, Errs, BatchEnds, ReadFails, TurnsTo, Defers, Fails, LetsGo, Breaks, Dies, Goes
<1> QED
  BY <1>6, <1>7, <1>8, <1>9, <1>10, <1>11

LEMMA ClockSurvives ==
    ASSUME OneWorker, LabelInv, SurvivalInv, Clock
    PROVE  SurvivalInv'
<1>1. /\ Types /\ Keeping
      /\ \A i \in Events : outbox[i] \in EventRows
      /\ UNCHANGED <<storyVars, chunks, pc, workVars>>
  BY ClockKeeps, TypesFacts DEF LabelInv, Clock, NewDay, Lapses, RetryDue
<1>2. \A i \in Events : outbox'[i].delivered = outbox[i].delivered
  <2>1. CASE NewDay
    BY <1>1, <2>1 DEF NewDay, EventRows
  <2>2. ASSUME NEW j \in Events, Lapses(j) \/ RetryDue(j), NEW i \in Events
        PROVE  outbox'[i].delivered = outbox[i].delivered
    <3>0. outbox \in [Events -> EventRows]
      BY <1>1, TypesFacts
    <3>1. CASE i # j
      BY <2>2, <3>0, <3>1 DEF Lapses, RetryDue
    <3>2. CASE i = j
      BY <1>1, <2>2, <3>0, <3>2 DEF Lapses, RetryDue, EventRows
    <3> QED
      BY <3>1, <3>2
  <2> QED
    BY <2>1, <2>2 DEF Clock
<1>3. Watched'
  BY <1>1, <1>2, QuietWatched DEF SurvivalInv, workVars
<1>4. ASSUME NEW v \in Workers
      PROVE  (Purging(v) /\ Replacing(v) /\ Seeing(v) /\ Completing(v))'
  <2>1. CASE pc[v] \in {"idle", "batch", "fail", "defer"}
    BY <1>1, <2>1 DEF Purging, Replacing, Seeing, Completing
  <2>2. CASE pc[v] \notin {"idle", "batch", "fail", "defer"}
    <3>1. PICK e \in Events, src \in Sources : e = event[v] /\ src = Source(e)
      <4>1. event[v] \in Events
        BY <1>1, <2>2 DEF Types, Busy
      <4> QED
        BY <1>1, <4>1 DEF Source, EventRows
    <3>2. event' = event /\ Source(e)' = src
      BY <1>1, <3>1 DEF Keeping, Extends, Source, workVars
    <3>3. OwedBut(e, src) => OwedBut(e, src)'
      BY <1>1, <1>2, QuietOwed DEF workVars
    <3>4. Right(src) => Right(src)'
      BY <1>1, RightKept
    <3> QED
      BY <1>1, <3>1, <3>2, <3>3, <3>4 DEF SurvivalInv, Purging, Replacing, Seeing, Completing, Source,
            storyVars, workVars
  <2> QED
    BY <2>1, <2>2
<1> QED
  BY <1>3, <1>4 DEF SurvivalInv

(* The author's step makes a new event, which is owed. *)
LEMMA AuthorSurvives ==
    ASSUME OneWorker, LabelInv, SurvivalInv, Author
    PROVE  SurvivalInv'
<1>1. /\ Types
      /\ \A i \in Events : outbox[i] \in EventRows
      /\ revision \in [Sources -> Nat]
      /\ \A v \in Workers : skip[v] \subseteq Events
      /\ UNCHANGED <<chunks, pc, workVars>>
  BY TypesFacts DEF LabelInv, Types, TypeOK, Author, Saves, Removes
<1>2. PICK s \in Sources, op \in {"upsert", "delete"}, rev \in Nat :
         /\ Events' = Events \cup {Len(outbox) + 1}
         /\ Len(outbox) + 1 \notin Events
         /\ outbox'[Len(outbox) + 1] = Event(s, op, rev)
         /\ \A i \in Events : outbox'[i] = outbox[i]
         /\ Extends
         /\ \/ op = "upsert" /\ Saves(s) /\ rev = revision[s] + 1
            \/ op = "delete" /\ Removes(s) /\ rev \in {revision[s], revision[s] + 1}
  BY <1>1, AuthorAdds
<1>3. PICK n : n = Len(outbox) + 1
  OBVIOUS
<1>4. /\ rev >= revision'[s]
      /\ \A t \in Sources \ {s} : revision'[t] = revision[t] /\ (t \in gone' <=> t \in gone)
  <2>1. CASE Saves(s) /\ rev = revision[s] + 1
    BY <1>1, <2>1 DEF Saves
  <2>2. CASE Removes(s) /\ rev \in {revision[s], revision[s] + 1}
    BY <1>1, <2>2 DEF Removes
  <2> QED
    BY <1>2, <2>1, <2>2
<1>5. Owed(n, s)'
  <2>1. \A v \in Workers : n \notin skip'[v]
    BY <1>1, <1>2, <1>3 DEF workVars
  <2>2. n \in Events' /\ outbox'[n].source = s /\ ~outbox'[n].delivered /\ outbox'[n].revision = rev
    BY <1>2, <1>3 DEF Event
  <2> QED
    BY <1>4, <2>1, <2>2 DEF Owed, Source
<1>6. ASSUME NEW t \in Sources, t # s, NEW i \in Events, Owed(i, t)
      PROVE  Owed(i, t)'
  BY <1>1, <1>2, <1>4, <1>6, OwedKept DEF Owed, workVars
<1>7. ASSUME NEW t \in Sources, t # s, Right(t)
      PROVE  Right(t)'
  BY <1>1, <1>4, <1>7 DEF Right
<1>8. Watched'
  <2>1. ASSUME NEW t \in Sources PROVE (Right(t) \/ \E i \in Events : Owed(i, t))'
    <3>1. CASE t = s
      BY <1>2, <1>3, <1>5, <3>1
    <3>2. CASE t # s
      BY <1>2, <1>6, <1>7, <3>2 DEF SurvivalInv, Watched
    <3> QED
      BY <3>1, <3>2
  <2> QED
    BY <2>1 DEF Watched
<1>9. ASSUME NEW v \in Workers
      PROVE  (Purging(v) /\ Replacing(v) /\ Seeing(v) /\ Completing(v))'
  <2>1. CASE pc[v] \in {"idle", "batch", "fail", "defer"}
    BY <1>1, <2>1 DEF Purging, Replacing, Seeing, Completing
  <2>2. CASE pc[v] \notin {"idle", "batch", "fail", "defer"}
    <3>1. PICK e \in Events, src \in Sources : e = event[v] /\ src = Source(e)
      <4>1. event[v] \in Events
        BY <1>1, <2>2 DEF Types, Busy
      <4> QED
        BY <1>1, <4>1 DEF Source, EventRows
    <3>2. /\ event' = event /\ Source(e)' = src
          /\ UNCHANGED <<pc, chunks, text, victims, skip>>
          /\ gone \subseteq gone'
      BY <1>1, <1>2, <3>1 DEF Source, workVars, Saves, Removes
    <3>3. Purging(v)' /\ Seeing(v)'
      BY <3>1, <3>2 DEF SurvivalInv, Purging, Seeing, Source
    <3>4. CASE src = s
      <4>1. n # e /\ n \in Events'
        BY <1>2, <1>3
      <4>2. OwedBut(e, src)'
        BY <1>5, <3>4, <4>1 DEF OwedBut
      <4> QED
        BY <3>1, <3>2, <3>3, <4>2 DEF Replacing, Completing, Source
    <3>5. CASE src # s
      <4>1. OwedBut(e, src) => OwedBut(e, src)'
        BY <1>2, <1>6, <3>5 DEF OwedBut
      <4>2. Right(src) => Right(src)'
        BY <1>7, <3>5
      <4>3. revision'[src] = revision[src] /\ (src \in gone' <=> src \in gone)
        BY <1>4, <3>5
      <4>4. Replacing(v)'
        BY <3>1, <3>2, <4>1, <4>3 DEF SurvivalInv, Replacing, Source
      <4>5. Completing(v)'
        BY <3>1, <3>2, <4>1, <4>2 DEF SurvivalInv, Completing, Source
      <4> QED
        BY <3>3, <4>4, <4>5
    <3> QED
      BY <3>4, <3>5
  <2> QED
    BY <2>1, <2>2
<1> QED
  BY <1>8, <1>9 DEF SurvivalInv

LEMMA StutterSurvives == ASSUME SurvivalInv, UNCHANGED vars PROVE SurvivalInv'
BY DEF SurvivalInv, Watched, Right, Owed, OwedBut, Purging, Replacing, Seeing, Completing, Source,
       Events, vars, storyVars, workVars

LEMMA SurvivalKept ==
    ASSUME OneWorker, LabelInv, SurvivalInv, [Next]_vars
    PROVE  SurvivalInv'
<1>1. ASSUME NEW w \in Workers, Works(w) \/ Errs(w) PROVE SurvivalInv'
  BY <1>1, ClaimsSurvives, CompletesSurvives, RewritesSurvives, QuietSurvives
<1> QED
  BY <1>1, AuthorSurvives, ClockSurvives, StutterSurvives DEF Next

LEMMA InitSurvives == ASSUME Init PROVE SurvivalInv
BY DEF Init, SurvivalInv, Watched, Right, Purging, Replacing, Seeing, Completing

(* With one worker the drained index is right: whatever fails, waits or    *)
(* dies, nothing that is still wrong is without an event to mend it.       *)
THEOREM OutboxLastResultSurvives ==
    ASSUME OneWorker
    PROVE  Spec => []LastResultSurvives
<1>1. Init => SurvivalInv
  BY InitSurvives
<1>2. OneWorker /\ LabelInv /\ SurvivalInv /\ [Next]_vars => SurvivalInv'
  BY SurvivalKept
<1>3. SurvivalInv => LastResultSurvives
  BY DEF SurvivalInv, Watched, Owed, LastResultSurvives, Settled, Right
<1> QED
  BY <1>1, <1>2, <1>3, OneWorker, OutboxLabels, PTL DEF Spec
=============================================================================
