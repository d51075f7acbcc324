------------------------------ MODULE IndexOutbox ------------------------------
(* The indexing outbox of agents/storyAgent/postgres_context.py: workers   *)
(* lease batches of events that story-data inserts with every save, and    *)
(* replace the vector chunks of the source an event names.  The clock is   *)
(* left out: a lease may lapse, a wait may pass, a day may begin.  A text  *)
(* is the revision of its source it was read at; the chunks one            *)
(* transaction inserts are one row.  `attempts`, which is written and      *)
(* never read, is left out.                                                *)
EXTENDS Naturals, Sequences, FiniteSets

CONSTANTS
    Workers,        \* one per process of the service
    Sources,        \* chapters, characters, places and plot events of one owner
    Limit,          \* events in a batch
    DayLimit,       \* indexing passes a day (MAX_INDEX_USAGE)
    Slow,           \* whether a lease may lapse while its worker is at work
    MaxEvents,      \* bound: saves and deletions
    MaxFailures,    \* bound: database and embedder errors
    MaxCrashes      \* bound: processes that die in a batch

ASSUME OutboxAssumption ==
    /\ Limit \in Nat \ {0} /\ DayLimit \in Nat \ {0} /\ Slow \in BOOLEAN
    /\ MaxEvents \in Nat /\ MaxFailures \in Nat /\ MaxCrashes \in Nat

VARIABLES
    revision,       \* of each source, its last; 0 before the first save
    gone,           \* sources that were deleted
    outbox,         \* the events, oldest first
    used,           \* passes charged today
    chunks,         \* the rows of each source
    pc,
    batch,          \* claimed events a worker has not come to yet
    skip,           \* those of its batch that are superseded
    event,          \* the one it is at
    text,           \* what it read
    victims,        \* the rows its DELETE saw
    failures,
    crashes

storyVars == <<revision, gone>>
workVars == <<batch, skip, event, text, victims>>
vars == <<storyVars, outbox, used, chunks, pc, workVars, failures, crashes>>

Nothing == 0        \* no event, no text

Events == DOMAIN outbox
Source(i) == outbox[i].source

Init ==
    /\ revision = [s \in Sources |-> 0]
    /\ gone = {}
    /\ outbox = <<>>
    /\ used = 0
    /\ chunks = [s \in Sources |-> {}]
    /\ pc = [w \in Workers |-> "idle"]
    /\ batch = [w \in Workers |-> {}]
    /\ skip = [w \in Workers |-> {}]
    /\ event = [w \in Workers |-> Nothing]
    /\ text = [w \in Workers |-> Nothing]
    /\ victims = [w \in Workers |-> {}]
    /\ failures = 0
    /\ crashes = 0

-----------------------------------------------------------------------------
(* story-data: a row of the outbox with every save and every deletion.     *)

Event(s, op, rev) ==
    [source |-> s, op |-> op, revision |-> rev,
     delivered |-> FALSE, wait |-> "none", lease |-> "none"]

Saves(s) ==
    /\ s \notin gone
    /\ Len(outbox) < MaxEvents
    /\ revision' = [revision EXCEPT ![s] = @ + 1]
    /\ outbox' = Append(outbox, Event(s, "upsert", revision[s] + 1))
    /\ UNCHANGED <<gone, used, chunks, pc, workVars, failures, crashes>>

(* Whether a deletion has a revision of its own is story-data's affair. *)
Removes(s) ==
    /\ s \notin gone
    /\ revision[s] > 0
    /\ Len(outbox) < MaxEvents
    /\ gone' = gone \cup {s}
    /\ \E rev \in {revision[s], revision[s] + 1} :
          outbox' = Append(outbox, Event(s, "delete", rev))
    /\ UNCHANGED <<revision, used, chunks, pc, workVars, failures, crashes>>

Author == \E s \in Sources : Saves(s) \/ Removes(s)

-----------------------------------------------------------------------------
(* claim *)

ClaimableUnleased(i) ==         \* mutant: a lease left by a dead worker is for ever
    ~outbox[i].delivered /\ outbox[i].wait = "none" /\ outbox[i].lease = "none"
Claimable(i) ==
    ~outbox[i].delivered /\ outbox[i].wait = "none" /\ outbox[i].lease # "held"

(* ORDER BY created_at ... LIMIT. *)
NextBatch ==
    {i \in Events : Claimable(i)
        /\ Cardinality({j \in Events : Claimable(j) /\ j < i}) < Limit}

(* _superseded: one event of a source is kept, with the highest revision;  *)
(* of equals, whichever the UPDATE returned first.                         *)
Keeps(B, K) ==
    /\ K \subseteq B
    /\ \A i \in B : \E j \in K :
          Source(j) = Source(i) /\ outbox[j].revision >= outbox[i].revision
    /\ \A i, j \in K : Source(i) = Source(j) => i = j

Claims(w) ==
    /\ pc[w] = "idle"
    /\ NextBatch # {}
    /\ batch' = [batch EXCEPT ![w] = NextBatch]
    /\ \E K \in SUBSET NextBatch :
          Keeps(NextBatch, K) /\ skip' = [skip EXCEPT ![w] = NextBatch \ K]
    /\ outbox' = [i \in Events |->
                    IF i \in NextBatch THEN [outbox[i] EXCEPT !.lease = "held"] ELSE outbox[i]]
    /\ pc' = [pc EXCEPT ![w] = "batch"]
    /\ UNCHANGED <<storyVars, used, chunks, event, text, victims, failures, crashes>>

(* The end of run_once; the loop of server.py calls it again. *)
BatchEnds(w) ==
    /\ pc[w] = "batch"
    /\ batch[w] = {}
    /\ pc' = [pc EXCEPT ![w] = "idle"]
    /\ skip' = [skip EXCEPT ![w] = {}]
    /\ UNCHANGED <<storyVars, outbox, used, chunks, batch, event, text, victims, failures, crashes>>

-----------------------------------------------------------------------------
(* run_once, the body of its loop.                                         *)

(* The worker turns to event i of its batch and goes on at pc `next`. *)
TurnsTo(w, i, next) ==
    /\ pc[w] = "batch"
    /\ i \in batch[w]
    /\ batch' = [batch EXCEPT ![w] = @ \ {i}]
    /\ event' = [event EXCEPT ![w] = i]
    /\ pc' = [pc EXCEPT ![w] = next]
    /\ UNCHANGED <<storyVars, outbox, used, chunks, skip, victims, crashes>>

PassesOver(w, i) ==
    /\ i \in skip[w]
    /\ TurnsTo(w, i, "complete")
    /\ UNCHANGED <<text, failures>>

(* A deletion, or a source that is not there any more. *)
FindsNothing(w, i) ==
    /\ i \notin skip[w]
    /\ outbox[i].op = "delete" \/ Source(i) \in gone
    /\ TurnsTo(w, i, "purge")
    /\ UNCHANGED <<text, failures>>

ReadsSource(w, i) ==
    /\ i \notin skip[w]
    /\ outbox[i].op = "upsert" /\ Source(i) \notin gone
    /\ TurnsTo(w, i, "charge")
    /\ text' = [text EXCEPT ![w] = revision[Source(i)]]
    /\ UNCHANGED failures

ReadFails(w, i) ==
    /\ i \notin skip[w]
    /\ outbox[i].op = "upsert"
    /\ failures < MaxFailures
    /\ failures' = failures + 1
    /\ TurnsTo(w, i, "fail")
    /\ UNCHANGED text

Goes(w, next) == pc' = [pc EXCEPT ![w] = next]

ChargeAnyway == TRUE            \* mutant: the upsert has no WHERE
Affordable == used < DayLimit

Charges(w) ==
    /\ pc[w] = "charge"
    /\ IF Affordable THEN used' = used + 1 /\ Goes(w, "replace")
                     ELSE Goes(w, "defer") /\ UNCHANGED used
    /\ UNCHANGED <<storyVars, outbox, chunks, workVars, failures, crashes>>

(* DELETE under READ COMMITTED: it removes the rows it saw when it         *)
(* started, once no open transaction holds them.                           *)
Sees(w) ==
    /\ pc[w] \in {"purge", "replace"}
    /\ victims' = [victims EXCEPT ![w] = chunks[Source(event[w])]]
    /\ Goes(w, IF pc[w] = "purge" THEN "purging" ELSE "replacing")
    /\ UNCHANGED <<storyVars, outbox, used, chunks, batch, skip, event, text, failures, crashes>>

Unlocked(w) ==
    \A v \in Workers \ {w} : pc[v] = "embed" => victims[v] \cap victims[w] = {}

(* The rows of the worker's source become those its DELETE did not see,    *)
(* and `new`.                                                              *)
Rewrites(w, new) ==
    chunks' = [chunks EXCEPT ![Source(event[w])] = (@ \ victims[w]) \cup new]

(* delete_chunks *)
Purges(w) ==
    /\ pc[w] = "purging"
    /\ Unlocked(w)
    /\ Rewrites(w, {})
    /\ Goes(w, "complete")
    /\ UNCHANGED <<storyVars, outbox, used, workVars, failures, crashes>>

(* replace_chunks: the transaction stays open while the chunks are         *)
(* embedded, and is labelled with the revision of the event.               *)
Locks(w) ==
    /\ pc[w] = "replacing"
    /\ Unlocked(w)
    /\ Goes(w, "embed")
    /\ UNCHANGED <<storyVars, outbox, used, chunks, workVars, failures, crashes>>

LabelOfTheDay(w) == revision[Source(event[w])]  \* mutant: looked up when it commits
Label(w) == outbox[event[w]].revision

Commits(w) ==
    /\ pc[w] = "embed"
    /\ Rewrites(w, {[label |-> Label(w), text |-> text[w], by |-> w]})
    /\ Goes(w, "complete")
    /\ UNCHANGED <<storyVars, outbox, used, workVars, failures, crashes>>

(* The worker's locals after an event. *)
Forgets(w) ==
    /\ event' = [event EXCEPT ![w] = Nothing]
    /\ text' = [text EXCEPT ![w] = Nothing]
    /\ victims' = [victims EXCEPT ![w] = {}]

(* The three ways an event is let go of. *)
LetsGo(w, delivered, wait) ==
    /\ outbox' = [outbox EXCEPT ![event[w]] =
                    [@ EXCEPT !.lease = "none", !.wait = wait,
                              !.delivered = outbox[event[w]].delivered \/ delivered]]
    /\ Goes(w, "batch")
    /\ Forgets(w)
    /\ UNCHANGED <<storyVars, used, chunks, batch, skip, failures, crashes>>

Completes(w) == pc[w] = "complete" /\ LetsGo(w, TRUE, outbox[event[w]].wait)
DefersAndCompletes(w) ==         \* mutant: no `continue` after the deferral
    pc[w] = "defer" /\ LetsGo(w, TRUE, "day")
Defers(w) == pc[w] = "defer" /\ LetsGo(w, FALSE, "day")
Fails(w) == pc[w] = "fail" /\ LetsGo(w, FALSE, "retry")

(* An await raises; an open transaction is rolled back. *)
Breaks(w) ==
    /\ pc[w] \in {"purge", "purging", "charge", "replace", "replacing", "embed", "defer", "complete"}
    /\ failures < MaxFailures
    /\ failures' = failures + 1
    /\ Goes(w, "fail")
    /\ UNCHANGED <<storyVars, outbox, used, chunks, workVars, crashes>>

(* The process dies, or `fail` itself raises: the batch is left leased. *)
Dies(w) ==
    /\ pc[w] # "idle"
    /\ crashes < MaxCrashes
    /\ crashes' = crashes + 1
    /\ Goes(w, "idle")
    /\ batch' = [batch EXCEPT ![w] = {}]
    /\ skip' = [skip EXCEPT ![w] = {}]
    /\ Forgets(w)
    /\ UNCHANGED <<storyVars, outbox, used, chunks, failures>>

Works(w) ==
    \/ Claims(w) \/ BatchEnds(w)
    \/ \E i \in batch[w] : PassesOver(w, i) \/ FindsNothing(w, i) \/ ReadsSource(w, i)
    \/ Charges(w) \/ Sees(w) \/ Purges(w) \/ Locks(w) \/ Commits(w)
    \/ Completes(w) \/ Defers(w) \/ Fails(w)

Errs(w) == Breaks(w) \/ Dies(w) \/ \E i \in batch[w] : ReadFails(w, i)

-----------------------------------------------------------------------------
(* The database's clock.                                                   *)

AtWork(w, i) == i \in batch[w] \/ i = event[w]

Lapses(i) ==
    /\ outbox[i].lease = "held"
    /\ Slow \/ \A w \in Workers : ~AtWork(w, i)
    /\ outbox' = [outbox EXCEPT ![i].lease = "lapsed"]
    /\ UNCHANGED <<storyVars, used, chunks, pc, workVars, failures, crashes>>

RetryDue(i) ==
    /\ outbox[i].wait = "retry"
    /\ outbox' = [outbox EXCEPT ![i].wait = "none"]
    /\ UNCHANGED <<storyVars, used, chunks, pc, workVars, failures, crashes>>

NewDay ==
    /\ used > 0 \/ \E i \in Events : outbox[i].wait = "day"
    /\ used' = 0
    /\ outbox' = [i \in Events |->
                    [outbox[i] EXCEPT !.wait = IF @ = "day" THEN "none" ELSE @]]
    /\ UNCHANGED <<storyVars, chunks, pc, workVars, failures, crashes>>

Clock == NewDay \/ \E i \in Events : Lapses(i) \/ RetryDue(i)

Next == Author \/ Clock \/ \E w \in Workers : Works(w) \/ Errs(w)

Spec == Init /\ [][Next]_vars

(* Awaits return or raise, and the clock goes on.  Nothing is assumed of   *)
(* the author; errors and crashes are finitely many.                       *)
FairSpec ==
    /\ Spec
    /\ \A w \in Workers : WF_vars(Works(w))
    /\ WF_vars(NewDay)
    /\ WF_vars(\E i \in Events : Lapses(i) \/ RetryDue(i))
-----------------------------------------------------------------------------
(* Properties.                                                             *)

Rows == [label : Nat, text : Nat, by : Workers]
EventRows ==
    [source : Sources, op : {"upsert", "delete"}, revision : Nat, delivered : BOOLEAN,
     wait : {"none", "retry", "day"}, lease : {"none", "held", "lapsed"}]
Places == {"idle", "batch", "purge", "purging", "charge", "replace", "replacing", "embed",
           "complete", "defer", "fail"}

(* Every variable stays within its type; the day's passes stay within the  *)
(* budget however many workers charge them.                                *)
TypeOK ==
    /\ revision \in [Sources -> Nat]
    /\ gone \subseteq Sources
    /\ outbox \in Seq(EventRows)
    /\ used \in 0 .. DayLimit
    /\ chunks \in [Sources -> SUBSET Rows]
    /\ pc \in [Workers -> Places]
    /\ batch \in [Workers -> SUBSET Events]
    /\ skip \in [Workers -> SUBSET Events]
    /\ event \in [Workers -> {Nothing} \cup Events]
    /\ text \in [Workers -> Nat]
    /\ victims \in [Workers -> SUBSET Rows]
    /\ failures \in Nat /\ crashes \in Nat

(* executors._stale_chunk: what a search says of a row.  The comparison of *)
(* timestamps that follows in the code can only flag more.                 *)
Stale(s, row) == s \in gone \/ row.label # revision[s]

(* A search never passes off old text as current: a hit not flagged stale  *)
(* has the text of the source as it is, whatever workers raced, lapsed,    *)
(* failed or died.                                                         *)
UnflaggedIsCurrent ==
    \A s \in Sources : \A row \in chunks[s] :
        ~Stale(s, row) => row.text = revision[s]

(* Every event is delivered and no worker is at one. *)
Settled ==
    /\ \A i \in Events : outbox[i].delivered
    /\ \A w \in Workers : pc[w] \in {"idle", "batch"}

(* "for only the last result to survive": once the outbox is drained the   *)
(* index holds the last text of every source, once, and nothing is left    *)
(* behind of content the author removed, whatever was superseded, deferred,*)
(* retried or interrupted by a crash.  One worker keeps this; two do not.  *)
LastResultSurvives ==
    Settled => \A s \in Sources :
        IF s \in gone \/ revision[s] = 0 THEN chunks[s] = {}
        ELSE \E row \in chunks[s] : chunks[s] = {row} /\ row.text = revision[s]

(* The outbox drains: leases of the dead lapse, retries come due, deferred *)
(* events have their day.                                                  *)
Drains == []<>(\A i \in Events : outbox[i].delivered)
=============================================================================
