--------------------------- MODULE EntityProposals ---------------------------
(***************************************************************************)
(* A proposal to change the story's characters, plot lines and events:     *)
(* src/assistant/entity_changes.py.  The model writes what should change   *)
(* and names rows as it likes, by id or by name.  The server binds every   *)
(* change to a row and to the revision the row had when its roster was     *)
(* read; the writer's browser applies an approved proposal change by       *)
(* change, each under If-Match, and stops at the first that fails.         *)
(*                                                                         *)
(* Rows live in story-data and the browser is another program: both are    *)
(* outside src/.  A row's collection is read once per proposal, at the     *)
(* first change that needs it; the writer may work between two reads, and  *)
(* until the proposal is applied.                                          *)
(***************************************************************************)
EXTENDS Integers, Sequences, FiniteSets, SequencesExt

CONSTANTS
    Story,          \* the rows the story may start with, a set of sets
    Drafts,         \* model bound: the proposals the model may write
    NewIds,         \* model bound: ids of rows the proposals may create
    Names,
    MaxProposals,   \* model bound
    MaxEntityEdits  \* model bound: edits of the writer

NoId == "-"

\* A row is [id, kind, line, name, revision], its id its own; an event's line
\* is its plot line.  Chapters are rows a proposal may name, and not change.  A
\* change is [op, kind, line, ref, name, who, chapter]: ref is the row it
\* updates, name the new name; an event may take part of a character and a
\* chapter.

EntityKinds == {"character", "plot", "event"}

ASSUME EntitiesAssumption ==
    /\ IsFiniteSet(NewIds)
    /\ \A start \in Story : \A row, other \in start :
          /\ row.revision \in Nat \ {0} /\ row.id \notin NewIds
          /\ row.id = other.id => row = other
    /\ Drafts \subseteq Seq([op : {"create", "update"}, kind : EntityKinds, line : STRING,
                            ref : STRING, name : STRING, who : STRING, chapter : STRING])
          \ {<<>>}

VARIABLES
    rows,           \* the story's rows, in story-data
    proposal,       \* [at, draft, seen, changes, results]
    meddled,        \* History: rows the writer changed since they were read
    proposals,      \* proposals so far
    entityEdits     \* edits of the writer so far

entityVars == <<rows, proposal, meddled, proposals, entityEdits>>

NoProposal == [at |-> "none", draft |-> <<>>, seen |-> <<>>,
               changes |-> <<>>, results |-> <<>>]

EntitiesInit ==
    /\ rows \in Story
    /\ proposal = NoProposal
    /\ meddled = {}
    /\ proposals = 0 /\ entityEdits = 0

-----------------------------------------------------------------------------
(* Binding.                                                                *)

\* A plot line's events come with it.
Collection(kind) == CASE kind = "character" -> "characters"
                      [] kind = "chapter"   -> "chapters"
                      [] OTHER              -> "plots"

Holding(collection) == {row \in rows : Collection(row.kind) = collection}

Needs(change) ==
    {Collection(change.kind)}
      \union (IF change.who = NoId THEN {} ELSE {"characters"})
      \union (IF change.chapter = NoId THEN {} ELSE {"chapters"})

Is(kind, known) == {row \in known : row.kind = kind}

\* An exact id, else a name.
Find(known, ref) ==
    LET byId == {row \in known : row.id = ref}
    IN IF byId # {} THEN byId ELSE {row \in known : row.name = ref}

\* No row where there is none; a reference two rows answer to is refused.
Ambiguous(known, ref) == Cardinality(Find(known, ref)) > 1
The(known, ref) == CHOOSE row \in Find(known, ref) : TRUE
Nowhere(known, ref) == Find(known, ref) = {}

\* _bind_change for an event: the plot line by its reference or, when that
\* names none, as the one the only event so called belongs to.
LineOf(change, known) ==
    LET lines == Is("plot", known)
        found == Find(Is("event", known), change.ref)
    IN IF ~Nowhere(lines, change.line) THEN The(lines, change.line).id
       ELSE IF change.op = "update" /\ Cardinality(found) = 1
       THEN (CHOOSE row \in found : TRUE).line
       ELSE NoId

\* The rows a change's own reference or name is looked up among.
Scope(change, known) ==
    IF change.kind = "event"
    THEN {row \in Is("event", known) : row.line = LineOf(change, known)}
    ELSE Is(change.kind, known)

Taken(change, known) == \E row \in Scope(change, known) : row.name = change.name

\* A character is named by its id; a chapter by its id or its title.
ReferencesHold(change, known) ==
    /\ change.who # NoId => \E row \in Is("character", known) : row.id = change.who
    /\ change.chapter # NoId => Cardinality(Find(Is("chapter", known), change.chapter)) = 1

Bindable(change, known) ==
    /\ ReferencesHold(change, known)
    /\ change.kind = "event" =>
          /\ ~Ambiguous(Is("plot", known), change.line)
          /\ LineOf(change, known) # NoId
    /\ IF change.op = "create" THEN ~Taken(change, known)
       ELSE Cardinality(Find(Scope(change, known), change.ref)) = 1

\* A bound change names one row and its revision, whatever the draft called it.
Bound(change, known) ==
    LET line == IF change.kind = "event" THEN LineOf(change, known) ELSE NoId
        row  == The(Scope(change, known), change.ref)
    IN [op |-> change.op, kind |-> change.kind, line |-> line, name |-> change.name,
        who |-> change.who, chapter |-> change.chapter,
        ref |-> IF change.op = "create" THEN NoId ELSE row.id,
        base |-> IF change.op = "create" THEN 0 ELSE row.revision]

\* Mutant: two updates of one row are let through.
CollideCreated(one, other) ==
    /\ one.op = "create" /\ other.op = "create" /\ one.kind = other.kind
    /\ one.line = other.line /\ one.name = other.name

\* Two changes the browser could not apply one after the other, or should not.
Collide(one, other) ==
    /\ one.op = other.op /\ one.kind = other.kind
    /\ IF one.op = "create" THEN one.line = other.line /\ one.name = other.name
       ELSE one.ref = other.ref

Distinct(changes) ==
    \A i, j \in DOMAIN changes : Collide(changes[i], changes[j]) => i = j

Binding == proposal.at = "binding"
Current == proposal.draft[Len(proposal.changes) + 1]

Proposes ==
    \E draft \in Drafts :
       /\ proposal.at = "none" /\ proposals < MaxProposals
       /\ Len(draft) <= Cardinality(NewIds \ {row.id : row \in rows})
       /\ proposal' = [NoProposal EXCEPT !.at = "binding", !.draft = draft]
       /\ proposals' = proposals + 1
       /\ meddled' = {}
       /\ UNCHANGED <<rows, entityEdits>>

\* A roster the change needs and no earlier change has fetched.
ReadsRoster ==
    /\ Binding
    /\ \E collection \in Needs(Current) \ DOMAIN proposal.seen :
          /\ proposal' = [proposal EXCEPT !.seen =
                            [c \in DOMAIN proposal.seen \union {collection} |->
                               IF c = collection THEN Holding(c) ELSE proposal.seen[c]]]
          /\ meddled' = meddled \ {row.id : row \in Holding(collection)}
    /\ UNCHANGED <<rows, proposals, entityEdits>>

\* The rest runs without an await.  What cannot be bound goes back to the model.
BindsChange ==
    /\ Binding
    /\ Needs(Current) \subseteq DOMAIN proposal.seen
    /\ LET known == UNION {proposal.seen[collection] : collection \in Needs(Current)}
           changes == Append(proposal.changes, Bound(Current, known))
       IN proposal' = IF ~Bindable(Current, known) THEN NoProposal
                      ELSE IF Len(changes) < Len(proposal.draft)
                      THEN [proposal EXCEPT !.changes = changes]
                      ELSE IF Distinct(changes)
                      THEN [proposal EXCEPT !.at = "shown", !.changes = changes]
                      ELSE NoProposal
    /\ UNCHANGED <<rows, meddled, proposals, entityEdits>>

-----------------------------------------------------------------------------
(* Applying, in the browser.                                               *)

Renamed(row, name) ==
    [id |-> row.id, kind |-> row.kind, line |-> row.line, revision |-> row.revision + 1,
     name |-> IF name = NoId THEN row.name ELSE name]

Succeeds(change) ==
    change.op = "create" \/ \E row \in rows : row.id = change.ref /\ row.revision = change.base

NewId == CHOOSE id \in NewIds : \A row \in rows : row.id # id

RowsAfter(change) ==
    IF change.op = "create"
    THEN rows \union {[id |-> NewId, kind |-> change.kind, line |-> change.line,
                       name |-> change.name, revision |-> 1]}
    ELSE {IF row.id = change.ref THEN Renamed(row, change.name) ELSE row : row \in rows}

(* The proposal with the verdicts on its changes so far.                    *)
Reported(at, results) ==
    [at |-> at, draft |-> proposal.draft, seen |-> proposal.seen,
     changes |-> proposal.changes, results |-> results]

Applies ==
    /\ proposal.at = "shown"
    /\ LET n == Len(proposal.results) + 1
           last == Len(proposal.changes)
           change == proposal.changes[n]
       IN IF Succeeds(change)
          THEN /\ rows' = RowsAfter(change)
               /\ proposal' = Reported(IF n = last THEN "settled" ELSE "shown",
                                       Append(proposal.results, "applied"))
          ELSE /\ proposal' = Reported("settled",
                                       (proposal.results \o <<"stale">>) \o
                                       [i \in 1 .. last - n |-> "skipped"])
               /\ UNCHANGED rows
    /\ UNCHANGED <<meddled, proposals, entityEdits>>

\* validate_entity_continuation: every change is accounted for, in order, and
\* the decision says whether all were applied.
Accepted(decision) ==
    IF decision \in {"applied", "apply_failed"}
    THEN /\ Len(proposal.results) = Len(proposal.changes)
         /\ (decision = "applied") = (\A i \in DOMAIN proposal.results :
                                        proposal.results[i] = "applied")
    ELSE proposal.results = <<>>

\* The writer's decision reaches the server, which replies and keeps nothing.
Decides ==
    /\ proposal.at \in {"shown", "settled"}
    /\ \E decision \in {"applied", "apply_failed", "rejected", "revision_requested"} :
          Accepted(decision)
    /\ proposal' = NoProposal
    /\ UNCHANGED <<rows, meddled, proposals, entityEdits>>

-----------------------------------------------------------------------------
(* The writer works on the same rows.                                      *)

EditsRow ==
    /\ entityEdits < MaxEntityEdits
    /\ \E row \in rows :
          /\ \E name \in Names :
                rows' = (rows \ {row}) \union {Renamed(row, name)}
          /\ meddled' = meddled \union {row.id}
    /\ entityEdits' = entityEdits + 1
    /\ UNCHANGED <<proposal, proposals>>

\* A plot line goes with its events.  (What a proposal created is not deleted
\* here: its id would be used again.)
DeletesRow ==
    /\ entityEdits < MaxEntityEdits
    /\ \E row \in {r \in rows : r.id \notin NewIds} :
          LET gone == {r \in rows : row.id \in {r.id, r.line}}
          IN /\ gone \intersect {r \in rows : r.id \in NewIds} = {}
             /\ rows' = rows \ gone
             /\ meddled' = meddled \union {r.id : r \in gone}
    /\ entityEdits' = entityEdits + 1
    /\ UNCHANGED <<proposal, proposals>>

EntityStep == Proposes \/ ReadsRoster \/ BindsChange \/ Applies \/ Decides
EntityWriter == EditsRow \/ DeletesRow

-----------------------------------------------------------------------------
\* A change of an approved proposal is stale only if the writer has changed
\* that row since it was read, never because of another change of the same
\* proposal (entity_changes.py:300-318); and a proposal does not create two
\* rows a name cannot tell apart.
ProposalsStandAlone ==
    /\ \A i \in DOMAIN proposal.results :
          proposal.results[i] = "stale" => proposal.changes[i].ref \in meddled
    /\ \A row, other \in rows :
          /\ row.id \in NewIds /\ other.id \in NewIds
          /\ row.revision = 1 /\ other.revision = 1
          /\ row.kind = other.kind /\ row.line = other.line /\ row.name = other.name
          => row = other
=============================================================================
