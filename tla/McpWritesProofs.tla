---------------------------- MODULE McpWritesProofs ----------------------------
(***************************************************************************)
(* Proofs about McpWrites, for every value of its constants.               *)
(*                                                                         *)
(* Edits: an edit that is about to be sent, or is on the wire, was         *)
(* computed from the text of the revision it names.                        *)
(* Reservation: until a call of its key outlives its reservation, a call   *)
(* that works on its write owns the document of its key.                   *)
(* Chapters: a call that has made a chapter never sends another request.   *)
(* Results: what a document says is true of the call that wrote it, and    *)
(* stays true; a reported result is remembered for the TTL of its call.    *)
(* Types: the position loop is bounded, and there is a next position.      *)
(***************************************************************************)
EXTENDS McpWrites, TLAPS, WellFoundedInduction

-----------------------------------------------------------------------------
(* Edits.                                                                  *)

EditTypes ==
    /\ revision \in Nat
    /\ pc \in [Calls -> Active \cup {"idle", "end"}]
    /\ wire \in [Calls -> {"none", "sent", "applied", "conflict", "refused"}]
    /\ DOMAIN draft = Calls

(* An edit whose text is computed and not yet dealt with by the service. *)
Pending(c) == Tool(c) = "edit" /\ (pc[c] = "post" \/ wire[c] = "sent")

EditInv ==
    /\ EditTypes
    /\ NoLostUpdate
    /\ \A c \in Calls : Pending(c) =>
          /\ revision >= Base[KeyOf[c]]
          /\ revision = Base[KeyOf[c]] => draft[c] = text
    /\ \A c \in Calls : Tool(c) = "edit" /\ wire[c] = "applied" => revision > Base[KeyOf[c]]
    /\ OneEditPerRevision

LEMMA BaseIsNat ==
    ASSUME NEW c \in Calls
    PROVE  Base[KeyOf[c]] \in Nat /\ Tool(c) \in {"create_story", "create_chapter", "edit"}
BY WritesAssumption, ReservationAssumption DEF Tool

LEMMA EditInit == Init => EditInv
BY DEF Init, ReservationInit, EditInv, EditTypes, NoLostUpdate, OneEditPerRevision, Pending

(* A step of the reservation moves calls, and none of them to "post" but   *)
(* a story's.                                                              *)
LEMMA EditReserves ==
    ASSUME NEW c \in Calls, EditInv, Reserves(c) \/ Leaves(c)
    PROVE  EditInv'
<1>1. /\ UNCHANGED <<storyVars, wire, draft>>
      /\ \E next \in Active \cup {"idle", "end"} :
            pc' = [pc EXCEPT ![c] = next] /\ (Tool(c) = "edit" => next # "post")
  BY DEF Reserves, Leaves, Arrives, ClaimCreates, ClaimExists, ClaimReads, ClaimTakesOver,
     ClaimLosesTakeOver, ClaimReplays, ClaimRefused, ClaimVacant, Records, Releases, Dies, Win,
     Goto, Start, Active, Claiming, Working
<1> QED
  BY <1>1 DEF EditInv, EditTypes, NoLostUpdate, OneEditPerRevision, Pending, Tool, storyVars

LEMMA EditWorks ==
    ASSUME NEW c \in Calls, EditInv, Works(c)
    PROVE  EditInv'
<1> USE DEF Moves, Goto
<1>1. CASE ReadsChapter(c)
  <2>1. /\ UNCHANGED <<storyVars, wire>> /\ revision = Base[KeyOf[c]]
        /\ pc' = [pc EXCEPT ![c] = "post"] /\ draft' = [draft EXCEPT ![c] = text]
    BY <1>1 DEF ReadsChapter
  <2> QED
    BY <2>1, BaseIsNat DEF EditInv, EditTypes, NoLostUpdate, OneEditPerRevision, Pending, Tool,
       storyVars, Active, Working
<1>2. CASE Sends(c)
  <2>1. /\ UNCHANGED <<storyVars, draft>> /\ pc[c] = "post"
        /\ pc' = [pc EXCEPT ![c] = "wait"] /\ wire' = [wire EXCEPT ![c] = "sent"]
    BY <1>2 DEF Sends
  <2> QED
    BY <2>1 DEF EditInv, EditTypes, NoLostUpdate, OneEditPerRevision, Pending, Tool, storyVars,
       Active, Working
<1>3. CASE ListsChapters(c) \/ LookFails(c) \/ NoAnswer(c) \/ Answered(c)
  <2>1. /\ UNCHANGED <<storyVars, draft>>
        /\ wire' = wire \/ (Tool(c) = "create_chapter" /\ wire' = [wire EXCEPT ![c] = "none"])
        /\ \E next \in Active :
              pc' = [pc EXCEPT ![c] = next] /\ (Tool(c) = "edit" => next # "post")
    BY <1>3 DEF ListsChapters, LookFails, NoAnswer, Answered, Active, Working, Closing
  <2> QED
    BY <2>1 DEF EditInv, EditTypes, NoLostUpdate, OneEditPerRevision, Pending, Tool, storyVars
<1> QED
  BY <1>1, <1>2, <1>3 DEF Works

LEMMA EditApplies ==
    ASSUME NEW c \in Calls, EditInv, Applies(c)
    PROVE  EditInv'
<1>1. wire[c] = "sent" /\ UNCHANGED <<pc, draft>>
  BY DEF Applies, reservationVars
<1>2. CASE UNCHANGED <<revision, text, written>> /\ ~(Tool(c) = "edit" /\ wire'[c] = "applied")
  <2>1. \E w \in {"applied", "conflict"} :
            wire' = [wire EXCEPT ![c] = w] /\ (Tool(c) = "edit" => w = "conflict")
    BY <1>2 DEF Applies, EditInv, EditTypes
  <2> QED
    BY <1>1, <1>2, <2>1 DEF EditInv, EditTypes, NoLostUpdate, OneEditPerRevision, Pending, Tool
<1>3. CASE /\ Tool(c) = "edit" /\ IfMatch(c) /\ revision' = revision + 1
           /\ wire' = [wire EXCEPT ![c] = "applied"]
           /\ text' = draft[c] \cup {<<c, revision>>} /\ written' = written \cup {<<c, revision>>}
  <2>1. draft[c] = text /\ revision = Base[KeyOf[c]]
    BY <1>1, <1>3 DEF EditInv, Pending, IfMatch
  <2>2. NoLostUpdate' /\ EditTypes'
    BY <1>1, <1>3, <2>1 DEF EditInv, EditTypes, NoLostUpdate
  <2>3. ASSUME NEW d \in Calls, Pending(d)'
        PROVE  revision' >= Base[KeyOf[d]] /\ revision' # Base[KeyOf[d]]
    <3>1. Pending(d)
      BY <1>1, <1>3, <2>3 DEF Pending, Tool, EditInv, EditTypes
    <3>2. revision >= Base[KeyOf[d]]
      BY <3>1 DEF EditInv
    <3> QED
      BY <1>3, <3>2, BaseIsNat DEF EditInv, EditTypes
  <2>4. ASSUME NEW d \in Calls, Tool(d)' = "edit", wire'[d] = "applied"
        PROVE  revision' > Base[KeyOf[d]]
    BY <1>3, <2>1, <2>4, BaseIsNat DEF EditInv, EditTypes, Tool
  <2>5. OneEditPerRevision'
    <3>1. ASSUME NEW d \in Calls, d # c, Tool(d) = "edit", wire[d] = "applied"
          PROVE  Base[KeyOf[d]] # Base[KeyOf[c]]
      BY <2>1, <3>1, BaseIsNat DEF EditInv, EditTypes
    <3> QED
      BY <1>3, <3>1 DEF EditInv, EditTypes, OneEditPerRevision, Tool
  <2> QED
    BY <2>2, <2>3, <2>4, <2>5 DEF EditInv
<1> QED
  BY <1>2, <1>3, BaseIsNat DEF Applies, EditInv, EditTypes

LEMMA EditNext == EditInv /\ [Next]_vars => EditInv'
<1> SUFFICES ASSUME EditInv, [Next]_vars PROVE EditInv'
  OBVIOUS
<1>1. ASSUME NEW c \in Calls, Refuses(c)
      PROVE  EditInv'
  <2>1. UNCHANGED <<pc, storyVars, draft>> /\ wire' = [wire EXCEPT ![c] = "refused"]
    BY <1>1 DEF Refuses, reservationVars
  <2> QED
    BY <2>1 DEF EditInv, EditTypes, NoLostUpdate, OneEditPerRevision, Pending, Tool, storyVars
<1>2. CASE Editor
  <2>1. UNCHANGED <<pc, wire, draft>>
    BY <1>2 DEF Editor, reservationVars
  <2>2. CASE EditorWrites
    <3>1. EditTypes' /\ NoLostUpdate' /\ OneEditPerRevision'
      BY <2>1, <2>2 DEF EditorWrites, EditInv, EditTypes, NoLostUpdate, OneEditPerRevision, Tool
    <3>2. ASSUME NEW d \in Calls, Pending(d)
          PROVE  revision' >= Base[KeyOf[d]] /\ revision' # Base[KeyOf[d]]
      BY <2>2, <3>2, BaseIsNat DEF EditorWrites, EditInv, EditTypes
    <3>3. ASSUME NEW d \in Calls, Tool(d) = "edit", wire[d] = "applied"
          PROVE  revision' > Base[KeyOf[d]]
      BY <2>2, <3>3, BaseIsNat DEF EditorWrites, EditInv, EditTypes
    <3> QED
      BY <2>1, <3>1, <3>2, <3>3 DEF EditInv, Pending, Tool
  <2>3. CASE EditorAddsChapter \/ EditorDeletesChapter
    BY <2>1, <2>3 DEF EditorAddsChapter, EditorDeletesChapter, EditInv, EditTypes, NoLostUpdate,
       OneEditPerRevision, Pending, Tool
  <2> QED
    BY <1>2, <2>2, <2>3 DEF Editor
<1>3. CASE Clock \/ UNCHANGED vars
  <2>1. UNCHANGED <<pc, revision, text, written, wire, draft>>
    BY <1>3 DEF Clock, Tick, Collects, vars, reservationVars, storyVars
  <2> QED
    BY <2>1 DEF EditInv, EditTypes, NoLostUpdate, OneEditPerRevision, Pending, Tool
<1> QED
  BY <1>1, <1>2, <1>3, EditReserves, EditWorks, EditApplies DEF Next

(* No interleaving of calls, repeats, late requests and editor saves drops *)
(* a write from the chapter.                                               *)
THEOREM WritesLoseNoUpdate == Spec => []NoLostUpdate
<1>1. EditInv => NoLostUpdate
  BY DEF EditInv
<1> QED
  BY <1>1, EditInit, EditNext, PTL DEF Spec

(* An edit is applied at most once, whatever becomes of its reservation.   *)
THEOREM WritesEditOnce == Spec => []OneEditPerRevision
<1>1. EditInv => OneEditPerRevision
  BY DEF EditInv
<1> QED
  BY <1>1, EditInit, EditNext, PTL DEF Spec

-----------------------------------------------------------------------------
(* The reservation.                                                        *)

(* A document, or a copy of one, was written by a call that has begun; a   *)
(* claim expires a TTL after its call began.                               *)
Genuine(d) ==
    /\ d.write \in Calls \X {"claim", "record"}
    /\ pc[d.write[1]] # "idle"
    /\ d.write[2] = "claim" => d.expires = began[d.write[1]] + TTL

(* The document of its key is the call's own. *)
Owns(c) == KeyOf[c] \in DOMAIN docs /\ docs[KeyOf[c]] = Reservation(c)

(* A call past its claim owns its document, and so it does not lose its    *)
(* expiresAt, as long as no call of the key has outlived its reservation:  *)
(* until a TTL after it began nobody collects it or takes it over.         *)
LeaseInv ==
    /\ ReservationTypeOK
    /\ \A c \in Calls : pc[c] \in Active => c \in overran \/ now < began[c] + TTL
    /\ \A k \in DOMAIN docs : Genuine(docs[k])
    /\ \A c \in Calls : pc[c] = "decide" => seen[c] \in Docs /\ Genuine(seen[c])
    /\ \A c \in Calls : Holds(c) => Overrun(KeyOf[c]) \/ Owns(c)
    /\ OnlyOverrunsStay

(* What the steps of McpWrites do to the reservation. *)
Shifts(c) == pc[c] \in Working /\ \E next \in Working \cup Closing : Moves(c, next)

LEMMA ReservationStep ==
    ASSUME [Next]_vars
    PROVE  \/ \E c \in Calls :
                \/ Arrives(c) \/ ClaimCreates(c, Start(c)) \/ ClaimExists(c) \/ ClaimReads(c)
                \/ ClaimTakesOver(c, Start(c)) \/ ClaimLosesTakeOver(c) \/ ClaimReplays(c)
                \/ ClaimRefused(c) \/ ClaimVacant(c, Start(c))
                \/ Records(c) \/ Releases(c) \/ Dies(c) \/ Shifts(c)
           \/ \E k \in Keys : Collects(k)
           \/ Tick
           \/ UNCHANGED reservationVars
<1>1. ASSUME NEW c \in Calls, Works(c)
      PROVE  Shifts(c)
  BY <1>1 DEF Works, ListsChapters, ReadsChapter, LookFails, Sends, Answered, NoAnswer, Shifts,
     Working, Closing
<1>2. ASSUME NEW c \in Calls, Applies(c) \/ Refuses(c)
      PROVE  UNCHANGED reservationVars
  BY <1>2 DEF Applies, Refuses
<1>3. Editor \/ UNCHANGED vars => UNCHANGED reservationVars
  BY DEF Editor, vars
<1> QED
  BY <1>1, <1>2, <1>3 DEF Next, Reserves, Leaves, Clock

LEMMA LeaseInit == Init => LeaseInv
BY ReservationAssumption
DEF Init, ReservationInit, NoDocs, LeaseInv, ReservationTypeOK, Holds, OnlyOverrunsStay, Active,
    Claiming, Working, Closing

(* Two calls that own the document of one key are the same call. *)
LEMMA OneOwner ==
    ASSUME NEW c \in Calls, NEW d \in Calls, KeyOf[c] = KeyOf[d], Owns(c), Owns(d)
    PROVE  c = d
<1>1. Reservation(c).write = Reservation(d).write
  BY DEF Owns
<1> QED
  BY <1>1 DEF Reservation

(* A claim: the document becomes the call's own, and nobody held it but    *)
(* after an overrun; the call goes on to write, or never learns of it.     *)
LEMMA ClaimKeeps ==
    ASSUME NEW c \in Calls, NEW next \in {"look", "post", "end"}, LeaseInv,
           pc[c] \in Claiming, Put(KeyOf[c], Reservation(c)), Goto(c, next),
           won' \in [Calls -> 0 .. MaxTime \cup {Never}],
           UNCHANGED <<now, began, seen, told, overran>>,
           \A d \in Calls : Holds(d) /\ KeyOf[d] = KeyOf[c] => Overrun(KeyOf[c])
    PROVE  LeaseInv'
<1> USE ReservationAssumption
<1>1. Reservation(c) \in Docs /\ Reservation(c)' = Reservation(c)
  BY DEF LeaseInv, ReservationTypeOK, Reservation, Docs
<1>2. pc' = [pc EXCEPT ![c] = next] /\ KeyOf[c] \in Keys
  BY DEF Goto
<1>3. /\ DOMAIN docs' = DOMAIN docs \cup {KeyOf[c]} /\ docs'[KeyOf[c]] = Reservation(c)
      /\ \A k \in DOMAIN docs : k # KeyOf[c] => docs'[k] = docs[k]
  BY DEF Put, Stored
<1>4. ReservationTypeOK'
  BY <1>1, <1>2, <1>3 DEF LeaseInv, ReservationTypeOK, Active, Working
<1>5. \A d \in Calls : pc'[d] \in Active => pc[d] \in Active
  BY <1>2 DEF LeaseInv, ReservationTypeOK, Active
<1>6. \A d : Genuine(d) => Genuine(d)'
  BY <1>2 DEF Genuine, LeaseInv, ReservationTypeOK
<1>7. Genuine(Reservation(c))'
  BY <1>2 DEF Genuine, Reservation, LeaseInv, ReservationTypeOK
<1>8. \A k : Overrun(k)' = Overrun(k)
  BY DEF Overrun
<1>9. \A k \in DOMAIN docs' : Genuine(docs[k])' /\ (docs'[k].expires = Never => Overrun(k)')
  <2>1. Reservation(c).expires # Never
    BY DEF Reservation, Never, LeaseInv, ReservationTypeOK
  <2> TAKE k \in DOMAIN docs'
  <2>2. CASE k = KeyOf[c]
    BY <1>1, <1>3, <1>7, <2>1, <2>2 DEF Genuine
  <2>3. CASE k # KeyOf[c]
    BY <1>3, <1>6, <1>8, <2>3 DEF Genuine, LeaseInv, OnlyOverrunsStay
  <2> QED
    BY <2>2, <2>3
<1>10. \A d \in Calls : Holds(d)' => Overrun(KeyOf[d])' \/ Owns(d)'
  <2> SUFFICES ASSUME NEW d \in Calls, Holds(d)', ~Overrun(KeyOf[d])' PROVE Owns(d)'
    OBVIOUS
  <2>1. CASE d = c
    BY <1>1, <1>3, <2>1 DEF Owns
  <2>2. CASE d # c
    <3>1. Holds(d) /\ ~Overrun(KeyOf[d])
      BY <1>2, <1>8, <2>2 DEF Holds, LeaseInv, ReservationTypeOK
    <3>2. Owns(d) /\ KeyOf[d] # KeyOf[c]
      BY <3>1 DEF LeaseInv
    <3> QED
      BY <1>3, <3>2 DEF Owns, Reservation
  <2> QED
    BY <2>1, <2>2
<1>11. \A d \in Calls : pc'[d] = "decide" => seen'[d] \in Docs /\ Genuine(seen[d])'
  BY <1>2, <1>6 DEF LeaseInv, ReservationTypeOK, Genuine
<1>12. \A d \in Calls : pc'[d] \in Active => d \in overran' \/ now' < began'[d] + TTL
  BY <1>5 DEF LeaseInv
<1> QED
  BY <1>4, <1>9, <1>10, <1>11, <1>12 DEF LeaseInv, OnlyOverrunsStay

(* A call moves on without touching any document. *)
LEMMA MoveKeeps ==
    ASSUME NEW c \in Calls, NEW next \in Active \cup {"end"}, LeaseInv,
           pc[c] \in Active, Goto(c, next), UNCHANGED <<now, docs, began, overran>>,
           told' \in [Calls -> Calls \cup {NoCall}],
           won' \in [Calls -> 0 .. MaxTime \cup {Never}],
           \/ UNCHANGED seen /\ next # "decide"
           \/ /\ next = "decide" /\ KeyOf[c] \in DOMAIN docs
              /\ seen' = [seen EXCEPT ![c] = docs[KeyOf[c]]],
           next \in Working \cup Closing => Holds(c)
    PROVE  LeaseInv'
<1>1. pc' = [pc EXCEPT ![c] = next]
  BY DEF Goto
<1>2. ReservationTypeOK'
  BY <1>1, ReservationAssumption DEF LeaseInv, ReservationTypeOK
<1>3. \A d : Genuine(d) => Genuine(d)'
  BY <1>1 DEF Genuine, LeaseInv, ReservationTypeOK, Active, Claiming, Working, Closing
<1>4. \A d \in Calls : pc'[d] = "decide" => seen'[d] \in Docs /\ Genuine(seen'[d])
  BY <1>1 DEF LeaseInv, ReservationTypeOK
<1>5. \A d \in Calls : pc'[d] = "decide" => seen'[d] \in Docs /\ Genuine(seen[d])'
  BY <1>1, <1>4 DEF Genuine, LeaseInv, ReservationTypeOK, Active, Claiming, Working, Closing
<1>6. \A d \in Calls : Holds(d)' => Overrun(KeyOf[d])' \/ Owns(d)'
  BY <1>1 DEF Holds, Owns, Overrun, Reservation, LeaseInv, ReservationTypeOK
<1>7. \A d \in Calls : pc'[d] \in Active => d \in overran' \/ now' < began'[d] + TTL
  BY <1>1 DEF LeaseInv, ReservationTypeOK
<1>8. \A k \in DOMAIN docs' : Genuine(docs[k])'
  BY <1>3 DEF Genuine, LeaseInv
<1> QED
  BY <1>2, <1>5, <1>6, <1>7, <1>8 DEF LeaseInv, OnlyOverrunsStay, Overrun

LEMMA ArrivesKeeps ==
    ASSUME NEW c \in Calls, LeaseInv, Arrives(c)
    PROVE  LeaseInv'
<1>1. /\ pc' = [pc EXCEPT ![c] = "create"] /\ began' = [began EXCEPT ![c] = now]
      /\ pc[c] = "idle" /\ UNCHANGED <<now, docs, seen, told, won, overran>>
  BY DEF Arrives, Goto
<1>2. ReservationTypeOK'
  BY <1>1 DEF LeaseInv, ReservationTypeOK, Active, Claiming
<1>3. \A d : Genuine(d) => Genuine(d)'
  BY <1>1 DEF Genuine, LeaseInv, ReservationTypeOK
<1>4. \A d \in Calls : pc'[d] = "decide" => seen'[d] \in Docs /\ Genuine(seen[d])'
  BY <1>1, <1>3 DEF Genuine, LeaseInv, ReservationTypeOK
<1>5. \A d \in Calls : Holds(d)' => Overrun(KeyOf[d])' \/ Owns(d)'
  BY <1>1 DEF Holds, Owns, Overrun, Reservation, LeaseInv, ReservationTypeOK, Working, Closing
<1>6. \A d \in Calls : pc'[d] \in Active => d \in overran' \/ now' < began'[d] + TTL
  BY <1>1, ReservationAssumption DEF LeaseInv, ReservationTypeOK
<1>7. \A k \in DOMAIN docs' : Genuine(docs[k])'
  BY <1>1, <1>3 DEF Genuine, LeaseInv
<1> QED
  BY <1>1, <1>2, <1>4, <1>5, <1>6, <1>7 DEF LeaseInv, OnlyOverrunsStay, Overrun

(* A call lets go of its document, by recording in it or deleting it: no   *)
(* other call owns it.  After an overrun it may be gone or another call's. *)
LEMMA CloseKeeps ==
    ASSUME NEW c \in Calls, LeaseInv, Holds(c), Goto(c, "end"),
           UNCHANGED <<now, began, seen, won, overran>>, told' \in [Calls -> Calls \cup {NoCall}],
           Put(KeyOf[c], RecordedDoc(c)) \/ Drop(KeyOf[c])
    PROVE  LeaseInv'
<1> USE ReservationAssumption
<1>1. pc' = [pc EXCEPT ![c] = "end"] /\ KeyOf[c] \in Keys
  BY DEF Goto
<1>2. Overrun(KeyOf[c]) \/ Owns(c)
  BY DEF LeaseInv
<1>3. RecordedDoc(c) \in Docs /\ RecordedDoc(c).write = <<c, "record">>
  <2>1. KeyOf[c] \in DOMAIN docs => docs[KeyOf[c]].expires \in Nat \cup {Never}
    BY DEF LeaseInv, ReservationTypeOK, Docs
  <2> QED
    BY <2>1 DEF RecordedDoc, Docs
<1>4. /\ DOMAIN docs' \subseteq DOMAIN docs \cup {KeyOf[c]}
      /\ \A k \in DOMAIN docs' : k # KeyOf[c] => docs'[k] = docs[k]
      /\ \A k \in DOMAIN docs : k # KeyOf[c] => k \in DOMAIN docs'
      /\ KeyOf[c] \in DOMAIN docs' => docs'[KeyOf[c]] = RecordedDoc(c)
  BY DEF Put, Drop, Stored, Deleted
<1>5. ReservationTypeOK'
  BY <1>1, <1>3, <1>4 DEF LeaseInv, ReservationTypeOK
<1>6. \A d : Genuine(d) => Genuine(d)'
  BY <1>1 DEF Genuine, LeaseInv, ReservationTypeOK
<1>7. \A k : Overrun(k)' = Overrun(k)
  BY DEF Overrun
<1>8. \A k \in DOMAIN docs' : Genuine(docs[k])' /\ (docs'[k].expires = Never => Overrun(k)')
  <2> TAKE k \in DOMAIN docs'
  <2>1. CASE k = KeyOf[c]
    <3>1. docs'[k] = RecordedDoc(c)
      BY <1>4, <2>1
    <3>2. docs'[k].write = <<c, "record">> /\ pc'[c] = "end"
      BY <1>1, <1>3, <3>1 DEF LeaseInv, ReservationTypeOK
    <3>3. Genuine(docs[k])'
      BY <3>2 DEF Genuine
    <3>4. RecordedDoc(c).expires = Never => Overrun(k)
      BY <1>2, <2>1 DEF RecordedDoc, Owns, Reservation, Never, LeaseInv, ReservationTypeOK
    <3> QED
      BY <1>7, <3>1, <3>3, <3>4
  <2>2. CASE k # KeyOf[c]
    BY <1>4, <1>6, <1>7, <2>2 DEF Genuine, LeaseInv, OnlyOverrunsStay
  <2> QED
    BY <2>1, <2>2
<1>9. \A d \in Calls : pc'[d] = "decide" => seen'[d] \in Docs /\ Genuine(seen[d])'
  BY <1>1, <1>6 DEF Genuine, LeaseInv, ReservationTypeOK
<1>10. \A d \in Calls : Holds(d)' => Overrun(KeyOf[d])' \/ Owns(d)'
  <2> SUFFICES ASSUME NEW d \in Calls, Holds(d)', ~Overrun(KeyOf[d])' PROVE Owns(d)'
    OBVIOUS
  <2>1. d # c /\ Holds(d) /\ ~Overrun(KeyOf[d])
    BY <1>1, <1>7 DEF Holds, LeaseInv, ReservationTypeOK, Working, Closing
  <2>2. Owns(d)
    BY <2>1 DEF LeaseInv
  <2>3. KeyOf[d] # KeyOf[c]
    BY <1>2, <2>1, <2>2, OneOwner
  <2> QED
    BY <1>4, <2>2, <2>3 DEF Owns, Reservation
<1>11. \A d \in Calls : pc'[d] \in Active => d \in overran' \/ now' < began'[d] + TTL
  BY <1>1 DEF LeaseInv, ReservationTypeOK, Active, Claiming, Working, Closing
<1> QED
  BY <1>5, <1>8, <1>9, <1>10, <1>11 DEF LeaseInv, OnlyOverrunsStay

(* A claim that expired is not that of a call at work, but after an        *)
(* overrun.                                                                *)
LEMMA ExpiredIsNotHeld ==
    ASSUME LeaseInv, NEW d, NEW k, Expired(d), Genuine(d), k \in DOMAIN docs,
           docs[k].write = d.write, NEW c \in Calls, Holds(c), KeyOf[c] = k
    PROVE  Overrun(k)
<1> SUFFICES ASSUME ~Overrun(k) PROVE FALSE
  OBVIOUS
<1>1. pc[c] \in Active /\ c \notin overran
  BY DEF Holds, Active, Overrun
<1>2. now < began[c] + TTL
  BY <1>1 DEF LeaseInv
<1>3. docs[k] = Reservation(c)
  BY DEF LeaseInv, Owns
<1>4. d.write = <<c, "claim">>
  BY <1>3 DEF Reservation
<1>5. d.expires = began[c] + TTL
  BY <1>4 DEF Genuine
<1> QED
  BY <1>2, <1>5, ReservationAssumption DEF Expired, LeaseInv, ReservationTypeOK

(* Where a claim is written, nobody holds the key but after an overrun. *)
LEMMA ClaimedIsFree ==
    ASSUME LeaseInv, NEW c \in Calls,
           \/ KeyOf[c] \notin DOMAIN docs
           \/ pc[c] = "decide" /\ Expired(seen[c]) /\ UnchangedSinceRead(c)
    PROVE  \A d \in Calls : Holds(d) /\ KeyOf[d] = KeyOf[c] => Overrun(KeyOf[c])
<1>1. CASE KeyOf[c] \notin DOMAIN docs
  BY <1>1 DEF LeaseInv, Owns
<1>2. CASE pc[c] = "decide" /\ Expired(seen[c]) /\ UnchangedSinceRead(c)
  BY <1>2, ExpiredIsNotHeld DEF LeaseInv, UnchangedSinceRead
<1> QED
  BY <1>1, <1>2

LEMMA WinKeeps ==
    ASSUME NEW c \in Calls, LeaseInv,
           ClaimCreates(c, Start(c)) \/ ClaimVacant(c, Start(c)) \/ ClaimTakesOver(c, Start(c))
    PROVE  LeaseInv'
<1>1. Start(c) \in {"look", "post", "end"}
  BY DEF Start
<1>2. \A d \in Calls : Holds(d) /\ KeyOf[d] = KeyOf[c] => Overrun(KeyOf[c])
  BY ClaimedIsFree DEF ClaimCreates, ClaimVacant, ClaimTakesOver
<1>3. /\ Put(KeyOf[c], Reservation(c)) /\ Goto(c, Start(c)) /\ pc[c] \in Claiming
      /\ won' = [won EXCEPT ![c] = now] /\ UNCHANGED <<now, began, seen, told, overran>>
  BY DEF ClaimCreates, ClaimVacant, ClaimTakesOver, Win, TakeOverDoc, Claiming
<1>4. won' \in [Calls -> 0 .. MaxTime \cup {Never}]
  BY <1>3 DEF LeaseInv, ReservationTypeOK
<1> QED
  BY <1>1, <1>2, <1>3, <1>4, ClaimKeeps

(* Also with a claim or a record that was applied though the call never    *)
(* learnt it.                                                              *)
LEMMA DiesKeeps ==
    ASSUME NEW c \in Calls, LeaseInv, Dies(c)
    PROVE  LeaseInv'
<1>1. CASE UNCHANGED docs
  BY <1>1, MoveKeeps DEF Dies, LeaseInv, ReservationTypeOK, Working, Closing
<1>2. CASE \/ /\ pc[c] \in {"create", "vacant"} /\ KeyOf[c] \notin DOMAIN docs
              /\ Put(KeyOf[c], Reservation(c))
           \/ /\ pc[c] = "decide" /\ Expired(seen[c]) /\ UnchangedSinceRead(c)
              /\ Put(KeyOf[c], TakeOverDoc(c))
  <2>1. /\ Put(KeyOf[c], Reservation(c)) /\ Goto(c, "end") /\ pc[c] \in Claiming
        /\ UNCHANGED <<now, began, seen, told, won, overran>>
    BY <1>2 DEF Dies, TakeOverDoc, Claiming
  <2>2. \A d \in Calls : Holds(d) /\ KeyOf[d] = KeyOf[c] => Overrun(KeyOf[c])
    BY <1>2, ClaimedIsFree
  <2>3. won' \in [Calls -> 0 .. MaxTime \cup {Never}]
    BY <2>1 DEF LeaseInv, ReservationTypeOK
  <2> QED
    BY <2>1, <2>2, <2>3, ClaimKeeps
<1>3. CASE pc[c] = "record" /\ Put(KeyOf[c], RecordedDoc(c))
  BY <1>3, CloseKeeps DEF Dies, Holds, Closing, LeaseInv, ReservationTypeOK
<1> QED
  BY <1>1, <1>2, <1>3 DEF Dies

LEMMA CollectsKeeps ==
    ASSUME NEW k \in Keys, LeaseInv, Collects(k)
    PROVE  LeaseInv'
<1>1. /\ DOMAIN docs' = DOMAIN docs \ {k} /\ \A j \in DOMAIN docs' : docs'[j] = docs[j]
      /\ UNCHANGED <<now, pc, began, seen, told, won, overran>>
  BY DEF Collects, Drop, Deleted
<1>2. \A d \in Calls : Holds(d) /\ KeyOf[d] = k => Overrun(k)
  BY ExpiredIsNotHeld DEF Collects, LeaseInv
<1>3. \A d \in Calls : Holds(d)' => Overrun(KeyOf[d])' \/ Owns(d)'
  BY <1>1, <1>2 DEF Holds, Owns, Overrun, Reservation, LeaseInv
<1> QED
  BY <1>1, <1>3 DEF LeaseInv, ReservationTypeOK, Genuine, OnlyOverrunsStay, Overrun

LEMMA TickKeeps ==
    ASSUME LeaseInv, Tick
    PROVE  LeaseInv'
<1>1. /\ now' = now + 1 /\ now < MaxTime /\ UNCHANGED <<docs, pc, began, seen, told, won>>
      /\ overran' = overran \cup {c \in Calls : pc[c] \in Active /\ now + 1 >= began[c] + TTL}
  BY DEF Tick
<1>2. \A c \in Calls : pc'[c] \in Active => c \in overran' \/ now' < began'[c] + TTL
  BY <1>1, ReservationAssumption DEF LeaseInv, ReservationTypeOK
<1>3. ReservationTypeOK'
  BY <1>1, ReservationAssumption DEF LeaseInv, ReservationTypeOK
<1>4. \A k : Overrun(k) => Overrun(k)'
  BY <1>1 DEF Overrun
<1>5. \A c \in Calls : Holds(c)' => Overrun(KeyOf[c])' \/ Owns(c)'
  BY <1>1, <1>4 DEF LeaseInv, Holds, Owns, Reservation
<1> QED
  BY <1>1, <1>2, <1>3, <1>4, <1>5 DEF LeaseInv, Genuine, OnlyOverrunsStay

LEMMA LeaseNext == LeaseInv /\ [Next]_vars => LeaseInv'
<1> SUFFICES ASSUME LeaseInv, [Next]_vars PROVE LeaseInv'
  OBVIOUS
<1>1. ASSUME NEW c \in Calls, Records(c) \/ Releases(c)
      PROVE  LeaseInv'
  BY <1>1, CloseKeeps DEF Records, Releases, Holds, Closing, LeaseInv, ReservationTypeOK
<1>2. ASSUME NEW c \in Calls, ClaimExists(c) \/ ClaimLosesTakeOver(c) \/ ClaimRefused(c)
      PROVE  LeaseInv'
  <2>1. PICK next \in {"read", "end", "vacant"} : Goto(c, next)
    BY <1>2 DEF ClaimExists, ClaimLosesTakeOver, ClaimRefused
  <2>2. pc[c] \in Active /\ next \in Active \cup {"end"} /\ next \notin Working \cup Closing
    BY <1>2 DEF ClaimExists, ClaimLosesTakeOver, ClaimRefused, Active, Claiming, Working, Closing
  <2> QED
    BY <1>2, <2>1, <2>2, MoveKeeps
    DEF ClaimExists, ClaimLosesTakeOver, ClaimRefused, LeaseInv, ReservationTypeOK
<1>3. ASSUME NEW c \in Calls, ClaimReads(c)
      PROVE  LeaseInv'
  <2>1. pc[c] \in Active /\ {"decide", "vacant"} \subseteq Active \ (Working \cup Closing)
    BY <1>3 DEF ClaimReads, Active, Claiming, Working, Closing
  <2> QED
    BY <1>3, <2>1, MoveKeeps DEF ClaimReads, LeaseInv, ReservationTypeOK
<1>4. ASSUME NEW c \in Calls, ClaimReplays(c)
      PROVE  LeaseInv'
  <2>1. pc[c] \in Active /\ "end" \notin Working \cup Closing /\ seen[c].result \in Calls
    BY <1>4 DEF ClaimReplays, Active, Claiming, Working, Closing, LeaseInv, Docs
  <2>2. told' \in [Calls -> Calls \cup {NoCall}] /\ won' \in [Calls -> 0 .. MaxTime \cup {Never}]
    BY <1>4, <2>1 DEF ClaimReplays, LeaseInv, ReservationTypeOK
  <2> QED
    BY <1>4, <2>1, <2>2, MoveKeeps DEF ClaimReplays
<1>5. ASSUME NEW c \in Calls, Shifts(c)
      PROVE  LeaseInv'
  <2>1. PICK next \in Working \cup Closing : Moves(c, next)
    BY <1>5 DEF Shifts
  <2>2. pc[c] \in Active /\ next \in Active /\ next # "decide" /\ Holds(c)
    BY <1>5 DEF Shifts, Active, Working, Closing, Holds
  <2> QED
    BY <2>1, <2>2, MoveKeeps DEF Moves, LeaseInv, ReservationTypeOK
<1>6. CASE UNCHANGED reservationVars
  BY <1>6 DEF reservationVars, LeaseInv, ReservationTypeOK, Genuine, Holds, Owns, Reservation,
     OnlyOverrunsStay, Overrun
<1> QED
  BY <1>1, <1>2, <1>3, <1>4, <1>5, <1>6, ReservationStep, ArrivesKeeps, WinKeeps,
     DiesKeeps, CollectsKeeps, TickKeeps

(* Of identical calls at most one is past its claim, unless one of them    *)
(* outlived its reservation: whatever dies, is collected, or taken over.   *)
THEOREM WritesHaveOneWinner == Spec => []OneWinner
<1>1. LeaseInv => OneWinner
  BY OneOwner DEF LeaseInv, OneWinner
<1> QED
  BY <1>1, LeaseInit, LeaseNext, PTL DEF Spec

(* However long a call may take, only one that outlived its reservation    *)
(* leaves its key with a result that is kept for ever.                     *)
THEOREM WritesOnlyOverrunsStay == Spec => []OnlyOverrunsStay
<1>1. LeaseInv => OnlyOverrunsStay
  BY DEF LeaseInv
<1> QED
  BY <1>1, LeaseInit, LeaseNext, PTL DEF Spec

(* If calls are shorter than the TTL, none outlives its reservation. *)
Prompt ==
    /\ overran = {}
    /\ \A c \in Calls : pc[c] \in Active => now <= began[c] + MaxRun

LEMMA PromptInit == Init => Prompt
BY DEF Init, ReservationInit, Prompt, Active, Claiming, Working, Closing

LEMMA PromptNext ==
    ASSUME MaxRun < TTL
    PROVE  LeaseInv /\ Prompt /\ [Next]_vars => Prompt'
<1> SUFFICES ASSUME LeaseInv, Prompt, [Next]_vars PROVE Prompt'
  OBVIOUS
<1> USE ReservationAssumption
<1>1. ReservationTypeOK
  BY DEF LeaseInv
<1>2. CASE Tick
  BY <1>1, <1>2 DEF Tick, Prompt, ReservationTypeOK
<1>3. ASSUME NEW c \in Calls, Arrives(c)
      PROVE  Prompt'
  <2>1. /\ pc' = [pc EXCEPT ![c] = "create"] /\ began' = [began EXCEPT ![c] = now]
        /\ UNCHANGED <<now, overran>>
    BY <1>3 DEF Arrives, Goto
  <2> QED
    BY <1>1, <2>1 DEF Prompt, ReservationTypeOK
<1>4. ASSUME NEW c \in Calls,
             \/ ClaimCreates(c, Start(c)) \/ ClaimExists(c) \/ ClaimReads(c)
             \/ ClaimTakesOver(c, Start(c)) \/ ClaimLosesTakeOver(c) \/ ClaimReplays(c)
             \/ ClaimRefused(c) \/ ClaimVacant(c, Start(c))
             \/ Records(c) \/ Releases(c) \/ Dies(c) \/ Shifts(c)
      PROVE  Prompt'
  <2>1. /\ pc[c] \in Active /\ UNCHANGED <<now, began, overran>>
        /\ \E next : pc' = [pc EXCEPT ![c] = next]
    BY <1>4 DEF ClaimCreates, ClaimExists, ClaimReads, ClaimTakesOver, ClaimLosesTakeOver,
       ClaimReplays, ClaimRefused, ClaimVacant, Records, Releases, Dies, Shifts, Moves, Win, Goto,
       Active, Claiming, Working, Closing
  <2> QED
    BY <1>1, <2>1 DEF Prompt, ReservationTypeOK
<1>5. CASE (\E k \in Keys : Collects(k)) \/ UNCHANGED reservationVars
  BY <1>5 DEF Collects, reservationVars, Prompt
<1> QED
  BY <1>2, <1>3, <1>4, <1>5, ReservationStep

(* Then a call past its claim always owns its document, and every document *)
(* expires.                                                                *)
OwnerInv ==
    /\ ReservationTypeOK
    /\ \A c \in Calls : pc[c] \in Active => now <= began[c] + MaxRun
    /\ \A k \in DOMAIN docs : Genuine(docs[k])
    /\ \A c \in Calls : pc[c] = "decide" => seen[c] \in Docs /\ Genuine(seen[c])
    /\ \A c \in Calls : Holds(c) => Owns(c)

LEMMA PromptOwns == LeaseInv /\ Prompt => OwnerInv
BY DEF LeaseInv, Prompt, OwnerInv, Overrun

-----------------------------------------------------------------------------
(* Chapters.                                                               *)

(* A call has made a chapter only if its request was applied, and then it  *)
(* never sends another; a request is on the wire only after the call left  *)
(* "post", and while the call does not go back there.                      *)
ChapterInv ==
    /\ pc \in [Calls -> Active \cup {"idle", "end"}]
    /\ wire \in [Calls -> {"none", "sent", "applied", "conflict", "refused"}]
    /\ \A c \in Calls : wire[c] = "sent" => pc[c] \in {"wait", "release", "end"}
    /\ \A x \in chapters : x.by \in Calls =>
          wire[x.by] = "applied" /\ pc[x.by] \in {"wait", "record", "release", "end"}
    /\ \A x \in chapters : x.by \in Calls \cup {Author}
    /\ OneChapterPerCall

LEMMA ChapterInit == Init => ChapterInv
BY ReservationAssumption DEF Init, ReservationInit, ChapterInv, OneChapterPerCall, Author

(* The steps of the reservation, and the end of a call: no call goes back  *)
(* before its request, and none is past it that has not sent one.          *)
LEMMA ChapterReserves ==
    ASSUME NEW c \in Calls, ChapterInv, Reserves(c) \/ Leaves(c)
    PROVE  ChapterInv'
<1>1. /\ UNCHANGED <<chapters, wire>>
      /\ \E next \in Active \cup {"idle", "end"} :
            /\ pc' = [pc EXCEPT ![c] = next]
            /\ pc[c] \in {"wait", "record", "release", "end"} => next = "end"
  BY DEF Reserves, Leaves, Arrives, ClaimCreates, ClaimExists, ClaimReads, ClaimTakesOver,
     ClaimLosesTakeOver, ClaimReplays, ClaimRefused, ClaimVacant, Records, Releases, Dies, Win,
     Goto, Start, Active, Claiming, Working, storyVars
<1> QED
  BY <1>1 DEF ChapterInv, OneChapterPerCall

LEMMA ChapterWorks ==
    ASSUME NEW c \in Calls, ChapterInv, Works(c)
    PROVE  ChapterInv'
<1> USE DEF Moves, Goto, storyVars, Active, Working, Closing
<1>1. CASE ListsChapters(c) \/ ReadsChapter(c) \/ LookFails(c) \/ NoAnswer(c)
  <2>1. UNCHANGED <<chapters, wire>>
    BY <1>1 DEF ListsChapters, ReadsChapter, LookFails, NoAnswer
  <2>2. \/ pc' = [pc EXCEPT ![c] = "post"] /\ pc[c] = "look"
        \/ pc' = [pc EXCEPT ![c] = "release"] /\ pc[c] \in {"look", "wait"}
    BY <1>1 DEF ListsChapters, ReadsChapter, LookFails, NoAnswer
  <2> QED
    BY <2>1, <2>2 DEF ChapterInv, OneChapterPerCall
<1>2. CASE Sends(c)
  <2>1. /\ UNCHANGED chapters /\ pc[c] = "post"
        /\ pc' = [pc EXCEPT ![c] = "wait"] /\ wire' = [wire EXCEPT ![c] = "sent"]
    BY <1>2 DEF Sends
  <2> QED
    BY <2>1 DEF ChapterInv, OneChapterPerCall
<1>3. CASE Answered(c) /\ UNCHANGED wire
  <2>1. /\ UNCHANGED <<chapters, wire>> /\ pc[c] = "wait" /\ wire[c] # "sent"
        /\ \/ \E next \in {"record", "release"} : pc' = [pc EXCEPT ![c] = next]
           \/ wire' = [wire EXCEPT ![c] = "none"] /\ wire[c] = "conflict"
    BY <1>3 DEF Answered, TriesAgain
  <2>2. wire'[c] # wire[c] \/ \E next \in {"record", "release"} : pc' = [pc EXCEPT ![c] = next]
    BY <2>1 DEF ChapterInv
  <2> QED
    BY <1>3, <2>1, <2>2 DEF ChapterInv, OneChapterPerCall
<1>4. CASE Answered(c) /\ wire' # wire
  <2>1. /\ UNCHANGED chapters /\ pc[c] = "wait" /\ wire[c] = "conflict"
        /\ wire' = [wire EXCEPT ![c] = "none"] /\ pc' = [pc EXCEPT ![c] = "look"]
    BY <1>4 DEF Answered, TriesAgain
  <2> QED
    BY <2>1 DEF ChapterInv, OneChapterPerCall
<1> QED
  BY <1>1, <1>2, <1>3, <1>4 DEF Works

LEMMA ChapterApplies ==
    ASSUME NEW c \in Calls, ChapterInv, Applies(c) \/ Refuses(c)
    PROVE  ChapterInv'
<1>1. wire[c] = "sent" /\ UNCHANGED pc
  BY DEF Applies, Refuses, reservationVars
<1>2. \A x \in chapters : x.by # c
  BY <1>1 DEF ChapterInv
<1>3. CASE /\ UNCHANGED chapters
           /\ \E w \in {"applied", "conflict", "refused"} : wire' = [wire EXCEPT ![c] = w]
  BY <1>1, <1>2, <1>3 DEF ChapterInv, OneChapterPerCall
<1>4. CASE /\ chapters' = chapters \cup {[by |-> c, at |-> place[c]]}
           /\ wire' = [wire EXCEPT ![c] = "applied"]
  BY <1>1, <1>2, <1>4 DEF ChapterInv, OneChapterPerCall
<1> QED
  BY <1>3, <1>4 DEF Applies, Refuses, storyVars

LEMMA ChapterNext == ChapterInv /\ [Next]_vars => ChapterInv'
<1> SUFFICES ASSUME ChapterInv, [Next]_vars PROVE ChapterInv'
  OBVIOUS
<1>1. CASE Editor
  <2>1. UNCHANGED <<pc, wire>>
    BY <1>1 DEF Editor, reservationVars
  <2>2. \A x \in chapters' : x \in chapters \/ x.by = Author
    BY <1>1 DEF Editor, EditorWrites, EditorAddsChapter, EditorDeletesChapter
  <2> QED
    BY <2>1, <2>2, ReservationAssumption DEF ChapterInv, OneChapterPerCall, Author
<1>2. CASE Clock \/ UNCHANGED vars
  BY <1>2 DEF Clock, Tick, Collects, vars, reservationVars, storyVars, ChapterInv, OneChapterPerCall
<1> QED
  BY <1>1, <1>2, ChapterReserves, ChapterWorks, ChapterApplies DEF Next

(* However often a position is lost and asked for anew, and whichever      *)
(* requests are applied after their caller gave up, no call ever has two   *)
(* chapters.                                                               *)
THEOREM WritesOneChapter == Spec => []OneChapterPerCall
<1>1. ChapterInv => OneChapterPerCall
  BY DEF ChapterInv
<1> QED
  BY <1>1, ChapterInit, ChapterNext, PTL DEF Spec

-----------------------------------------------------------------------------
(* Results.                                                                *)

(* A call that wrote, and has come to its end. *)
Done(c) == pc[c] = "end" /\ wire[c] = "applied" /\ won[c] >= began[c]

(* What a document of key k says is true: whose it is, when it expires,    *)
(* and that the call whose result it holds is done.                        *)
Sound(d, k) ==
    /\ KeyOf[d.write[1]] = k
    /\ d.expires = began[d.write[1]] + TTL
    /\ IF d.write[2] = "record"
         THEN d.result = d.write[1] /\ Done(d.write[1])
         ELSE d.result = NoCall

(* While the TTL of a call that reported its own result lasts, the         *)
(* document of its key holds that result.                                  *)
Remembered(c) ==
    told[c] = c /\ now < began[c] + TTL =>
        KeyOf[c] \in DOMAIN docs /\ docs[KeyOf[c]].write = <<c, "record">>

Fresh(c) == Holds(c) \/ told[c] = c

Apart(c, d) == won[c] >= began[d] + TTL \/ won[d] >= began[c] + TTL

ReplayInv ==
    /\ wire \in [Calls -> {"none", "sent", "applied", "conflict", "refused"}]
    /\ \A c \in Calls : began[c] <= now
    /\ \A c \in Calls : Holds(c) => won[c] >= began[c]
    /\ \A c \in Calls : pc[c] = "record" => wire[c] = "applied"
    /\ \A k \in DOMAIN docs : Sound(docs[k], k)
    /\ \A c \in Calls : pc[c] = "decide" => Sound(seen[c], KeyOf[c])
    /\ \A c \in Calls : told[c] # NoCall =>
          /\ pc[c] = "end" /\ Done(told[c]) /\ KeyOf[c] = KeyOf[told[c]]
          /\ won[c] < won[told[c]] + TTL
    /\ \A c \in Calls : Remembered(c)
    /\ \A c, d \in Calls :
          c # d /\ KeyOf[c] = KeyOf[d] /\ Fresh(c) /\ Fresh(d) => Apart(c, d)

LEMMA ReplayInit == Init => ReplayInv
BY ReservationAssumption
DEF Init, ReservationInit, NoDocs, ReplayInv, Holds, Working, Closing, Remembered, Fresh

(* A call goes to "record" with an applied request, and its request stays  *)
(* applied from there on.                                                  *)
LEMMA WireStep ==
    ASSUME OwnerInv, ReplayInv, [Next]_vars
    PROVE  /\ wire' \in [Calls -> {"none", "sent", "applied", "conflict", "refused"}]
           /\ \A c \in Calls : pc[c] \in {"record", "end"} /\ wire[c] = "applied"
                                  => wire'[c] = "applied"
           /\ \A c \in Calls : pc'[c] = "record" => wire'[c] = "applied"
<1>1. pc \in [Calls -> Active \cup {"idle", "end"}]
      /\ wire \in [Calls -> {"none", "sent", "applied", "conflict", "refused"}]
      /\ \A c \in Calls : pc[c] = "record" => wire[c] = "applied"
  BY DEF OwnerInv, ReservationTypeOK, ReplayInv
<1>2. ASSUME NEW c \in Calls, Reserves(c) \/ Leaves(c)
      PROVE  /\ wire' = wire
             /\ \E next \in {"create", "read", "decide", "vacant", "look", "post", "end"} :
                   pc' = [pc EXCEPT ![c] = next]
  BY <1>2 DEF Reserves, Leaves, Arrives, ClaimCreates, ClaimExists, ClaimReads, ClaimTakesOver,
     ClaimLosesTakeOver, ClaimReplays, ClaimRefused, ClaimVacant, Records, Releases, Dies, Win,
     Goto, Start
<1>3. ASSUME NEW c \in Calls, Works(c)
      PROVE  /\ pc[c] \in {"look", "post", "wait"}
             /\ \/ /\ wire' = wire
                   /\ \/ \E next \in {"post", "release"} : pc' = [pc EXCEPT ![c] = next]
                      \/ wire[c] = "applied" /\ pc' = [pc EXCEPT ![c] = "record"]
                \/ /\ \E w \in {"none", "sent"} : wire' = [wire EXCEPT ![c] = w]
                   /\ \E next \in {"look", "wait"} : pc' = [pc EXCEPT ![c] = next]
  <2>1. CASE ListsChapters(c) \/ ReadsChapter(c) \/ LookFails(c) \/ NoAnswer(c) \/ Sends(c)
    BY <2>1 DEF ListsChapters, ReadsChapter, LookFails, Sends, NoAnswer, Moves, Goto
  <2>2. CASE Answered(c)
    BY <2>2 DEF Answered, Moves, Goto
  <2> QED
    BY <1>3, <2>1, <2>2 DEF Works
<1>4. ASSUME NEW c \in Calls, Applies(c) \/ Refuses(c)
      PROVE  /\ pc' = pc /\ wire[c] = "sent"
             /\ \E w \in {"applied", "conflict", "refused"} : wire' = [wire EXCEPT ![c] = w]
  BY <1>4 DEF Applies, Refuses, reservationVars
<1>5. CASE Editor \/ Clock \/ UNCHANGED vars
  <2>1. UNCHANGED <<pc, wire>>
    BY <1>5 DEF Editor, Clock, Tick, Collects, vars, reservationVars
  <2> QED
    BY <1>1, <2>1
<1>6. ASSUME NEW c \in Calls, Reserves(c) \/ Leaves(c) \/ Works(c) \/ Applies(c) \/ Refuses(c)
      PROVE  /\ wire' \in [Calls -> {"none", "sent", "applied", "conflict", "refused"}]
             /\ \A d \in Calls : pc[d] \in {"record", "end"} /\ wire[d] = "applied"
                                    => wire'[d] = "applied"
             /\ \A d \in Calls : pc'[d] = "record" => wire'[d] = "applied"
  <2>1. CASE Reserves(c) \/ Leaves(c)
    BY <1>1, <1>2, <2>1
  <2>2. CASE Works(c)
    BY <1>1, <1>3, <2>2
  <2>3. CASE Applies(c) \/ Refuses(c)
    BY <1>1, <1>4, <2>3
  <2> QED
    BY <1>6, <2>1, <2>2, <2>3
<1> QED
  BY <1>5, <1>6 DEF Next

(* What a step of the reservation does to the calls: only one of them      *)
(* moves, and what it has begun, taken and told stays.                     *)
LEMMA CallStep ==
    ASSUME OwnerInv, [Next]_vars
    PROVE  /\ now' \in Nat /\ now' >= now
           /\ \A c \in Calls : began'[c] = began[c] \/ (pc[c] = "idle" /\ began'[c] = now)
           /\ \A c \in Calls : pc[c] = "end" => pc'[c] = "end"
           /\ \A c \in Calls : pc[c] # "idle" => pc'[c] # "idle"
           /\ \A c \in Calls : told'[c] = told[c] \/ (pc[c] \in Active /\ pc'[c] = "end")
           /\ \A c \in Calls : won'[c] = won[c] \/ (pc[c] \in Claiming /\ won'[c] = now /\ now' = now)
           /\ \A c \in Calls : Holds(c)' => Holds(c) \/ (pc[c] \in Claiming /\ won'[c] = now)
           /\ \A c, d \in Calls : c # d => pc'[c] = pc[c] \/ pc'[d] = pc[d]
<1>1. ReservationTypeOK /\ now \in Nat
  BY DEF OwnerInv, ReservationTypeOK
<1>2. ASSUME NEW c \in Calls,
             \/ Arrives(c) \/ ClaimCreates(c, Start(c)) \/ ClaimExists(c) \/ ClaimReads(c)
             \/ ClaimTakesOver(c, Start(c)) \/ ClaimLosesTakeOver(c) \/ ClaimReplays(c)
             \/ ClaimRefused(c) \/ ClaimVacant(c, Start(c))
             \/ Records(c) \/ Releases(c) \/ Dies(c) \/ Shifts(c)
      PROVE  /\ now' = now
             /\ \A d \in Calls : d # c =>
                   pc'[d] = pc[d] /\ began'[d] = began[d] /\ told'[d] = told[d] /\ won'[d] = won[d]
             /\ began'[c] = began[c] \/ (pc[c] = "idle" /\ began'[c] = now)
             /\ told'[c] = told[c] \/ (pc[c] \in Active /\ pc'[c] = "end")
             /\ won'[c] = won[c] \/ (pc[c] \in Claiming /\ won'[c] = now)
             /\ pc[c] # "end" /\ pc'[c] # "idle"
             /\ pc'[c] \in Working \cup Closing =>
                   pc[c] \in Working \cup Closing \/ (pc[c] \in Claiming /\ won'[c] = now)
  <2> USE DEF Goto, Active, Claiming, Working, Closing
  <2>1. CASE Arrives(c) \/ ClaimExists(c) \/ ClaimReads(c)
    BY <2>1, <1>1 DEF Arrives, ClaimExists, ClaimReads, ReservationTypeOK
  <2>2. CASE ClaimCreates(c, Start(c)) \/ ClaimVacant(c, Start(c)) \/ ClaimTakesOver(c, Start(c))
    BY <2>2, <1>1 DEF ClaimCreates, ClaimVacant, ClaimTakesOver, Win, Start, ReservationTypeOK
  <2>3. CASE ClaimLosesTakeOver(c) \/ ClaimRefused(c) \/ ClaimReplays(c)
    BY <2>3, <1>1 DEF ClaimLosesTakeOver, ClaimRefused, ClaimReplays, ReservationTypeOK
  <2>4. CASE Records(c) \/ Releases(c) \/ Dies(c)
    BY <2>4, <1>1 DEF Records, Releases, Dies, ReservationTypeOK
  <2>5. CASE Shifts(c)
    BY <2>5, <1>1 DEF Shifts, Moves, ReservationTypeOK
  <2> QED
    BY <1>2, <2>1, <2>2, <2>3, <2>4, <2>5
<1>3. CASE \E c \in Calls :
             \/ Arrives(c) \/ ClaimCreates(c, Start(c)) \/ ClaimExists(c) \/ ClaimReads(c)
             \/ ClaimTakesOver(c, Start(c)) \/ ClaimLosesTakeOver(c) \/ ClaimReplays(c)
             \/ ClaimRefused(c) \/ ClaimVacant(c, Start(c))
             \/ Records(c) \/ Releases(c) \/ Dies(c) \/ Shifts(c)
  BY <1>1, <1>2, <1>3 DEF ReservationTypeOK, Holds, Active, Claiming, Working, Closing
<1>4. CASE Tick \/ (\E k \in Keys : Collects(k)) \/ UNCHANGED reservationVars
  <2>1. UNCHANGED <<pc, began, seen, told, won>> /\ now' >= now /\ now' \in Nat
    BY <1>1, <1>4 DEF Tick, Collects, reservationVars
  <2> QED
    BY <2>1 DEF Holds
<1> QED
  BY <1>3, <1>4, ReservationStep

(* How a step changes the documents: a claim, where there is none or the   *)
(* one that was read has expired; a record or a release, by the owner; the *)
(* end of an expired one.                                                  *)
Claims(c) ==
    /\ pc[c] \in Claiming
    /\ Put(KeyOf[c], Reservation(c)) /\ now' = now
    /\ \/ KeyOf[c] \notin DOMAIN docs
       \/ pc[c] = "decide" /\ Expired(seen[c]) /\ docs[KeyOf[c]].write = seen[c].write

LEMMA DocsStep ==
    ASSUME OwnerInv, [Next]_vars
    PROVE  \/ UNCHANGED docs
           \/ \E c \in Calls : Claims(c)
           \/ \E c \in Calls : pc[c] = "record" /\ pc'[c] = "end" /\ Put(KeyOf[c], RecordedDoc(c))
           \/ \E c \in Calls : pc[c] = "release" /\ Drop(KeyOf[c])
           \/ \E k \in DOMAIN docs : Expired(docs[k]) /\ Drop(k) /\ now' = now
<1>1. ASSUME NEW c \in Calls, ClaimCreates(c, Start(c)) \/ ClaimTakesOver(c, Start(c))
                              \/ ClaimVacant(c, Start(c))
      PROVE  Claims(c)
  BY <1>1 DEF ClaimCreates, ClaimTakesOver, ClaimVacant, Win, Claims, Claiming, TakeOverDoc,
     UnchangedSinceRead
<1>2. ASSUME NEW c \in Calls, Dies(c)
      PROVE  \/ UNCHANGED docs \/ Claims(c)
             \/ pc[c] = "record" /\ pc'[c] = "end" /\ Put(KeyOf[c], RecordedDoc(c))
  <2>1. pc[c] = "record" => pc'[c] = "end"
    BY <1>2 DEF Dies, Goto, OwnerInv, ReservationTypeOK
  <2> QED
    BY <1>2, <2>1 DEF Dies, Claims, Claiming, TakeOverDoc, UnchangedSinceRead
<1>3. ASSUME NEW c \in Calls, Records(c)
      PROVE  pc[c] = "record" /\ pc'[c] = "end" /\ Put(KeyOf[c], RecordedDoc(c))
  BY <1>3 DEF Records, Goto, OwnerInv, ReservationTypeOK
<1>4. ASSUME NEW c \in Calls,
             \/ Arrives(c) \/ ClaimExists(c) \/ ClaimReads(c) \/ ClaimLosesTakeOver(c)
             \/ ClaimReplays(c) \/ ClaimRefused(c) \/ Shifts(c)
      PROVE  UNCHANGED docs
  BY <1>4 DEF Arrives, ClaimExists, ClaimReads, ClaimLosesTakeOver, ClaimReplays, ClaimRefused,
     Shifts, Moves
<1>5. Tick \/ UNCHANGED reservationVars => UNCHANGED docs
  BY DEF Tick, reservationVars
<1> QED
  BY <1>1, <1>2, <1>3, <1>4, <1>5, ReservationStep DEF Releases, Collects

(* What a step leaves true: a call that is done stays done, and what a     *)
(* document says of a call that has begun stays true.                      *)
LEMMA DoneStays ==
    ASSUME OwnerInv, ReplayInv, [Next]_vars
    PROVE  \A c \in Calls : Done(c) => Done(c)'
<1> SUFFICES ASSUME NEW c \in Calls, Done(c) PROVE Done(c)'
  OBVIOUS
<1>1. pc'[c] = "end" /\ wire'[c] = "applied"
  BY CallStep, WireStep DEF Done
<1>2. won'[c] = won[c] /\ began'[c] = began[c]
  BY CallStep DEF Done, Claiming
<1> QED
  BY <1>1, <1>2 DEF Done

LEMMA SoundStays ==
    ASSUME OwnerInv, ReplayInv, [Next]_vars, NEW d, NEW k, Genuine(d), Sound(d, k)
    PROVE  Sound(d, k)'
<1> DEFINE c == d.write[1]
<1>1. c \in Calls /\ pc[c] # "idle"
  BY DEF Genuine
<1>2. began'[c] = began[c]
  BY <1>1, CallStep
<1>3. Done(c) => Done(c)'
  BY <1>1, DoneStays
<1> QED
  BY <1>2, <1>3 DEF Sound

(* A claim writes a sound document, and so does the record of a call whose *)
(* request was applied.                                                    *)
LEMMA DocsSound ==
    ASSUME OwnerInv, ReplayInv, [Next]_vars, NEW k, k \in DOMAIN docs'
    PROVE  Sound(docs[k], k)'
<1> USE ReservationAssumption
<1>1. ASSUME k \in DOMAIN docs, docs'[k] = docs[k]
      PROVE  Sound(docs[k], k)'
  <2>1. Genuine(docs[k]) /\ Sound(docs[k], k)
    BY <1>1 DEF OwnerInv, ReplayInv
  <2>2. PICK d : d = docs[k]
    OBVIOUS
  <2>3. Sound(d, k)'
    BY <2>1, <2>2, SoundStays
  <2> QED
    BY <1>1, <2>2, <2>3 DEF Sound
<1>2. ASSUME NEW c \in Calls, Claims(c), k = KeyOf[c]
      PROVE  Sound(docs[k], k)'
  <2>1. docs'[k] = Reservation(c)
    BY <1>2 DEF Claims, Put, Stored
  <2>2. began'[c] = began[c]
    BY <1>2, CallStep DEF Claims, Claiming
  <2> QED
    BY <1>2, <2>1, <2>2 DEF Sound, Reservation
<1>3. ASSUME NEW c \in Calls, pc[c] = "record", pc'[c] = "end", Put(KeyOf[c], RecordedDoc(c)),
             k = KeyOf[c]
      PROVE  Sound(docs[k], k)'
  <2>1. Holds(c) /\ Owns(c)
    BY <1>3 DEF OwnerInv, Holds, Closing
  <2>2. docs'[k] = RecordedDoc(c)
    BY <1>3 DEF Put, Stored
  <2>3. docs'[k].expires = began[c] + TTL /\ docs'[k].write = <<c, "record">> /\ docs'[k].result = c
    BY <2>1, <2>2 DEF RecordedDoc, Owns, Reservation
  <2>4. began'[c] = began[c] /\ won'[c] = won[c]
    BY <1>3, CallStep DEF Claiming
  <2>5. Done(c)'
    <3>1. wire'[c] = "applied"
      BY <1>3, WireStep DEF ReplayInv
    <3>2. won[c] >= began[c]
      BY <2>1 DEF ReplayInv
    <3> QED
      BY <1>3, <2>4, <3>1, <3>2 DEF Done
  <2> QED
    BY <1>3, <2>3, <2>4, <2>5 DEF Sound
<1>4. ASSUME NEW c \in Calls, NEW d, Put(KeyOf[c], d), k # KeyOf[c]
      PROVE  k \in DOMAIN docs /\ docs'[k] = docs[k]
  BY <1>4 DEF Put, Stored
<1>5. ASSUME NEW j, Drop(j)
      PROVE  k \in DOMAIN docs /\ docs'[k] = docs[k]
  BY <1>5 DEF Drop, Deleted
<1> QED
  BY <1>1, <1>2, <1>3, <1>4, <1>5, DocsStep DEF Claims

LEMMA SeenSound ==
    ASSUME OwnerInv, ReplayInv, [Next]_vars, NEW c \in Calls, pc'[c] = "decide"
    PROVE  Sound(seen[c], KeyOf[c])'
<1>1. \/ seen'[c] = seen[c] /\ pc[c] = "decide"
      \/ KeyOf[c] \in DOMAIN docs /\ seen'[c] = docs[KeyOf[c]]
  <2>1. ASSUME NEW d \in Calls,
               \/ Arrives(d) \/ ClaimCreates(d, Start(d)) \/ ClaimExists(d)
               \/ ClaimTakesOver(d, Start(d)) \/ ClaimLosesTakeOver(d) \/ ClaimReplays(d)
               \/ ClaimRefused(d) \/ ClaimVacant(d, Start(d))
               \/ Records(d) \/ Releases(d) \/ Dies(d) \/ Shifts(d)
        PROVE  seen' = seen /\ \E next : pc' = [pc EXCEPT ![d] = next] /\ next # "decide"
    BY <2>1 DEF Arrives, ClaimCreates, ClaimExists, ClaimTakesOver, ClaimLosesTakeOver, ClaimReplays,
       ClaimRefused, ClaimVacant, Records, Releases, Dies, Shifts, Moves, Win, Goto, Start, Working,
       Closing
  <2>2. ASSUME NEW d \in Calls, ClaimReads(d)
        PROVE  \/ /\ KeyOf[d] \in DOMAIN docs /\ seen' = [seen EXCEPT ![d] = docs[KeyOf[d]]]
                  /\ pc' = [pc EXCEPT ![d] = "decide"]
               \/ seen' = seen /\ pc' = [pc EXCEPT ![d] = "vacant"]
    BY <2>2 DEF ClaimReads, Goto
  <2>3. CASE Tick \/ (\E k \in Keys : Collects(k)) \/ UNCHANGED reservationVars
    BY <2>3 DEF Tick, Collects, reservationVars
  <2> QED
    BY <2>1, <2>2, <2>3, ReservationStep DEF OwnerInv, ReservationTypeOK
<1>2. PICK d : d = seen'[c]
  OBVIOUS
<1>3. Genuine(d) /\ Sound(d, KeyOf[c])
  BY <1>1, <1>2 DEF OwnerInv, ReplayInv
<1>4. Sound(d, KeyOf[c])'
  BY <1>3, SoundStays
<1> QED
  BY <1>2, <1>4 DEF Sound

(* A call reports its own result when it records it, or one it has read. *)
LEMMA ToldStep ==
    ASSUME OwnerInv, [Next]_vars, NEW c \in Calls, told'[c] # told[c]
    PROVE  \/ /\ pc[c] = "record" /\ pc'[c] = "end" /\ told'[c] = c
              /\ Put(KeyOf[c], RecordedDoc(c))
           \/ ClaimReplays(c) /\ told'[c] = seen[c].result /\ won'[c] = now /\ pc'[c] = "end"
<1>1. ASSUME NEW d \in Calls,
             \/ Arrives(d) \/ ClaimCreates(d, Start(d)) \/ ClaimExists(d) \/ ClaimReads(d)
             \/ ClaimTakesOver(d, Start(d)) \/ ClaimLosesTakeOver(d)
             \/ ClaimRefused(d) \/ ClaimVacant(d, Start(d))
             \/ Releases(d) \/ Dies(d) \/ Shifts(d)
      PROVE  told' = told
  BY <1>1 DEF Arrives, ClaimCreates, ClaimExists, ClaimReads, ClaimTakesOver, ClaimLosesTakeOver,
     ClaimRefused, ClaimVacant, Releases, Dies, Shifts, Moves, Win
<1>2. ASSUME NEW d \in Calls, Records(d)
      PROVE  c = d /\ pc[c] = "record" /\ pc'[c] = "end" /\ told'[c] = c
             /\ Put(KeyOf[c], RecordedDoc(c))
  BY <1>2 DEF Records, Goto, OwnerInv, ReservationTypeOK
<1>3. ASSUME NEW d \in Calls, ClaimReplays(d)
      PROVE  c = d /\ told'[c] = seen[c].result /\ won'[c] = now /\ pc'[c] = "end"
  BY <1>3 DEF ClaimReplays, Goto, OwnerInv, ReservationTypeOK
<1>4. Tick \/ (\E k \in Keys : Collects(k)) \/ UNCHANGED reservationVars => told' = told
  BY DEF Tick, Collects, reservationVars
<1> QED
  BY <1>1, <1>2, <1>3, <1>4, ReservationStep

(* What a call reads to replay is a result, of a call that wrote less than *)
(* a TTL ago.                                                              *)
LEMMA ReplayedIsDone ==
    ASSUME OwnerInv, ReplayInv, NEW c \in Calls, ClaimReplays(c)
    PROVE  /\ seen[c].result \in Calls /\ Done(seen[c].result)
           /\ KeyOf[c] = KeyOf[seen[c].result] /\ now < won[seen[c].result] + TTL
<1> DEFINE d == seen[c].write[1]
<1>1. pc[c] = "decide" /\ ~Expired(seen[c]) /\ seen[c].result # NoCall
  BY DEF ClaimReplays
<1>2. Genuine(seen[c]) /\ Sound(seen[c], KeyOf[c])
  BY <1>1 DEF OwnerInv, ReplayInv
<1>3. seen[c].result = d /\ Done(d) /\ KeyOf[d] = KeyOf[c] /\ seen[c].expires = began[d] + TTL
  BY <1>1, <1>2 DEF Sound
<1>4. d \in Calls /\ began[d] \in Nat /\ won[d] \in Int /\ now \in Nat
  BY <1>2 DEF Genuine, OwnerInv, ReservationTypeOK, Never
<1>5. now < began[d] + TTL
  BY <1>1, <1>3, <1>4, ReservationAssumption DEF Expired, Never
<1> QED
  BY <1>3, <1>4, <1>5, ReservationAssumption DEF Done

LEMMA ToldTrue ==
    ASSUME OwnerInv, ReplayInv, [Next]_vars, NEW c \in Calls, told'[c] # NoCall
    PROVE  /\ pc'[c] = "end" /\ Done(told[c])' /\ KeyOf[c] = KeyOf[told'[c]]
           /\ won'[c] < won'[told'[c]] + TTL
<1>1. CASE told'[c] = told[c]
  <2>1. told[c] \in Calls
    BY <1>1 DEF OwnerInv, ReservationTypeOK
  <2>2. /\ pc[c] = "end" /\ Done(told[c]) /\ KeyOf[c] = KeyOf[told[c]]
        /\ won[c] < won[told[c]] + TTL
    BY <1>1 DEF ReplayInv
  <2>3. pc'[c] = "end" /\ won'[c] = won[c] /\ won'[told[c]] = won[told[c]]
    BY <2>1, <2>2, CallStep DEF Claiming, Done
  <2>4. Done(told[c])'
    <3>1. PICK d \in Calls : d = told[c]
      BY <2>1
    <3>2. Done(d)'
      BY <2>2, <3>1, DoneStays
    <3> QED
      BY <1>1, <3>1, <3>2 DEF Done
  <2> QED
    BY <1>1, <2>2, <2>3, <2>4
<1>2. CASE pc[c] = "record" /\ pc'[c] = "end" /\ told'[c] = c
  <2>1. wire'[c] = "applied"
    BY <1>2, WireStep DEF ReplayInv
  <2>2. won'[c] = won[c] /\ began'[c] = began[c] /\ won[c] >= began[c] /\ won[c] \in Int
    BY <1>2, CallStep DEF Claiming, Holds, Closing, ReplayInv, OwnerInv, ReservationTypeOK, Never
  <2> QED
    BY <1>2, <2>1, <2>2, ReservationAssumption DEF Done
<1>3. CASE ClaimReplays(c) /\ told'[c] = seen[c].result /\ won'[c] = now /\ pc'[c] = "end"
  <2>1. PICK d \in Calls : d = seen[c].result
    BY <1>3, ReplayedIsDone
  <2>2. Done(d) /\ KeyOf[c] = KeyOf[d] /\ now < won[d] + TTL
    BY <1>3, <2>1, ReplayedIsDone
  <2>3. Done(d)' /\ won'[d] = won[d]
    BY <2>2, DoneStays, CallStep DEF Done, Claiming
  <2> QED
    BY <1>3, <2>1, <2>2, <2>3 DEF Done
<1> QED
  BY <1>1, <1>2, <1>3, ToldStep

(* Nobody claims the key of a remembered result. *)
LEMMA RememberedIsKept ==
    ASSUME OwnerInv, ReplayInv, NEW c \in Calls, told[c] = c, now < began[c] + TTL,
           NEW d \in Calls, Claims(d), KeyOf[d] = KeyOf[c]
    PROVE  FALSE
<1>1. KeyOf[c] \in DOMAIN docs /\ docs[KeyOf[c]].write = <<c, "record">>
  BY DEF ReplayInv, Remembered
<1>2. pc[d] = "decide" /\ Expired(seen[d]) /\ seen[d].write = <<c, "record">>
  BY <1>1 DEF Claims
<1>3. seen[d].expires = began[c] + TTL
  BY <1>2 DEF ReplayInv, Sound
<1> QED
  BY <1>2, <1>3, ReservationAssumption DEF Expired, OwnerInv, ReservationTypeOK

LEMMA RememberedStep ==
    ASSUME OwnerInv, ReplayInv, [Next]_vars, NEW c \in Calls
    PROVE  Remembered(c)'
<1> SUFFICES ASSUME told'[c] = c, now' < began'[c] + TTL
             PROVE  KeyOf[c] \in DOMAIN docs' /\ docs'[KeyOf[c]].write = <<c, "record">>
  BY DEF Remembered
<1> DEFINE k == KeyOf[c]
<1>1. CASE told[c] = c
  <2>1. pc[c] = "end" /\ began'[c] = began[c] /\ now <= now' /\ now' \in Nat
    BY <1>1, CallStep, ReservationAssumption DEF ReplayInv, OwnerInv, ReservationTypeOK
  <2>2. now < began[c] + TTL
    BY <2>1, ReservationAssumption DEF OwnerInv, ReservationTypeOK
  <2>3. k \in DOMAIN docs /\ docs[k].write = <<c, "record">>
    BY <1>1, <2>2 DEF ReplayInv, Remembered
  <2>4. \A d \in Calls : Claims(d) => KeyOf[d] # k
    BY <1>1, <2>2, RememberedIsKept
  <2>5. ASSUME NEW d \in Calls, Holds(d) PROVE KeyOf[d] # k
    <3>1. Owns(d)
      BY <2>5 DEF OwnerInv
    <3>2. docs[KeyOf[d]].write = <<d, "claim">>
      BY <3>1 DEF Owns, Reservation
    <3> QED
      BY <2>3, <3>2
  <2>6. ~Expired(docs[k])
    <3>1. docs[k].expires = began[c] + TTL
      BY <2>3 DEF ReplayInv, Sound
    <3> QED
      BY <2>2, <3>1, ReservationAssumption DEF Expired, OwnerInv, ReservationTypeOK
  <2>7. ASSUME NEW j, NEW d, Put(j, d), j # k
        PROVE  k \in DOMAIN docs' /\ docs'[k] = docs[k]
    BY <2>3, <2>7 DEF Put, Stored
  <2>8. ASSUME NEW j, Drop(j), j # k
        PROVE  k \in DOMAIN docs' /\ docs'[k] = docs[k]
    BY <2>3, <2>8 DEF Drop, Deleted
  <2>9. k \in DOMAIN docs' /\ docs'[k] = docs[k]
    BY <2>3, <2>4, <2>5, <2>6, <2>7, <2>8, DocsStep DEF Claims, Holds, Closing
  <2> QED
    BY <2>3, <2>9
<1>2. CASE told[c] # c
  <2>1. \/ Put(k, RecordedDoc(c))
        \/ ClaimReplays(c) /\ seen[c].result = c
    BY <1>2, ToldStep
  <2>2. ~(ClaimReplays(c) /\ seen[c].result = c)
    BY ReplayedIsDone DEF ClaimReplays, Done
  <2> QED
    BY <2>1, <2>2 DEF Put, Stored, RecordedDoc
<1> QED
  BY <1>1, <1>2

(* A call gets past its claim by claiming. *)
LEMMA HoldsByClaim ==
    ASSUME OwnerInv, [Next]_vars, NEW c \in Calls, Holds(c)', ~Holds(c)
    PROVE  Claims(c) /\ won'[c] = now
<1>1. pc \in [Calls -> Active \cup {"idle", "end"}] /\ won \in [Calls -> 0 .. MaxTime \cup {Never}]
  BY DEF OwnerInv, ReservationTypeOK
<1>2. ASSUME NEW d \in Calls, ClaimCreates(d, Start(d)) \/ ClaimVacant(d, Start(d))
                              \/ ClaimTakesOver(d, Start(d))
      PROVE  /\ Claims(d) /\ won'[d] = now
             /\ \A e \in Calls : e # d => pc'[e] = pc[e]
  BY <1>1, <1>2 DEF ClaimCreates, ClaimTakesOver, ClaimVacant, Win, Goto, Claims, Claiming,
     TakeOverDoc, UnchangedSinceRead
<1>3. ASSUME NEW d \in Calls,
             \/ Arrives(d) \/ ClaimExists(d) \/ ClaimReads(d) \/ ClaimLosesTakeOver(d)
             \/ ClaimReplays(d) \/ ClaimRefused(d) \/ Records(d) \/ Releases(d) \/ Dies(d)
      PROVE  \E next \in Claiming \cup {"end"} : pc' = [pc EXCEPT ![d] = next]
  BY <1>3 DEF Arrives, ClaimExists, ClaimReads, ClaimLosesTakeOver, ClaimReplays, ClaimRefused,
     Records, Releases, Dies, Goto, Claiming
<1>4. ASSUME NEW d \in Calls, Shifts(d)
      PROVE  Holds(d) /\ \A e \in Calls : e # d => pc'[e] = pc[e]
  BY <1>1, <1>4 DEF Shifts, Moves, Goto, Holds
<1>5. Tick \/ (\E k \in Keys : Collects(k)) \/ UNCHANGED reservationVars => pc' = pc
  BY DEF Tick, Collects, reservationVars
<1> QED
  BY <1>1, <1>2, <1>3, <1>4, <1>5, ReservationStep DEF Holds, Working, Closing, Claiming

(* Of two calls that are past their claim, or report their own result, one *)
(* claimed the key when the TTL of the other had run out.                  *)
LEMMA ApartStep ==
    ASSUME OwnerInv, OwnerInv', ReplayInv, [Next]_vars, NEW c \in Calls, NEW d \in Calls,
           c # d, KeyOf[c] = KeyOf[d], Fresh(c)', Fresh(d)'
    PROVE  Apart(c, d)'
<1>1. ASSUME NEW e \in Calls, Fresh(e)
      PROVE  pc[e] # "idle" /\ began'[e] = began[e] /\ won'[e] = won[e]
  <2>1. pc[e] \in Working \cup Closing \cup {"end"}
    BY <1>1, ReservationAssumption DEF Fresh, Holds, ReplayInv
  <2> QED
    BY <2>1, CallStep DEF Working, Closing, Claiming
<1>2. ASSUME NEW e \in Calls, Fresh(e)', ~Fresh(e)
      PROVE  Holds(e)' /\ Claims(e) /\ won'[e] = now
  <2>1. told'[e] # e \/ told[e] = e
    <3> SUFFICES ASSUME told'[e] = e, told[e] # e PROVE FALSE
      OBVIOUS
    <3>1. CASE pc[e] = "record"
      BY <1>2, <3>1 DEF Fresh, Holds, Closing
    <3>2. CASE ClaimReplays(e) /\ seen[e].result = e
      BY <3>2, ReplayedIsDone DEF ClaimReplays, Done
    <3> QED
      BY <3>1, <3>2, ToldStep
  <2> QED
    BY <1>2, <2>1, HoldsByClaim DEF Fresh
<1>3. CASE Fresh(c) /\ Fresh(d)
  <2>1. Apart(c, d)
    BY <1>3 DEF ReplayInv
  <2> QED
    BY <1>1, <1>3, <2>1 DEF Apart
<1>4. ASSUME NEW e \in Calls, NEW f \in Calls, e # f, KeyOf[e] = KeyOf[f],
             Fresh(e)', ~Fresh(e), Fresh(f)'
      PROVE  won'[e] >= began'[f] + TTL
  <2>1. Holds(e)' /\ Claims(e) /\ won'[e] = now
    BY <1>2, <1>4
  <2>2. ~Holds(f)'
    <3> SUFFICES ASSUME Holds(f)' PROVE FALSE
      OBVIOUS
    <3>1. Owns(e)' /\ Owns(f)'
      BY <2>1 DEF OwnerInv
    <3>2. <<e, "claim">> = <<f, "claim">>
      BY <1>4, <3>1 DEF Owns, Reservation
    <3> QED
      BY <1>4, <3>2
  <2>3. told[f] = f
    <3>1. pc'[e] # pc[e]
      BY <2>1 DEF Claims, Holds, Claiming, Working, Closing
    <3>2. pc'[f] = pc[f]
      BY <1>4, <3>1, CallStep
    <3> QED
      BY <1>2, <1>4, <2>2, <3>2 DEF Fresh, Holds
  <2>4. began'[f] = began[f]
    BY <1>1, <2>3 DEF Fresh
  <2>5. now >= began[f] + TTL
    BY <1>4, <2>1, <2>3, RememberedIsKept, ReservationAssumption DEF OwnerInv, ReservationTypeOK
  <2> QED
    BY <2>1, <2>4, <2>5
<1> QED
  BY <1>3, <1>4 DEF Apart

LEMMA ReplayNext ==
    ASSUME OwnerInv, OwnerInv', ReplayInv, [Next]_vars
    PROVE  ReplayInv'
<1>1. \A c \in Calls : began'[c] <= now'
  BY CallStep DEF OwnerInv, ReservationTypeOK, ReplayInv
<1>2. \A c \in Calls : Holds(c)' => won'[c] >= began'[c]
  <2> SUFFICES ASSUME NEW c \in Calls, Holds(c)' PROVE won'[c] >= began'[c]
    OBVIOUS
  <2>1. CASE Holds(c)
    BY <2>1, CallStep DEF Holds, Working, Closing, Claiming, ReplayInv
  <2>2. CASE ~Holds(c)
    <3>1. won'[c] = now /\ pc[c] \in Claiming
      BY <2>2, HoldsByClaim DEF Claims
    <3> QED
      BY <3>1, CallStep DEF Claiming, ReplayInv, OwnerInv, ReservationTypeOK
  <2> QED
    BY <2>1, <2>2
<1>3. \A c, d \in Calls :
         c # d /\ KeyOf[c] = KeyOf[d] /\ Fresh(c)' /\ Fresh(d)' => Apart(c, d)'
  BY ApartStep
<1> QED
  BY <1>1, <1>2, <1>3, WireStep, DocsSound, SeenSound, ToldTrue, RememberedStep DEF ReplayInv

(* If calls are shorter than the TTL, a repeat is answered with the result *)
(* of a call that really wrote, less than a TTL ago; two identical calls   *)
(* that both report a fresh result claimed the key a TTL apart.            *)
THEOREM WritesRepeatsReplay ==
    ASSUME MaxRun < TTL
    PROVE  Spec => []RepeatsReplay
<1>1. OwnerInv /\ ReplayInv => RepeatsReplay
  <2> SUFFICES ASSUME OwnerInv, ReplayInv, NEW c \in Calls, NEW d \in Calls
               PROVE  /\ c # d /\ KeyOf[c] = KeyOf[d] /\ told[c] = c /\ told[d] = d =>
                            won[c] >= began[d] + TTL \/ won[d] >= began[c] + TTL
                      /\ told[c] = d =>
                            KeyOf[c] = KeyOf[d] /\ wire[d] = "applied" /\ won[c] < won[d] + TTL
    BY DEF RepeatsReplay
  <2>1. c # d /\ KeyOf[c] = KeyOf[d] /\ told[c] = c /\ told[d] = d => Apart(c, d)
    BY DEF ReplayInv, Fresh
  <2>2. told[c] = d => /\ Done(d) /\ KeyOf[c] = KeyOf[d] /\ won[c] < won[d] + TTL
    BY ReservationAssumption DEF ReplayInv
  <2> QED
    BY <2>1, <2>2 DEF Apart, Done
<1>2. LeaseInv /\ Prompt /\ ReplayInv /\ [Next]_vars => LeaseInv' /\ Prompt' /\ ReplayInv'
  <2> SUFFICES ASSUME LeaseInv, Prompt, ReplayInv, [Next]_vars
               PROVE  LeaseInv' /\ Prompt' /\ ReplayInv'
    OBVIOUS
  <2>1. LeaseInv' /\ Prompt'
    BY LeaseNext, PromptNext
  <2>2. OwnerInv'
    BY <2>1 DEF LeaseInv, Prompt, OwnerInv, Overrun
  <2> QED
    BY <2>1, <2>2, PromptOwns, ReplayNext
<1> QED
  BY <1>1, <1>2, PromptOwns, LeaseInit, PromptInit, ReplayInit, PTL DEF Spec

-----------------------------------------------------------------------------
(* Types.                                                                  *)

(* The last position: chapters is never infinite, so one can be asked for. *)
Bounded == \E m \in Nat : \A x \in chapters : x.at <= m

TypeInv ==
    /\ TypeOK
    /\ DOMAIN draft = Calls
    /\ \A c \in Calls : pc[c] = "decide" => seen[c] \in Docs
    /\ \A c \in Calls : pc[c] \in Claiming \cup {"idle", "look"} => attempts[c] < MAX_CLAIM_ATTEMPTS
    /\ Bounded

(* Every set of naturals under a bound has a greatest element: the least   *)
(* of its bounds.                                                          *)
LEMMA GreatestOfBounded ==
    ASSUME NEW S, S \subseteq Nat, S # {}, NEW m \in Nat, \A s \in S : s <= m
    PROVE  Max(S) \in S /\ \A s \in S : s <= Max(S)
<1> DEFINE R == {ss \in Nat \X Nat : ss[1] < ss[2]}
           Bounds == {b \in Nat : \A s \in S : s <= b}
<1>1. PICK b \in Bounds : \A y \in Bounds : ~ (<<y, b>> \in R)
  <2>1. OpToRel(<, Nat) = R
    BY DEF OpToRel
  <2>2. IsWellFoundedOn(R, Nat)
    BY <2>1, NatLessThanWellFounded
  <2>3. Bounds \subseteq Nat /\ Bounds # {}
    OBVIOUS
  <2> HIDE DEF Bounds, R
  <2> QED
    BY <2>2, <2>3, WFMin
<1>2. b \in S
  <2> SUFFICES ASSUME b \notin S PROVE FALSE
    OBVIOUS
  <2>1. PICK s \in S : TRUE
    OBVIOUS
  <2>2. b - 1 \in Nat /\ \A x \in S : x <= b - 1
    BY <2>1
  <2>3. b - 1 \in Bounds /\ <<b - 1, b>> \in R
    BY <2>2
  <2> QED
    BY <1>1, <2>3
<1>3. \E x \in S : \A y \in S : x >= y
  BY <1>2
<1> QED
  BY <1>3 DEF Max

LEMMA NextPositionIsNat ==
    ASSUME TypeInv
    PROVE  _next_position \in Nat
<1> DEFINE Taken == {0} \cup {x.at : x \in chapters}
<1>1. PICK m \in Nat : \A x \in chapters : x.at <= m
  BY DEF TypeInv, Bounded
<1>2. Taken \subseteq Nat /\ Taken # {} /\ \A s \in Taken : s <= m
  BY <1>1 DEF TypeInv, TypeOK
<1>3. Max(Taken) \in Nat
  <2> HIDE DEF Taken
  <2> QED
    BY <1>2, GreatestOfBounded
<1> QED
  BY <1>3 DEF _next_position

LEMMA TypeInit == Init => TypeInv
<1> SUFFICES ASSUME Init PROVE TypeInv
  OBVIOUS
<1>1. ReservationTypeOK
  BY ReservationAssumption DEF Init, ReservationInit, NoDocs, ReservationTypeOK, Never
<1>2. Bounded
  BY DEF Init, Bounded
<1> QED
  BY <1>1, <1>2, WritesAssumption DEF Init, ReservationInit, TypeInv, TypeOK, Author

LEMMA StoredDocs ==
    ASSUME NEW k \in Keys, NEW d \in Docs, ReservationTypeOK, Put(k, d)
    PROVE  DOMAIN docs' \subseteq Keys /\ \A j \in DOMAIN docs' : docs'[j] \in Docs
BY DEF ReservationTypeOK, Put, Stored

LEMMA DeletedDocs ==
    ASSUME NEW k \in Keys, ReservationTypeOK, Drop(k)
    PROVE  DOMAIN docs' \subseteq Keys /\ \A j \in DOMAIN docs' : docs'[j] \in Docs
BY DEF ReservationTypeOK, Drop, Deleted

LEMMA WrittenDocs ==
    ASSUME NEW c \in Calls, ReservationTypeOK
    PROVE  Reservation(c) \in Docs /\ RecordedDoc(c) \in Docs /\ KeyOf[c] \in Keys
<1> USE ReservationAssumption
<1>1. Reservation(c) \in Docs
  BY DEF Reservation, Docs, ReservationTypeOK
<1>2. RecordedDoc(c) \in Docs
  <2>1. (IF KeyOf[c] \in DOMAIN docs THEN docs[KeyOf[c]].expires ELSE Never) \in Nat \cup {Never}
    BY DEF Docs, ReservationTypeOK
  <2> QED
    BY <2>1 DEF RecordedDoc, Docs
<1> QED
  BY <1>1, <1>2

LEMMA TypeReserves ==
    ASSUME NEW c \in Calls, TypeInv, Reserves(c) \/ Leaves(c)
    PROVE  TypeInv'
<1> USE ReservationAssumption
<1>1. ReservationTypeOK /\ Reservation(c) \in Docs /\ RecordedDoc(c) \in Docs /\ KeyOf[c] \in Keys
  BY WrittenDocs DEF TypeInv, TypeOK
<1>2. UNCHANGED <<stories, chapters, revision, text, written, wire, attempts, place, draft, editorSteps>>
  BY DEF Reserves, Leaves, storyVars
<1>3. DOMAIN docs' \subseteq Keys /\ \A j \in DOMAIN docs' : docs'[j] \in Docs
  <2>1. \/ UNCHANGED docs \/ Drop(KeyOf[c])
        \/ Put(KeyOf[c], Reservation(c)) \/ Put(KeyOf[c], RecordedDoc(c))
    BY DEF Reserves, Leaves, Arrives, ClaimCreates, ClaimExists, ClaimReads, ClaimTakesOver,
       ClaimLosesTakeOver, ClaimReplays, ClaimRefused, ClaimVacant, Records, Releases, Dies, Win,
       TakeOverDoc
  <2> QED
    BY <1>1, <2>1, StoredDocs, DeletedDocs DEF ReservationTypeOK
<1>4. \E next \in Active \cup {"end"} :
         /\ pc' = [pc EXCEPT ![c] = next]
         /\ next \in Claiming \cup {"look"} => pc[c] \in Claiming \cup {"idle"}
         /\ next = "decide" => seen' = [seen EXCEPT ![c] = docs[KeyOf[c]]] /\ KeyOf[c] \in DOMAIN docs
  BY DEF Reserves, Leaves, Arrives, ClaimCreates, ClaimExists, ClaimReads, ClaimTakesOver,
     ClaimLosesTakeOver, ClaimReplays, ClaimRefused, ClaimVacant, Records, Releases, Dies, Win,
     Goto, Start, Active, Claiming, Working
<1>5. seen' = seen \/ (KeyOf[c] \in DOMAIN docs /\ seen' = [seen EXCEPT ![c] = docs[KeyOf[c]]])
  BY DEF Reserves, Leaves, Arrives, ClaimCreates, ClaimExists, ClaimReads, ClaimTakesOver,
     ClaimLosesTakeOver, ClaimReplays, ClaimRefused, ClaimVacant, Records, Releases, Dies, Win
<1>6. /\ began' = began \/ began' = [began EXCEPT ![c] = now]
      /\ won' = won \/ won' = [won EXCEPT ![c] = now]
      /\ UNCHANGED now
  BY DEF Reserves, Leaves, Arrives, ClaimCreates, ClaimExists, ClaimReads, ClaimTakesOver,
     ClaimLosesTakeOver, ClaimReplays, ClaimRefused, ClaimVacant, Records, Releases, Dies, Win
<1>7. told' \in [Calls -> Calls \cup {NoCall}]
  <2>1. CASE ClaimReplays(c)
    <3>1. seen[c].result \in Calls \cup {NoCall}
      BY <2>1 DEF ClaimReplays, TypeInv, Docs
    <3> QED
      BY <1>1, <2>1, <3>1 DEF ClaimReplays, ReservationTypeOK
  <2>2. CASE ~ClaimReplays(c)
    <3>1. told' = told \/ told' = [told EXCEPT ![c] = c]
      BY <2>2 DEF Reserves, Leaves, Arrives, ClaimCreates, ClaimExists, ClaimReads, ClaimTakesOver,
         ClaimLosesTakeOver, ClaimRefused, ClaimVacant, Records, Releases, Dies, Win
    <3> QED
      BY <1>1, <3>1 DEF ReservationTypeOK
  <2> QED
    BY <2>1, <2>2
<1>8. ReservationTypeOK'
  <2>1. pc' \in [Calls -> Active \cup {"idle", "end"}]
    BY <1>1, <1>4 DEF ReservationTypeOK
  <2>2. seen' \in [Calls -> Docs \cup {NoCall}]
    BY <1>1, <1>5 DEF ReservationTypeOK
  <2>3. now' \in 0 .. MaxTime /\ began' \in [Calls -> 0 .. MaxTime]
    BY <1>1, <1>6 DEF ReservationTypeOK
  <2>4. won' \in [Calls -> 0 .. MaxTime \cup {Never}]
    BY <1>1, <1>6 DEF ReservationTypeOK
  <2>5. overran' = overran
    BY DEF Reserves, Leaves, Arrives, ClaimCreates, ClaimExists, ClaimReads, ClaimTakesOver,
       ClaimLosesTakeOver, ClaimReplays, ClaimRefused, ClaimVacant, Records, Releases, Dies, Win
  <2> QED
    BY <1>1, <1>3, <1>7, <2>1, <2>2, <2>3, <2>4, <2>5 DEF ReservationTypeOK
<1>9. \A d \in Calls : pc'[d] = "decide" => seen'[d] \in Docs
  BY <1>1, <1>4, <1>5 DEF TypeInv, ReservationTypeOK
<1>10. \A d \in Calls :
         pc'[d] \in Claiming \cup {"idle", "look"} => pc[d] \in Claiming \cup {"idle", "look"}
  BY <1>1, <1>4 DEF ReservationTypeOK, Active, Working, Closing
<1> QED
  BY <1>2, <1>8, <1>9, <1>10 DEF TypeInv, TypeOK, Bounded

LEMMA TypeWorks ==
    ASSUME NEW c \in Calls, TypeInv, Works(c)
    PROVE  TypeInv'
<1>1. PICK next \in {"look", "post", "wait", "record", "release"} :
         /\ Moves(c, next)
         /\ next = "look" => Answered(c) /\ TriesAgain(c)
  BY DEF Works, ListsChapters, ReadsChapter, LookFails, Sends, Answered, NoAnswer
<1>2. UNCHANGED <<now, docs, began, seen, told, won, overran, storyVars, editorSteps>>
      /\ pc' = [pc EXCEPT ![c] = next]
  BY <1>1 DEF Moves, Goto, Works, ListsChapters, ReadsChapter, LookFails, Sends, Answered, NoAnswer
<1>3. ReservationTypeOK'
  BY <1>2 DEF TypeInv, TypeOK, ReservationTypeOK, Active, Working, Closing
<1>4. \A d \in Calls : pc'[d] = "decide" => seen'[d] \in Docs
  BY <1>2 DEF TypeInv, TypeOK, ReservationTypeOK
<1>5. wire' \in [Calls -> {"none", "sent", "applied", "conflict", "refused"}]
  BY DEF Works, ListsChapters, ReadsChapter, LookFails, Sends, Answered, NoAnswer, TypeInv, TypeOK
<1>6. DOMAIN draft' = Calls /\ \A d \in Calls : draft'[d] \subseteq (Calls \cup {Author}) \X Nat
  BY DEF Works, ListsChapters, ReadsChapter, LookFails, Sends, Answered, NoAnswer, TypeInv, TypeOK
<1>7. CASE ListsChapters(c)
  <2>1. /\ pc[c] = "look" /\ attempts' = [attempts EXCEPT ![c] = @ + 1]
        /\ pc' = [pc EXCEPT ![c] = "post"] /\ place' = [place EXCEPT ![c] = _next_position]
    BY <1>7 DEF ListsChapters, Moves, Goto
  <2>2. attempts[c] < MAX_CLAIM_ATTEMPTS
    BY <2>1 DEF TypeInv
  <2>3. attempts' \in [Calls -> 0 .. MAX_CLAIM_ATTEMPTS] /\ place' \in [Calls -> Nat]
    BY <2>1, <2>2, NextPositionIsNat, WritesAssumption DEF TypeInv, TypeOK
  <2>4. \A d \in Calls : pc'[d] \in Claiming \cup {"idle", "look"}
                            => attempts'[d] < MAX_CLAIM_ATTEMPTS
    BY <2>1 DEF TypeInv, TypeOK, ReservationTypeOK, Claiming
  <2> QED
    BY <1>2, <1>3, <1>4, <1>5, <1>6, <2>3, <2>4 DEF TypeInv, TypeOK, Bounded, storyVars
<1>8. CASE UNCHANGED <<attempts, place>>
  <2>1. \A d \in Calls : pc'[d] \in Claiming \cup {"idle", "look"}
                            => attempts'[d] < MAX_CLAIM_ATTEMPTS
    BY <1>1, <1>2, <1>8 DEF TypeInv, TypeOK, ReservationTypeOK, Claiming, TriesAgain
  <2> QED
    BY <1>2, <1>3, <1>4, <1>5, <1>6, <1>8, <2>1 DEF TypeInv, TypeOK, Bounded, storyVars
<1> QED
  BY <1>7, <1>8 DEF Works, ReadsChapter, LookFails, Sends, Answered, NoAnswer

LEMMA TypeApplies ==
    ASSUME NEW c \in Calls, TypeInv, Applies(c) \/ Refuses(c)
    PROVE  TypeInv'
<1>1. UNCHANGED <<now, docs, pc, began, seen, told, won, overran, attempts, place, draft,
                  editorSteps>>
  BY DEF Applies, Refuses, reservationVars
<1>2. wire' \in [Calls -> {"none", "sent", "applied", "conflict", "refused"}]
  BY DEF Applies, Refuses, TypeInv, TypeOK
<1>3. stories' \subseteq Calls /\ revision' \in Nat
      /\ text' \subseteq (Calls \cup {Author}) \X Nat
      /\ written' \subseteq (Calls \cup {Author}) \X Nat
  BY DEF Applies, Refuses, storyVars, TypeInv, TypeOK
<1>4. chapters' = chapters \/ chapters' = chapters \cup {[by |-> c, at |-> place[c]]}
  BY DEF Applies, Refuses, storyVars
<1>5. \A x \in chapters' : x.by \in Calls \cup {Author} /\ x.at \in Nat
  BY <1>4 DEF TypeInv, TypeOK
<1>6. Bounded'
  <2>1. PICK m \in Nat : \A x \in chapters : x.at <= m
    BY DEF TypeInv, Bounded
  <2>2. place[c] \in Nat
    BY DEF TypeInv, TypeOK
  <2>3. \A x \in chapters' : x.at <= m + place[c]
    BY <1>4, <2>1, <2>2 DEF TypeInv, TypeOK
  <2> QED
    BY <2>2, <2>3 DEF Bounded
<1>7. ReservationTypeOK'
  BY <1>1 DEF TypeInv, TypeOK, ReservationTypeOK
<1> QED
  BY <1>1, <1>2, <1>3, <1>5, <1>6, <1>7 DEF TypeInv, TypeOK

LEMMA TypeEditor ==
    ASSUME TypeInv, Editor
    PROVE  TypeInv'
<1>1. /\ UNCHANGED <<now, docs, pc, began, seen, told, won, overran, wire, attempts, place, draft,
                     stories>>
      /\ editorSteps' = editorSteps + 1 /\ editorSteps < MaxEditorSteps
  BY DEF Editor, reservationVars, EditorWrites, EditorAddsChapter, EditorDeletesChapter
<1>2. editorSteps' \in 0 .. MaxEditorSteps
  BY <1>1, WritesAssumption DEF TypeInv, TypeOK
<1>3. revision' \in Nat
      /\ text' \subseteq (Calls \cup {Author}) \X Nat
      /\ written' \subseteq (Calls \cup {Author}) \X Nat
  BY DEF Editor, EditorWrites, EditorAddsChapter, EditorDeletesChapter, TypeInv, TypeOK
<1>4. \E p \in Nat : chapters' \subseteq chapters \cup {[by |-> Author, at |-> p]}
  BY WritesAssumption DEF Editor, EditorWrites, EditorAddsChapter, EditorDeletesChapter
<1>5. PICK p \in Nat : chapters' \subseteq chapters \cup {[by |-> Author, at |-> p]}
  BY <1>4
<1>6. \A x \in chapters' : x.by \in Calls \cup {Author} /\ x.at \in Nat
  BY <1>5 DEF TypeInv, TypeOK
<1>7. Bounded'
  <2>1. PICK m \in Nat : \A x \in chapters : x.at <= m
    BY DEF TypeInv, Bounded
  <2>2. \A x \in chapters' : x.at <= m + p
    BY <1>5, <2>1 DEF TypeInv, TypeOK
  <2> QED
    BY <2>2 DEF Bounded
<1>8. ReservationTypeOK'
  BY <1>1 DEF TypeInv, TypeOK, ReservationTypeOK
<1> QED
  BY <1>1, <1>2, <1>3, <1>6, <1>7, <1>8 DEF TypeInv, TypeOK

LEMMA TypeClock ==
    ASSUME TypeInv, Clock
    PROVE  TypeInv'
<1>1. UNCHANGED <<pc, began, seen, told, won, stories, chapters, revision, text, written, wire,
                  attempts, place, draft, editorSteps>>
  BY DEF Clock, Tick, Collects, storyVars
<1>2. now' \in 0 .. MaxTime
  BY ReservationAssumption DEF Clock, Tick, Collects, TypeInv, TypeOK, ReservationTypeOK
<1>3. DOMAIN docs' \subseteq Keys /\ \A j \in DOMAIN docs' : docs'[j] \in Docs
  BY DeletedDocs DEF Clock, Tick, Collects, TypeInv, TypeOK, ReservationTypeOK
<1>4. overran' \subseteq Calls
  BY DEF Clock, Tick, Collects, TypeInv, TypeOK, ReservationTypeOK
<1>5. ReservationTypeOK'
  BY <1>1, <1>2, <1>3, <1>4 DEF TypeInv, TypeOK, ReservationTypeOK
<1> QED
  BY <1>1, <1>5 DEF TypeInv, TypeOK, Bounded

LEMMA TypeNext == TypeInv /\ [Next]_vars => TypeInv'
<1> SUFFICES ASSUME TypeInv, [Next]_vars PROVE TypeInv'
  OBVIOUS
<1>1. CASE UNCHANGED vars
  BY <1>1 DEF vars, reservationVars, storyVars, TypeInv, TypeOK, ReservationTypeOK, Bounded
<1> QED
  BY <1>1, TypeReserves, TypeWorks, TypeApplies, TypeEditor, TypeClock DEF Next

(* Every variable keeps its type; the position loop asks for at most       *)
(* MAX_CLAIM_ATTEMPTS positions, and there always is a next one.           *)
THEOREM WritesTypeOK == Spec => []TypeOK
<1>1. TypeInv => TypeOK
  BY DEF TypeInv
<1> QED
  BY <1>1, TypeInit, TypeNext, PTL DEF Spec
=============================================================================
