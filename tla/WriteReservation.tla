--------------------------- MODULE WriteReservation ---------------------------
(***************************************************************************)
(* mcp_server/writes.py: the reservation that makes a repeated write of    *)
(* the connector idempotent.  A call claims the Firestore document of its  *)
(* key before it writes, records its result there afterwards, and deletes  *)
(* the document when the write failed.  Every Firestore request is an      *)
(* action of its own: calls interleave between any two of them.            *)
(*                                                                         *)
(* Firestore is outside src/: a document appears only where there is none  *)
(* (create), is updated under the update time that was read, or is merged  *)
(* and deleted unconditionally.  An update time is modelled by the write   *)
(* that set it: a call writes a document at most twice, as its claim and   *)
(* as its record.                                                          *)
(***************************************************************************)
EXTENDS Integers, Firestore

CONSTANTS
    Calls,          \* tool calls
    Keys,           \* idempotency keys: user, tool and arguments
    KeyOf,          \* the key of each call; a repeated call has the same
    NoCall,         \* no result yet
    TTL,            \* IDEMPOTENCY_TTL_SECONDS
    MaxTime,        \* model bound: the clock stops there
    MaxRun          \* longest a call may take; the code sets no such limit

ASSUME ReservationAssumption ==
    /\ KeyOf \in [Calls -> Keys]
    /\ NoCall \notin Calls
    /\ TTL \in Nat \ {0}
    /\ MaxTime \in Nat
    /\ MaxRun \in Nat

VARIABLES
    now,            \* seconds
    docs,           \* the documents that exist, by key
    pc,             \* where each call is
    began,          \* when it computed its expiresAt
    seen,           \* the document it read
    told,           \* the call whose result it returned
    won,            \* History: when it took the key or a result
    overran         \* History: the calls that outlived their reservation

reservationVars == <<now, docs, pc, began, seen, told, won, overran>>

Never == -1         \* a document without expiresAt

Docs == [expires : Nat \cup {Never}, result : Calls \cup {NoCall},
         write : Calls \X {"claim", "record"}]

Claiming == {"create", "read", "decide", "vacant"}
Working == {"look", "post", "wait"}
Closing == {"record", "release"}
Active == Claiming \cup Working \cup Closing

Put(k, d) == docs' = Stored(docs, k, d)
Drop(k) == docs' = Deleted(docs, k)

Expired(d) == d.expires # Never /\ d.expires <= now

(* A call of this key outlived its reservation. *)
Overrun(k) == \E c \in overran : KeyOf[c] = k

ReservationInit ==
    /\ now = 0
    /\ docs = NoDocs
    /\ pc = [c \in Calls |-> "idle"]
    /\ began = [c \in Calls |-> 0]
    /\ seen = [c \in Calls |-> NoCall]
    /\ told = [c \in Calls |-> NoCall]
    /\ won = [c \in Calls |-> Never]
    /\ overran = {}

Goto(c, place) == pc' = [pc EXCEPT ![c] = place]

-----------------------------------------------------------------------------
(* _claim *)

(* The arguments are valid and the story is the caller's. *)
Arrives(c) ==
    /\ pc[c] = "idle"
    /\ began' = [began EXCEPT ![c] = now]
    /\ Goto(c, "create")
    /\ UNCHANGED <<now, docs, seen, told, won, overran>>

Reservation(c) ==
    [expires |-> began[c] + TTL, result |-> NoCall, write |-> <<c, "claim">>]

(* The key is the call's own: it goes on to write. *)
Win(c, next) ==
    /\ Put(KeyOf[c], Reservation(c))
    /\ won' = [won EXCEPT ![c] = now]
    /\ Goto(c, next)
    /\ UNCHANGED <<now, began, told, overran>>

ClaimCreates(c, next) ==
    /\ pc[c] = "create"
    /\ KeyOf[c] \notin DOMAIN docs
    /\ Win(c, next)
    /\ UNCHANGED seen

ClaimExists(c) ==
    /\ pc[c] = "create"
    /\ KeyOf[c] \in DOMAIN docs
    /\ Goto(c, "read")
    /\ UNCHANGED <<now, docs, began, seen, told, won, overran>>

ClaimReads(c) ==
    /\ pc[c] = "read"
    /\ IF KeyOf[c] \in DOMAIN docs
         THEN seen' = [seen EXCEPT ![c] = docs[KeyOf[c]]] /\ Goto(c, "decide")
         ELSE Goto(c, "vacant") /\ UNCHANGED seen
    /\ UNCHANGED <<now, docs, began, told, won, overran>>

TakeOverKept(c) ==              \* mutant: the expired round's result is not cleared
    [Reservation(c) EXCEPT !.result = seen[c].result]
TakeOverDoc(c) == Reservation(c)

(* The document that was read is still the one there. *)
UnchangedSinceReadAnyway(c) == KeyOf[c] \in DOMAIN docs  \* mutant: overwritten unconditionally
UnchangedSinceRead(c) == KeyOf[c] \in DOMAIN docs /\ docs[KeyOf[c]].write = seen[c].write

(* The reservation has expired and nobody took it since. *)
ClaimTakesOver(c, next) ==
    /\ pc[c] = "decide"
    /\ Expired(seen[c])
    /\ UnchangedSinceRead(c)
    /\ Put(KeyOf[c], TakeOverDoc(c))
    /\ won' = [won EXCEPT ![c] = now]
    /\ Goto(c, next)
    /\ UNCHANGED <<now, began, seen, told, overran>>

(* It expired, and is gone or someone else's: FailedPrecondition, NotFound. *)
ClaimLosesTakeOver(c) ==
    /\ pc[c] = "decide"
    /\ Expired(seen[c])
    /\ ~UnchangedSinceRead(c)
    /\ Goto(c, IF KeyOf[c] \in DOMAIN docs THEN "end" ELSE "vacant")
    /\ UNCHANGED <<now, docs, began, seen, told, won, overran>>

(* The result recorded by an earlier identical call is returned. *)
ClaimReplays(c) ==
    /\ pc[c] = "decide"
    /\ ~Expired(seen[c])
    /\ seen[c].result # NoCall
    /\ told' = [told EXCEPT ![c] = seen[c].result]
    /\ won' = [won EXCEPT ![c] = now]
    /\ Goto(c, "end")
    /\ UNCHANGED <<now, docs, began, seen, overran>>

(* DuplicateInFlightError *)
ClaimPolls(c) ==                \* mutant: wait for the call that holds the key
    /\ \/ pc[c] = "decide" /\ ~Expired(seen[c]) /\ seen[c].result = NoCall
       \/ pc[c] = "vacant" /\ KeyOf[c] \in DOMAIN docs
    /\ Goto(c, "read")
    /\ UNCHANGED <<now, docs, began, seen, told, won, overran>>
ClaimRefused(c) ==
    /\ \/ pc[c] = "decide" /\ ~Expired(seen[c]) /\ seen[c].result = NoCall
       \/ pc[c] = "vacant" /\ KeyOf[c] \in DOMAIN docs
    /\ Goto(c, "end")
    /\ UNCHANGED <<now, docs, began, seen, told, won, overran>>

ClaimVacant(c, next) ==
    /\ pc[c] = "vacant"
    /\ KeyOf[c] \notin DOMAIN docs
    /\ Win(c, next)
    /\ UNCHANGED seen

-----------------------------------------------------------------------------
(* _record and _release: neither asks whose the document is by now. *)

RecordedAlone(c) ==             \* mutant: the record replaces the document
    [expires |-> Never, result |-> c, write |-> <<c, "record">>]
RecordedDoc(c) ==
    [expires |-> IF KeyOf[c] \in DOMAIN docs THEN docs[KeyOf[c]].expires ELSE Never,
     result |-> c, write |-> <<c, "record">>]

Records(c) ==
    /\ pc[c] = "record"
    /\ Put(KeyOf[c], RecordedDoc(c))
    /\ told' = [told EXCEPT ![c] = c]
    /\ Goto(c, "end")
    /\ UNCHANGED <<now, began, seen, won, overran>>

Releases(c) ==
    /\ pc[c] = "release"
    /\ Drop(KeyOf[c])
    /\ Goto(c, "end")
    /\ UNCHANGED <<now, began, seen, told, won, overran>>

-----------------------------------------------------------------------------
(* A Firestore request raises, the call is cancelled, or the process dies: *)
(* the reservation stays as it is, unless the create, the update or the    *)
(* merge was applied all the same.  A failed delete is swallowed.          *)
Dies(c) ==
    /\ pc[c] \in Active
    /\ \/ UNCHANGED docs
       \/ /\ pc[c] \in {"create", "vacant"} /\ KeyOf[c] \notin DOMAIN docs
          /\ Put(KeyOf[c], Reservation(c))
       \/ /\ pc[c] = "decide" /\ Expired(seen[c]) /\ UnchangedSinceRead(c)
          /\ Put(KeyOf[c], TakeOverDoc(c))
       \/ pc[c] = "record" /\ Put(KeyOf[c], RecordedDoc(c))
    /\ Goto(c, "end")
    /\ UNCHANGED <<now, began, seen, told, won, overran>>

(* The TTL policy deletes expired documents, hours later or at once. *)
Collects(k) ==
    /\ k \in DOMAIN docs
    /\ Expired(docs[k])
    /\ Drop(k)
    /\ UNCHANGED <<now, pc, began, seen, told, won, overran>>

Tick ==
    /\ now < MaxTime
    /\ \A c \in Calls : pc[c] \in Active => now < began[c] + MaxRun
    /\ now' = now + 1
    /\ overran' = overran \cup {c \in Calls : pc[c] \in Active /\ now + 1 >= began[c] + TTL}
    /\ UNCHANGED <<docs, pc, began, seen, told, won>>

-----------------------------------------------------------------------------
ReservationTypeOK ==
    /\ now \in 0 .. MaxTime
    /\ DOMAIN docs \subseteq Keys
    /\ \A k \in DOMAIN docs : docs[k] \in Docs
    /\ pc \in [Calls -> Active \cup {"idle", "end"}]
    /\ began \in [Calls -> 0 .. MaxTime]
    /\ seen \in [Calls -> Docs \cup {NoCall}]
    /\ told \in [Calls -> Calls \cup {NoCall}]
    /\ won \in [Calls -> 0 .. MaxTime \cup {Never}]
    /\ overran \subseteq Calls
=============================================================================
