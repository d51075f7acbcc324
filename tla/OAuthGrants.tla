------------------------------ MODULE OAuthGrants ------------------------------
(***************************************************************************)
(* mcp_server/oauth_provider.py over oauth_store.py: one authorization     *)
(* from the consent page through its code to the rotating token pairs of   *)
(* its family.                                                             *)
(*                                                                         *)
(* Every Firestore request is an action, so requests interleave between    *)
(* any two of them, and any of them may be the last thing its server does. *)
(* A conditional write compares update times.  A transaction and a token   *)
(* are each updated in one direction only, so there the comparison is      *)
(* "still pending" and "still not revoked"; a family document is updated   *)
(* by every mint, so it carries the write that last set it.                *)
(***************************************************************************)
EXTENDS Integers, FiniteSets, Firestore

CONSTANTS
    Requests,           \* requests to the authorization server
    Kinds,              \* the kinds that arrive, of those in AllKinds
    Issued,             \* requests whose pair was minted before the model starts
    TxnTTL, CodeTTL, AccessTTL, RefreshTTL,
    MINT_ATTEMPTS,
    MaxTime,            \* model bound: the clock stops there
    MaxRun              \* longest a request may take

AllKinds == {"approve", "deny", "exchange", "refresh", "access", "revoke"}

ASSUME GrantsAssumption ==
    /\ Kinds \subseteq AllKinds
    /\ Issued \subseteq Requests
    /\ {TxnTTL, CodeTTL, AccessTTL, RefreshTTL, MINT_ATTEMPTS} \subseteq Nat \ {0}
    /\ AccessTTL <= RefreshTTL
    /\ MaxTime \in Nat /\ MaxRun \in Nat

VARIABLES
    now,
    txn,            \* the status of the consent transaction
    codes,          \* [expires], by the request that approved
    tokens,         \* [family, expires, revoked], by token
    families,       \* [revoked, expires, write], by family id
    pc, kind,       \* of each request
    target,         \* the code or token it presents
    began,          \* when it started
    fam,            \* the family it mints into, or revokes
    snap,           \* the write of the family document it read
    attempts,       \* mints tried
    answer,         \* "granted", "refused" or nothing
    \* History, for the properties only:
    marked,         \* until when a family's revocation mark is retained
    condemned,      \* the tokens a family had when it was marked
    late            \* the requests that arrived with one of those

docVars == <<txn, codes, tokens, families>>
requestVars == <<kind, target, began, late>>
marks == <<marked, condemned>>
vars == <<now, docVars, pc, requestVars, fam, snap, attempts, answer, marks>>

(* A pair is named by the request that minted it, and so is the family     *)
(* of an authorization, by the request that exchanged its code.            *)
Token == {"access", "refresh"} \X Requests
Pair(t) == IF t[1] = "access" THEN <<"refresh", t[2]>> ELSE <<"access", t[2]>>
Absent == <<"absent">>

Expired(d) == d.expires <= now
Live(t) == t \in DOMAIN tokens /\ ~tokens[t].revoked /\ ~Expired(tokens[t])

RevokedIn(collection, t) == [collection EXCEPT ![t].revoked = TRUE]

RevokeOrCreate(t) ==            \* mutant: a merge instead of an update
    tokens' = IF t \in DOMAIN tokens THEN RevokedIn(tokens, t)
              ELSE Stored(tokens, t, [revoked |-> TRUE])

(* _revoke_quietly: an update finds the document or does nothing. *)
RevokeQuietly(t) == tokens' = IF t \in DOMAIN tokens THEN RevokedIn(tokens, t) ELSE tokens

Minted(r, f) ==
    [t \in DOMAIN tokens \cup ({"access", "refresh"} \X {r}) |->
        IF t[2] # r THEN tokens[t]
        ELSE [family |-> f, revoked |-> FALSE,
              expires |-> now + (IF t[1] = "access" THEN AccessTTL ELSE RefreshTTL)]]

Init ==
    /\ now = 0
    /\ txn = "pending"
    /\ codes = NoDocs
    /\ tokens = [t \in {"access", "refresh"} \X Issued |->
                    [family |-> t[2], revoked |-> FALSE,
                     expires |-> IF t[1] = "access" THEN AccessTTL ELSE RefreshTTL]]
    /\ families = [f \in Issued |->
                    [revoked |-> FALSE, expires |-> RefreshTTL, write |-> <<"mint", f>>]]
    /\ pc = [r \in Requests |-> IF r \in Issued THEN "end" ELSE "idle"]
    /\ kind = [r \in Requests |-> "exchange"]
    /\ target = [r \in Requests |-> Absent]
    /\ began = [r \in Requests |-> 0]
    /\ fam = [r \in Requests |-> r]
    /\ snap = [r \in Requests |-> Absent]
    /\ attempts = [r \in Requests |-> 0]
    /\ answer = [r \in Requests |-> IF r \in Issued THEN "granted" ELSE "none"]
    /\ marked = [f \in Requests |-> 0]
    /\ condemned = {}
    /\ late = {}

Goto(r, place) == pc' = [pc EXCEPT ![r] = place]
Answer(r, how) == Goto(r, "end") /\ answer' = [answer EXCEPT ![r] = how]

(* Codes and tokens are known to those they were handed to. *)
Presentable(k) ==
    CASE k = "exchange" ->
            {<<"code", a>> : a \in {b \in Requests : kind[b] = "approve" /\ answer[b] = "granted"}}
      [] k \in {"refresh", "access", "revoke"} ->
            {t \in Token : /\ kind[t[2]] \in {"exchange", "refresh"} /\ answer[t[2]] = "granted"
                           /\ k = "refresh" => t[1] = "refresh"
                           /\ k = "access" => t[1] = "access"}
      [] OTHER -> {Absent}

FirstStep(k) ==
    CASE k \in {"approve", "deny"} -> "txnRead"
      [] k = "exchange" -> "codeLoad"
      [] k = "refresh" -> "refreshLoad"
      [] k = "access" -> "accessLoad"
      [] OTHER -> "revokeRead"

Arrives(r) ==
    /\ pc[r] = "idle"
    /\ \E k \in Kinds : \E t \in Presentable(k) :
          /\ kind' = [kind EXCEPT ![r] = k]
          /\ target' = [target EXCEPT ![r] = t]
          /\ Goto(r, FirstStep(k))
          /\ late' = IF t \in condemned THEN late \cup {r} ELSE late
    /\ began' = [began EXCEPT ![r] = now]
    /\ UNCHANGED <<now, docVars, fam, snap, attempts, answer, marks>>

-----------------------------------------------------------------------------
(* finish_txn: complete_authorization and deny_authorization.  The         *)
(* transaction was created at time 0.                                      *)

TxnRead(r) ==
    /\ pc[r] = "txnRead"
    /\ IF txn = "pending" /\ now < TxnTTL
         THEN Goto(r, "txnWrite") /\ UNCHANGED answer
         ELSE Answer(r, "refused")
    /\ UNCHANGED <<now, docVars, requestVars, fam, snap, attempts, marks>>

TxnWrittenAnyway == TRUE        \* mutant: the update has no precondition
TxnUnchanged == txn = "pending"

TxnWrite(r) ==
    /\ pc[r] = "txnWrite"
    /\ IF ~TxnUnchanged THEN Answer(r, "refused") /\ UNCHANGED txn
       ELSE IF kind[r] = "approve"
       THEN txn' = "completed" /\ Goto(r, "codeSave") /\ UNCHANGED answer
       ELSE txn' = "denied" /\ Answer(r, "granted")
    /\ UNCHANGED <<now, codes, tokens, families, requestVars, fam, snap, attempts, marks>>

CodeSave(r) ==
    /\ pc[r] = "codeSave"
    /\ codes' = Stored(codes, r, [expires |-> now + CodeTTL])
    /\ Answer(r, "granted")
    /\ UNCHANGED <<now, txn, tokens, families, requestVars, fam, snap, attempts, marks>>

-----------------------------------------------------------------------------
(* exchange_authorization_code *)

Code(r) == target[r][2]

CodeLoad(r) ==
    /\ pc[r] = "codeLoad"
    /\ IF Code(r) \in DOMAIN codes /\ ~Expired(codes[Code(r)])
         THEN Goto(r, "codeRead") /\ UNCHANGED answer
         ELSE Answer(r, "refused")
    /\ UNCHANGED <<now, docVars, requestVars, fam, snap, attempts, marks>>

CodeRead(r) ==
    /\ pc[r] = "codeRead"
    /\ IF Code(r) \in DOMAIN codes
         THEN Goto(r, "codeDelete") /\ UNCHANGED answer
         ELSE Answer(r, "refused")
    /\ UNCHANGED <<now, docVars, requestVars, fam, snap, attempts, marks>>

CodeDeleteUnguarded(r) ==       \* mutant: the delete has no precondition
    /\ pc[r] = "codeDelete"
    /\ codes' = Deleted(codes, Code(r))
    /\ fam' = [fam EXCEPT ![r] = r]
    /\ Goto(r, "mintRead")
    /\ UNCHANGED <<now, txn, tokens, families, requestVars, snap, attempts, answer, marks>>

(* consume_code: one caller's delete finds the document; an expired code   *)
(* is gone all the same.  A code is never updated.                         *)
CodeDelete(r) ==
    /\ pc[r] = "codeDelete"
    /\ IF Code(r) \in DOMAIN codes
         THEN /\ codes' = Deleted(codes, Code(r))
              /\ IF Expired(codes[Code(r)]) THEN Answer(r, "refused")
                                           ELSE Goto(r, "mintRead") /\ UNCHANGED answer
         ELSE Answer(r, "refused") /\ UNCHANGED codes
    /\ fam' = [fam EXCEPT ![r] = r]
    /\ UNCHANGED <<now, txn, tokens, families, requestVars, snap, attempts, marks>>

-----------------------------------------------------------------------------
(* load_refresh_token, exchange_refresh_token *)

(* A token that was rotated away comes back: its family is revoked. *)
RefreshLoad(r) ==
    LET t == target[r] IN
    /\ pc[r] = "refreshLoad"
    /\ IF t \notin DOMAIN tokens \/ Expired(tokens[t])
         THEN Answer(r, "refused") /\ UNCHANGED fam
         ELSE /\ Goto(r, IF tokens[t].revoked THEN "mark" ELSE "consumeRead")
              /\ fam' = [fam EXCEPT ![r] = tokens[t].family]
              /\ UNCHANGED answer
    /\ UNCHANGED <<now, docVars, requestVars, snap, attempts, marks>>

FamilyTokens(f) == {t \in DOMAIN tokens : tokens[t].family = f}

MarkNothing(r) ==               \* mutant: only the tokens are revoked
    /\ pc[r] = "mark"
    /\ marked' = [marked EXCEPT ![fam[r]] = now + RefreshTTL]
    /\ condemned' = condemned \cup FamilyTokens(fam[r])
    /\ Goto(r, "sweep")
    /\ UNCHANGED <<now, docVars, requestVars, fam, snap, attempts, answer>>

(* revoke_token_family: the mark first, then the tokens one by one. *)
Mark(r) ==
    /\ pc[r] = "mark"
    /\ families' = Stored(families, fam[r],
                          [revoked |-> TRUE, expires |-> now + RefreshTTL,
                           write |-> <<"mark", r>>])
    /\ marked' = [marked EXCEPT ![fam[r]] = now + RefreshTTL]
    /\ condemned' = condemned \cup FamilyTokens(fam[r])
    /\ Goto(r, "sweep")
    /\ UNCHANGED <<now, txn, codes, tokens, requestVars, fam, snap, attempts, answer>>

Sweepable(r) == {t \in FamilyTokens(fam[r]) : ~tokens[t].revoked}

Sweep(r) ==
    /\ pc[r] = "sweep"
    /\ \E t \in Sweepable(r) : tokens' = RevokedIn(tokens, t)
    /\ UNCHANGED <<now, txn, codes, families, pc, requestVars, fam, snap, attempts, answer,
                   marks>>

Swept(r) ==
    /\ pc[r] = "sweep"
    /\ Sweepable(r) = {}
    /\ Answer(r, "refused")
    /\ UNCHANGED <<now, docVars, requestVars, fam, snap, attempts, marks>>

ConsumeRead(r) ==
    /\ pc[r] = "consumeRead"
    /\ IF Live(target[r]) THEN Goto(r, "consumeWrite") /\ UNCHANGED answer
                          ELSE Answer(r, "refused")
    /\ UNCHANGED <<now, docVars, requestVars, fam, snap, attempts, marks>>

ConsumableAnyway(r) == target[r] \in DOMAIN tokens  \* mutant: no precondition
Consumable(r) == target[r] \in DOMAIN tokens /\ ~tokens[target[r]].revoked

ConsumeWrite(r) ==
    /\ pc[r] = "consumeWrite"
    /\ IF Consumable(r)
         THEN tokens' = RevokedIn(tokens, target[r]) /\ Goto(r, "unpair") /\ UNCHANGED answer
         ELSE Answer(r, "refused") /\ UNCHANGED tokens
    /\ UNCHANGED <<now, txn, codes, families, requestVars, fam, snap, attempts, marks>>

Unpair(r) ==
    /\ pc[r] = "unpair"
    /\ RevokeQuietly(Pair(target[r]))
    /\ Goto(r, "mintRead")
    /\ UNCHANGED <<now, txn, codes, families, requestVars, fam, snap, attempts, answer, marks>>

-----------------------------------------------------------------------------
(* save_token_pair *)

MintRead(r) ==
    /\ pc[r] = "mintRead"
    /\ attempts' = [attempts EXCEPT ![r] = @ + 1]
    /\ IF fam[r] \in DOMAIN families /\ families[fam[r]].revoked
         THEN Answer(r, "refused") /\ UNCHANGED snap
         ELSE /\ snap' = [snap EXCEPT ![r] = IF fam[r] \in DOMAIN families
                                               THEN families[fam[r]].write ELSE Absent]
              /\ Goto(r, "mintWrite")
              /\ UNCHANGED answer
    /\ UNCHANGED <<now, docVars, requestVars, fam, marks>>

FamilyUnchangedOrNot(r) == TRUE \* mutant: the batch has no precondition
FamilyUnchanged(r) ==
    IF snap[r] = Absent THEN fam[r] \notin DOMAIN families
    ELSE fam[r] \in DOMAIN families /\ families[fam[r]].write = snap[r]

(* One batch: the family document and both tokens, or nothing. *)
MintWrite(r) ==
    /\ pc[r] = "mintWrite"
    /\ FamilyUnchanged(r)
    /\ families' = Stored(families, fam[r],
                          [revoked |-> FALSE, expires |-> now + RefreshTTL,
                           write |-> <<"mint", r>>])
    /\ tokens' = Minted(r, fam[r])
    /\ Answer(r, "granted")
    /\ UNCHANGED <<now, txn, codes, requestVars, fam, snap, attempts, marks>>

MintConflicts(r) ==
    /\ pc[r] = "mintWrite"
    /\ ~FamilyUnchanged(r)
    /\ IF attempts[r] < MINT_ATTEMPTS THEN Goto(r, "mintRead") /\ UNCHANGED answer
                                      ELSE Answer(r, "refused")
    /\ UNCHANGED <<now, docVars, requestVars, fam, snap, attempts, marks>>

-----------------------------------------------------------------------------
(* load_access_token: the token, then its family. *)

AccessLoad(r) ==
    /\ pc[r] = "accessLoad"
    /\ IF Live(target[r])
         THEN /\ Goto(r, "accessFamily")
              /\ fam' = [fam EXCEPT ![r] = tokens[target[r]].family]
              /\ UNCHANGED answer
         ELSE Answer(r, "refused") /\ UNCHANGED fam
    /\ UNCHANGED <<now, docVars, requestVars, snap, attempts, marks>>

AccessFamilyUnread(r) ==        \* mutant: the token's own flag decides
    /\ pc[r] = "accessFamily"
    /\ Answer(r, "granted")
    /\ UNCHANGED <<now, docVars, requestVars, fam, snap, attempts, marks>>

AccessFamily(r) ==
    /\ pc[r] = "accessFamily"
    /\ Answer(r, IF fam[r] \in DOMAIN families /\ families[fam[r]].revoked
                   THEN "refused" ELSE "granted")
    /\ UNCHANGED <<now, docVars, requestVars, fam, snap, attempts, marks>>

(* revoke_token: the token and its pair, whatever their state. *)
RevokeRead(r) ==
    /\ pc[r] = "revokeRead"
    /\ IF target[r] \in DOMAIN tokens THEN Goto(r, "revokeToken") /\ UNCHANGED answer
                                      ELSE Answer(r, "granted")
    /\ UNCHANGED <<now, docVars, requestVars, fam, snap, attempts, marks>>

RevokeToken(r) ==
    /\ pc[r] = "revokeToken"
    /\ RevokeQuietly(target[r])
    /\ Goto(r, "revokePair")
    /\ UNCHANGED <<now, txn, codes, families, requestVars, fam, snap, attempts, answer, marks>>

RevokePairOnce(r) ==            \* mutant: the presented token again
    /\ pc[r] = "revokePair"
    /\ RevokeQuietly(target[r])
    /\ Answer(r, "granted")
    /\ UNCHANGED <<now, txn, codes, families, requestVars, fam, snap, attempts, marks>>

RevokePair(r) ==
    /\ pc[r] = "revokePair"
    /\ RevokeQuietly(Pair(target[r]))
    /\ Answer(r, "granted")
    /\ UNCHANGED <<now, txn, codes, families, requestVars, fam, snap, attempts, marks>>

-----------------------------------------------------------------------------
(* A server dies, a Firestore request raises, the client hangs up. *)
Dies(r) ==
    /\ pc[r] \notin {"idle", "end"}
    /\ Goto(r, "end")
    /\ UNCHANGED <<now, docVars, requestVars, fam, snap, attempts, answer, marks>>

(* The TTL policy deletes expired documents, sooner or later. *)
Collects ==
    /\ \/ \E c \in DOMAIN codes :
             Expired(codes[c]) /\ codes' = Deleted(codes, c) /\ UNCHANGED <<tokens, families>>
       \/ \E t \in DOMAIN tokens :
             Expired(tokens[t]) /\ tokens' = Deleted(tokens, t) /\ UNCHANGED <<codes, families>>
       \/ \E f \in DOMAIN families :
             /\ Expired(families[f])
             /\ families' = Deleted(families, f)
             /\ UNCHANGED <<codes, tokens>>
    /\ UNCHANGED <<now, txn, pc, requestVars, fam, snap, attempts, answer, marks>>

Tick ==
    /\ now < MaxTime
    /\ \A r \in Requests : pc[r] \notin {"idle", "end"} => now < began[r] + MaxRun
    /\ now' = now + 1
    /\ UNCHANGED <<docVars, pc, requestVars, fam, snap, attempts, answer, marks>>

Step(r) ==
    \/ TxnRead(r) \/ TxnWrite(r) \/ CodeSave(r)
    \/ CodeLoad(r) \/ CodeRead(r) \/ CodeDelete(r)
    \/ RefreshLoad(r) \/ Mark(r) \/ Sweep(r) \/ Swept(r)
    \/ ConsumeRead(r) \/ ConsumeWrite(r) \/ Unpair(r)
    \/ MintRead(r) \/ MintWrite(r) \/ MintConflicts(r)
    \/ AccessLoad(r) \/ AccessFamily(r)
    \/ RevokeRead(r) \/ RevokeToken(r) \/ RevokePair(r)

Next == (\E r \in Requests : Arrives(r) \/ Step(r) \/ Dies(r)) \/ Collects \/ Tick

Spec == Init /\ [][Next]_vars

-----------------------------------------------------------------------------
(* Properties.                                                             *)

Families == Requests
Places == {"idle", "end", "txnRead", "txnWrite", "codeSave", "codeLoad", "codeRead",
           "codeDelete", "refreshLoad", "mark", "sweep", "consumeRead", "consumeWrite",
           "unpair", "mintRead", "mintWrite", "accessLoad", "accessFamily", "revokeRead",
           "revokeToken", "revokePair"}
Writes == {"mint", "mark"} \X Requests

(* Every variable stays within its type; a mint is tried at most           *)
(* MINT_ATTEMPTS times.                                                    *)
TypeOK ==
    /\ now \in 0 .. MaxTime
    /\ txn \in {"pending", "completed", "denied"}
    /\ DOMAIN codes \subseteq Requests
    /\ \A c \in DOMAIN codes : codes[c] \in [expires : Nat]
    /\ DOMAIN tokens \subseteq Token
    /\ \A t \in DOMAIN tokens :
          tokens[t] \in [family : Families, revoked : BOOLEAN, expires : Nat]
    /\ DOMAIN families \subseteq Families
    /\ \A f \in DOMAIN families :
          families[f] \in [revoked : BOOLEAN, expires : Nat, write : Writes]
    /\ pc \in [Requests -> Places]
    /\ kind \in [Requests -> AllKinds]
    /\ target \in [Requests -> {Absent} \cup Token \cup ({"code"} \X Requests)]
    /\ began \in [Requests -> Nat]
    /\ fam \in [Requests -> Families]
    /\ snap \in [Requests -> {Absent} \cup Writes]
    /\ attempts \in [Requests -> 0 .. MINT_ATTEMPTS]
    /\ answer \in [Requests -> {"none", "granted", "refused"}]
    /\ marked \in [Families -> Nat]
    /\ condemned \subseteq Token
    /\ late \subseteq Requests

(* Between the end of one token and the minting of its successors. *)
Minting(r) == pc[r] \in {"unpair", "mintRead", "mintWrite"}

(* A consent page is answered once and worth one family: however           *)
(* approvals, denials and exchanges race and whatever dies, one of the     *)
(* answers counts, and at most one exchange gets past the code.            *)
OneGrantPerConsent ==
    LET verdicts == {r \in Requests :
                        kind[r] \in {"approve", "deny"} /\ answer[r] = "granted"}
        grants == {r \in Requests \ Issued :
                      kind[r] = "exchange" /\ (Minting(r) \/ answer[r] = "granted")}
    IN  Cardinality(verdicts) <= 1 /\ Cardinality(grants) <= 1

(* Rotation keeps a family a chain: of its refresh tokens at most one is   *)
(* not revoked, and none while a rotation is under way.                    *)
OneHeir ==
    \A f \in Families :
        Cardinality({r \in Requests : <<"refresh", r>> \in DOMAIN tokens
                        /\ tokens[<<"refresh", r>>].family = f
                        /\ ~tokens[<<"refresh", r>>].revoked}
                    \cup {r \in Requests : Minting(r) /\ fam[r] = f}) <= 1

(* A replayed refresh token ends its family at once: for as long as the    *)
(* mark is to be retained the family document says so, even if the sweep   *)
(* over the tokens never finished and a mint was already under way.        *)
MarkHolds ==
    \A f \in Families : now < marked[f] => f \in DOMAIN families /\ families[f].revoked

(* No pair is minted into a family that is marked. *)
NoMintIntoMarked ==
    [][\A t \in DOMAIN tokens' \ DOMAIN tokens : ~(now < marked[tokens'[t].family])]_vars

(* An access token its family had when the mark was written never lets in  *)
(* another request, though no sweep ever reached it: the family document   *)
(* outlives it.                                                            *)
CondemnedStayOut ==
    \A r \in Requests : kind[r] = "access" /\ answer[r] = "granted" => r \notin late

(* A revocation that was answered leaves no half of a known pair behind,   *)
(* though rotations and sweeps write the same documents meanwhile.         *)
RevokedTogether ==
    \A r \in Requests :
        kind[r] = "revoke" /\ answer[r] = "granted" /\ target[r] \in DOMAIN tokens
            => ~Live(target[r]) /\ ~Live(Pair(target[r]))
=============================================================================
