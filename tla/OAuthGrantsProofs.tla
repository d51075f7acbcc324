--------------------------- MODULE OAuthGrantsProofs ---------------------------
(***************************************************************************)
(* Proofs about OAuthGrants, for every value of its constants.             *)
(*                                                                         *)
(* Marks: a request that is about to write a family document remembers a   *)
(* write by a mint, so it cannot pass over a mark.                         *)
(* Rotation: while a request holds the end of a family's chain the family  *)
(* has no refresh token that is not revoked, and no second such request.   *)
(*                                                                         *)
(* And about the answers it gives.                                         *)
(* Flow: a request is where its kind goes, and is answered when it ends.   *)
(* Consent: the transaction turns once, so its code is stored by one       *)
(* request, and who deletes that code leaves none for another exchange.    *)
(* Revocation: a token's name is minted once, so what was revoked or is    *)
(* gone never comes back.                                                  *)
(* Condemned tokens: a family's mark is retained for longer than any       *)
(* access token the family had, by more than a request takes.              *)
(***************************************************************************)
EXTENDS OAuthGrants, FiniteSetTheorems, TLAPS

-----------------------------------------------------------------------------
(* What both arguments need of the types.                                  *)

PlaceTypes ==
    /\ pc \in [Requests -> Places]
    /\ fam \in [Requests -> Families]
    /\ DOMAIN tokens \subseteq Token
    /\ \A t \in DOMAIN tokens :
          tokens[t] \in [family : Families, revoked : BOOLEAN, expires : Nat]

GrantTypes ==
    /\ now \in Nat
    /\ DOMAIN target = Requests /\ DOMAIN snap = Requests
    /\ marked \in [Families -> Nat]
    /\ PlaceTypes

-----------------------------------------------------------------------------
(* Marks.                                                                  *)

MarkInv ==
    /\ \A f \in Families : now < marked[f] =>
          f \in DOMAIN families /\ families[f].revoked /\ families[f].expires >= marked[f]
    /\ \A f \in DOMAIN families :
          /\ families[f].expires \in Nat
          /\ families[f].revoked <=> families[f].write[1] = "mark"
    /\ \A r \in Requests : snap[r][1] # "mark"

-----------------------------------------------------------------------------
(* Rotation.                                                               *)

Refreshing(r) == pc[r] \in {"refreshLoad", "consumeRead", "consumeWrite"}
Consuming(r) == pc[r] \in {"consumeRead", "consumeWrite"}

(* A refresh token of family f that is not revoked. *)
Heir(t, f) ==
    t \in DOMAIN tokens /\ t[1] = "refresh" /\ tokens[t].family = f /\ ~tokens[t].revoked

(* Nothing is in the store, or presented, before it was minted. *)
KnownTokens == \A t \in DOMAIN tokens : pc[t[2]] = "end" /\ pc[tokens[t].family] = "end"

KnownTarget(r) ==
    /\ Refreshing(r) => target[r] \in Token /\ target[r][1] = "refresh"
    /\ Consuming(r) =>
          /\ pc[target[r][2]] = "end" /\ pc[fam[r]] = "end"
          /\ target[r] \in DOMAIN tokens => tokens[target[r]].family = fam[r]
    /\ Minting(r) => fam[r] = r \/ pc[fam[r]] = "end"

Known == KnownTokens /\ \A r \in Requests : KnownTarget(r)

Chain ==
    /\ \A r \in Requests : Minting(r) => \A t \in Token : ~Heir(t, fam[r])
    /\ \A r, q \in Requests : Minting(r) /\ Minting(q) /\ fam[r] = fam[q] => r = q
    /\ \A f \in Families : \A t, u \in Token : Heir(t, f) /\ Heir(u, f) => t = u

HeirInv == Known /\ Chain
-----------------------------------------------------------------------------
(* Steps by what they do to the tokens and to their request.               *)

(* Tokens are revoked or collected, and never anything else. *)
TokensFade ==
    /\ DOMAIN tokens' \subseteq DOMAIN tokens
    /\ \A t \in DOMAIN tokens' :
          /\ tokens'[t] \in [family : Families, revoked : BOOLEAN, expires : Nat]
          /\ tokens'[t].family = tokens[t].family /\ tokens'[t].expires = tokens[t].expires
          /\ tokens[t].revoked => tokens'[t].revoked

(* Request r goes on without taking hold of a chain. *)
Passes(r) ==
    /\ TokensFade
    /\ UNCHANGED <<target, fam>>
    /\ pc[r] # "end"
    /\ \E next \in Places \ {"refreshLoad", "consumeRead"} :
          /\ pc' = [pc EXCEPT ![r] = next]
          /\ next = "consumeWrite" => pc[r] = "consumeRead"
          /\ next \in {"unpair", "mintRead", "mintWrite"} => Minting(r)

LEMMA Revoking ==
    ASSUME NEW t, GrantTypes, tokens' = RevokedIn(tokens, t) \/ tokens' = tokens
    PROVE  TokensFade
<1>1. DOMAIN tokens' = DOMAIN tokens
  BY DEF RevokedIn
<1>2. ASSUME NEW u \in DOMAIN tokens
      PROVE  tokens'[u] = tokens[u] \/ tokens'[u] = [tokens[u] EXCEPT !.revoked = TRUE]
  BY DEF RevokedIn
<1>3. ASSUME NEW u \in DOMAIN tokens
      PROVE  /\ tokens'[u] \in [family : Families, revoked : BOOLEAN, expires : Nat]
             /\ tokens'[u].family = tokens[u].family /\ tokens'[u].expires = tokens[u].expires
             /\ tokens[u].revoked => tokens'[u].revoked
  <2>1. tokens[u] \in [family : Families, revoked : BOOLEAN, expires : Nat]
    BY DEF GrantTypes, PlaceTypes
  <2> QED
    BY <1>2, <2>1
<1> QED
  BY <1>1, <1>3 DEF TokensFade

LEMMA Collecting ==
    ASSUME NEW t, GrantTypes, tokens' = Deleted(tokens, t)
    PROVE  TokensFade
BY DEF Deleted, GrantTypes, PlaceTypes, TokensFade

LEMMA PassingSteps ==
    ASSUME NEW r \in Requests, GrantTypes,
           \/ TxnRead(r) \/ TxnWrite(r) \/ CodeSave(r) \/ CodeLoad(r) \/ CodeRead(r)
           \/ Swept(r) \/ ConsumeRead(r) \/ Unpair(r) \/ MintRead(r) \/ MintConflicts(r)
           \/ AccessFamily(r) \/ RevokeRead(r) \/ RevokeToken(r) \/ RevokePair(r) \/ Dies(r)
           \/ Mark(r)
    PROVE  Passes(r)
<1> USE DEF Goto, Answer, docVars, requestVars, marks, Places, Minting, Passes
<1>1. CASE UNCHANGED tokens
  <2>1. TokensFade
    BY <1>1, Revoking
  <2>2. CASE TxnRead(r) \/ TxnWrite(r) \/ CodeSave(r) \/ CodeLoad(r) \/ CodeRead(r)
    BY <2>1, <2>2 DEF TxnRead, TxnWrite, CodeSave, CodeLoad, CodeRead
  <2>3. CASE Swept(r) \/ ConsumeRead(r) \/ MintRead(r) \/ MintConflicts(r)
    BY <2>1, <2>3 DEF Swept, ConsumeRead, MintRead, MintConflicts
  <2>4. CASE AccessFamily(r) \/ RevokeRead(r) \/ Dies(r) \/ Mark(r)
    BY <2>1, <2>4 DEF AccessFamily, RevokeRead, Dies, Mark
  <2>5. CASE Unpair(r) \/ RevokeToken(r) \/ RevokePair(r)
    BY <2>1, <2>5 DEF Unpair, RevokeToken, RevokePair
  <2> QED
    BY <2>2, <2>3, <2>4, <2>5
<1>2. CASE ~UNCHANGED tokens
  <2>1. Unpair(r) \/ RevokeToken(r) \/ RevokePair(r)
    BY <1>2 DEF TxnRead, TxnWrite, CodeSave, CodeLoad, CodeRead, Swept, ConsumeRead, MintRead,
       MintConflicts, AccessFamily, RevokeRead, Dies, Mark
  <2>2. TokensFade
    BY <2>1, Revoking DEF Unpair, RevokeToken, RevokePair, RevokeQuietly
  <2> QED
    BY <2>1, <2>2 DEF Unpair, RevokeToken, RevokePair
<1> QED
  BY <1>1, <1>2

(* A request that meets a live or a rotated token takes its family. *)
LEMMA Loading ==
    ASSUME NEW r \in Requests, GrantTypes, RefreshLoad(r) \/ AccessLoad(r)
    PROVE  \/ Passes(r)
           \/ /\ UNCHANGED <<tokens, target>>
              /\ target[r] \in DOMAIN tokens
              /\ fam' = [fam EXCEPT ![r] = tokens[target[r]].family]
              /\ \/ /\ pc[r] = "refreshLoad"
                    /\ \/ pc' = [pc EXCEPT ![r] = "mark"]
                       \/ pc' = [pc EXCEPT ![r] = "consumeRead"]
                 \/ pc[r] = "accessLoad" /\ pc' = [pc EXCEPT ![r] = "accessFamily"]
<1>1. TokensFade
  BY Revoking DEF RefreshLoad, AccessLoad, docVars
<1>2. CASE AccessLoad(r)
  BY <1>1, <1>2 DEF AccessLoad, Live, Goto, Answer, docVars, requestVars, Places, Passes
<1>3. CASE RefreshLoad(r)
  BY <1>1, <1>3 DEF RefreshLoad, Goto, Answer, docVars, requestVars, Places, Passes
<1> QED
  BY <1>2, <1>3

(* What the batch of a mint leaves in the store. *)
LEMMA MintedPair ==
    ASSUME NEW r \in Requests, GrantTypes, MintWrite(r)
    PROVE  /\ DOMAIN tokens' = DOMAIN tokens \cup ({"access", "refresh"} \X {r})
           /\ \A t \in DOMAIN tokens : t[2] # r => tokens'[t] = tokens[t]
           /\ \A t \in {"access", "refresh"} \X {r} :
                 /\ tokens'[t] \in [family : Families, revoked : BOOLEAN, expires : Nat]
                 /\ tokens'[t].family = fam[r]
<1>1. tokens' = Minted(r, fam[r]) /\ fam[r] \in Families
  BY DEF MintWrite, GrantTypes, PlaceTypes
<1>2. now + AccessTTL \in Nat /\ now + RefreshTTL \in Nat
  BY GrantsAssumption DEF GrantTypes, PlaceTypes
<1>3. \A t \in {"access", "refresh"} \X {r} : t[2] = r
  OBVIOUS
<1> QED
  BY <1>1, <1>2, <1>3 DEF Minted

-----------------------------------------------------------------------------
(* Types.                                                                  *)

LEMMA TypesInit == Init => GrantTypes
<1> SUFFICES ASSUME Init PROVE GrantTypes
  OBVIOUS
<1>1. AccessTTL \in Nat /\ RefreshTTL \in Nat /\ Issued \subseteq Requests
  BY GrantsAssumption
<1>2. /\ DOMAIN tokens \subseteq Token
      /\ \A t \in DOMAIN tokens :
            tokens[t] \in [family : Families, revoked : BOOLEAN, expires : Nat]
  BY <1>1 DEF Init, Token, Families
<1> QED
  BY <1>2 DEF Init, GrantTypes, PlaceTypes, Families, Places

LEMMA TypesNext == GrantTypes /\ [Next]_vars => GrantTypes'
<1> SUFFICES ASSUME GrantTypes, [Next]_vars PROVE GrantTypes'
  OBVIOUS
<1>1. now' \in Nat /\ DOMAIN snap' = Requests /\ DOMAIN target' = Requests
  <2> USE DEF GrantTypes, PlaceTypes, vars, docVars, requestVars, marks
  <2>1. CASE Tick \/ Collects \/ UNCHANGED vars
    BY <2>1 DEF Tick, Collects
  <2>2. ASSUME NEW r \in Requests, Arrives(r) \/ Step(r) \/ Dies(r)
        PROVE  now' = now /\ DOMAIN snap' = Requests /\ DOMAIN target' = Requests
    BY <2>2 DEF Arrives, Step, Dies, TxnRead, TxnWrite, CodeSave, CodeLoad, CodeRead, CodeDelete,
       RefreshLoad, Mark, Sweep, Swept, ConsumeRead, ConsumeWrite, Unpair, MintRead, MintWrite,
       MintConflicts, AccessLoad, AccessFamily, RevokeRead, RevokeToken, RevokePair
  <2> QED
    BY <2>1, <2>2 DEF Next
<1>2. marked' \in [Families -> Nat]
  <2> USE DEF GrantTypes, PlaceTypes, vars, docVars, requestVars, marks
  <2>1. CASE Tick \/ Collects \/ UNCHANGED vars
    BY <2>1 DEF Tick, Collects
  <2>2. ASSUME NEW r \in Requests, Arrives(r) \/ Step(r) \/ Dies(r)
        PROVE  marked' \in [Families -> Nat]
    <3>1. marked' = marked \/ marked' = [marked EXCEPT ![fam[r]] = now + RefreshTTL]
      BY <2>2 DEF Arrives, Step, Dies, TxnRead, TxnWrite, CodeSave, CodeLoad, CodeRead,
         CodeDelete, RefreshLoad, Mark, Sweep, Swept, ConsumeRead, ConsumeWrite, Unpair, MintRead,
         MintWrite, MintConflicts, AccessLoad, AccessFamily, RevokeRead, RevokeToken, RevokePair
    <3>2. now + RefreshTTL \in Nat
      BY GrantsAssumption
    <3> QED
      BY <3>1, <3>2
  <2> QED
    BY <2>1, <2>2 DEF Next
<1>3. PlaceTypes'
  <2>1. ASSUME TokensFade, UNCHANGED <<pc, fam>>
        PROVE  PlaceTypes'
    BY <2>1 DEF TokensFade, GrantTypes, PlaceTypes
  <2>2. ASSUME NEW r \in Requests, Passes(r)
        PROVE  PlaceTypes'
    BY <2>2 DEF Passes, TokensFade, GrantTypes, PlaceTypes
  <2>3. CASE Tick \/ Collects \/ UNCHANGED vars
    <3>1. TokensFade /\ UNCHANGED <<pc, fam>>
      BY <2>3, Revoking, Collecting DEF Tick, Collects, vars, docVars
    <3> QED
      BY <2>1, <3>1
  <2>4. ASSUME NEW r \in Requests, Arrives(r) \/ Step(r) \/ Dies(r)
        PROVE  PlaceTypes'
    <3>1. CASE Arrives(r)
      <4>1. UNCHANGED <<tokens, fam>> /\ \E k \in AllKinds : pc' = [pc EXCEPT ![r] = FirstStep(k)]
        BY <3>1, GrantsAssumption DEF Arrives, Goto, docVars
      <4> QED
        BY <4>1 DEF FirstStep, AllKinds, Places, GrantTypes, PlaceTypes
    <3>2. CASE CodeDelete(r)
      BY <3>2 DEF CodeDelete, Answer, Goto, GrantTypes, PlaceTypes, Places, Families
    <3>3. CASE RefreshLoad(r) \/ AccessLoad(r)
      BY <2>2, <3>3, Loading DEF GrantTypes, PlaceTypes, Places
    <3>4. CASE Sweep(r)
      <4>1. TokensFade /\ UNCHANGED <<pc, fam>>
        BY <3>4, Revoking DEF Sweep
      <4> QED
        BY <2>1, <4>1
    <3>5. CASE ConsumeWrite(r)
      <4>1. TokensFade /\ UNCHANGED fam
        BY <3>5, Revoking DEF ConsumeWrite, requestVars
      <4>2. pc' \in [Requests -> Places]
        BY <3>5 DEF ConsumeWrite, Goto, Answer, Places, GrantTypes, PlaceTypes
      <4> QED
        BY <4>1, <4>2 DEF TokensFade, GrantTypes, PlaceTypes
    <3>6. CASE MintWrite(r)
      <4>1. /\ fam' = fam /\ pc' = [pc EXCEPT ![r] = "end"]
            /\ {"access", "refresh"} \X {r} \subseteq Token
        BY <3>6 DEF MintWrite, Answer, Goto, requestVars, Token
      <4>2. \A t \in Token : t[2] # r \/ t \in {"access", "refresh"} \X {r}
        BY DEF Token
      <4> QED
        BY <3>6, <4>1, <4>2, MintedPair DEF GrantTypes, PlaceTypes, Places
    <3> QED
      BY <2>2, <2>4, <3>1, <3>2, <3>3, <3>4, <3>5, <3>6, PassingSteps DEF Step
  <2> QED
    BY <2>3, <2>4 DEF Next
<1> QED
  BY <1>1, <1>2, <1>3 DEF GrantTypes, PlaceTypes

-----------------------------------------------------------------------------
(* Marks.                                                                  *)

LEMMA MarkInit == Init => MarkInv
BY GrantsAssumption DEF Init, MarkInv, Families, Absent

LEMMA MarkNext == GrantTypes /\ MarkInv /\ [Next]_vars => MarkInv'
<1> SUFFICES ASSUME GrantTypes, MarkInv, [Next]_vars PROVE MarkInv'
  OBVIOUS
<1>1. now \in Nat /\ marked \in [Families -> Nat]
  BY DEF GrantTypes
<1>2. ASSUME UNCHANGED <<families, marked, now, snap>>
      PROVE  MarkInv'
  BY <1>2 DEF MarkInv
<1>3. CASE UNCHANGED vars
  BY <1>2, <1>3 DEF vars, docVars, marks
<1>4. CASE Tick
  <2>1. UNCHANGED <<families, marked, snap>> /\ now' = now + 1
    BY <1>4 DEF Tick, docVars, marks
  <2> QED
    BY <1>1, <2>1 DEF MarkInv
<1>5. CASE Collects
  <2>1. UNCHANGED <<marked, snap, now>>
    BY <1>5 DEF Collects, marks
  <2>2. PICK f : families' = families \/ (Expired(families[f]) /\ families' = Deleted(families, f))
    BY <1>5 DEF Collects
  <2>3. CASE Expired(families[f]) /\ families' = Deleted(families, f)
    <3>1. \A g \in Families : now < marked[g] => g # f
      BY <1>1, <2>3 DEF MarkInv, Expired
    <3> QED
      BY <2>1, <2>3, <3>1 DEF MarkInv, Deleted
  <2> QED
    BY <1>2, <2>1, <2>2, <2>3
<1>6. ASSUME NEW r \in Requests, Mark(r)
      PROVE  MarkInv'
  <2>1. fam[r] \in Families /\ now + RefreshTTL \in Nat
    BY GrantsAssumption DEF GrantTypes, PlaceTypes
  <2>2. UNCHANGED <<snap, now>>
    BY <1>6 DEF Mark
  <2>3. marked' = [marked EXCEPT ![fam[r]] = now + RefreshTTL]
    BY <1>6 DEF Mark
  <2>4. families' = Stored(families, fam[r],
                      [revoked |-> TRUE, expires |-> now + RefreshTTL, write |-> <<"mark", r>>])
    BY <1>6 DEF Mark
  <2> QED
    BY <1>1, <2>1, <2>2, <2>3, <2>4 DEF MarkInv, Stored
<1>7. ASSUME NEW r \in Requests, MintRead(r)
      PROVE  MarkInv'
  <2>1. UNCHANGED <<families, marked, now>>
    BY <1>7 DEF MintRead, docVars, marks
  <2>2. \/ snap' = snap
        \/ /\ \/ fam[r] \notin DOMAIN families /\ snap' = [snap EXCEPT ![r] = Absent]
              \/ /\ fam[r] \in DOMAIN families /\ ~families[fam[r]].revoked
                 /\ snap' = [snap EXCEPT ![r] = families[fam[r]].write]
    BY <1>7 DEF MintRead
  <2>3. Absent[1] # "mark"
    BY DEF Absent
  <2>4. \A q \in Requests : snap'[q][1] # "mark"
    BY <2>2, <2>3 DEF MarkInv, GrantTypes
  <2> QED
    BY <2>1, <2>4 DEF MarkInv
<1>8. ASSUME NEW r \in Requests, MintWrite(r)
      PROVE  MarkInv'
  <2>1. /\ UNCHANGED <<marked, now, snap>>
        /\ families' = Stored(families, fam[r],
                        [revoked |-> FALSE, expires |-> now + RefreshTTL, write |-> <<"mint", r>>])
    BY <1>8 DEF MintWrite, marks
  <2>2. fam[r] \in Families /\ ~(now < marked[fam[r]]) /\ now + RefreshTTL \in Nat
    BY <1>8, GrantsAssumption DEF MintWrite, FamilyUnchanged, MarkInv, GrantTypes, PlaceTypes
  <2> QED
    BY <2>1, <2>2 DEF MarkInv, Stored
<1>9. ASSUME NEW r \in Requests, Arrives(r) \/ Step(r) \/ Dies(r)
      PROVE  MarkInv'
  <2>1. CASE Mark(r) \/ MintRead(r) \/ MintWrite(r)
    BY <1>6, <1>7, <1>8, <2>1
  <2>2. CASE ~(Mark(r) \/ MintRead(r) \/ MintWrite(r))
    <3>1. UNCHANGED <<families, marked, now, snap>>
      BY <1>9, <2>2 DEF Arrives, Step, Dies, TxnRead, TxnWrite, CodeSave, CodeLoad, CodeRead,
         CodeDelete, RefreshLoad, Sweep, Swept, ConsumeRead, ConsumeWrite, Unpair, MintConflicts,
         AccessLoad, AccessFamily, RevokeRead, RevokeToken, RevokePair, docVars, marks
    <3> QED
      BY <1>2, <3>1
  <2> QED
    BY <2>1, <2>2
<1> QED
  BY <1>3, <1>4, <1>5, <1>9 DEF Next

(* The replay of a rotated refresh token ends its family: whatever mint or *)
(* collection is under way, and if no sweep ever finishes, the family      *)
(* document says revoked for as long as the mark is to be retained         *)
(* (revoke_token_family, save_token_pair).                                 *)
THEOREM GrantsMarkHolds == Spec => []MarkHolds
<1>1. MarkInv => MarkHolds
  BY DEF MarkInv, MarkHolds
<1> QED
  BY <1>1, TypesInit, TypesNext, MarkInit, MarkNext, PTL DEF Spec

(* No pair is minted into a family while it is marked: the batch of        *)
(* save_token_pair either precedes the mark or fails its precondition.     *)
THEOREM GrantsNoMintIntoMarked == Spec => NoMintIntoMarked
<1>1. GrantTypes /\ MarkInv /\ [Next]_vars =>
        [\A t \in DOMAIN tokens' \ DOMAIN tokens : ~(now < marked[tokens'[t].family])]_vars
  <2> SUFFICES ASSUME GrantTypes, MarkInv, Next
               PROVE  \A t \in DOMAIN tokens' \ DOMAIN tokens :
                          ~(now < marked[tokens'[t].family])
    OBVIOUS
  <2>1. ASSUME NEW r \in Requests, MintWrite(r), NEW t \in DOMAIN tokens' \ DOMAIN tokens
        PROVE  ~(now < marked[tokens'[t].family])
    <3>1. tokens'[t].family = fam[r]
      BY <2>1, MintedPair
    <3>2. ~(now < marked[fam[r]])
      BY <2>1 DEF MintWrite, FamilyUnchanged, MarkInv, GrantTypes, PlaceTypes
    <3> QED
      BY <3>1, <3>2
  <2>2. ASSUME NEW r \in Requests, Arrives(r) \/ Step(r) \/ Dies(r), ~MintWrite(r)
        PROVE  DOMAIN tokens' \subseteq DOMAIN tokens
    <3>1. CASE Arrives(r) \/ CodeDelete(r)
      BY <3>1 DEF Arrives, CodeDelete, docVars
    <3>2. CASE Sweep(r) \/ ConsumeWrite(r)
      BY <3>2, Revoking DEF Sweep, ConsumeWrite, TokensFade
    <3> QED
      BY <2>2, <3>1, <3>2, PassingSteps, Loading DEF Step, Passes, TokensFade
  <2>3. CASE Tick \/ Collects
    BY <2>3 DEF Tick, Collects, Deleted, docVars
  <2> QED
    BY <2>1, <2>2, <2>3 DEF Next
<1> QED
  BY <1>1, TypesInit, TypesNext, MarkInit, MarkNext, PTL DEF Spec, NoMintIntoMarked

-----------------------------------------------------------------------------
(* Rotation.                                                               *)

LEMMA HeirInit == Init => HeirInv
<1> SUFFICES ASSUME Init PROVE HeirInv
  OBVIOUS
<1>1. Issued \subseteq Requests
  BY GrantsAssumption
<1>2. \A r \in Requests : pc[r] \in {"idle", "end"}
  BY DEF Init
<1>3. \A t \in DOMAIN tokens : t[2] \in Issued /\ tokens[t].family = t[2]
  BY DEF Init
<1>4. Known
  BY <1>1, <1>2, <1>3 DEF Init, Known, KnownTokens, KnownTarget, Refreshing, Consuming, Minting
<1>5. Chain
  BY <1>2, <1>3 DEF Chain, Heir, Minting, Token
<1> QED
  BY <1>4, <1>5 DEF HeirInv

LEMMA HeirFades ==
    ASSUME GrantTypes, HeirInv, TokensFade, UNCHANGED <<pc, target, fam>>
    PROVE  HeirInv'
<1>1. \A t \in Token : \A f : Heir(t, f)' => Heir(t, f)
  BY DEF Heir, TokensFade, GrantTypes, PlaceTypes
<1>2. Known'
  BY DEF HeirInv, Known, KnownTokens, KnownTarget, TokensFade, Refreshing, Consuming, Minting
<1>3. Chain'
  BY <1>1 DEF HeirInv, Chain, Minting
<1> QED
  BY <1>2, <1>3 DEF HeirInv

LEMMA HeirPasses ==
    ASSUME NEW r \in Requests, GrantTypes, HeirInv, Passes(r)
    PROVE  HeirInv'
<1>1. \A t \in Token : \A f : Heir(t, f)' => Heir(t, f)
  BY DEF Heir, Passes, TokensFade
<1>2. \A q \in Requests :
        /\ pc[q] = "end" => pc'[q] = "end"
        /\ Minting(q)' => Minting(q)
        /\ Refreshing(q)' => Refreshing(q)
        /\ Consuming(q)' => Consuming(q)
  BY DEF Passes, GrantTypes, PlaceTypes, Minting, Refreshing, Consuming
<1>3. UNCHANGED <<target, fam>> /\ TokensFade
  BY DEF Passes
<1>4. \A t \in DOMAIN tokens : t[2] \in Requests /\ tokens[t].family \in Requests
  BY DEF GrantTypes, PlaceTypes, Token, Families
<1>5. \A q \in Requests : fam[q] \in Requests
  BY DEF GrantTypes, PlaceTypes, Families
<1>6. \A t \in Token : t[2] \in Requests
  BY DEF Token
<1>7. Known'
  <2>1. \A t \in DOMAIN tokens' : pc'[t[2]] = "end" /\ pc'[tokens'[t].family] = "end"
    BY <1>2, <1>3, <1>4 DEF HeirInv, Known, KnownTokens, KnownTarget, TokensFade
  <2>2. \A q \in Requests : Refreshing(q)' => target'[q] \in Token /\ target'[q][1] = "refresh"
    BY <1>2, <1>3 DEF HeirInv, Known, KnownTokens, KnownTarget
  <2>3. ASSUME NEW q \in Requests, Consuming(q)'
        PROVE  /\ pc'[target'[q][2]] = "end" /\ pc'[fam'[q]] = "end"
               /\ target'[q] \in DOMAIN tokens' => tokens'[target'[q]].family = fam'[q]
    <3>1. Consuming(q) /\ target[q] \in Token
      BY <1>2, <2>3 DEF HeirInv, Known, KnownTokens, KnownTarget, Refreshing, Consuming
    <3> QED
      BY <1>2, <1>3, <1>5, <1>6, <3>1 DEF HeirInv, Known, KnownTokens, KnownTarget, TokensFade
  <2>4. \A q \in Requests : Minting(q)' => fam'[q] = q \/ pc'[fam'[q]] = "end"
    BY <1>2, <1>3, <1>5 DEF HeirInv, Known, KnownTokens, KnownTarget
  <2> QED
    BY <2>1, <2>2, <2>3, <2>4 DEF Known, KnownTokens, KnownTarget
<1>8. Chain'
  BY <1>1, <1>2, <1>3 DEF HeirInv, Chain
<1> QED
  BY <1>7, <1>8 DEF HeirInv

(* Between idle and the first step of a request nothing is held. *)
LEMMA HeirArrives ==
    ASSUME NEW r \in Requests, GrantTypes, HeirInv, Arrives(r)
    PROVE  HeirInv'
<1>0. PICK k \in Kinds : \E t \in Presentable(k) :
        target' = [target EXCEPT ![r] = t] /\ pc' = [pc EXCEPT ![r] = FirstStep(k)]
  BY DEF Arrives, Goto
<1>1. PICK t \in Presentable(k) :
        target' = [target EXCEPT ![r] = t] /\ pc' = [pc EXCEPT ![r] = FirstStep(k)]
  BY <1>0
<1>2. UNCHANGED <<tokens, fam>> /\ pc[r] = "idle"
  BY DEF Arrives, docVars
<1>3. \/ FirstStep(k) \in {"txnRead", "codeLoad", "accessLoad", "revokeRead"}
      \/ FirstStep(k) = "refreshLoad" /\ t \in Token /\ t[1] = "refresh"
  BY GrantsAssumption DEF FirstStep, Presentable, AllKinds
<1>4. \A q \in Requests :
        /\ pc[q] = "end" => pc'[q] = "end"
        /\ Minting(q)' => Minting(q)
        /\ Refreshing(q)' => (q = r /\ t \in Token /\ t[1] = "refresh") \/ (q # r /\ Refreshing(q))
        /\ Consuming(q)' => q # r /\ Consuming(q)
  BY <1>1, <1>2, <1>3 DEF GrantTypes, PlaceTypes, Minting, Refreshing, Consuming
<1>5. \A q \in Requests : q # r => target'[q] = target[q]
  BY <1>1
<1>6. Known'
  <2>1. \A u \in DOMAIN tokens' : pc'[u[2]] = "end" /\ pc'[tokens'[u].family] = "end"
    BY <1>2, <1>4 DEF HeirInv, Known, KnownTokens, KnownTarget, GrantTypes, PlaceTypes, Token, Families
  <2>2. \A q \in Requests : Refreshing(q)' => target'[q] \in Token /\ target'[q][1] = "refresh"
    BY <1>1, <1>4, <1>5 DEF HeirInv, Known, KnownTokens, KnownTarget, GrantTypes
  <2>3. ASSUME NEW q \in Requests, Consuming(q)'
        PROVE  /\ pc'[target'[q][2]] = "end" /\ pc'[fam'[q]] = "end"
               /\ target'[q] \in DOMAIN tokens' => tokens'[target'[q]].family = fam'[q]
    <3>1. Consuming(q) /\ target'[q] = target[q] /\ target[q] \in Token /\ fam[q] \in Requests
      BY <1>4, <1>5, <2>3 DEF HeirInv, Known, KnownTokens, KnownTarget, Refreshing, Consuming, GrantTypes, PlaceTypes, Families
    <3>2. target[q][2] \in Requests
      BY <3>1 DEF Token
    <3> QED
      BY <1>2, <1>4, <3>1, <3>2 DEF HeirInv, Known, KnownTokens, KnownTarget
  <2>4. \A q \in Requests : Minting(q)' => fam'[q] = q \/ pc'[fam'[q]] = "end"
    BY <1>2, <1>4 DEF HeirInv, Known, KnownTokens, KnownTarget, GrantTypes, PlaceTypes, Families
  <2> QED
    BY <2>1, <2>2, <2>3, <2>4 DEF Known, KnownTokens, KnownTarget
<1>7. Chain'
  BY <1>2, <1>4 DEF HeirInv, Chain, Heir
<1> QED
  BY <1>6, <1>7 DEF HeirInv

(* A step of r that is over leaves what is known of the other requests.    *)
LEMMA KnownOthers ==
    ASSUME NEW r \in Requests, GrantTypes, Known, pc[r] # "end", NEW next \in Places,
           pc' = [pc EXCEPT ![r] = next], UNCHANGED target, TokensFade,
           \A q \in Requests : q # r => fam'[q] = fam[q]
    PROVE  KnownTokens' /\ \A q \in Requests \ {r} : KnownTarget(q)'
<1>1. \A q \in Requests : pc[q] = "end" => pc'[q] = "end"
  BY DEF GrantTypes, PlaceTypes
<1>2. ASSUME NEW t \in DOMAIN tokens'
      PROVE  pc'[t[2]] = "end" /\ pc'[tokens'[t].family] = "end"
  <2>1. t \in DOMAIN tokens /\ t[2] \in Requests /\ tokens[t].family \in Requests
    BY DEF TokensFade, GrantTypes, PlaceTypes, Token, Families
  <2> QED
    BY <1>1, <2>1 DEF Known, KnownTokens, KnownTarget, TokensFade
<1>3. ASSUME NEW q \in Requests \ {r}
      PROVE  KnownTarget(q)'
  <2>1. pc'[q] = pc[q] /\ fam'[q] = fam[q] /\ fam[q] \in Requests
    BY <1>3 DEF GrantTypes, PlaceTypes, Families
  <2>2. Refreshing(q)' => target'[q] \in Token /\ target'[q][1] = "refresh"
    BY <2>1 DEF Known, KnownTokens, KnownTarget, Refreshing
  <2>3. ASSUME Consuming(q)
        PROVE  /\ pc'[target[q][2]] = "end" /\ pc'[fam[q]] = "end"
               /\ target[q] \in DOMAIN tokens' => tokens'[target[q]].family = fam[q]
    <3>1. target[q] \in Token
      BY <2>3 DEF Known, KnownTokens, KnownTarget, Refreshing, Consuming
    <3>2. target[q][2] \in Requests
      BY <3>1 DEF Token
    <3> QED
      BY <1>1, <2>1, <2>3, <3>2 DEF Known, KnownTokens, KnownTarget, TokensFade
  <2>4. Minting(q)' => fam'[q] = q \/ pc'[fam'[q]] = "end"
    BY <1>1, <2>1 DEF Known, KnownTokens, KnownTarget, Minting
  <2> QED
    BY <2>1, <2>2, <2>3, <2>4 DEF KnownTarget, Consuming
<1> QED
  BY <1>2, <1>3 DEF KnownTokens

LEMMA HeirLoads ==
    ASSUME NEW r \in Requests, GrantTypes, HeirInv, RefreshLoad(r) \/ AccessLoad(r)
    PROVE  HeirInv'
<1>1. CASE Passes(r)
  BY <1>1, HeirPasses
<1>2. CASE /\ UNCHANGED <<tokens, target>>
           /\ target[r] \in DOMAIN tokens
           /\ fam' = [fam EXCEPT ![r] = tokens[target[r]].family]
           /\ \/ /\ pc[r] = "refreshLoad"
                 /\ \/ pc' = [pc EXCEPT ![r] = "mark"]
                    \/ pc' = [pc EXCEPT ![r] = "consumeRead"]
              \/ pc[r] = "accessLoad" /\ pc' = [pc EXCEPT ![r] = "accessFamily"]
  <2>1. TokensFade /\ pc[r] # "end" /\ Known
    BY <1>2, Revoking DEF HeirInv
  <2>2. /\ \A q \in Requests : q # r => fam'[q] = fam[q] /\ pc'[q] = pc[q]
        /\ ~Minting(r)' /\ ~Minting(r) /\ fam'[r] = tokens[target[r]].family
    BY <1>2 DEF GrantTypes, PlaceTypes, Minting
  <2>3. PICK next \in Places : pc' = [pc EXCEPT ![r] = next]
    BY <1>2 DEF Places
  <2>4. /\ pc'[target[r][2]] = "end" /\ pc'[tokens[target[r]].family] = "end"
        /\ Refreshing(r)' => Refreshing(r)
    <3>1. pc[target[r][2]] = "end" /\ pc[tokens[target[r]].family] = "end"
      BY <1>2, <2>1 DEF Known, KnownTokens, KnownTarget
    <3>2. target[r][2] \in Requests /\ tokens[target[r]].family \in Requests
      BY <1>2 DEF GrantTypes, PlaceTypes, Token, Families
    <3> QED
      BY <1>2, <3>1, <3>2 DEF GrantTypes, PlaceTypes, Refreshing
  <2>5. Known'
    <3>1. KnownTarget(r)'
      BY <1>2, <2>1, <2>2, <2>4 DEF Known, KnownTarget, Refreshing, Consuming
    <3> QED
      BY <1>2, <2>1, <2>2, <2>3, <3>1, KnownOthers DEF Known
  <2>6. Chain'
    BY <1>2, <2>2 DEF HeirInv, Chain, Heir, Minting
  <2> QED
    BY <2>5, <2>6 DEF HeirInv
<1> QED
  BY <1>1, <1>2, Loading

(* The family of a code is new: no token bears its name, and no request    *)
(* that mints does.                                                        *)
LEMMA HeirDeletesCode ==
    ASSUME NEW r \in Requests, GrantTypes, HeirInv, CodeDelete(r)
    PROVE  HeirInv'
<1>1. /\ UNCHANGED <<tokens, target>> /\ pc[r] = "codeDelete"
      /\ fam' = [fam EXCEPT ![r] = r]
      /\ \E next \in {"mintRead", "end"} : pc' = [pc EXCEPT ![r] = next]
  BY DEF CodeDelete, Answer, Goto, requestVars
<1>2. TokensFade /\ Known
  BY <1>1, Revoking DEF HeirInv
<1>3. /\ \A q \in Requests : q # r => fam'[q] = fam[q] /\ pc'[q] = pc[q]
      /\ fam'[r] = r /\ ~Refreshing(r)' /\ ~Consuming(r)'
  BY <1>1 DEF GrantTypes, PlaceTypes, Refreshing, Consuming
<1>4. Known'
  <2>1. PICK next \in Places : pc' = [pc EXCEPT ![r] = next]
    BY <1>1 DEF Places
  <2>2. KnownTarget(r)'
    BY <1>3 DEF KnownTarget
  <2> QED
    BY <1>1, <1>2, <1>3, <2>1, <2>2, KnownOthers DEF Known
<1>5. Chain'
  <2>1. \A t \in Token : ~Heir(t, r)
    BY <1>1, <1>2 DEF Known, KnownTokens, KnownTarget, Heir
  <2>2. \A q \in Requests : q # r /\ Minting(q) => fam[q] # r
    BY <1>1, <1>2 DEF Known, KnownTokens, KnownTarget
  <2>3. \A t \in Token : \A f : Heir(t, f)' <=> Heir(t, f)
    BY <1>1 DEF Heir
  <2>4. \A q \in Requests : q # r => (Minting(q)' <=> Minting(q))
    BY <1>3 DEF Minting
  <2> QED
    BY <1>3, <2>1, <2>2, <2>3, <2>4 DEF HeirInv, Chain
<1> QED
  BY <1>4, <1>5 DEF HeirInv

(* Who consumes the last refresh token of a family takes hold of its chain. *)
LEMMA HeirConsumes ==
    ASSUME NEW r \in Requests, GrantTypes, HeirInv, ConsumeWrite(r)
    PROVE  HeirInv'
<1>1. CASE ~Consumable(r)
  <2>1. Passes(r)
    BY <1>1, Revoking DEF ConsumeWrite, Answer, Goto, requestVars, Passes, Places
  <2> QED
    BY <2>1, HeirPasses
<1>2. CASE Consumable(r)
  <2>1. /\ tokens' = RevokedIn(tokens, target[r]) /\ UNCHANGED <<target, fam>>
        /\ pc[r] = "consumeWrite" /\ pc' = [pc EXCEPT ![r] = "unpair"]
        /\ target[r] \in DOMAIN tokens /\ ~tokens[target[r]].revoked
    BY <1>2 DEF ConsumeWrite, Consumable, Goto, requestVars
  <2>2. TokensFade /\ Known
    BY <2>1, Revoking DEF HeirInv
  <2>3. Heir(target[r], fam[r]) /\ target[r] \in Token /\ pc[fam[r]] = "end" /\ fam[r] \in Requests
    BY <2>1, <2>2 DEF Known, KnownTokens, KnownTarget, Refreshing, Consuming, Heir, GrantTypes, PlaceTypes, Families
  <2>4. /\ \A q \in Requests : q # r => pc'[q] = pc[q]
        /\ pc'[r] = "unpair"
    BY <2>1 DEF GrantTypes, PlaceTypes
  <2>5. Known'
    <3>1. ~Refreshing(r)' /\ ~Consuming(r)' /\ pc'[fam'[r]] = "end"
      BY <2>1, <2>3, <2>4 DEF Refreshing, Consuming
    <3>2. "unpair" \in Places
      BY DEF Places
    <3>3. KnownTarget(r)'
      BY <3>1 DEF KnownTarget
    <3> QED
      BY <2>1, <2>2, <3>2, <3>3, KnownOthers DEF Known
  <2>6. Chain'
    <3>1. \A t \in Token : \A f : Heir(t, f)' => Heir(t, f) /\ t # target[r]
      BY <2>1, <2>2 DEF Heir, TokensFade, RevokedIn, GrantTypes, PlaceTypes
    <3>0. \A t \in Token : Heir(t, fam[r]) => t = target[r]
      BY <2>3 DEF HeirInv, Chain, Families
    <3>2. \A t \in Token : ~Heir(t, fam[r])'
      BY <2>1, <3>0, <3>1
    <3>3. \A q \in Requests : Minting(q) => fam[q] # fam[r]
      BY <2>3 DEF HeirInv, Chain
    <3>4. \A q \in Requests : q # r => (Minting(q)' <=> Minting(q))
      BY <2>4 DEF Minting
    <3> QED
      BY <2>1, <3>1, <3>2, <3>3, <3>4 DEF HeirInv, Chain
  <2> QED
    BY <2>5, <2>6 DEF HeirInv
<1> QED
  BY <1>1, <1>2

(* Who holds the chain hands it on to the refresh token of its own pair. *)
LEMMA HeirMints ==
    ASSUME NEW r \in Requests, GrantTypes, HeirInv, MintWrite(r)
    PROVE  HeirInv'
<1>1. /\ UNCHANGED <<target, fam>> /\ pc[r] = "mintWrite" /\ pc' = [pc EXCEPT ![r] = "end"]
  BY DEF MintWrite, Answer, Goto, requestVars
<1>2. Known /\ Chain /\ Minting(r) /\ fam[r] \in Requests
  BY <1>1 DEF HeirInv, Minting, GrantTypes, PlaceTypes, Families
<1>3. /\ pc'[r] = "end" /\ pc'[fam[r]] = "end"
      /\ \A q \in Requests : q # r => pc'[q] = pc[q]
      /\ \A q \in Requests : pc[q] = "end" => pc'[q] = "end"
  BY <1>1, <1>2 DEF Known, KnownTarget, GrantTypes, PlaceTypes
<1>4. \A t \in DOMAIN tokens :
        t[2] # r /\ t[2] \in Requests /\ tokens[t].family \in Requests /\ tokens'[t] = tokens[t]
  BY <1>1, <1>2, MintedPair DEF Known, KnownTokens, GrantTypes, PlaceTypes, Token, Families
<1>5. \A t \in DOMAIN tokens' :
        \/ t \in DOMAIN tokens
        \/ t[2] = r /\ tokens'[t].family = fam[r] /\ (t[1] = "refresh" => t = <<"refresh", r>>)
  <2>1. \A t \in {"access", "refresh"} \X {r} :
            t[2] = r /\ (t[1] = "refresh" => t = <<"refresh", r>>)
    OBVIOUS
  <2> QED
    BY <2>1, MintedPair
<1>6. KnownTokens'
  BY <1>2, <1>3, <1>4, <1>5 DEF Known, KnownTokens
<1>7. ASSUME NEW q \in Requests
      PROVE  KnownTarget(q)'
  <2>1. CASE q = r
    BY <1>3, <2>1 DEF KnownTarget, Refreshing, Consuming, Minting
  <2>2. CASE q # r
    <3>1. pc'[q] = pc[q] /\ fam'[q] = fam[q] /\ target'[q] = target[q] /\ fam[q] \in Requests
      BY <1>1, <1>3, <2>2 DEF GrantTypes, PlaceTypes, Families
    <3>2. KnownTarget(q)
      BY <1>2 DEF Known
    <3>3. ASSUME Consuming(q)
          PROVE  /\ pc'[target[q][2]] = "end" /\ pc'[fam[q]] = "end"
                 /\ target[q] \in DOMAIN tokens' => tokens'[target[q]].family = fam[q]
      <4>1. target[q] \in Token /\ pc[target[q][2]] = "end" /\ pc[fam[q]] = "end"
        BY <3>2, <3>3 DEF KnownTarget, Refreshing, Consuming
      <4>2. target[q][2] \in Requests /\ target[q][2] # r
        BY <1>1, <4>1 DEF Token
      <4> QED
        BY <1>3, <1>4, <1>5, <3>1, <3>2, <3>3, <4>1, <4>2 DEF KnownTarget
    <3>4. Minting(q) => fam[q] = q \/ pc'[fam[q]] = "end"
      BY <1>3, <3>1, <3>2 DEF KnownTarget
    <3>5. (Refreshing(q)' <=> Refreshing(q)) /\ (Consuming(q)' <=> Consuming(q))
          /\ (Minting(q)' <=> Minting(q))
      BY <3>1 DEF Refreshing, Consuming, Minting
    <3> QED
      BY <3>1, <3>2, <3>3, <3>4, <3>5 DEF KnownTarget
  <2> QED
    BY <2>1, <2>2
<1>8. Chain'
  <2>1. \A t \in Token : ~Heir(t, fam[r])
    BY <1>2 DEF Chain
  <2>2. \A t \in Token : \A f : Heir(t, f)' =>
            Heir(t, f) \/ (t = <<"refresh", r>> /\ f = fam[r])
    BY <1>4, <1>5 DEF Heir
  <2>3. \A q \in Requests : Minting(q)' => q # r /\ Minting(q)
    BY <1>3 DEF Minting
  <2>4. \A q \in Requests : Minting(q) /\ q # r => fam[q] # fam[r]
    BY <1>2 DEF Chain
  <2>5. \A q \in Requests : Minting(q)' => \A t \in Token : ~Heir(t, fam[q])'
    BY <1>1, <1>2, <2>2, <2>3, <2>4 DEF Chain
  <2>6. \A p, q \in Requests : Minting(p)' /\ Minting(q)' /\ fam'[p] = fam'[q] => p = q
    BY <1>1, <1>2, <2>3 DEF Chain
  <2>7. \A f \in Families : \A t, u \in Token : Heir(t, f)' /\ Heir(u, f)' => t = u
    BY <1>2, <2>1, <2>2 DEF Chain
  <2> QED
    BY <1>1, <2>5, <2>6, <2>7 DEF Chain
<1> QED
  BY <1>2, <1>6, <1>7, <1>8 DEF HeirInv, Known

LEMMA HeirNext == GrantTypes /\ HeirInv /\ [Next]_vars => HeirInv'
<1> SUFFICES ASSUME GrantTypes, HeirInv, [Next]_vars PROVE HeirInv'
  OBVIOUS
<1>1. CASE Tick \/ Collects \/ UNCHANGED vars
  <2>1. TokensFade /\ UNCHANGED <<pc, target, fam>>
    BY <1>1, Revoking, Collecting DEF Tick, Collects, vars, docVars, requestVars
  <2> QED
    BY <2>1, HeirFades
<1>2. ASSUME NEW r \in Requests, Sweep(r)
      PROVE  HeirInv'
  <2>1. TokensFade /\ UNCHANGED <<pc, target, fam>>
    BY <1>2, Revoking DEF Sweep, requestVars
  <2> QED
    BY <2>1, HeirFades
<1>3. ASSUME NEW r \in Requests, Arrives(r) \/ Step(r) \/ Dies(r)
      PROVE  HeirInv'
  BY <1>2, <1>3, HeirArrives, HeirLoads, HeirDeletesCode, HeirConsumes, HeirMints, PassingSteps,
     HeirPasses DEF Step
<1> QED
  BY <1>1, <1>3 DEF Next

LEMMA AtMostOne ==
    ASSUME NEW S, \A x, y \in S : x = y
    PROVE  Cardinality(S) <= 1
<1>1. CASE S = {}
  BY <1>1, FS_EmptySet
<1>2. CASE S # {}
  <2>1. PICK x \in S : S = {x}
    BY <1>2
  <2> QED
    BY <2>1, FS_Singleton
<1> QED
  BY <1>1, <1>2

(* A family stays a chain however its refreshes interleave: of its refresh *)
(* tokens at most one is not revoked, and none while a rotation is under   *)
(* way (consume_refresh_token, save_token_pair).                           *)
THEOREM GrantsOneHeir == Spec => []OneHeir
<1>1. GrantTypes /\ HeirInv => OneHeir
  <2> SUFFICES ASSUME GrantTypes, HeirInv, NEW f \in Families
               PROVE  Cardinality({r \in Requests : <<"refresh", r>> \in DOMAIN tokens
                                     /\ tokens[<<"refresh", r>>].family = f
                                     /\ ~tokens[<<"refresh", r>>].revoked}
                                  \cup {r \in Requests : Minting(r) /\ fam[r] = f}) <= 1
    BY DEF OneHeir
  <2> DEFINE held == {r \in Requests : Heir(<<"refresh", r>>, f)}
             mint == {r \in Requests : Minting(r) /\ fam[r] = f}
  <2>1. \A r \in Requests : <<"refresh", r>> \in Token /\ <<"refresh", r>>[1] = "refresh"
    BY DEF Token
  <2>2. held = {r \in Requests : <<"refresh", r>> \in DOMAIN tokens
                  /\ tokens[<<"refresh", r>>].family = f /\ ~tokens[<<"refresh", r>>].revoked}
    BY <2>1 DEF Heir
  <2>3. \A r, q \in held : r = q
    BY <2>1 DEF HeirInv, Chain
  <2>4. \A r, q \in mint : r = q
    BY DEF HeirInv, Chain
  <2>5. ~(\E r \in held : \E q \in mint : TRUE)
    BY <2>1 DEF HeirInv, Chain
  <2>6. \A r, q \in held \cup mint : r = q
    BY <2>3, <2>4, <2>5
  <2>7. Cardinality(held \cup mint) <= 1
    BY <2>6, AtMostOne
  <2> QED
    BY <2>2, <2>7
<1> QED
  BY <1>1, TypesInit, TypesNext, HeirInit, HeirNext, PTL DEF Spec

-----------------------------------------------------------------------------
(* Flow.                                                                   *)

(* A request at place p may be at place q next. *)
Follows(p, q) ==
    \/ q = "end" \/ (p = "sweep" /\ q = "sweep")
    \/ p = "txnRead" /\ q = "txnWrite"
    \/ p = "txnWrite" /\ q = "codeSave"
    \/ p = "codeLoad" /\ q = "codeRead"
    \/ p = "codeRead" /\ q = "codeDelete"
    \/ p = "refreshLoad" /\ q \in {"mark", "consumeRead"}
    \/ p = "mark" /\ q = "sweep"
    \/ p = "consumeRead" /\ q = "consumeWrite"
    \/ p = "consumeWrite" /\ q = "unpair"
    \/ p \in {"codeDelete", "unpair", "mintWrite"} /\ q = "mintRead"
    \/ p = "mintRead" /\ q = "mintWrite"
    \/ p = "accessLoad" /\ q = "accessFamily"
    \/ p = "revokeRead" /\ q = "revokeToken"
    \/ p = "revokeToken" /\ q = "revokePair"

Goes(r) == \E q \in Places : Follows(pc[r], q) /\ pc' = [pc EXCEPT ![r] = q]

(* Where a request is granted what it asks for. *)
Granting ==
    {"txnWrite", "codeSave", "mintWrite", "accessFamily", "revokeRead", "revokePair"}

AnswersWith(r, how) ==
    /\ how = "granted" => pc[r] \in Granting
    /\ pc' = [pc EXCEPT ![r] = "end"]
    /\ answer' = [answer EXCEPT ![r] = how]

(* A request that has arrived goes on, and nothing else about it changes. *)
GoesOn(r) ==
    /\ pc[r] \notin {"idle", "end"}
    /\ UNCHANGED requestVars
    /\ Goes(r)
    /\ pc'[r] = "codeSave" => kind[r] = "approve"
    /\ answer' = answer \/ \E how \in {"granted", "refused"} : AnswersWith(r, how)

KindFits(r) ==
    /\ pc[r] = "idle" => kind[r] = "exchange"
    /\ pc[r] \in {"txnRead", "txnWrite"} => kind[r] \in {"approve", "deny"}
    /\ pc[r] = "codeSave" => kind[r] = "approve"
    /\ pc[r] \in {"codeLoad", "codeRead", "codeDelete"} => kind[r] = "exchange"
    /\ pc[r] \in {"refreshLoad", "mark", "sweep", "consumeRead", "consumeWrite", "unpair"}
          => kind[r] = "refresh"
    /\ pc[r] \in {"mintRead", "mintWrite"} => kind[r] \in {"exchange", "refresh"}
    /\ pc[r] \in {"accessLoad", "accessFamily"} => kind[r] = "access"
    /\ pc[r] \in {"revokeRead", "revokeToken", "revokePair"} => kind[r] = "revoke"

FlowInv ==
    /\ pc \in [Requests -> Places]
    /\ kind \in [Requests -> AllKinds]
    /\ answer \in [Requests -> {"none", "granted", "refused"}]
    /\ \A r \in Requests : KindFits(r) /\ (pc[r] # "end" => answer[r] = "none")

-----------------------------------------------------------------------------
(* Consent.                                                                *)

Decides(r) == kind[r] \in {"approve", "deny"} /\ (pc[r] = "codeSave" \/ answer[r] = "granted")

Spends(r) ==
    r \notin Issued /\ kind[r] = "exchange" /\ (Minting(r) \/ answer[r] = "granted")

ConsentInv ==
    /\ \A r \in Requests : Decides(r) => txn # "pending"
    /\ \A r, q \in Requests : Decides(r) /\ Decides(q) => r = q
    /\ DOMAIN codes \subseteq Requests
    /\ \A c \in DOMAIN codes : Decides(c) /\ pc[c] = "end"
    /\ \A r \in Requests : Spends(r) =>
          txn # "pending" /\ DOMAIN codes = {} /\ \A q \in Requests : pc[q] # "codeSave"
    /\ \A r, q \in Requests : Spends(r) /\ Spends(q) => r = q

-----------------------------------------------------------------------------
(* Revocation.                                                             *)

(* No live token bears this name, and it is not minted again. *)
Gone(t) == t \in DOMAIN tokens => tokens[t].revoked

RevokeInv ==
    \A r \in Requests : kind[r] = "revoke" =>
        /\ target[r] \in Token /\ pc[target[r][2]] = "end"
        /\ pc[r] = "revokePair" => Gone(target[r])
        /\ answer[r] = "granted" /\ target[r] \in DOMAIN tokens =>
              Gone(target[r]) /\ Gone(Pair(target[r]))

-----------------------------------------------------------------------------
(* Condemned tokens.                                                       *)

(* A family's mark is retained so much longer than its access tokens live  *)
(* that no request spans the difference: an hour and thirty days           *)
(* (mcp_access_token_ttl_seconds = 3600, mcp_refresh_token_ttl_seconds =   *)
(* 2592000, config.py:93-94).                                              *)
MarkOutlasts == AccessTTL + MaxRun <= RefreshTTL

(* The family of t stays marked past the expiry of t. *)
Outlived(t) ==
    t[1] = "access" /\ t \in DOMAIN tokens =>
        tokens[t].expires + (RefreshTTL - AccessTTL) <= marked[tokens[t].family]

Punctual(r) ==
    pc[r] \notin {"idle", "end"} => began[r] <= now /\ now <= began[r] + MaxRun

LateFits(r) ==
    /\ pc[r] # "idle"
    /\ target[r] \in condemned
    /\ kind[r] = "access" => target[r][1] = "access" /\ answer[r] # "granted"
    /\ pc[r] = "accessFamily" => began[r] + MaxRun < marked[fam[r]]

CondemnedInv ==
    /\ began \in [Requests -> Nat]
    /\ \A t \in DOMAIN tokens : t[1] = "access" => tokens[t].expires <= now + AccessTTL
    /\ \A f \in Families : marked[f] <= now + RefreshTTL
    /\ \A t \in condemned : t \in Token /\ pc[t[2]] = "end" /\ Outlived(t)
    /\ \A r \in Requests : Punctual(r)
    /\ late \subseteq Requests /\ \A r \in late : LateFits(r)

-----------------------------------------------------------------------------
(* Types.  A mint that is tried again has a try left.                      *)

StoreTypes ==
    /\ txn \in {"pending", "completed", "denied"}
    /\ DOMAIN codes \subseteq Requests
    /\ \A c \in DOMAIN codes : codes[c] \in [expires : Nat]
    /\ DOMAIN families \subseteq Families
    /\ \A f \in DOMAIN families :
          families[f] \in [revoked : BOOLEAN, expires : Nat, write : Writes]

Targets == {Absent} \cup Token \cup ({"code"} \X Requests)

RequestTypes ==
    /\ now <= MaxTime
    /\ target \in [Requests -> Targets]
    /\ snap \in [Requests -> {Absent} \cup Writes]
    /\ attempts \in [Requests -> 0 .. MINT_ATTEMPTS]
    /\ \A r \in Requests : pc[r] \notin {"mintWrite", "end"} => attempts[r] < MINT_ATTEMPTS

-----------------------------------------------------------------------------
(* Flow.                                                                   *)

LEMMA StepGoesOn ==
    ASSUME NEW r \in Requests, FlowInv, Step(r) \/ Dies(r)
    PROVE  GoesOn(r)
<1> USE DEF Goto, Answer, docVars, requestVars, Places, Follows, Goes, Granting, AnswersWith,
        GoesOn, FlowInv
<1>1. CASE TxnRead(r) \/ TxnWrite(r) \/ CodeSave(r)
  BY <1>1 DEF TxnRead, TxnWrite, CodeSave
<1>2. CASE CodeLoad(r) \/ CodeRead(r) \/ CodeDelete(r)
  BY <1>2 DEF CodeLoad, CodeRead, CodeDelete
<1>3. CASE RefreshLoad(r) \/ Mark(r) \/ Sweep(r) \/ Swept(r)
  BY <1>3 DEF RefreshLoad, Mark, Sweep, Swept
<1>4. CASE ConsumeRead(r) \/ ConsumeWrite(r) \/ Unpair(r)
  BY <1>4 DEF ConsumeRead, ConsumeWrite, Unpair
<1>5. CASE MintRead(r) \/ MintWrite(r) \/ MintConflicts(r)
  BY <1>5 DEF MintRead, MintWrite, MintConflicts
<1>6. CASE AccessLoad(r) \/ AccessFamily(r) \/ Dies(r)
  BY <1>6 DEF AccessLoad, AccessFamily, Dies
<1>7. CASE RevokeRead(r) \/ RevokeToken(r) \/ RevokePair(r)
  BY <1>7 DEF RevokeRead, RevokeToken, RevokePair
<1> QED
  BY <1>1, <1>2, <1>3, <1>4, <1>5, <1>6, <1>7 DEF Step

LEMMA ArrivesWith ==
    ASSUME NEW r \in Requests, Arrives(r)
    PROVE  \E k \in AllKinds : \E t \in Presentable(k) :
              /\ pc[r] = "idle" /\ pc' = [pc EXCEPT ![r] = FirstStep(k)]
              /\ kind' = [kind EXCEPT ![r] = k]
              /\ target' = [target EXCEPT ![r] = t]
              /\ late' = IF t \in condemned THEN late \cup {r} ELSE late
              /\ began' = [began EXCEPT ![r] = now]
              /\ UNCHANGED <<now, docVars, fam, snap, attempts, answer, marks>>
BY GrantsAssumption DEF Arrives, Goto

LEMMA FirstSteps ==
    ASSUME NEW k \in AllKinds
    PROVE  /\ k \in {"approve", "deny"} => FirstStep(k) = "txnRead"
           /\ k = "exchange" => FirstStep(k) = "codeLoad"
           /\ k = "refresh" => FirstStep(k) = "refreshLoad"
           /\ k = "access" => FirstStep(k) = "accessLoad"
           /\ k = "revoke" => FirstStep(k) = "revokeRead"
BY DEF FirstStep, AllKinds

LEMMA FlowInit == Init => FlowInv
BY GrantsAssumption DEF Init, FlowInv, KindFits, Places, AllKinds

LEMMA FlowNext == FlowInv /\ [Next]_vars => FlowInv'
<1> SUFFICES ASSUME FlowInv, [Next]_vars PROVE FlowInv'
  OBVIOUS
<1>1. CASE Tick \/ Collects \/ UNCHANGED vars
  <2>1. UNCHANGED <<pc, kind, answer>>
    BY <1>1 DEF Tick, Collects, vars, docVars, requestVars
  <2> QED
    BY <2>1 DEF FlowInv, KindFits
<1>2. ASSUME NEW r \in Requests, Arrives(r)
      PROVE  FlowInv'
  <2>1. PICK k \in AllKinds :
          /\ pc[r] = "idle" /\ pc' = [pc EXCEPT ![r] = FirstStep(k)]
          /\ kind' = [kind EXCEPT ![r] = k] /\ answer' = answer
    BY <1>2, ArrivesWith
  <2>2. FirstStep(k) \in Places
    BY FirstSteps DEF AllKinds, Places
  <2>3. pc' \in [Requests -> Places] /\ kind' \in [Requests -> AllKinds]
    BY <2>1, <2>2 DEF FlowInv
  <2>4. KindFits(r)'
    BY <2>1, FirstSteps DEF FlowInv, KindFits, AllKinds
  <2>5. \A q \in Requests \ {r} : KindFits(q)'
    BY <2>1 DEF FlowInv, KindFits
  <2>6. \A q \in Requests : pc'[q] # "end" => answer'[q] = "none"
    BY <2>1 DEF FlowInv
  <2> QED
    BY <2>1, <2>3, <2>4, <2>5, <2>6 DEF FlowInv
<1>3. ASSUME NEW r \in Requests, Step(r) \/ Dies(r)
      PROVE  FlowInv'
  <2>1. GoesOn(r)
    BY <1>3, StepGoesOn
  <2>2. PICK q \in Places : Follows(pc[r], q) /\ pc' = [pc EXCEPT ![r] = q]
    BY <2>1 DEF GoesOn, Goes
  <2>3. /\ kind' = kind /\ pc[r] \notin {"idle", "end"}
        /\ pc'[r] = "codeSave" => kind[r] = "approve"
    BY <2>1 DEF GoesOn, requestVars
  <2>4. pc' \in [Requests -> Places] /\ kind' \in [Requests -> AllKinds]
    BY <2>2, <2>3 DEF FlowInv
  <2>5. KindFits(r)'
    <3>1. pc'[r] = q /\ kind'[r] = kind[r] /\ KindFits(r)
      BY <2>2, <2>3 DEF FlowInv
    <3>0. CASE q = "end"
      BY <3>0, <3>1 DEF KindFits
    <3>2. CASE q \in {"txnWrite", "codeSave", "codeRead", "codeDelete"}
      BY <2>2, <2>3, <3>1, <3>2 DEF KindFits, Follows
    <3>3. CASE q \in {"mark", "sweep", "consumeRead", "consumeWrite", "unpair"}
      BY <2>2, <2>3, <3>1, <3>3 DEF KindFits, Follows
    <3>4. CASE q \in {"mintRead", "mintWrite", "accessFamily", "revokeToken", "revokePair"}
      BY <2>2, <2>3, <3>1, <3>4 DEF KindFits, Follows
    <3> QED
      BY <2>2, <3>0, <3>2, <3>3, <3>4 DEF Follows
  <2>6. \A p \in Requests \ {r} : KindFits(p)'
    BY <2>2, <2>3 DEF FlowInv, KindFits
  <2>7. /\ answer' \in [Requests -> {"none", "granted", "refused"}]
        /\ \A p \in Requests : pc'[p] # "end" => answer'[p] = "none"
    BY <2>1, <2>2 DEF GoesOn, AnswersWith, FlowInv
  <2> QED
    BY <2>4, <2>5, <2>6, <2>7 DEF FlowInv
<1> QED
  BY <1>1, <1>2, <1>3 DEF Next

-----------------------------------------------------------------------------
(* Consent.                                                                *)

LEMMA ConsentInit == Init => ConsentInv
BY GrantsAssumption DEF Init, ConsentInv, Decides, Spends, Minting, NoDocs

(* Nothing but an answered consent page turns the transaction or stores a  *)
(* code.                                                                   *)
ConsentFades == txn' = txn /\ DOMAIN codes' \subseteq DOMAIN codes

LEMMA ConsentKept ==
    ASSUME NEW r \in Requests, FlowInv, ConsentInv, GoesOn(r), ConsentFades,
           pc[r] \in {"txnWrite", "codeSave"} => pc'[r] = "end" /\ answer' = answer,
           pc[r] = "codeDelete" => pc'[r] # "mintRead"
    PROVE  ConsentInv'
<1>1. /\ kind' = kind /\ pc[r] # "end"
      /\ \A q \in Requests : q # r => pc'[q] = pc[q] /\ answer'[q] = answer[q]
  BY DEF GoesOn, Goes, AnswersWith, FlowInv, requestVars
<1>2. PICK next \in Places : Follows(pc[r], next) /\ pc' = [pc EXCEPT ![r] = next]
  BY DEF GoesOn, Goes
<1>3. /\ pc'[r] = next
      /\ answer'[r] = "granted" => pc[r] \in Granting \ {"txnWrite", "codeSave"}
  BY <1>1, <1>2 DEF GoesOn, AnswersWith, FlowInv
<1>4. pc'[r] # "codeSave" /\ answer[r] = "none"
  BY <1>1, <1>2, <1>3 DEF Follows, FlowInv
<1>5. \A q \in Requests : Decides(q)' => Decides(q)
  <2>1. Decides(r)' => Decides(r)
    BY <1>1, <1>3, <1>4 DEF Decides, Granting, FlowInv, KindFits
  <2> QED
    BY <1>1, <2>1 DEF Decides
<1>6. \A q \in Requests : Spends(q)' => Spends(q)
  <2>1. Spends(r)' => Spends(r)
    BY <1>1, <1>2, <1>3 DEF Spends, Minting, Follows, Granting, FlowInv, KindFits
  <2> QED
    BY <1>1, <2>1 DEF Spends, Minting
<1>7. \A q \in Requests : pc'[q] = "codeSave" => pc[q] = "codeSave"
  BY <1>1, <1>4
<1>8. \A c \in DOMAIN codes' : Decides(c)' /\ pc'[c] = "end"
  BY <1>1 DEF ConsentInv, ConsentFades, Decides
<1> QED
  BY <1>5, <1>6, <1>7, <1>8 DEF ConsentInv, ConsentFades

LEMMA ConsentArrives ==
    ASSUME NEW r \in Requests, FlowInv, ConsentInv, Arrives(r)
    PROVE  ConsentInv'
<1>1. PICK k \in AllKinds :
        /\ pc[r] = "idle" /\ pc' = [pc EXCEPT ![r] = FirstStep(k)]
        /\ kind' = [kind EXCEPT ![r] = k] /\ answer' = answer
        /\ UNCHANGED <<txn, codes>>
  BY ArrivesWith DEF docVars
<1>2. /\ \A q \in Requests : q # r => pc'[q] = pc[q] /\ kind'[q] = kind[q]
      /\ pc'[r] = FirstStep(k) /\ answer[r] = "none"
  BY <1>1 DEF FlowInv
<1>3. pc'[r] \notin {"codeSave", "unpair", "mintRead", "mintWrite"}
  BY <1>2, FirstSteps DEF AllKinds
<1>4. \A q \in Requests : (Decides(q)' => Decides(q)) /\ (Spends(q)' => Spends(q))
  BY <1>1, <1>2, <1>3 DEF Decides, Spends, Minting
<1>5. \A q \in Requests : pc'[q] = "codeSave" => pc[q] = "codeSave"
  BY <1>2, <1>3
<1>6. \A c \in DOMAIN codes : pc[c] = "end" /\ Decides(c) /\ c \in Requests
  BY DEF ConsentInv
<1>7. \A c \in DOMAIN codes : pc'[c] = "end" /\ Decides(c)'
  BY <1>1, <1>2, <1>6 DEF Decides
<1> QED
  BY <1>1, <1>4, <1>5, <1>7 DEF ConsentInv

(* The transaction is still pending when it turns: nobody decided before.  *)
LEMMA ConsentTurns ==
    ASSUME NEW r \in Requests, FlowInv, ConsentInv, TxnWrite(r)
    PROVE  ConsentInv'
<1>1. /\ UNCHANGED <<codes, kind>> /\ pc[r] = "txnWrite" /\ answer[r] = "none"
      /\ \A q \in Requests : q # r => pc'[q] = pc[q] /\ answer'[q] = answer[q]
      /\ pc'[r] \in {"codeSave", "end"}
  BY DEF TxnWrite, Goto, Answer, requestVars, FlowInv
<1>2. kind[r] \in {"approve", "deny"}
  BY <1>1 DEF FlowInv, KindFits
<1>3. \A q \in Requests : Spends(q)' <=> Spends(q)
  BY <1>1, <1>2 DEF Spends, Minting
<1>4. \A c \in DOMAIN codes : c \in Requests /\ c # r /\ Decides(c) /\ pc[c] = "end"
  BY <1>1 DEF ConsentInv
<1>5. \A c \in DOMAIN codes : Decides(c)' /\ pc'[c] = "end"
  BY <1>1, <1>4 DEF Decides
<1>6. \A q \in Requests : q # r => (Decides(q)' <=> Decides(q))
  BY <1>1 DEF Decides
<1>7. CASE txn = "pending"
  <2>1. txn' # "pending"
    BY <1>7 DEF TxnWrite, TxnUnchanged
  <2>2. \A q \in Requests : ~Decides(q) /\ ~Spends(q)
    BY <1>7 DEF ConsentInv
  <2> QED
    BY <1>1, <1>3, <1>4, <1>5, <1>6, <2>1, <2>2 DEF ConsentInv
<1>8. CASE txn # "pending"
  <2>1. txn' = txn /\ pc'[r] = "end" /\ answer'[r] = "refused"
    BY <1>8 DEF TxnWrite, TxnUnchanged, Answer, Goto, FlowInv
  <2>2. ~Decides(r)'
    BY <2>1 DEF Decides
  <2>3. \A q \in Requests : pc'[q] = "codeSave" => pc[q] = "codeSave"
    BY <1>1, <2>1
  <2> QED
    BY <1>1, <1>3, <1>4, <1>5, <1>6, <2>1, <2>2, <2>3 DEF ConsentInv
<1> QED
  BY <1>7, <1>8

LEMMA ConsentStores ==
    ASSUME NEW r \in Requests, FlowInv, ConsentInv, CodeSave(r)
    PROVE  ConsentInv'
<1>1. /\ UNCHANGED <<txn, kind>> /\ pc[r] = "codeSave" /\ answer[r] = "none"
      /\ \A q \in Requests : q # r => pc'[q] = pc[q] /\ answer'[q] = answer[q]
      /\ pc'[r] = "end" /\ answer'[r] = "granted"
  BY DEF CodeSave, Answer, Goto, requestVars, FlowInv
<1>2. DOMAIN codes' = DOMAIN codes \cup {r}
  BY DEF CodeSave, Stored
<1>3. kind[r] = "approve" /\ Decides(r) /\ Decides(r)'
  BY <1>1 DEF FlowInv, KindFits, Decides
<1>4. \A q \in Requests : ~Spends(q) /\ ~Spends(q)'
  BY <1>1, <1>3 DEF ConsentInv, Spends, Minting
<1>5. \A q \in Requests : Decides(q)' <=> Decides(q)
  BY <1>1, <1>3 DEF Decides
<1>6. \A c \in DOMAIN codes' : c \in Requests /\ Decides(c)' /\ pc'[c] = "end"
  BY <1>1, <1>2, <1>3, <1>5 DEF ConsentInv
<1> QED
  BY <1>1, <1>4, <1>5, <1>6 DEF ConsentInv

(* There is one code, so who deletes it leaves none. *)
LEMMA ConsentSpends ==
    ASSUME NEW r \in Requests, FlowInv, ConsentInv, CodeDelete(r), pc'[r] = "mintRead"
    PROVE  ConsentInv'
<1>1. /\ UNCHANGED <<txn, kind>> /\ pc[r] = "codeDelete" /\ answer' = answer
      /\ answer[r] = "none"
      /\ \A q \in Requests : q # r => pc'[q] = pc[q]
  BY DEF CodeDelete, Answer, Goto, requestVars, FlowInv
<1>2. Code(r) \in DOMAIN codes /\ codes' = Deleted(codes, Code(r))
  BY DEF CodeDelete, Answer, Goto, FlowInv
<1>3. Code(r) \in Requests /\ Decides(Code(r)) /\ pc[Code(r)] = "end"
  BY <1>2 DEF ConsentInv
<1>4. DOMAIN codes' = {}
  BY <1>2, <1>3 DEF ConsentInv, Deleted
<1>5. \A q \in Requests : pc[q] # "codeSave"
  <2>1. \A q \in Requests : pc[q] = "codeSave" => Decides(q)
    BY DEF FlowInv, KindFits, Decides
  <2> QED
    BY <1>3, <2>1 DEF ConsentInv
<1>6. \A q \in Requests : ~Spends(q)
  BY <1>2 DEF ConsentInv
<1>7. \A q \in Requests : (Decides(q)' => Decides(q)) /\ (Spends(q)' => q = r)
  BY <1>1, <1>6 DEF Decides, Spends, Minting
<1>8. txn # "pending" /\ \A q \in Requests : pc'[q] # "codeSave"
  BY <1>1, <1>3, <1>5 DEF ConsentInv
<1> QED
  BY <1>1, <1>4, <1>7, <1>8 DEF ConsentInv

LEMMA ConsentNext == FlowInv /\ ConsentInv /\ [Next]_vars => ConsentInv'
<1> SUFFICES ASSUME FlowInv, ConsentInv, [Next]_vars PROVE ConsentInv'
  OBVIOUS
<1>1. CASE Tick \/ Collects \/ UNCHANGED vars
  <2>1. UNCHANGED <<txn, pc, kind, answer>> /\ DOMAIN codes' \subseteq DOMAIN codes
    BY <1>1 DEF Tick, Collects, vars, docVars, requestVars, Deleted
  <2> QED
    BY <2>1 DEF ConsentInv, Decides, Spends, Minting
<1>2. ASSUME NEW r \in Requests, Step(r) \/ Dies(r), ~TxnWrite(r), ~CodeSave(r),
             ~(CodeDelete(r) /\ pc'[r] = "mintRead")
      PROVE  ConsentInv'
  <2>1. ConsentFades
    BY <1>2 DEF ConsentFades, Step, Dies, TxnRead, CodeLoad, CodeRead, CodeDelete,
       RefreshLoad, Mark, Sweep, Swept, ConsumeRead, ConsumeWrite, Unpair, MintRead, MintWrite,
       MintConflicts, AccessLoad, AccessFamily, RevokeRead, RevokeToken, RevokePair, docVars,
       Deleted
  <2>2. GoesOn(r)
    BY <1>2, StepGoesOn
  <2>3. pc[r] \in {"txnWrite", "codeSave"} => pc'[r] = "end" /\ answer' = answer
    BY <1>2 DEF FlowInv, Step, Dies, Goto, TxnRead, CodeLoad, CodeRead, CodeDelete,
       RefreshLoad, Mark, Sweep, Swept, ConsumeRead, ConsumeWrite, Unpair, MintRead, MintWrite,
       MintConflicts, AccessLoad, AccessFamily, RevokeRead, RevokeToken, RevokePair
  <2>4. pc[r] = "codeDelete" => pc'[r] # "mintRead"
    BY <1>2 DEF FlowInv, Step, Dies, Goto, Answer, TxnRead, CodeLoad, CodeRead, CodeDelete,
       RefreshLoad, Mark, Sweep, Swept, ConsumeRead, ConsumeWrite, Unpair, MintRead, MintWrite,
       MintConflicts, AccessLoad, AccessFamily, RevokeRead, RevokeToken, RevokePair
  <2> QED
    BY <2>1, <2>2, <2>3, <2>4, ConsentKept
<1> QED
  BY <1>1, <1>2, ConsentArrives, ConsentTurns, ConsentStores, ConsentSpends DEF Next, Step

(* A consent page is answered once and worth one family: however           *)
(* approvals, denials and exchanges race and whatever dies between the     *)
(* transaction's update and the code's (complete_authorization,            *)
(* consume_code).                                                          *)
THEOREM GrantsOneGrantPerConsent == Spec => []OneGrantPerConsent
<1>1. ConsentInv => OneGrantPerConsent
  <2> SUFFICES ASSUME ConsentInv PROVE OneGrantPerConsent
    OBVIOUS
  <2> DEFINE verdicts == {r \in Requests :
                             kind[r] \in {"approve", "deny"} /\ answer[r] = "granted"}
             grants == {r \in Requests \ Issued :
                           kind[r] = "exchange" /\ (Minting(r) \/ answer[r] = "granted")}
  <2>1. \A r, q \in verdicts : r = q
    BY DEF ConsentInv, Decides
  <2>2. \A r, q \in grants : r = q
    BY DEF ConsentInv, Spends
  <2>3. Cardinality(verdicts) <= 1
    BY <2>1, AtMostOne
  <2>4. Cardinality(grants) <= 1
    BY <2>2, AtMostOne
  <2> QED
    BY <2>3, <2>4 DEF OneGrantPerConsent
<1> QED
  BY <1>1, FlowInit, FlowNext, ConsentInit, ConsentNext, PTL DEF Spec

-----------------------------------------------------------------------------
(* What a step does to the tokens and to the requests it is not of.        *)

LEMMA TokensFadeOrMint ==
    ASSUME GrantTypes, [Next]_vars
    PROVE  TokensFade \/ \E q \in Requests : MintWrite(q)
<1>1. CASE Tick \/ Collects \/ UNCHANGED vars
  BY <1>1, Revoking, Collecting DEF Tick, Collects, vars, docVars
<1>2. ASSUME NEW q \in Requests, Arrives(q) \/ Step(q) \/ Dies(q), ~MintWrite(q)
      PROVE  TokensFade
  <2>1. CASE Arrives(q) \/ CodeDelete(q) \/ Sweep(q) \/ ConsumeWrite(q)
    BY <2>1, Revoking DEF Arrives, CodeDelete, Sweep, ConsumeWrite, docVars
  <2>2. CASE RefreshLoad(q) \/ AccessLoad(q)
    BY <2>2, Revoking DEF RefreshLoad, AccessLoad, docVars
  <2> QED
    BY <1>2, <2>1, <2>2, PassingSteps DEF Step, Passes
<1> QED
  BY <1>1, <1>2 DEF Next

LEMMA EndsStay ==
    ASSUME FlowInv, [Next]_vars, NEW q \in Requests, pc[q] = "end"
    PROVE  /\ pc'[q] = "end" /\ kind'[q] = kind[q]
           /\ target'[q] = target[q] /\ answer'[q] = answer[q]
<1>1. CASE Tick \/ Collects \/ UNCHANGED vars
  BY <1>1 DEF Tick, Collects, vars, docVars, requestVars
<1>2. ASSUME NEW r \in Requests, Arrives(r)
      PROVE  /\ pc'[q] = "end" /\ kind'[q] = kind[q]
             /\ target'[q] = target[q] /\ answer'[q] = answer[q]
  <2>1. PICK k \in AllKinds : \E t \in Presentable(k) :
           /\ pc[r] = "idle" /\ pc' = [pc EXCEPT ![r] = FirstStep(k)]
           /\ kind' = [kind EXCEPT ![r] = k] /\ target' = [target EXCEPT ![r] = t]
           /\ answer' = answer
    BY <1>2, ArrivesWith
  <2>2. r # q
    BY <2>1
  <2> QED
    BY <2>1, <2>2 DEF FlowInv
<1>3. ASSUME NEW r \in Requests, Step(r) \/ Dies(r)
      PROVE  /\ pc'[q] = "end" /\ kind'[q] = kind[q]
             /\ target'[q] = target[q] /\ answer'[q] = answer[q]
  BY <1>3, StepGoesOn DEF GoesOn, Goes, AnswersWith, FlowInv, requestVars
<1> QED
  BY <1>1, <1>2, <1>3 DEF Next, FlowInv

(* The name of a request that is over is not minted again: what bears it   *)
(* only fades.                                                             *)
LEMMA NamedOnce ==
    ASSUME GrantTypes, FlowInv, [Next]_vars, NEW t \in Token, pc[t[2]] = "end",
           t \in DOMAIN tokens'
    PROVE  /\ t \in DOMAIN tokens
           /\ tokens'[t].family = tokens[t].family /\ tokens'[t].expires = tokens[t].expires
           /\ tokens[t].revoked => tokens'[t].revoked
<1>1. CASE TokensFade
  BY <1>1 DEF TokensFade
<1>2. ASSUME NEW q \in Requests, MintWrite(q)
      PROVE  t \in DOMAIN tokens /\ tokens'[t] = tokens[t]
  <2>1. t[2] # q
    BY <1>2 DEF MintWrite
  <2>2. t \notin {"access", "refresh"} \X {q}
    BY <2>1
  <2> QED
    BY <1>2, <2>1, <2>2, MintedPair
<1> QED
  BY <1>1, <1>2, TokensFadeOrMint

-----------------------------------------------------------------------------
(* Revocation.                                                             *)

LEMMA PairNames ==
    ASSUME NEW t \in Token
    PROVE  Pair(t) \in Token /\ Pair(t)[2] = t[2]
BY DEF Pair, Token

LEMMA RevokesQuietly ==
    ASSUME NEW t, GrantTypes, RevokeQuietly(t)
    PROVE  Gone(t)'
<1>1. CASE t \notin DOMAIN tokens
  BY <1>1 DEF RevokeQuietly, Gone
<1>2. CASE t \in DOMAIN tokens
  <2>1. tokens[t] \in [family : Families, revoked : BOOLEAN, expires : Nat]
    BY <1>2 DEF GrantTypes, PlaceTypes
  <2>2. tokens'[t] = [tokens[t] EXCEPT !.revoked = TRUE]
    BY <1>2 DEF RevokeQuietly, RevokedIn
  <2> QED
    BY <2>1, <2>2 DEF Gone
<1> QED
  BY <1>1, <1>2

LEMMA RevokeInit == Init => RevokeInv
BY DEF Init, RevokeInv

(* What holds of the token that request r is to revoke. *)
RevokeFits(r, t) ==
    /\ t \in Token /\ pc[t[2]] = "end"
    /\ pc[r] = "revokePair" => Gone(t)
    /\ answer[r] = "granted" /\ t \in DOMAIN tokens => Gone(t) /\ Gone(Pair(t))

LEMMA RevokeKept ==
    ASSUME GrantTypes, FlowInv, [Next]_vars, NEW r \in Requests, NEW t, RevokeFits(r, t)
    PROVE  /\ t \in Token /\ pc'[t[2]] = "end"
           /\ t \in DOMAIN tokens' => t \in DOMAIN tokens
           /\ Gone(t) => Gone(t)'
           /\ Gone(Pair(t)) => Gone(Pair(t))'
<1>1. t \in Token /\ pc[t[2]] = "end" /\ t[2] \in Requests
  BY DEF RevokeFits, Token
<1>2. pc'[t[2]] = "end" /\ Pair(t) \in Token /\ pc[Pair(t)[2]] = "end"
  BY <1>1, EndsStay, PairNames
<1>3. \A u \in {t, Pair(t)} : u \in DOMAIN tokens' =>
         u \in DOMAIN tokens /\ (tokens[u].revoked => tokens'[u].revoked)
  BY <1>1, <1>2, NamedOnce
<1> QED
  BY <1>1, <1>2, <1>3 DEF Gone

LEMMA RevokeNext == GrantTypes /\ FlowInv /\ RevokeInv /\ [Next]_vars => RevokeInv'
<1> SUFFICES ASSUME GrantTypes, FlowInv, RevokeInv, [Next]_vars,
                    NEW r \in Requests, kind'[r] = "revoke",
                    NEW t, t = target'[r]
             PROVE  RevokeFits(r, t)'
  BY DEF RevokeInv, RevokeFits
<1>1. ASSUME kind[r] = "revoke", target[r] = t, pc'[r] # "revokePair" \/ pc'[r] = pc[r],
             answer'[r] = answer[r] \/ answer'[r] # "granted"
      PROVE  RevokeFits(r, t)'
  BY <1>1, RevokeKept DEF RevokeInv, RevokeFits
<1>2. CASE Tick \/ Collects \/ UNCHANGED vars
  BY <1>1, <1>2 DEF Tick, Collects, vars, docVars, requestVars
<1>3. ASSUME NEW q \in Requests \ {r}, Arrives(q) \/ Step(q) \/ Dies(q)
      PROVE  RevokeFits(r, t)'
  <2>1. /\ kind'[r] = kind[r] /\ target'[r] = target[r]
        /\ pc'[r] = pc[r] /\ answer'[r] = answer[r]
    BY <1>3, ArrivesWith, StepGoesOn
       DEF GoesOn, Goes, AnswersWith, FlowInv, GrantTypes, requestVars
  <2> QED
    BY <1>1, <2>1
<1>4. CASE Arrives(r)
  <2>1. PICK k \in AllKinds : \E u \in Presentable(k) :
           /\ pc[r] = "idle" /\ pc' = [pc EXCEPT ![r] = FirstStep(k)]
           /\ kind' = [kind EXCEPT ![r] = k] /\ target' = [target EXCEPT ![r] = u]
           /\ answer' = answer
    BY <1>4, ArrivesWith
  <2>2. k = "revoke" /\ t \in Presentable(k) /\ pc'[r] = "revokeRead" /\ answer'[r] = "none"
    BY <2>1, FirstSteps DEF FlowInv, GrantTypes
  <2>3. t \in Token /\ answer[t[2]] = "granted" /\ t[2] \in Requests
    BY <2>2 DEF Presentable, Token
  <2>4. pc'[t[2]] = "end"
    BY <2>3, EndsStay DEF FlowInv
  <2> QED
    BY <2>2, <2>3, <2>4 DEF RevokeFits
<1>5. CASE Step(r) \/ Dies(r)
  <2>1. GoesOn(r)
    BY <1>5, StepGoesOn
  <2>2. kind[r] = "revoke" /\ target[r] = t /\ answer[r] = "none" /\ RevokeFits(r, t)
    BY <2>1 DEF GoesOn, requestVars, FlowInv, RevokeInv, RevokeFits
  <2>3. pc[r] \in {"revokeRead", "revokeToken", "revokePair"}
    BY <2>1, <2>2 DEF GoesOn, FlowInv, KindFits, Places
  <2>4. CASE RevokeRead(r)
    <3>1. \/ pc'[r] = "revokeToken" /\ answer'[r] = "none"
          \/ pc'[r] = "end" /\ t \notin DOMAIN tokens
      BY <2>2, <2>4 DEF RevokeRead, Goto, Answer, FlowInv
    <3> QED
      BY <2>2, <3>1, RevokeKept DEF RevokeFits
  <2>5. CASE RevokeToken(r)
    <3>1. RevokeQuietly(t) /\ pc'[r] = "revokePair" /\ answer'[r] = "none"
      BY <2>2, <2>5 DEF RevokeToken, Goto, FlowInv
    <3> QED
      BY <2>2, <3>1, RevokeKept, RevokesQuietly DEF RevokeFits
  <2>6. CASE RevokePair(r)
    <3>1. RevokeQuietly(Pair(t)) /\ pc[r] = "revokePair" /\ pc'[r] = "end"
      BY <2>2, <2>6 DEF RevokePair, Answer, Goto, FlowInv
    <3>2. Gone(t)' /\ Gone(Pair(t))'
      BY <2>2, <3>1, RevokeKept, RevokesQuietly DEF RevokeFits
    <3> QED
      BY <2>2, <3>1, <3>2, RevokeKept DEF RevokeFits
  <2>7. CASE Dies(r)
    BY <1>1, <2>2, <2>7 DEF Dies, Goto, FlowInv
  <2> QED
    BY <1>5, <2>3, <2>4, <2>5, <2>6, <2>7 DEF Step, TxnRead, TxnWrite, CodeSave, CodeLoad,
       CodeRead, CodeDelete, RefreshLoad, Mark, Sweep, Swept, ConsumeRead, ConsumeWrite, Unpair,
       MintRead, MintWrite, MintConflicts, AccessLoad, AccessFamily
<1> QED
  BY <1>2, <1>3, <1>4, <1>5 DEF Next

(* A revocation that was answered leaves neither half of the pair it named *)
(* usable, whatever rotations, sweeps and collections wrote the same       *)
(* documents between its two updates (revoke_token).                       *)
THEOREM GrantsRevokedTogether == Spec => []RevokedTogether
<1>1. RevokeInv => RevokedTogether
  BY DEF RevokeInv, Gone, RevokedTogether, Live
<1> QED
  BY <1>1, TypesInit, TypesNext, FlowInit, FlowNext, RevokeInit, RevokeNext, PTL DEF Spec

-----------------------------------------------------------------------------
(* Condemned tokens.                                                       *)

LEMMA CondemnedInit == Init => CondemnedInv
BY GrantsAssumption DEF Init, CondemnedInv, Punctual, Families

LEMMA TimePasses ==
    ASSUME GrantTypes, [Next]_vars
    PROVE  now' \in Nat /\ now <= now' /\ (Tick \/ now' = now)
<1>1. CASE Tick \/ Collects \/ UNCHANGED vars
  BY <1>1 DEF Tick, Collects, vars, GrantTypes
<1>2. ASSUME NEW q \in Requests, Arrives(q) \/ Step(q) \/ Dies(q)
      PROVE  now' = now
  BY <1>2 DEF Arrives, Step, Dies, TxnRead, TxnWrite, CodeSave, CodeLoad, CodeRead, CodeDelete,
     RefreshLoad, Mark, Sweep, Swept, ConsumeRead, ConsumeWrite, Unpair, MintRead, MintWrite,
     MintConflicts, AccessLoad, AccessFamily, RevokeRead, RevokeToken, RevokePair
<1> QED
  BY <1>1, <1>2 DEF Next, GrantTypes

LEMMA OnlyMarksMark ==
    ASSUME [Next]_vars
    PROVE  UNCHANGED marks \/ \E q \in Requests : Mark(q)
<1>1. CASE Tick \/ Collects \/ UNCHANGED vars
  BY <1>1 DEF Tick, Collects, vars
<1>2. ASSUME NEW q \in Requests, Arrives(q) \/ Step(q) \/ Dies(q), ~Mark(q)
      PROVE  UNCHANGED marks
  BY <1>2 DEF Arrives, Step, Dies, TxnRead, TxnWrite, CodeSave, CodeLoad, CodeRead, CodeDelete,
     RefreshLoad, Sweep, Swept, ConsumeRead, ConsumeWrite, Unpair, MintRead, MintWrite,
     MintConflicts, AccessLoad, AccessFamily, RevokeRead, RevokeToken, RevokePair
<1> QED
  BY <1>1, <1>2 DEF Next

LEMMA MarksRise ==
    ASSUME GrantTypes, [Next]_vars, \A f \in Families : marked[f] <= now + RefreshTTL
    PROVE  /\ \A f \in Families : marked[f] <= marked'[f] /\ marked'[f] <= now' + RefreshTTL
           /\ condemned \subseteq condemned'
<1>1. CASE UNCHANGED marks
  BY <1>1, TimePasses, GrantsAssumption DEF marks, GrantTypes
<1>2. ASSUME NEW q \in Requests, Mark(q)
      PROVE  /\ marked' = [marked EXCEPT ![fam[q]] = now + RefreshTTL] /\ now' = now
             /\ condemned \subseteq condemned'
  BY <1>2 DEF Mark
<1> QED
  BY <1>1, <1>2, OnlyMarksMark, GrantsAssumption DEF GrantTypes

LEMMA AccessTokensExpire ==
    ASSUME GrantTypes, [Next]_vars,
           \A t \in DOMAIN tokens : t[1] = "access" => tokens[t].expires <= now + AccessTTL
    PROVE  \A t \in DOMAIN tokens' : t[1] = "access" => tokens'[t].expires <= now' + AccessTTL
<1>1. CASE TokensFade
  <2>1. \A t \in DOMAIN tokens' :
           t \in DOMAIN tokens /\ tokens'[t].expires = tokens[t].expires /\ tokens[t].expires \in Nat
    BY <1>1 DEF TokensFade, GrantTypes, PlaceTypes
  <2> QED
    BY <2>1, TimePasses, GrantsAssumption DEF GrantTypes
<1>2. ASSUME NEW q \in Requests, MintWrite(q), NEW t \in DOMAIN tokens', t[1] = "access"
      PROVE  tokens'[t].expires <= now' + AccessTTL
  <2>1. tokens' = Minted(q, fam[q]) /\ now' = now
    BY <1>2 DEF MintWrite
  <2>2. CASE t[2] = q
    <3>1. tokens'[t].expires = now + AccessTTL
      BY <1>2, <2>1, <2>2 DEF Minted
    <3> QED
      BY <2>1, <3>1, GrantsAssumption DEF GrantTypes
  <2>3. CASE t[2] # q
    <3>1. t \in DOMAIN tokens /\ tokens'[t] = tokens[t]
      BY <1>2, <2>1, <2>3 DEF Minted
    <3> QED
      BY <1>2, <2>1, <3>1
  <2> QED
    BY <2>2, <2>3
<1> QED
  BY <1>1, <1>2, TokensFadeOrMint

(* The tokens of a family that is being marked have ended requests for     *)
(* names, and the mark outlasts them; of those that were condemned before, *)
(* none comes back.                                                        *)
LEMMA CondemnedKept ==
    ASSUME GrantTypes, FlowInv, KnownTokens, CondemnedInv, [Next]_vars, NEW t \in condemned'
    PROVE  t \in Token /\ pc'[t[2]] = "end" /\ Outlived(t)'
<1>1. CASE t \in condemned
  <2>1. t \in Token /\ pc[t[2]] = "end" /\ Outlived(t) /\ t[2] \in Requests
    BY <1>1 DEF CondemnedInv, Token
  <2>2. pc'[t[2]] = "end"
    BY <2>1, EndsStay
  <2>3. ASSUME t[1] = "access", t \in DOMAIN tokens'
        PROVE  tokens'[t].expires + (RefreshTTL - AccessTTL) <= marked'[tokens'[t].family]
    <3>1. /\ t \in DOMAIN tokens
          /\ tokens'[t].family = tokens[t].family /\ tokens'[t].expires = tokens[t].expires
      BY <2>1, <2>3, NamedOnce
    <3>2. tokens[t].family \in Families /\ tokens[t].expires \in Nat
      BY <3>1 DEF GrantTypes, PlaceTypes
    <3>3. marked[tokens[t].family] <= marked'[tokens[t].family]
      BY <3>2, MarksRise DEF CondemnedInv
    <3>4. marked'[tokens[t].family] \in Nat /\ marked[tokens[t].family] \in Nat
      BY <3>2, TypesNext DEF GrantTypes
    <3> QED
      BY <2>1, <2>3, <3>1, <3>2, <3>3, <3>4, GrantsAssumption DEF Outlived
  <2> QED
    BY <2>1, <2>2, <2>3 DEF Outlived
<1>2. ASSUME NEW q \in Requests, Mark(q), t \notin condemned
      PROVE  t \in Token /\ pc'[t[2]] = "end" /\ Outlived(t)'
  <2>1. /\ t \in DOMAIN tokens /\ tokens[t].family = fam[q]
        /\ tokens' = tokens /\ marked' = [marked EXCEPT ![fam[q]] = now + RefreshTTL]
    BY <1>2 DEF Mark, FamilyTokens
  <2>2. t \in Token /\ t[2] \in Requests /\ pc[t[2]] = "end" /\ tokens[t].expires \in Nat
    BY <2>1 DEF KnownTokens, GrantTypes, PlaceTypes, Token
  <2>3. marked'[fam[q]] = now + RefreshTTL
    BY <2>1 DEF GrantTypes, PlaceTypes
  <2>4. t[1] = "access" => tokens[t].expires <= now + AccessTTL
    BY <2>1 DEF CondemnedInv
  <2>5. Outlived(t)'
    BY <2>1, <2>2, <2>3, <2>4, GrantsAssumption DEF Outlived, GrantTypes
  <2> QED
    BY <2>2, <2>5, EndsStay
<1> QED
  BY <1>1, <1>2, OnlyMarksMark DEF marks

LEMMA PunctualNext ==
    ASSUME GrantTypes, FlowInv, CondemnedInv, [Next]_vars
    PROVE  began' \in [Requests -> Nat] /\ \A r \in Requests : Punctual(r)'
<1>1. began \in [Requests -> Nat] /\ now \in Nat /\ MaxRun \in Nat
  BY GrantsAssumption DEF CondemnedInv, GrantTypes
<1>2. CASE Tick
  BY <1>1, <1>2 DEF Tick, requestVars, CondemnedInv, Punctual
<1>3. CASE Collects \/ UNCHANGED vars
  BY <1>1, <1>3 DEF Collects, vars, requestVars, CondemnedInv, Punctual
<1>4. ASSUME NEW q \in Requests, Arrives(q)
      PROVE  began' \in [Requests -> Nat] /\ \A r \in Requests : Punctual(r)'
  <2>1. PICK k \in AllKinds : pc' = [pc EXCEPT ![q] = FirstStep(k)]
    BY <1>4, ArrivesWith
  <2>2. began' = [began EXCEPT ![q] = now] /\ now' = now
    BY <1>4, ArrivesWith
  <2> QED
    BY <1>1, <2>1, <2>2 DEF CondemnedInv, Punctual, FlowInv
<1>5. ASSUME NEW q \in Requests, Step(q) \/ Dies(q)
      PROVE  began' \in [Requests -> Nat] /\ \A r \in Requests : Punctual(r)'
  <2>1. GoesOn(q)
    BY <1>5, StepGoesOn
  <2>2. \A r \in Requests : pc'[r] \notin {"idle", "end"} => pc[r] \notin {"idle", "end"}
    BY <2>1 DEF GoesOn, Goes, FlowInv
  <2>3. began' = began
    BY <2>1 DEF GoesOn, requestVars
  <2>4. now' = now
    BY <1>5 DEF Step, Dies, TxnRead, TxnWrite, CodeSave, CodeLoad, CodeRead, CodeDelete,
       RefreshLoad, Mark, Sweep, Swept, ConsumeRead, ConsumeWrite, Unpair, MintRead, MintWrite,
       MintConflicts, AccessLoad, AccessFamily, RevokeRead, RevokeToken, RevokePair
  <2> QED
    BY <1>1, <2>2, <2>3, <2>4 DEF CondemnedInv, Punctual
<1> QED
  BY <1>2, <1>3, <1>4, <1>5 DEF Next

LEMMA LateArrives ==
    ASSUME GrantTypes, FlowInv, CondemnedInv, NEW r \in Requests, Arrives(r),
           NEW q \in Requests, q \in late'
    PROVE  LateFits(q)'
<1>1. PICK k \in AllKinds : \E t \in Presentable(k) :
         /\ pc[r] = "idle" /\ pc' = [pc EXCEPT ![r] = FirstStep(k)]
         /\ kind' = [kind EXCEPT ![r] = k] /\ target' = [target EXCEPT ![r] = t]
         /\ late' = IF t \in condemned THEN late \cup {r} ELSE late
         /\ began' = [began EXCEPT ![r] = now]
         /\ UNCHANGED <<now, docVars, fam, snap, attempts, answer, marks>>
  BY ArrivesWith
<1>2. PICK t \in Presentable(k) :
         /\ target' = [target EXCEPT ![r] = t]
         /\ late' = IF t \in condemned THEN late \cup {r} ELSE late
  BY <1>1
<1>3. FirstStep(k) \notin {"idle", "end", "accessFamily"}
  BY FirstSteps DEF AllKinds
<1>4. CASE q = r
  <2>1. r \notin late
    BY <1>1 DEF CondemnedInv, LateFits
  <2>2. t \in condemned /\ target'[r] = t /\ pc'[r] = FirstStep(k) /\ kind'[r] = k
    BY <1>1, <1>2, <1>4, <2>1 DEF FlowInv, GrantTypes
  <2>3. k = "access" => t[1] = "access"
    BY DEF Presentable
  <2>4. answer'[r] = "none" /\ condemned' = condemned
    BY <1>1 DEF FlowInv, marks
  <2> QED
    BY <1>3, <1>4, <2>2, <2>3, <2>4 DEF LateFits
<1>5. CASE q # r
  <2>1. /\ q \in late /\ pc'[q] = pc[q] /\ kind'[q] = kind[q] /\ target'[q] = target[q]
        /\ began'[q] = began[q] /\ UNCHANGED <<fam, answer, condemned, marked>>
    BY <1>1, <1>2, <1>5 DEF FlowInv, GrantTypes, CondemnedInv, marks
  <2> QED
    BY <2>1 DEF CondemnedInv, LateFits
<1> QED
  BY <1>4, <1>5

(* When a condemned access token is loaded it has not expired, so its      *)
(* family is marked for the rest of the request and beyond.                *)
LEMMA LateLoads ==
    ASSUME MarkOutlasts, GrantTypes, CondemnedInv, NEW r \in Requests, r \in late,
           AccessLoad(r), kind[r] = "access", pc'[r] = "accessFamily", FlowInv
    PROVE  began[r] + MaxRun < marked[fam'[r]]
<1> DEFINE t == target[r]
<1>1. Live(t) /\ fam'[r] = tokens[t].family
  BY DEF AccessLoad, Goto, Answer, FlowInv, GrantTypes, PlaceTypes
<1>2. t[1] = "access" /\ Outlived(t)
  BY DEF CondemnedInv, LateFits
<1>3. /\ tokens[t].expires \in Nat /\ now < tokens[t].expires
      /\ marked[tokens[t].family] \in Nat /\ now \in Nat
  BY <1>1 DEF Live, Expired, GrantTypes, PlaceTypes
<1>4. tokens[t].expires + (RefreshTTL - AccessTTL) <= marked[tokens[t].family]
  BY <1>1, <1>2 DEF Outlived, Live
<1>5. began[r] <= now /\ began[r] \in Nat
  BY DEF CondemnedInv, Punctual, AccessLoad
<1> QED
  BY <1>1, <1>3, <1>4, <1>5, GrantsAssumption DEF MarkOutlasts

(* And when its family is read the mark is there. *)
LEMMA LateRefused ==
    ASSUME GrantTypes, MarkInv, CondemnedInv, NEW r \in Requests, r \in late,
           AccessFamily(r), FlowInv
    PROVE  answer'[r] = "refused"
<1>1. pc[r] = "accessFamily" /\ began[r] + MaxRun < marked[fam[r]] /\ now <= began[r] + MaxRun
  BY DEF AccessFamily, CondemnedInv, LateFits, Punctual
<1>2. fam[r] \in Families /\ marked[fam[r]] \in Nat /\ began[r] \in Nat
  BY DEF GrantTypes, PlaceTypes, CondemnedInv
<1>3. now < marked[fam[r]]
  BY <1>1, <1>2, GrantsAssumption DEF GrantTypes
<1>4. fam[r] \in DOMAIN families /\ families[fam[r]].revoked
  BY <1>2, <1>3 DEF MarkInv
<1> QED
  BY <1>4 DEF AccessFamily, Answer, FlowInv

LEMMA LateNext ==
    ASSUME MarkOutlasts, GrantTypes, MarkInv, FlowInv, CondemnedInv, [Next]_vars,
           NEW r \in Requests, r \in late'
    PROVE  LateFits(r)'
<1>1. /\ \A f \in Families : marked[f] <= marked'[f] /\ marked'[f] \in Nat /\ marked[f] \in Nat
      /\ condemned \subseteq condemned'
  BY MarksRise, TypesNext DEF CondemnedInv, GrantTypes
<1>2. ASSUME r \in late, UNCHANGED <<kind, target, began>>,
             pc'[r] = pc[r], fam'[r] = fam[r], answer'[r] = answer[r]
      PROVE  LateFits(r)'
  <2>1. fam[r] \in Families /\ began[r] \in Nat
    BY DEF GrantTypes, PlaceTypes, CondemnedInv
  <2> QED
    BY <1>1, <1>2, <2>1, GrantsAssumption DEF LateFits, CondemnedInv
<1>3. CASE Tick \/ Collects \/ UNCHANGED vars
  BY <1>2, <1>3 DEF Tick, Collects, vars, requestVars
<1>4. ASSUME NEW q \in Requests \ {r}, Step(q) \/ Dies(q)
      PROVE  LateFits(r)'
  <2>1. UNCHANGED requestVars /\ pc'[r] = pc[r] /\ answer'[r] = answer[r]
    BY <1>4, StepGoesOn DEF GoesOn, Goes, AnswersWith, FlowInv
  <2>2. fam'[r] = fam[r]
    BY <1>4 DEF GrantTypes, PlaceTypes, Step, Dies, TxnRead, TxnWrite, CodeSave, CodeLoad,
       CodeRead, CodeDelete, RefreshLoad, Mark, Sweep, Swept, ConsumeRead, ConsumeWrite, Unpair,
       MintRead, MintWrite, MintConflicts, AccessLoad, AccessFamily, RevokeRead, RevokeToken,
       RevokePair
  <2> QED
    BY <1>2, <2>1, <2>2 DEF requestVars
<1>5. CASE Step(r) \/ Dies(r)
  <2>1. GoesOn(r)
    BY <1>5, StepGoesOn
  <2>2. r \in late /\ UNCHANGED <<kind, target, began>> /\ LateFits(r) /\ answer[r] = "none"
    BY <2>1 DEF GoesOn, requestVars, CondemnedInv, FlowInv
  <2>3. pc'[r] # "idle" /\ (pc'[r] = "accessFamily" => pc[r] = "accessLoad")
    BY <2>1 DEF GoesOn, Goes, Follows, FlowInv
  <2>4. kind[r] = "access" => answer'[r] # "granted"
    <3>1. CASE AccessFamily(r)
      BY <2>2, <3>1, LateRefused
    <3>2. CASE pc[r] # "accessFamily"
      BY <2>1, <2>2, <3>2 DEF GoesOn, AnswersWith, Granting, FlowInv, KindFits
    <3>3. CASE ~AccessFamily(r) /\ pc[r] = "accessFamily"
      BY <1>5, <2>2, <3>3 DEF Step, Dies, TxnRead, TxnWrite, CodeSave, CodeLoad,
         CodeRead, CodeDelete, RefreshLoad, Mark, Sweep, Swept, ConsumeRead, ConsumeWrite, Unpair,
         MintRead, MintWrite, MintConflicts, AccessLoad, RevokeRead, RevokeToken, RevokePair
    <3> QED
      BY <3>1, <3>2, <3>3
  <2>5. pc'[r] = "accessFamily" => began[r] + MaxRun < marked'[fam'[r]]
    <3> SUFFICES ASSUME pc'[r] = "accessFamily"
                 PROVE  began[r] + MaxRun < marked'[fam'[r]]
      OBVIOUS
    <3>1. AccessLoad(r)
      BY <1>5, <2>3 DEF Step, Dies, Goto, FlowInv, TxnRead, TxnWrite, CodeSave, CodeLoad,
         CodeRead, CodeDelete, RefreshLoad, Mark, Sweep, Swept, ConsumeRead, ConsumeWrite, Unpair,
         MintRead, MintWrite, MintConflicts, AccessFamily, RevokeRead, RevokeToken, RevokePair
    <3>2. kind[r] = "access"
      BY <3>1 DEF AccessLoad, FlowInv, KindFits
    <3>3. began[r] + MaxRun < marked[fam'[r]]
      BY <2>2, <3>1, <3>2, LateLoads
    <3>4. fam'[r] \in Families /\ began[r] \in Nat
      BY TypesNext DEF GrantTypes, PlaceTypes, CondemnedInv
    <3> QED
      BY <1>1, <3>3, <3>4, GrantsAssumption
  <2> QED
    BY <1>1, <2>2, <2>3, <2>4, <2>5 DEF LateFits
<1> QED
  BY <1>3, <1>4, <1>5, LateArrives DEF Next

LEMMA CondemnedNext ==
    ASSUME MarkOutlasts
    PROVE  GrantTypes /\ MarkInv /\ HeirInv /\ FlowInv /\ CondemnedInv /\ [Next]_vars
              => CondemnedInv'
<1> SUFFICES ASSUME GrantTypes, MarkInv, HeirInv, FlowInv, CondemnedInv, [Next]_vars
             PROVE  CondemnedInv'
  OBVIOUS
<1>1. \A t \in DOMAIN tokens' : t[1] = "access" => tokens'[t].expires <= now' + AccessTTL
  BY AccessTokensExpire DEF CondemnedInv
<1>2. \A f \in Families : marked'[f] <= now' + RefreshTTL
  BY MarksRise DEF CondemnedInv
<1>3. \A t \in condemned' : t \in Token /\ pc'[t[2]] = "end" /\ Outlived(t)'
  BY CondemnedKept DEF HeirInv, Known
<1>4. late' \subseteq Requests
  <2>1. \A r \in Requests : Arrives(r) => late' = late \/ late' = late \cup {r}
    BY DEF Arrives
  <2>2. \A r \in Requests : Step(r) \/ Dies(r) => late' = late
    BY StepGoesOn DEF GoesOn, requestVars
  <2>3. Tick \/ Collects \/ UNCHANGED vars => late' = late
    BY DEF Tick, Collects, vars, requestVars
  <2> QED
    BY <2>1, <2>2, <2>3 DEF Next, CondemnedInv
<1>5. \A r \in late' : LateFits(r)'
  BY <1>4, LateNext
<1> QED
  BY <1>1, <1>2, <1>3, <1>4, <1>5, PunctualNext DEF CondemnedInv

(* An access token its family had when the mark was written lets no        *)
(* request in that presents it afterwards, though no sweep reached it and  *)
(* the family document was since collected: load_access_token reads the    *)
(* family after the token, and the mark is retained past the expiry of     *)
(* every access token by more than a request takes.                        *)
THEOREM GrantsCondemnedStayOut ==
    ASSUME MarkOutlasts
    PROVE  Spec => []CondemnedStayOut
<1>1. CondemnedInv => CondemnedStayOut
  BY DEF CondemnedInv, LateFits, CondemnedStayOut
<1> QED
  BY <1>1, TypesInit, TypesNext, MarkInit, MarkNext, HeirInit, HeirNext, FlowInit, FlowNext,
     CondemnedInit, CondemnedNext, PTL DEF Spec

-----------------------------------------------------------------------------
(* Types.                                                                  *)

LEMMA StoreTypesInit == Init => StoreTypes
<1> SUFFICES ASSUME Init PROVE StoreTypes
  OBVIOUS
<1>1. RefreshTTL \in Nat /\ Issued \subseteq Requests
  BY GrantsAssumption
<1>2. \A f \in Issued : families[f] \in [revoked : BOOLEAN, expires : Nat, write : Writes]
  BY <1>1 DEF Init, Writes
<1> QED
  BY <1>1, <1>2 DEF Init, StoreTypes, Families, NoDocs

LEMMA StoreTypesNext == GrantTypes /\ StoreTypes /\ [Next]_vars => StoreTypes'
<1> SUFFICES ASSUME GrantTypes, StoreTypes, [Next]_vars PROVE StoreTypes'
  OBVIOUS
<1>1. now + CodeTTL \in Nat /\ now + RefreshTTL \in Nat
  BY GrantsAssumption DEF GrantTypes
<1>2. CASE Tick \/ Collects \/ UNCHANGED vars
  BY <1>2 DEF Tick, Collects, vars, docVars, Deleted, StoreTypes
<1>3. ASSUME NEW r \in Requests, Arrives(r) \/ Step(r) \/ Dies(r)
      PROVE  StoreTypes'
  <2>1. \/ UNCHANGED <<txn, codes, families>>
        \/ TxnWrite(r) \/ CodeSave(r) \/ CodeDelete(r) \/ Mark(r) \/ MintWrite(r)
    BY <1>3 DEF Arrives, Step, Dies, TxnRead, CodeLoad, CodeRead, RefreshLoad, Sweep, Swept,
       ConsumeRead, ConsumeWrite, Unpair, MintRead, MintConflicts, AccessLoad, AccessFamily,
       RevokeRead, RevokeToken, RevokePair, docVars
  <2>2. CASE UNCHANGED <<txn, codes, families>>
    BY <2>2 DEF StoreTypes
  <2>3. CASE TxnWrite(r)
    BY <2>3 DEF TxnWrite, StoreTypes
  <2>4. CASE CodeSave(r) \/ CodeDelete(r)
    BY <1>1, <2>4 DEF CodeSave, CodeDelete, Stored, Deleted, StoreTypes
  <2>5. CASE Mark(r) \/ MintWrite(r)
    <3>1. PICK d \in [revoked : BOOLEAN, expires : Nat, write : Writes] :
             families' = Stored(families, fam[r], d)
      BY <1>1, <2>5 DEF Mark, MintWrite, Writes
    <3>2. UNCHANGED <<txn, codes>> /\ fam[r] \in Families
      BY <2>5 DEF Mark, MintWrite, GrantTypes, PlaceTypes
    <3> QED
      BY <3>1, <3>2 DEF StoreTypes, Stored
  <2> QED
    BY <2>1, <2>2, <2>3, <2>4, <2>5
<1> QED
  BY <1>2, <1>3 DEF Next

LEMMA PresentableTypes ==
    ASSUME NEW k \in AllKinds
    PROVE  Presentable(k) \subseteq Targets
BY DEF Presentable, AllKinds, Targets

LEMMA RequestTypesInit == Init => RequestTypes
BY GrantsAssumption DEF Init, RequestTypes, Targets

LEMMA RequestTypesNext ==
    GrantTypes /\ StoreTypes /\ FlowInv /\ RequestTypes /\ [Next]_vars => RequestTypes'
<1> SUFFICES ASSUME GrantTypes, StoreTypes, FlowInv, RequestTypes, [Next]_vars
             PROVE  RequestTypes'
  OBVIOUS
<1>0. MINT_ATTEMPTS \in Nat /\ MaxTime \in Nat
  BY GrantsAssumption
<1>1. CASE Tick \/ Collects \/ UNCHANGED vars
  <2>1. UNCHANGED <<target, snap, attempts, pc>>
    BY <1>1 DEF Tick, Collects, vars, requestVars
  <2>2. now' <= MaxTime
    BY <1>0, <1>1 DEF Tick, Collects, vars, GrantTypes, RequestTypes
  <2> QED
    BY <2>1, <2>2 DEF RequestTypes
<1>2. ASSUME NEW r \in Requests, Arrives(r)
      PROVE  RequestTypes'
  <2>1. PICK k \in AllKinds : \E t \in Presentable(k) :
           /\ pc[r] = "idle" /\ pc' = [pc EXCEPT ![r] = FirstStep(k)]
           /\ target' = [target EXCEPT ![r] = t]
           /\ UNCHANGED <<now, snap, attempts>>
    BY <1>2, ArrivesWith
  <2> QED
    BY <2>1, PresentableTypes DEF RequestTypes, FlowInv
<1>3. ASSUME NEW r \in Requests, MintRead(r)
      PROVE  RequestTypes'
  <2>1. attempts[r] < MINT_ATTEMPTS /\ pc'[r] \in {"mintWrite", "end"}
    BY <1>3 DEF MintRead, Goto, Answer, RequestTypes, FlowInv
  <2>2. snap' \in [Requests -> {Absent} \cup Writes]
    BY <1>3 DEF MintRead, RequestTypes, StoreTypes
  <2>3. \A q \in Requests : q # r => pc'[q] = pc[q]
    BY <1>3 DEF MintRead, Goto, Answer, FlowInv
  <2>4. UNCHANGED <<now, target>> /\ attempts' = [attempts EXCEPT ![r] = @ + 1]
    BY <1>3 DEF MintRead, requestVars
  <2> QED
    BY <1>0, <2>1, <2>2, <2>3, <2>4 DEF RequestTypes
<1>4. ASSUME NEW r \in Requests, Step(r) \/ Dies(r), ~MintRead(r)
      PROVE  RequestTypes'
  <2>1. UNCHANGED <<now, target, snap, attempts>>
    BY <1>4 DEF Step, Dies, TxnRead, TxnWrite, CodeSave, CodeLoad, CodeRead, CodeDelete,
       RefreshLoad, Mark, Sweep, Swept, ConsumeRead, ConsumeWrite, Unpair, MintWrite,
       MintConflicts, AccessLoad, AccessFamily, RevokeRead, RevokeToken, RevokePair, requestVars
  <2>2. \A q \in Requests : q # r => pc'[q] = pc[q]
    BY <1>4, StepGoesOn DEF GoesOn, Goes, FlowInv
  <2>3. pc'[r] \notin {"mintWrite", "end"} => attempts[r] < MINT_ATTEMPTS
    <3>1. CASE MintConflicts(r)
      BY <3>1 DEF MintConflicts, Answer, Goto, FlowInv
    <3>2. CASE MintWrite(r)
      BY <3>2 DEF MintWrite, Answer, Goto, FlowInv
    <3>3. CASE ~MintConflicts(r) /\ ~MintWrite(r)
      <4>1. pc[r] # "end" /\ (pc[r] = "mintWrite" => pc'[r] = "end")
        BY <1>4, <3>3 DEF FlowInv, Goto, Step, Dies, TxnRead, TxnWrite, CodeSave, CodeLoad,
           CodeRead, CodeDelete, RefreshLoad, Mark, Sweep, Swept, ConsumeRead, ConsumeWrite,
           Unpair, MintRead, AccessLoad, AccessFamily, RevokeRead, RevokeToken, RevokePair
      <4> QED
        BY <4>1 DEF RequestTypes
    <3> QED
      BY <3>1, <3>2, <3>3
  <2> QED
    BY <2>1, <2>2, <2>3 DEF RequestTypes
<1> QED
  BY <1>1, <1>2, <1>3, <1>4 DEF Next

CondemnedTypes == began \in [Requests -> Nat] /\ condemned \subseteq Token /\ late \subseteq Requests

LEMMA CondemnedTypesNext == GrantTypes /\ CondemnedTypes /\ [Next]_vars => CondemnedTypes'
<1> SUFFICES ASSUME GrantTypes, CondemnedTypes, [Next]_vars PROVE CondemnedTypes'
  OBVIOUS
<1>1. condemned' \subseteq Token
  <2>1. \A q \in Requests : Mark(q) => condemned' \subseteq Token
    BY DEF Mark, FamilyTokens, CondemnedTypes, GrantTypes, PlaceTypes
  <2> QED
    BY <2>1, OnlyMarksMark DEF CondemnedTypes, marks
<1>2. ASSUME NEW r \in Requests, Arrives(r)
      PROVE  began' \in [Requests -> Nat] /\ late' \subseteq Requests
  <2>1. began' = [began EXCEPT ![r] = now] /\ now \in Nat
    BY <1>2 DEF Arrives, GrantTypes
  <2>2. late' = late \/ late' = late \cup {r}
    BY <1>2 DEF Arrives
  <2> QED
    BY <2>1, <2>2 DEF CondemnedTypes
<1>3. ASSUME NEW r \in Requests, Step(r) \/ Dies(r)
      PROVE  UNCHANGED <<began, late>>
  BY <1>3 DEF requestVars, Step, Dies, TxnRead, TxnWrite, CodeSave, CodeLoad, CodeRead,
     CodeDelete, RefreshLoad, Mark, Sweep, Swept, ConsumeRead, ConsumeWrite, Unpair, MintRead,
     MintWrite, MintConflicts, AccessLoad, AccessFamily, RevokeRead, RevokeToken, RevokePair
<1>4. Tick \/ Collects \/ UNCHANGED vars => UNCHANGED <<began, late>>
  BY DEF Tick, Collects, vars, requestVars
<1> QED
  BY <1>1, <1>2, <1>3, <1>4 DEF Next, CondemnedTypes

(* Every variable keeps its type, and save_token_pair tries a mint at most *)
(* MINT_ATTEMPTS times.                                                    *)
THEOREM GrantsTypeOK == Spec => []TypeOK
<1>1. GrantTypes /\ StoreTypes /\ FlowInv /\ RequestTypes /\ CondemnedTypes => TypeOK
  BY GrantsAssumption DEF GrantTypes, PlaceTypes, StoreTypes, FlowInv, RequestTypes, Targets,
     CondemnedTypes, TypeOK
<1>2. Init => CondemnedTypes
  BY DEF Init, CondemnedTypes
<1> QED
  BY <1>1, <1>2, TypesInit, TypesNext, StoreTypesInit, StoreTypesNext, FlowInit, FlowNext,
     RequestTypesInit, RequestTypesNext, CondemnedTypesNext, PTL DEF Spec
=============================================================================
