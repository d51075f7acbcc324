-------------------------- MODULE AssistantRunProofs --------------------------
(***************************************************************************)
(* Proofs about AssistantRun, for every value of its constants.            *)
(*                                                                         *)
(* IInv strengthens TypeOK and BudgetAccounted to an inductive invariant:  *)
(* where consults may be, that the three stages of a call are disjoint,    *)
(* that a held slot leaves the director a call, and how many tool calls    *)
(* the dispatch still has to count.                                        *)
(*                                                                         *)
(* AnswerInv, on top of it, is about what the writer sees: one verdict per *)
(* settled call, everything before the dispatched call settled, reviews    *)
(* after the first wave, no reply without words.                           *)
(***************************************************************************)
EXTENDS AssistantRun, FiniteSetTheorems, TLAPS

(* A consult lives only while its wave, or its draft, is the place the     *)
(* coroutine waits at; a run that ended may still hold some.               *)
Placed ==
    /\ pc # "ended" => building \cup asking \subseteq Running
    /\ building \cap asking = {}
    /\ settled \cap (building \cup asking) = {}

(* take_consult's held-back call, while any slot is held. *)
HeldBack == building # {} => modelCalls < MaxModelCalls

(* The calls still to be counted fit under the ceiling. *)
DispatchFits ==
    /\ pc = "stream" => at = 1
    /\ pc \in {"plain", "review"} =>
        at = 1 /\ Len(calls) > 0 /\ toolCalls + Len(calls) <= MaxToolCalls
    /\ pc = "dispatch" =>
        at <= Len(calls) /\ toolCalls + Len(calls) + 1 <= MaxToolCalls + at
    /\ pc = "draft" =>
        at <= Len(calls) /\ toolCalls + Len(calls) <= MaxToolCalls + at

IInv ==
    /\ TypeOK
    /\ BudgetAccounted
    /\ Placed
    /\ HeldBack
    /\ DispatchFits

-----------------------------------------------------------------------------
(* A set of positions is finite, so that counting it means something. *)
LEMMA PositionsFinite ==
    ASSUME NEW n \in Nat, NEW S, S \subseteq 1 .. n
    PROVE  IsFiniteSet(S) /\ Cardinality(S) \in Nat
<1>1. IsFiniteSet(1 .. n)
  BY FS_Interval
<1>2. IsFiniteSet(S)
  BY <1>1, FS_Subset
<1> QED
  BY <1>2, FS_CardinalityType

(* The counts a claim, an ask or a refund changes by one. *)
LEMMA CountStep ==
    ASSUME NEW S, IsFiniteSet(S), NEW x
    PROVE  /\ x \notin S => Cardinality(S \cup {x}) = Cardinality(S) + 1
           /\ x \in S => Cardinality(S \ {x}) = Cardinality(S) - 1
BY FS_AddElement, FS_RemoveElement

LEMMA StepDomain ==
    ASSUME TypeOK
    PROVE  /\ Len(calls) \in Nat
           /\ DOMAIN calls = 1 .. Len(calls)
           /\ IsFiniteSet(building) /\ Cardinality(building) \in Nat
           /\ IsFiniteSet(reviewing \cap building)
           /\ Cardinality(reviewing \cap building) \in Nat
<1>1. Len(calls) \in Nat /\ DOMAIN calls = 1 .. Len(calls)
  BY DEF TypeOK, StepTypeOK
<1>2. building \subseteq 1 .. Len(calls) /\ reviewing \cap building \subseteq 1 .. Len(calls)
  BY <1>1 DEF TypeOK, StepTypeOK
<1> QED
  BY <1>1, <1>2, PositionsFinite

LEMMA InitIInv == Init => IInv
<1> SUFFICES ASSUME Init PROVE IInv
  OBVIOUS
<1> USE BudgetAssumption, RunAssumption DEF Init, BudgetInit
<1>1. Cardinality({}) = 0 /\ reviewing \cap building = {}
  BY FS_EmptySet
<1>2. BudgetTypeOK
  BY DEF BudgetTypeOK
<1>3. LoopTypeOK
  BY DEF LoopTypeOK
<1>4. FlagTypeOK
  BY DEF FlagTypeOK
<1>5. StepTypeOK
  BY DEF StepTypeOK, Positions
<1>6. BudgetAccounted
  BY <1>1 DEF BudgetAccounted
<1>7. Placed /\ HeldBack /\ DispatchFits
  BY DEF Placed, HeldBack, DispatchFits, Running
<1> QED
  BY <1>2, <1>3, <1>4, <1>5, <1>6, <1>7 DEF IInv, TypeOK

-----------------------------------------------------------------------------
(* A step that touches neither the budget nor the consults that hold a     *)
(* slot keeps what is said of them.                                        *)
LEMMA QuietBudget ==
    ASSUME IInv, UNCHANGED <<budgetVars, building, reviewing, askedVars>>
    PROVE  BudgetTypeOK' /\ BudgetAccounted' /\ HeldBack'
BY DEF IInv, TypeOK, BudgetTypeOK, BudgetAccounted, HeldBack, budgetVars, askedVars

(* Where the dispatch stands, and that whatever runs is one of the calls. *)
LEMMA DispatchPlace ==
    ASSUME IInv
    PROVE  /\ Running \subseteq DOMAIN calls
           /\ pc \in {"dispatch", "draft"} =>
                 at \in DOMAIN calls /\ at \in Nat /\ toolCalls \in Nat
           /\ pc = "dispatch" => toolCalls + 1 <= MaxToolCalls
           /\ Running \subseteq settled => building = {} \/ pc = "ended"
           /\ Running \subseteq settled => asking = {} \/ pc = "ended"
<1> USE RunAssumption, StepDomain DEF IInv, TypeOK
<1>1. at \in Nat /\ at >= 1 /\ toolCalls \in Nat
  BY DEF StepTypeOK, LoopTypeOK
<1>2. pc \in {"dispatch", "draft"} => at \in DOMAIN calls
  BY <1>1 DEF DispatchFits
<1>3. pc = "dispatch" => toolCalls + 1 <= MaxToolCalls
  BY <1>1 DEF DispatchFits
<1>4. Running \subseteq DOMAIN calls
  BY <1>2 DEF Running
<1>5. Running \subseteq settled => (building = {} /\ asking = {}) \/ pc = "ended"
  BY DEF Placed
<1> QED
  BY <1>1, <1>2, <1>3, <1>4, <1>5

(* Settling calls of the answer keeps the types of the step. *)
LEMMA SettleType ==
    ASSUME NEW S, StepTypeOK, S \subseteq DOMAIN calls, Settle(S)
    PROVE  settled' \subseteq DOMAIN calls /\ verdicts' \in [Positions -> Nat]
BY DEF StepTypeOK, Settle, Positions

LEMMA BeginKeeps ==
    ASSUME IInv, Begin
    PROVE  IInv'
<1> USE BudgetAssumption, RunAssumption, StepDomain
    DEF IInv, TypeOK, Begin, End, budgetVars, flagVars, stepVars, askedVars
<1>1. BudgetTypeOK' /\ BudgetAccounted' /\ HeldBack'
  BY QuietBudget
<1>2. LoopTypeOK'
  BY DEF LoopTypeOK, DispatchFits
<1>3. FlagTypeOK'
  BY DEF FlagTypeOK
<1>4. StepTypeOK'
  BY DEF StepTypeOK, Positions
<1>5. Placed'
  BY DEF Placed, Running, StepTypeOK
<1>6. DispatchFits'
  BY DEF DispatchFits, LoopTypeOK, StepTypeOK
<1> QED
  BY <1>1, <1>2, <1>3, <1>4, <1>5, <1>6

LEMMA LoadPromptKeeps ==
    ASSUME IInv, LoadPrompt
    PROVE  IInv'
<1> USE BudgetAssumption, RunAssumption, StepDomain
    DEF IInv, TypeOK, LoadPrompt, budgetVars, flagVars, stepVars, askedVars
<1>1. BudgetTypeOK' /\ BudgetAccounted' /\ HeldBack'
  BY QuietBudget
<1>2. LoopTypeOK'
  BY DEF LoopTypeOK, DispatchFits
<1>3. FlagTypeOK'
  BY DEF FlagTypeOK
<1>4. StepTypeOK'
  BY DEF StepTypeOK, Positions
<1>5. Placed'
  BY DEF Placed, Running, StepTypeOK
<1>6. DispatchFits'
  BY DEF DispatchFits, LoopTypeOK, StepTypeOK
<1> QED
  BY <1>1, <1>2, <1>3, <1>4, <1>5, <1>6

LEMMA OutOfModelCallsKeeps ==
    ASSUME IInv, OutOfModelCalls
    PROVE  IInv'
<1> USE BudgetAssumption, RunAssumption, StepDomain
    DEF IInv, TypeOK, OutOfModelCalls, End, budgetVars, flagVars, stepVars, askedVars
<1>1. BudgetTypeOK' /\ BudgetAccounted' /\ HeldBack'
  BY QuietBudget
<1>2. LoopTypeOK'
  BY DEF LoopTypeOK, DispatchFits
<1>3. FlagTypeOK'
  BY DEF FlagTypeOK
<1>4. StepTypeOK'
  BY DEF StepTypeOK, Positions
<1>5. Placed'
  BY DEF Placed, Running, StepTypeOK
<1>6. DispatchFits'
  BY DEF DispatchFits, LoopTypeOK, StepTypeOK
<1> QED
  BY <1>1, <1>2, <1>3, <1>4, <1>5, <1>6

LEMMA StreamTextKeeps ==
    ASSUME IInv, StreamText
    PROVE  IInv'
<1> USE BudgetAssumption, RunAssumption, StepDomain
    DEF IInv, TypeOK, StreamText, budgetVars, flagVars, stepVars, askedVars
<1>1. BudgetTypeOK' /\ BudgetAccounted' /\ HeldBack'
  BY QuietBudget
<1>2. LoopTypeOK'
  BY DEF LoopTypeOK, DispatchFits
<1>3. FlagTypeOK'
  BY DEF FlagTypeOK
<1>4. StepTypeOK'
  BY DEF StepTypeOK, Positions
<1>5. Placed'
  BY DEF Placed, Running, StepTypeOK
<1>6. DispatchFits'
  BY DEF DispatchFits, LoopTypeOK, StepTypeOK
<1> QED
  BY <1>1, <1>2, <1>3, <1>4, <1>5, <1>6

LEMMA StreamCallKeeps ==
    ASSUME NEW c \in Menu, IInv, StreamCall(c)
    PROVE  IInv'
<1> USE BudgetAssumption, RunAssumption, StepDomain
    DEF IInv, TypeOK, StreamCall, budgetVars, flagVars, stepVars, askedVars
<1>1. BudgetTypeOK' /\ BudgetAccounted' /\ HeldBack'
  BY QuietBudget
<1>2. LoopTypeOK'
  BY DEF LoopTypeOK, DispatchFits
<1>3. FlagTypeOK'
  BY DEF FlagTypeOK
<1>4. StepTypeOK'
  BY DEF StepTypeOK, Positions
<1>5. Placed'
  BY DEF Placed, Running, StepTypeOK
<1>6. DispatchFits'
  BY DEF DispatchFits, LoopTypeOK, StepTypeOK
<1> QED
  BY <1>1, <1>2, <1>3, <1>4, <1>5, <1>6

LEMMA StreamFailsKeeps ==
    ASSUME IInv, StreamFails
    PROVE  IInv'
<1> USE BudgetAssumption, RunAssumption, StepDomain
    DEF IInv, TypeOK, StreamFails, End, budgetVars, flagVars, stepVars, askedVars
<1>1. BudgetTypeOK' /\ BudgetAccounted' /\ HeldBack'
  BY QuietBudget
<1>2. LoopTypeOK'
  BY DEF LoopTypeOK, DispatchFits
<1>3. FlagTypeOK'
  BY DEF FlagTypeOK
<1>4. StepTypeOK'
  BY DEF StepTypeOK, Positions
<1>5. Placed'
  BY DEF Placed, Running, StepTypeOK
<1>6. DispatchFits'
  BY DEF DispatchFits, LoopTypeOK, StepTypeOK
<1> QED
  BY <1>1, <1>2, <1>3, <1>4, <1>5, <1>6

LEMMA DirectorRepliesKeeps ==
    ASSUME NEW reason \in {"stop", "length"}, IInv, DirectorReplies(reason)
    PROVE  IInv'
<1> USE BudgetAssumption, RunAssumption, StepDomain
    DEF IInv, TypeOK, DirectorReplies, End, budgetVars, flagVars, stepVars, askedVars
<1>1. BudgetTypeOK' /\ BudgetAccounted' /\ HeldBack'
  BY QuietBudget
<1>2. LoopTypeOK'
  BY DEF LoopTypeOK, DispatchFits
<1>3. FlagTypeOK'
  BY DEF FlagTypeOK
<1>4. StepTypeOK'
  BY DEF StepTypeOK, Positions
<1>5. Placed'
  BY DEF Placed, Running, StepTypeOK
<1>6. DispatchFits'
  BY DEF DispatchFits, LoopTypeOK, StepTypeOK
<1> QED
  BY <1>1, <1>2, <1>3, <1>4, <1>5, <1>6

LEMMA DirectorCallsToolsKeeps ==
    ASSUME IInv, DirectorCallsTools
    PROVE  IInv'
<1> USE BudgetAssumption, RunAssumption, StepDomain
    DEF IInv, TypeOK, DirectorCallsTools, End, budgetVars, flagVars, stepVars, askedVars
<1>1. BudgetTypeOK' /\ BudgetAccounted' /\ HeldBack'
  BY QuietBudget
<1>2. LoopTypeOK'
  BY DEF LoopTypeOK, DispatchFits
<1>3. FlagTypeOK'
  BY DEF FlagTypeOK
<1>4. StepTypeOK'
  BY DEF StepTypeOK, Positions
<1>5. Placed'
  BY DEF Placed, Running, StepTypeOK
<1>6. DispatchFits'
  BY DEF DispatchFits, LoopTypeOK, StepTypeOK, Malformed
<1> QED
  BY <1>1, <1>2, <1>3, <1>4, <1>5, <1>6

LEMMA ConsultDeclinedKeeps ==
    ASSUME NEW i \in Positions, IInv, ConsultDeclined(i)
    PROVE  IInv'
<1> USE BudgetAssumption, RunAssumption, StepDomain
    DEF IInv, TypeOK, ConsultDeclined, Idle, budgetVars, flagVars, stepVars, askedVars
<1>1. BudgetTypeOK' /\ BudgetAccounted' /\ HeldBack'
  BY QuietBudget
<1>2. LoopTypeOK'
  BY DEF LoopTypeOK, DispatchFits
<1>3. FlagTypeOK'
  BY DEF FlagTypeOK
<1>4. StepTypeOK'
  BY DispatchPlace, SettleType DEF StepTypeOK
<1>5. Placed'
  BY DEF Placed, Running, StepTypeOK, Idle, Settle, ReviewWave
<1>6. DispatchFits'
  BY DEF DispatchFits, LoopTypeOK, StepTypeOK
<1> QED
  BY <1>1, <1>2, <1>3, <1>4, <1>5, <1>6

LEMMA PlainWaveEndsKeeps ==
    ASSUME IInv, PlainWaveEnds
    PROVE  IInv'
<1> USE BudgetAssumption, RunAssumption, StepDomain
    DEF IInv, TypeOK, PlainWaveEnds, budgetVars, flagVars, stepVars, askedVars
<1>1. BudgetTypeOK' /\ BudgetAccounted' /\ HeldBack'
  BY QuietBudget
<1>2. LoopTypeOK'
  BY DEF LoopTypeOK, DispatchFits
<1>3. FlagTypeOK'
  BY DEF FlagTypeOK
<1>4. StepTypeOK'
  BY DEF StepTypeOK, Positions
<1>5. Placed'
  BY DispatchPlace DEF Placed, WaveOver
<1>6. DispatchFits'
  BY DEF DispatchFits, LoopTypeOK, StepTypeOK
<1> QED
  BY <1>1, <1>2, <1>3, <1>4, <1>5, <1>6

LEMMA ReviewWaveEndsKeeps ==
    ASSUME IInv, ReviewWaveEnds
    PROVE  IInv'
<1> USE BudgetAssumption, RunAssumption, StepDomain
    DEF IInv, TypeOK, ReviewWaveEnds, End, budgetVars, flagVars, stepVars, askedVars
<1>1. BudgetTypeOK' /\ BudgetAccounted' /\ HeldBack'
  BY QuietBudget
<1>2. LoopTypeOK'
  BY DEF LoopTypeOK, DispatchFits
<1>3. FlagTypeOK'
  BY DEF FlagTypeOK
<1>4. StepTypeOK'
  BY DEF StepTypeOK, Positions
<1>5. Placed'
  BY DispatchPlace DEF Placed, WaveOver
<1>6. DispatchFits'
  BY DEF DispatchFits, LoopTypeOK, StepTypeOK
<1> QED
  BY <1>1, <1>2, <1>3, <1>4, <1>5, <1>6

LEMMA DispatchSettledKeeps ==
    ASSUME IInv, DispatchSettled
    PROVE  IInv'
<1> USE BudgetAssumption, RunAssumption, StepDomain
    DEF IInv, TypeOK, DispatchSettled, NextCall, budgetVars, flagVars, stepVars, askedVars
<1>1. BudgetTypeOK' /\ BudgetAccounted' /\ HeldBack'
  BY QuietBudget
<1>2. LoopTypeOK'
  BY DispatchPlace DEF LoopTypeOK
<1>3. FlagTypeOK'
  BY DEF FlagTypeOK
<1>4. StepTypeOK'
  BY DEF StepTypeOK, Positions
<1>5. Placed'
  BY DEF Placed, Running, StepTypeOK
<1>6. DispatchFits'
  BY DEF DispatchFits, LoopTypeOK, StepTypeOK
<1> QED
  BY <1>1, <1>2, <1>3, <1>4, <1>5, <1>6

LEMMA DispatchToolKeeps ==
    ASSUME NEW ok \in BOOLEAN, IInv, DispatchTool(ok)
    PROVE  IInv'
<1> USE BudgetAssumption, RunAssumption, StepDomain
    DEF IInv, TypeOK, DispatchTool, NextCall, budgetVars, flagVars, stepVars, askedVars
<1>1. BudgetTypeOK' /\ BudgetAccounted' /\ HeldBack'
  BY QuietBudget
<1>2. LoopTypeOK'
  BY DispatchPlace DEF LoopTypeOK
<1>3. FlagTypeOK'
  BY DEF FlagTypeOK
<1>4. StepTypeOK'
  <2>1. settled' \subseteq DOMAIN calls /\ verdicts' \in [Positions -> Nat]
    BY DispatchPlace, SettleType
  <2>2. (at \in 1 .. (MaxCallsPerStep + 1))'
    BY DispatchPlace DEF StepTypeOK
  <2> QED
    BY <2>1, <2>2 DEF StepTypeOK
<1>5. Placed'
  BY DEF Placed, Running, StepTypeOK
<1>6. DispatchFits'
  BY DEF DispatchFits, LoopTypeOK, StepTypeOK
<1> QED
  BY <1>1, <1>2, <1>3, <1>4, <1>5, <1>6

LEMMA DispatchProposalKeeps ==
    ASSUME IInv, DispatchProposal
    PROVE  IInv'
<1> USE BudgetAssumption, RunAssumption, StepDomain
    DEF IInv, TypeOK, DispatchProposal, End, budgetVars, flagVars, stepVars, askedVars
<1>1. BudgetTypeOK' /\ BudgetAccounted' /\ HeldBack'
  BY QuietBudget
<1>2. LoopTypeOK'
  BY DispatchPlace DEF LoopTypeOK
<1>3. FlagTypeOK'
  BY DEF FlagTypeOK
<1>4. StepTypeOK'
  BY DispatchPlace, SettleType DEF StepTypeOK
<1>5. Placed'
  BY DEF Placed, Running, StepTypeOK
<1>6. DispatchFits'
  BY DEF DispatchFits, LoopTypeOK, StepTypeOK
<1> QED
  BY <1>1, <1>2, <1>3, <1>4, <1>5, <1>6

LEMMA DispatchBreaksKeeps ==
    ASSUME NEW told \in BOOLEAN, IInv, DispatchBreaks(told)
    PROVE  IInv'
<1> USE BudgetAssumption, RunAssumption, StepDomain
    DEF IInv, TypeOK, DispatchBreaks, End, budgetVars, flagVars, stepVars, askedVars
<1>1. BudgetTypeOK' /\ BudgetAccounted' /\ HeldBack'
  BY QuietBudget
<1>2. LoopTypeOK'
  BY DispatchPlace DEF LoopTypeOK
<1>3. FlagTypeOK'
  BY DEF FlagTypeOK
<1>4. StepTypeOK'
  BY DispatchPlace, SettleType DEF StepTypeOK
<1>5. Placed'
  BY DEF Placed, Running, StepTypeOK
<1>6. DispatchFits'
  BY DEF DispatchFits, LoopTypeOK, StepTypeOK
<1> QED
  BY <1>1, <1>2, <1>3, <1>4, <1>5, <1>6

LEMMA DispatchDraftKeeps ==
    ASSUME IInv, DispatchDraft
    PROVE  IInv'
<1> USE BudgetAssumption, RunAssumption, StepDomain
    DEF IInv, TypeOK, DispatchDraft, budgetVars, flagVars, stepVars, askedVars
<1>1. BudgetTypeOK' /\ BudgetAccounted' /\ HeldBack'
  BY QuietBudget
<1>2. LoopTypeOK'
  BY DispatchPlace DEF LoopTypeOK
<1>3. FlagTypeOK'
  BY DEF FlagTypeOK
<1>4. StepTypeOK'
  BY DEF StepTypeOK, Positions
<1>5. Placed'
  BY DEF Placed, Running, StepTypeOK
<1>6. DispatchFits'
  BY DEF DispatchFits, LoopTypeOK, StepTypeOK
<1> QED
  BY <1>1, <1>2, <1>3, <1>4, <1>5, <1>6

LEMMA DraftSettledKeeps ==
    ASSUME IInv, DraftSettled
    PROVE  IInv'
<1> USE BudgetAssumption, RunAssumption, StepDomain
    DEF IInv, TypeOK, DraftSettled, End, NextCall, budgetVars, flagVars, stepVars, askedVars
<1>1. BudgetTypeOK' /\ BudgetAccounted' /\ HeldBack'
  BY QuietBudget
<1>2. LoopTypeOK'
  BY DEF LoopTypeOK, DispatchFits
<1>3. FlagTypeOK'
  BY DEF FlagTypeOK
<1>4. StepTypeOK'
  BY DEF StepTypeOK, Positions
<1>5. Placed'
  BY DEF Placed, Running, StepTypeOK
<1>6. DispatchFits'
  BY DEF DispatchFits, LoopTypeOK, StepTypeOK
<1> QED
  BY <1>1, <1>2, <1>3, <1>4, <1>5, <1>6

LEMMA RunTimeoutKeeps ==
    ASSUME IInv, RunTimeout
    PROVE  IInv'
<1> USE BudgetAssumption, RunAssumption, StepDomain
    DEF IInv, TypeOK, RunTimeout, End, budgetVars, flagVars, stepVars, askedVars
<1>1. BudgetTypeOK' /\ BudgetAccounted' /\ HeldBack'
  BY QuietBudget
<1>2. LoopTypeOK'
  BY DEF LoopTypeOK, DispatchFits
<1>3. FlagTypeOK'
  BY DEF FlagTypeOK
<1>4. StepTypeOK'
  BY DEF StepTypeOK, Positions
<1>5. Placed'
  BY DEF Placed, Running, StepTypeOK
<1>6. DispatchFits'
  BY DEF DispatchFits, LoopTypeOK, StepTypeOK
<1> QED
  BY <1>1, <1>2, <1>3, <1>4, <1>5, <1>6

LEMMA PromptFailsKeeps ==
    ASSUME IInv, PromptFails
    PROVE  IInv'
<1> USE BudgetAssumption, RunAssumption, StepDomain
    DEF IInv, TypeOK, PromptFails, End, budgetVars, flagVars, stepVars, askedVars
<1>1. BudgetTypeOK' /\ BudgetAccounted' /\ HeldBack'
  BY QuietBudget
<1>2. LoopTypeOK'
  BY DEF LoopTypeOK, DispatchFits
<1>3. FlagTypeOK'
  BY DEF FlagTypeOK
<1>4. StepTypeOK'
  BY DEF StepTypeOK, Positions
<1>5. Placed'
  BY DEF Placed, Running, StepTypeOK
<1>6. DispatchFits'
  BY DEF DispatchFits, LoopTypeOK, StepTypeOK
<1> QED
  BY <1>1, <1>2, <1>3, <1>4, <1>5, <1>6

LEMMA DisconnectKeeps ==
    ASSUME IInv, Disconnect
    PROVE  IInv'
<1> USE BudgetAssumption, RunAssumption, StepDomain
    DEF IInv, TypeOK, Disconnect, End, budgetVars, flagVars, stepVars, askedVars
<1>1. BudgetTypeOK' /\ BudgetAccounted' /\ HeldBack'
  BY QuietBudget
<1>2. LoopTypeOK'
  BY DEF LoopTypeOK, DispatchFits
<1>3. FlagTypeOK'
  BY DEF FlagTypeOK
<1>4. StepTypeOK'
  BY DEF StepTypeOK, Positions
<1>5. Placed'
  BY DEF Placed, Running, StepTypeOK
<1>6. DispatchFits'
  BY DEF DispatchFits, LoopTypeOK, StepTypeOK
<1> QED
  BY <1>1, <1>2, <1>3, <1>4, <1>5, <1>6

-----------------------------------------------------------------------------
(* A new answer starts from an empty step: no slot is held at the loop.    *)
LEMMA AskDirectorKeeps ==
    ASSUME IInv, AskDirector
    PROVE  IInv'
<1> USE BudgetAssumption, RunAssumption, StepDomain
    DEF IInv, TypeOK, AskDirector, TakeDirectorCall, CanTakeDirectorCall, flagVars
<1>1. building = {} /\ reviewing \cap building = {} /\ Cardinality({}) = 0
  BY FS_EmptySet DEF Placed, Running
<1>2. BudgetTypeOK'
  BY DEF BudgetTypeOK
<1>3. LoopTypeOK'
  BY DEF LoopTypeOK
<1>4. FlagTypeOK'
  BY DEF FlagTypeOK
<1>5. StepTypeOK'
  BY DEF StepTypeOK, Positions
<1>6. BudgetAccounted'
  BY <1>1 DEF BudgetAccounted, BudgetTypeOK, LoopTypeOK
<1>7. Placed' /\ HeldBack' /\ DispatchFits'
  BY DEF Placed, HeldBack, DispatchFits, Running
<1> QED
  BY <1>2, <1>3, <1>4, <1>5, <1>6, <1>7

(* The counts of the three sums, as plain integers. *)
LEMMA CountsAreIntegers ==
    ASSUME IInv
    PROVE  /\ modelCalls \in Nat /\ consults \in Nat /\ critiques \in Nat
           /\ directorAsked \in Nat /\ specialistAsked \in Nat /\ reviewsAsked \in Nat
           /\ Cardinality(building) \in Nat
           /\ Cardinality(reviewing \cap building) \in Nat
BY StepDomain, BudgetAssumption DEF IInv, TypeOK, BudgetTypeOK, LoopTypeOK

(* How a claim changes what is counted. *)
LEMMA ConsultStartsCounts ==
    ASSUME NEW i \in Positions, IInv, ConsultStarts(i)
    PROVE  /\ i \in DOMAIN calls
           /\ i \notin building \cup asking \cup settled
           /\ Cardinality(building') = Cardinality(building) + 1
           /\ Cardinality(reviewing' \cap building') =
                Cardinality(reviewing \cap building) + (IF WillReview(i) THEN 1 ELSE 0)
<1>1. i \in DOMAIN calls /\ i \notin building \cup asking \cup settled
  BY DispatchPlace DEF ConsultStarts, Idle
<1>2. i \notin reviewing
  BY <1>1 DEF IInv, TypeOK, StepTypeOK
<1>3. building' = building \cup {i}
  BY DEF ConsultStarts
<1>4. IsFiniteSet(building) /\ IsFiniteSet(reviewing \cap building)
  BY StepDomain DEF IInv
<1>5. Cardinality(building') = Cardinality(building) + 1
  BY <1>1, <1>3, <1>4, CountStep
<1>6. CASE WillReview(i)
  <2>1. reviewing' \cap building' = (reviewing \cap building) \cup {i}
    BY <1>3, <1>6 DEF ConsultStarts
  <2>2. Cardinality((reviewing \cap building) \cup {i}) = Cardinality(reviewing \cap building) + 1
    BY <1>2, <1>4, CountStep
  <2> QED
    BY <1>1, <1>5, <1>6, <2>1, <2>2
<1>7. CASE ~WillReview(i)
  <2>1. reviewing' \cap building' = reviewing \cap building
    BY <1>2, <1>3, <1>7 DEF ConsultStarts
  <2>2. Cardinality(reviewing' \cap building') = Cardinality(reviewing \cap building) + 0
    BY <2>1, CountsAreIntegers
  <2>3. (IF WillReview(i) THEN 1 ELSE 0) = 0
    BY <1>7
  <2> QED
    BY <1>1, <1>5, <2>2, <2>3
<1> QED
  BY <1>6, <1>7

(* A claim: one slot, one model call and, for a review, the round. *)
LEMMA ConsultStartsKeeps ==
    ASSUME NEW i \in Positions, IInv, ConsultStarts(i)
    PROVE  IInv'
<1>0. i \in DOMAIN calls /\ i \notin building \cup asking \cup settled
  BY ConsultStartsCounts
<1>1. BudgetTypeOK'
  BY BudgetAssumption
  DEF IInv, TypeOK, BudgetTypeOK, ConsultStarts, TurnedAway, TakeConsult, CanTakeConsult,
      CanTakeCritique
<1>2. LoopTypeOK' /\ FlagTypeOK'
  BY DEF IInv, TypeOK, LoopTypeOK, FlagTypeOK, ConsultStarts, flagVars, askedVars
<1>3. StepTypeOK'
  BY <1>0 DEF IInv, TypeOK, StepTypeOK, ConsultStarts
<1>4. BudgetAccounted'
  <2>1. PICK one \in {0, 1} : one = (IF WillReview(i) THEN 1 ELSE 0)
    OBVIOUS
  <2>2. /\ modelCalls' = modelCalls + 1 /\ consults' = consults + 1
        /\ critiques' = critiques + one
    BY <2>1, CountsAreIntegers DEF ConsultStarts, TakeConsult
  <2>3. /\ Cardinality(building') = Cardinality(building) + 1
        /\ Cardinality(reviewing' \cap building') = Cardinality(reviewing \cap building) + one
    BY <2>1, ConsultStartsCounts
  <2>4. UNCHANGED askedVars
    BY DEF ConsultStarts
  <2> QED
    BY <2>2, <2>3, <2>4, CountsAreIntegers DEF IInv, BudgetAccounted, askedVars
<1>5. Placed'
  BY <1>0 DEF IInv, Placed, Running, ReviewWave, ConsultStarts, Idle, flagVars
<1>6. HeldBack'
  BY BudgetAssumption, CountsAreIntegers
  DEF IInv, HeldBack, ConsultStarts, TakeConsult, CanTakeConsult
<1>7. DispatchFits'
  BY DEF IInv, DispatchFits, ConsultStarts
<1> QED
  BY <1>1, <1>2, <1>3, <1>4, <1>5, <1>6, <1>7 DEF IInv, TypeOK

(* How leaving the building stage changes what is counted. *)
LEMMA LeavesBuilding ==
    ASSUME IInv, NEW i \in building, building' = building \ {i},
           reviewing' \in {reviewing, reviewing \ {i}}
    PROVE  /\ Cardinality(building') = Cardinality(building) - 1
           /\ Cardinality(reviewing' \cap building') =
                Cardinality(reviewing \cap building) - (IF i \in reviewing THEN 1 ELSE 0)
           /\ modelCalls > 0 /\ consults > 0
           /\ i \in reviewing => critiques > 0
           /\ modelCalls < MaxModelCalls
<1>1. IsFiniteSet(building) /\ IsFiniteSet(reviewing \cap building)
  BY StepDomain DEF IInv
<1>2. Cardinality(building') = Cardinality(building) - 1
  BY <1>1, CountStep
<1>3. Cardinality(building') \in Nat
  BY <1>1, FS_RemoveElement, FS_CardinalityType, FS_Subset
<1>4. reviewing' \cap building' = (reviewing \cap building) \ {i}
  OBVIOUS
<1>5. modelCalls > 0 /\ consults > 0 /\ modelCalls < MaxModelCalls
  BY <1>2, <1>3, CountsAreIntegers DEF IInv, BudgetAccounted, HeldBack
<1>6. CASE i \in reviewing
  <2>1. Cardinality((reviewing \cap building) \ {i}) = Cardinality(reviewing \cap building) - 1
    BY <1>1, <1>6, CountStep
  <2>2. Cardinality((reviewing \cap building) \ {i}) \in Nat
    BY <1>1, FS_RemoveElement, FS_CardinalityType, FS_Subset
  <2>3. critiques > 0
    BY <2>1, <2>2, CountsAreIntegers DEF IInv, BudgetAccounted
  <2> QED
    BY <1>2, <1>4, <1>5, <1>6, <2>1, <2>3
<1>7. CASE i \notin reviewing
  <2>1. (reviewing \cap building) \ {i} = reviewing \cap building
    BY <1>7
  <2> QED
    BY <1>2, <1>4, <1>5, <1>7, <2>1, CountsAreIntegers
<1> QED
  BY <1>6, <1>7

(* The slot is spent: what was held is now asked for. *)
LEMMA ConsultAsksKeeps ==
    ASSUME NEW i \in Positions, IInv, ConsultAsks(i)
    PROVE  IInv'
<1>0. /\ Cardinality(building') = Cardinality(building) - 1
      /\ Cardinality(reviewing' \cap building') =
            Cardinality(reviewing \cap building) - (IF i \in reviewing THEN 1 ELSE 0)
  BY LeavesBuilding DEF ConsultAsks
<1>1. BudgetTypeOK'
  BY DEF IInv, TypeOK, BudgetTypeOK, ConsultAsks, budgetVars
<1>2. LoopTypeOK' /\ FlagTypeOK'
  BY DEF IInv, TypeOK, LoopTypeOK, FlagTypeOK, ConsultAsks, flagVars
<1>3. StepTypeOK'
  BY DEF IInv, TypeOK, StepTypeOK, ConsultAsks
<1>4. BudgetAccounted'
  BY <1>0, CountsAreIntegers DEF IInv, BudgetAccounted, ConsultAsks, budgetVars
<1>5. Placed'
  BY DEF IInv, Placed, Running, ReviewWave, ConsultAsks, flagVars
<1>6. HeldBack' /\ DispatchFits'
  BY DEF IInv, HeldBack, DispatchFits, ConsultAsks, budgetVars
<1> QED
  BY <1>1, <1>2, <1>3, <1>4, <1>5, <1>6 DEF IInv, TypeOK

(* A refund gives back exactly what the consult had claimed. *)
LEMMA RefundKeeps ==
    ASSUME IInv, NEW i \in building, building' = building \ {i}, reviewing' = reviewing \ {i},
           RefundConsult(i \in reviewing), UNCHANGED askedVars
    PROVE  BudgetTypeOK' /\ BudgetAccounted' /\ HeldBack'
<1>0. /\ Cardinality(building') = Cardinality(building) - 1
      /\ Cardinality(reviewing' \cap building') =
            Cardinality(reviewing \cap building) - (IF i \in reviewing THEN 1 ELSE 0)
      /\ modelCalls > 0 /\ consults > 0
      /\ i \in reviewing => critiques > 0
      /\ modelCalls < MaxModelCalls
  BY LeavesBuilding
<1>1. /\ modelCalls' = modelCalls - 1 /\ consults' = consults - 1
      /\ critiques' = critiques - (IF i \in reviewing THEN 1 ELSE 0)
      /\ maxConsults' = maxConsults
  BY <1>0, CountsAreIntegers DEF RefundConsult, GiveBack
<1>2. BudgetTypeOK'
  BY <1>0, <1>1, BudgetAssumption DEF IInv, TypeOK, BudgetTypeOK
<1>3. BudgetAccounted'
  BY <1>0, <1>1, CountsAreIntegers DEF IInv, BudgetAccounted, askedVars
<1>4. HeldBack'
  BY <1>0, <1>1, CountsAreIntegers, BudgetAssumption DEF HeldBack
<1> QED
  BY <1>2, <1>3, <1>4

LEMMA ConsultRejectedKeeps ==
    ASSUME NEW i \in Positions, NEW denies \in BOOLEAN, IInv, ConsultRejected(i, denies)
    PROVE  IInv'
<1>1. BudgetTypeOK' /\ BudgetAccounted' /\ HeldBack'
  BY RefundKeeps DEF ConsultRejected, askedVars
<1>2. LoopTypeOK' /\ FlagTypeOK'
  BY DEF IInv, TypeOK, LoopTypeOK, FlagTypeOK, ConsultRejected, flagVars, askedVars
<1>3. settled' \subseteq DOMAIN calls /\ verdicts' \in [Positions -> Nat]
  BY SettleType, DispatchPlace DEF IInv, TypeOK, ConsultRejected
<1>4. StepTypeOK'
  BY <1>3 DEF IInv, TypeOK, StepTypeOK, ConsultRejected
<1>5. Placed'
  BY DEF IInv, Placed, Running, ReviewWave, ConsultRejected, Settle, flagVars
<1>6. DispatchFits'
  BY DEF IInv, DispatchFits, ConsultRejected
<1> QED
  BY <1>1, <1>2, <1>4, <1>5, <1>6 DEF IInv, TypeOK

LEMMA ConsultCancelledKeeps ==
    ASSUME NEW i \in Positions, IInv, ConsultCancelled(i)
    PROVE  IInv'
<1>1. BudgetTypeOK' /\ BudgetAccounted' /\ HeldBack'
  <2>1. CASE i \in building /\ RefundConsult(i \in reviewing) /\ building' = building \ {i}
    BY <2>1, RefundKeeps DEF ConsultCancelled
  <2>2. CASE i \in asking /\ UNCHANGED <<budgetVars, building>>
    <3>1. reviewing' \cap building' = reviewing \cap building
      BY <2>2 DEF ConsultCancelled, IInv, Placed
    <3> QED
      BY <2>2, <3>1
      DEF ConsultCancelled, IInv, TypeOK, BudgetTypeOK, BudgetAccounted, HeldBack, budgetVars,
          askedVars
  <2> QED
    BY <2>1, <2>2 DEF ConsultCancelled
<1>2. LoopTypeOK' /\ FlagTypeOK'
  BY DEF IInv, TypeOK, LoopTypeOK, FlagTypeOK, ConsultCancelled, flagVars, askedVars
<1>3. StepTypeOK'
  BY DEF IInv, TypeOK, StepTypeOK, ConsultCancelled
<1>4. Placed'
  BY DEF IInv, Placed, ConsultCancelled
<1>5. DispatchFits'
  BY DEF IInv, DispatchFits, ConsultCancelled
<1> QED
  BY <1>1, <1>2, <1>3, <1>4, <1>5 DEF IInv, TypeOK

(* A consult that reached the model settles without any refund. *)
LEMMA FinishBudget ==
    ASSUME NEW i, IInv, Finish(i), UNCHANGED <<budgetVars, building, askedVars>>
    PROVE  BudgetTypeOK' /\ BudgetAccounted' /\ HeldBack'
<1>1. reviewing' \cap building' = reviewing \cap building
  BY DEF Finish, IInv, Placed
<1> QED
  BY <1>1
  DEF IInv, TypeOK, BudgetTypeOK, BudgetAccounted, HeldBack, budgetVars, askedVars

LEMMA FinishStep ==
    ASSUME NEW i, IInv, Finish(i), UNCHANGED <<calls, at, building>>
    PROVE  StepTypeOK'
<1>1. settled' \subseteq DOMAIN calls /\ verdicts' \in [Positions -> Nat]
  BY SettleType, DispatchPlace DEF IInv, TypeOK, Finish
<1> QED
  BY <1>1 DEF IInv, TypeOK, StepTypeOK, Finish

LEMMA ConsultAnswersKeeps ==
    ASSUME NEW i \in Positions, IInv, ConsultAnswers(i)
    PROVE  IInv'
<1>1. BudgetTypeOK' /\ BudgetAccounted' /\ HeldBack'
  BY FinishBudget DEF ConsultAnswers
<1>2. LoopTypeOK' /\ FlagTypeOK'
  BY DEF IInv, TypeOK, LoopTypeOK, FlagTypeOK, ConsultAnswers, flagVars, askedVars
<1>3. StepTypeOK'
  BY FinishStep DEF ConsultAnswers
<1>4. Placed'
  BY DEF IInv, Placed, Running, ReviewWave, ConsultAnswers, Finish, Settle, flagVars
<1>5. DispatchFits'
  BY DEF IInv, DispatchFits, ConsultAnswers
<1> QED
  BY <1>1, <1>2, <1>3, <1>4, <1>5 DEF IInv, TypeOK

LEMMA ConsultFailsKeeps ==
    ASSUME NEW i \in Positions, IInv, ConsultFails(i)
    PROVE  IInv'
<1>1. BudgetTypeOK' /\ BudgetAccounted' /\ HeldBack'
  BY FinishBudget DEF ConsultFails
<1>2. LoopTypeOK' /\ FlagTypeOK'
  BY DEF IInv, TypeOK, LoopTypeOK, FlagTypeOK, ConsultFails, flagVars, askedVars
<1>3. StepTypeOK'
  BY FinishStep DEF ConsultFails
<1>4. Placed'
  BY DEF IInv, Placed, Running, ReviewWave, ConsultFails, Finish, Settle, flagVars
<1>5. DispatchFits'
  BY DEF IInv, DispatchFits, ConsultFails
<1> QED
  BY <1>1, <1>2, <1>3, <1>4, <1>5 DEF IInv, TypeOK

LEMMA DraftDeliveredKeeps ==
    ASSUME NEW reason \in {"stop", "length"}, IInv, DraftDelivered(reason)
    PROVE  IInv'
<1>1. BudgetTypeOK' /\ BudgetAccounted' /\ HeldBack'
  BY FinishBudget DEF DraftDelivered
<1>2. LoopTypeOK' /\ FlagTypeOK'
  BY DEF IInv, TypeOK, LoopTypeOK, FlagTypeOK, DraftDelivered, End, flagVars, askedVars
<1>3. StepTypeOK'
  BY FinishStep DEF DraftDelivered
<1>4. Placed'
  BY DEF IInv, Placed, DraftDelivered, Finish, Settle, End
<1>5. DispatchFits'
  BY DEF DispatchFits, DraftDelivered, End
<1> QED
  BY <1>1, <1>2, <1>3, <1>4, <1>5 DEF IInv, TypeOK

-----------------------------------------------------------------------------
LEMMA StutterKeeps ==
    ASSUME IInv, UNCHANGED vars
    PROVE  IInv'
<1> USE DEF vars, budgetVars, flagVars, stepVars, askedVars
<1>1. TypeOK'
  BY DEF IInv, TypeOK, BudgetTypeOK, LoopTypeOK, FlagTypeOK, StepTypeOK
<1>2. BudgetAccounted' /\ HeldBack' /\ DispatchFits'
  BY DEF IInv, BudgetAccounted, HeldBack, DispatchFits
<1>3. Placed'
  BY DEF IInv, Placed, Running, ReviewWave
<1> QED
  BY <1>1, <1>2, <1>3 DEF IInv

LEMMA NextKeeps == IInv /\ [Next]_vars => IInv'
<1> SUFFICES ASSUME IInv, [Next]_vars PROVE IInv'
  OBVIOUS
<1>1. CASE DirectorStep
  <2>1. CASE \E c \in Menu : StreamCall(c)
    BY <2>1, StreamCallKeeps
  <2>2. CASE \E reason \in {"stop", "length"} : DirectorReplies(reason)
    BY <2>2, DirectorRepliesKeeps
  <2> QED
    BY <1>1, <2>1, <2>2, BeginKeeps, LoadPromptKeeps, AskDirectorKeeps, OutOfModelCallsKeeps,
       StreamTextKeeps, StreamFailsKeeps, DirectorCallsToolsKeeps DEF DirectorStep
<1>2. ASSUME NEW i \in Positions,
             \/ ConsultDeclined(i) \/ ConsultStarts(i) \/ ConsultAsks(i)
             \/ (\E denies \in BOOLEAN : ConsultRejected(i, denies))
             \/ ConsultAnswers(i) \/ ConsultFails(i) \/ ConsultCancelled(i)
      PROVE  IInv'
  <2>1. CASE \E denies \in BOOLEAN : ConsultRejected(i, denies)
    BY <2>1, ConsultRejectedKeeps
  <2> QED
    BY <1>2, <2>1, ConsultDeclinedKeeps, ConsultStartsKeeps, ConsultAsksKeeps,
       ConsultAnswersKeeps, ConsultFailsKeeps, ConsultCancelledKeeps
<1>3. CASE DispatchStep
  <2>1. CASE \E ok \in BOOLEAN : DispatchTool(ok)
    BY <2>1, DispatchToolKeeps
  <2>2. CASE \E told \in BOOLEAN : DispatchBreaks(told)
    BY <2>2, DispatchBreaksKeeps
  <2>3. CASE \E reason \in {"stop", "length"} : DraftDelivered(reason)
    BY <2>3, DraftDeliveredKeeps
  <2> QED
    BY <1>3, <2>1, <2>2, <2>3, PlainWaveEndsKeeps, ReviewWaveEndsKeeps, DispatchSettledKeeps,
       DispatchProposalKeeps, DispatchDraftKeeps, DraftSettledKeeps DEF DispatchStep
<1>4. CASE RunTimeout \/ PromptFails \/ Disconnect
  BY <1>4, RunTimeoutKeeps, PromptFailsKeeps, DisconnectKeeps
<1>5. CASE UNCHANGED vars
  BY <1>5, StutterKeeps
<1> QED
  BY <1>1, <1>2, <1>3, <1>4, <1>5 DEF Next, ConsultStep

THEOREM RunInvariant == Spec => []IInv
<1> QED
  BY InitIInv, NextKeeps, PTL DEF Spec

(* Every counter of a run stays under its ceiling and every variable in    *)
(* its type, whatever the ceilings and the calls the director may make.    *)
THEOREM RunTypeOK == Spec => []TypeOK
<1>1. IInv => TypeOK
  BY DEF IInv
<1> QED
  BY <1>1, RunInvariant, PTL

(* The shared budget is what was spent plus what is held, in every order   *)
(* in which concurrent consults claim, fail, are cancelled and refund.     *)
THEOREM RunBudgetAccounted == Spec => []BudgetAccounted
<1>1. IInv => BudgetAccounted
  BY DEF IInv
<1> QED
  BY <1>1, RunInvariant, PTL

-----------------------------------------------------------------------------
(* The run implements the meter: asking the director and asking a          *)
(* specialist are its spending steps, and nothing else spends.             *)

LEMMA MeterInit == Init => Meter!Init
BY RunAssumption DEF Init, BudgetInit, Meter!Init

LEMMA MeterDirector ==
    ASSUME IInv, AskDirector
    PROVE  Meter!DirectorSpends
<1>1. building = {} /\ Cardinality({}) = 0
  BY FS_EmptySet DEF AskDirector, IInv, Placed, Running
<1>2. directorAsked + specialistAsked < MaxModelCalls
  BY <1>1, CountsAreIntegers, BudgetAssumption
  DEF IInv, BudgetAccounted, AskDirector, TakeDirectorCall, CanTakeDirectorCall
<1> QED
  BY <1>2 DEF AskDirector, TakeDirectorCall, Meter!DirectorSpends

(* A slot was held for this call, so the call is within every ceiling. *)
LEMMA MeterSpecialist ==
    ASSUME NEW i \in Positions, IInv, ConsultAsks(i)
    PROVE  Meter!SpecialistSpends
<1> DEFINE held == Cardinality(building)
           heldReviews == Cardinality(reviewing \cap building)
<1>1. i \in building /\ reviewing' = reviewing /\ building' = building \ {i}
  BY DEF ConsultAsks
<1>2. modelCalls < MaxModelCalls
  BY <1>1, LeavesBuilding
<1>3. held >= 1
  <2>1. Cardinality(building') = held - 1
    BY <1>1, LeavesBuilding
  <2>2. Cardinality(building') \in Nat
    BY <1>1, StepDomain, FS_RemoveElement, FS_CardinalityType, FS_Subset DEF IInv
  <2> QED
    BY <2>1, <2>2, CountsAreIntegers
<1>4. specialistAsked < maxConsults /\ directorAsked + specialistAsked < MaxModelCalls - 1
  BY <1>2, <1>3, CountsAreIntegers, BudgetAssumption
  DEF IInv, TypeOK, BudgetTypeOK, BudgetAccounted
<1>5. reviewsAsked' \in {reviewsAsked, reviewsAsked + 1} /\ reviewsAsked' <= MaxCritiqueRounds
  <2>1. CASE i \in reviewing
    <3>1. Cardinality(reviewing' \cap building') = heldReviews - 1
      BY <1>1, <2>1, LeavesBuilding
    <3>2. Cardinality(reviewing' \cap building') \in Nat
      BY <1>1, StepDomain, FS_RemoveElement, FS_CardinalityType, FS_Subset DEF IInv
    <3>3. reviewsAsked < MaxCritiqueRounds
      BY <3>1, <3>2, CountsAreIntegers, BudgetAssumption
      DEF IInv, TypeOK, BudgetTypeOK, BudgetAccounted
    <3> QED
      BY <2>1, <3>3, CountsAreIntegers, BudgetAssumption DEF ConsultAsks
  <2>2. CASE i \notin reviewing
    BY <2>2, CountsAreIntegers, BudgetAssumption
    DEF ConsultAsks, IInv, TypeOK, BudgetTypeOK, BudgetAccounted
  <2> QED
    BY <2>1, <2>2
<1>6. pc # "ended"
  BY <1>1 DEF ConsultAsks, Running
<1> QED
  BY <1>4, <1>5, <1>6 DEF ConsultAsks, budgetVars, Meter!SpecialistSpends

(* Any other step leaves the bill alone; it may end the run. *)
LEMMA MeterQuiet ==
    ASSUME UNCHANGED <<maxConsults, askedVars>>,
           (pc = "ended") => UNCHANGED pc
    PROVE  Meter!Ends \/ UNCHANGED Meter!meterVars
BY DEF Meter!Ends, Meter!meterVars, askedVars

LEMMA MeterStep == IInv /\ [Next]_vars => [Meter!Next]_(Meter!meterVars)
<1> SUFFICES ASSUME IInv, [Next]_vars
             PROVE  Meter!Next \/ UNCHANGED Meter!meterVars
  OBVIOUS
<1>1. CASE AskDirector
  BY <1>1, MeterDirector DEF Meter!Next
<1>2. CASE \E i \in Positions : ConsultAsks(i)
  BY <1>2, MeterSpecialist DEF Meter!Next
<1> DEFINE Quiet == UNCHANGED <<maxConsults, askedVars>> /\ ((pc = "ended") => UNCHANGED pc)
<1>3. Quiet => Meter!Next \/ UNCHANGED Meter!meterVars
  BY MeterQuiet DEF Meter!Next
<1>4. CASE UNCHANGED vars
  BY <1>3, <1>4 DEF vars, budgetVars, askedVars
<1>5. CASE DirectorStep /\ ~AskDirector
  BY <1>3, <1>5 DEF DirectorStep, Begin, LoadPrompt, OutOfModelCalls, StreamText, StreamCall,
     StreamFails, DirectorReplies, DirectorCallsTools, End, budgetVars
<1>6. ASSUME NEW i \in Positions,
             \/ ConsultDeclined(i) \/ ConsultStarts(i)
             \/ (\E denies \in BOOLEAN : ConsultRejected(i, denies))
             \/ ConsultAnswers(i) \/ ConsultFails(i) \/ ConsultCancelled(i)
      PROVE  Quiet
  BY <1>6 DEF ConsultDeclined, ConsultStarts, ConsultRejected, ConsultAnswers, ConsultFails,
     ConsultCancelled, TakeConsult, RefundConsult, budgetVars, askedVars
<1>7. CASE DispatchStep
  BY <1>3, <1>7 DEF DispatchStep, PlainWaveEnds, ReviewWaveEnds, DispatchSettled, DispatchTool,
     DispatchProposal, DispatchBreaks, DispatchDraft, DraftDelivered, DraftSettled, NextCall,
     End, budgetVars
<1>8. CASE RunTimeout \/ PromptFails \/ Disconnect
  BY <1>3, <1>8 DEF RunTimeout, PromptFails, Disconnect, End, budgetVars
<1> QED
  BY <1>1, <1>2, <1>3, <1>4, <1>5, <1>6, <1>7, <1>8 DEF Next, ConsultStep

(* A run never asks more models than the meter allows: the held-back call, *)
(* the consult ceiling and the review ceiling survive every interleaving.  *)
THEOREM RunImplementsMeter == Spec => ImplementsMeter
<1> QED
  BY MeterInit, MeterStep, RunInvariant, PTL DEF Spec, ImplementsMeter, Meter!Spec

-----------------------------------------------------------------------------
(* Each call is answered once: what is settled has one verdict, and the    *)
(* dispatch leaves nothing unsettled behind it.                            *)

Answered == \A i \in Positions : verdicts[i] = IF i \in settled THEN 1 ELSE 0

Passed ==
    /\ pc \in {"start", "prompt"} => at = 1
    /\ pc \in {"dispatch", "draft"} => 1 .. (at - 1) \subseteq settled
    /\ pc = "loop" /\ at > 1 => DOMAIN calls \subseteq settled

(* The first wave of the step is over. *)
PlainSettled ==
    \A i \in DOMAIN calls : Advises(calls[i]) /\ ~ReviewWave(i) => i \in settled

ReviewsWait ==
    (pc \in {"review", "dispatch", "draft"} \/ reviewing # {}) => PlainSettled

(* Nothing is said after the end. *)
EndsWithWords == (pc # "ended" => terminal = "none") /\ NoWordlessReply

AnswerInv == Answered /\ Passed /\ ReviewsWait /\ EndsWithWords

LEMMA AnswerInit == Init => AnswerInv
BY DEF Init, AnswerInv, Answered, Passed, ReviewsWait, EndsWithWords, NoWordlessReply

(* What settles was not settled before. *)
Settles == \E S : S \cap settled = {} /\ Settle(S)

LEMMA StepSettles ==
    ASSUME IInv, [Next]_vars
    PROVE  \/ AskDirector \/ DirectorCallsTools
           \/ Settles \/ UNCHANGED <<settled, verdicts>>
<1> USE DEF stepVars, flagVars
<1>1. CASE DirectorStep \/ UNCHANGED vars \/ RunTimeout \/ PromptFails \/ Disconnect
  BY <1>1 DEF DirectorStep, Begin, LoadPrompt, OutOfModelCalls, StreamText, StreamCall,
     StreamFails, DirectorReplies, RunTimeout, PromptFails, Disconnect, vars
<1>2. ASSUME NEW i \in Positions,
             \/ ConsultDeclined(i) \/ ConsultStarts(i) \/ ConsultAsks(i)
             \/ (\E denies \in BOOLEAN : ConsultRejected(i, denies))
             \/ ConsultAnswers(i) \/ ConsultFails(i) \/ ConsultCancelled(i)
      PROVE  Settles \/ UNCHANGED <<settled, verdicts>>
  <2>1. CASE ConsultStarts(i) \/ ConsultAsks(i) \/ ConsultCancelled(i)
    BY <2>1 DEF ConsultStarts, ConsultAsks, ConsultCancelled
  <2>2. CASE ~(ConsultStarts(i) \/ ConsultAsks(i) \/ ConsultCancelled(i))
    <3>1. Settle({i})
      BY <1>2, <2>2 DEF ConsultDeclined, ConsultRejected, ConsultAnswers, ConsultFails, Finish
    <3>2. i \notin settled
      BY <1>2, <2>2 DEF ConsultDeclined, ConsultRejected, ConsultAnswers, ConsultFails, Finish,
         Idle, IInv, Placed
    <3> QED
      BY <3>1, <3>2 DEF Settles
  <2> QED
    BY <2>1, <2>2
<1>3. CASE DispatchStep
  <2>1. CASE Settle({at}) /\ at \notin settled
    BY <2>1 DEF Settles
  <2>2. ASSUME NEW reason, DraftDelivered(reason)
        PROVE  Settle({at}) /\ at \notin settled
    BY <2>2 DEF DraftDelivered, Finish, IInv, Placed
  <2> QED
    BY <1>3, <2>1, <2>2 DEF DispatchStep, PlainWaveEnds, ReviewWaveEnds, DispatchSettled,
       DispatchTool, DispatchProposal, DispatchBreaks, DispatchDraft, DraftSettled
<1> QED
  BY <1>1, <1>2, <1>3 DEF Next, ConsultStep

LEMMA SettledStay ==
    ASSUME IInv, [Next]_vars, ~AskDirector, ~DirectorCallsTools
    PROVE  settled \subseteq settled'
BY StepSettles DEF Settles, Settle

LEMMA AnsweredNext == IInv /\ Answered /\ [Next]_vars => Answered'
<1> SUFFICES ASSUME IInv, Answered, [Next]_vars PROVE Answered'
  OBVIOUS
<1>1. CASE AskDirector \/ DirectorCallsTools
  BY <1>1 DEF AskDirector, DirectorCallsTools, Answered, Positions
<1>2. CASE UNCHANGED <<settled, verdicts>>
  BY <1>2 DEF Answered
<1>3. CASE Settles
  BY <1>3 DEF Settles, Settle, Answered
<1> QED
  BY <1>1, <1>2, <1>3, StepSettles

LEMMA ConsultsLeave ==
    ASSUME NEW i \in Positions,
           \/ ConsultDeclined(i) \/ ConsultStarts(i) \/ ConsultAsks(i)
           \/ (\E denies \in BOOLEAN : ConsultRejected(i, denies))
           \/ ConsultAnswers(i) \/ ConsultFails(i) \/ ConsultCancelled(i)
    PROVE  /\ UNCHANGED <<pc, flagVars, toolCalls, spoke, calls, at, terminal>>
           /\ ConsultStarts(i) \/ reviewing' \subseteq reviewing
BY DEF ConsultDeclined, ConsultStarts, ConsultAsks, ConsultRejected, ConsultAnswers,
   ConsultFails, ConsultCancelled, Finish

LEMMA PassedNext == IInv /\ Passed /\ [Next]_vars => Passed'
<1> SUFFICES ASSUME IInv, Passed, [Next]_vars PROVE Passed'
  OBVIOUS
<1>1. ASSUME UNCHANGED <<pc, at, calls>>, settled \subseteq settled'
      PROVE  Passed'
  BY <1>1 DEF Passed
<1>2. ASSUME pc' \in {"stream", "plain", "review", "ended"}
      PROVE  Passed'
  BY <1>2 DEF Passed
<1>3. CASE \E i \in Positions :
             \/ ConsultDeclined(i) \/ ConsultStarts(i) \/ ConsultAsks(i)
             \/ (\E denies \in BOOLEAN : ConsultRejected(i, denies))
             \/ ConsultAnswers(i) \/ ConsultFails(i) \/ ConsultCancelled(i)
  <2>1. UNCHANGED <<pc, at, calls>>
    BY <1>3, ConsultsLeave
  <2>2. settled \subseteq settled'
    BY <1>3 DEF ConsultDeclined, ConsultStarts, ConsultAsks, ConsultRejected, ConsultAnswers,
       ConsultFails, ConsultCancelled, Finish, Settle
  <2> QED
    BY <1>1, <2>1, <2>2
<1>4. CASE DirectorStep
  <2>1. CASE Begin \/ LoadPrompt
    BY <1>2, <2>1 DEF Begin, LoadPrompt, End, stepVars, Passed
  <2>2. ASSUME NEW reason, DirectorReplies(reason)
        PROVE  at' = 1 /\ pc' \in {"loop", "ended"}
    BY <2>2 DEF DirectorReplies, End, stepVars, IInv, DispatchFits
  <2>3. CASE \E c \in Menu : StreamCall(c)
    BY <1>2, <2>3 DEF StreamCall
  <2> QED
    BY <1>2, <1>4, <2>1, <2>2, <2>3 DEF DirectorStep, AskDirector, OutOfModelCalls, StreamText,
       StreamFails, DirectorCallsTools, End, Passed
<1>5. CASE DispatchStep
  <2> USE StepDomain, DispatchPlace DEF IInv
  <2>1. CASE PlainWaveEnds \/ ReviewWaveEnds
    BY <1>2, <2>1 DEF PlainWaveEnds, ReviewWaveEnds, End, stepVars, DispatchFits, Passed
  <2>2. CASE pc \in {"dispatch", "draft"} /\ at \in settled' /\ NextCall /\ calls' = calls
               /\ settled \subseteq settled'
    <3>1. 1 .. at \subseteq settled'
      BY <2>2 DEF Passed
    <3> QED
      BY <2>2, <3>1 DEF NextCall, Passed
  <2>3. CASE DispatchDraft
    BY <2>3 DEF DispatchDraft, stepVars, Passed
  <2>4. CASE pc' = "ended"
    BY <2>4 DEF Passed
  <2> QED
    BY <1>5, <2>1, <2>2, <2>3, <2>4 DEF DispatchStep, DispatchSettled, DispatchTool,
       DispatchProposal, DispatchBreaks, DraftDelivered, DraftSettled, Settle, End
<1>6. CASE RunTimeout \/ PromptFails \/ Disconnect \/ UNCHANGED vars
  BY <1>1, <1>2, <1>6 DEF RunTimeout, PromptFails, Disconnect, End, vars, stepVars
<1> QED
  BY <1>3, <1>4, <1>5, <1>6 DEF Next, ConsultStep

LEMMA PlainStays ==
    ASSUME PlainSettled, UNCHANGED <<calls, room>>, settled \subseteq settled'
    PROVE  PlainSettled'
BY DEF PlainSettled, ReviewWave, Advises

(* Only a consult that starts in the second wave reviews. *)
LEMMA ReviewsStart ==
    ASSUME IInv, ReviewsWait, NEW i \in Positions, ConsultStarts(i)
    PROVE  WillReview(i) => PlainSettled
<1>1. i \in Running /\ pc \in {"plain", "review", "draft"}
  BY DEF ConsultStarts, Idle, Running
<1> QED
  BY <1>1 DEF WillReview, Running, ReviewsWait

LEMMA ReviewsWaitNext == IInv /\ ReviewsWait /\ [Next]_vars => ReviewsWait'
<1> SUFFICES ASSUME IInv, ReviewsWait, [Next]_vars PROVE ReviewsWait'
  OBVIOUS
<1>1. ASSUME UNCHANGED <<calls, room>>, settled \subseteq settled',
             \/ PlainSettled
             \/ pc' \notin {"review", "dispatch", "draft"} /\ reviewing' \subseteq reviewing
      PROVE  ReviewsWait'
  BY <1>1, PlainStays DEF ReviewsWait
<1>2. UNCHANGED vars => ReviewsWait'
  BY <1>1 DEF vars, stepVars, flagVars, ReviewsWait
<1>3. CASE DirectorStep
  <2>1. CASE AskDirector \/ DirectorCallsTools \/ (\E c \in Menu : StreamCall(c))
    <3>1. reviewing' = {} /\ pc' \in {"stream", "plain", "ended"}
      <4>1. CASE pc = "stream"
        <5>1. building \cup asking = {}
          BY <4>1 DEF IInv, Placed, Running
        <5>2. reviewing = {}
          BY <5>1 DEF IInv, TypeOK, StepTypeOK
        <5> QED
          BY <2>1, <4>1, <5>2 DEF AskDirector, DirectorCallsTools, StreamCall, End
      <4>2. CASE AskDirector
        BY <4>2 DEF AskDirector
      <4> QED
        BY <2>1, <4>1, <4>2 DEF DirectorCallsTools, StreamCall
    <3> QED
      BY <3>1 DEF ReviewsWait
  <2>2. CASE ~(AskDirector \/ DirectorCallsTools \/ (\E c \in Menu : StreamCall(c)))
    <3>1. /\ UNCHANGED <<calls, room, settled, reviewing>>
          /\ pc' \notin {"review", "dispatch", "draft"}
      BY <1>3, <2>2 DEF DirectorStep, Begin, LoadPrompt, OutOfModelCalls, StreamText,
         StreamFails, DirectorReplies, End, stepVars, flagVars
    <3> QED
      BY <1>1, <3>1
  <2> QED
    BY <2>1, <2>2
<1>4. ASSUME NEW i \in Positions,
             \/ ConsultDeclined(i) \/ ConsultStarts(i) \/ ConsultAsks(i)
             \/ (\E denies \in BOOLEAN : ConsultRejected(i, denies))
             \/ ConsultAnswers(i) \/ ConsultFails(i) \/ ConsultCancelled(i)
      PROVE  ReviewsWait'
  <2>1. UNCHANGED <<pc, calls, room>>
    BY <1>4, ConsultsLeave DEF flagVars
  <2>2. settled \subseteq settled'
    BY <1>4 DEF ConsultDeclined, ConsultStarts, ConsultAsks, ConsultRejected, ConsultAnswers,
       ConsultFails, ConsultCancelled, Finish, Settle
  <2>3. CASE PlainSettled
    BY <1>1, <2>1, <2>2, <2>3
  <2>4. CASE ~PlainSettled
    <3>1. reviewing' \subseteq reviewing
      BY <1>4, <2>4, ConsultsLeave, ReviewsStart DEF ConsultStarts
    <3> QED
      BY <1>1, <2>1, <2>2, <2>4, <3>1 DEF ReviewsWait
  <2> QED
    BY <2>3, <2>4
<1>5. CASE DispatchStep
  <2>1. UNCHANGED <<calls, room>> /\ settled \subseteq settled'
    BY <1>5 DEF DispatchStep, PlainWaveEnds, ReviewWaveEnds, DispatchSettled, DispatchTool,
       DispatchProposal, DispatchBreaks, DispatchDraft, DraftDelivered, DraftSettled, Settle,
       Finish, stepVars, flagVars
  <2>2. PlainSettled
    <3>1. CASE PlainWaveEnds
      BY <3>1 DEF PlainWaveEnds, WaveOver, Running, PlainSettled
    <3>2. CASE ~PlainWaveEnds
      BY <1>5, <3>2 DEF DispatchStep, ReviewWaveEnds, DispatchSettled, DispatchTool,
         DispatchProposal, DispatchBreaks, DispatchDraft, DraftDelivered, DraftSettled,
         ReviewsWait
    <3> QED
      BY <3>1, <3>2
  <2> QED
    BY <1>1, <2>1, <2>2
<1>6. CASE RunTimeout \/ PromptFails \/ Disconnect
  BY <1>1, <1>6 DEF RunTimeout, PromptFails, Disconnect, End, stepVars, flagVars
<1> QED
  BY <1>2, <1>3, <1>4, <1>5, <1>6 DEF Next, ConsultStep

LEMMA EndsWithWordsNext == IInv /\ EndsWithWords /\ [Next]_vars => EndsWithWords'
<1> SUFFICES ASSUME IInv, EndsWithWords, [Next]_vars PROVE EndsWithWords'
  OBVIOUS
<1>1. ASSUME UNCHANGED <<pc, toolCalls, spoke, terminal>>
      PROVE  EndsWithWords'
  BY <1>1 DEF EndsWithWords, NoWordlessReply
<1>2. ASSUME pc # "ended", pc' # "ended", terminal' = terminal
      PROVE  EndsWithWords'
  BY <1>2 DEF EndsWithWords, NoWordlessReply
<1>3. ASSUME pc' = "ended", terminal' \notin {"stop", "length"}
      PROVE  EndsWithWords'
  BY <1>3 DEF EndsWithWords, NoWordlessReply
<1>4. ASSUME pc' = "ended", spoke'
      PROVE  EndsWithWords'
  BY <1>4 DEF EndsWithWords, NoWordlessReply
<1>5. CASE DirectorStep
  <2>1. ASSUME NEW reason, DirectorReplies(reason)
        PROVE  EndsWithWords'
    <3>1. toolCalls \in Nat /\ spoke \in BOOLEAN
      BY DEF IInv, TypeOK, LoopTypeOK, FlagTypeOK
    <3> QED
      BY <1>2, <2>1, <3>1 DEF DirectorReplies, BlankReply, End, EndsWithWords, NoWordlessReply
  <2> QED
    BY <1>2, <1>3, <1>4, <1>5, <2>1 DEF DirectorStep, Begin, LoadPrompt, AskDirector,
       OutOfModelCalls, StreamText, StreamCall, StreamFails, DirectorCallsTools, End
<1>6. CASE ConsultStep
  BY <1>1, <1>6, ConsultsLeave DEF ConsultStep
<1>7. CASE DispatchStep
  BY <1>2, <1>3, <1>4, <1>7 DEF DispatchStep, PlainWaveEnds, ReviewWaveEnds, DispatchSettled,
     DispatchTool, DispatchProposal, DispatchBreaks, DispatchDraft, DraftDelivered, DraftSettled,
     NextCall, End
<1>8. CASE RunTimeout \/ PromptFails \/ Disconnect \/ UNCHANGED vars
  BY <1>1, <1>3, <1>8 DEF RunTimeout, PromptFails, Disconnect, End, vars
<1> QED
  BY <1>5, <1>6, <1>7, <1>8 DEF Next

(* What the three theorems below rest on. *)
THEOREM RunAnswers == Spec => []AnswerInv
<1>1. IInv /\ AnswerInv /\ [Next]_vars => AnswerInv'
  BY AnsweredNext, PassedNext, ReviewsWaitNext, EndsWithWordsNext DEF AnswerInv
<1> QED
  BY <1>1, AnswerInit, RunInvariant, PTL DEF Spec

(* The browser gets one verdict for each call it saw start, never two, and *)
(* no dispatched call is without a result when the director is asked       *)
(* again, whichever of the screening, the two waves, the dispatch and the  *)
(* draft settled it.                                                       *)
THEOREM RunEveryCallAnsweredOnce == Spec => []EveryCallAnsweredOnce
<1>1. IInv /\ AnswerInv => EveryCallAnsweredOnce
  <2> SUFFICES ASSUME IInv, AnswerInv PROVE EveryCallAnsweredOnce
    OBVIOUS
  <2>1. DOMAIN calls \subseteq Positions
    BY StepDomain, RunAssumption DEF IInv, TypeOK, StepTypeOK, Positions
  <2> QED
    BY <2>1 DEF AnswerInv, Answered, Passed, EveryCallAnsweredOnce
<1> QED
  BY <1>1, RunInvariant, RunAnswers, PTL

(* A reviewer starts only when every first-wave colleague of its step has  *)
(* settled: declined, rejected, failed or heard.                           *)
THEOREM RunReviewsComeLast == Spec => []ReviewsComeLast
<1>1. AnswerInv => ReviewsComeLast
  BY DEF AnswerInv, ReviewsWait, PlainSettled, ReviewsComeLast
<1> QED
  BY <1>1, RunAnswers, PTL

(* A reply that ends normally after tools were used has words in it: said  *)
(* by the director, by the draft, or the fallback sentence.                *)
THEOREM RunNoWordlessReply == Spec => []NoWordlessReply
<1>1. AnswerInv => NoWordlessReply
  BY DEF AnswerInv, EndsWithWords
<1> QED
  BY <1>1, RunAnswers, PTL
=============================================================================
