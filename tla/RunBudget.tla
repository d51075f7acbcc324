------------------------------ MODULE RunBudget ------------------------------
(***************************************************************************)
(* assistant/specialists/budget.py: the counters one run shares between    *)
(* the director and every specialist it consults.  The operations are      *)
(* actions over the counters only; AssistantRun conjoins them with what    *)
(* the caller does in the same step (none of them contains an await, so a  *)
(* call is atomic).                                                        *)
(***************************************************************************)
EXTENDS Integers

CONSTANTS
    MaxModelCalls,      \* RunLimits.max_model_calls
    MaxCritiqueRounds   \* RunBudget.max_critique_rounds

(* Settings validate a positive ceiling; nothing else is assumed of it.    *)
ASSUME BudgetAssumption ==
    /\ MaxModelCalls \in Nat \ {0}
    /\ MaxCritiqueRounds \in Nat

VARIABLES
    maxConsults,        \* fixed when the run starts: room or ordinary ceiling
    modelCalls,         \* model_calls_used
    consults,           \* consults_used
    critiques           \* critique_rounds_used

budgetVars == <<maxConsults, modelCalls, consults, critiques>>

BudgetTypeOK ==
    /\ maxConsults \in Nat
    /\ modelCalls \in 0 .. MaxModelCalls
    /\ consults \in 0 .. maxConsults
    /\ critiques \in 0 .. MaxCritiqueRounds

BudgetInit(ceiling) ==
    /\ maxConsults = ceiling
    /\ modelCalls = 0
    /\ consults = 0
    /\ critiques = 0

(* max(0, n - 1), how every refund is written. *)
GiveBack(n) == IF n > 0 THEN n - 1 ELSE 0

CanTakeDirectorCall == modelCalls < MaxModelCalls

TakeDirectorCall ==
    /\ CanTakeDirectorCall
    /\ modelCalls' = modelCalls + 1
    /\ UNCHANGED <<maxConsults, consults, critiques>>

CanTakeConsultUncapped == modelCalls < MaxModelCalls - 1    \* mutant: no consult ceiling
CanTakeLastCall ==              \* mutant: no call is held back
    /\ consults < maxConsults
    /\ modelCalls < MaxModelCalls

(* One model call is always held back for the director. *)
CanTakeConsult ==
    /\ consults < maxConsults
    /\ modelCalls < MaxModelCalls - 1

CanTakeCritique == critiques < MaxCritiqueRounds

(* take_consult, and take_critique when the consult reviews. *)
TakeConsult(reviews) ==
    /\ CanTakeConsult
    /\ reviews => CanTakeCritique
    /\ consults' = consults + 1
    /\ modelCalls' = modelCalls + 1
    /\ critiques' = IF reviews THEN critiques + 1 ELSE critiques
    /\ UNCHANGED maxConsults

RefundConsultOnly(reviews) ==   \* mutant: the review round is not given back
    /\ consults' = GiveBack(consults)
    /\ modelCalls' = GiveBack(modelCalls)
    /\ UNCHANGED <<maxConsults, critiques>>

(* refund_consult, and refund_critique when the consult was a review. *)
RefundConsult(reviews) ==
    /\ consults' = GiveBack(consults)
    /\ modelCalls' = GiveBack(modelCalls)
    /\ critiques' = IF reviews THEN GiveBack(critiques) ELSE critiques
    /\ UNCHANGED maxConsults
=============================================================================
