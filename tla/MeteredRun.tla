------------------------------ MODULE MeteredRun ------------------------------
(***************************************************************************)
(* What a run promises whoever pays for it (assistant/specialists/         *)
(* budget.py, lines 1-6 and 31-35), with no budget object in sight: every  *)
(* model call is the director's or a specialist's, there are at most Limit *)
(* of them, specialists keep to their ceiling and never use the last call, *)
(* reviews keep to theirs, and a run that is over calls no model.          *)
(***************************************************************************)
EXTENDS Integers

CONSTANTS
    Limit,          \* model calls a run may make
    ReviewLimit     \* reviewing consults a run may make

VARIABLES
    ceiling,        \* consults this run may make
    director,       \* model calls made by the director
    specialist,     \* model calls made by specialists
    reviews,        \* those of them that reviewed colleagues
    over            \* the run has ended

meterVars == <<ceiling, director, specialist, reviews, over>>

Init ==
    /\ ceiling \in Nat
    /\ director = 0 /\ specialist = 0 /\ reviews = 0
    /\ over = FALSE

DirectorSpends ==
    /\ ~over
    /\ director + specialist < Limit
    /\ director' = director + 1
    /\ UNCHANGED <<ceiling, specialist, reviews, over>>

SpecialistSpends ==
    /\ ~over
    /\ specialist < ceiling
    /\ director + specialist < Limit - 1
    /\ specialist' = specialist + 1
    /\ reviews' \in {reviews, reviews + 1}
    /\ reviews' <= ReviewLimit
    /\ UNCHANGED <<ceiling, director, over>>

Ends ==
    /\ ~over
    /\ over' = TRUE
    /\ UNCHANGED <<ceiling, director, specialist, reviews>>

Next == DirectorSpends \/ SpecialistSpends \/ Ends

Spec == Init /\ [][Next]_meterVars
=============================================================================
