------------------------------ MODULE MCMcpWrites ------------------------------
(* Instances of McpWrites for TLC: who calls what. *)
EXTENDS McpWrites, TLC

CONSTANTS c1, c2, c3, same, other

(* Three identical calls. *)
AllTheSame == [c \in {c1, c2, c3} |-> same]

(* A call and its repeat. *)
TwoRepeats == [c \in {c1, c2} |-> same]

(* Two identical calls and one that differs in its arguments. *)
TwoTheSame == [c \in {c1, c2, c3} |-> IF c = c3 THEN other ELSE same]

SameEdits == Permutations({c1, c2})

OnlyStories == [k \in {same} |-> "create_story"]
OnlyChapters == [k \in {same} |-> "create_chapter"]
EditsAndAStory == [k \in {same, other} |-> IF k = same THEN "edit" ELSE "create_story"]

FromTheFirst == [k \in {same} |-> 1]
BothFromTheFirst == [k \in {same, other} |-> 1]
=============================================================================
