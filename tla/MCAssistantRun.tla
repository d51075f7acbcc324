---------------------------- MODULE MCAssistantRun ----------------------------
(* Instances of AssistantRun for TLC: what the director may ask for. *)
EXTENDS AssistantRun

CONSTANT Architect   \* a specialist that advises and does not review by itself

Tool(name) == [tool |-> name, who |-> NoOne, review |-> FALSE]
Consult(specialist, asksReview) ==
    [tool |-> "consult_specialist", who |-> specialist, review |-> asksReview]

(* One call of every kind the loop tells apart. *)
FullMenu ==
    {Tool("read"), Tool("read_current_editor"), Tool("propose_story_changes"),
     Tool("propose_editor_edit"), Tool("nameless"),
     Consult(NoOne, FALSE), Consult(Drafter, FALSE),
     Consult(Critic, FALSE), Consult(Critic, TRUE),
     Consult(Architect, FALSE), Consult(Architect, TRUE)}

(* A third call asks the critic, so that a review may wait for two. *)
CriticLast == {Consult(Critic, TRUE)}
=============================================================================
