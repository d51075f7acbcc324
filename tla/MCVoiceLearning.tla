---------------------------- MODULE MCVoiceLearning ----------------------------
(* Instances of VoiceLearning for TLC. *)
EXTENDS VoiceLearning

CONSTANTS c1, c2

Both(kinds) == [c \in Calls |-> kinds]
OneOf(kinds) == [c \in Calls |-> IF c = c1 THEN kinds ELSE {}]

(* The actions and routes one at a time, images at once, lessons at once. *)
EachLoad == {OneOf(Actions \cup Routes \cup {"chat"}), Both({"image"}), Both({"preflight", "voice"})}
=============================================================================
