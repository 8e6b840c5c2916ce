---------------------------- MODULE MCPolicyQuiz ----------------------------
(* Instances of PolicyQuiz for TLC. *)
EXTENDS PolicyQuiz

MCQuestions == 3
MCSeconds == 2
MCStartPoints == 100
=============================================================================
