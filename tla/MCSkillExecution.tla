-------------------------- MODULE MCSkillExecution --------------------------
(* Instances of SkillExecution for TLC; see README.md for what they ask. *)
EXTENDS SkillExecution
=============================================================================
