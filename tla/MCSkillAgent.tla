---------------------------- MODULE MCSkillAgent ----------------------------
(* Model checking of SkillAgent: one coin traded by both threads, and two    *)
(* signals that are retried against a queue of one.                          *)
EXTENDS SkillAgent
=============================================================================
