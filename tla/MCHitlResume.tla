---------------------------- MODULE MCHitlResume ----------------------------
(* Constants of the runs that model-check HitlResume.                      *)
EXTENDS HitlResume, TLC

CONSTANTS q1, q2, p1, p2, p3

Symmetric == Permutations(Req) \cup Permutations(Proc)
=============================================================================
