------------------------------- MODULE MCTeam -------------------------------
(* Team for TLC: users, passwords and slots are interchangeable. *)
EXTENDS Team, TLC

CONSTANTS u1, u2, i1, p1, p2, q1, q2

Symmetry ==
  Permutations({u1, u2}) \union Permutations({q1, q2}) \union Permutations({p1, p2})
=============================================================================
