----------------------------- MODULE MCEconomy -----------------------------
(* The instance of Economy that TLC checks.                                *)
EXTENDS Economy, TLC

CONSTANTS p, r, w, a, j1, j2, j3, s1, s2, race

(* Two players with money; two and an account; a player with money and an  *)
(* account; a wizard with both; a player and a wizard with money, and the  *)
(* two with a job; a player and a job that can expire; a player with money *)
(* and a job; a player with two jobs; a player and the bank of the races.  *)
MCWorlds == {{p, r, 1}, {p, r, a}, {p, a, 1}, {w, a, 1}, {p, w, 1},
             {p, w, j2}, {p, j1}, {p, j2, 1}, {p, j2, j3}, {p, race, 1}}

(* Two players with money.                                                 *)
MCPurses == {{p, r, 1}}

(* Neither the players nor the ships nor the jobs j2 and j3 differ.        *)
Alike ==
  Permutations({p, r}) \cup Permutations({s1, s2}) \cup Permutations({j2, j3})
=============================================================================
