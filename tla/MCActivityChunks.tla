-------------------------- MODULE MCActivityChunks --------------------------
(* Instances of ActivityChunks for TLC: the names of s4 and s5 end alike. *)
EXTENDS ActivityChunks

CONSTANTS r1, r2, s1, s2, s3, s4, s5

Tails == [s \in Sends |-> CASE s = s1 -> 1 [] s = s2 -> 2 [] s = s3 -> 3 [] OTHER -> 4]

EachReader == {{s1}, {s2, s3}, {s4, s5}}
=============================================================================
