------------------------------- MODULE MCLogin -------------------------------
(* Small instances of Login.                                                 *)
EXTENDS Login, TLC

CONSTANTS s1, s2, h1, h2, f1, f2

Alike == Permutations({s1, s2}) \union Permutations({h1, h2})
           \union Permutations({f1, f2})
=============================================================================
