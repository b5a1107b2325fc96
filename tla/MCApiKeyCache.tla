--------------------------- MODULE MCApiKeyCache ---------------------------
(* Small instances of ApiKeyCache for TLC. *)
EXTENDS ApiKeyCache, TLC
CONSTANTS r1, r2, k1, k2,
          MaxHeard   \* bound: how many answers are told apart in the history
Symmetric == Permutations({r1, r2}) \cup Permutations({k1, k2})
Heard == {p \in ApiKeys \X Answers : last[p[1]][p[2]] # -1}
FewHeard == Cardinality(Heard) <= MaxHeard
=============================================================================
