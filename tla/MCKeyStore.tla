----------------------------- MODULE MCKeyStore -----------------------------
(* Small instances of KeyStore for TLC. *)
EXTENDS KeyStore, TLC
CONSTANTS c1, c2
Symmetric == Permutations({c1, c2})
=============================================================================
