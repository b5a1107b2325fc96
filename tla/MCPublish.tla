----------------------------- MODULE MCPublish -----------------------------
(* Small instances of Publish for TLC. *)
EXTENDS Publish, TLC
CONSTANTS r1, r2, ta, tb, k1, k2

Symmetric == Permutations({r1, r2})

B(t, m, d, s) == [tags |-> t, metas |-> m, description |-> d, sync |-> s]

\* One request that does everything, alone: repeated and empty tag names, a
\* key WeKnora fills in too, a description, with and without sync.
RichBodies == {B(<<ta, NoName, ta, tb>>, {k1, k2}, TRUE, s) : s \in BOOLEAN}
         \cup {B(<< >>, {k2}, FALSE, TRUE), B(<< >>, {}, TRUE, FALSE)}
\* Two requests that meet at one new tag; a third body asks for sync.
SharedBodies == {B(<<ta>>, {k1}, FALSE, FALSE), B(<<ta>>, {}, TRUE, FALSE),
                 B(<<ta>>, {k1}, TRUE, TRUE)}
=============================================================================
