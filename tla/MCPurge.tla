------------------------------ MODULE MCPurge ------------------------------
(* Small instances of Purge for TLC. *)
EXTENDS Purge, TLC
CONSTANTS b1, b2, n1, n2

Apart == (n1 :> b1) @@ (n2 :> b2)          \* one item in each
T(table, byKb, byKn) == [table |-> table, byKb |-> byKb, byKn |-> byKn]
\* The four shapes of the default purge.tables, in their order: keyed by both,
\* by the item, by the base, and the items themselves.
Default == << T("chunks", TRUE, TRUE), T("knowledge_tag_relations", FALSE, TRUE),
              T("wiki_pages", TRUE, FALSE), T("knowledges", FALSE, TRUE) >>
DefaultSweeps == << T("chunks", TRUE, TRUE) >>
Alike == Permutations(Purges)
=============================================================================
