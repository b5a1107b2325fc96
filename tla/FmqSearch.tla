------------------------------ MODULE FmqSearch ------------------------------
(***************************************************************************)
(* The search with its query language: MetasSearch where Matches is what   *)
(* evaluate() finds of a tree and Selected what compile_sql() writes of    *)
(* it, each given by its walk in Fmq.                                      *)
(***************************************************************************)
EXTENDS MetasSearch, Fmq

CONSTANTS
  Trees,         \* the queries and all they are made of
  Height(_),     \* of a tree: more than that of any tree below it
  Safe(_, _, _)  \* of a query, a document, folding: the clause can be relied on

Docs == {r.doc : r \in Rows}

ASSUME TreesAssumption ==
  /\ \A n \in Trees :
       /\ Height(n) \in Nat
       /\ \/ IsComparison(n)
          \/ n.node = "not" \/ (n.node \in {"and", "or"} /\ n.items \in Seq(Trees))
       /\ \A m \in Below(n) : m \in Trees /\ Height(m) < Height(n)
  /\ \A q \in Requests : q.query \in Trees
  /\ \A doc \in Docs : IsDocument(doc)

\* The three walks over a tree.
ASSUME WalksAssumption ==
  \A n \in Trees, doc \in Docs, ci \in BOOLEAN :
    /\ Matches(n, doc, ci) <=>
         EvalNode(n, doc, ci, {m \in Below(n) : Matches(m, doc, ci)})
    /\ Selected(n, doc, ci) <=>
         SelectNode(n, doc, ci, {m \in Below(n) : Selected(m, doc, ci)})
    /\ Safe(n, doc, ci) <=> SafeNode(n, doc, ci, {m \in Below(n) : Safe(m, doc, ci)})

-----------------------------------------------------------------------------
\* On what is stored the way it is written in the query, the compiled clause
\* selects all that evaluate() accepts, under any AND, OR and NOT.
SafeIsSuperset ==
  \A i \in Wanted :
    Safe(req.query, db[i].doc, req.ci) => Selected(req.query, db[i].doc, req.ci)

\* So a query of that kind is answered in full, over rows nobody writes and short
\* of max_rows: the total is exact, and no article is missing at the last page.
SafeSearchComplete ==
  /\ pc = "done" /\ calm /\ ~truncated
  /\ \A i \in Wanted : Safe(req.query, db[i].doc, req.ci)
  => /\ total = Cardinality(Wanted)
     /\ ~has_more => \A i \in Wanted : \E a \in DOMAIN AllSeen : AllSeen[a] = i
=============================================================================
