----------------------------- MODULE MetasSearch -----------------------------
(***************************************************************************)
(* POST /api/v2/knowledge/search: the endpoint (routers/metas.py) and      *)
(* MetasSearchService.search (metas_search.py), called by a client that    *)
(* walks the pages of one query while WeKnora writes the same tables.      *)
(*                                                                         *)
(* The search is one transaction of up to three SELECTs under READ         *)
(* COMMITTED: the candidates, the tag names of the page, and the chunks of *)
(* its items without a body.  Each sees what is committed when it runs.    *)
(* The query language is a parameter: Matches is evaluate(), Selected the  *)
(* compiled WHERE clause.                                                  *)
(***************************************************************************)
EXTENDS Integers, Sequences, FiniteSets

CONSTANTS
  Ids,            \* knowledge ids, 1 .. n in their order
  Rows,           \* what a row can hold
  Tables,         \* what the table can hold at first: a row or None for each id
  None,
  Requests,       \* requests a client may make
  Matches(_, _, _), Selected(_, _, _),   \* of a query, a document, case folding
  max_rows, max_page_size, default_page_size,   \* config.metas_search
  MaxWrites, MaxPages                           \* bounds

\* What the search reads of a row: its metadata and columns, whether it is in a
\* base asked for, soft-deleted, under a tag asked for, and where its text is.
Row == [doc: {r.doc : r \in Rows}, kb: BOOLEAN, deleted: BOOLEAN, updated: Nat,
        tagged: BOOLEAN, body: BOOLEAN, chunks: BOOLEAN]
\* What a client asks: size 0 is none given, tagged is a filter by tags.
Request == [query: {r.query : r \in Requests}, size: Nat, ci: BOOLEAN,
            tagged: BOOLEAN, content: BOOLEAN]

ASSUME MetasSearchAssumption ==
  /\ IsFiniteSet(Ids) /\ Ids = 1 .. Cardinality(Ids) /\ Rows \subseteq Row
  /\ Tables \subseteq [Ids -> Rows \cup {None}] /\ None \notin Rows
  /\ Requests \subseteq Request /\ MaxWrites \in Nat /\ MaxPages \in Nat \ {0}
  /\ {max_rows, max_page_size, default_page_size} \subseteq Nat \ {0}

VARIABLES
  db,        \* the row of each id, or None
  req,       \* the request: query, size, folding, with tags or content asked
  page,      \* the page asked for
  pc,        \* access, select, tags, contents, done, denied, error
  matched,   \* the candidates that matched, in order
  scanned,   \* how many candidates there were
  items,     \* the page's items
  walked,    \* ids of the pages answered before this one
  calm,      \* nothing was written since the walk began
  writes
vars == <<db, req, page, pc, matched, scanned, items, walked, calm, writes>>

Live == {i \in Ids : db[i] # None}

Item == [id: Ids, tagged: BOOLEAN, content: {"none", "body", "chunks", "empty"}]
Nowhere == {"done", "denied", "error"}

TypeOK ==
  /\ db \in [Ids -> Rows \cup {None}]
  /\ req \in Requests /\ page \in 1 .. MaxPages
  /\ pc \in {"access", "select", "tags", "contents"} \cup Nowhere
  /\ matched \in Seq(Ids) /\ walked \in Seq(Ids)
  /\ scanned \in 0 .. Cardinality(Ids)
  /\ items \in Seq(Item) /\ Len(items) <= max_page_size
  /\ calm \in BOOLEAN /\ writes \in 0 .. MaxWrites

\* Mutated PageSize: the size asked for is taken as it is.
PageSizeAsAsked == IF req.size = 0 THEN default_page_size ELSE req.size

\* _resolve and search: a size not given is the default, and sizes are clamped.
PageSize == LET asked == IF req.size = 0 THEN default_page_size ELSE req.size
            IN IF asked < max_page_size THEN asked ELSE max_page_size
limit == IF max_rows > PageSize THEN max_rows ELSE PageSize

\* The clauses next to the compiled one: not soft-deleted, in the bases asked
\* for, and with one of the tags asked for.
Asked(row) == ~row.deleted /\ row.kb /\ (req.tagged => row.tagged)

Wanted == {i \in Live : Asked(db[i]) /\ Matches(req.query, db[i].doc, req.ci)}

\* The rows the statement is about, and their order: DISTINCT ON (id) makes the id
\* come first in ORDER BY.
Hits == {i \in Live : Asked(db[i]) /\ Selected(req.query, db[i].doc, req.ci)}
Position(S, i) == Cardinality({j \in S : j <= i})
InOrder(S) == [k \in 1 .. Cardinality(S) |-> CHOOSE i \in S : Position(S, i) = k]

\* Mutated Candidates: the bound is that of one page.
CandidatesOfPage == {i \in Hits : Position(Hits, i) <= PageSize}

\* LIMIT counts in that order.
Candidates == {i \in Hits : Position(Hits, i) <= limit}

\* _matches: those evaluate() accepts, in the order they came.
Matched == InOrder({i \in Candidates : Matches(req.query, db[i].doc, req.ci)})

\* Mutated Slice: pages counted from 0.
SliceFromZero(s) ==
  LET start == page * PageSize
      stop == start + PageSize
  IN SubSeq(s, start + 1, IF stop < Len(s) THEN stop ELSE Len(s))

Slice(s) ==
  LET start == (page - 1) * PageSize
      stop == start + PageSize
  IN SubSeq(s, start + 1, IF stop < Len(s) THEN stop ELSE Len(s))

total == Len(matched)
has_more == page * PageSize < total
truncated == scanned >= limit

Init ==
  /\ db \in Tables
  /\ req \in Requests /\ page = 1 /\ pc = "access"
  /\ matched = << >> /\ scanned = 0 /\ items = << >> /\ walked = << >>
  /\ calm = TRUE /\ writes = 0

\* WeKnora is asked for the bases the key can see: they include those asked for,
\* or not, or the call fails.
Access ==
  /\ pc = "access"
  /\ pc' \in {"select", "denied", "error"}
  /\ UNCHANGED <<db, req, page, matched, scanned, items, walked, calm, writes>>

\* The candidates are fetched, evaluated one by one, and cut to the page.
FetchCandidates ==
  /\ pc = "select" /\ pc' = "tags"
  /\ scanned' = Cardinality(Candidates)
  /\ matched' = Matched
  /\ items' = [n \in DOMAIN Slice(matched') |->
       [id |-> Slice(matched')[n], tagged |-> FALSE,
        content |-> IF ~req.content THEN "none"
                    ELSE IF db[Slice(matched')[n]].body THEN "body" ELSE "empty"]]
  /\ UNCHANGED <<db, req, page, walked, calm, writes>>

Bare == {n \in DOMAIN items : items[n].content = "empty"}

\* The tag names of the page's items, as they are by now.
FetchTags ==
  /\ pc = "tags"
  /\ items' = [n \in DOMAIN items |->
       [items[n] EXCEPT !.tagged = items[n].id \in Live /\ db[items[n].id].tagged]]
  /\ pc' = IF Bare # {} THEN "contents" ELSE "done"
  /\ UNCHANGED <<db, req, page, matched, scanned, walked, calm, writes>>

\* Mutated FetchContents: the chunks are asked for in place of every body.
FetchContentsAlways ==
  /\ pc = "contents" /\ pc' = "done"
  /\ items' = [n \in DOMAIN items |->
       [items[n] EXCEPT !.content =
          IF items[n].id \in Live /\ db[items[n].id].chunks
          THEN "chunks" ELSE "empty"]]
  /\ UNCHANGED <<db, req, page, matched, scanned, walked, calm, writes>>

\* Items without a body get that of their text chunks, if they have any.
FetchContents ==
  /\ pc = "contents" /\ pc' = "done"
  /\ items' = [n \in DOMAIN items |->
       IF n \in Bare /\ items[n].id \in Live /\ db[items[n].id].chunks
       THEN [items[n] EXCEPT !.content = "chunks"] ELSE items[n]]
  /\ UNCHANGED <<db, req, page, matched, scanned, walked, calm, writes>>

\* A statement fails or runs out of time: the transaction and the request end.
Fail ==
  /\ pc \in {"select", "tags", "contents"} /\ pc' = "error"
  /\ UNCHANGED <<db, req, page, matched, scanned, items, walked, calm, writes>>

\* The client asks for the next page, as long as it is told there is one.
NextPage ==
  /\ pc = "done" /\ has_more /\ page < MaxPages
  /\ page' = page + 1 /\ pc' = "access"
  /\ walked' = walked \o [n \in DOMAIN items |-> items[n].id]
  /\ UNCHANGED <<db, req, matched, scanned, items, calm, writes>>

\* WeKnora writes or removes a row.
Write ==
  /\ writes < MaxWrites /\ writes' = writes + 1
  /\ \E i \in Ids, row \in Rows \cup {None} :
       row # db[i] /\ db' = [db EXCEPT ![i] = row]
  /\ calm' = FALSE
  /\ UNCHANGED <<req, page, pc, matched, scanned, items, walked>>

Next == \/ Access \/ FetchCandidates \/ FetchTags \/ FetchContents \/ Fail
        \/ NextPage \/ Write

Spec == Init /\ [][Next]_vars

-----------------------------------------------------------------------------
\* The compiled clause keeps every row the query is after.
NothingFilteredEarly ==
  \A i \in Wanted : Selected(req.query, db[i].doc, req.ci)

AllSeen == walked \o [n \in DOMAIN items |-> items[n].id]

\* A client that follows has_more to the end, over rows nobody writes meanwhile,
\* has been given every article it asked for once, in one order; articles are
\* missing only where the clause lost them, or where max_rows candidates were
\* fetched (truncated, of which the endpoint does not tell the client).
WalkSeesAll ==
  pc = "done" /\ calm /\ ~has_more =>
    /\ \A a, b \in DOMAIN AllSeen : a < b => AllSeen[a] < AllSeen[b]
    /\ \A a \in DOMAIN AllSeen : AllSeen[a] \in Wanted
    /\ NothingFilteredEarly /\ ~truncated =>
         \A i \in Wanted : \E a \in DOMAIN AllSeen : AllSeen[a] = i

\* Unless max_rows candidates were fetched, the total is the number of articles
\* there are; and whatever is written meanwhile, a page that promises another is
\* full, of the size the client was told.
TotalIsExact ==
  pc = "done" =>
    /\ calm /\ NothingFilteredEarly /\ ~truncated => total = Cardinality(Wanted)
    /\ has_more => Len(items) = PageSize

\* What the two later SELECTs fill in, and the list of the page they fill it into,
\* belong to the same items: each has the tags of its own row; its content is its
\* body where it has one, else that of its chunks, and is left empty only where
\* there is neither.
ItemsFilledIn ==
  pc = "done" /\ calm =>
    \A n \in DOMAIN items :
      LET row == db[items[n].id]
      IN /\ items[n].tagged = row.tagged
         /\ req.content =>
              items[n].content = IF row.body THEN "body"
                                 ELSE IF row.chunks THEN "chunks" ELSE "empty"

\* metas_search.py: "The compiled predicate is guaranteed to be a SUPERSET of the
\* exact expression ... so nothing is filtered out too early".
NoMatchLost == pc = "done" /\ calm => total = Cardinality(Wanted) \/ truncated

\* metas_search.py: candidates are "already ordered the way the deployment wants
\* them"; config.default_order is updated_at, latest first.
OrderedAsConfigured ==
  pc = "done" /\ calm =>
    \A a, b \in DOMAIN items :
      a < b => db[items[a].id].updated >= db[items[b].id].updated
=============================================================================
