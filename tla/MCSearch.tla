------------------------------ MODULE MCSearch ------------------------------
(* Small instances of MetasSearch for TLC, with Fmq as the query language. *)
EXTENDS FmqSearch, TLC

S(s) == <<"str", s>>
N(n) == <<"num", n>>
B(b) == <<"bool", b>>
L(s) == <<"list", s>>

-----------------------------------------------------------------------------
(* A few texts: words of which one is part of another and one differs in    *)
(* case, a number written in two ways, a day written in two ways; and "Oe"  *)
(* for a word with a capital outside ASCII, which Python folds to "oe" and  *)
(* a database of the C locale leaves alone.                                 *)
Words == {"", "ai", "Ai", "air", "Oe", "oe", "10", "9", "9.0", "2026-01-02", "2026/1/2",
          "True", "False", "true", "false", "null", "None", "none", "[list]",
          "[array]"}
Numerals == (9 :> "9") @@ (10 :> "10")
Readings == [s \in Words |-> CASE s = "10" -> 10 [] s \in {"9", "9.0"} -> 9
                               [] OTHER -> NaN]
Moments == [s \in Words |->
  IF s \in {"2026-01-02", "2026/1/2"} THEN 1000 ELSE NaN]
SqlFolded == [s \in Words |-> CASE s = "Ai" -> "ai" [] s = "True" -> "true"
                                [] s = "False" -> "false" [] s = "None" -> "none"
                                [] OTHER -> s]
Folded == [s \in Words |-> IF s = "Oe" THEN "oe" ELSE SqlFolded[s]]

\* The order of code points, capitals first; and that of a language, in which
\* the case of a letter decides last and punctuation is passed over.
Place(order) == [s \in Words |-> CHOOSE n \in DOMAIN order : order[n] = s]
Ranks == Place(<<"", "10", "2026-01-02", "2026/1/2", "9", "9.0", "Ai", "False",
                 "None", "Oe", "True", "[array]", "[list]", "ai", "air", "false",
                 "none", "null", "oe", "true">>)
Collated == Place(<<"", "10", "2026-01-02", "2026/1/2", "9", "9.0", "ai", "Ai",
                    "air", "[array]", "false", "False", "[list]", "none", "None",
                    "null", "oe", "Oe", "true", "True">>)
Starts == {<<s, s>> : s \in Words} \cup {<<"", s>> : s \in Words}
            \cup {<<"ai", "air">>, <<"9", "9.0">>}
Ends == {<<s, s>> : s \in Words} \cup {<<"", s>> : s \in Words}
Parts == Starts \cup Ends

AllFields == {"level", "topics", "$source", "$nonesuch"}
Kinds == [f \in AllFields |-> CASE f = "$source" -> "column"
                             [] f = "$nonesuch" -> "unknown" [] OTHER -> "meta"]

-----------------------------------------------------------------------------
Cmp(f, op, vals) == [node |-> "cmp", field |-> f, op |-> op, values |-> vals]
Not(n) == [node |-> "not", item |-> n]
And(a, b) == [node |-> "and", items |-> <<a, b>>]
Or(a, b) == [node |-> "or", items |-> <<a, b>>]

\* Every operator on every kind of field, alone and under the connectives.
HasNot == Cmp("topics", "not_contains", <<S("ai")>>)
Exists == Cmp("topics", "exists", << >>)
Absent == Cmp("topics", "not_exists", << >>)
Queries ==
  { Cmp("level", "=", <<N(9)>>), Cmp("level", "!=", <<S("ai")>>),
    Cmp("level", ">", <<N(9)>>), Cmp("level", "<=", <<S("ai")>>),
    Cmp("level", "in", <<S("ai"), S("air")>>),
    Cmp("level", "not_in", <<N(9), S("ai")>>),
    Cmp("topics", "contains", <<S("ai")>>), HasNot, Exists, Absent,
    Cmp("level", "startswith", <<S("ai")>>), Cmp("level", "endswith", <<S("air")>>),
    Cmp("$source", "contains", <<S("oe")>>), Cmp("$source", ">", <<S("ai")>>),
    Cmp("level", "matches", <<S("ai")>>), Cmp("$nonesuch", "!=", <<S("ai")>>),
    Or(Cmp("$source", "=", <<S("ai")>>), Cmp("level", "=", <<Null>>)),
    And(Cmp("$source", "!=", <<S("ai")>>), Exists),
    Not(Cmp("level", "=", <<N(9)>>)), Not(Cmp("topics", "contains", <<S("ai")>>)),
    Not(Exists), Not(Not(Cmp("level", ">=", <<N(10)>>))),
    Not(And(Cmp("level", "<", <<N(10)>>), Exists)), Not(Absent), Not(HasNot) }

RECURSIVE Subtrees(_), Tall(_)
Subtrees(n) == {n} \cup UNION {Subtrees(m) : m \in Below(n)}
AllTrees == UNION {Subtrees(n) : n \in Queries}
Tall(n) == IF n.node = "cmp" THEN 0
           ELSE 1 + CHOOSE h \in 0 .. 9 : /\ \A m \in Below(n) : Tall(m) <= h
                                          /\ \E m \in Below(n) : Tall(m) = h

\* The walks.
RECURSIVE Evaluate(_, _, _), Select(_, _, _), Reliable(_, _, _)
Evaluate(n, doc, ci) == EvalNode(n, doc, ci, {m \in Below(n) : Evaluate(m, doc, ci)})
Select(n, doc, ci) == SelectNode(n, doc, ci, {m \in Below(n) : Select(m, doc, ci)})
Reliable(n, doc, ci) == SafeNode(n, doc, ci, {m \in Below(n) : Reliable(m, doc, ci)})

Doc(level, topics, source) ==
  [f \in AllFields |-> CASE f = "level" -> level [] f = "topics" -> topics
                      [] f = "$source" -> source [] OTHER -> Missing]
R(d, u, g, b, c) == [doc |-> d, kb |-> TRUE, deleted |-> FALSE, updated |-> u,
                     tagged |-> g, body |-> b, chunks |-> c]
Nine == R(Doc(N(9), L(<<S("ai"), S("air")>>), S("ai")), 1, TRUE, TRUE, TRUE)
Words9 == R(Doc(S("9.0"), L(<<S("air")>>), S("Ai")), 2, TRUE, FALSE, TRUE)
Word == R(Doc(S("air"), S("air"), Null), 3, FALSE, FALSE, FALSE)
Others ==
  { R(Doc(N(10), Missing, S("")), 2, TRUE, FALSE, TRUE),
    R(Doc(S("10"), S(""), Null), 2, TRUE, TRUE, FALSE),
    R(Doc(S("Ai"), Null, S("Oe")), 2, FALSE, TRUE, FALSE),
    R(Doc(Null, L(<< >>), S("air")), 2, FALSE, TRUE, TRUE),
    R(Doc(Missing, S("2026-01-02"), S("ai")), 2, TRUE, TRUE, TRUE),
    R(Doc(B(TRUE), B(FALSE), S("ai")), 2, TRUE, TRUE, TRUE) }
Hidden == { [Nine EXCEPT !.deleted = TRUE], [Nine EXCEPT !.kb = FALSE] }
AllRows == {Nine, Words9, Word} \cup Others \cup Hidden

\* One row of any kind, among others that are there or not.
SmallTables ==
  { <<a, b>> \o cd : a \in AllRows \cup {None}, b \in {Nine, None},
      cd \in {<<Words9, Word>>, <<None, Word>>, <<None, None>>} }

Ask(q, s, i, t, c) ==
  [query |-> q, size |-> s, ci |-> i, tagged |-> t, content |-> c]
\* Every query once with and once without folding, and every way to page one.
AllRequests ==
  {Ask(q, 1, i, FALSE, FALSE) : q \in Queries, i \in BOOLEAN}
    \cup {Ask(Exists, s, FALSE, t, TRUE) : s \in {0, 1, 5}, t \in BOOLEAN}
\* One request each for the two claims about the search.
PlainRequests == {Ask(HasNot, 1, FALSE, FALSE, FALSE)}
PageRequests == {Ask(Exists, 0, FALSE, FALSE, FALSE)}
=============================================================================
