--------------------------------- MODULE Fmq ---------------------------------
(***************************************************************************)
(* The metadata query language twice: as evaluate() decides it in Python   *)
(* and as compile_sql() writes it into a WHERE clause (meta_dsl.py).  The  *)
(* search rests on the second selecting all the first accepts.             *)
(*                                                                         *)
(* A value is a pair <<kind, content>>: null, bool, num, str or a list of  *)
(* those; Missing stands for an absent key.  What is said of texts (which  *)
(* is part of which, which reads as a number or a date) is a parameter, so *)
(* no text is ever taken apart; texts are those JSON writes as they are,   *)
(* and numbers those that Python and PostgreSQL write alike.  How Python   *)
(* orders texts and folds their case, and how the database does, are       *)
(* parameters of their own: its collation is not the order of code points. *)
(* A query is a tree of records.  The walks over a tree are given by what  *)
(* they do at a node, from which of the nodes below it they held of.       *)
(***************************************************************************)
EXTENDS Integers, Sequences

CONSTANTS
  Fields,
  Kind,       \* of each field: "meta", "column" ($-field), "unknown" ($-field)
  Texts,
  Numbers,
  Numeral,    \* number -> its text
  Reading,    \* text -> the number float() reads in it, or NaN
  Moment,     \* text -> the time _to_datetime reads in it, or NaN
  Lower,      \* text -> text: str.lower()
  SqlLower,   \* text -> text: as ILIKE folds it
  Inside, Prefix, Suffix,   \* pairs <<part, whole>> of texts
  Rank,       \* text -> its place in Python's order of texts
  Collation,  \* text -> its place in the database's
  NaN

\* Texts the code itself writes: for values that are none, and for lists, whose
\* texts in Python and in JSON are like those of no other value.
Spelled == {"", "True", "False", "true", "false", "None", "null", "[list]", "[array]"}

\* Numbers have texts of their own, only the empty text folds to the empty one,
\* a text holds itself, the empty one nothing else; in Python False comes before
\* True.
ASSUME FmqAssumption ==
  /\ Kind \in [Fields -> {"meta", "column", "unknown"}]
  /\ Spelled \subseteq Texts /\ Numbers \subseteq Int /\ NaN \notin Int
  /\ Numeral \in [Numbers -> Texts \ {""}]
  /\ \A a, b \in Numbers : Numeral[a] = Numeral[b] => a = b
  /\ Reading \in [Texts -> Int \cup {NaN}] /\ Moment \in [Texts -> Int \cup {NaN}]
  /\ Lower \in [Texts -> Texts] /\ \A s \in Texts : (Lower[s] = "") <=> (s = "")
  /\ SqlLower \in [Texts -> Texts]
  /\ \A s \in Texts : (SqlLower[s] = "") <=> (s = "")
  /\ \A s \in Texts : <<s, s>> \in Inside /\ (<<s, "">> \in Inside => s = "")
  /\ Rank \in [Texts -> Int] /\ Rank["False"] < Rank["True"]
  /\ Collation \in [Texts -> Int]

Missing == <<"missing", 0>>
Null == <<"null", 0>>
Nothing(v) == v \in {Missing, Null}
Is(v, kind) == v[1] = kind

\* What a query can name, and what a document can hold.
Literals == {Null} \cup ({"num"} \X Numbers) \cup ({"str"} \X Texts)
              \cup ({"bool"} \X BOOLEAN)
Values == {Missing} \cup Literals \cup ({"list"} \X Seq(Literals))

\* A document: columns hold texts or NULL.
IsDocument(doc) ==
  /\ doc \in [Fields -> Values]
  /\ \A f \in Fields : Kind[f] = "column" => doc[f] = Null \/ Is(doc[f], "str")

Orders == {">", ">=", "<", "<="}
Ops == Orders \cup {"=", "!=", "in", "not_in", "exists", "not_exists", "contains",
                    "not_contains", "startswith", "endswith", "matches"}

\* As the parser makes them: EXISTS has no operand, membership any number.
Comparisons == [node: {"cmp"}, field: Fields, op: Ops, values: Seq(Literals)]
IsComparison(c) ==
  /\ c \in Comparisons
  /\ (c.op \in {"exists", "not_exists"}) <=> (c.values = << >>)
  /\ c.op \in Orders \cup {"=", "!=", "startswith", "endswith", "matches"} =>
       Len(c.values) = 1

\* The nodes below one: a Not has an item, a Bool has items.
Below(n) == IF n.node = "cmp" THEN {}
            ELSE IF n.node = "not" THEN {n.item} ELSE {n.items[i] : i \in DOMAIN n.items}

-----------------------------------------------------------------------------
(* evaluate().                                                             *)

\* str() of a value.
PyText(v) == IF Is(v, "str") THEN v[2]
             ELSE IF Is(v, "num") THEN Numeral[v[2]]
             ELSE IF Is(v, "bool") THEN (IF v[2] THEN "True" ELSE "False")
             ELSE IF Is(v, "list") THEN "[list]" ELSE "None"

Number(v) == IF Is(v, "num") THEN v[2]
             ELSE IF Is(v, "str") THEN Reading[v[2]] ELSE NaN

\* A number is a timestamp, and a bool is a number.
DateTime(v) == IF Is(v, "str") THEN Moment[v[2]]
               ELSE IF Is(v, "num") THEN v[2]
               ELSE IF Is(v, "bool") THEN (IF v[2] THEN 1 ELSE 0) ELSE NaN

Ordered(op, a, b) == \/ op = ">" /\ a > b
                     \/ op = ">=" /\ a >= b
                     \/ op = "<" /\ a < b
                     \/ op = "<=" /\ a <= b

\* On numbers and times an operator of texts holds of nothing.
Apply(op, a, b) == \/ op = "=" /\ a = b
                   \/ op = "!=" /\ a # b
                   \/ Ordered(op, a, b)

OnTexts(op, a, b) ==
  \/ op = "=" /\ a = b
  \/ op = "!=" /\ a # b
  \/ op \in {"contains", "matches"} /\ <<b, a>> \in Inside
  \/ op = "startswith" /\ <<b, a>> \in Prefix
  \/ op = "endswith" /\ <<b, a>> \in Suffix
  \/ op \in Orders /\ Ordered(op, Rank[a], Rank[b])

Fold(s, ci) == IF ci THEN Lower[s] ELSE s

CompareScalar(v, x, op, ci) ==
  IF Null \in {v, x}
  THEN (op = "=" /\ v = x) \/ (op = "!=" /\ v # x)
  ELSE IF NaN \notin {Number(v), Number(x)} THEN Apply(op, Number(v), Number(x))
  ELSE IF (Is(v, "str") \/ Is(x, "str")) /\ NaN \notin {DateTime(v), DateTime(x)}
  THEN Apply(op, DateTime(v), DateTime(x))
  ELSE OnTexts(op, Fold(PyText(v), ci), Fold(PyText(x), ci))

Empty(v) == v \in {Missing, Null, <<"str", "">>, <<"list", << >>>>}

Contains(v, x, ci) ==
  \/ Is(v, "list") /\ \E i \in DOMAIN v[2] : CompareScalar(v[2][i], x, "=", ci)
  \/ ~Is(v, "list") /\ ~Nothing(v) /\ CompareScalar(v, x, "contains", ci)

Among(v, values, ci) ==
  \E i \in DOMAIN values :
    CompareScalar(IF v = Missing THEN Null ELSE v, values[i], "=", ci)

\* Operators with a negated form are decided as its negation; of a missing field
\* only != holds.
EvalCmp(c, doc, ci) ==
  LET v == doc[c.field]
      x == c.values[1]
  IN
  \/ c.op = "exists" /\ ~Empty(v)
  \/ c.op = "not_exists" /\ Empty(v)
  \/ c.op = "in" /\ Among(v, c.values, ci)
  \/ c.op = "not_in" /\ ~Among(v, c.values, ci)
  \/ c.op = "contains" /\ Contains(v, x, ci)
  \/ c.op = "not_contains" /\ ~Contains(v, x, ci)
  \/ /\ c.op \in {"startswith", "endswith", "matches"}
     /\ ~Nothing(v) /\ CompareScalar(v, x, c.op, ci)
  \/ /\ c.op \in Orders \cup {"=", "!="}
     /\ IF v = Missing THEN c.op = "!=" ELSE CompareScalar(v, x, c.op, ci)

\* At a node, with those below it that hold.
EvalNode(n, doc, ci, holding) ==
  \/ n.node = "cmp" /\ EvalCmp(n, doc, ci)
  \/ n.node = "not" /\ n.item \notin holding
  \/ n.node = "and" /\ Below(n) \subseteq holding
  \/ n.node = "or" /\ Below(n) \cap holding # {}

-----------------------------------------------------------------------------
(* compile_sql(), as PostgreSQL decides what it writes.  The clause holds no *)
(* NOT over a comparison, so a comparison with NULL counts as false.        *)

\* ->> of a JSON value, with NULL taken for the empty text; text_of a literal.
SqlText(v) == IF Nothing(v) THEN ""
              ELSE IF Is(v, "bool") THEN (IF v[2] THEN "true" ELSE "false")
              ELSE IF Is(v, "list") THEN "[array]" ELSE PyText(v)

\* LIKE, and ILIKE.
SqlFold(s, ci) == IF ci THEN SqlLower[s] ELSE s
Like(rel, part, whole, ci) == <<SqlFold(part, ci), SqlFold(whole, ci)>> \in rel

\* LIKE on a JSON value as text: that of a list holds the texts of its items.
LikeJson(x, v, kind, ci) ==
  \/ PyText(x) = ""
  \/ Is(v, "list") /\ \E i \in DOMAIN v[2] : Like(Inside, PyText(x), SqlText(v[2][i]), ci)
  \/ ~Is(v, "list") /\ Like(Inside, PyText(x),
       IF v = Null /\ kind = "meta" THEN "null" ELSE SqlText(v), ci)

\* jsonb orders kinds before values, an empty array before all; its strings by
\* the collation of the database, as texts are.
JsonPlace(v) == IF v = <<"list", << >>>> THEN 0 ELSE IF Is(v, "null") THEN 1
                ELSE IF Is(v, "str") THEN 2 ELSE IF Is(v, "num") THEN 3
                ELSE IF Is(v, "bool") THEN 4 ELSE 5
JsonOrdered(op, v, x) ==
  /\ v # Missing
  /\ \/ ~Is(v, x[1]) /\ Ordered(op, JsonPlace(v), JsonPlace(x))
     \/ Is(v, x[1]) /\ Is(v, "num") /\ Ordered(op, v[2], x[2])
     \/ Is(v, x[1]) /\ Is(v, "str") /\ Ordered(op, Collation[v[2]], Collation[x[2]])
     \/ Is(v, x[1]) /\ Is(v, "bool") /\ Ordered(op, DateTime(v), DateTime(x))
     \/ Is(v, x[1]) /\ Is(v, "null") /\ op \in {">=", "<="}

\* A comparison of a metadata value: in its text form or in its JSON form.
MetaCmp(op, v, values, ci) ==
  LET same(i) == SqlText(v) = SqlText(values[i]) \/ v = values[i] IN
  \/ op = "exists" /\ SqlText(v) # ""
  \/ op = "not_exists" /\ SqlText(v) = ""
  \/ op \in {"in", "="} /\ \E i \in DOMAIN values : same(i)
  \/ op \in {"not_in", "!="} /\ \A i \in DOMAIN values : ~same(i)
  \/ op \in Orders /\ \/ JsonOrdered(op, v, values[1])
                      \/ Ordered(op, Collation[SqlText(v)], Collation[SqlText(values[1])])

\* A comparison of a column, which is a text or NULL.  Membership is of texts; a
\* comparison takes the literal as it is, and fails where that is no text.
ColumnCmp(op, v, values) ==
  \/ op = "exists" /\ v # Null
  \/ op = "not_exists" /\ v = Null
  \/ op = "in" /\ v # Null /\ \E i \in DOMAIN values : v[2] = SqlText(values[i])
  \/ op = "not_in" /\ (v = Null \/ \A i \in DOMAIN values : v[2] # SqlText(values[i]))
  \/ op = "=" /\ Null \notin {v, values[1]} /\ v = values[1]
  \/ op = "!=" /\ (v = Null \/ (values[1] # Null /\ v # values[1]))
  \/ /\ op \in Orders /\ Null \notin {v, values[1]}
     /\ Ordered(op, Collation[v[2]], Collation[values[1][2]])

SqlCmp(c, doc, ci) ==
  LET v == doc[c.field]
      x == c.values[1]
      kind == Kind[c.field]
  IN
  \/ kind = "unknown" \/ c.op = "matches"
  \/ c.op = "contains" /\ LikeJson(x, v, kind, ci)
  \/ c.op = "not_contains" /\ ~LikeJson(x, v, kind, ci)
  \/ c.op = "startswith" /\ Like(Prefix, PyText(x), SqlText(v), ci)
  \/ c.op = "endswith" /\ Like(Suffix, PyText(x), SqlText(v), ci)
  \/ kind = "meta" /\ MetaCmp(c.op, v, c.values, ci)
  \/ kind = "column" /\ ColumnCmp(c.op, v, c.values)

\* Mutated SqlNot: the negation of what is under it.
SqlNotPushed(c, doc, ci) == c.node = "cmp" => ~SqlCmp(c, doc, ci)

\* Nothing under a NOT is negated, but for the two cases written directly: both
\* EXISTS and NOT EXISTS as the emptiness of the value, and NOT CONTAINS.
SqlNot(c, doc, ci) ==
  c.node = "cmp" =>
    /\ c.op \in {"exists", "not_exists"} => SqlCmp([c EXCEPT !.op = "not_exists"], doc, ci)
    /\ c.op = "not_contains" => SqlCmp(c, doc, ci)

\* At a node, with those below it whose clause holds.
SelectNode(n, doc, ci, holding) ==
  \/ n.node = "cmp" /\ SqlCmp(n, doc, ci)
  \/ n.node = "not" /\ SqlNot(n.item, doc, ci)
  \/ n.node = "and" /\ Below(n) \subseteq holding
  \/ n.node = "or" /\ (Below(n) = {} \/ Below(n) \cap holding # {})

-----------------------------------------------------------------------------
(* The part of the language on which the clause can be relied on.          *)

\* A text that Python reads as nothing but a text.
Plain(v) == Is(v, "str") /\ Reading[v[2]] = NaN /\ Moment[v[2]] = NaN

\* Written and stored alike: both numbers, both booleans, or both plain texts.
Alike(v, x) == \/ Is(v, "num") /\ Is(x, "num")
               \/ Is(v, "bool") /\ Is(x, "bool")
               \/ Plain(v) /\ Plain(x)

\* Two texts that Python and the database order alike.
SameOrder(a, b) == /\ (Rank[a] < Rank[b]) <=> (Collation[a] < Collation[b])
                   /\ (Rank[b] < Rank[a]) <=> (Collation[b] < Collation[a])

\* The texts LIKE is about, which Python and the database fold alike.
TextsIn(v) == IF Is(v, "list") THEN {SqlText(v[2][i]) : i \in DOMAIN v[2]}
              ELSE {SqlText(v)}
SameFold(v, x, ci) ==
  ci => \A s \in TextsIn(v) \cup {PyText(x)} : SqlLower[s] = Lower[s]

\* A literal a value can be compared with: one written alike, and not the empty
\* text where the answer is a negation; folding spares numbers alone.  For an
\* order of texts, or a search in them, Python and the database have to agree on
\* the two at hand.
SafeLiteral(op, v, x, kind, ci) ==
  /\ op \in {"contains", "not_contains", "startswith", "endswith"} => SameFold(v, x, ci)
  /\ op \in Orders /\ Plain(v) /\ Plain(x) => SameOrder(v[2], x[2])
  /\ op = "contains" =>
       /\ Plain(x) /\ ~Is(v, "bool")
       /\ Is(v, "list") => \A i \in DOMAIN v[2] : ~Is(v[2][i], "bool")
  /\ op = "not_contains" =>
       /\ Plain(x) /\ SqlText(x) # "" /\ (Nothing(v) \/ Alike(v, x))
       /\ v = Null => ~Like(Inside, PyText(x), "null", ci)
  /\ op \in {"!=", "not_in"} => SqlText(x) # "" /\ (Nothing(v) \/ Alike(v, x))
  /\ op \in Orders \cup {"=", "in"} =>
       /\ kind = "column" => x # Null
       /\ \/ Nothing(v)
          \/ x = Null
          \/ Alike(v, x) /\ (ci => Is(x, "num"))

SafeCmp(c, doc, ci) ==
  LET v == doc[c.field]
      kind == Kind[c.field]
  IN
  /\ c.op = "not_exists" =>
       v # <<"list", << >>>> /\ (v = <<"str", "">> => kind = "meta")
  /\ c.op \in {"startswith", "endswith"} => ~Is(v, "bool") /\ ~Is(v, "list")
  /\ \A i \in DOMAIN c.values : SafeLiteral(c.op, v, c.values[i], kind, ci)

SafeNode(n, doc, ci, safe) ==
  \/ n.node = "cmp" /\ (Kind[n.field] = "unknown" \/ SafeCmp(n, doc, ci))
  \/ /\ n.node = "not"
     /\ n.item.node = "cmp" =>
          /\ n.item.op \notin {"not_exists", "not_contains"}
          /\ n.item.op = "exists" => SafeCmp([n.item EXCEPT !.op = "not_exists"], doc, ci)
  \/ n.node \in {"and", "or"} /\ Below(n) \subseteq safe
=============================================================================
