---------------------------- MODULE Search_proofs ----------------------------
(***************************************************************************)
(* Proofs about the search, for any table, limits, request and any query   *)
(* tree: where the compiled clause can be relied on it selects all that    *)
(* evaluate() accepts; a client that follows has_more over rows nobody     *)
(* writes gets every article once, the total is exact, and a promised page *)
(* is full.                                                                *)
(*                                                                         *)
(* First the language, comparison by comparison and then over trees, by    *)
(* their height.  Then the order: the positions of a finite set of         *)
(* numbers, and what LIMIT makes of them.  Then the pages cut from it.     *)
(***************************************************************************)
EXTENDS FmqSearch, FiniteSetTheorems, NaturalsInduction, WellFoundedInduction, TLAPS

-----------------------------------------------------------------------------
(* Values and literals.                                                    *)

\* A value is of one kind, and its content is of that kind.
LEMMA Kinds ==
  ASSUME NEW v \in Values
  PROVE  /\ \/ v = Missing \/ v = Null
            \/ Is(v, "num") \/ Is(v, "str") \/ Is(v, "bool") \/ Is(v, "list")
         /\ Nothing(v) => ~Is(v, "num") /\ ~Is(v, "str") /\ ~Is(v, "bool") /\ ~Is(v, "list")
         /\ Is(v, "num") => v = <<"num", v[2]>> /\ v[2] \in Numbers
         /\ Is(v, "str") => v = <<"str", v[2]>> /\ v[2] \in Texts
         /\ Is(v, "bool") => v = <<"bool", v[2]>> /\ v[2] \in BOOLEAN
         /\ Is(v, "list") => v = <<"list", v[2]>> /\ v[2] \in Seq(Literals)
<1>1. v \in {Missing, Null} \/ v \in {"num"} \X Numbers \/ v \in {"str"} \X Texts
      \/ v \in {"bool"} \X BOOLEAN \/ v \in {"list"} \X Seq(Literals)
  BY DEF Values, Literals
<1>2. CASE v \in {Missing, Null}
  BY <1>2 DEF Missing, Null, Is
<1>3. CASE v \in {"num"} \X Numbers
  BY <1>3 DEF Missing, Null, Is, Nothing
<1>4. CASE v \in {"str"} \X Texts
  BY <1>4 DEF Missing, Null, Is, Nothing
<1>5. CASE v \in {"bool"} \X BOOLEAN
  BY <1>5 DEF Missing, Null, Is, Nothing
<1>6. CASE v \in {"list"} \X Seq(Literals)
  BY <1>6 DEF Missing, Null, Is, Nothing
<1> QED BY <1>1, <1>2, <1>3, <1>4, <1>5, <1>6

\* A literal is a value, and no list.
LEMMA LiteralKinds ==
  ASSUME NEW x \in Literals
  PROVE  x \in Values /\ ~Is(x, "list") /\ x # Missing
BY DEF Literals, Values, Is, Missing, Null

\* Texts of values are texts.
LEMMA TextsOf ==
  ASSUME NEW v \in Values
  PROVE  /\ PyText(v) \in Texts /\ SqlText(v) \in Texts
         /\ \A ci \in BOOLEAN : Fold(PyText(v), ci) \in Texts
         /\ ~Nothing(v) /\ ~Is(v, "bool") /\ ~Is(v, "list") => SqlText(v) = PyText(v)
<1>1. \A s \in Texts, ci \in BOOLEAN : Fold(s, ci) \in Texts
  BY FmqAssumption DEF Fold
<1>2. Spelled \subseteq Texts
  BY FmqAssumption
<1>3. PyText(v) \in Texts
  <2>1. {"True", "False", "[list]", "None"} \subseteq Texts
    BY <1>2 DEF Spelled
  <2>2. /\ Is(v, "str") => v[2] \in Texts
        /\ Is(v, "num") => Numeral[v[2]] \in Texts
    BY Kinds, FmqAssumption
  <2> QED BY <2>1, <2>2 DEF PyText
<1>4. SqlText(v) \in Texts
  <2>1. {"", "true", "false", "[array]"} \subseteq Texts
    BY <1>2 DEF Spelled
  <2> QED BY <1>3, <2>1 DEF SqlText
<1> QED BY <1>1, <1>3, <1>4 DEF SqlText

\* How a value that reads as nothing but a text is compared with another.
LEMMA PlainCompare ==
  ASSUME NEW v \in Values, NEW x \in Literals, NEW op \in Ops, NEW ci \in BOOLEAN,
         Plain(x), ~Nothing(v)
  PROVE  /\ CompareScalar(v, x, op, ci) <=> OnTexts(op, Fold(PyText(v), ci), Fold(PyText(x), ci))
         /\ PyText(x) = x[2] /\ x[2] \in Texts /\ SqlText(x) = x[2] /\ ~Nothing(x)
<1>1. x \in Values /\ ~Nothing(x) /\ Is(x, "str") /\ x[2] \in Texts
  BY Kinds, LiteralKinds DEF Plain
<1>2. PyText(x) = x[2] /\ SqlText(x) = x[2]
  BY <1>1, Kinds DEF PyText, SqlText
<1>3. Number(x) = NaN /\ DateTime(x) = NaN
  BY <1>1, Kinds DEF Number, DateTime, Plain
<1>4. Null \notin {v, x}
  BY <1>1 DEF Nothing
<1> QED BY <1>1, <1>2, <1>3, <1>4 DEF CompareScalar

\* How values written alike are compared.
LEMMA AlikeCompare ==
  ASSUME NEW v \in Values, NEW x \in Literals, NEW op \in Ops, NEW ci \in BOOLEAN,
         Alike(v, x)
  PROVE  /\ ~Nothing(v) /\ ~Nothing(x)
         /\ Is(v, "num") => /\ Is(x, "num") /\ v = <<"num", v[2]>> /\ x = <<"num", x[2]>>
                            /\ v[2] \in Numbers /\ x[2] \in Numbers
                            /\ CompareScalar(v, x, op, ci) <=> Apply(op, v[2], x[2])
         /\ ~Is(v, "num") => CompareScalar(v, x, op, ci) <=>
                               OnTexts(op, Fold(PyText(v), ci), Fold(PyText(x), ci))
         /\ SqlText(v) = SqlText(x) => v = x
<1>1. x \in Values
  BY LiteralKinds
<1>2. CASE Is(v, "num") /\ Is(x, "num")
  <2>1. /\ ~Nothing(v) /\ ~Nothing(x) /\ v = <<"num", v[2]>> /\ x = <<"num", x[2]>>
        /\ v[2] \in Numbers /\ x[2] \in Numbers
    BY <1>1, <1>2, Kinds
  <2>2. CompareScalar(v, x, op, ci) <=> Apply(op, v[2], x[2])
    <3>1. Number(v) = v[2] /\ Number(x) = x[2] /\ NaN \notin {Number(v), Number(x)}
      <4>1. v[2] # NaN /\ x[2] # NaN
        <5>1. Numbers \subseteq Int /\ NaN \notin Int
          BY FmqAssumption
        <5>2. \A k \in Numbers : k # NaN
          BY <5>1
        <5> QED BY <2>1, <5>2
      <4> QED BY <1>2, <4>1 DEF Number
    <3>2. Null \notin {v, x}
      BY <2>1 DEF Nothing
    <3> QED BY <3>1, <3>2 DEF CompareScalar
  <2>3. SqlText(v) = Numeral[v[2]] /\ SqlText(x) = Numeral[x[2]]
    BY <1>1, <1>2, <2>1, Kinds DEF SqlText, PyText
  <2>4. SqlText(v) = SqlText(x) => v = x
    BY <2>1, <2>3, FmqAssumption
  <2> QED BY <1>2, <2>1, <2>2, <2>4
<1>3. CASE Is(v, "bool") /\ Is(x, "bool")
  <2>1. /\ ~Nothing(v) /\ ~Nothing(x) /\ v = <<"bool", v[2]>> /\ x = <<"bool", x[2]>>
        /\ v[2] \in BOOLEAN /\ x[2] \in BOOLEAN
        /\ ~Is(v, "num") /\ ~Is(v, "str") /\ ~Is(x, "num") /\ ~Is(x, "str")
    BY <1>1, <1>3, Kinds DEF Is
  <2>2. Number(v) = NaN
    BY <2>1 DEF Number
  <2>3. Null \notin {v, x}
    BY <2>1 DEF Nothing
  <2>4. SqlText(v) = SqlText(x) => v = x
    BY <1>3, <2>1 DEF SqlText
  <2> QED BY <2>1, <2>2, <2>3, <2>4 DEF CompareScalar
<1>4. CASE Plain(v) /\ Plain(x)
  <2>1. ~Nothing(v) /\ v = <<"str", v[2]>> /\ ~Is(v, "num") /\ Is(v, "str")
    BY <1>4, Kinds DEF Plain, Is, Nothing, Missing, Null
  <2>2. ~Nothing(x) /\ x = <<"str", x[2]>> /\ SqlText(x) = x[2]
    BY <1>1, <1>4, <2>1, PlainCompare, Kinds DEF Plain
  <2>3. SqlText(v) = v[2]
    BY <2>1, Kinds DEF SqlText, PyText, Is
  <2> QED BY <1>4, <2>1, <2>2, <2>3, PlainCompare
<1> QED BY <1>2, <1>3, <1>4 DEF Alike

-----------------------------------------------------------------------------
(* Comparisons that can be relied on, operator by operator.                *)

\* What a comparison is about.
LEMMA Operands ==
  ASSUME NEW c, IsComparison(c), NEW doc, IsDocument(doc)
  PROVE  /\ c.field \in Fields /\ c.op \in Ops /\ doc[c.field] \in Values
         /\ \A i \in DOMAIN c.values : c.values[i] \in Literals /\ c.values[i] \in Values
         /\ c.op \notin {"exists", "not_exists"} => 1 \in DOMAIN c.values
         /\ c.op \in Orders \cup {"=", "!=", "startswith", "endswith", "matches"} =>
              DOMAIN c.values = {1}
         /\ Kind[c.field] \in {"meta", "column", "unknown"}
         /\ Kind[c.field] = "column" => doc[c.field] = Null \/ Is(doc[c.field], "str")
<1>1. c \in Comparisons
  BY DEF IsComparison
<1>2. c.field \in Fields /\ c.op \in Ops /\ c.values \in Seq(Literals)
  BY <1>1 DEF Comparisons
<1>3. \A i \in DOMAIN c.values : c.values[i] \in Literals /\ c.values[i] \in Values
  BY <1>2, LiteralKinds
<1>4. DOMAIN c.values = 1 .. Len(c.values) /\ Len(c.values) \in Nat
  BY <1>2
<1>5. c.op \notin {"exists", "not_exists"} => 1 \in DOMAIN c.values
  BY <1>2, <1>4 DEF IsComparison
<1>6. c.op \in Orders \cup {"=", "!=", "startswith", "endswith", "matches"} =>
        DOMAIN c.values = {1}
  <2>1. Len(c.values) = 1 => DOMAIN c.values = {1}
    BY <1>4
  <2> QED BY <2>1 DEF IsComparison
<1> QED BY <1>2, <1>3, <1>5, <1>6, FmqAssumption DEF IsDocument

LEMMA SafeExistence ==
  ASSUME NEW c, IsComparison(c), NEW doc, IsDocument(doc), NEW ci \in BOOLEAN,
         c.op \in {"exists", "not_exists"}, Kind[c.field] # "unknown",
         SafeCmp(c, doc, ci), EvalCmp(c, doc, ci)
  PROVE  SqlCmp(c, doc, ci)
<1> DEFINE v == doc[c.field]
<1>1. v \in Values /\ Kind[c.field] \in {"meta", "column"}
      /\ (Kind[c.field] = "column" => v = Null \/ Is(v, "str"))
  BY Operands
<1> HIDE DEF v
<1>2. CASE c.op = "exists"
  <2>1. ~Empty(v)
    BY <1>2 DEF EvalCmp, Orders, v
  <2>2. SqlText(v) # ""
    <3>1. ~Nothing(v)
      BY <2>1 DEF Empty, Nothing
    <3>2. Is(v, "num") => Numeral[v[2]] # ""
      BY <1>1, Kinds, FmqAssumption
    <3>3. Is(v, "str") => v[2] # ""
      BY <1>1, <2>1, Kinds DEF Empty
    <3> QED BY <1>1, <3>1, <3>2, <3>3, Kinds DEF SqlText, PyText, Is
  <2>3. v # Null
    BY <2>1 DEF Empty
  <2> QED BY <1>1, <1>2, <2>2, <2>3 DEF SqlCmp, MetaCmp, ColumnCmp, v
<1>3. CASE c.op = "not_exists"
  <2>1. Empty(v)
    BY <1>3 DEF EvalCmp, Orders, v
  <2>2. v # <<"list", << >>>> /\ (v = <<"str", "">> => Kind[c.field] = "meta")
    BY <1>3 DEF SafeCmp, v
  <2>3. Nothing(v) \/ v = <<"str", "">>
    BY <2>1, <2>2 DEF Empty, Nothing
  <2>4. CASE Nothing(v)
    <3>1. SqlText(v) = "" /\ ~Is(v, "str")
      BY <1>1, <2>4, Kinds DEF SqlText
    <3> QED BY <1>1, <1>3, <3>1 DEF SqlCmp, MetaCmp, ColumnCmp, v
  <2>5. CASE v = <<"str", "">>
    <3>1. Is(v, "str") /\ v[2] = "" /\ ~Nothing(v) /\ ~Is(v, "bool") /\ ~Is(v, "list")
      BY <2>5 DEF Is, Nothing, Missing, Null
    <3>2. SqlText(v) = ""
      BY <3>1 DEF SqlText, PyText
    <3> QED BY <1>1, <1>3, <2>2, <2>5, <3>2 DEF SqlCmp, MetaCmp, v
  <2> QED BY <2>3, <2>4, <2>5
<1> QED BY <1>2, <1>3

\* What Python and the database fold alike of a value and a literal.
LEMMA FoldsAlike ==
  ASSUME NEW v, NEW x, NEW ci \in BOOLEAN, SameFold(v, x, ci)
  PROVE  /\ SqlFold(PyText(x), ci) = Fold(PyText(x), ci)
         /\ ~Is(v, "list") => SqlFold(SqlText(v), ci) = Fold(SqlText(v), ci)
         /\ Is(v, "list") => \A i \in DOMAIN v[2] :
              SqlFold(SqlText(v[2][i]), ci) = Fold(SqlText(v[2][i]), ci)
BY DEF SameFold, TextsIn, SqlFold, Fold

LEMMA SafeContains ==
  ASSUME NEW c, IsComparison(c), NEW doc, IsDocument(doc), NEW ci \in BOOLEAN,
         c.op = "contains", Kind[c.field] # "unknown",
         SafeCmp(c, doc, ci), EvalCmp(c, doc, ci)
  PROVE  SqlCmp(c, doc, ci)
<1> DEFINE v == doc[c.field]
           x == c.values[1]
<1>1. v \in Values /\ x \in Literals /\ x \in Values
  BY Operands
<1>2. /\ Plain(x) /\ ~Is(v, "bool") /\ SameFold(v, x, ci)
      /\ Is(v, "list") => \A i \in DOMAIN v[2] : ~Is(v[2][i], "bool")
  <2>1. SafeLiteral(c.op, v, x, Kind[c.field], ci)
    BY Operands DEF SafeCmp
  <2> QED BY <2>1 DEF SafeLiteral
<1>3. Contains(v, x, ci)
  BY DEF EvalCmp, Orders
<1> SUFFICES LikeJson(x, v, Kind[c.field], ci)
  BY DEF SqlCmp
<1> HIDE DEF v, x
<1>4. CASE Is(v, "list")
  <2>1. PICK i \in DOMAIN v[2] : CompareScalar(v[2][i], x, "=", ci)
    BY <1>3, <1>4 DEF Contains
  <2>2. v[2][i] \in Literals /\ v[2][i] \in Values /\ ~Is(v[2][i], "bool") /\ ~Is(v[2][i], "list")
    BY <1>1, <1>2, <1>4, Kinds, LiteralKinds
  <2> DEFINE u == v[2][i]
  <2> HIDE DEF u
  <2>3. ~Nothing(u)
    <3>1. u # Missing
      BY <2>2, LiteralKinds DEF u
    <3>2. u # Null
      BY <1>1, <1>2, <2>1, Kinds DEF u, CompareScalar, Plain, Nothing
    <3> QED BY <3>1, <3>2 DEF Nothing
  <2>4. Fold(PyText(u), ci) = Fold(PyText(x), ci)
    BY <1>1, <1>2, <2>1, <2>2, <2>3, PlainCompare DEF u, OnTexts, Ops, Orders
  <2>5. SqlText(u) = PyText(u) /\ Fold(PyText(u), ci) \in Texts
    BY <2>2, <2>3, TextsOf DEF u
  <2>6. Like(Inside, PyText(x), SqlText(u), ci)
    <3>1. /\ SqlFold(PyText(x), ci) = Fold(PyText(x), ci)
          /\ SqlFold(SqlText(u), ci) = Fold(SqlText(u), ci)
      BY <1>2, <1>4, FoldsAlike DEF u
    <3> QED BY <2>4, <2>5, <3>1, FmqAssumption DEF Like
  <2> QED BY <1>4, <2>6 DEF LikeJson, u
<1>5. CASE ~Is(v, "list")
  <2>1. ~Nothing(v) /\ CompareScalar(v, x, "contains", ci)
    BY <1>3, <1>5 DEF Contains
  <2>2. <<Fold(PyText(x), ci), Fold(PyText(v), ci)>> \in Inside
    BY <1>1, <1>2, <2>1, PlainCompare DEF OnTexts, Ops, Orders
  <2>3. SqlText(v) = PyText(v) /\ v # Null
    BY <1>1, <1>2, <1>5, <2>1, TextsOf DEF Nothing
  <2>4. /\ SqlFold(PyText(x), ci) = Fold(PyText(x), ci)
        /\ SqlFold(SqlText(v), ci) = Fold(SqlText(v), ci)
    BY <1>2, <1>5, FoldsAlike
  <2> QED BY <1>5, <2>2, <2>3, <2>4 DEF LikeJson, Like
<1> QED BY <1>4, <1>5

LEMMA SafeNotContains ==
  ASSUME NEW c, IsComparison(c), NEW doc, IsDocument(doc), NEW ci \in BOOLEAN,
         c.op = "not_contains", Kind[c.field] # "unknown",
         SafeCmp(c, doc, ci), EvalCmp(c, doc, ci)
  PROVE  SqlCmp(c, doc, ci)
<1> DEFINE v == doc[c.field]
           x == c.values[1]
<1>1. v \in Values /\ x \in Literals /\ x \in Values
  BY Operands
<1>2. /\ Plain(x) /\ SqlText(x) # "" /\ (Nothing(v) \/ Alike(v, x))
      /\ SameFold(v, x, ci)
      /\ v = Null => ~Like(Inside, PyText(x), "null", ci)
  <2>1. SafeLiteral(c.op, v, x, Kind[c.field], ci)
    BY Operands DEF SafeCmp
  <2> QED BY <2>1 DEF SafeLiteral
<1>3. ~Contains(v, x, ci)
  BY DEF EvalCmp, Orders
<1> SUFFICES ~LikeJson(x, v, Kind[c.field], ci)
  BY DEF SqlCmp
<1> HIDE DEF v, x
<1>4. PyText(x) \in Texts /\ PyText(x) # "" /\ Is(x, "str")
  BY <1>1, <1>2, Kinds, TextsOf DEF Plain, SqlText, PyText, Is
<1>5. CASE Nothing(v)
  <2>1. ~Is(v, "list") /\ SqlText(v) = ""
    BY <1>1, <1>5, Kinds DEF SqlText
  <2>2. ~Like(Inside, PyText(x), "", ci)
    <3>1. "" \in Texts /\ SqlFold("", ci) = "" /\ SqlFold(PyText(x), ci) \in Texts
          /\ SqlFold(PyText(x), ci) # ""
      <4>1. Spelled \subseteq Texts /\ \A s \in Texts : (SqlLower[s] = "") <=> (s = "")
        BY FmqAssumption
      <4>2. SqlLower \in [Texts -> Texts]
        BY FmqAssumption
      <4>3. "" \in Texts
        BY <4>1 DEF Spelled
      <4> QED BY <1>4, <4>1, <4>2, <4>3 DEF SqlFold
    <3> QED BY <3>1, FmqAssumption DEF Like
  <2> QED BY <1>2, <1>4, <2>1, <2>2 DEF LikeJson
<1>6. CASE Alike(v, x)
  <2>1. Plain(v) /\ ~Nothing(v) /\ ~Is(v, "list") /\ SqlText(v) = PyText(v)
    BY <1>1, <1>4, <1>6, AlikeCompare, TextsOf, Kinds DEF Alike, Is, Plain
  <2>2. ~CompareScalar(v, x, "contains", ci)
    BY <1>3, <2>1 DEF Contains
  <2>3. <<Fold(PyText(x), ci), Fold(PyText(v), ci)>> \notin Inside
    BY <1>1, <1>2, <2>1, <2>2, PlainCompare DEF OnTexts, Ops
  <2>4. /\ SqlFold(PyText(x), ci) = Fold(PyText(x), ci)
        /\ SqlFold(PyText(v), ci) = Fold(PyText(v), ci)
    BY <1>2, <2>1, FoldsAlike
  <2> QED BY <1>4, <2>1, <2>3, <2>4 DEF LikeJson, Like, Nothing
<1> QED BY <1>2, <1>5, <1>6

LEMMA SafeEnds ==
  ASSUME NEW c, IsComparison(c), NEW doc, IsDocument(doc), NEW ci \in BOOLEAN,
         c.op \in {"startswith", "endswith"}, Kind[c.field] # "unknown",
         SafeCmp(c, doc, ci), EvalCmp(c, doc, ci)
  PROVE  SqlCmp(c, doc, ci)
<1> DEFINE v == doc[c.field]
           x == c.values[1]
<1>1. v \in Values /\ x \in Literals /\ x \in Values
  BY Operands
<1>2. ~Is(v, "bool") /\ ~Is(v, "list") /\ SameFold(v, x, ci)
  <2>1. SafeLiteral(c.op, v, x, Kind[c.field], ci)
    BY Operands DEF SafeCmp
  <2> QED BY <2>1 DEF SafeCmp, SafeLiteral
<1>3. ~Nothing(v) /\ CompareScalar(v, x, c.op, ci)
  BY DEF EvalCmp, Orders
<1>4. SqlText(v) = PyText(v)
  BY <1>1, <1>2, <1>3, TextsOf
<1> SUFFICES /\ c.op = "startswith" => Like(Prefix, PyText(x), PyText(v), ci)
             /\ c.op = "endswith" => Like(Suffix, PyText(x), PyText(v), ci)
  BY <1>4 DEF SqlCmp
<1> HIDE DEF v, x
<1>5. ~Apply(c.op, Number(v), Number(x)) /\ ~Apply(c.op, DateTime(v), DateTime(x))
  BY DEF Apply, Ordered
<1>6. OnTexts(c.op, Fold(PyText(v), ci), Fold(PyText(x), ci))
  BY <1>3, <1>5 DEF CompareScalar
<1>7. /\ SqlFold(PyText(x), ci) = Fold(PyText(x), ci)
      /\ SqlFold(PyText(v), ci) = Fold(PyText(v), ci)
  BY <1>2, <1>4, FoldsAlike DEF v, x
<1> QED BY <1>6, <1>7 DEF OnTexts, Like, Orders

\* Equality of what is alike, and inequality, are those of the values.
LEMMA AlikeEquals ==
  ASSUME NEW v \in Values, NEW x \in Literals, NEW ci \in BOOLEAN, Alike(v, x)
  PROVE  /\ v = x => CompareScalar(v, x, "=", ci) /\ ~CompareScalar(v, x, "!=", ci)
         /\ CompareScalar(v, x, "=", ci) /\ (ci => Is(x, "num")) => v = x
<1>1. {"=", "!="} \subseteq Ops
  BY DEF Ops
<1>2. CASE Is(v, "num")
  <2>1. /\ v = <<"num", v[2]>> /\ x = <<"num", x[2]>>
        /\ CompareScalar(v, x, "=", ci) <=> v[2] = x[2]
        /\ CompareScalar(v, x, "!=", ci) <=> v[2] # x[2]
    BY <1>1, <1>2, AlikeCompare DEF Apply, Ordered
  <2> QED BY <2>1
<1>3. CASE ~Is(v, "num")
  <2>1. /\ CompareScalar(v, x, "=", ci) <=> Fold(PyText(v), ci) = Fold(PyText(x), ci)
        /\ CompareScalar(v, x, "!=", ci) <=> Fold(PyText(v), ci) # Fold(PyText(x), ci)
    <3>1. \A op \in {"=", "!="} : CompareScalar(v, x, op, ci) <=>
                                  OnTexts(op, Fold(PyText(v), ci), Fold(PyText(x), ci))
      BY <1>1, <1>3, AlikeCompare
    <3> QED BY <3>1 DEF OnTexts, Orders
  <2>2. ~Is(x, "num")
    BY <1>3, LiteralKinds, Kinds DEF Alike, Is, Plain
  <2>3. ASSUME ~ci, PyText(v) = PyText(x) PROVE v = x
    <3>1. SqlText(v) = SqlText(x)
      BY <2>3, <1>3, <2>2, LiteralKinds, Kinds DEF Alike, Plain, SqlText, PyText, Is
    <3> QED BY <3>1, <1>1, AlikeCompare
  <2> QED BY <2>1, <2>2, <2>3 DEF Fold
<1> QED BY <1>2, <1>3

LEMMA SafeDiffers ==
  ASSUME NEW c, IsComparison(c), NEW doc, IsDocument(doc), NEW ci \in BOOLEAN,
         c.op \in {"!=", "not_in"}, Kind[c.field] # "unknown",
         SafeCmp(c, doc, ci), EvalCmp(c, doc, ci)
  PROVE  SqlCmp(c, doc, ci)
<1> DEFINE v == doc[c.field]
<1>1. v \in Values /\ Kind[c.field] \in {"meta", "column"}
      /\ (Kind[c.field] = "column" => v = Null \/ Is(v, "str"))
  BY Operands
<1> HIDE DEF v
<1>2. ASSUME NEW i \in DOMAIN c.values
      PROVE  SqlText(v) # SqlText(c.values[i]) /\ v # c.values[i] /\ ~Nothing(c.values[i])
  <2> DEFINE x == c.values[i]
  <2>1. x \in Literals /\ x \in Values
    BY <1>2, Operands
  <2>2. SqlText(x) # "" /\ (Nothing(v) \/ Alike(v, x))
    <3>1. SafeLiteral(c.op, v, x, Kind[c.field], ci)
      BY <1>2 DEF SafeCmp, v
    <3> QED BY <3>1 DEF SafeLiteral
  <2>3. ~Nothing(x)
    BY <2>2 DEF SqlText
  <2>4. CASE Nothing(v)
    BY <2>2, <2>3, <2>4 DEF SqlText
  <2>5. CASE Alike(v, x)
    <3>1. ~Nothing(v)
      BY <1>1, <2>1, <2>5, AlikeCompare DEF Ops
    <3>2. c.op = "!=" => CompareScalar(v, x, "!=", ci)
      <4>1. ASSUME c.op = "!=" PROVE i = 1
        BY <1>2, <4>1, Operands
      <4> QED BY <3>1, <4>1 DEF EvalCmp, Nothing, Orders, v
    <3>3. c.op = "not_in" => ~CompareScalar(v, x, "=", ci)
      BY <1>2, <3>1 DEF EvalCmp, Among, Nothing, Orders, v
    <3>4. v # x
      BY <1>1, <2>1, <2>5, <3>2, <3>3, AlikeEquals
    <3>5. SqlText(v) # SqlText(x)
      BY <1>1, <2>1, <2>5, <3>4, AlikeCompare DEF Ops
    <3> QED BY <2>3, <3>4, <3>5
  <2> QED BY <2>2, <2>4, <2>5
<1>3. CASE Kind[c.field] = "meta"
  BY <1>2, <1>3 DEF SqlCmp, MetaCmp, v
<1>4. CASE Kind[c.field] = "column"
  <2>1. v = Null \/ SqlText(v) = v[2]
    BY <1>1, <1>4, Kinds DEF SqlText, PyText, Is
  <2>2. c.op = "!=" => 1 \in DOMAIN c.values
    BY Operands
  <2> QED BY <1>2, <1>4, <2>1, <2>2 DEF SqlCmp, ColumnCmp, Nothing, v
<1> QED BY <1>1, <1>3, <1>4

LEMMA SafeEquals ==
  ASSUME NEW c, IsComparison(c), NEW doc, IsDocument(doc), NEW ci \in BOOLEAN,
         c.op \in {"=", "in"}, Kind[c.field] # "unknown",
         SafeCmp(c, doc, ci), EvalCmp(c, doc, ci)
  PROVE  SqlCmp(c, doc, ci)
<1> DEFINE v == doc[c.field]
           u == IF v = Missing THEN Null ELSE v
<1>1. v \in Values /\ Kind[c.field] \in {"meta", "column"}
      /\ (Kind[c.field] = "column" => v = Null \/ Is(v, "str"))
  BY Operands
<1>2. PICK i \in DOMAIN c.values : /\ CompareScalar(u, c.values[i], "=", ci)
                                   /\ c.op = "=" => i = 1
  <2>1. CASE c.op = "="
    <3>1. 1 \in DOMAIN c.values
      BY <2>1, Operands
    <3>2. CompareScalar(u, c.values[1], "=", ci)
      BY <2>1 DEF EvalCmp, Orders
    <3> QED BY <3>1, <3>2
  <2>2. CASE c.op = "in"
    BY <2>2 DEF EvalCmp, Among, Orders
  <2> QED BY <2>1, <2>2
<1> DEFINE x == c.values[i]
<1>3. x \in Literals /\ x \in Values
  BY <1>2, Operands
<1>4. /\ Kind[c.field] = "column" => x # Null
      /\ Nothing(v) \/ x = Null \/ (Alike(v, x) /\ (ci => Is(x, "num")))
  <2>1. SafeLiteral(c.op, v, x, Kind[c.field], ci)
    BY <1>2 DEF SafeCmp
  <2> QED BY <2>1 DEF SafeLiteral
<1> HIDE DEF v, x
<1>5. CASE Nothing(v) \/ x = Null
  <2>1. Null \in {u, x} => u = x
    BY <1>2 DEF CompareScalar, x
  <2>2. u = Null /\ x = Null /\ Nothing(v)
    BY <1>5, <2>1 DEF Nothing
  <2>3. SqlText(v) = SqlText(x) /\ Kind[c.field] = "meta"
    BY <1>1, <1>4, <2>2 DEF SqlText, Nothing
  <2> QED BY <1>2, <2>3 DEF SqlCmp, MetaCmp, v, x
<1>6. CASE ~Nothing(v) /\ Alike(v, x) /\ (ci => Is(x, "num"))
  <2>1. v = x
    BY <1>1, <1>2, <1>3, <1>6, AlikeEquals DEF Nothing, x
  <2>2. CASE Kind[c.field] = "meta"
    BY <1>2, <2>1, <2>2 DEF SqlCmp, MetaCmp, v, x
  <2>3. CASE Kind[c.field] = "column"
    <3>1. v # Null /\ SqlText(x) = v[2]
      BY <1>1, <1>6, <2>1, <2>3, Kinds DEF SqlText, PyText, Is, Nothing
    <3> QED BY <1>2, <2>1, <2>3, <3>1 DEF SqlCmp, ColumnCmp, v, x
  <2> QED BY <1>1, <2>2, <2>3
<1> QED BY <1>4, <1>5, <1>6

LEMMA SafeOrders ==
  ASSUME NEW c, IsComparison(c), NEW doc, IsDocument(doc), NEW ci \in BOOLEAN,
         c.op \in Orders, Kind[c.field] # "unknown",
         SafeCmp(c, doc, ci), EvalCmp(c, doc, ci)
  PROVE  SqlCmp(c, doc, ci)
<1> DEFINE v == doc[c.field]
           x == c.values[1]
           op == c.op
<1>1. /\ v \in Values /\ x \in Literals /\ x \in Values /\ Kind[c.field] \in {"meta", "column"}
      /\ 1 \in DOMAIN c.values /\ op \in Ops
      /\ (Kind[c.field] = "column" => v = Null \/ Is(v, "str"))
  <2>1. c.op \notin {"exists", "not_exists"}
    BY DEF Orders
  <2> QED BY <2>1, Operands
<1>2. /\ Nothing(v) \/ x = Null \/ (Alike(v, x) /\ (ci => Is(x, "num")))
      /\ Plain(v) /\ Plain(x) => SameOrder(v[2], x[2])
  <2>1. SafeLiteral(op, v, x, Kind[c.field], ci)
    BY <1>1 DEF SafeCmp
  <2> QED BY <2>1 DEF SafeLiteral
<1>3. v # Missing /\ CompareScalar(v, x, op, ci)
  BY DEF EvalCmp, Orders
<1>4. \/ Kind[c.field] = "meta" /\ JsonOrdered(op, v, x)
      \/ Kind[c.field] = "column" /\ Null \notin {v, x}
           /\ Ordered(op, Collation[v[2]], Collation[x[2]])
      => SqlCmp(c, doc, ci)
  BY DEF SqlCmp, MetaCmp, ColumnCmp
<1>5. op \in Orders
  OBVIOUS
<1> HIDE DEF v, x, op
<1>6. Null \notin {v, x}
  BY <1>3, <1>5 DEF CompareScalar, Orders
<1>7. Alike(v, x) /\ (ci => Is(x, "num")) /\ ~Nothing(v)
  BY <1>2, <1>3, <1>6 DEF Nothing
<1>8. CASE Is(v, "num")
  <2>1. Is(x, "num") /\ x[1] = "num" /\ Apply(op, v[2], x[2])
    BY <1>1, <1>3, <1>7, <1>8, AlikeCompare DEF Is
  <2>2. JsonOrdered(op, v, x)
    BY <1>3, <1>5, <1>8, <2>1 DEF JsonOrdered, Apply, Orders
  <2>3. Kind[c.field] = "meta"
    BY <1>1, <1>6, <1>8 DEF Is
  <2> QED BY <1>4, <2>2, <2>3
<1>9. CASE ~Is(v, "num")
  <2>1. Ordered(op, Rank[PyText(v)], Rank[PyText(x)])
    <3>1. ~ci
      BY <1>7, <1>9, LiteralKinds, Kinds DEF Alike, Is, Plain
    <3>2. OnTexts(op, Fold(PyText(v), ci), Fold(PyText(x), ci))
      BY <1>1, <1>3, <1>7, <1>9, AlikeCompare
    <3> QED BY <1>5, <3>1, <3>2 DEF OnTexts, Fold, Orders
  <2>2. CASE Plain(v) /\ Plain(x)
    <3>1. Is(v, "str") /\ x[1] = "str" /\ PyText(v) = v[2] /\ PyText(x) = x[2]
      BY <2>2 DEF Plain, PyText, Is
    <3>2. Ordered(op, Collation[v[2]], Collation[x[2]])
      <4>1. Ordered(op, Rank[v[2]], Rank[x[2]]) /\ SameOrder(v[2], x[2])
        BY <1>2, <2>1, <2>2, <3>1
      <4>2. /\ Rank[v[2]] \in Int /\ Rank[x[2]] \in Int
            /\ Collation[v[2]] \in Int /\ Collation[x[2]] \in Int
        BY <1>1, <2>2, Kinds, FmqAssumption DEF Plain
      <4> QED BY <4>1, <4>2 DEF SameOrder, Ordered
    <3>3. JsonOrdered(op, v, x)
      BY <1>3, <3>1, <3>2 DEF JsonOrdered, Is
    <3> QED BY <1>1, <1>4, <1>6, <3>2, <3>3
  <2>3. CASE Is(v, "bool") /\ Is(x, "bool")
    <3>1. /\ v[2] \in BOOLEAN /\ x[2] \in BOOLEAN /\ ~Is(v, "str") /\ ~Is(x, "str")
          /\ ~Is(v, "num") /\ ~Is(x, "num")
      BY <1>1, <2>3, Kinds DEF Is
    <3>2. /\ PyText(v) = (IF v[2] THEN "True" ELSE "False")
          /\ PyText(x) = (IF x[2] THEN "True" ELSE "False")
          /\ DateTime(v) = (IF v[2] THEN 1 ELSE 0) /\ DateTime(x) = (IF x[2] THEN 1 ELSE 0)
      BY <2>3, <3>1 DEF PyText, DateTime
    <3>3. Rank["False"] \in Int /\ Rank["True"] \in Int /\ Rank["False"] < Rank["True"]
      <4>1. Spelled \subseteq Texts /\ Rank \in [Texts -> Int] /\ Rank["False"] < Rank["True"]
        BY FmqAssumption
      <4> QED BY <4>1 DEF Spelled
    <3>4. Ordered(op, DateTime(v), DateTime(x))
      BY <2>1, <3>1, <3>2, <3>3 DEF Ordered
    <3>5. JsonOrdered(op, v, x)
      BY <1>3, <2>3, <3>4 DEF JsonOrdered, Is
    <3>6. Kind[c.field] = "meta"
      BY <1>1, <1>6, <3>1
    <3> QED BY <1>4, <3>5, <3>6
  <2> QED BY <1>7, <1>9, <2>2, <2>3 DEF Alike
<1> QED BY <1>8, <1>9

\* A comparison that can be relied on: its clause selects what it accepts.
LEMMA SafeComparison ==
  ASSUME NEW c, IsComparison(c), NEW doc, IsDocument(doc), NEW ci \in BOOLEAN,
         Kind[c.field] = "unknown" \/ SafeCmp(c, doc, ci), EvalCmp(c, doc, ci)
  PROVE  SqlCmp(c, doc, ci)
<1>1. c.op \in Ops
  BY Operands
<1>2. CASE Kind[c.field] = "unknown" \/ c.op = "matches"
  BY <1>2 DEF SqlCmp
<1>3. CASE Kind[c.field] # "unknown" /\ c.op # "matches"
  BY <1>1, <1>3, SafeExistence, SafeContains, SafeNotContains, SafeEnds, SafeDiffers,
     SafeEquals, SafeOrders DEF Ops
<1> QED BY <1>2, <1>3

-----------------------------------------------------------------------------
(* Trees.                                                                  *)

\* Numbers have a smallest one among any of them.
LEMMA Smallest ==
  ASSUME NEW T \in SUBSET Nat, T # {}
  PROVE  \E m \in T : \A k \in T : m <= k
<1>1. PICK m \in T : \A k \in T : <<k, m>> \notin OpToRel(<, Nat)
  BY NatLessThanWellFounded, WFMin
<1>2. \A k \in T : ~(k < m)
  BY <1>1 DEF OpToRel
<1> QED BY <1>2

\* A query that can be relied on: its clause selects what evaluate() accepts.
LEMMA SafeTree ==
  ASSUME NEW doc \in Docs, NEW ci \in BOOLEAN, NEW q \in Trees,
         Safe(q, doc, ci), Matches(q, doc, ci)
  PROVE  Selected(q, doc, ci)
<1> DEFINE Lost == {n \in Trees : Safe(n, doc, ci) /\ Matches(n, doc, ci) /\ ~Selected(n, doc, ci)}
           Heights == {Height(n) : n \in Lost}
<1> SUFFICES ASSUME Lost # {} PROVE FALSE
  OBVIOUS
<1>1. PICK n \in Lost : \A m \in Lost : Height(n) <= Height(m)
  <2>1. \A n \in Lost : Height(n) \in Nat
    BY TreesAssumption
  <2>2. Heights \in SUBSET Nat /\ Heights # {}
    BY <2>1
  <2>3. PICK h \in Heights : \A k \in Heights : h <= k
    BY <2>2, Smallest
  <2> QED BY <2>3
<1>2. n \in Trees /\ Safe(n, doc, ci) /\ Matches(n, doc, ci) /\ ~Selected(n, doc, ci)
  BY <1>1
<1> DEFINE held == {m \in Below(n) : Matches(m, doc, ci)}
           chosen == {m \in Below(n) : Selected(m, doc, ci)}
           sure == {m \in Below(n) : Safe(m, doc, ci)}
<1>3. /\ EvalNode(n, doc, ci, held) /\ ~SelectNode(n, doc, ci, chosen)
      /\ SafeNode(n, doc, ci, sure)
  BY <1>2, WalksAssumption
<1>4. ASSUME NEW m \in Below(n)
      PROVE  m \in Trees /\ (Safe(m, doc, ci) /\ Matches(m, doc, ci) => Selected(m, doc, ci))
  <2>1. m \in Trees /\ Height(m) \in Nat /\ Height(n) \in Nat /\ Height(m) < Height(n)
    BY <1>2, <1>4, TreesAssumption
  <2> QED BY <1>1, <2>1
<1>5. IsDocument(doc)
  BY TreesAssumption
<1>6. CASE n.node = "cmp"
  <2>1. IsComparison(n)
    BY <1>2, <1>6, TreesAssumption
  <2>2. EvalCmp(n, doc, ci) /\ (Kind[n.field] = "unknown" \/ SafeCmp(n, doc, ci))
    BY <1>3, <1>6 DEF EvalNode, SafeNode
  <2>3. SqlCmp(n, doc, ci)
    BY <1>5, <2>1, <2>2, SafeComparison
  <2> QED BY <1>3, <1>6, <2>3 DEF SelectNode
<1>7. CASE n.node = "not"
  <2> DEFINE c == n.item
             bare == [c EXCEPT !.op = "not_exists"]
  <2>1. c \in Trees /\ c \in Below(n)
    BY <1>4, <1>7 DEF Below
  <2>2. ~Matches(c, doc, ci) /\ ~SqlNot(c, doc, ci)
    BY <1>3, <1>7, <2>1 DEF EvalNode, SelectNode
  <2>3. /\ c.node = "cmp"
        /\ c.op \notin {"not_exists", "not_contains"}
        /\ c.op = "exists" => SafeCmp(bare, doc, ci)
    BY <1>3, <1>7, <2>2 DEF SafeNode, SqlNot
  <2>4. c.op = "exists" /\ ~SqlCmp(bare, doc, ci)
    BY <2>2, <2>3 DEF SqlNot
  <2>5. IsComparison(c) /\ ~EvalCmp(c, doc, ci)
    <3>1. ~EvalNode(c, doc, ci, {m \in Below(c) : Matches(m, doc, ci)})
      BY <2>1, <2>2, WalksAssumption
    <3> QED BY <2>1, <2>3, <3>1, TreesAssumption DEF EvalNode
  <2> HIDE DEF c
  <2>6. c \in Comparisons /\ c.values = << >>
    BY <2>4, <2>5 DEF IsComparison
  <2>7. /\ bare \in Comparisons /\ bare.op = "not_exists" /\ bare.field = c.field
        /\ bare.values = << >>
    BY <2>6 DEF Comparisons, Ops
  <2> HIDE DEF bare
  <2>8. IsComparison(bare)
    BY <2>7 DEF IsComparison, Orders
  <2>9. EvalCmp(bare, doc, ci)
    BY <2>4, <2>5, <2>7 DEF EvalCmp
  <2> QED BY <1>5, <2>3, <2>4, <2>8, <2>9, SafeComparison DEF bare
<1>8. sure \cap held \subseteq chosen
  BY <1>4
<1> HIDE DEF held, chosen, sure
<1>9. CASE n.node \in {"and", "or"}
  <2>1. /\ Below(n) \subseteq sure
        /\ n.node = "and" => Below(n) \subseteq held
        /\ n.node = "or" => Below(n) \cap held # {}
    BY <1>3, <1>9 DEF EvalNode, SafeNode
  <2>2. /\ n.node = "and" => ~(Below(n) \subseteq chosen)
        /\ n.node = "or" => Below(n) \cap chosen = {}
    BY <1>3, <1>9 DEF SelectNode
  <2> QED BY <1>8, <1>9, <2>1, <2>2
<1>10. IsComparison(n) => n.node = "cmp"
  BY DEF IsComparison, Comparisons
<1> QED BY <1>2, <1>6, <1>7, <1>9, <1>10, TreesAssumption

-----------------------------------------------------------------------------
(* The order.                                                              *)

\* Each element has a position of its own, in ascending order, and each position
\* an element.
LEMMA Positions ==
  ASSUME NEW S \in SUBSET Int, IsFiniteSet(S)
  PROVE  /\ Cardinality(S) \in Nat
         /\ \A i \in S : Position(S, i) \in 1 .. Cardinality(S)
         /\ \A i, j \in S : i < j => Position(S, i) < Position(S, j)
         /\ \A k \in 1 .. Cardinality(S) : \E i \in S : Position(S, i) = k
<1> DEFINE Upto(i) == {j \in S : j <= i}
<1>1. Cardinality(S) \in Nat
  BY FS_CardinalityType
<1>2. ASSUME NEW i \in S
      PROVE  /\ IsFiniteSet(Upto(i)) /\ Position(S, i) = Cardinality(Upto(i))
             /\ Position(S, i) \in 1 .. Cardinality(S)
  <2>1. IsFiniteSet(Upto(i)) /\ Cardinality(Upto(i)) <= Cardinality(S)
    BY FS_Subset
  <2>2. Cardinality(Upto(i)) \in Nat
    BY <2>1, FS_CardinalityType
  <2>3. i \in Upto(i)
    OBVIOUS
  <2>4. Cardinality(Upto(i)) # 0
    BY <2>1, <2>3, FS_EmptySet
  <2> QED BY <1>1, <2>1, <2>2, <2>4 DEF Position
<1>3. ASSUME NEW i \in S, NEW j \in S, i < j PROVE Position(S, i) < Position(S, j)
  <2>1. Upto(i) \in SUBSET Upto(j) /\ j \in Upto(j) /\ j \notin Upto(i)
    <3>1. i \in Int /\ j \in Int /\ \A k \in S : k <= i => k <= j
      BY <1>3
    <3>2. j <= j /\ ~(j <= i)
      BY <1>3, <3>1
    <3> QED BY <3>1, <3>2
  <2> HIDE DEF Upto
  <2>2. Upto(i) # Upto(j)
    BY <2>1
  <2>3. Cardinality(Upto(i)) <= Cardinality(Upto(j)) /\ Cardinality(Upto(i)) # Cardinality(Upto(j))
    BY <1>2, <2>1, <2>2, FS_Subset
  <2> QED BY <1>1, <1>2, <2>3
<1>4. \A k \in 1 .. Cardinality(S) : \E i \in S : Position(S, i) = k
  <2> DEFINE f == [i \in S |-> Position(S, i)]
             T == 1 .. Cardinality(S)
  <2>1. IsFiniteSet(T) /\ Cardinality(T) = Cardinality(S)
    BY <1>1, FS_Interval
  <2>2. f \in [S -> T]
    BY <1>2
  <2>3. \A i, j \in S : f[i] = f[j] => i = j
    <3> SUFFICES ASSUME NEW i \in S, NEW j \in S, Position(S, i) = Position(S, j), i # j
                 PROVE  FALSE
      OBVIOUS
    <3>1. i < j \/ j < i
      OBVIOUS
    <3>2. Position(S, i) \in Int /\ Position(S, j) \in Int
      <4>1. Position(S, i) \in T /\ Position(S, j) \in T
        BY <1>2
      <4> QED BY <1>1, <4>1
    <3>3. Position(S, i) < Position(S, j) \/ Position(S, j) < Position(S, i)
      BY <1>3, <3>1
    <3> QED BY <3>2, <3>3
  <2> HIDE DEF f, T
  <2>4. f \in Injection(S, T)
    BY <2>2, <2>3 DEF Injection, IsInjective
  <2>5. f \in Surjection(S, T)
    BY <2>1, <2>4, FS_Injection
  <2> QED BY <2>5 DEF Surjection, f, T
<1> QED BY <1>1, <1>2, <1>3, <1>4

LEMMA Ascending ==
  ASSUME NEW S \in SUBSET Int, IsFiniteSet(S)
  PROVE  /\ InOrder(S) \in Seq(S) /\ Len(InOrder(S)) = Cardinality(S)
         /\ Cardinality(S) \in Nat
         /\ \A k \in 1 .. Cardinality(S) : InOrder(S)[k] \in S /\ Position(S, InOrder(S)[k]) = k
         /\ \A a, b \in 1 .. Cardinality(S) : a < b => InOrder(S)[a] < InOrder(S)[b]
         /\ \A i \in S : \E k \in 1 .. Cardinality(S) : InOrder(S)[k] = i
<1>1. \A k \in 1 .. Cardinality(S) : InOrder(S)[k] \in S /\ Position(S, InOrder(S)[k]) = k
  BY Positions DEF InOrder
<1>2. InOrder(S) \in Seq(S) /\ Len(InOrder(S)) = Cardinality(S) /\ Cardinality(S) \in Nat
  <2>1. Cardinality(S) \in Nat
    BY Positions
  <2>2. InOrder(S) \in [1 .. Cardinality(S) -> S]
    BY <1>1 DEF InOrder
  <2> QED BY <2>1, <2>2
<1>3. ASSUME NEW a \in 1 .. Cardinality(S), NEW b \in 1 .. Cardinality(S), a < b
      PROVE  InOrder(S)[a] < InOrder(S)[b]
  <2> DEFINE i == InOrder(S)[a]
             j == InOrder(S)[b]
  <2>1. i \in S /\ j \in S /\ Position(S, i) = a /\ Position(S, j) = b
    BY <1>1
  <2> HIDE DEF i, j
  <2>2. i < j \/ i = j \/ j < i
    BY <2>1
  <2>3. i < j
    BY <1>3, <2>1, <2>2, Positions
  <2> QED BY <2>3 DEF i, j
<1>4. ASSUME NEW i \in S PROVE \E k \in 1 .. Cardinality(S) : InOrder(S)[k] = i
  <2> DEFINE k == Position(S, i)
             j == InOrder(S)[k]
  <2>1. k \in 1 .. Cardinality(S)
    BY Positions
  <2>2. j \in S /\ Position(S, j) = k
    BY <1>1, <2>1
  <2> HIDE DEF j
  <2>3. ~(i < j) /\ ~(j < i)
    BY <2>2, Positions
  <2>4. i = j
    BY <2>2, <2>3
  <2> QED BY <2>1, <2>4 DEF j
<1> QED BY <1>1, <1>2, <1>3, <1>4

\* LIMIT that has not cut off all it could has cut off nothing.
LEMMA Untruncated ==
  ASSUME NEW S \in SUBSET Int, IsFiniteSet(S), NEW n \in Nat,
         Cardinality({i \in S : Position(S, i) <= n}) < n
  PROVE  {i \in S : Position(S, i) <= n} = S
<1> DEFINE C == {i \in S : Position(S, i) <= n}
<1> SUFFICES ASSUME NEW i \in S, i \notin C PROVE FALSE
  OBVIOUS
<1>1. n < Cardinality(S) /\ Cardinality(S) \in Nat
  BY Positions
<1> DEFINE f == [k \in 1 .. n |-> InOrder(S)[k]]
<1>2. \A k \in 1 .. n : f[k] \in C /\ Position(S, f[k]) = k
  <2> SUFFICES ASSUME NEW k \in 1 .. n PROVE InOrder(S)[k] \in C /\ Position(S, InOrder(S)[k]) = k
    OBVIOUS
  <2>1. k \in 1 .. Cardinality(S)
    BY <1>1
  <2> QED BY <2>1, Ascending
<1>3. IsFiniteSet(C) /\ Cardinality(C) \in Nat
  BY FS_Subset, FS_CardinalityType
<1>4. f \in [1 .. n -> C]
  BY <1>2
<1> HIDE DEF f, C
<1>5. f \in Injection(1 .. n, C)
  BY <1>2, <1>4 DEF Injection, IsInjective
<1>6. Cardinality(1 .. n) = n
  BY FS_Interval
<1>7. Cardinality(1 .. n) <= Cardinality(C)
  BY <1>3, <1>5, FS_Injection
<1>8. Cardinality(C) < n
  BY DEF C
<1> QED BY <1>3, <1>6, <1>7, <1>8

-----------------------------------------------------------------------------
(* The invariant.                                                          *)

Chosen == {i \in Candidates : Matches(req.query, db[i].doc, req.ci)}
Skip == (page - 1) * PageSize

\* What is answered was cut from what was matched; that is up to date while nobody
\* writes.
Fetched ==
  pc \in {"tags", "contents", "done"} =>
    /\ Len(items) = Len(Slice(matched))
    /\ \A n \in DOMAIN items : items[n].id = Slice(matched)[n]
    /\ calm => matched = Matched /\ scanned = Cardinality(Candidates)

\* The tags and the content of an item, as far as they have been fetched.
Filled ==
  pc \in {"tags", "contents", "done"} /\ calm =>
    \A n \in DOMAIN items :
      LET row == db[items[n].id]
      IN /\ items[n].id \in Live
         /\ pc # "tags" => items[n].tagged = row.tagged
         /\ req.content =>
              items[n].content = IF row.body THEN "body"
                                 ELSE IF pc = "done" /\ row.chunks THEN "chunks" ELSE "empty"

\* The pages before this one were full, and are what they would be now.
Walk ==
  calm => /\ Len(walked) = Skip /\ Skip <= Len(Matched)
          /\ \A n \in 1 .. Skip : walked[n] = Matched[n]

IInv == TypeOK /\ Fetched /\ Filled /\ Walk

-----------------------------------------------------------------------------
(* Sizes, rows and pages.                                                  *)

LEMMA Sizes ==
  ASSUME TypeOK
  PROVE  /\ PageSize \in Nat \ {0} /\ PageSize <= max_page_size /\ limit \in Nat \ {0}
         /\ page \in Nat \ {0} /\ req.size \in Nat
<1>1. req \in Request /\ page \in Nat \ {0}
  BY MetasSearchAssumption DEF TypeOK
<1>2. req.size \in Nat
  BY <1>1 DEF Request
<1>3. {max_rows, max_page_size, default_page_size} \subseteq Nat \ {0}
  BY MetasSearchAssumption
<1>4. PageSize \in Nat \ {0} /\ PageSize <= max_page_size
  BY <1>2, <1>3 DEF PageSize
<1> QED BY <1>1, <1>2, <1>3, <1>4 DEF limit

\* All that is selected are rows there are; what is matched is that in order.
LEMMA Found ==
  ASSUME TypeOK
  PROVE  /\ Chosen \subseteq Candidates /\ Candidates \subseteq Hits /\ Hits \subseteq Live
         /\ Live \subseteq Ids /\ Ids \subseteq Int /\ Cardinality(Ids) \in Nat
         /\ IsFiniteSet(Hits) /\ IsFiniteSet(Candidates) /\ IsFiniteSet(Chosen)
         /\ Cardinality(Candidates) \in 0 .. Cardinality(Ids)
         /\ Matched \in Seq(Chosen) /\ Matched \in Seq(Ids)
         /\ Len(Matched) = Cardinality(Chosen) /\ Cardinality(Chosen) \in Nat
         /\ \A k \in 1 .. Len(Matched) : Matched[k] \in Chosen
         /\ \A a, b \in 1 .. Len(Matched) : a < b => Matched[a] < Matched[b]
         /\ \A i \in Chosen : \E k \in 1 .. Len(Matched) : Matched[k] = i
<1>1. IsFiniteSet(Ids) /\ Cardinality(Ids) \in Nat /\ Ids \subseteq Int
  BY MetasSearchAssumption, FS_CardinalityType
<1>2. /\ Chosen \subseteq Candidates /\ Candidates \subseteq Hits /\ Hits \subseteq Live
      /\ Live \subseteq Ids
  BY DEF Chosen, Candidates, Hits, Live
<1>3. IsFiniteSet(Hits) /\ IsFiniteSet(Candidates) /\ IsFiniteSet(Chosen)
  <2>1. Hits \in SUBSET Ids /\ Candidates \in SUBSET Ids /\ Chosen \in SUBSET Ids
    BY <1>2
  <2> QED BY <1>1, <2>1, FS_Subset
<1>4. Cardinality(Candidates) \in 0 .. Cardinality(Ids)
  <2>1. Cardinality(Candidates) \in Nat
    BY <1>3, FS_CardinalityType
  <2>2. Candidates \in SUBSET Ids
    BY <1>2
  <2>3. Cardinality(Candidates) <= Cardinality(Ids)
    BY <1>1, <2>2, FS_Subset
  <2> QED BY <1>1, <2>1, <2>3
<1>5. Matched = InOrder(Chosen)
  BY DEF Matched, Chosen
<1>6. Chosen \in SUBSET Int
  BY <1>1, <1>2
<1>7. /\ Matched \in Seq(Chosen) /\ Len(Matched) = Cardinality(Chosen)
      /\ Cardinality(Chosen) \in Nat
      /\ \A k \in 1 .. Len(Matched) : Matched[k] \in Chosen
      /\ \A a, b \in 1 .. Len(Matched) : a < b => Matched[a] < Matched[b]
      /\ \A i \in Chosen : \E k \in 1 .. Len(Matched) : Matched[k] = i
  BY <1>3, <1>5, <1>6, Ascending
<1>8. Matched \in Seq(Ids)
  <2>1. Chosen \subseteq Ids
    BY <1>2
  <2> HIDE DEF Chosen
  <2> QED BY <1>7, <2>1
<1> QED BY <1>1, <1>2, <1>3, <1>4, <1>7, <1>8

\* A page: full as long as there is more.
LEMMA Slices ==
  ASSUME TypeOK, NEW s \in Seq(Ids)
  PROVE  /\ Skip \in Nat /\ page * PageSize = Skip + PageSize
         /\ Slice(s) \in Seq(Ids) /\ Len(Slice(s)) <= PageSize
         /\ Skip <= Len(s) => Len(Slice(s)) = IF Skip + PageSize < Len(s) THEN PageSize
                                              ELSE Len(s) - Skip
         /\ \A n \in 1 .. Len(Slice(s)) : Skip + n \in 1 .. Len(s) /\ Slice(s)[n] = s[Skip + n]
<1>1. PageSize \in Nat \ {0} /\ page \in Nat \ {0}
  BY Sizes
<1>2. Skip \in Nat /\ page * PageSize = Skip + PageSize
  <2>1. ASSUME NEW a \in Nat \ {0}, NEW b \in Nat \ {0}
        PROVE  (a - 1) * b \in Nat /\ a * b = (a - 1) * b + b
    OBVIOUS
  <2> QED BY <1>1, <2>1 DEF Skip
<1> DEFINE stop == IF Skip + PageSize < Len(s) THEN Skip + PageSize ELSE Len(s)
<1>3. stop \in Nat /\ stop <= Len(s) /\ Len(s) \in Nat
  BY <1>1, <1>2
<1>4. Slice(s) = SubSeq(s, Skip + 1, stop)
  BY DEF Slice, Skip
<1>5. CASE stop <= Skip
  <2>1. Slice(s) = << >>
    BY <1>2, <1>3, <1>4, <1>5
  <2> QED BY <1>1, <1>2, <1>3, <1>5, <2>1
<1>6. CASE Skip < stop
  <2>1. /\ Slice(s) \in Seq(Ids) /\ Len(Slice(s)) = stop - Skip
        /\ \A n \in 1 .. stop - Skip : Slice(s)[n] = s[Skip + n]
    BY <1>2, <1>3, <1>4, <1>6
  <2> QED BY <1>1, <1>2, <1>3, <1>6, <2>1
<1> QED BY <1>2, <1>3, <1>5, <1>6

-----------------------------------------------------------------------------
(* The steps.                                                              *)

\* A row there is holds what a row can.
LEMMA LiveRows ==
  ASSUME TypeOK, NEW i \in Live PROVE db[i].tagged \in BOOLEAN
BY MetasSearchAssumption DEF TypeOK, Live, Row

\* As long as neither the rows nor the request change, nor does what is found.
LEMMA SameFound ==
  ASSUME UNCHANGED <<db, req>>
  PROVE  /\ Live' = Live /\ Candidates' = Candidates /\ Chosen' = Chosen /\ Matched' = Matched
         /\ PageSize' = PageSize
<1>1. PageSize' = PageSize
  BY DEF PageSize
<1>2. Live' = Live /\ Hits' = Hits
  BY DEF Hits, Live, Asked
<1>3. Candidates' = Candidates
  BY <1>1, <1>2 DEF Candidates, limit
<1>4. Chosen' = Chosen /\ Matched' = Matched
  BY <1>3 DEF Chosen, Matched
<1> QED BY <1>1, <1>2, <1>3, <1>4

LEMMA SamePage ==
  ASSUME UNCHANGED <<db, req, page>>
  PROVE  Skip' = Skip /\ Slice(matched)' = Slice(matched')
  BY SameFound DEF Skip, Slice

LEMMA InitIInv == Init => IInv
<1> SUFFICES ASSUME Init PROVE IInv
  OBVIOUS
<1>1. TypeOK
  <2>1. Cardinality(Ids) \in Nat
    BY MetasSearchAssumption, FS_CardinalityType
  <2> QED BY <2>1, MetasSearchAssumption DEF Init, TypeOK
<1>2. Fetched /\ Filled
  BY DEF Init, Fetched, Filled
<1>3. Walk
  <2>1. Skip = 0
    BY <1>1, Sizes DEF Init, Skip
  <2>2. Len(walked) = 0
    BY DEF Init
  <2> QED BY <1>1, <2>1, <2>2, Found DEF Walk
<1> QED BY <1>1, <1>2, <1>3 DEF IInv

\* Nothing is known of a request that waits or has ended.
LEMMA AccessKeeps == IInv /\ (Access \/ Fail) => IInv'
<1> SUFFICES ASSUME IInv, Access \/ Fail PROVE IInv'
  OBVIOUS
<1>1. /\ UNCHANGED <<db, req, page, matched, scanned, items, walked, calm, writes>>
      /\ pc' \in {"select", "denied", "error"}
  BY DEF Access, Fail
<1>2. TypeOK' /\ Fetched' /\ Filled'
  BY <1>1 DEF IInv, TypeOK, Fetched, Filled, Nowhere
<1>3. Walk'
  BY <1>1, SameFound, SamePage DEF IInv, Walk
<1> QED BY <1>2, <1>3 DEF IInv

LEMMA FetchCandidatesKeeps == IInv /\ FetchCandidates => IInv'
<1> SUFFICES ASSUME IInv, FetchCandidates PROVE IInv'
  OBVIOUS
<1>1. /\ UNCHANGED <<db, req, page, walked, calm, writes>> /\ TypeOK
      /\ pc' = "tags" /\ matched' = Matched /\ scanned' = Cardinality(Candidates)
  BY DEF FetchCandidates, IInv
<1> DEFINE cut == Slice(Matched)
<1>2. /\ cut \in Seq(Ids) /\ Len(cut) <= PageSize /\ Len(cut) \in Nat
      /\ \A n \in 1 .. Len(cut) : Skip + n \in 1 .. Len(Matched) /\ cut[n] = Matched[Skip + n]
  <2>1. Matched \in Seq(Ids)
    BY <1>1, Found
  <2>2. /\ cut \in Seq(Ids) /\ Len(cut) <= PageSize
        /\ \A n \in 1 .. Len(cut) : Skip + n \in 1 .. Len(Matched) /\ cut[n] = Matched[Skip + n]
    BY <1>1, <2>1, Slices
  <2> HIDE DEF cut
  <2> QED BY <2>2
<1>3. /\ items' = [n \in 1 .. Len(cut) |->
           [id |-> cut[n], tagged |-> FALSE,
            content |-> IF ~req.content THEN "none"
                        ELSE IF db[cut[n]].body THEN "body" ELSE "empty"]]
  <2>1. DOMAIN cut = 1 .. Len(cut)
    BY <1>2
  <2> QED BY <1>1, <2>1 DEF FetchCandidates
<1>4. Slice(matched)' = cut
  BY <1>1, SamePage
<1> HIDE DEF cut
<1>5. \A n \in 1 .. Len(cut) : items'[n] \in Item /\ items'[n].id = cut[n]
  BY <1>2, <1>3 DEF Item
<1>6. items' \in Seq(Item) /\ Len(items') = Len(cut) /\ DOMAIN items' = 1 .. Len(cut)
  <2>1. items' \in [1 .. Len(cut) -> Item]
    BY <1>3, <1>5
  <2> QED BY <1>2, <2>1
<1>7. TypeOK'
  <2>1. Len(items') <= max_page_size
    BY <1>1, <1>2, <1>6, Sizes, MetasSearchAssumption
  <2> QED BY <1>1, <1>6, <2>1, Found DEF TypeOK
<1>8. Fetched'
  BY <1>1, <1>4, <1>5, <1>6, SameFound DEF Fetched
<1>9. Filled'
  <2> SUFFICES ASSUME NEW n \in 1 .. Len(cut)
               PROVE  /\ cut[n] \in Live
                      /\ req.content =>
                           items'[n].content = IF db[cut[n]].body THEN "body" ELSE "empty"
    BY <1>1, <1>5, <1>6, SameFound DEF Filled
  <2>1. cut[n] \in Live
    BY <1>1, <1>2, Found
  <2> QED BY <1>3, <2>1
<1>10. Walk'
  BY <1>1, SameFound, SamePage DEF IInv, Walk
<1> QED BY <1>7, <1>8, <1>9, <1>10 DEF IInv

LEMMA FetchTagsKeeps == IInv /\ FetchTags => IInv'
<1> SUFFICES ASSUME IInv, FetchTags PROVE IInv'
  OBVIOUS
<1>1. /\ UNCHANGED <<db, req, page, matched, scanned, walked, calm, writes>> /\ TypeOK
      /\ pc = "tags" /\ pc' = IF Bare # {} THEN "contents" ELSE "done"
      /\ items' = [n \in DOMAIN items |->
           [items[n] EXCEPT !.tagged = items[n].id \in Live /\ db[items[n].id].tagged]]
  BY DEF FetchTags, IInv
<1>2. items \in Seq(Item) /\ DOMAIN items = 1 .. Len(items) /\ Len(items) \in Nat
  BY <1>1 DEF TypeOK
<1>3. \A n \in DOMAIN items :
        /\ items'[n] \in Item /\ items'[n].id = items[n].id
        /\ items'[n].content = items[n].content
        /\ items'[n].tagged <=> (items[n].id \in Live /\ db[items[n].id].tagged)
  <2> SUFFICES ASSUME NEW n \in DOMAIN items
               PROVE  /\ items'[n] \in Item /\ items'[n].id = items[n].id
                      /\ items'[n].content = items[n].content
                      /\ items'[n].tagged <=> (items[n].id \in Live /\ db[items[n].id].tagged)
    OBVIOUS
  <2>1. items[n] \in Item
    BY <1>2
  <2>2. (items[n].id \in Live /\ db[items[n].id].tagged) \in BOOLEAN
    OBVIOUS
  <2> QED BY <1>1, <2>1, <2>2 DEF Item
<1>4. items' \in Seq(Item) /\ Len(items') = Len(items) /\ DOMAIN items' = DOMAIN items
  <2>1. items' \in [1 .. Len(items) -> Item]
    BY <1>1, <1>2, <1>3
  <2> QED BY <1>2, <2>1
<1>5. TypeOK'
  BY <1>1, <1>4 DEF TypeOK, Nowhere
<1>6. Fetched'
  BY <1>1, <1>3, <1>4, SameFound, SamePage DEF IInv, Fetched
<1>7. Filled'
  <2> SUFFICES ASSUME calm, NEW n \in DOMAIN items
               PROVE  /\ items[n].id \in Live
                      /\ items'[n].tagged = db[items[n].id].tagged
                      /\ req.content => items[n].content =
                           IF db[items[n].id].body THEN "body"
                           ELSE IF pc' = "done" /\ db[items[n].id].chunks THEN "chunks"
                           ELSE "empty"
    BY <1>1, <1>3, <1>4, SameFound DEF Filled
  <2>1. /\ items[n].id \in Live
        /\ req.content =>
             items[n].content = IF db[items[n].id].body THEN "body" ELSE "empty"
    BY <1>1 DEF IInv, Filled
  <2>2. pc' = "done" => items[n].content # "empty"
    BY <1>1 DEF Bare
  <2>3. items'[n].tagged = db[items[n].id].tagged
    <3>1. items'[n].tagged \in BOOLEAN
      BY <1>3 DEF Item
    <3>2. db[items[n].id].tagged \in BOOLEAN
      BY <1>1, <2>1, LiveRows
    <3>3. items'[n].tagged <=> db[items[n].id].tagged
      BY <1>3, <2>1
    <3> QED BY <3>1, <3>2, <3>3, Zenon
  <2> QED BY <2>1, <2>2, <2>3
<1>8. Walk'
  BY <1>1, SameFound, SamePage DEF IInv, Walk
<1> QED BY <1>5, <1>6, <1>7, <1>8 DEF IInv

LEMMA FetchContentsKeeps == IInv /\ FetchContents => IInv'
<1> SUFFICES ASSUME IInv, FetchContents PROVE IInv'
  OBVIOUS
<1>1. /\ UNCHANGED <<db, req, page, matched, scanned, walked, calm, writes>> /\ TypeOK
      /\ pc = "contents" /\ pc' = "done"
      /\ items' = [n \in DOMAIN items |->
           IF n \in Bare /\ items[n].id \in Live /\ db[items[n].id].chunks
           THEN [items[n] EXCEPT !.content = "chunks"] ELSE items[n]]
  BY DEF FetchContents, IInv
<1>2. items \in Seq(Item) /\ DOMAIN items = 1 .. Len(items) /\ Len(items) \in Nat
  BY <1>1 DEF TypeOK
<1>3. \A n \in DOMAIN items :
        /\ items'[n] \in Item /\ items'[n].id = items[n].id
        /\ items'[n].tagged = items[n].tagged
        /\ items'[n].content =
             IF items[n].content = "empty" /\ items[n].id \in Live /\ db[items[n].id].chunks
             THEN "chunks" ELSE items[n].content
  <2> SUFFICES ASSUME NEW n \in DOMAIN items
               PROVE  /\ items'[n] \in Item /\ items'[n].id = items[n].id
                      /\ items'[n].tagged = items[n].tagged
                      /\ items'[n].content =
                           IF items[n].content = "empty" /\ items[n].id \in Live /\ db[items[n].id].chunks
                           THEN "chunks" ELSE items[n].content
    OBVIOUS
  <2>1. items[n] \in Item /\ (n \in Bare <=> items[n].content = "empty")
    BY <1>2 DEF Bare
  <2> QED BY <1>1, <2>1 DEF Item
<1>4. items' \in Seq(Item) /\ Len(items') = Len(items) /\ DOMAIN items' = DOMAIN items
  <2>1. items' \in [1 .. Len(items) -> Item]
    BY <1>1, <1>2, <1>3
  <2> QED BY <1>2, <2>1
<1>5. TypeOK'
  BY <1>1, <1>4 DEF TypeOK, Nowhere
<1>6. Fetched'
  BY <1>1, <1>3, <1>4, SameFound, SamePage DEF IInv, Fetched
<1>7. Filled'
  <2> SUFFICES ASSUME calm, NEW n \in DOMAIN items
               PROVE  /\ items[n].id \in Live
                      /\ items'[n].tagged = db[items[n].id].tagged
                      /\ req.content => items'[n].content =
                           IF db[items[n].id].body THEN "body"
                           ELSE IF db[items[n].id].chunks THEN "chunks" ELSE "empty"
    BY <1>1, <1>3, <1>4, SameFound DEF Filled
  <2>1. /\ items[n].id \in Live /\ items[n].tagged = db[items[n].id].tagged
        /\ req.content =>
             items[n].content = IF db[items[n].id].body THEN "body" ELSE "empty"
    BY <1>1 DEF IInv, Filled
  <2> QED BY <1>3, <2>1
<1>8. Walk'
  BY <1>1, SameFound, SamePage DEF IInv, Walk
<1> QED BY <1>5, <1>6, <1>7, <1>8 DEF IInv

\* With the page that is done, one has seen all there is up to its end.
LEMMA SeenSoFar ==
  ASSUME IInv, pc = "done"
  PROVE  /\ has_more => Len(items) = PageSize
         /\ AllSeen \in Seq(Ids)
         /\ calm => /\ Len(AllSeen) = IF has_more THEN page * PageSize ELSE Len(Matched)
                    /\ Len(AllSeen) <= Len(Matched)
                    /\ \A n \in 1 .. Len(AllSeen) : AllSeen[n] = Matched[n]
<1>1. /\ TypeOK /\ matched \in Seq(Ids) /\ walked \in Seq(Ids) /\ items \in Seq(Item)
      /\ Len(matched) \in Nat /\ Len(walked) \in Nat /\ Len(items) \in Nat
  BY DEF IInv, TypeOK
<1>2. /\ Skip \in Nat /\ page * PageSize = Skip + PageSize /\ PageSize \in Nat \ {0}
      /\ Skip <= Len(matched) =>
           Len(Slice(matched)) = IF Skip + PageSize < Len(matched) THEN PageSize
                                 ELSE Len(matched) - Skip
      /\ \A n \in 1 .. Len(Slice(matched)) : Slice(matched)[n] = matched[Skip + n]
  BY <1>1, Slices, Sizes
<1>3. /\ Len(items) = Len(Slice(matched))
      /\ \A n \in 1 .. Len(items) : items[n].id = Slice(matched)[n] /\ items[n].id \in Ids
      /\ calm => matched = Matched
  <2>1. DOMAIN items = 1 .. Len(items) /\ \A n \in DOMAIN items : items[n] \in Item
    BY <1>1
  <2> QED BY <2>1 DEF IInv, Fetched, Item
<1>4. has_more <=> Skip + PageSize < Len(matched)
  BY <1>2 DEF has_more, total
<1>5. has_more => Len(items) = PageSize
  BY <1>1, <1>2, <1>3, <1>4
<1> DEFINE ids == [n \in DOMAIN items |-> items[n].id]
<1>6. ids \in Seq(Ids) /\ Len(ids) = Len(items) /\ \A n \in 1 .. Len(items) : ids[n] = items[n].id
  <2>1. DOMAIN items = 1 .. Len(items)
    BY <1>1
  <2>2. ids \in [1 .. Len(items) -> Ids]
    BY <1>3, <2>1
  <2> QED BY <1>1, <2>1, <2>2
<1>7. AllSeen = walked \o ids
  BY DEF AllSeen
<1> HIDE DEF ids
<1>8. /\ AllSeen \in Seq(Ids) /\ Len(AllSeen) = Len(walked) + Len(items)
      /\ \A n \in 1 .. Len(walked) : AllSeen[n] = walked[n]
      /\ \A n \in 1 .. Len(AllSeen) : n > Len(walked) => AllSeen[n] = ids[n - Len(walked)]
  <2>1. AllSeen \in Seq(Ids) /\ Len(AllSeen) = Len(walked) + Len(ids)
    <3>1. ASSUME NEW s \in Seq(Ids), NEW t \in Seq(Ids)
          PROVE  s \o t \in Seq(Ids) /\ Len(s \o t) = Len(s) + Len(t)
      OBVIOUS
    <3>2. walked \in Seq(Ids) /\ ids \in Seq(Ids)
      BY <1>1, <1>6
    <3> QED BY <1>7, <3>1, <3>2
  <2>2. \A n \in 1 .. Len(walked) + Len(ids) :
          AllSeen[n] = IF n <= Len(walked) THEN walked[n] ELSE ids[n - Len(walked)]
    BY <1>1, <1>6, <1>7
  <2>3. \A n \in 1 .. Len(walked) : AllSeen[n] = walked[n]
    BY <1>1, <1>6, <2>2
  <2>4. \A n \in 1 .. Len(AllSeen) : n > Len(walked) => AllSeen[n] = ids[n - Len(walked)]
    BY <1>1, <1>6, <2>1, <2>2
  <2> QED BY <1>6, <2>1, <2>3, <2>4
<1>9. ASSUME calm
      PROVE  /\ Len(AllSeen) = IF has_more THEN page * PageSize ELSE Len(Matched)
             /\ Len(AllSeen) <= Len(Matched)
             /\ \A n \in 1 .. Len(AllSeen) : AllSeen[n] = Matched[n]
  <2>1. /\ Len(walked) = Skip /\ Skip <= Len(matched) /\ matched = Matched
        /\ \A n \in 1 .. Skip : walked[n] = Matched[n]
    BY <1>3, <1>9 DEF IInv, Walk
  <2>2. Len(AllSeen) = IF has_more THEN page * PageSize ELSE Len(Matched)
    <3>1. Len(AllSeen) = Skip + Len(items) /\ Len(items) = Len(Slice(matched))
      BY <1>3, <1>8, <2>1
    <3>2. Len(Slice(matched)) = IF has_more THEN PageSize ELSE Len(matched) - Skip
      BY <1>2, <1>4, <2>1
    <3>3. page * PageSize = Skip + PageSize /\ Len(Matched) = Len(matched)
      BY <1>2, <2>1
    <3>4. Skip \in Nat /\ PageSize \in Nat /\ Len(matched) \in Nat
      BY <1>1, <1>2
    <3> HIDE DEF has_more
    <3> QED BY <3>1, <3>2, <3>3, <3>4
  <2>3. ASSUME NEW n \in 1 .. Len(AllSeen) PROVE AllSeen[n] = Matched[n]
    <3>1. CASE n <= Skip
      <4>1. n \in 1 .. Len(walked) /\ n \in 1 .. Skip
        BY <1>2, <1>8, <2>1, <3>1
      <4>2. AllSeen[n] = walked[n]
        BY <1>8, <4>1
      <4> QED BY <2>1, <4>1, <4>2
    <3>2. CASE n > Skip
      <4>1. n - Skip \in 1 .. Len(items) /\ Skip + (n - Skip) = n
        BY <1>1, <1>2, <1>8, <2>1, <3>2
      <4>2. AllSeen[n] = items[n - Skip].id
        BY <1>6, <1>8, <2>1, <3>2, <4>1
      <4>3. items[n - Skip].id = matched[n]
        BY <1>2, <1>3, <4>1
      <4> QED BY <2>1, <4>2, <4>3
    <3> QED BY <1>1, <1>2, <1>8, <3>1, <3>2
  <2>4. Len(AllSeen) <= Len(Matched)
    BY <1>1, <1>2, <1>4, <2>1, <2>2
  <2> QED BY <2>2, <2>3, <2>4
<1> QED BY <1>5, <1>8, <1>9

LEMMA NextPageKeeps == IInv /\ NextPage => IInv'
<1> SUFFICES ASSUME IInv, NextPage PROVE IInv'
  OBVIOUS
<1>1. /\ UNCHANGED <<db, req, matched, scanned, items, calm, writes>> /\ TypeOK
      /\ pc = "done" /\ has_more /\ page < MaxPages /\ page' = page + 1 /\ pc' = "access"
      /\ walked' = AllSeen
  BY DEF NextPage, AllSeen, IInv
<1>2. page' \in 1 .. MaxPages /\ page \in Nat
  BY <1>1, MetasSearchAssumption DEF TypeOK
<1>3. TypeOK'
  BY <1>1, <1>2, SeenSoFar DEF TypeOK
<1>4. Fetched' /\ Filled'
  BY <1>1 DEF Fetched, Filled
<1>5. Walk'
  <2>1. Skip' = page * PageSize
    BY <1>1, <1>2, SameFound, Sizes DEF Skip
  <2> SUFFICES ASSUME calm
               PROVE  /\ Len(AllSeen) = Skip' /\ Skip' <= Len(Matched)
                      /\ \A n \in 1 .. Skip' : AllSeen[n] = Matched[n]
    BY <1>1, SameFound DEF Walk
  <2> QED BY <1>1, <2>1, SeenSoFar
<1> QED BY <1>3, <1>4, <1>5 DEF IInv

LEMMA WriteKeeps == IInv /\ Write => IInv'
<1> SUFFICES ASSUME IInv, Write PROVE IInv'
  OBVIOUS
<1>1. /\ UNCHANGED <<req, page, pc, matched, scanned, items, walked>> /\ TypeOK
      /\ calm' = FALSE /\ writes < MaxWrites /\ writes' = writes + 1
  BY DEF Write, IInv
<1>2. db' \in [Ids -> Rows \cup {None}]
  BY DEF Write, IInv, TypeOK
<1>3. writes' \in 0 .. MaxWrites
  BY <1>1, MetasSearchAssumption DEF TypeOK
<1>4. TypeOK'
  BY <1>1, <1>2, <1>3 DEF TypeOK
<1>5. Fetched'
  <2>1. Slice(matched)' = Slice(matched)
    BY <1>1 DEF Slice, PageSize
  <2> QED BY <1>1, <2>1 DEF IInv, Fetched
<1>6. Filled' /\ Walk'
  BY <1>1 DEF Filled, Walk
<1> QED BY <1>4, <1>5, <1>6 DEF IInv

LEMMA NextIInv == IInv /\ [Next]_vars => IInv'
<1> SUFFICES ASSUME IInv, [Next]_vars PROVE IInv'
  OBVIOUS
<1>1. CASE UNCHANGED vars
  <2>1. UNCHANGED <<db, req, page, pc, matched, scanned, items, walked, calm, writes>>
    BY <1>1 DEF vars
  <2>2. TypeOK'
    BY <2>1 DEF IInv, TypeOK
  <2>3. Fetched' /\ Filled' /\ Walk'
    BY <2>1, SameFound, SamePage DEF IInv, Fetched, Filled, Walk
  <2> QED BY <2>2, <2>3 DEF IInv
<1> QED BY <1>1, AccessKeeps, FetchCandidatesKeeps, FetchTagsKeeps, FetchContentsKeeps,
           NextPageKeeps, WriteKeeps DEF Next

LEMMA AlwaysIInv == Spec => []IInv
<1> QED BY InitIInv, NextIInv, PTL DEF Spec

-----------------------------------------------------------------------------
(* What follows.                                                           *)

\* Types, and no page larger than the largest allowed.
THEOREM TypeCorrect == Spec => []TypeOK
<1>1. IInv => TypeOK
  BY DEF IInv
<1> QED BY <1>1, AlwaysIInv, PTL

\* Unless max_rows candidates were fetched, all the rows there are were candidates.
LEMMA AllChosen ==
  ASSUME IInv, pc = "done", calm
  PROVE  /\ Chosen \subseteq Wanted
         /\ NothingFilteredEarly /\ ~truncated => Chosen = Wanted
<1>1. TypeOK /\ scanned = Cardinality(Candidates)
  BY DEF IInv, Fetched
<1>2. Chosen \subseteq Wanted
  BY DEF Chosen, Candidates, Hits, Wanted
<1>3. ASSUME NothingFilteredEarly, ~truncated PROVE Wanted \subseteq Chosen
  <2>1. /\ Hits \in SUBSET Int /\ IsFiniteSet(Hits) /\ limit \in Nat
        /\ Cardinality(Candidates) < limit
    BY <1>1, <1>3, Found, Sizes DEF truncated
  <2>2. Candidates = {i \in Hits : Position(Hits, i) <= limit}
    BY DEF Candidates
  <2>3. Candidates = Hits
    BY <2>1, <2>2, Untruncated
  <2> QED BY <1>3, <2>3 DEF NothingFilteredEarly, Wanted, Hits, Chosen
<1> QED BY <1>2, <1>3

\* The total is the number of articles there are, unless max_rows candidates were
\* fetched or the clause lost some; a page that promises another is full.
THEOREM ExactTotal == Spec => []TotalIsExact
<1>1. IInv => TotalIsExact
  <2> SUFFICES ASSUME IInv, pc = "done"
               PROVE  /\ calm /\ NothingFilteredEarly /\ ~truncated => total = Cardinality(Wanted)
                      /\ has_more => Len(items) = PageSize
    BY DEF TotalIsExact
  <2>1. ASSUME calm, NothingFilteredEarly, ~truncated PROVE total = Cardinality(Wanted)
    <3>1. matched = Matched /\ TypeOK
      BY <2>1 DEF IInv, Fetched
    <3> QED BY <2>1, <3>1, AllChosen, Found DEF total
  <2> QED BY <2>1, SeenSoFar
<1> QED BY <1>1, AlwaysIInv, PTL

\* A client that follows has_more to the end is given every article once, in order.
THEOREM WalkIsComplete == Spec => []WalkSeesAll
<1>1. IInv => WalkSeesAll
  <2> SUFFICES ASSUME IInv, pc = "done", calm, ~has_more
               PROVE  /\ \A a, b \in DOMAIN AllSeen : a < b => AllSeen[a] < AllSeen[b]
                      /\ \A a \in DOMAIN AllSeen : AllSeen[a] \in Wanted
                      /\ NothingFilteredEarly /\ ~truncated =>
                           \A i \in Wanted : \E a \in DOMAIN AllSeen : AllSeen[a] = i
    BY DEF WalkSeesAll
  <2>1. /\ DOMAIN AllSeen = 1 .. Len(Matched)
        /\ \A n \in 1 .. Len(Matched) : AllSeen[n] = Matched[n]
    BY SeenSoFar
  <2>2. TypeOK
    BY DEF IInv
  <2>3. \A a, b \in DOMAIN AllSeen : a < b => AllSeen[a] < AllSeen[b]
    BY <2>1, <2>2, Found
  <2>4. \A a \in DOMAIN AllSeen : AllSeen[a] \in Wanted
    BY <2>1, <2>2, Found, AllChosen
  <2>5. ASSUME NothingFilteredEarly, ~truncated, NEW i \in Wanted
        PROVE  \E a \in DOMAIN AllSeen : AllSeen[a] = i
    <3>1. i \in Chosen
      BY <2>5, AllChosen
    <3> QED BY <2>1, <2>2, <3>1, Found
  <2> QED BY <2>3, <2>4, <2>5
<1> QED BY <1>1, AlwaysIInv, PTL

\* An item has its own tags; its content is its body, else that of its chunks,
\* else nothing.
THEOREM ItemsAreFilled == Spec => []ItemsFilledIn
<1>1. IInv => ItemsFilledIn
  BY DEF IInv, Filled, ItemsFilledIn
<1> QED BY <1>1, AlwaysIInv, PTL

\* Where the clause can be relied on it selects all that evaluate() accepts, for
\* any query tree over any rows.
THEOREM ClauseIsSuperset == Spec => []SafeIsSuperset
<1>1. IInv => SafeIsSuperset
  <2> SUFFICES ASSUME IInv, NEW i \in Wanted, Safe(req.query, db[i].doc, req.ci)
               PROVE  Selected(req.query, db[i].doc, req.ci)
    BY DEF SafeIsSuperset
  <2>1. req \in Requests /\ req.ci \in BOOLEAN /\ req.query \in Trees
    BY MetasSearchAssumption, TreesAssumption DEF IInv, TypeOK, Request
  <2>2. db[i].doc \in Docs /\ Matches(req.query, db[i].doc, req.ci)
    BY DEF IInv, TypeOK, Wanted, Live, Docs
  <2> QED BY <2>1, <2>2, SafeTree
<1> QED BY <1>1, AlwaysIInv, PTL

\* A client that asks only what the clause can be relied on for, and whose total
\* is not cut by max_rows, is told the exact total and given every article.
THEOREM SafeSearchIsComplete == Spec => []SafeSearchComplete
<1>1. IInv /\ SafeIsSuperset /\ TotalIsExact /\ WalkSeesAll => SafeSearchComplete
  BY DEF SafeSearchComplete, SafeIsSuperset, NothingFilteredEarly, TotalIsExact, WalkSeesAll
<1> QED BY <1>1, AlwaysIInv, ClauseIsSuperset, ExactTotal, WalkIsComplete, PTL
=============================================================================
