------------------------- MODULE ApiKeyCache_proofs -------------------------
(***************************************************************************)
(* Proofs of the safety properties of ApiKeyCache, for any number of       *)
(* requests and keys, any lifetimes, any bound of the cache and GETs of    *)
(* any length.                                                             *)
(***************************************************************************)
EXTENDS ApiKeyCache, FiniteSetTheorems, TLAPS

\* What WeKnora has answered to a GET, it has answered since that was sent.
Waiting ==
  \A r \in Requests :
    /\ asked[r] <= now
    /\ pc[r] # "asking" => heard[r] = "none"
    /\ heard[r] # "none" => asked[r] <= last[key[r]][heard[r]]

LastPast == \A k \in ApiKeys : \A a \in Answers : last[k][a] <= now

IInv == /\ TypeOK /\ Waiting /\ LastPast /\ EntriesAreAnswers
        /\ IsFiniteSet(Cached) /\ CacheBounded

LEMMA TTLType ==
  ASSUME NEW a \in Answers
  PROVE  TTL(a) \in Nat \ {0} /\ TTL(a) = Lifetime[a]
  BY ApiKeyCacheAssumption DEF TTL, Lifetime

LEMMA OutcomeType ==
  ASSUME NEW a \in Answers PROVE Outcome(a) \in {"admitted", "401", "502"}
  BY DEF Answers, Outcome

\* A full cache is dropped before an answer is entered: there is room for one.
LEMMA StoreBounded ==
  ASSUME IInv, NEW k \in ApiKeys, NEW e \in Nat, NEW a \in Answers,
         cache' = [Kept EXCEPT ![k] = [expires |-> e, ans |-> a]]
  PROVE  IsFiniteSet(Cached)' /\ CacheBounded'
<1> DEFINE kept == {q \in ApiKeys : Kept[q].ans # "none"}
<1>a. Cardinality(Cached) > CACHE_MAX => kept = {}
  BY DEF Kept, NoEntry
<1>b. ~(Cardinality(Cached) > CACHE_MAX) => kept = Cached
  BY DEF Kept, Cached
<1>1. IsFiniteSet(kept) /\ Cardinality(kept) \in Nat /\ Cardinality(kept) <= CACHE_MAX
  <2> HIDE DEF kept
  <2>1. IsFiniteSet(Cached) /\ Cardinality(Cached) \in Nat
    BY FS_CardinalityType DEF IInv
  <2>2. IsFiniteSet({}) /\ Cardinality({}) = 0
    BY FS_EmptySet
  <2> QED BY <1>a, <1>b, <2>1, <2>2, ApiKeyCacheAssumption
<1>2. Kept \in [ApiKeys -> [expires: Nat, ans: Answers \cup {"none"}]]
  BY DEF IInv, TypeOK, Kept, NoEntry
<1>3. Cached' = kept \cup {k}
  BY <1>2 DEF Cached, Answers
<1>4. IsFiniteSet(kept \cup {k})
      /\ Cardinality(kept \cup {k}) \in Nat
      /\ Cardinality(kept \cup {k}) <= Cardinality(kept) + 1
  <2> HIDE DEF kept
  <2>1. IsFiniteSet(kept \cup {k})
        /\ Cardinality(kept \cup {k}) =
             IF k \in kept THEN Cardinality(kept) ELSE Cardinality(kept) + 1
    BY <1>1, FS_AddElement, Zenon
  <2> QED BY <1>1, <2>1
<1> HIDE DEF kept
<1> QED BY <1>1, <1>3, <1>4, ApiKeyCacheAssumption DEF CacheBounded

\* The end of a GET: its answer, given since it was sent, is entered.
LEMMA StoreKeeps ==
  ASSUME IInv, NEW r \in Requests, NEW a \in Answers, pc[r] = "asking",
         Store(r, a), UNCHANGED <<now, key>>,
         last' \in [ApiKeys -> [Answers -> {-1} \cup 0 .. MaxTime]],
         \A k \in ApiKeys : \A b \in Answers :
            last[k][b] <= last'[k][b] /\ last'[k][b] <= now,
         asked[r] <= last'[key[r]][a]
  PROVE  IInv'
<1> USE DEF IInv, TypeOK
<1>1. TTL(a) \in Nat /\ asked[r] \in Nat /\ asked[r] + TTL(a) \in Nat
  BY TTLType, ApiKeyCacheAssumption
<1>2. Kept \in [ApiKeys -> [expires: Nat, ans: Answers \cup {"none"}]]
  BY DEF Kept, NoEntry
<1>3. cache' \in [ApiKeys -> [expires: Nat, ans: Answers \cup {"none"}]]
  BY <1>1, <1>2 DEF Store
<1>4. TypeOK'
  <2>1. outcome' \in [Requests -> {"none", "admitted", "401", "502"}]
    BY OutcomeType DEF Store, Decide
  <2>2. pc' \in [Requests -> {"idle", "asking", "done"}]
        /\ asked' \in [Requests -> 0 .. MaxTime]
        /\ heard' \in [Requests -> Answers \cup {"none"}]
    BY ApiKeyCacheAssumption DEF Store, Decide
  <2> QED BY <1>3, <2>1, <2>2
<1>5. Waiting'
  <2> SUFFICES ASSUME NEW q \in Requests
               PROVE  /\ asked'[q] <= now
                      /\ pc'[q] # "asking" => heard'[q] = "none"
                      /\ heard'[q] # "none" => asked'[q] <= last'[key[q]][heard'[q]]
    BY DEF Waiting
  <2>1. CASE q = r
    BY <2>1, ApiKeyCacheAssumption DEF Store, Decide
  <2>2. CASE q # r
    <3>1. pc'[q] = pc[q] /\ asked'[q] = asked[q] /\ heard'[q] = heard[q]
      BY <2>2 DEF Store, Decide
    <3>2. CASE heard[q] = "none"
      BY <3>1, <3>2 DEF Waiting
    <3>3. CASE heard[q] # "none"
      <4>1. heard[q] \in Answers /\ key[q] \in ApiKeys
        BY <3>3
      <4>2. last[key[q]][heard[q]] \in Int /\ last'[key[q]][heard[q]] \in Int
        BY <4>1, ApiKeyCacheAssumption
      <4>3. last[key[q]][heard[q]] <= last'[key[q]][heard[q]]
        BY <4>1
      <4>4. asked[q] \in Int /\ asked[q] <= last[key[q]][heard[q]]
        BY <3>3, ApiKeyCacheAssumption DEF Waiting
      <4> QED BY <3>1, <4>2, <4>3, <4>4 DEF Waiting
    <3> QED BY <3>2, <3>3
  <2> QED BY <2>1, <2>2
<1>6. LastPast'
  BY DEF LastPast
<1>7. EntriesAreAnswers'
  <2> SUFFICES ASSUME NEW k \in ApiKeys, cache'[k].ans # "none"
               PROVE  /\ last'[k][cache'[k].ans] # -1
                      /\ cache'[k].expires
                           <= last'[k][cache'[k].ans] + TTL(cache'[k].ans)
    BY DEF EntriesAreAnswers, TTL
  <2>1. CASE k = key[r]
    <3>1. cache'[k] = [expires |-> asked[r] + TTL(a), ans |-> a]
      BY <1>2, <2>1 DEF Store
    <3> QED BY <1>1, <2>1, <3>1, ApiKeyCacheAssumption
  <2>2. CASE k # key[r]
    <3>1. cache'[k] = cache[k] /\ cache[k].ans \in Answers
      BY <1>2, <2>2 DEF Store, Kept, NoEntry
    <3>2. last[k][cache[k].ans] # -1
          /\ cache[k].expires <= last[k][cache[k].ans] + TTL(cache[k].ans)
      BY <3>1 DEF EntriesAreAnswers
    <3>3. TTL(cache[k].ans) \in Nat
      BY <3>1, TTLType
    <3>4. last[k][cache[k].ans] \in Int /\ last'[k][cache[k].ans] \in Int
          /\ last[k][cache[k].ans] <= last'[k][cache[k].ans]
          /\ last[k][cache[k].ans] >= -1
      BY <3>1, ApiKeyCacheAssumption
    <3>5. cache[k].expires \in Nat
      OBVIOUS
    <3> HIDE DEF IInv, TypeOK
    <3> QED BY <3>1, <3>2, <3>3, <3>4, <3>5
  <2> QED BY <2>1, <2>2
<1>8. IsFiniteSet(Cached)' /\ CacheBounded'
  BY <1>1, StoreBounded DEF Store
<1> QED BY <1>4, <1>5, <1>6, <1>7, <1>8

LEMMA InitIInv == Init => IInv
<1> SUFFICES ASSUME Init PROVE IInv
  OBVIOUS
<1>1. Cached = {}
  BY DEF Init, Cached, NoEntry
<1>2. IsFiniteSet(Cached) /\ Cardinality(Cached) = 0
  BY <1>1, FS_EmptySet
<1>3. TypeOK
  BY ApiKeyCacheAssumption DEF Init, TypeOK, NoEntry
<1>4. Waiting /\ LastPast
  BY ApiKeyCacheAssumption DEF Init, Waiting, LastPast
<1> QED BY <1>2, <1>3, <1>4, ApiKeyCacheAssumption
  DEF IInv, CacheBounded, EntriesAreAnswers, Init, NoEntry

LEMMA NextIInv == IInv /\ [Next]_vars => IInv'
<1> SUFFICES ASSUME IInv, [Next]_vars PROVE IInv'
  OBVIOUS
<1> USE ApiKeyCacheAssumption
<1>1. ASSUME NEW r \in Requests, Hit(r) PROVE IInv'
  <2>1. cache[key[r]].ans \in Answers
    BY <1>1 DEF Hit, Usable, IInv, TypeOK
  <2>2. TypeOK'
    BY <1>1, <2>1, OutcomeType DEF Hit, Decide, IInv, TypeOK
  <2>3. Waiting'
    BY <1>1 DEF Hit, Decide, IInv, TypeOK, Waiting
  <2> QED BY <1>1, <2>2, <2>3
    DEF Hit, IInv, LastPast, EntriesAreAnswers, Cached, CacheBounded
<1>2. ASSUME NEW r \in Requests, Ask(r) PROVE IInv'
  <2>1. TypeOK' /\ Waiting'
    BY <1>2 DEF Ask, IInv, TypeOK, Waiting
  <2> QED BY <1>2, <2>1
    DEF Ask, IInv, LastPast, EntriesAreAnswers, Cached, CacheBounded
<1>3. ASSUME NEW r \in Requests, Conclude(r) PROVE IInv'
  <2>1. heard[r] \in Answers /\ pc[r] = "asking" /\ Store(r, heard[r])
        /\ UNCHANGED <<now, key, last>> /\ asked[r] <= last[key[r]][heard[r]]
    BY <1>3 DEF Conclude, IInv, TypeOK, Waiting
  <2>2. last' \in [ApiKeys -> [Answers -> {-1} \cup 0 .. MaxTime]]
        /\ \A k \in ApiKeys : \A b \in Answers :
              last[k][b] <= last'[k][b] /\ last'[k][b] <= now
    BY <2>1 DEF IInv, TypeOK, LastPast
  <2> QED BY <2>1, <2>2, StoreKeeps
<1>4. ASSUME NEW r \in Requests, GiveUp(r) PROVE IInv'
  <2>1. "unreachable" \in Answers /\ pc[r] = "asking" /\ Store(r, "unreachable")
        /\ UNCHANGED <<now, key>>
    BY <1>4 DEF GiveUp, Answers
  <2>2. now \in 0 .. MaxTime /\ key[r] \in ApiKeys
        /\ last \in [ApiKeys -> [Answers -> {-1} \cup 0 .. MaxTime]]
        /\ last' = [last EXCEPT ![key[r]]["unreachable"] = now]
        /\ asked[r] <= now
    BY <1>4 DEF GiveUp, IInv, TypeOK, Waiting
  <2>3. last' \in [ApiKeys -> [Answers -> {-1} \cup 0 .. MaxTime]]
        /\ last'[key[r]]["unreachable"] = now
    BY <2>1, <2>2
  <2>4. ASSUME NEW k \in ApiKeys, NEW b \in Answers
        PROVE  last[k][b] <= last'[k][b] /\ last'[k][b] <= now
    <3>1. last[k][b] \in Int /\ last[k][b] <= now /\ now \in Int
      BY <2>2 DEF IInv, LastPast
    <3>2. last'[k][b] \in {last[k][b], now}
      BY <2>1, <2>2
    <3> QED BY <3>1, <3>2
  <2> QED BY <2>1, <2>2, <2>3, <2>4, StoreKeeps
<1>5. ASSUME NEW r \in Requests, Reply(r) PROVE IInv'
  <2> PICK a \in Answers : /\ heard' = [heard EXCEPT ![r] = a]
                           /\ last' = [last EXCEPT ![key[r]][a] = now]
    BY <1>5 DEF Reply
  <2>1. TypeOK' /\ LastPast'
    BY <1>5 DEF Reply, IInv, TypeOK, LastPast
  <2>2. \A k \in ApiKeys : \A b \in Answers :
           last[k][b] <= last'[k][b] /\ last[k][b] \in Int /\ last'[k][b] \in Int
           /\ (last[k][b] # -1 => last'[k][b] # -1)
    BY DEF IInv, TypeOK, LastPast
  <2>3. Waiting'
    BY <1>5, <2>2 DEF Reply, IInv, TypeOK, Waiting, Answers
  <2>4. EntriesAreAnswers'
    BY <1>5, <2>2, TTLType DEF Reply, IInv, TypeOK, EntriesAreAnswers
  <2> QED BY <1>5, <2>1, <2>3, <2>4 DEF Reply, IInv, Cached, CacheBounded
<1>6. ASSUME NEW r \in Requests, NextRequest(r) PROVE IInv'
  <2>1. TypeOK' /\ Waiting'
    BY <1>6 DEF NextRequest, IInv, TypeOK, Waiting
  <2> QED BY <1>6, <2>1
    DEF NextRequest, IInv, LastPast, EntriesAreAnswers, Cached, CacheBounded
<1>7. CASE Tick
  <2>1. now \in 0 .. MaxTime /\ now' = now + 1 /\ now < MaxTime
        /\ UNCHANGED <<cache, pc, key, asked, heard, outcome, last>>
    BY <1>7 DEF Tick, IInv, TypeOK
  <2>2. now' \in 0 .. MaxTime
    BY <2>1
  <2>3. TypeOK'
    BY <2>1, <2>2 DEF IInv, TypeOK
  <2>4. Waiting'
    <3> SUFFICES ASSUME NEW r \in Requests
                 PROVE  /\ asked[r] <= now'
                        /\ pc[r] # "asking" => heard[r] = "none"
                        /\ heard[r] # "none" => asked[r] <= last[key[r]][heard[r]]
      BY <2>1 DEF Waiting
    <3>1. asked[r] \in Int /\ asked[r] <= now
      BY DEF IInv, TypeOK, Waiting
    <3> QED BY <2>1, <3>1 DEF IInv, Waiting
  <2>5. LastPast'
    <3> SUFFICES ASSUME NEW k \in ApiKeys, NEW b \in Answers
                 PROVE  last[k][b] <= now'
      BY <2>1 DEF LastPast
    <3>1. last[k][b] \in Int /\ last[k][b] <= now
      BY DEF IInv, TypeOK, LastPast
    <3> QED BY <2>1, <3>1
  <2> QED BY <1>7, <2>3, <2>4, <2>5 DEF Tick, IInv, EntriesAreAnswers, Cached, CacheBounded
<1>8. CASE UNCHANGED vars
  BY <1>8 DEF vars, IInv, TypeOK, Waiting, LastPast, EntriesAreAnswers, Cached,
              CacheBounded
<1> QED BY <1>1, <1>2, <1>3, <1>4, <1>5, <1>6, <1>7, <1>8 DEF Next, Validate

LEMMA AlwaysIInv == Spec => []IInv
  BY InitIInv, NextIInv, PTL DEF Spec

\* The variables keep their types: an outcome is always one of the three
\* verify_v2 can give.
THEOREM TypeCorrect == Spec => []TypeOK
<1>1. IInv => TypeOK
  BY DEF IInv
<1> QED BY <1>1, AlwaysIInv, PTL

\* Each entry of _api_key_cache is an answer given since its lookup, and
\* expires within the lifetime of that answer.
THEOREM EntriesAlwaysAnswers == Spec => []EntriesAreAnswers
<1>1. IInv => EntriesAreAnswers
  BY DEF IInv
<1> QED BY <1>1, AlwaysIInv, PTL

\* _api_key_cache holds at most one entry beyond its maximum.
THEOREM CacheStaysBounded == Spec => []CacheBounded
<1>1. IInv => CacheBounded
  BY DEF IInv
<1> QED BY <1>1, AlwaysIInv, PTL

\* validate_api_key and verify_v2 decide on what WeKnora says to the request
\* itself, or on nothing as old as its lifetime, in whatever order and however
\* late the GETs of concurrent requests end.
THEOREM DecisionsStayRecent == Spec => DecisionsAreRecent
<1> DEFINE Recent == \A r \in Requests : Decided(r) =>
             \E a \in Answers : /\ Outcome(a) = outcome'[r]
                                /\ last'[key[r]][a] # -1
                                /\ Own(r, a) \/ Fresh(r, a)
<1>1. IInv /\ [Next]_vars => [Recent]_vars
  <2> SUFFICES ASSUME IInv, Next, NEW r \in Requests, Decided(r)
               PROVE  \E a \in Answers : /\ Outcome(a) = outcome'[r]
                                         /\ last'[key[r]][a] # -1
                                         /\ Own(r, a) \/ Fresh(r, a)
    OBVIOUS
  <2> USE ApiKeyCacheAssumption
  <2>1. CASE Hit(r)
    <3> DEFINE a == cache[key[r]].ans
    <3>1. a \in Answers /\ Outcome(a) = outcome'[r] /\ last' = last
          /\ cache[key[r]].expires > now /\ key[r] \in ApiKeys
      BY <2>1 DEF Hit, Usable, Decide, IInv, TypeOK
    <3>2. last[key[r]][a] # -1 /\ cache[key[r]].expires <= last[key[r]][a] + TTL(a)
      BY <3>1 DEF IInv, EntriesAreAnswers, Answers
    <3>3. last[key[r]][a] \in Int /\ TTL(a) \in Nat /\ TTL(a) = Lifetime[a]
          /\ now \in Int /\ cache[key[r]].expires \in Int
      BY <3>1, TTLType DEF IInv, TypeOK
    <3> HIDE DEF a
    <3>4. last'[key[r]][a] # -1 /\ Fresh(r, a)
      BY <3>1, <3>2, <3>3 DEF Fresh
    <3> QED BY <3>1, <3>4
  <2>2. ASSUME NEW a \in Answers, pc[r] = "asking", Store(r, a),
               last'[key[r]][a] \in Int, asked[r] <= last'[key[r]][a]
        PROVE  /\ Outcome(a) = outcome'[r]
               /\ last'[key[r]][a] # -1 /\ Own(r, a)
    <3>1. asked[r] \in Nat
      BY DEF IInv, TypeOK
    <3> QED BY <2>2, <3>1 DEF Own, Store, Decide, IInv, TypeOK
  <2>3. CASE Conclude(r)
    <3>1. heard[r] \in Answers /\ pc[r] = "asking" /\ Store(r, heard[r])
          /\ last' = last /\ key[r] \in ApiKeys
          /\ asked[r] <= last[key[r]][heard[r]]
      BY <2>3 DEF Conclude, IInv, TypeOK, Waiting
    <3>2. last'[key[r]][heard[r]] \in Int
      BY <3>1 DEF IInv, TypeOK
    <3> QED BY <2>2, <3>1, <3>2
  <2>4. CASE GiveUp(r)
    <3>1. "unreachable" \in Answers /\ pc[r] = "asking" /\ Store(r, "unreachable")
          /\ last'[key[r]]["unreachable"] = now
      BY <2>4 DEF GiveUp, Answers, IInv, TypeOK
    <3>2. now \in Int /\ asked[r] <= now
      BY DEF IInv, TypeOK, Waiting
    <3> QED BY <2>2, <3>1, <3>2
  <2>5. Hit(r) \/ Conclude(r) \/ GiveUp(r)
    <3>1. ASSUME NEW q \in Requests, q # r, Hit(q) \/ Conclude(q) \/ GiveUp(q)
          PROVE  outcome'[r] = outcome[r]
      BY <3>1 DEF Hit, Conclude, GiveUp, Store, Decide, IInv, TypeOK
    <3>2. ASSUME NEW q \in Requests, Ask(q) \/ Reply(q)
          PROVE  outcome' = outcome
      BY <3>2 DEF Ask, Reply
    <3>3. ASSUME NEW q \in Requests, NextRequest(q)
          PROVE  outcome'[r] \in {outcome[r], "none"}
      BY <3>3 DEF NextRequest, IInv, TypeOK
    <3>4. Tick => outcome' = outcome
      BY DEF Tick
    <3> QED BY <3>1, <3>2, <3>3, <3>4 DEF Next, Validate, Decided
  <2> QED BY <2>1, <2>3, <2>4, <2>5
<1>2. Spec => [][Recent]_vars
  <2> HIDE DEF Recent
  <2> QED BY <1>1, AlwaysIInv, PTL DEF Spec
<1> QED BY <1>2 DEF DecisionsAreRecent
=============================================================================
