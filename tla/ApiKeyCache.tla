---------------------------- MODULE ApiKeyCache ----------------------------
(***************************************************************************)
(* WeKnoraClient.validate_api_key with its short-lived cache, and the use  *)
(* verify_v2 makes of its verdict.  Requests are coroutines of one event   *)
(* loop: the lookup is one step, the conclusion of the upstream GET        *)
(* another, and any number of validations of one key may be out between    *)
(* them and be answered out of order.  WeKnora grants and revokes keys at  *)
(* any time.  A GET may take any time and be concluded any time after it   *)
(* was answered: httpx bounds each phase of it and each read, not the      *)
(* whole.                                                                  *)
(***************************************************************************)
EXTENDS Integers, FiniteSets

CONSTANTS
  Requests,      \* requests that need their key validated
  ApiKeys,       \* sha256 of the keys callers send
  POSITIVE_TTL, NEGATIVE_TTL, CACHE_MAX,   \* constants of validate_api_key
  MaxTime        \* bound: how long the clock runs

ASSUME ApiKeyCacheAssumption ==
  /\ POSITIVE_TTL \in Nat \ {0} /\ NEGATIVE_TTL \in Nat \ {0}
  /\ CACHE_MAX \in Nat /\ MaxTime \in Nat

\* What WeKnora can be found to say of a key: 2xx, 401 or 403, anything else
\* (another status, a timeout, no connection).
Answers == {"valid", "rejected", "unreachable"}
NoEntry == [expires |-> 0, ans |-> "none"]

VARIABLES
  now,
  cache,    \* _api_key_cache: NoEntry, or until when which answer is good
  pc,       \* "idle", "asking" WeKnora, "done"
  key,      \* the key of the request
  asked,    \* `now' as validate_api_key read it, before its GET
  heard,    \* what WeKnora has answered to the GET: nothing yet, or its answer
  outcome,  \* of verify_v2: none, admitted, 401 or 502
  last      \* history: when each answer was last given for each key, or -1

vars == <<now, cache, pc, key, asked, heard, outcome, last>>

TypeOK ==
  /\ now \in 0 .. MaxTime
  /\ cache \in [ApiKeys -> [expires: Nat, ans: Answers \cup {"none"}]]
  /\ pc \in [Requests -> {"idle", "asking", "done"}]
  /\ key \in [Requests -> ApiKeys]
  /\ asked \in [Requests -> 0 .. MaxTime]
  /\ heard \in [Requests -> Answers \cup {"none"}]
  /\ outcome \in [Requests -> {"none", "admitted", "401", "502"}]
  /\ last \in [ApiKeys -> [Answers -> {-1} \cup 0 .. MaxTime]]

Init ==
  /\ now = 0
  /\ cache = [k \in ApiKeys |-> NoEntry]
  /\ pc = [r \in Requests |-> "idle"]
  /\ key \in [Requests -> ApiKeys]
  /\ asked = [r \in Requests |-> 0]
  /\ heard = [r \in Requests |-> "none"]
  /\ outcome = [r \in Requests |-> "none"]
  /\ last = [k \in ApiKeys |-> [a \in Answers |-> -1]]

-----------------------------------------------------------------------------
\* Mutated Outcome: the verdict of the client is passed through.
OutcomeRaw(ans) == ans

\* verify_v2: a rejected key is the caller's fault, all else is upstream's.
Outcome(ans) ==
  IF ans = "valid" THEN "admitted" ELSE IF ans = "rejected" THEN "401" ELSE "502"

Decide(r, ans) ==      \* and its coroutine ends, with its locals
  /\ pc' = [pc EXCEPT ![r] = "done"]
  /\ asked' = [asked EXCEPT ![r] = 0]
  /\ heard' = [heard EXCEPT ![r] = "none"]
  /\ outcome' = [outcome EXCEPT ![r] = Outcome(ans)]

TTL(ans) == IF ans = "valid" THEN POSITIVE_TTL ELSE NEGATIVE_TTL

\* An entry is used strictly before it expires.
Usable(k) == cache[k].ans # "none" /\ cache[k].expires > now

\* A cached answer decides at once.
Hit(r) ==
  /\ pc[r] = "idle" /\ Usable(key[r])
  /\ Decide(r, cache[key[r]].ans)
  /\ UNCHANGED <<now, cache, key, last>>

\* Without one WeKnora is asked; the time kept is that of the lookup.
Ask(r) ==
  /\ pc[r] = "idle" /\ ~Usable(key[r])
  /\ pc' = [pc EXCEPT ![r] = "asking"]
  /\ asked' = [asked EXCEPT ![r] = now]
  /\ UNCHANGED <<now, cache, key, heard, outcome, last>>

\* WeKnora answers: keys are granted and revoked at any time, so any answer.
Reply(r) ==
  /\ pc[r] = "asking" /\ heard[r] = "none"
  /\ \E a \in Answers :
       /\ heard' = [heard EXCEPT ![r] = a]
       /\ last' = [last EXCEPT ![key[r]][a] = now]
  /\ UNCHANGED <<now, cache, pc, key, asked, outcome>>

Cached == {k \in ApiKeys : cache[k].ans # "none"}
\* Mutated Kept: cleared one entry too late.
KeptLate == IF Cardinality(Cached) > CACHE_MAX + 1
            THEN [k \in ApiKeys |-> NoEntry] ELSE cache

Kept == IF Cardinality(Cached) > CACHE_MAX
        THEN [k \in ApiKeys |-> NoEntry] ELSE cache

\* Mutated Store: the lifetime counts from the end of the GET.
StoreFromNow(r, ans) ==
  /\ cache' = [Kept EXCEPT ![key[r]] = [expires |-> now + TTL(ans), ans |-> ans]]
  /\ Decide(r, ans)

\* The GET is over: a full cache is dropped whole, the answer entered with a
\* lifetime that counts from the lookup, and the request decided.
Store(r, ans) ==
  /\ cache' = [Kept EXCEPT ![key[r]] =
                 [expires |-> asked[r] + TTL(ans), ans |-> ans]]
  /\ Decide(r, ans)

Conclude(r) ==
  /\ pc[r] = "asking" /\ heard[r] # "none"
  /\ Store(r, heard[r])
  /\ UNCHANGED <<now, key, last>>

\* httpx gives up, answered or not: cached too, as unreachable.
GiveUp(r) ==
  /\ pc[r] = "asking"
  /\ Store(r, "unreachable")
  /\ last' = [last EXCEPT ![key[r]]["unreachable"] = now]
  /\ UNCHANGED <<now, key>>

\* The next request on this connection, with any key.
NextRequest(r) ==
  /\ pc[r] = "done"
  /\ pc' = [pc EXCEPT ![r] = "idle"]
  /\ outcome' = [outcome EXCEPT ![r] = "none"]
  /\ \E k \in ApiKeys : key' = [key EXCEPT ![r] = k]
  /\ UNCHANGED <<now, cache, asked, heard, last>>

Tick ==
  /\ now < MaxTime
  /\ now' = now + 1
  /\ UNCHANGED <<cache, pc, key, asked, heard, outcome, last>>

Validate(r) == Hit(r) \/ Ask(r) \/ Conclude(r) \/ GiveUp(r)

Next ==
  \/ \E r \in Requests : Validate(r) \/ Reply(r) \/ NextRequest(r)
  \/ Tick

Spec == Init /\ [][Next]_vars

-----------------------------------------------------------------------------
\* What the outcome of a request says of its key was said by WeKnora: to the
\* request's own GET, however long that took; or, taken from the cache, less
\* than the lifetime of that answer ago - 300 seconds for an admission, 30 for
\* a refusal - counted from when WeKnora said it, in whatever order the answers
\* to other requests landed and overwrote each other.
Lifetime == [a \in Answers |-> IF a = "valid" THEN POSITIVE_TTL ELSE NEGATIVE_TTL]
Own(r, a) == pc[r] = "asking" /\ last'[key[r]][a] >= asked[r]
Fresh(r, a) == last'[key[r]][a] + Lifetime[a] > now
Decided(r) == outcome[r] = "none" /\ outcome'[r] # "none"
DecisionsAreRecent ==
  [][\A r \in Requests : Decided(r) =>
       \E a \in Answers : /\ Outcome(a) = outcome'[r]
                          /\ last'[key[r]][a] # -1
                          /\ Own(r, a) \/ Fresh(r, a)]_vars

\* The cache never holds more than one entry beyond its maximum.
CacheBounded == Cardinality(Cached) <= CACHE_MAX + 1

\* An unavailable WeKnora is never reported as a bad key, nor a bad key as an
\* unavailable WeKnora: each entry is an answer given since its lookup.
EntriesAreAnswers ==
  \A k \in ApiKeys : cache[k].ans # "none" =>
    last[k][cache[k].ans] # -1
      /\ cache[k].expires <= last[k][cache[k].ans] + TTL(cache[k].ans)
=============================================================================
