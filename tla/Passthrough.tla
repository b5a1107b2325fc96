---------------------------- MODULE Passthrough ----------------------------
(***************************************************************************)
(* The v1 passthrough: one handler per request that asks WeKnora over the  *)
(* one pool of connections WeKnoraClient has, and relays the answer chunk  *)
(* by chunk, beside the client's own calls (v2, key validation), which     *)
(* share the pool.                                                         *)
(*                                                                         *)
(* raw() switches every timeout of httpx off, the wait for a connection    *)
(* included; call() and validate_api_key() do not.  What ends a relayed    *)
(* stream is WeKnora's end of it, or its caller's going away: uvicorn does *)
(* not cancel a handler, but Starlette cancels a StreamingResponse whose   *)
(* caller is gone, and the generator's finally gives the connection back.  *)
(***************************************************************************)
EXTENDS Naturals, FiniteSets

CONSTANTS
  Requests,      \* v1 requests
  Calls,         \* calls of WeKnoraClient.call or validate_api_key
  Connections,   \* httpx: the most connections of the pool
  Chunks,        \* bound: the longest answer
  RequireOnV1    \* auth.require_on_v1

ASSUME PassthroughAssumption ==
  /\ Connections \in Nat \ {0} /\ Chunks \in Nat /\ RequireOnV1 \in BOOLEAN
  /\ Requests \cap Calls = {} /\ IsFiniteSet(Requests) /\ IsFiniteSet(Calls)

VARIABLES
  pc,           \* of each request and call: what it awaits
  outcome,      \* what the caller was answered
  held,         \* who holds a connection of the pool
  caller,       \* there, stalled (reads no more) or left
  upstream,     \* WeKnora on the connection of a request
  odd,          \* a response header has a character outside latin-1
  made, read, got   \* chunks WeKnora made, the generator read, the caller got

forge == <<pc, outcome, held>>
weknora == <<upstream, odd, made>>
vars == <<forge, caller, weknora, read, got>>

Relaying == {"reading", "sending"}
TypeOK ==
  /\ pc \in [Requests \cup Calls ->
       {"idle", "body", "pool", "sent", "abandoned", "done"} \cup Relaying]
  /\ outcome \in [Requests -> {"none", "refused", "failed", "complete", "broken", "nobody"}]
  /\ held \subseteq Requests \cup Calls
  /\ caller \in [Requests -> {"there", "stalled", "left"}]
  /\ upstream \in [Requests -> {"none", "serving", "answering", "ended", "died", "silent"}]
  /\ odd \in [Requests -> BOOLEAN]
  /\ made \in [Requests -> 0 .. Chunks] /\ read \in [Requests -> 0 .. Chunks]
  /\ got \in [Requests -> 0 .. Chunks]

Init ==
  /\ pc = [x \in Requests \cup Calls |-> "idle"] /\ held = {}
  /\ outcome = [r \in Requests |-> "none"] /\ caller = [r \in Requests |-> "there"]
  /\ upstream = [r \in Requests |-> "none"] /\ odd = [r \in Requests |-> FALSE]
  /\ made = [r \in Requests |-> 0] /\ read = [r \in Requests |-> 0]
  /\ got = [r \in Requests |-> 0]

-----------------------------------------------------------------------------
(* The handler.                                                            *)

Goto(x, l) == pc' = [pc EXCEPT ![x] = l]
Become(r, o) ==      \* whoever has left is told nothing
  outcome' = [outcome EXCEPT ![r] = IF caller[r] = "left" THEN "nobody" ELSE o]
Conclude(r, o) == Goto(r, "done") /\ Become(r, o)
Close(x) == held' = held \ {x}      \* Response.aclose

Verify(r) ==
  /\ pc[r] = "idle"
  /\ \E signed \in BOOLEAN, key \in BOOLEAN :
       IF (RequireOnV1 => signed) /\ key
       THEN Goto(r, "body") /\ UNCHANGED outcome ELSE Conclude(r, "refused")
  /\ UNCHANGED <<held, caller, weknora, read, got>>

\* request.body(): a caller that leaves before its body is read ends the handler.
ReadBody(r) ==
  /\ pc[r] = "body"
  /\ IF caller[r] = "left" THEN Conclude(r, "nobody")
                           ELSE Goto(r, "pool") /\ UNCHANGED outcome
  /\ UNCHANGED <<held, caller, weknora, read, got>>

Free == Cardinality(held) < Connections
Connect(r) ==
  /\ pc[r] = "pool" /\ Free
  /\ Goto(r, "sent") /\ held' = held \cup {r}
  /\ upstream' = [upstream EXCEPT ![r] = "serving"]
  /\ UNCHANGED <<outcome, caller, odd, made, read, got>>

\* raw() raises: the connection cannot be made, or dies before the answer.
SendFailed(r) ==
  /\ \/ pc[r] = "pool" /\ Free
     \/ pc[r] = "sent" /\ upstream[r] = "died"
  /\ Conclude(r, "failed") /\ Close(r)
  /\ UNCHANGED <<caller, weknora, read, got>>

\* The answer's head is there: the response is built - which its header values,
\* decoded as UTF-8 and to be encoded as latin-1, may make impossible - and starts.
Relay(r) ==
  /\ pc[r] = "sent" /\ upstream[r] \in {"answering", "ended"}
  /\ IF odd[r] THEN Conclude(r, "failed")
               ELSE Goto(r, "reading") /\ UNCHANGED outcome
  /\ UNCHANGED <<held, caller, weknora, read, got>>

-----------------------------------------------------------------------------
(* stream(), driven by StreamingResponse.                                  *)

Pull(r) ==
  /\ pc[r] = "reading" /\ read[r] < made[r]
  /\ Goto(r, "sending") /\ read' = [read EXCEPT ![r] = @ + 1]
  /\ UNCHANGED <<outcome, held, caller, weknora, got>>

\* Mutated Send: a chunk is yielded by the loop and once more after it.
SendTwice(r) ==
  /\ pc[r] = "sending" /\ caller[r] # "stalled" /\ Goto(r, "reading")
  /\ got' = [got EXCEPT ![r] = IF caller[r] = "left" THEN @ ELSE @ + 2]
  /\ UNCHANGED <<outcome, held, caller, weknora, read>>

Send(r) ==      \* what is sent to a caller that has left is dropped
  /\ pc[r] = "sending" /\ caller[r] # "stalled" /\ Goto(r, "reading")
  /\ got' = [got EXCEPT ![r] = IF caller[r] = "left" THEN @ ELSE @ + 1]
  /\ UNCHANGED <<outcome, held, caller, weknora, read>>

Finish(r) ==
  /\ pc[r] = "reading" /\ upstream[r] = "ended" /\ read[r] = made[r]
  /\ Close(r) /\ Conclude(r, "complete")
  /\ UNCHANGED <<caller, weknora, read, got>>

\* aiter_raw() raises: finally closes, and the response stops short of its end.
\* Mutated Break: the generator ends as if the answer had.
BreakQuietly(r) ==
  /\ pc[r] = "reading" /\ upstream[r] = "died"
  /\ Close(r) /\ Conclude(r, "complete")
  /\ UNCHANGED <<caller, weknora, read, got>>

Break(r) ==
  /\ pc[r] = "reading" /\ upstream[r] = "died"
  /\ Close(r) /\ Conclude(r, "broken")
  /\ UNCHANGED <<caller, weknora, read, got>>

\* The caller is gone.  Inside aiter_raw the cancellation runs finally; at the
\* yield it cannot, and the generator is left to the loop's finalizer.
\* Mutated Cancel: at the yield, too, the loop over the chunks is just left; or
\* nothing listens for the caller's going away.
CancelUnclosed(r) ==
  /\ pc[r] \in Relaying /\ caller[r] = "left"
  /\ Conclude(r, "nobody") /\ UNCHANGED <<held, caller, weknora, read, got>>
CancelNever(r) == FALSE /\ pc[r] = "reading" /\ UNCHANGED vars

Cancel(r) ==
  /\ pc[r] \in Relaying /\ caller[r] = "left"
  /\ IF pc[r] = "reading" THEN Close(r) /\ Conclude(r, "nobody")
                          ELSE Goto(r, "abandoned") /\ UNCHANGED <<outcome, held>>
  /\ UNCHANGED <<caller, weknora, read, got>>

Finalize(r) ==
  /\ pc[r] = "abandoned" /\ Close(r) /\ Conclude(r, "nobody")
  /\ UNCHANGED <<caller, weknora, read, got>>

-----------------------------------------------------------------------------
(* call() and validate_api_key(): every wait is timed.                     *)

Other == <<outcome, caller, weknora, read, got>>
CallStart(c) == pc[c] = "idle" /\ Goto(c, "pool") /\ UNCHANGED <<held, Other>>
CallConnect(c) ==
  /\ pc[c] = "pool" /\ Free /\ Goto(c, "sent") /\ held' = held \cup {c}
  /\ UNCHANGED Other
CallAnswered(c) == pc[c] = "sent" /\ Goto(c, "done") /\ Close(c) /\ UNCHANGED Other

CallGivesUp(c) ==
  pc[c] \in {"pool", "sent"} /\ Goto(c, "done") /\ Close(c) /\ UNCHANGED Other

-----------------------------------------------------------------------------
(* WeKnora and the callers.                                                *)

Says(r, u) ==
  /\ upstream' = [upstream EXCEPT ![r] = u]
  /\ UNCHANGED <<forge, caller, read, got>>
Answer(r) ==
  /\ upstream[r] = "serving" /\ Says(r, "answering")
  /\ \E o \in BOOLEAN : odd' = [odd EXCEPT ![r] = o]
  /\ UNCHANGED made
Produce(r) ==
  /\ upstream[r] = "answering" /\ made[r] < Chunks
  /\ made' = [made EXCEPT ![r] = @ + 1]
  /\ UNCHANGED <<forge, caller, upstream, odd, read, got>>
End(r) == upstream[r] = "answering" /\ Says(r, "ended") /\ UNCHANGED <<odd, made>>
Stop(r) ==      \* it dies, or says nothing ever again
  /\ upstream[r] \in {"serving", "answering"} /\ r \in held
  /\ Says(r, "died") \/ Says(r, "silent")
  /\ UNCHANGED <<odd, made>>

Leave(r) ==
  /\ pc[r] \notin {"idle", "done"} /\ caller[r] # "left"
  /\ caller' = [caller EXCEPT ![r] = "left"]
  /\ UNCHANGED <<forge, weknora, read, got>>
Stall(r) ==
  /\ pc[r] = "sending" /\ caller[r] = "there"
  /\ caller' = [caller EXCEPT ![r] = "stalled"]
  /\ UNCHANGED <<forge, weknora, read, got>>

Handler(r) ==
  \/ Verify(r) \/ ReadBody(r) \/ Connect(r) \/ SendFailed(r) \/ Relay(r)
  \/ Pull(r) \/ Send(r) \/ Finish(r) \/ Break(r) \/ Cancel(r) \/ Finalize(r)
Call(c) == CallStart(c) \/ CallConnect(c) \/ CallAnswered(c) \/ CallGivesUp(c)
WeKnora(r) == Answer(r) \/ Produce(r) \/ End(r) \/ Stop(r)

Next ==
  \/ \E r \in Requests : Handler(r) \/ WeKnora(r) \/ Leave(r) \/ Stall(r)
  \/ \E c \in Calls : Call(c)

\* The event loop runs what can run and cancels what is to be cancelled; timers
\* fire; what WeKnora does not do for ever is its silence.  A caller need do nothing.
Fairness ==
  /\ \A r \in Requests : WF_vars(Handler(r)) /\ WF_vars(WeKnora(r)) /\ WF_vars(Cancel(r))
  /\ \A c \in Calls : WF_vars(CallGivesUp(c))
Spec == Init /\ [][Next]_vars /\ Fairness

-----------------------------------------------------------------------------
\* A response that looks complete has all of an answer that WeKnora ended, and one
\* that is not complete is not made to look so, whatever died or left meanwhile.
CompleteIsWhole ==
  \A r \in Requests : /\ outcome[r] = "complete" => upstream[r] = "ended" /\ got[r] = made[r]
                      /\ outcome[r] = "broken" => upstream[r] = "died"

\* The pool is not overdrawn, and its connections are those of requests and calls
\* under way, of streams about to be closed - and of answers whose headers could
\* not be relayed, which nobody closes.
Lost(r) == pc[r] = "done" /\ odd[r]
PoolAccounted ==
  /\ Cardinality(held) <= Connections
  /\ \A x \in held : (x \in Requests /\ Lost(x)) \/ pc[x] \in {"sent", "abandoned"} \cup Relaying

\* What can keep a connection for good: an answer that could not be relayed; a
\* WeKnora that falls silent, until the caller leaves a stream - but not when it
\* leaves before the head of the answer; a caller that reads no more.
Kept(r) ==
  /\ r \in held
  /\ \/ Lost(r)
     \/ upstream[r] = "silent" /\ (pc[r] = "sent" \/ caller[r] # "left")
     \/ caller[r] = "stalled"
ConnectionsComeBack == \A r \in Requests : r \in held ~> (r \notin held \/ Kept(r))

\* Every request ends, but for those that keep a connection and those that wait for
\* one while all are kept: raw() has no timeout.
Exhausted == Cardinality({r \in Requests : Kept(r)}) >= Connections
RequestsEnd ==
  \A r \in Requests :
    pc[r] # "idle" ~> (pc[r] = "done" \/ Kept(r) \/ (pc[r] = "pool" /\ Exhausted))
=============================================================================
