------------------------- MODULE Passthrough_proofs -------------------------
(***************************************************************************)
(* Proofs about Passthrough, for any number of requests and calls, any     *)
(* size of the pool and of the answers: a response that looks complete has *)
(* the whole answer, and connections are held by who is under way, but for *)
(* those of answers whose headers could not be relayed.                    *)
(***************************************************************************)
EXTENDS Passthrough, FiniteSetTheorems, TLAPS

\* The head of an answer comes first, and an answer is told last.
Ordered ==
  \A r \in Requests : /\ pc[r] \in {"idle", "body", "pool"} => upstream[r] = "none"
                      /\ odd[r] => upstream[r] \notin {"none", "serving"}
                      /\ outcome[r] # "none" => pc[r] = "done"

\* The generator has read no more than was made, and sent what it has read, but
\* for the chunk in its hands.
Counts ==
  \A r \in Requests :
    /\ read[r] <= made[r]
    /\ caller[r] # "left" => read[r] = IF pc[r] = "sending" THEN got[r] + 1 ELSE got[r]

IInv == TypeOK /\ PoolAccounted /\ CompleteIsWhole /\ Ordered /\ Counts

-----------------------------------------------------------------------------
(* Connections.                                                            *)

LEMMA HeldFinite ==
  ASSUME TypeOK
  PROVE  IsFiniteSet(held) /\ Cardinality(held) \in Nat
<1>1. IsFiniteSet(Requests \cup Calls)
  BY FS_Union, PassthroughAssumption
<1>2. IsFiniteSet(held)
  BY <1>1, FS_Subset DEF TypeOK
<1> QED BY <1>2, FS_CardinalityType

LEMMA TakeOne ==
  ASSUME TypeOK, Free, NEW x
  PROVE  Cardinality(held \cup {x}) <= Connections
<1>1. Cardinality(held \cup {x}) = IF x \in held THEN Cardinality(held) ELSE Cardinality(held) + 1
  BY HeldFinite, FS_AddElement
<1> QED BY <1>1, HeldFinite, PassthroughAssumption DEF Free

LEMMA GiveBack ==
  ASSUME TypeOK, PoolAccounted, NEW x
  PROVE  Cardinality(held \ {x}) <= Connections
<1>1. Cardinality(held \ {x}) = IF x \in held THEN Cardinality(held) - 1 ELSE Cardinality(held)
  BY HeldFinite, FS_RemoveElement
<1> QED BY <1>1, HeldFinite, PassthroughAssumption DEF PoolAccounted

-----------------------------------------------------------------------------
(* The steps.                                                              *)

LEMMA InitIInv == Init => IInv
<1> SUFFICES ASSUME Init PROVE IInv
  OBVIOUS
<1>1. Cardinality(held) = 0
  BY FS_EmptySet DEF Init
<1> QED BY <1>1, PassthroughAssumption
        DEF Init, IInv, TypeOK, PoolAccounted, CompleteIsWhole, Ordered, Counts, Relaying

LEMMA HandlerKeeps ==
  ASSUME IInv, NEW r \in Requests, Handler(r)
  PROVE  IInv'
<1> USE PassthroughAssumption DEF IInv, TypeOK, PoolAccounted, CompleteIsWhole, Ordered, Counts,
        Relaying, Lost, Goto, Become, Conclude, Close, forge, weknora
<1>1. CASE Verify(r)
  BY <1>1 DEF Verify
<1>2. CASE ReadBody(r)
  BY <1>2 DEF ReadBody
<1>3. CASE Connect(r)
  <2> USE <1>3 DEF Connect
  <2>1. Cardinality(held') <= Connections
    BY TakeOne
  <2>2. TypeOK'
    OBVIOUS
  <2>3. PoolAccounted'
    BY <2>1
  <2>4. CompleteIsWhole' /\ Ordered'
    OBVIOUS
  <2>5. Counts'
    OBVIOUS
  <2> QED BY <2>2, <2>3, <2>4, <2>5
<1>4. CASE SendFailed(r)
  BY <1>4, GiveBack DEF SendFailed
<1>5. CASE Relay(r)
  BY <1>5 DEF Relay
<1>6. CASE Pull(r)
  BY <1>6 DEF Pull
<1>7. CASE Send(r)
  BY <1>7 DEF Send
<1>8. CASE Finish(r)
  <2> USE <1>8 DEF Finish
  <2>1. Cardinality(held') <= Connections
    BY GiveBack
  <2>2. TypeOK'
    OBVIOUS
  <2>3. PoolAccounted'
    BY <2>1
  <2>4. CompleteIsWhole' /\ Ordered'
    OBVIOUS
  <2>5. Counts'
    OBVIOUS
  <2> QED BY <2>2, <2>3, <2>4, <2>5
<1>9. CASE Break(r)
  BY <1>9, GiveBack DEF Break
<1>10. CASE Cancel(r)
  <2> USE <1>10 DEF Cancel
  <2>1. Cardinality(held') <= Connections
    BY GiveBack
  <2>2. TypeOK'
    OBVIOUS
  <2>3. PoolAccounted'
    BY <2>1
  <2>4. CompleteIsWhole' /\ Ordered'
    OBVIOUS
  <2>5. Counts'
    OBVIOUS
  <2> QED BY <2>2, <2>3, <2>4, <2>5
<1>11. CASE Finalize(r)
  BY <1>11, GiveBack DEF Finalize
<1> QED BY <1>1, <1>2, <1>3, <1>4, <1>5, <1>6, <1>7, <1>8, <1>9, <1>10, <1>11 DEF Handler

LEMMA CallKeeps ==
  ASSUME IInv, NEW c \in Calls, Call(c)
  PROVE  IInv'
<1> USE PassthroughAssumption DEF IInv, TypeOK, PoolAccounted, CompleteIsWhole, Ordered, Counts,
        Relaying, Lost, Goto, Close, Other, forge, weknora
<1>1. CASE CallStart(c)
  BY <1>1 DEF CallStart
<1>2. CASE CallConnect(c)
  <2> USE <1>2 DEF CallConnect
  <2>1. Cardinality(held') <= Connections
    BY TakeOne
  <2>2. TypeOK'
    OBVIOUS
  <2>3. PoolAccounted'
    BY <2>1
  <2>4. CompleteIsWhole' /\ Ordered'
    OBVIOUS
  <2>5. Counts'
    OBVIOUS
  <2> QED BY <2>2, <2>3, <2>4, <2>5
<1>3. CASE CallAnswered(c)
  BY <1>3, GiveBack DEF CallAnswered
<1>4. CASE CallGivesUp(c)
  BY <1>4, GiveBack DEF CallGivesUp
<1> QED BY <1>1, <1>2, <1>3, <1>4 DEF Call

LEMMA OthersKeep ==
  ASSUME IInv, NEW r \in Requests, WeKnora(r) \/ Leave(r) \/ Stall(r)
  PROVE  IInv'
<1> USE PassthroughAssumption DEF IInv, TypeOK, PoolAccounted, CompleteIsWhole, Ordered, Counts,
        Relaying, Lost, Says, forge, weknora
<1>1. CASE Answer(r)
  BY <1>1 DEF Answer
<1>2. CASE Produce(r)
  BY <1>2 DEF Produce
<1>3. CASE End(r)
  BY <1>3 DEF End
<1>4. CASE Stop(r)
  BY <1>4 DEF Stop
<1>5. CASE Leave(r)
  BY <1>5 DEF Leave
<1>6. CASE Stall(r)
  BY <1>6 DEF Stall
<1> QED BY <1>1, <1>2, <1>3, <1>4, <1>5, <1>6 DEF WeKnora

LEMMA NextIInv == IInv /\ [Next]_vars => IInv'
<1> SUFFICES ASSUME IInv, [Next]_vars PROVE IInv'
  OBVIOUS
<1>1. CASE UNCHANGED vars
  BY <1>1 DEF vars, forge, weknora, IInv, TypeOK, PoolAccounted, CompleteIsWhole, Ordered,
              Counts, Lost
<1> QED BY <1>1, HandlerKeeps, CallKeeps, OthersKeep DEF Next

LEMMA AlwaysIInv == Spec => []IInv
<1> QED BY InitIInv, NextIInv, PTL DEF Spec

-----------------------------------------------------------------------------
(* What follows.                                                           *)

\* Types: the chunks read and sent stay within those of the answer.
THEOREM TypeCorrect == Spec => []TypeOK
<1>1. IInv => TypeOK
  BY DEF IInv
<1> QED BY <1>1, AlwaysIInv, PTL

\* A complete response has the whole answer; one cut short is not made to look so.
THEOREM WholeIfComplete == Spec => []CompleteIsWhole
<1>1. IInv => CompleteIsWhole
  BY DEF IInv
<1> QED BY <1>1, AlwaysIInv, PTL

\* The pool is never overdrawn, and only answers that could not be relayed keep
\* connections after their requests.
THEOREM PoolIsAccounted == Spec => []PoolAccounted
<1>1. IInv => PoolAccounted
  BY DEF IInv
<1> QED BY <1>1, AlwaysIInv, PTL
=============================================================================
