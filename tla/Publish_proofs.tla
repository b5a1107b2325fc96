--------------------------- MODULE Publish_proofs ---------------------------
(***************************************************************************)
(* Proofs of the safety properties of Publish, for any number of requests, *)
(* tags and keys, any configuration, and any loss, delay, refusal or odd   *)
(* body of any call; and that Publish implements PublishContract.          *)
(* TInv makes the types inductive, SInv what the properties rest on: where *)
(* each coroutine is, what is known to be on its article, and what the     *)
(* calls that nobody waits for can still do to it.                         *)
(***************************************************************************)
EXTENDS Publish, FiniteSetTheorems, TLAPS

-----------------------------------------------------------------------------
(* Types.                                                                  *)

PCs == Calls \cup {"idle", "tags", "done", "crashed"}
Outcomes == {"none", "ok", "error", "SYNC_DISABLED"}
Wires == [st: {"idle", "sent", "ok", "failed"}, shape: {"good"} \cup OddShapes,
          id: TagNames \cup {NoId}, metas: MetaMaps, progress: Progress]
Arts == [st: {"none", "draft", "live", "deleted"}, metas: MetaMaps,
         description: BOOLEAN, tags: Seq(TagNames \cup {NoId}),
         progress: Progress]

ControlType == /\ pc \in [Requests -> PCs] /\ wire \in [Requests -> Wires]
               /\ answer \in [Requests -> Outcomes]
DataType ==
  /\ req \in [Requests -> Bodies]
  /\ todo \in [Requests -> Seq(TagNames \cup {NoName})]
  /\ tagIds \in [Requests -> Seq(TagNames \cup {NoId})]
  /\ kid \in [Requests -> BOOLEAN]
  /\ payload \in [Requests -> MetaMaps]
  /\ latest \in [Requests -> Progress \cup {"alien"}]
  /\ polls \in [Requests -> 0 .. MaxPolls]
  /\ wait \in [Requests -> {"none", "done", "timedOut", "failed"}]
  /\ rollback \in [Requests -> {"none", "done", "failed"}]
RemoteType ==
  /\ stale \subseteq [by: Requests, op: Calls, tag: TagNames \cup {NoName}]
  /\ tags \subseteq TagNames
  /\ art \in [Requests -> Arts]
  /\ crashes \in 0 .. MaxCrashes

LEMMA TypeParts == TypeOK <=> ControlType /\ DataType /\ RemoteType
  BY DEF TypeOK, ControlType, DataType, RemoteType, PCs, Outcomes, Wires, Arts

\* What each step relies on for its types.
Heads == \A r \in Requests : pc[r] \in {"createTag", "findTag"} =>
           todo[r] # << >> /\ Head(todo[r]) # NoName
StaleTags == \A c \in stale : c.op = "createTag" => c.tag \in TagNames
Waits == \A r \in Requests :
  /\ pc[r] = "poll" => polls[r] < MaxPolls
  /\ pc[r] \notin {"poll", "done", "crashed"} => polls[r] = 0
Wired == \A r \in Requests : wire[r].st # "idle" => pc[r] \in Calls

TInv == ControlType /\ DataType /\ RemoteType /\ Heads /\ StaleTags /\ Waits
  /\ Wired

\* The four answers the actions write.
LEMMA WireTypes ==
  /\ Idle \in Wires /\ Sent \in Wires /\ Ok \in Wires /\ Failed \in Wires
  /\ Sent.st = "sent" /\ Idle.st = "idle" /\ Failed.st = "failed" /\ Ok.st = "ok"
  BY DEF Wires, Idle, Sent, Ok, Failed, Wire, MetaMaps, NoMetas, Origins,
      Progress

LEMMA WireFields ==
  ASSUME NEW w \in Wires
  PROVE  /\ w.st \in {"idle", "sent", "ok", "failed"}
         /\ w.id \in TagNames \cup {NoId} /\ w.metas \in MetaMaps
         /\ w.progress \in Progress
  BY DEF Wires

\* Merging keys of a request into a metadata map gives a metadata map.
LEMMA MergeType ==
  ASSUME NEW m \in MetaMaps, NEW ks \in SUBSET Keys
  PROVE Merge(m, ks) \in MetaMaps
  BY DEF MetaMaps, Origins, Merge

LEMMA BodyFields ==
  ASSUME NEW b \in Bodies
  PROVE  /\ b.tags \in Seq(TagNames \cup {NoName}) /\ b.metas \in SUBSET Keys
         /\ b.description \in BOOLEAN /\ b.sync \in BOOLEAN
  BY PublishAssumption DEF Body

\* A step of r leaves the place of every other coroutine alone.
Others(r) == \A q \in Requests : q # r =>
  pc'[q] = pc[q] /\ wire'[q] = wire[q] /\ answer'[q] = answer[q]

\* What each way to end a step does to the request's place.
LEMMA AwaitFacts ==
  ASSUME ControlType, NEW r \in Requests, NEW op \in Calls, Await(r, op)
  PROVE  /\ ControlType' /\ Others(r)
         /\ pc'[r] = op /\ wire'[r].st = "sent" /\ answer'[r] = answer[r]
  BY WireTypes DEF ControlType, Await, PCs, Others

LEMMA AnswerFacts ==
  ASSUME ControlType, NEW r \in Requests, NEW a \in Outcomes, Answer(r, a)
  PROVE  /\ ControlType' /\ Others(r)
         /\ pc'[r] = "done" /\ wire'[r].st = "idle" /\ answer'[r] = a
  BY WireTypes DEF ControlType, Answer, PCs, Others

LEMMA GoOnFacts ==
  ASSUME ControlType, NEW r \in Requests, GoOn(r, "tags")
  PROVE  /\ ControlType' /\ Others(r)
         /\ pc'[r] = "tags" /\ wire'[r].st = "idle" /\ answer'[r] = answer[r]
  BY WireTypes DEF ControlType, GoOn, PCs, Others

LEMMA InitTInv == Init => TInv
<1> SUFFICES ASSUME Init PROVE TInv
  OBVIOUS
<1>1. ControlType
  BY WireTypes DEF Init, ControlType, PCs, Outcomes
<1>2. DataType
  BY PublishAssumption DEF Init, DataType, MetaMaps, NoMetas, Origins, Progress
<1>3. RemoteType
  BY PublishAssumption
     DEF Init, RemoteType, Arts, NoArticle, MetaMaps, NoMetas, Origins, Progress
<1> QED BY <1>1, <1>2, <1>3, WireTypes
   DEF TInv, Init, Heads, StaleTags, Waits, Wired

\* What is left to show of a step of a coroutine: what it does to its own data.
LEMMA CoKeeps ==
  ASSUME TInv, NEW r \in Requests, Others(r), ControlType', DataType',
         UNCHANGED <<stale, remote, crashes>>,
         \A q \in Requests : q # r => todo'[q] = todo[q] /\ polls'[q] = polls[q],
         pc'[r] \in {"createTag", "findTag"} =>
           todo'[r] # << >> /\ Head(todo'[r]) # NoName,
         pc'[r] = "poll" => polls'[r] < MaxPolls,
         pc'[r] \notin {"poll", "done", "crashed"} => polls'[r] = 0,
         wire'[r].st # "idle" => pc'[r] \in Calls
  PROVE  TInv'
<1>1. RemoteType' /\ StaleTags'
  BY DEF TInv, RemoteType, StaleTags, remote
<1>2. Heads'
  BY DEF TInv, Heads, Others
<1>3. Waits' /\ Wired'
  BY DEF TInv, Waits, Wired, Others
<1> QED BY <1>1, <1>2, <1>3 DEF TInv

\* The steps of a coroutine keep TInv.
LEMMA CoTInv ==
  ASSUME TInv, NEW r \in Requests, Coroutine(r) PROVE TInv'
<1> USE DEF Got, Lost, Readable, local
<1>w. /\ wire[r] \in Wires /\ req[r] \in Bodies /\ ControlType
      /\ wire[r].id \in TagNames \cup {NoId} /\ wire[r].metas \in MetaMaps
      /\ wire[r].progress \in Progress
      /\ req[r].tags \in Seq(TagNames \cup {NoName})
      /\ req[r].metas \in SUBSET Keys
      /\ todo[r] \in Seq(TagNames \cup {NoName})
      /\ tagIds[r] \in Seq(TagNames \cup {NoId})
  BY WireFields, BodyFields DEF TInv, ControlType, DataType
<1>h. pc[r] \in {"createTag", "findTag"} => todo[r] # << >>
        /\ Head(todo[r]) # NoName
  BY DEF TInv, Heads
<1>p. (pc[r] \notin {"poll", "done", "crashed"} => polls[r] = 0)
        /\ MaxPolls > 0 /\ MaxPolls \in Nat
      /\ (pc[r] = "poll" => polls[r] < MaxPolls) /\ polls[r] \in Nat
  BY PublishAssumption DEF TInv, Waits, DataType
<1>1. CASE Start(r)
  <2>0. /\ pc[r] = "idle"
        /\ UNCHANGED <<req, tagIds, kid, payload, latest, polls, wait, rollback,
                       stale, remote, crashes>>
    BY <1>1 DEF Start
  <2>1. CASE req[r].sync /\ ~AllowSync
    <3>1. ControlType' /\ Others(r) /\ pc'[r] = "done" /\ wire'[r].st = "idle"
            /\ UNCHANGED todo
      BY <1>1, <1>w, <2>1, AnswerFacts DEF Start, Outcomes
    <3>2. DataType'
      BY <2>0, <3>1 DEF TInv, DataType
    <3> QED BY <2>0, <3>1, <3>2, CoKeeps
  <2>2. CASE ~(req[r].sync /\ ~AllowSync)
    <3>1. ControlType' /\ Others(r) /\ pc'[r] = "tags" /\ wire'[r].st = "idle"
            /\ todo' = [todo EXCEPT ![r] = req[r].tags]
      BY <1>1, <1>w, <2>2, GoOnFacts DEF Start
    <3>2. DataType' /\ \A q \in Requests : q # r => todo'[q] = todo[q]
      BY <1>w, <2>0, <3>1 DEF TInv, DataType
    <3> QED BY <1>p, <2>0, <3>1, <3>2, CoKeeps
  <2> QED BY <2>1, <2>2
<1>2. CASE TagLoop(r)
  <2>0. pc[r] = "tags"
          /\ UNCHANGED <<req, tagIds, kid, payload, latest, polls, wait,
             rollback, stale, remote, crashes>>
    BY <1>2 DEF TagLoop
  <2>1. CASE Await(r, "createDraft") /\ UNCHANGED todo
    <3>1. ControlType' /\ Others(r) /\ pc'[r] = "createDraft"
            /\ wire'[r].st = "sent"
      BY <1>w, <2>1, AwaitFacts DEF Calls
    <3>2. DataType'
      BY <2>0, <2>1 DEF TInv, DataType
    <3> QED BY <1>p, <2>0, <2>1, <3>1, <3>2, CoKeeps DEF Calls
  <2>2. CASE todo[r] # << >> /\ todo' = [todo EXCEPT ![r] = Tail(@)]
               /\ UNCHANGED <<pc, wire, answer>>
    <3>1. DataType' /\ \A q \in Requests : q # r => todo'[q] = todo[q]
      BY <1>w, <2>0, <2>2 DEF TInv, DataType
    <3>2. ControlType' /\ Others(r) /\ (wire'[r].st # "idle" => pc'[r] \in Calls)
      BY <2>2 DEF TInv, ControlType, Others, Wired
    <3> QED BY <1>p, <2>0, <2>2, <3>1, <3>2, CoKeeps
  <2>3. CASE todo[r] # << >> /\ Head(todo[r]) # NoName
               /\ Await(r, "createTag") /\ UNCHANGED todo
    <3>1. ControlType' /\ Others(r) /\ pc'[r] = "createTag"
            /\ wire'[r].st = "sent"
      BY <1>w, <2>3, AwaitFacts DEF Calls
    <3>2. DataType'
      BY <2>0, <2>3 DEF TInv, DataType
    <3> QED BY <1>p, <2>0, <2>3, <3>1, <3>2, CoKeeps DEF Calls
  <2> QED BY <1>2, <2>1, <2>2, <2>3 DEF TagLoop
<1>3. ASSUME Resolved(r, wire[r].id), pc[r] \in {"createTag", "findTag"},
        UNCHANGED <<req, kid, payload, latest, polls, wait, rollback, stale,
        remote, crashes>>
      PROVE TInv'
  <2>1. ControlType' /\ Others(r) /\ pc'[r] = "tags" /\ wire'[r].st = "idle"
    BY <1>w, <1>3, GoOnFacts DEF Resolved
  <2>2. todo' = [todo EXCEPT ![r] = Tail(todo[r])]
          /\ Tail(todo[r]) \in Seq(TagNames \cup {NoName})
        /\ tagIds' = [tagIds EXCEPT ![r] = Append(tagIds[r], wire[r].id)]
        /\ Append(tagIds[r], wire[r].id) \in Seq(TagNames \cup {NoId})
    BY <1>w, <1>h, <1>3 DEF Resolved
  <2>3. DataType' /\ \A q \in Requests : q # r => todo'[q] = todo[q]
    <3> HIDE <1>3
    <3>1. todo' \in [Requests -> Seq(TagNames \cup {NoName})]
            /\ tagIds' \in [Requests -> Seq(TagNames \cup {NoId})]
      BY <2>2 DEF TInv, DataType
    <3> QED BY <2>2, <3>1, <1>3 DEF TInv, DataType
  <2> QED BY <1>p, <1>3, <2>1, <2>3, CoKeeps
<1>4. ASSUME Answer(r, "error"),
             UNCHANGED <<req, todo, tagIds, kid, payload, latest, polls, wait,
             stale, remote, crashes>>,
             rollback' \in [Requests -> {"none", "done", "failed"}]
      PROVE TInv'
  <2>1. ControlType' /\ Others(r) /\ pc'[r] = "done" /\ wire'[r].st = "idle"
    BY <1>w, <1>4, AnswerFacts DEF Outcomes
  <2>2. DataType'
    BY <1>4 DEF TInv, DataType
  <2> QED BY <1>4, <2>1, <2>2, CoKeeps
<1>5. ASSUME NEW op \in Calls, Await(r, op),
             UNCHANGED <<req, todo, tagIds, polls, wait, rollback, stale, remote,
             crashes>>,
             kid' \in [Requests -> BOOLEAN], payload' \in [Requests -> MetaMaps],
             latest' \in [Requests -> Progress \cup {"alien"}],
             pc[r] \notin {"poll", "done", "crashed"},
             op \in {"createTag", "findTag"} => pc[r] = "createTag"
      PROVE TInv'
  <2>1. ControlType' /\ Others(r) /\ pc'[r] = op /\ wire'[r].st = "sent"
    BY <1>w, <1>5, AwaitFacts
  <2>2. DataType'
    BY <1>5 DEF TInv, DataType
  <2> QED BY <1>p, <1>h, <1>5, <2>1, <2>2, CoKeeps
<1>n. /\ kid \in [Requests -> BOOLEAN] /\ payload \in [Requests -> MetaMaps]
      /\ latest \in [Requests -> Progress \cup {"alien"}]
      /\ rollback \in [Requests -> {"none", "done", "failed"}]
  BY DEF TInv, DataType
<1>6. CASE TagCreated(r)
  BY <1>6, <1>3, <1>4, <1>n DEF TagCreated
<1>7. CASE TagCreateFailed(r)
  BY <1>7, <1>5, <1>n DEF TagCreateFailed, Calls
<1>8. CASE TagFound(r)
  BY <1>8, <1>3, <1>4, <1>n DEF TagFound
<1>9. CASE TagFindFailed(r) \/ DraftFailed(r)
  BY <1>9, <1>4, <1>n DEF TagFindFailed, DraftFailed
<1>a. Abort(r) => Await(r, "rollback") \/ Answer(r, "error")
  BY DEF Abort
<1>10. CASE DraftCreated(r)
  <2>1. CASE wire[r].shape = "good"
    <3>1. /\ kid' \in [Requests -> BOOLEAN]
          /\ Merge(NoMetas, req[r].metas) \in MetaMaps
          /\ payload' = [payload EXCEPT ![r] = Merge(NoMetas, req[r].metas)]
      BY <1>10, <1>n, <1>w, <2>1, MergeType
         DEF DraftCreated, NoMetas, MetaMaps, Origins
    <3>2. payload' \in [Requests -> MetaMaps]
      BY <1>n, <3>1
    <3>3. WriteMetas(r)
            => \E op \in {"putDescription", "flip", "getMetas",
            "putMetas"} : Await(r, op)
      BY DEF WriteMetas, Describe, Flip
    <3> QED BY <1>10, <1>5, <1>n, <2>1, <3>1, <3>2, <3>3 DEF DraftCreated, Calls
  <2>2. CASE wire[r].shape # "good"
    BY <1>10, <2>2, <1>4, <1>n DEF DraftCreated
  <2> QED BY <2>1, <2>2
<1>11. CASE MetasRead(r)
  <2>1. CASE Readable(r)
    <3>1. /\ Merge(wire[r].metas, req[r].metas) \in MetaMaps
          /\ payload' = [payload EXCEPT ![r] = Merge(wire[r].metas, req[r].metas)]
      BY <1>11, <1>w, <2>1, MergeType DEF MetasRead
    <3>2. payload' \in [Requests -> MetaMaps]
      BY <1>n, <3>1
    <3> QED BY <1>11, <1>5, <1>n, <2>1, <3>2 DEF MetasRead, Calls
  <2>2. CASE ~Readable(r)
    BY <1>11, <2>2, <1>4, <1>5, <1>n, <1>a DEF MetasRead, Calls
  <2> QED BY <2>1, <2>2
<1>12. CASE MetasWritten(r) \/ DescriptionWritten(r)
  BY <1>12, <1>5, <1>n
     DEF MetasWritten, DescriptionWritten, Describe, Flip, Calls
<1>13. CASE WriteMetasFailed(r) \/ FlipFailed(r)
  BY <1>13, <1>4, <1>5, <1>a, <1>n DEF WriteMetasFailed, FlipFailed, Calls
<1>14. ASSUME NEW last \in Progress \cup {"alien"}, Conclude(r, last),
         UNCHANGED <<req, todo, tagIds, kid, payload, rollback, stale, remote,
         crashes>>,
         polls' = polls
           \/ (polls' = [polls EXCEPT ![r] = @ + 1] /\ polls[r] < MaxPolls),
         wait' = wait
           \/ \E s \in {"done", "timedOut",
              "failed"} : wait' = [wait EXCEPT ![r] = s]
       PROVE TInv'
  <2>1. ControlType' /\ Others(r) /\ pc'[r] = "done" /\ wire'[r].st = "idle"
    BY <1>w, <1>14, AnswerFacts DEF Outcomes, Conclude
  <2>2. latest' \in [Requests -> Progress \cup {"alien"}]
    BY <1>14, <1>n DEF Conclude
  <2>3. polls' \in [Requests -> 0 .. MaxPolls] /\ \A q \in Requests : q # r
          => polls'[q] = polls[q]
    <3>1. polls \in [Requests -> 0 .. MaxPolls] /\ polls[r] + 1 \in Nat
      BY <1>p DEF TInv, DataType
    <3>2. CASE polls' = polls
      BY <3>1, <3>2
    <3>3. CASE polls' = [polls EXCEPT ![r] = @ + 1] /\ polls[r] < MaxPolls
      <4>1. polls[r] + 1 \in 0 .. MaxPolls
        BY <1>p, <3>1, <3>3
      <4> QED BY <3>1, <3>3, <4>1
    <3> QED BY <1>14, <3>2, <3>3
  <2>4. wait' \in [Requests -> {"none", "done", "timedOut", "failed"}]
    BY <1>14 DEF TInv, DataType
  <2>5. DataType'
    BY <1>14, <2>2, <2>3, <2>4 DEF TInv, DataType
  <2> QED BY <1>14, <2>1, <2>3, <2>5, CoKeeps
<1>t. Told(r) \in Progress \cup {"alien"} /\ latest[r] \in Progress \cup {"alien"}
  BY <1>w, <1>n DEF Told
<1>15. CASE Published(r)
  <2>1. CASE req[r].sync
    <3>1. latest' = [latest EXCEPT ![r] = Told(r)]
      BY <1>15, <2>1 DEF Published
    <3>2. latest' \in [Requests -> Progress \cup {"alien"}]
      BY <1>n, <1>t, <3>1
    <3> QED BY <1>15, <1>5, <1>n, <2>1, <3>2 DEF Published, Calls
  <2>2. CASE ~req[r].sync
    BY <1>15, <1>14, <1>t, <2>2 DEF Published
  <2> QED BY <2>1, <2>2
<1>16. CASE Polled(r)
  <2>0. pc[r] = "poll" /\ polls' = [polls EXCEPT ![r] = polls[r] + 1]
        /\ UNCHANGED <<req, todo, tagIds, kid, payload, rollback, stale, remote,
           crashes>>
    BY <1>16 DEF Polled
  <2>1. ASSUME NEW s \in {"done", "timedOut"}, EndWait(r, s, wire[r].progress)
        PROVE  TInv'
    BY <1>14, <1>p, <1>t, <1>w, <2>0, <2>1 DEF EndWait
  <2>2. CASE polls[r] + 1 < MaxPolls /\ Await(r, "poll")
               /\ UNCHANGED <<wait, latest>>
    <3>1. ControlType' /\ Others(r) /\ pc'[r] = "poll" /\ wire'[r].st = "sent"
      BY <1>w, <2>2, AwaitFacts DEF Calls
    <3>2. polls' \in [Requests -> 0 .. MaxPolls] /\ polls'[r] = polls[r] + 1
          /\ \A q \in Requests : q # r => polls'[q] = polls[q]
      BY <1>p, <2>0, <2>2 DEF TInv, DataType
    <3>3. DataType'
      BY <2>0, <2>2, <3>2 DEF TInv, DataType
    <3> QED BY <2>0, <2>2, <3>1, <3>2, <3>3, CoKeeps DEF Calls
  <2> QED BY <1>16, <2>1, <2>2 DEF Polled
<1>17. CASE PollFailed(r)
  BY <1>17, <1>14, <1>t DEF PollFailed, EndWait
<1>18. CASE RolledBack(r)
  <2>1. rollback' \in [Requests -> {"none", "done", "failed"}]
    BY <1>18, <1>n DEF RolledBack
  <2> QED BY <1>18, <1>4, <2>1 DEF RolledBack
<1> QED BY <1>1, <1>2, <1>6, <1>7, <1>8, <1>9, <1>10, <1>11, <1>12, <1>13,
    <1>15, <1>16, <1>17, <1>18 DEF Coroutine

CallType == [by: Requests, op: Calls, tag: TagNames \cup {NoName}]

\* The awaited call is a call, and a create names a tag.
LEMMA AwaitedType ==
  ASSUME TInv, NEW r \in Requests, pc[r] \in Calls
  PROVE  /\ Awaited(r) \in CallType /\ Awaited(r).by = r /\ Awaited(r).op = pc[r]
         /\ Awaited(r).op = "createTag" => Awaited(r).tag \in TagNames
<1>1. CASE pc[r] \in {"createTag", "findTag"}
  <2>1. todo[r] # << >> /\ Head(todo[r]) # NoName
          /\ todo[r] \in Seq(TagNames \cup {NoName})
    BY <1>1 DEF TInv, Heads, DataType
  <2>2. Head(todo[r]) \in TagNames
    BY <2>1
  <2> QED BY <1>1, <2>2 DEF Awaited, CallType
<1>2. CASE pc[r] \notin {"createTag", "findTag"}
  BY <1>2 DEF Awaited, CallType
<1> QED BY <1>1, <1>2

\* What a served call has done to WeKnora.
Effect(c) ==
  LET a == art[c.by]
      b == art'[c.by]
  IN \/ c.op \in {"createTag", "findTag"} /\ b = a
     \/ c.op \in {"getMetas", "poll"} /\ Present(c.by) /\ b = a
     \/ c.op = "createDraft" /\ a.st = "none" /\ b.st = "draft"
     \/ c.op = "putMetas" /\ Present(c.by) /\ b.st = a.st
          /\ b.metas = payload[c.by]
          /\ b.description = a.description
     \/ c.op = "putDescription" /\ Present(c.by) /\ b.st = a.st
          /\ b.metas = a.metas /\ b.description = TRUE
     \/ c.op = "flip" /\ Present(c.by) /\ b.st = "live" /\ b.metas = a.metas
          /\ b.description = a.description
     \/ c.op = "rollback" /\ Present(c.by) /\ b.st = "deleted"
          /\ b.metas = a.metas
          /\ b.description = a.description

\* Serving a call has the effect named above on its own article only.
LEMMA ApplyFacts ==
  ASSUME TInv, NEW c \in CallType, c.op = "createTag" => c.tag \in TagNames,
         Apply(c)
  PROVE  /\ tags' \subseteq TagNames /\ art' \in [Requests -> Arts] /\ Effect(c)
         /\ \A q \in Requests : q # c.by => art'[q] = art[q]
<1>1. /\ art \in [Requests -> Arts] /\ tags \subseteq TagNames
      /\ c.by \in Requests
      /\ payload[c.by] \in MetaMaps /\ tagIds[c.by] \in Seq(TagNames \cup {NoId})
      /\ [k \in Keys |-> IF k \in DefaultMetas THEN "theirs" ELSE "absent"]
           \in MetaMaps
  BY DEF TInv, RemoteType, DataType, CallType, MetaMaps, Origins
<1> DEFINE a == art[c.by]
<1>2. a \in Arts
  BY <1>1
<1>3. CASE c.op \in {"createTag", "findTag", "getMetas", "poll"}
  BY <1>1, <1>3 DEF Apply, Effect
<1>4. ASSUME NEW b \in Arts, Article(c, b)
      PROVE  tags' \subseteq TagNames /\ art' \in [Requests -> Arts]
               /\ art'[c.by] = b
             /\ \A q \in Requests : q # c.by => art'[q] = art[q]
  BY <1>1, <1>4 DEF Article
<1> HIDE DEF a
<1>5. CASE c.op = "createDraft"
  <2> DEFINE b == [a EXCEPT !.st = "draft", !.tags = tagIds[c.by],
          !.metas = [k \in Keys |-> IF k \in DefaultMetas THEN "theirs"
                                    ELSE "absent"]]
  <2>1. Article(c, b) /\ a.st = "none"
    BY <1>5 DEF Apply, a
  <2>2. b \in Arts /\ b.st = "draft"
    BY <1>1, <1>2 DEF Arts
  <2> HIDE DEF b
  <2> QED BY <1>4, <1>5, <2>1, <2>2 DEF Effect, a
<1>6. CASE c.op = "putMetas"
  <2> DEFINE b == [a EXCEPT !.metas = payload[c.by]]
  <2>1. Article(c, b) /\ Present(c.by)
    BY <1>6 DEF Apply, a
  <2>2. b \in Arts /\ b.st = a.st /\ b.metas = payload[c.by]
          /\ b.description = a.description
    BY <1>1, <1>2 DEF Arts
  <2> HIDE DEF b
  <2> QED BY <1>4, <1>6, <2>1, <2>2 DEF Effect, a
<1>7. CASE c.op = "putDescription"
  <2> DEFINE b == [a EXCEPT !.description = TRUE]
  <2>1. Article(c, b) /\ Present(c.by)
    BY <1>7 DEF Apply, a
  <2>2. b \in Arts /\ b.st = a.st /\ b.metas = a.metas /\ b.description = TRUE
    BY <1>1, <1>2 DEF Arts
  <2> HIDE DEF b
  <2> QED BY <1>4, <1>7, <2>1, <2>2 DEF Effect, a
<1>8. CASE c.op = "flip"
  <2> DEFINE b == [a EXCEPT !.st = "live", !.progress = "pending"]
  <2>1. Article(c, b) /\ Present(c.by)
    BY <1>8 DEF Apply, a
  <2>2. b \in Arts /\ b.st = "live" /\ b.metas = a.metas
          /\ b.description = a.description
    BY <1>1, <1>2 DEF Arts, Progress
  <2> HIDE DEF b
  <2> QED BY <1>4, <1>8, <2>1, <2>2 DEF Effect, a
<1>9. CASE c.op = "rollback"
  <2> DEFINE b == [a EXCEPT !.st = "deleted"]
  <2>1. Article(c, b) /\ Present(c.by)
    BY <1>9 DEF Apply, a
  <2>2. b \in Arts /\ b.st = "deleted" /\ b.metas = a.metas
          /\ b.description = a.description
    BY <1>1, <1>2 DEF Arts
  <2> HIDE DEF b
  <2> QED BY <1>4, <1>9, <2>1, <2>2 DEF Effect, a
<1> QED BY <1>3, <1>5, <1>6, <1>7, <1>8, <1>9 DEF CallType, Calls

\* An awaited call that is served has had its effect and is answered.
LEMMA ServeFacts ==
  ASSUME TInv, NEW r \in Requests, Serve(r)
  PROVE  /\ pc[r] \in Calls /\ pc' = pc /\ answer' = answer
         /\ UNCHANGED <<req, local, stale, crashes>>
         /\ tags' \subseteq TagNames /\ art' \in [Requests -> Arts]
         /\ Effect(Awaited(r))
         /\ \A q \in Requests : q # r => art'[q] = art[q] /\ wire'[q] = wire[q]
         /\ wire' \in [Requests -> Wires] /\ wire'[r].st = "ok"
<1>1. pc[r] \in Calls /\ Apply(Awaited(r))
  BY DEF Serve, TInv, Wired
<1>2. /\ Awaited(r) \in CallType /\ Awaited(r).by = r
      /\ Awaited(r).op = "createTag" => Awaited(r).tag \in TagNames
  BY <1>1, AwaitedType
<1>3. /\ tags' \subseteq TagNames /\ art' \in [Requests -> Arts]
      /\ Effect(Awaited(r))
      /\ \A q \in Requests : q # r => art'[q] = art[q]
  BY <1>1, <1>2, ApplyFacts
<1> DEFINE c == Awaited(r)
<1>4. Ok \in Wires /\ Ok.st = "ok"
  BY WireTypes
<1>5. ASSUME NEW w \in Said(c) \cup {[Ok EXCEPT !.shape = s] : s \in OddShapes}
      PROVE  w \in Wires /\ w.st = "ok"
  <2>1. CASE w \in {[Ok EXCEPT !.shape = s] : s \in OddShapes}
    BY <1>4, <2>1 DEF Wires
  <2>2. CASE w \in Said(c) /\ c.op \in {"createTag", "findTag"}
    <3>1. tags \cap {c.tag} \subseteq TagNames
      BY DEF TInv, RemoteType
    <3> HIDE DEF c
    <3>2. w \in {[Ok EXCEPT !.id = id] : id \in TagNames \cup {NoId}}
      BY <1>2, <2>2, <3>1 DEF Said, c
    <3> QED BY <1>4, <3>2 DEF Wires
  <2>3. CASE w \in Said(c) /\ c.op \notin {"createTag", "findTag"}
    <3>1. art'[c.by].metas \in MetaMaps /\ art'[c.by].progress \in Progress
      BY <1>2, <1>3 DEF Arts
    <3> HIDE DEF c
    <3>2. w = [Ok EXCEPT !.metas = art'[c.by].metas,
          !.progress = art'[c.by].progress]
      BY <2>3 DEF Said
    <3> QED BY <1>4, <3>1, <3>2 DEF Wires
  <2> QED BY <2>1, <2>2, <2>3
<1>6. PICK w \in Wires : w.st = "ok" /\ wire' = [wire EXCEPT ![r] = w]
  BY <1>5 DEF Serve
<1> QED BY <1>1, <1>3, <1>6 DEF Serve, TInv, ControlType

\* The steps of WeKnora, of the network and a crash keep TInv.
LEMMA EnvTInv ==
  ASSUME TInv,
         ServeStale \/ Crash
           \/ \E r \in Requests : Serve(r) \/ Refuse(r) \/ GiveUp(r) \/ Process(r)
  PROVE  TInv'
<1>1. ASSUME NEW r \in Requests, Serve(r) PROVE TInv'
  <2>1. ControlType' /\ DataType' /\ RemoteType'
    BY <1>1, ServeFacts DEF TInv, ControlType, DataType, RemoteType, local
  <2>2. Heads' /\ StaleTags' /\ Waits' /\ Wired'
    BY <1>1, ServeFacts DEF TInv, Heads, StaleTags, Waits, Wired, local
  <2> QED BY <2>1, <2>2 DEF TInv
<1>2. CASE ServeStale
  <2>1. PICK c \in stale : Apply(c) /\ stale' = stale \ {c}
    BY <1>2 DEF ServeStale
  <2>2. c \in CallType /\ (c.op = "createTag" => c.tag \in TagNames)
    BY DEF TInv, RemoteType, StaleTags, CallType
  <2>3. tags' \subseteq TagNames /\ art' \in [Requests -> Arts]
    BY <2>1, <2>2, ApplyFacts
  <2>4. ControlType' /\ DataType' /\ RemoteType'
    BY <1>2, <2>1, <2>3
       DEF ServeStale, TInv, ControlType, DataType, RemoteType, local
  <2>5. Heads' /\ StaleTags' /\ Waits' /\ Wired'
    BY <1>2, <2>1 DEF ServeStale, TInv, Heads, StaleTags, Waits, Wired, local
  <2> QED BY <2>4, <2>5 DEF TInv
<1>3. ASSUME NEW r \in Requests, Refuse(r) PROVE TInv'
  <2>1. ControlType' /\ DataType' /\ RemoteType'
    BY <1>3, WireTypes
       DEF Refuse, TInv, ControlType, DataType, RemoteType, local, remote
  <2>2. Heads' /\ StaleTags' /\ Waits' /\ Wired'
    BY <1>3, WireTypes
       DEF Refuse, TInv, ControlType, Heads, StaleTags, Waits, Wired, local
  <2> QED BY <2>1, <2>2 DEF TInv
<1>4. ASSUME NEW r \in Requests, GiveUp(r) PROVE TInv'
  <2>0. Awaited(r) \in CallType
          /\ (Awaited(r).op = "createTag" => Awaited(r).tag \in TagNames)
    BY <1>4, AwaitedType DEF GiveUp, TInv, Wired
  <2>1. ControlType' /\ DataType' /\ RemoteType'
    BY <1>4, <2>0, WireTypes
       DEF GiveUp, TInv, ControlType, DataType, RemoteType, local, remote,
           CallType
  <2>2. Heads' /\ StaleTags' /\ Waits' /\ Wired'
    BY <1>4, <2>0, WireTypes
       DEF GiveUp, TInv, ControlType, Heads, StaleTags, Waits, Wired, local
  <2> QED BY <2>1, <2>2 DEF TInv
<1>5. ASSUME NEW r \in Requests, Process(r) PROVE TInv'
  <2>1. PICK p \in Progress : art' = [art EXCEPT ![r].progress = p]
    BY <1>5 DEF Process
  <2>2. art' \in [Requests -> Arts]
    BY <2>1 DEF TInv, RemoteType, Arts
  <2>3. ControlType' /\ DataType' /\ RemoteType'
    BY <1>5, <2>2 DEF Process, TInv, ControlType, DataType, RemoteType, local
  <2>4. Heads' /\ StaleTags' /\ Waits' /\ Wired'
    BY <1>5 DEF Process, TInv, Heads, StaleTags, Waits, Wired, local
  <2> QED BY <2>3, <2>4 DEF TInv
<1>6. CASE Crash
  <2>1. \A c \in stale' : c \in CallType
          /\ (c.op = "createTag" => c.tag \in TagNames)
    <3>1. \A q \in Requests : wire[q].st = "sent" =>
            Awaited(q) \in CallType
              /\ (Awaited(q).op = "createTag" => Awaited(q).tag \in TagNames)
      BY AwaitedType DEF TInv, Wired
    <3> QED BY <1>6, <3>1 DEF Crash, TInv, RemoteType, StaleTags, CallType
  <2>2. ControlType'
    BY <1>6, WireTypes DEF Crash, TInv, ControlType, PCs
  <2>3. DataType' /\ RemoteType' /\ StaleTags'
    BY <1>6, <2>1, PublishAssumption
       DEF Crash, TInv, DataType, RemoteType, StaleTags, CallType, local, remote
  <2>4. Heads' /\ Waits'
    BY <1>6 DEF Crash, TInv, ControlType, Heads, Waits, local
  <2>5. Wired'
    BY <1>6, WireTypes DEF Crash, Wired
  <2> QED BY <2>2, <2>3, <2>4, <2>5 DEF TInv
<1> QED BY <1>1, <1>2, <1>3, <1>4, <1>5, <1>6

-----------------------------------------------------------------------------
(* The inductive invariant of the safety properties.                       *)

Before == {"idle", "tags", "createTag", "findTag", "createDraft"}
OnArticle == {"getMetas", "putMetas", "putDescription", "flip", "poll",
              "rollback"}
Served(r, op) == pc[r] = op /\ wire[r].st = "ok"
MetasOn(r) == \A k \in req[r].metas : art[r].metas[k] = "ours"

\* What is settled by where the coroutine is.
Phase(r) ==
  /\ pc[r] \in Before => ~kid[r]
  /\ pc[r] = "idle" => art[r].st = "none"
  /\ pc[r] \notin {"poll", "done", "crashed"} =>
       wait[r] = "none" /\ latest[r] = "unknown"
  /\ pc[r] # "done" => rollback[r] = "none"
  /\ answer[r] = "none" <=> pc[r] # "done"
\* The id of the article is known only of one that exists, and whatever is
\* written to it carries every key of the request.
Ids(r) ==
  /\ pc[r] \in OnArticle => kid[r]
  /\ kid[r] \/ Served(r, "createDraft") => art[r].st # "none"
  /\ kid[r] => \A k \in req[r].metas : payload[r][k] = "ours"
\* What the calls answered so far have put on the article: the flip is sent
\* only for a whole one, and after its answer the article is live.
Steps(r) ==
  /\ Served(r, "putMetas") \/ pc[r] = "putDescription" => MetasOn(r)
  /\ Served(r, "putDescription") => art[r].description
  /\ pc[r] \in {"flip", "poll"} \/ art[r].st = "live" => Whole(r)
  /\ Served(r, "flip") \/ pc[r] = "poll" \/ answer[r] = "ok" => art[r].st = "live"
\* How a request that failed was left.
Ends(r) ==
  /\ Served(r, "rollback") \/ rollback[r] = "done" => art[r].st = "deleted"
  /\ rollback[r] # "none" => wait[r] = "none" /\ polls[r] = 0
  /\ answer[r] = "error" /\ kid[r] /\ RollbackOnFailure =>
       rollback[r] # "none" \/ latest[r] = "alien"
  /\ answer[r] = "error" /\ (wait[r] # "none" \/ polls[r] > 0)
       => latest[r] = "alien"
\* What a call that is out can still do: a late flip finds a whole article, a
\* late rollback is never that of a request answered with success.
StaleOK(c) ==
  /\ pc[c.by] # "idle"
  /\ c.op \in OnArticle => kid[c.by]
  /\ c.op = "rollback" =>
       pc[c.by] \in {"rollback", "done", "crashed"} /\ answer[c.by] # "ok"
  /\ c.op = "flip" => Whole(c.by)

Local(r) == Phase(r) /\ Ids(r) /\ Steps(r) /\ Ends(r)
SInv == (\A r \in Requests : Local(r)) /\ (\A c \in stale : StaleOK(c))

LEMMA InitSInv == Init => SInv
  BY DEF Init, SInv, Local, Phase, Ids, Steps, Ends, StaleOK, Served, Idle,
      Wire, NoArticle, Calls, Before, OnArticle

\* A step of one coroutine leaves the others alone, and WeKnora.
LEMMA CoSafe ==
  ASSUME TInv, SInv, NEW r \in Requests, Others(r),
         UNCHANGED <<req, stale, remote>>,
         pc[r] \notin {"done", "crashed"}, pc'[r] # "idle",
         pc[r] = "rollback" => answer'[r] = "error" /\ pc'[r] = "done",
         \A q \in Requests : q # r =>
           /\ kid'[q] = kid[q] /\ payload'[q] = payload[q]
           /\ latest'[q] = latest[q]
           /\ polls'[q] = polls[q] /\ wait'[q] = wait[q]
           /\ rollback'[q] = rollback[q],
         kid[r] => kid'[r],
         Phase(r)' /\ Ids(r)' /\ Steps(r)' /\ Ends(r)'
  PROVE  SInv'
<1>1. ASSUME NEW q \in Requests, q # r PROVE Local(q)'
  <2>1. Local(q)
    BY DEF SInv
  <2>2. Phase(q)' /\ Ids(q)' /\ Steps(q)' /\ Ends(q)'
    BY <1>1, <2>1
       DEF Local, Phase, Ids, Steps, Ends, Others, Served, Whole, MetasOn,
           remote
  <2> QED BY <2>2 DEF Local
<1>2. ASSUME NEW c \in stale PROVE StaleOK(c)'
  <2>1. StaleOK(c) /\ c.by \in Requests
    BY DEF SInv, TInv, RemoteType
  <2>2. CASE c.by = r
    BY <2>1, <2>2 DEF StaleOK, Whole, remote
  <2>3. CASE c.by # r
    BY <2>1, <2>3 DEF StaleOK, Whole, Others, remote
  <2> QED BY <2>2, <2>3
<1> QED BY <1>1, <1>2 DEF SInv, Local

\* The steps of a coroutine keep SInv.
LEMMA CoSInv ==
  ASSUME TInv, SInv, NEW r \in Requests, Coroutine(r) PROVE SInv'
<1> USE DEF Got, Lost, Readable, local
<1>w. /\ wire[r] \in Wires /\ req[r] \in Bodies /\ ControlType
      /\ wire[r].metas \in MetaMaps /\ req[r].metas \in SUBSET Keys
      /\ kid \in [Requests -> BOOLEAN] /\ payload \in [Requests -> MetaMaps]
      /\ latest \in [Requests -> Progress \cup {"alien"}]
      /\ rollback \in [Requests -> {"none", "done", "failed"}]
      /\ wait \in [Requests -> {"none", "done", "timedOut", "failed"}]
      /\ polls \in [Requests -> 0 .. MaxPolls]
  BY WireFields, BodyFields DEF TInv, ControlType, DataType
<1>l. Phase(r) /\ Ids(r) /\ Steps(r) /\ Ends(r)
  BY DEF SInv, Local
<1>p. pc[r] \notin {"poll", "done", "crashed"} => polls[r] = 0
  BY DEF TInv, Waits
\* Nothing is known of the article yet: tags, and the end of a request without one.
<1>1. ASSUME pc[r] \in Before, pc'[r] \in (Before \ {"idle"}) \cup {"done"},
             wire'[r].st \in {"idle", "sent"}
               \/ (wire'[r] = wire[r] /\ pc[r] = "tags" /\ pc'[r] = "tags"),
             Others(r),
             IF pc'[r] = "done" THEN answer'[r] \in {"error", "SYNC_DISABLED"}
                                ELSE answer'[r] = answer[r],
             UNCHANGED <<req, kid, payload, latest, polls, wait, rollback, stale,
             remote>>
      PROVE SInv'
  <2>1. Phase(r)' /\ Ids(r)' /\ Steps(r)' /\ Ends(r)'
    BY <1>1, <1>l, <1>p
       DEF Phase, Ids, Steps, Ends, Served, Whole, MetasOn, remote, Before,
           OnArticle
  <2> QED BY <1>1, <2>1, CoSafe DEF Before
<1>2. CASE Start(r) \/ TagLoop(r)
  <2>1. UNCHANGED <<req, kid, payload, latest, polls, wait, rollback, stale,
        remote>>
        /\ pc[r] \in {"idle", "tags"}
    BY <1>2 DEF Start, TagLoop
  <2>2. CASE Answer(r, "SYNC_DISABLED")
    BY <1>1, <1>w, <2>1, <2>2, AnswerFacts DEF Outcomes, Before
  <2>3. CASE GoOn(r, "tags")
    BY <1>1, <1>w, <2>1, <2>3, GoOnFacts DEF Before
  <2>4. ASSUME NEW op \in {"createDraft", "createTag"}, Await(r, op)
        PROVE  SInv'
    BY <1>1, <1>w, <2>1, <2>4, AwaitFacts DEF Before, Calls
  <2>5. CASE pc[r] = "tags" /\ UNCHANGED <<pc, wire, answer>>
    BY <1>1, <2>1, <2>5 DEF Before, Others
  <2> QED BY <1>2, <2>2, <2>3, <2>4, <2>5 DEF Start, TagLoop
<1>3. CASE TagCreated(r) \/ TagCreateFailed(r) \/ TagFound(r)
             \/ TagFindFailed(r) \/ DraftFailed(r)
  <2>1. UNCHANGED <<req, kid, payload, latest, polls, wait, rollback, stale,
        remote>>
        /\ pc[r] \in {"createTag", "findTag", "createDraft"}
    BY <1>3
       DEF TagCreated, TagCreateFailed, TagFound, TagFindFailed, DraftFailed
  <2>2. CASE Answer(r, "error")
    BY <1>1, <1>w, <2>1, <2>2, AnswerFacts DEF Outcomes, Before
  <2>3. CASE GoOn(r, "tags")
    BY <1>1, <1>w, <2>1, <2>3, GoOnFacts DEF Before
  <2>4. CASE Await(r, "findTag")
    BY <1>1, <1>w, <2>1, <2>4, AwaitFacts DEF Before, Calls
  <2> QED BY <1>3, <2>2, <2>3, <2>4
     DEF TagCreated, TagCreateFailed, TagFound, TagFindFailed, DraftFailed,
         Resolved
\* On to the next call for an article that is known.
<1>4. ASSUME NEW op \in {"getMetas", "putMetas", "putDescription", "flip"},
             Await(r, op),
             pc[r] \in {"createDraft", "getMetas", "putMetas", "putDescription"},
             kid' = [kid EXCEPT ![r] = TRUE], art[r].st # "none",
             payload' \in [Requests -> MetaMaps], \A q \in Requests : q # r
               => payload'[q] = payload[q],
             \A k \in req[r].metas : payload'[r][k] = "ours",
             op \in {"putDescription", "flip"} => MetasOn(r),
             op = "flip" => Whole(r),
             UNCHANGED <<req, latest, polls, wait, rollback, stale, remote>>
      PROVE SInv'
  <2>1. Others(r) /\ pc'[r] = op /\ wire'[r].st = "sent" /\ answer'[r] = answer[r]
    BY <1>w, <1>4, AwaitFacts DEF Calls
  <2>2. kid'[r] /\ \A q \in Requests : q # r => kid'[q] = kid[q]
    BY <1>w, <1>4
  <2>3. Phase(r)' /\ Ids(r)' /\ Steps(r)' /\ Ends(r)'
    BY <1>4, <1>l, <2>1, <2>2
       DEF Phase, Ids, Steps, Ends, Served, Whole, MetasOn, remote, Before,
           OnArticle
  <2> QED BY <1>4, <2>1, <2>2, <2>3, CoSafe
\* The handlers that give up on an article, or never learnt of it.
<1>5. ASSUME Abort(r),
             pc[r] \in {"getMetas", "putMetas", "putDescription", "flip"},
             UNCHANGED <<req, kid, payload, latest, polls, wait, rollback, stale,
             remote>>
      PROVE SInv'
  <2>1. CASE RollbackOnFailure
    <3>1. Others(r) /\ pc'[r] = "rollback" /\ wire'[r].st = "sent"
            /\ answer'[r] = answer[r]
      BY <1>w, <1>5, <2>1, AwaitFacts DEF Abort, Calls
    <3>2. Phase(r)' /\ Ids(r)' /\ Steps(r)' /\ Ends(r)'
      BY <1>5, <1>l, <3>1
         DEF Phase, Ids, Steps, Ends, Served, Whole, MetasOn, remote, Before,
             OnArticle
    <3> QED BY <1>5, <3>1, <3>2, CoSafe
  <2>2. CASE ~RollbackOnFailure
    <3>1. Others(r) /\ pc'[r] = "done" /\ wire'[r].st = "idle"
            /\ answer'[r] = "error"
      BY <1>w, <1>5, <2>2, AnswerFacts DEF Abort, Outcomes
    <3>2. Phase(r)' /\ Ids(r)' /\ Steps(r)' /\ Ends(r)'
      BY <1>5, <1>l, <1>p, <2>2, <3>1
         DEF Phase, Ids, Steps, Ends, Served, Whole, MetasOn, remote, Before,
             OnArticle
    <3> QED BY <1>5, <3>1, <3>2, CoSafe
  <2> QED BY <2>1, <2>2
<1>6. CASE DraftCreated(r)
  <2>1. CASE wire[r].shape = "good"
    <3>1. /\ kid' = [kid EXCEPT ![r] = TRUE] /\ art[r].st # "none"
          /\ payload' = [payload EXCEPT ![r] = Merge(NoMetas, req[r].metas)]
          /\ Merge(NoMetas, req[r].metas) \in MetaMaps /\ NoMetas \in MetaMaps
          /\ \A k \in req[r].metas : Merge(NoMetas, req[r].metas)[k] = "ours"
      BY <1>6, <1>l, <1>w, <2>1, MergeType
         DEF DraftCreated, Ids, Served, NoMetas, MetaMaps, Origins, Merge
    <3>2. /\ payload' \in [Requests -> MetaMaps] /\ \A q \in Requests : q # r
               => payload'[q] = payload[q]
          /\ \A k \in req[r].metas : payload'[r][k] = "ours"
      BY <1>w, <3>1
    <3>3. \/ Await(r, "getMetas") \/ Await(r, "putMetas")
          \/ Await(r, "putDescription") /\ req[r].metas = {}
          \/ Await(r, "flip") /\ req[r].metas = {} /\ ~req[r].description
      BY <1>6, <2>1 DEF DraftCreated, WriteMetas, Describe, Flip
    <3> QED BY <1>4, <1>6, <3>1, <3>2, <3>3 DEF DraftCreated, MetasOn, Whole
  <2>2. CASE wire[r].shape # "good"
    <3>1. Answer(r, "error")
      BY <1>6, <2>2 DEF DraftCreated
    <3> QED BY <1>1, <1>6, <1>w, <2>2, <3>1, AnswerFacts
       DEF DraftCreated, Outcomes, Before
  <2> QED BY <2>1, <2>2
<1>k. kid[r] => kid = [kid EXCEPT ![r] = TRUE]
  BY <1>w
<1>7. CASE MetasRead(r)
  <2>1. CASE Readable(r)
    <3>1. /\ payload' = [payload EXCEPT ![r] = Merge(wire[r].metas, req[r].metas)]
          /\ Merge(wire[r].metas, req[r].metas) \in MetaMaps
          /\ \A k \in req[r].metas : Merge(wire[r].metas,
             req[r].metas)[k] = "ours"
      BY <1>7, <1>w, <2>1, MergeType DEF MetasRead, Merge
    <3>2. /\ payload' \in [Requests -> MetaMaps] /\ \A q \in Requests : q # r
               => payload'[q] = payload[q]
          /\ \A k \in req[r].metas : payload'[r][k] = "ours"
      BY <1>w, <3>1
    <3> QED BY <1>4, <1>7, <1>k, <1>l, <2>1, <3>2 DEF MetasRead, Ids, OnArticle
  <2>2. CASE ~Readable(r)
    BY <1>5, <1>7, <2>2 DEF MetasRead
  <2> QED BY <2>1, <2>2
<1>8. CASE MetasWritten(r)
  <2>1. MetasOn(r) /\ kid[r] /\ art[r].st # "none"
          /\ \A k \in req[r].metas : payload[r][k] = "ours"
    BY <1>8, <1>l DEF MetasWritten, Steps, Served, Ids, OnArticle
  <2>2. Await(r, "putDescription") \/ (Await(r, "flip") /\ ~req[r].description)
    BY <1>8 DEF MetasWritten, Describe, Flip
  <2> QED BY <1>4, <1>8, <1>k, <1>w, <2>1, <2>2 DEF MetasWritten, Whole, MetasOn
<1>9. CASE DescriptionWritten(r)
  <2>1. MetasOn(r) /\ art[r].description /\ kid[r] /\ art[r].st # "none"
          /\ \A k \in req[r].metas : payload[r][k] = "ours"
    BY <1>9, <1>l DEF DescriptionWritten, Steps, Served, Ids, OnArticle
  <2> QED BY <1>4, <1>9, <1>k, <1>w, <2>1
     DEF DescriptionWritten, Flip, Whole, MetasOn
<1>10. CASE WriteMetasFailed(r) \/ FlipFailed(r)
  BY <1>5, <1>10 DEF WriteMetasFailed, FlipFailed
\* The flip is acknowledged: the article is live, whatever the wait brings.
<1>11. ASSUME NEW last \in Progress \cup {"alien"}, Conclude(r, last),
              Served(r, "flip") \/ pc[r] = "poll",
              UNCHANGED <<req, kid, payload, rollback, stale, remote>>,
              \A q \in Requests : q # r => polls'[q] = polls[q]
                /\ wait'[q] = wait[q]
       PROVE SInv'
  <2>1. Others(r) /\ pc'[r] = "done" /\ wire'[r].st = "idle"
        /\ answer'[r] = (IF last = "alien" THEN "error" ELSE "ok")
    BY <1>11, <1>w, AnswerFacts DEF Conclude, Outcomes
  <2>2. latest'[r] = last /\ \A q \in Requests : q # r => latest'[q] = latest[q]
    BY <1>11, <1>w DEF Conclude
  <2>3. Phase(r)' /\ Ids(r)' /\ Steps(r)' /\ Ends(r)'
    BY <1>11, <1>l, <2>1, <2>2
       DEF Phase, Ids, Steps, Ends, Served, Whole, MetasOn, remote, Before,
           OnArticle
  <2> QED BY <1>11, <2>1, <2>2, <2>3, CoSafe DEF Served
<1>12. ASSUME Await(r, "poll"), Served(r, "flip") \/ pc[r] = "poll",
              UNCHANGED <<req, kid, payload, wait, rollback, stale, remote>>,
              \A q \in Requests : q # r => polls'[q] = polls[q]
                /\ latest'[q] = latest[q]
       PROVE SInv'
  <2>1. Others(r) /\ pc'[r] = "poll" /\ wire'[r].st = "sent"
          /\ answer'[r] = answer[r]
    BY <1>12, <1>w, AwaitFacts DEF Calls
  <2>3. Phase(r)' /\ Ids(r)' /\ Steps(r)' /\ Ends(r)'
    BY <1>12, <1>l, <2>1
       DEF Phase, Ids, Steps, Ends, Served, Whole, MetasOn, remote, Before,
           OnArticle
  <2> QED BY <1>12, <2>1, <2>3, CoSafe DEF Served
<1>t. Told(r) \in Progress \cup {"alien"} /\ latest[r] \in Progress \cup {"alien"}
  BY <1>w, WireFields DEF Told
<1>13. CASE Published(r)
  <2>1. CASE req[r].sync
    BY <1>12, <1>13, <1>w, <2>1 DEF Published, Served
  <2>2. CASE ~req[r].sync
    BY <1>11, <1>13, <1>t, <2>2 DEF Published, Served
  <2> QED BY <2>1, <2>2
<1>14. CASE Polled(r)
  <2>1. ASSUME NEW s \in {"done", "timedOut"}, EndWait(r, s, wire[r].progress)
        PROVE  SInv'
    BY <1>11, <1>14, <1>t, <1>w, <2>1, WireFields DEF EndWait, Polled
  <2>2. CASE Await(r, "poll") /\ UNCHANGED <<wait, latest>>
    BY <1>12, <1>14, <1>w, <2>2 DEF Polled
  <2> QED BY <1>14, <2>1, <2>2 DEF Polled
<1>15. CASE PollFailed(r)
  BY <1>11, <1>15, <1>t, <1>w DEF PollFailed, EndWait
<1>16. CASE RolledBack(r)
  <2>1. Others(r) /\ pc'[r] = "done" /\ wire'[r].st = "idle"
          /\ answer'[r] = "error"
    BY <1>16, <1>w, AnswerFacts DEF RolledBack, Outcomes
  <2>2. rollback'[r] = (IF wire[r].st = "ok" THEN "done" ELSE "failed")
        /\ \A q \in Requests : q # r => rollback'[q] = rollback[q]
    BY <1>16, <1>w DEF RolledBack
  <2>3. Phase(r)' /\ Ids(r)' /\ Steps(r)' /\ Ends(r)'
    BY <1>16, <1>l, <1>p, <2>1, <2>2
       DEF RolledBack, Phase, Ids, Steps, Ends, Served, Whole, MetasOn,
           remote, Before, OnArticle
  <2> QED BY <1>16, <2>1, <2>2, <2>3, CoSafe DEF RolledBack
<1> QED BY <1>2, <1>3, <1>6, <1>7, <1>8, <1>9, <1>10, <1>13, <1>14, <1>15, <1>16
   DEF Coroutine

\* What a served call of a request cannot undo, and what it brings about.
Kept(r) ==
  /\ kid[r] /\ MetasOn(r) => MetasOn(r)'
  /\ kid[r] /\ Whole(r) => Whole(r)'
  /\ kid[r] /\ art[r].description => art'[r].description
  /\ art[r].st # "none" => art'[r].st # "none"
  /\ art[r].st = "deleted" => art'[r].st = "deleted"
  /\ pc[r] = "idle" => art'[r] = art[r]
  /\ art[r].st = "live" /\ (answer[r] = "ok" \/ pc[r] \in {"flip", "poll"}) =>
       art'[r].st = "live"
  /\ art'[r].st = "live" => Whole(r)'

\* No call that is out, awaited or stale, undoes what is kept.
LEMMA CallKeeps ==
  ASSUME TInv, SInv, NEW c \in CallType, StaleOK(c), Effect(c),
         art' \in [Requests -> Arts],
         \A q \in Requests : q # c.by => art'[q] = art[q], UNCHANGED <<req>>
  PROVE  /\ \A r \in Requests : Kept(r)
         /\ c.op = "createDraft" => art'[c.by].st # "none"
         /\ c.op = "putMetas" => MetasOn(c.by)'
         /\ c.op = "putDescription" => art'[c.by].description
         /\ c.op = "flip" => art'[c.by].st = "live"
         /\ c.op = "rollback" => art'[c.by].st = "deleted"
<1>1. ASSUME NEW q \in Requests, q # c.by PROVE Kept(q)
  <2>1. art'[q] = art[q] /\ Local(q)
    BY <1>1 DEF SInv
  <2> QED BY <2>1 DEF Kept, Whole, MetasOn, Local, Steps
<1>2. Local(c.by) /\ c.by \in Requests
  BY DEF SInv, CallType
<1>3. Kept(c.by)
  BY <1>2
     DEF Kept, Effect, StaleOK, Present, Local, Phase, Ids, Steps, Whole,
         MetasOn, OnArticle
<1>4. c.op = "putMetas" => MetasOn(c.by)'
  BY <1>2 DEF Effect, StaleOK, Local, Ids, MetasOn, OnArticle
<1> QED BY <1>1, <1>3, <1>4 DEF Effect

\* A request for which only the article and its own answer moved on.
LEMMA EnvLocal ==
  ASSUME NEW r \in Requests, Local(r), Kept(r),
         UNCHANGED <<req, pc, local, answer>>,
         wire'[r].st = "ok" => wire[r].st = "ok" \/
           /\ pc[r] = "createDraft" => art'[r].st # "none"
           /\ pc[r] = "putMetas" => MetasOn(r)'
           /\ pc[r] = "putDescription" => art'[r].description
           /\ pc[r] = "flip" => art'[r].st = "live"
           /\ pc[r] = "rollback" => art'[r].st = "deleted"
  PROVE  Local(r)'
<1> USE DEF Local, local, Served
<1>1. Phase(r)'
  BY DEF Phase, Kept
<1>2. Ids(r)'
  BY DEF Ids, Kept
<1>3. Steps(r)'
  BY DEF Steps, Kept, Ids, OnArticle
<1>4. Ends(r)'
  BY DEF Ends, Kept
<1> QED BY <1>1, <1>2, <1>3, <1>4

\* The awaited call may become a stale one at any time.
LEMMA AwaitedOK ==
  ASSUME TInv, SInv, NEW r \in Requests, pc[r] \in Calls
  PROVE  /\ Awaited(r) \in CallType /\ Awaited(r).by = r /\ Awaited(r).op = pc[r]
         /\ StaleOK(Awaited(r))
<1>1. Awaited(r) \in CallType /\ Awaited(r).by = r /\ Awaited(r).op = pc[r]
  BY AwaitedType
<1>2. Phase(r) /\ Ids(r) /\ Steps(r)
  BY DEF SInv, Local
<1> QED BY <1>1, <1>2 DEF StaleOK, Phase, Ids, Steps, Calls, OnArticle

\* The steps of WeKnora, of the network and a crash keep SInv.
LEMMA EnvSInv ==
  ASSUME TInv, SInv,
         ServeStale \/ Crash
           \/ \E r \in Requests : Serve(r) \/ Refuse(r) \/ GiveUp(r) \/ Process(r)
  PROVE  SInv'
<1>s. \A c \in stale : c \in CallType /\ StaleOK(c)
  BY DEF SInv, TInv, RemoteType, CallType
\* What the calls that are out rely on stays true.
<1>k. ASSUME NEW c \in CallType, StaleOK(c), Kept(c.by),
             UNCHANGED <<req, pc, local, answer>>
      PROVE  StaleOK(c)'
  BY <1>k DEF StaleOK, Kept, local, OnArticle
<1>1. ASSUME NEW r \in Requests, Serve(r) PROVE SInv'
  <2>0. /\ pc[r] \in Calls /\ UNCHANGED <<req, pc, local, answer, stale>>
        /\ \A q \in Requests : q # r => art'[q] = art[q] /\ wire'[q] = wire[q]
        /\ art' \in [Requests -> Arts] /\ Effect(Awaited(r))
    BY <1>1, ServeFacts
  <2>1. /\ Awaited(r) \in CallType /\ Awaited(r).by = r /\ Awaited(r).op = pc[r]
        /\ StaleOK(Awaited(r))
    BY <2>0, AwaitedOK
  <2>2. /\ \A q \in Requests : Kept(q)
        /\ pc[r] = "createDraft" => art'[r].st # "none"
        /\ pc[r] = "putMetas" => MetasOn(r)'
        /\ pc[r] = "putDescription" => art'[r].description
        /\ pc[r] = "flip" => art'[r].st = "live"
        /\ pc[r] = "rollback" => art'[r].st = "deleted"
    BY <2>0, <2>1, CallKeeps
  <2>3. \A q \in Requests : Local(q)'
    BY <2>0, <2>2, EnvLocal DEF SInv
  <2>4. \A c \in stale' : StaleOK(c)'
    BY <1>s, <1>k, <2>0, <2>2 DEF CallType
  <2> QED BY <2>3, <2>4 DEF SInv
<1>2. CASE ServeStale
  <2>1. PICK c \in stale : Apply(c) /\ stale' = stale \ {c}
    BY <1>2 DEF ServeStale
  <2>2. c \in CallType /\ StaleOK(c) /\ (c.op = "createTag" => c.tag \in TagNames)
    BY <1>s DEF TInv, StaleTags
  <2>3. /\ art' \in [Requests -> Arts] /\ Effect(c)
        /\ \A q \in Requests : q # c.by => art'[q] = art[q]
        /\ UNCHANGED <<req, pc, wire, local, answer>>
    BY <1>2, <2>1, <2>2, ApplyFacts DEF ServeStale
  <2>4. \A q \in Requests : Kept(q)
    BY <2>2, <2>3, CallKeeps
  <2>5. \A q \in Requests : Local(q)'
    BY <2>3, <2>4, EnvLocal DEF SInv
  <2>6. \A d \in stale' : StaleOK(d)'
    BY <1>s, <1>k, <2>1, <2>3, <2>4 DEF CallType
  <2> QED BY <2>5, <2>6 DEF SInv
\* Nothing happens to any article.
<1>u. ASSUME NEW q \in Requests, UNCHANGED <<req, art>> PROVE Kept(q)
  BY <1>u DEF SInv, Local, Steps, Kept, Whole, MetasOn
<1>3. ASSUME NEW r \in Requests, Refuse(r) PROVE SInv'
  <2>1. /\ UNCHANGED <<req, pc, local, answer, stale, art>>
        /\ \A q \in Requests : wire'[q].st = "ok" => wire[q].st = "ok"
    BY <1>3, WireTypes DEF Refuse, remote, TInv, ControlType
  <2>2. \A q \in Requests : Kept(q) /\ Local(q)'
    BY <1>u, <2>1, EnvLocal DEF SInv
  <2> QED BY <1>s, <1>k, <2>1, <2>2 DEF SInv, CallType
<1>4. ASSUME NEW r \in Requests, GiveUp(r) PROVE SInv'
  <2>1. /\ UNCHANGED <<req, pc, local, answer, art>> /\ pc[r] \in Calls
        /\ stale' \subseteq stale \cup {Awaited(r)}
        /\ \A q \in Requests : wire'[q].st = "ok" => wire[q].st = "ok"
    BY <1>4, WireTypes DEF GiveUp, remote, TInv, ControlType, Wired
  <2>2. \A q \in Requests : Kept(q) /\ Local(q)'
    BY <1>u, <2>1, EnvLocal DEF SInv
  <2>3. \A c \in stale' : c \in CallType /\ StaleOK(c)
    BY <1>s, AwaitedOK, <2>1
  <2>4. \A c \in stale' : StaleOK(c)'
    BY <1>k, <2>1, <2>2, <2>3 DEF CallType
  <2> QED BY <2>2, <2>4 DEF SInv
<1>5. ASSUME NEW r \in Requests, Process(r) PROVE SInv'
  <2>1. PICK p \in Progress : art' = [art EXCEPT ![r].progress = p]
    BY <1>5 DEF Process
  <2>2. \A q \in Requests : art'[q].st = art[q].st /\ art'[q].metas = art[q].metas
                            /\ art'[q].description = art[q].description
    BY <2>1 DEF TInv, RemoteType, Arts
  <2>3. UNCHANGED <<req, pc, wire, local, answer, stale>> /\ art[r].st = "live"
        /\ \A q \in Requests : q # r => art'[q] = art[q]
    BY <1>5, <2>1 DEF Process, TInv, RemoteType
  <2>4. \A q \in Requests : Kept(q)
    BY <2>2, <2>3 DEF SInv, Local, Phase, Steps, Kept, Whole, MetasOn
  <2>5. \A q \in Requests : Local(q)'
    BY <2>3, <2>4, EnvLocal DEF SInv
  <2> QED BY <1>s, <1>k, <2>3, <2>4, <2>5 DEF SInv, CallType
<1>6. CASE Crash
  <2>1. /\ UNCHANGED <<req, local, answer, art>>
        /\ \A q \in Requests :
             /\ pc'[q] \in {pc[q], "crashed"} /\ wire'[q].st = "idle"
             /\ pc'[q] = pc[q] \/ Running(q)
             /\ ~Running(q) \/ pc'[q] = "crashed"
    BY <1>6, WireTypes DEF Crash, remote
  <2>2. \A q \in Requests : Local(q)'
    BY <2>1
       DEF SInv, Local, Phase, Ids, Steps, Ends, Served, Whole, MetasOn,
           Running, local, Before, OnArticle
  <2>3. \A c \in stale' : c \in CallType /\ StaleOK(c)
    <3>1. \A q \in Requests : wire[q].st = "sent" => pc[q] \in Calls
      BY DEF TInv, Wired
    <3> QED BY <1>6, <1>s, AwaitedOK, <3>1 DEF Crash
  <2>4. \A c \in stale' : StaleOK(c)'
    BY <2>1, <2>3 DEF StaleOK, CallType, Running, Whole, local, OnArticle
  <2> QED BY <2>2, <2>4 DEF SInv
<1> QED BY <1>1, <1>2, <1>3, <1>4, <1>5, <1>6

-----------------------------------------------------------------------------
(* The theorems.                                                           *)

IInv == TInv /\ SInv

LEMMA NextIInv == IInv /\ [Next]_vars => IInv'
<1> SUFFICES ASSUME IInv, [Next]_vars PROVE IInv'
  OBVIOUS
<1>1. ASSUME NEW r \in Requests, Coroutine(r) PROVE IInv'
  BY <1>1, CoTInv, CoSInv DEF IInv
<1>2. CASE ServeStale \/ Crash
           \/ \E r \in Requests : Serve(r) \/ Refuse(r) \/ GiveUp(r) \/ Process(r)
  BY <1>2, EnvTInv, EnvSInv DEF IInv
<1>3. CASE UNCHANGED vars
  <2>1. TInv'
    BY <1>3
       DEF vars, local, remote, IInv, TInv, ControlType, DataType, RemoteType,
           Heads, StaleTags, Waits, Wired
  <2>2. SInv'
    BY <1>3
       DEF vars, local, remote, IInv, SInv, Local, Phase, Ids, Steps, Ends,
           StaleOK, Served, Whole, MetasOn
  <2> QED BY <2>1, <2>2 DEF IInv
<1> QED BY <1>1, <1>2, <1>3 DEF Next

LEMMA AlwaysIInv == Spec => []IInv
<1>1. Init => IInv
  BY InitTInv, InitSInv DEF IInv
<1> QED BY <1>1, NextIInv, PTL DEF Spec

\* The variables keep their types, whatever calls are lost or late.
THEOREM TypeCorrect == Spec => []TypeOK
<1>1. IInv => TypeOK
  BY TypeParts DEF IInv, TInv
<1> QED BY <1>1, AlwaysIInv, PTL

\* An article goes live, and stays, with all the metadata and the description
\* publish was asked to write.
THEOREM LiveIsWhole == Spec => []PublishedWhole
<1>1. IInv => PublishedWhole
  BY DEF IInv, SInv, Local, Steps, PublishedWhole
<1> QED BY <1>1, AlwaysIInv, PTL

\* No call still out withdraws an article whose publish was answered with
\* success.
THEOREM AckedIsLive == Spec => []AckedStaysLive
<1>1. IInv => AckedStaysLive
  BY DEF IInv, SInv, Local, Steps, AckedStaysLive
<1> QED BY <1>1, AlwaysIInv, PTL

\* After an error an article is left only for the reasons _maybe_rollback and
\* the handlers around it give.
THEOREM FailuresAccounted == Spec => []FailureAccountedFor
<1>1. IInv => FailureAccountedFor
  BY DEF IInv, TInv, DataType, SInv, Local, Ends, FailureAccountedFor, Present
<1> QED BY <1>1, AlwaysIInv, PTL

\* Nothing that happens in _wait undoes or fails a publish.
THEOREM WaitIsHarmless == Spec => []WaitNeverFailsPublish
<1>1. IInv => WaitNeverFailsPublish
  <2> SUFFICES ASSUME IInv, NEW r \in Requests, wait[r] # "none" \/ polls[r] > 0
               PROVE  /\ rollback[r] = "none" /\ pc[r] # "rollback"
                      /\ answer[r] = "error" => latest[r] = "alien"
    BY DEF WaitNeverFailsPublish
  <2>1. Phase(r) /\ Ends(r)
    BY DEF IInv, SInv, Local
  <2>2. polls[r] \in Nat /\ (pc[r] = "rollback" => polls[r] = 0)
    <3>1. polls[r] \in 0 .. MaxPolls
      BY DEF IInv, TInv, DataType
    <3> QED BY <3>1, PublishAssumption DEF IInv, TInv, Waits
  <2> QED BY <2>1, <2>2 DEF Phase, Ends
<1> QED BY <1>1, AlwaysIInv, PTL

\* One step of a coroutine, as the caller and WeKnora see it.
LEMMA CoMoves ==
  ASSUME TInv, NEW r \in Requests, Coroutine(r)
  PROVE  /\ Others(r) /\ UNCHANGED <<req, stale, remote>>
         /\ pc[r] \notin {"done", "crashed"} /\ pc'[r] \notin {"idle", "crashed"}
<1> USE DEF Got, Lost, Calls
<1>0. UNCHANGED <<req, stale, remote>> /\ pc[r] \notin {"done", "crashed"}
  BY DEF Coroutine, Start, TagLoop, TagCreated, TagCreateFailed, TagFound,
      TagFindFailed, DraftCreated, DraftFailed,
     MetasRead, MetasWritten, DescriptionWritten, WriteMetasFailed, Published,
     FlipFailed, Polled, PollFailed, RolledBack
<1>1. ASSUME NEW op \in Calls, Await(r, op)
      PROVE Others(r) /\ pc'[r] \notin {"idle", "crashed"}
  BY <1>1, AwaitFacts DEF TInv
<1>2. ASSUME NEW a \in Outcomes, Answer(r, a)
      PROVE Others(r) /\ pc'[r] \notin {"idle", "crashed"}
  BY <1>2, AnswerFacts DEF TInv
<1>3. ASSUME GoOn(r, "tags") PROVE Others(r) /\ pc'[r] \notin {"idle", "crashed"}
  BY <1>3, GoOnFacts DEF TInv
<1>4. ASSUME NEW last \in Progress \cup {"alien"}, Conclude(r, last)
      PROVE Others(r) /\ pc'[r] \notin {"idle", "crashed"}
  BY <1>4, <1>2 DEF Conclude, Outcomes
<1>5. Told(r) \in Progress \cup {"alien"}
        /\ latest[r] \in Progress \cup {"alien"} /\ wire[r].progress \in Progress
  BY WireFields DEF TInv, ControlType, DataType, Told
<1>6. ASSUME NEW s \in {"done", "timedOut", "failed"}, NEW p \in Progress,
             EndWait(r, s, p)
      PROVE Others(r) /\ pc'[r] \notin {"idle", "crashed"}
  BY <1>4, <1>5, <1>6 DEF EndWait
<1>7. CASE Start(r) \/ TagLoop(r)
  BY <1>1, <1>2, <1>3, <1>7 DEF Start, TagLoop, Outcomes, Others
<1>8. CASE TagCreated(r) \/ TagCreateFailed(r) \/ TagFound(r)
             \/ TagFindFailed(r) \/ DraftFailed(r)
  BY <1>1, <1>2, <1>3, <1>8
     DEF TagCreated, TagCreateFailed, TagFound, TagFindFailed, DraftFailed,
         Resolved, Outcomes
<1>9. CASE DraftCreated(r) \/ MetasRead(r) \/ MetasWritten(r)
             \/ DescriptionWritten(r) \/ WriteMetasFailed(r) \/ FlipFailed(r)
  BY <1>1, <1>2, <1>9
     DEF DraftCreated, MetasRead, MetasWritten, DescriptionWritten,
         WriteMetasFailed, FlipFailed, Abort, WriteMetas, Describe, Flip, Outcomes
<1>10. CASE Published(r) \/ Polled(r) \/ PollFailed(r) \/ RolledBack(r)
  BY <1>1, <1>2, <1>4, <1>5, <1>6, <1>10
     DEF Published, Polled, PollFailed, RolledBack, Outcomes, Progress
<1> QED BY <1>0, <1>7, <1>8, <1>9, <1>10 DEF Coroutine

\* Wherever the wait stands, a step of the request keeps statuses it has told.
THEOREM StatusesKept == Spec => StatusesNeverWiped
<1> DEFINE Keeps == \A r \in Requests : latest[r] # "unknown" => latest'[r] # "unknown"
<1>1. ASSUME IInv, [Next]_vars PROVE Keeps
  <2> USE <1>1
  <2>0. latest \in [Requests -> Progress \cup {"alien"}]
          /\ \A r \in Requests : pc[r] \notin {"poll", "done", "crashed"}
                                   => latest[r] = "unknown"
    BY DEF IInv, TInv, DataType, SInv, Local, Phase
  <2>1. CASE latest' = latest
    BY <2>1
  <2>2. ASSUME NEW r \in Requests, Published(r) PROVE Keeps
    <3>1. latest[r] = "unknown"
            /\ \E l \in Progress \cup {"alien"} : latest' = [latest EXCEPT ![r] = l]
      <4>1. Told(r) \in Progress \cup {"alien"}
        BY WireFields DEF IInv, TInv, ControlType, Told
      <4> QED BY <2>0, <2>2, <4>1 DEF Published, Conclude, Got
    <3> QED BY <2>0, <3>1
  <2>3. ASSUME NEW r \in Requests, NEW s, NEW p, EndWait(r, s, p) PROVE Keeps
    BY <2>0, <2>3 DEF EndWait, Conclude
  <2>4. ASSUME NEW r \in Requests, Polled(r) \/ PollFailed(r) PROVE Keeps
    BY <2>1, <2>3, <2>4 DEF Polled, PollFailed
  <2>5. ASSUME NEW r \in Requests, Coroutine(r) PROVE Keeps
    <3>1. CASE Published(r) \/ Polled(r) \/ PollFailed(r)
      BY <2>2, <2>4, <3>1
    <3>2. CASE ~(Published(r) \/ Polled(r) \/ PollFailed(r))
      <4>1. latest' = latest
        BY <2>5, <3>2
           DEF Coroutine, local, Start, TagLoop, TagCreated, TagCreateFailed,
               TagFound, TagFindFailed, DraftCreated, DraftFailed, MetasRead,
               MetasWritten, DescriptionWritten, WriteMetasFailed, FlipFailed,
               RolledBack
      <4> QED BY <2>1, <4>1
    <3> QED BY <3>1, <3>2
  <2>6. CASE UNCHANGED vars \/ ServeStale \/ Crash
               \/ \E r \in Requests : Serve(r) \/ Refuse(r) \/ GiveUp(r) \/ Process(r)
    BY <2>1, <2>6 DEF vars, local, ServeStale, Crash, Serve, Refuse, GiveUp, Process
  <2> QED BY <2>5, <2>6 DEF Next
<1>2. IInv /\ [Next]_vars =>
        [\A r \in Requests : latest[r] # "unknown" => latest'[r] # "unknown"]_vars
  BY <1>1
<1> QED BY <1>2, AlwaysIInv, PTL DEF Spec, StatusesNeverWiped

\* What WeKnora wrote of its own is in the article, in what a good answer says
\* of it, and in the payload of a write that is awaited or still out.
Theirs(m) == \A k \in DefaultMetas : m[k] # "absent"
Merging == MergeMetas /\ "empty" \notin OddShapes
Unwritten == Before \cup {"getMetas"}
MergeLocal(r) ==
  /\ art[r].st # "none" => Theirs(art[r].metas)
  /\ Served(r, "getMetas") /\ wire[r].shape = "good" => Theirs(wire[r].metas)
  /\ pc[r] = "putMetas" => Theirs(payload[r])
MergeInv ==
  /\ \A r \in Requests : MergeLocal(r)
  /\ \A c \in stale : c.op = "putMetas" =>
       pc[c.by] \notin Unwritten /\ Theirs(payload[c.by])

\* A served call leaves WeKnora's own keys on the article.
LEMMA ApplyKeepsTheirs ==
  ASSUME TInv, NEW c \in CallType, c.op = "createTag" => c.tag \in TagNames,
         Apply(c), art[c.by].st # "none" => Theirs(art[c.by].metas),
         c.op = "putMetas" => Theirs(payload[c.by])
  PROVE  art'[c.by].st # "none" => Theirs(art'[c.by].metas)
<1>1. Effect(c) /\ c.by \in Requests /\ art \in [Requests -> Arts]
  BY ApplyFacts DEF CallType, TInv, RemoteType
<1>2. CASE c.op = "createDraft"
  <2>1. art'[c.by].metas = [k \in Keys |-> IF k \in DefaultMetas THEN "theirs"
                                           ELSE "absent"]
    BY <1>1, <1>2 DEF Apply, Article, Arts
  <2> QED BY <2>1, PublishAssumption DEF Theirs
<1>3. CASE c.op = "putDescription"
  BY <1>1, <1>3 DEF Effect, Present
<1>4. CASE c.op \notin {"createDraft", "putDescription"}
  BY <1>1, <1>4 DEF Effect, Present
<1> QED BY <1>2, <1>3, <1>4

\* Only two answers change the payload of a request, and a write is begun with
\* what one of them brought.
LEMMA CoKeepsTheirs ==
  ASSUME TInv, MergeInv, Merging, NEW r \in Requests, Coroutine(r)
  PROVE  MergeInv'
<1>0. /\ Others(r) /\ UNCHANGED <<req, stale, remote>>
      /\ pc[r] \notin {"done", "crashed"} /\ pc'[r] \notin {"idle", "crashed"}
  BY CoMoves
<1>t. ControlType /\ wire[r].shape \in {"good", "alien"}
  <2>1. wire[r] \in Wires /\ ControlType
    BY DEF TInv, ControlType
  <2>2. wire[r].shape \in {"good"} \cup OddShapes
    BY <2>1 DEF Wires
  <2>3. OddShapes \subseteq {"alien"}
    BY PublishAssumption DEF Merging
  <2> QED BY <2>1, <2>2, <2>3
<1>1. /\ pc'[r] = "putMetas" => Theirs(payload'[r])
      /\ pc'[r] = "getMetas" => wire'[r].st # "ok"
      /\ pc[r] \notin Unwritten => pc'[r] \notin Unwritten /\ payload' = payload
      /\ \A q \in Requests : q # r => payload'[q] = payload[q]
  <2> USE DEF Got, Lost, Unwritten, Before
  <2>1. ASSUME NEW op \in Calls, Await(r, op)
        PROVE  pc'[r] = op /\ wire'[r].st = "sent"
    BY <1>t, <2>1, AwaitFacts
  <2>2. ASSUME NEW a \in Outcomes, Answer(r, a) PROVE pc'[r] = "done"
    BY <1>t, <2>2, AnswerFacts
  <2>3. ASSUME GoOn(r, "tags") PROVE pc'[r] = "tags"
    BY <1>t, <2>3, GoOnFacts
  <2>4. CASE DraftCreated(r)
    <3>1. payload \in [Requests -> MetaMaps]
      BY DEF TInv, DataType
    <3> QED BY <2>1, <2>2, <2>4, <3>1
       DEF DraftCreated, WriteMetas, Describe, Flip, Merging, Calls, Outcomes
  <2>5. CASE MetasRead(r)
    <3>1. CASE Readable(r)
      <4>1. Theirs(wire[r].metas) /\ payload \in [Requests -> MetaMaps]
        BY <1>t, <2>5, <3>1
           DEF MetasRead, MergeInv, MergeLocal, Served, Readable, TInv, DataType
      <4>2. Theirs(Merge(wire[r].metas, req[r].metas))
        BY <4>1, PublishAssumption DEF Theirs, Merge
      <4> QED BY <2>1, <2>5, <3>1, <4>1, <4>2 DEF MetasRead, Calls
    <3>2. CASE ~Readable(r)
      BY <2>1, <2>2, <2>5, <3>2 DEF MetasRead, Abort, Calls, Outcomes
    <3> QED BY <3>1, <3>2
  <2>6. CASE Start(r) \/ TagLoop(r) \/ TagCreated(r) \/ TagCreateFailed(r)
               \/ TagFound(r) \/ TagFindFailed(r) \/ DraftFailed(r)
    <3>1. pc[r] \in Unwritten /\ payload' = payload
      BY <2>6 DEF Start, TagLoop, TagCreated, TagCreateFailed, TagFound,
           TagFindFailed, DraftFailed, local
    <3>2. pc'[r] \in {"done", "tags", "createDraft", "createTag", "findTag"}
      BY <2>1, <2>2, <2>3, <2>6
         DEF Start, TagLoop, TagCreated, TagCreateFailed, TagFound,
             TagFindFailed, DraftFailed, Resolved, Calls, Outcomes
    <3> QED BY <3>1, <3>2
  <2>7. CASE MetasWritten(r) \/ DescriptionWritten(r) \/ WriteMetasFailed(r)
               \/ FlipFailed(r) \/ RolledBack(r)
    <3>1. pc'[r] \in {"done", "rollback", "putDescription", "flip"}
      BY <2>1, <2>2, <2>7
         DEF MetasWritten, DescriptionWritten, WriteMetasFailed, FlipFailed,
             RolledBack, Abort, Describe, Flip, Calls, Outcomes
    <3>2. payload' = payload
      BY <2>7 DEF MetasWritten, DescriptionWritten, WriteMetasFailed,
           FlipFailed, RolledBack, local
    <3> QED BY <3>1, <3>2
  <2>8. CASE Published(r) \/ Polled(r) \/ PollFailed(r)
    <3>1. pc'[r] \in {"done", "poll"} /\ payload' = payload
      BY <2>1, <2>2, <2>8
         DEF Published, Polled, PollFailed, EndWait, Conclude, Calls, Outcomes
    <3> QED BY <3>1
  <2> QED BY <2>4, <2>5, <2>6, <2>7, <2>8 DEF Coroutine
<1>2. \A q \in Requests : MergeLocal(q)'
  <2>1. MergeLocal(r)'
    BY <1>0, <1>1 DEF MergeInv, MergeLocal, Served, remote
  <2>2. ASSUME NEW q \in Requests, q # r PROVE MergeLocal(q)'
    BY <1>0, <1>1, <2>2 DEF MergeInv, MergeLocal, Served, Others, remote
  <2> QED BY <2>1, <2>2
<1>3. \A c \in stale : c.op = "putMetas" =>
        pc'[c.by] \notin Unwritten /\ Theirs(payload'[c.by])
  BY <1>0, <1>1 DEF MergeInv, Others, TInv, RemoteType
<1> QED BY <1>0, <1>2, <1>3 DEF MergeInv, Unwritten

\* The steps of WeKnora, of the network and a crash keep WeKnora's own keys.
LEMMA EnvKeepsTheirs ==
  ASSUME TInv, MergeInv, Merging,
         UNCHANGED vars \/ ServeStale \/ Crash
           \/ \E r \in Requests : Serve(r) \/ Refuse(r) \/ GiveUp(r) \/ Process(r)
  PROVE  MergeInv'
<1> USE DEF MergeInv, MergeLocal, Served, local, remote
<1>a. \A q \in Requests : Awaited(q).by = q /\ Awaited(q).op = pc[q]
  BY DEF Awaited
<1>1. ASSUME NEW r \in Requests, Serve(r) PROVE MergeInv'
  <2>1. /\ pc[r] \in Calls /\ pc' = pc /\ UNCHANGED <<payload, stale>>
        /\ \A q \in Requests : q # r => art'[q] = art[q] /\ wire'[q] = wire[q]
    BY <1>1, ServeFacts
  <2>2. /\ Awaited(r) \in CallType /\ Apply(Awaited(r))
        /\ Awaited(r).op = "createTag" => Awaited(r).tag \in TagNames
    BY <1>1, <2>1, AwaitedType DEF Serve
  <2>3. art'[r].st # "none" => Theirs(art'[r].metas)
    BY <1>a, <2>2, ApplyKeepsTheirs
  <2>4. pc[r] = "getMetas" /\ wire'[r].shape = "good" => Theirs(wire'[r].metas)
    <3> SUFFICES ASSUME pc[r] = "getMetas", wire'[r].shape = "good"
                 PROVE  Theirs(wire'[r].metas)
      OBVIOUS
    <3>1. art[r].st # "none" /\ art'[r] = art[r]
      BY <1>a, <2>2 DEF Apply, Present
    <3>2. wire'[r].metas = art'[r].metas
      <4>1. PICK w \in Said(Awaited(r))
                       \cup {[Ok EXCEPT !.shape = s] : s \in OddShapes} :
                wire' = [wire EXCEPT ![r] = w]
        BY <1>1 DEF Serve
      <4>2. wire'[r] = w
        BY <4>1 DEF TInv, ControlType
      <4>3. w \notin {[Ok EXCEPT !.shape = s] : s \in OddShapes}
        BY <4>2, PublishAssumption DEF Ok, Idle, Wire
      <4>4. w = [Ok EXCEPT !.metas = art'[r].metas, !.progress = art'[r].progress]
        BY <1>a, <4>1, <4>3 DEF Said
      <4> QED BY <4>2, <4>4 DEF Ok, Idle, Wire
    <3> QED BY <2>3, <3>1, <3>2
  <2>5. \A q \in Requests : MergeLocal(q)'
    BY <2>1, <2>3, <2>4
  <2> QED BY <2>1, <2>5
<1>2. CASE ServeStale
  <2>1. PICK c \in stale : Apply(c) /\ stale' = stale \ {c}
    BY <1>2 DEF ServeStale
  <2>2. c \in CallType /\ (c.op = "createTag" => c.tag \in TagNames)
          /\ c.by \in Requests
    BY DEF TInv, RemoteType, StaleTags, CallType
  <2>3. art'[c.by].st # "none" => Theirs(art'[c.by].metas)
    BY <2>1, <2>2, ApplyKeepsTheirs
  <2>4. \A q \in Requests : q # c.by => art'[q] = art[q]
    BY <2>1, <2>2, ApplyFacts
  <2> QED BY <1>2, <2>1, <2>3, <2>4 DEF ServeStale
<1>3. ASSUME NEW r \in Requests, Refuse(r) \/ GiveUp(r) PROVE MergeInv'
  <2>1. wire \in [Requests -> Wires] /\ wire' = [wire EXCEPT ![r] = Failed]
          /\ UNCHANGED <<pc, payload, art>>
    BY <1>3 DEF Refuse, GiveUp, TInv, ControlType
  <2>2. \A q \in Requests : MergeLocal(q)'
    BY <2>1, WireTypes
  <2>3. \A c \in stale' : c.op = "putMetas" =>
          c \in stale \/ (c.by = r /\ pc[r] = "putMetas")
    BY <1>3, <1>a DEF Refuse, GiveUp
  <2> QED BY <2>1, <2>2, <2>3 DEF Unwritten, Before
<1>4. ASSUME NEW r \in Requests, Process(r) PROVE MergeInv'
  <2>1. PICK p \in Progress : art' = [art EXCEPT ![r].progress = p]
    BY <1>4 DEF Process
  <2>2. \A q \in Requests : art'[q].st = art[q].st /\ art'[q].metas = art[q].metas
    BY <2>1 DEF TInv, RemoteType, Arts
  <2> QED BY <1>4, <2>2 DEF Process
<1>5. CASE Crash
  <2>1. /\ UNCHANGED <<payload, art>>
        /\ \A q \in Requests : wire'[q].st = "idle" /\ pc'[q] \in {pc[q], "crashed"}
    BY <1>5, WireTypes DEF Crash
  <2>2. \A q \in Requests : MergeLocal(q)'
    BY <2>1
  <2>3. \A c \in stale' : c.op = "putMetas" =>
          c.by \in Requests
            /\ (c \in stale \/ (pc[c.by] = "putMetas" /\ pc'[c.by] \notin Unwritten))
    BY <1>5, <1>a, <2>1 DEF Crash, TInv, RemoteType, Unwritten, Before
  <2> QED BY <2>1, <2>2, <2>3 DEF Unwritten, Before
<1>6. CASE UNCHANGED vars
  BY <1>6 DEF vars
<1> QED BY <1>1, <1>2, <1>3, <1>4, <1>5, <1>6

\* Merging never drops a key WeKnora had put on the article, however late its
\* write of the metadata is served.
THEOREM MergeIsKind == Spec => []MergeKeepsTheirs
<1>1. Init => MergeInv
  BY DEF Init, MergeInv, MergeLocal, Served, Idle, Wire, NoArticle
<1>2. ASSUME Merging PROVE IInv /\ MergeInv /\ [Next]_vars => MergeInv'
  BY <1>2, CoKeepsTheirs, EnvKeepsTheirs DEF IInv, Next
<1>3. MergeInv => MergeKeepsTheirs
  BY DEF MergeInv, MergeLocal, Theirs, MergeKeepsTheirs
<1>4. CASE Merging
  <2>1. IInv /\ MergeInv /\ [Next]_vars => MergeInv'
    BY <1>2, <1>4
  <2> QED BY <1>1, <1>3, <2>1, AlwaysIInv, PTL DEF Spec
<1>5. CASE ~Merging
  <2>1. MergeKeepsTheirs
    BY <1>5 DEF Merging, MergeKeepsTheirs
  <2> QED BY <2>1, PTL
<1> QED BY <1>4, <1>5

-----------------------------------------------------------------------------
(* The tags.                                                               *)

\* Places count up with the names that are not empty.
LEMMA Places ==
  ASSUME NEW S, NEW names \in Seq(S)
  PROVE  /\ Place(names, 0) = 0
         /\ \A k \in 0 .. Len(names) : Place(names, k) \in Nat
         /\ \A k \in 0 .. Len(names) - 1 :
              Place(names, k + 1) = IF names[k + 1] # NoName THEN Place(names, k) + 1
                                                             ELSE Place(names, k)
         /\ \A k \in 0 .. Len(names) : \A i \in 1 .. k :
              names[i] # NoName => Place(names, i) \in 1 .. Place(names, k)
<1> DEFINE Full(k) == {j \in 1 .. k : names[j] # NoName}
<1>1. ASSUME NEW k \in Nat PROVE IsFiniteSet(Full(k)) /\ Cardinality(Full(k)) \in Nat
  <2>1. IsFiniteSet(1 .. k)
    BY FS_Interval
  <2>2. Full(k) \in SUBSET (1 .. k)
    OBVIOUS
  <2> QED BY <2>1, <2>2, FS_Subset, FS_CardinalityType
<1>2. Place(names, 0) = 0
  <2>1. Full(0) = {}
    OBVIOUS
  <2> QED BY <2>1, FS_EmptySet DEF Place
<1>3. ASSUME NEW k \in 0 .. Len(names) - 1
      PROVE  Place(names, k + 1) = IF names[k + 1] # NoName THEN Place(names, k) + 1
                                                            ELSE Place(names, k)
  <2>1. k \in Nat /\ k + 1 \notin Full(k)
    OBVIOUS
  <2>2. CASE names[k + 1] # NoName
    <3>1. Full(k + 1) = Full(k) \cup {k + 1}
      BY <2>1, <2>2
    <3> QED BY <1>1, <2>1, <2>2, <3>1, FS_AddElement DEF Place
  <2>3. CASE names[k + 1] = NoName
    <3>1. Full(k + 1) = Full(k)
      BY <2>1, <2>3
    <3> QED BY <2>3, <3>1 DEF Place
  <2> QED BY <2>2, <2>3
<1>4. ASSUME NEW k \in 0 .. Len(names), NEW i \in 1 .. k, names[i] # NoName
      PROVE  Place(names, i) \in 1 .. Place(names, k)
  <2>1. i \in Nat /\ k \in Nat /\ Full(i) \in SUBSET Full(k) /\ i \in Full(i)
    BY <1>4
  <2>2. Cardinality(Full(i)) <= Cardinality(Full(k)) /\ Cardinality(Full(i)) # 0
    BY <1>1, <2>1, FS_Subset, FS_EmptySet
  <2>3. Place(names, i) = Cardinality(Full(i)) /\ Place(names, k) = Cardinality(Full(k))
    BY DEF Place
  <2>4. Cardinality(Full(i)) \in Nat /\ Cardinality(Full(k)) \in Nat
    BY <1>1, <2>1
  <2> HIDE DEF Full
  <2> QED BY <2>2, <2>3, <2>4
<1>5. ASSUME NEW k \in 0 .. Len(names) PROVE Place(names, k) \in Nat
  <2>1. k \in Nat /\ Place(names, k) = Cardinality(Full(k))
    BY DEF Place
  <2> QED BY <1>1, <2>1
<1> QED BY <1>2, <1>3, <1>4, <1>5

\* One more name: an empty one adds nothing, another its id.
LEMMA AttachNext ==
  ASSUME NEW S, NEW names \in Seq(S), NEW T, NEW ids \in Seq(T), NEW id \in T,
         NEW k \in 0 .. Len(names) - 1, Attached(names, k, ids)
  PROVE  /\ names[k + 1] = NoName => Attached(names, k + 1, ids)
         /\ names[k + 1] # NoName /\ id \in {names[k + 1], NoId} =>
              Attached(names, k + 1, Append(ids, id))
<1> USE DEF Attached
<1>1. \A i \in 1 .. k + 1 : i \in 1 .. k \/ i = k + 1
  OBVIOUS
<1>2. /\ Place(names, k) \in Nat
      /\ Place(names, k + 1) = IF names[k + 1] # NoName THEN Place(names, k) + 1
                                                        ELSE Place(names, k)
      /\ \A i \in 1 .. k : names[i] # NoName => Place(names, i) \in 1 .. Place(names, k)
  <2>1. Len(names) \in Nat /\ k \in 0 .. Len(names)
    OBVIOUS
  <2> QED BY <2>1, Places
<1>3. CASE names[k + 1] = NoName
  BY <1>1, <1>2, <1>3
<1>4. CASE names[k + 1] # NoName /\ id \in {names[k + 1], NoId}
  <2> DEFINE more == Append(ids, id)
  <2>1. /\ Len(more) = Len(ids) + 1 /\ more[Len(ids) + 1] = id
        /\ \A i \in 1 .. Len(ids) : more[i] = ids[i]
    OBVIOUS
  <2> HIDE DEF more
  <2>2. Attached(names, k + 1, more)
    BY <1>1, <1>2, <1>4, <2>1
  <2> QED BY <1>4, <2>2 DEF more
<1> QED BY <1>3, <1>4

\* The loop has resolved the first k names and has the rest to do; what an awaited
\* answer says of the next is its id, or None.  The draft is made, now or late,
\* of all of them.
Left(names, k, rest) ==
  /\ Len(rest) = Len(names) - k
  /\ \A i \in 1 .. Len(rest) : rest[i] = names[k + i]
InLoop == {"tags", "createTag", "findTag"}
Drafting(r) ==
  \/ art[r].st # "none" \/ pc[r] = "createDraft"
  \/ \E c \in stale : c.by = r /\ c.op = "createDraft"
TagLocal(r) ==
  /\ pc[r] = "idle" => tagIds[r] = << >>
  /\ pc[r] \in InLoop => \E k \in 0 .. Len(req[r].tags) :
       Left(req[r].tags, k, todo[r]) /\ Attached(req[r].tags, k, tagIds[r])
  /\ pc[r] \in {"createTag", "findTag"} => wire[r].id \in {Head(todo[r]), NoId}
  /\ Drafting(r) => /\ pc[r] \notin InLoop \cup {"idle"}
                    /\ Attached(req[r].tags, Len(req[r].tags), tagIds[r])
  /\ art[r].st # "none" => art[r].tags = tagIds[r]
TagInv == \A r \in Requests : TagLocal(r)

\* Taking the next name off the loop.
LEMMA LeftNext ==
  ASSUME NEW S, NEW names \in Seq(S), NEW rest \in Seq(S), rest # << >>,
         NEW k \in 0 .. Len(names), Left(names, k, rest)
  PROVE  /\ k \in 0 .. Len(names) - 1 /\ Head(rest) = names[k + 1]
         /\ Left(names, k + 1, Tail(rest))
<1>1. Len(rest) > 0 /\ Head(rest) = rest[1] /\ Len(Tail(rest)) = Len(rest) - 1
      /\ \A i \in 1 .. Len(Tail(rest)) : Tail(rest)[i] = rest[i + 1]
  OBVIOUS
<1> DEFINE t == Tail(rest)
<1> HIDE DEF t
<1>2. Len(rest) \in Nat /\ Len(names) \in Nat
  OBVIOUS
<1>3. \A i \in 1 .. Len(t) : i + 1 \in 1 .. Len(rest) /\ k + (i + 1) = (k + 1) + i
  BY <1>1, <1>2 DEF t
<1> QED BY <1>1, <1>2, <1>3 DEF Left, t

\* Serving a call gives the tags to a new article and changes no other's.
LEMMA ApplyTags ==
  ASSUME TInv, NEW c \in CallType, c.op = "createTag" => c.tag \in TagNames, Apply(c)
  PROVE  \A q \in Requests :
           \/ art'[q].st # "none" /\ art[q].st # "none" /\ art'[q].tags = art[q].tags
           \/ art'[q] = art[q]
           \/ q = c.by /\ c.op = "createDraft" /\ art'[q].tags = tagIds[q]
<1>1. /\ Effect(c) /\ c.by \in Requests /\ art \in [Requests -> Arts]
      /\ \A q \in Requests : q # c.by => art'[q] = art[q]
  BY ApplyFacts DEF CallType, TInv, RemoteType
<1>2. art[c.by] \in Arts
  BY <1>1
<1>3. CASE c.op = "createDraft"
  <2>1. art'[c.by] = [art[c.by] EXCEPT !.st = "draft", !.tags = tagIds[c.by],
          !.metas = [k \in Keys |-> IF k \in DefaultMetas THEN "theirs"
                                    ELSE "absent"]]
    BY <1>1, <1>3 DEF Apply, Article
  <2>2. art'[c.by].tags = tagIds[c.by]
    BY <1>2, <2>1 DEF Arts
  <2> QED BY <1>1, <1>3, <2>2
<1>4. CASE c.op \in {"createTag", "findTag", "getMetas", "poll"}
  BY <1>1, <1>4 DEF Effect
<1>5. CASE c.op \in {"putMetas", "putDescription", "flip", "rollback"}
  <2>1. art'[c.by].tags = art[c.by].tags
    <3>1. CASE c.op = "putMetas"
      <4>1. art'[c.by] = [art[c.by] EXCEPT !.metas = payload[c.by]]
        BY <1>1, <3>1 DEF Apply, Article
      <4> QED BY <1>2, <4>1 DEF Arts
    <3>2. CASE c.op = "putDescription"
      <4>1. art'[c.by] = [art[c.by] EXCEPT !.description = TRUE]
        BY <1>1, <3>2 DEF Apply, Article
      <4> QED BY <1>2, <4>1 DEF Arts
    <3>3. CASE c.op = "flip"
      <4>1. art'[c.by] = [art[c.by] EXCEPT !.st = "live", !.progress = "pending"]
        BY <1>1, <3>3 DEF Apply, Article
      <4> QED BY <1>2, <4>1 DEF Arts
    <3>4. CASE c.op = "rollback"
      <4>1. art'[c.by] = [art[c.by] EXCEPT !.st = "deleted"]
        BY <1>1, <3>4 DEF Apply, Article
      <4> QED BY <1>2, <4>1 DEF Arts
    <3> QED BY <1>5, <3>1, <3>2, <3>3, <3>4
  <2>2. art'[c.by].st # "none" /\ art[c.by].st # "none"
    BY <1>1, <1>5 DEF Effect, Present
  <2> QED BY <1>1, <2>1, <2>2
<1> QED BY <1>1, <1>3, <1>4, <1>5 DEF CallType, Calls

\* The steps of a coroutine keep TagInv: the loop resolves one name after the other.
LEMMA CoKeepsTags ==
  ASSUME TInv, TagInv, NEW r \in Requests, Coroutine(r)
  PROVE  TagInv'
<1> USE DEF Got, Lost, InLoop
<1> DEFINE names == req[r].tags
<1>0. /\ Others(r) /\ UNCHANGED <<req, stale, remote>>
      /\ pc[r] \notin {"done", "crashed"} /\ pc'[r] \notin {"idle", "crashed"}
  BY CoMoves
<1>t. /\ ControlType /\ names \in Seq(TagNames \cup {NoName})
      /\ todo \in [Requests -> Seq(TagNames \cup {NoName})]
      /\ tagIds \in [Requests -> Seq(TagNames \cup {NoId})]
      /\ wire[r].id \in TagNames \cup {NoId} /\ TagLocal(r)
  BY BodyFields, WireFields DEF TInv, ControlType, DataType, TagInv
<1>w. Sent.id = NoId
  BY DEF Sent, Idle, Wire
<1>1. ASSUME NEW op \in Calls, Await(r, op)
      PROVE  pc'[r] = op /\ wire'[r].id = NoId
  BY <1>t, <1>1, <1>w, AwaitFacts DEF Await, ControlType
<1>2. ASSUME NEW a \in Outcomes, Answer(r, a) PROVE pc'[r] = "done"
  BY <1>t, <1>2, AnswerFacts
<1>3. ASSUME GoOn(r, "tags") PROVE pc'[r] = "tags"
  BY <1>t, <1>3, GoOnFacts
<1>4. ASSUME UNCHANGED <<todo, tagIds>>,
             \/ pc'[r] = "done"
             \/ pc'[r] \notin InLoop \cup {"createDraft"} /\ pc[r] \notin InLoop \cup {"idle"}
             \/ pc'[r] = "findTag" /\ pc[r] = "createTag" /\ wire'[r].id = NoId
      PROVE  TagLocal(r)'
  BY <1>0, <1>t, <1>4 DEF TagLocal, Drafting, remote
<1>5. TagLocal(r)' /\ \A q \in Requests : q # r => tagIds'[q] = tagIds[q] /\ todo'[q] = todo[q]
  <2>1. CASE Start(r)
    <3>1. CASE req[r].sync /\ ~AllowSync
      BY <1>2, <1>4, <2>1, <3>1 DEF Start, Outcomes
    <3>2. CASE ~(req[r].sync /\ ~AllowSync)
      <4>1. pc'[r] = "tags" /\ todo' = [todo EXCEPT ![r] = names] /\ tagIds' = tagIds
        BY <1>3, <2>1, <3>2 DEF Start
      <4>2. ~Drafting(r)' /\ art'[r].st = "none" /\ tagIds[r] = << >>
        BY <1>0, <1>t, <2>1, <4>1 DEF Start, TagLocal, Drafting, remote
      <4>3. Left(names, 0, names) /\ Attached(names, 0, << >>)
        BY <1>t, Places DEF Left, Attached
      <4>4. 0 \in 0 .. Len(names)
        BY <1>t
      <4> QED BY <1>0, <1>t, <4>1, <4>2, <4>3, <4>4 DEF TagLocal
    <3> QED BY <3>1, <3>2
  <2>2. CASE TagLoop(r)
    <3>0. pc[r] = "tags" /\ tagIds' = tagIds /\ ~Drafting(r)
      BY <1>t, <2>2 DEF TagLoop, TagLocal
    <3>1. PICK k \in 0 .. Len(names) : Left(names, k, todo[r]) /\ Attached(names, k, tagIds[r])
      BY <1>t, <3>0 DEF TagLocal
    <3>2. CASE todo[r] = << >> /\ Await(r, "createDraft") /\ UNCHANGED todo
      <4>1. pc'[r] = "createDraft"
        BY <1>1, <3>2 DEF Calls
      <4>2. k = Len(names)
        BY <1>t, <3>1, <3>2 DEF Left
      <4> QED BY <1>0, <3>0, <3>1, <3>2, <4>1, <4>2 DEF TagLocal, Drafting, remote
    <3>3. CASE /\ todo[r] # << >> /\ Head(todo[r]) = NoName
               /\ todo' = [todo EXCEPT ![r] = Tail(@)] /\ UNCHANGED <<pc, wire, answer>>
      <4>1. /\ k \in 0 .. Len(names) - 1 /\ Head(todo[r]) = names[k + 1]
            /\ Left(names, k + 1, Tail(todo[r])) /\ todo'[r] = Tail(todo[r])
            /\ \A q \in Requests : q # r => todo'[q] = todo[q]
        <5>1. /\ k \in 0 .. Len(names) - 1 /\ Head(todo[r]) = names[k + 1]
              /\ Left(names, k + 1, Tail(todo[r]))
          BY <1>t, <3>1, <3>3, LeftNext
        <5> QED BY <1>t, <3>3, <5>1
      <4>2. Attached(names, k + 1, tagIds[r])
        BY <1>t, <3>1, <3>3, <4>1, AttachNext
      <4>3. k + 1 \in 0 .. Len(names)
        BY <1>t, <4>1
      <4> QED BY <1>0, <3>0, <3>3, <4>1, <4>2, <4>3 DEF TagLocal, Drafting, remote
    <3>4. CASE todo[r] # << >> /\ Await(r, "createTag") /\ UNCHANGED todo
      <4>1. pc'[r] = "createTag" /\ wire'[r].id = NoId
        BY <1>1, <3>4 DEF Calls
      <4> QED BY <1>0, <3>0, <3>1, <3>4, <4>1 DEF TagLocal, Drafting, remote
    <3> QED BY <2>2, <3>2, <3>3, <3>4 DEF TagLoop
  <2>3. ASSUME pc[r] \in {"createTag", "findTag"}, Resolved(r, wire[r].id)
        PROVE  TagLocal(r)' /\ \A q \in Requests :
                 q # r => tagIds'[q] = tagIds[q] /\ todo'[q] = todo[q]
    <3>0. todo[r] # << >> /\ Head(todo[r]) # NoName /\ ~Drafting(r)
      BY <1>t, <2>3 DEF TInv, Heads, TagLocal
    <3>1. PICK k \in 0 .. Len(names) : Left(names, k, todo[r]) /\ Attached(names, k, tagIds[r])
      BY <1>t, <2>3 DEF TagLocal
    <3>2. /\ k \in 0 .. Len(names) - 1 /\ Head(todo[r]) = names[k + 1]
          /\ Left(names, k + 1, Tail(todo[r]))
      BY <1>t, <3>0, <3>1, LeftNext
    <3>3. wire[r].id \in {names[k + 1], NoId}
      BY <1>t, <2>3, <3>2 DEF TagLocal
    <3>4. Attached(names, k + 1, Append(tagIds[r], wire[r].id)) /\ k + 1 \in 0 .. Len(names)
      <4>1. Attached(names, k + 1, Append(tagIds[r], wire[r].id))
        BY <1>t, <3>0, <3>1, <3>2, <3>3, AttachNext
      <4> HIDE DEF names
      <4> QED BY <1>t, <3>2, <4>1
    <3>5. /\ pc'[r] = "tags" /\ todo'[r] = Tail(todo[r])
          /\ tagIds'[r] = Append(tagIds[r], wire[r].id)
          /\ \A q \in Requests : q # r => tagIds'[q] = tagIds[q] /\ todo'[q] = todo[q]
      BY <1>3, <1>t, <2>3 DEF Resolved
    <3> QED BY <1>0, <3>0, <3>2, <3>4, <3>5 DEF TagLocal, Drafting, remote
  <2>4. CASE TagCreated(r) \/ TagFound(r)
    BY <1>2, <1>4, <2>3, <2>4 DEF TagCreated, TagFound, Outcomes
  <2>5. CASE TagCreateFailed(r)
    BY <1>1, <1>4, <2>5 DEF TagCreateFailed, local, Calls
  <2>6. CASE TagFindFailed(r) \/ DraftFailed(r) \/ RolledBack(r)
    BY <1>2, <1>4, <2>6 DEF TagFindFailed, DraftFailed, RolledBack, local, Outcomes
  <2>7. CASE DraftCreated(r) \/ MetasRead(r) \/ MetasWritten(r) \/ DescriptionWritten(r)
               \/ WriteMetasFailed(r) \/ FlipFailed(r)
    <3>1. pc[r] \notin InLoop \cup {"idle"} /\ UNCHANGED <<todo, tagIds>>
      BY <2>7 DEF DraftCreated, MetasRead, MetasWritten, DescriptionWritten,
           WriteMetasFailed, FlipFailed, local
    <3>2. pc'[r] \in {"done", "getMetas", "putMetas", "putDescription", "flip", "rollback"}
      BY <1>1, <1>2, <2>7
         DEF DraftCreated, MetasRead, MetasWritten, DescriptionWritten, WriteMetasFailed,
             FlipFailed, Abort, WriteMetas, Describe, Flip, Calls, Outcomes
    <3> QED BY <1>4, <3>1, <3>2
  <2>8. CASE Published(r) \/ Polled(r) \/ PollFailed(r)
    <3>1. pc'[r] \in {"done", "poll"} /\ UNCHANGED <<todo, tagIds>> /\ pc[r] \in {"flip", "poll"}
      BY <1>1, <1>2, <2>8
         DEF Published, Polled, PollFailed, EndWait, Conclude, Calls, Outcomes
    <3> QED BY <1>4, <3>1
  <2> QED BY <2>1, <2>2, <2>4, <2>5, <2>6, <2>7, <2>8 DEF Coroutine
<1>6. ASSUME NEW q \in Requests, q # r PROVE TagLocal(q)'
  <2>1. /\ pc'[q] = pc[q] /\ wire'[q] = wire[q] /\ TagLocal(q)
        /\ tagIds'[q] = tagIds[q] /\ todo'[q] = todo[q]
    BY <1>0, <1>5, <1>6 DEF Others, TagInv
  <2> QED BY <1>0, <2>1 DEF TagLocal, Drafting, remote
<1> QED BY <1>5, <1>6 DEF TagInv

\* The steps of WeKnora, of the network and a crash keep TagInv.
LEMMA EnvKeepsTags ==
  ASSUME TInv, TagInv,
         UNCHANGED vars \/ ServeStale \/ Crash
           \/ \E r \in Requests : Serve(r) \/ Refuse(r) \/ GiveUp(r) \/ Process(r)
  PROVE  TagInv'
<1> USE DEF local, remote, InLoop
<1>a. \A q \in Requests :
        /\ Awaited(q).by = q /\ Awaited(q).op = pc[q]
        /\ pc[q] \in {"createTag", "findTag"} => Awaited(q).tag = Head(todo[q])
  BY DEF Awaited
<1>1. ASSUME NEW r \in Requests, Serve(r) PROVE TagInv'
  <2>1. /\ pc[r] \in Calls /\ pc' = pc /\ UNCHANGED <<req, todo, tagIds, stale>>
        /\ \A q \in Requests : q # r => art'[q] = art[q] /\ wire'[q] = wire[q]
    BY <1>1, ServeFacts
  <2>2. /\ Awaited(r) \in CallType /\ Apply(Awaited(r))
        /\ Awaited(r).op = "createTag" => Awaited(r).tag \in TagNames
    BY <1>1, <2>1, AwaitedType DEF Serve
  <2>3. \A q \in Requests :
          \/ art'[q].st # "none" /\ art[q].st # "none" /\ art'[q].tags = art[q].tags
          \/ art'[q] = art[q]
          \/ q = r /\ pc[r] = "createDraft" /\ art'[q].tags = tagIds[q]
    BY <1>a, <2>2, ApplyTags
  <2>4. pc[r] \in {"createTag", "findTag"} => wire'[r].id \in {Head(todo[r]), NoId}
    <3> SUFFICES ASSUME pc[r] \in {"createTag", "findTag"}
                 PROVE  wire'[r].id \in {Head(todo[r]), NoId}
      OBVIOUS
    <3>1. PICK w \in Said(Awaited(r)) \cup {[Ok EXCEPT !.shape = s] : s \in OddShapes} :
            wire' = [wire EXCEPT ![r] = w]
      BY <1>1 DEF Serve
    <3>2. wire'[r] = w
      BY <3>1 DEF TInv, ControlType
    <3>3. CASE w \in {[Ok EXCEPT !.shape = s] : s \in OddShapes}
      BY <3>2, <3>3 DEF Ok, Idle, Wire
    <3>4. CASE w \in Said(Awaited(r))
      <4>1. PICK id \in {NoId, Head(todo[r])} : w = [Ok EXCEPT !.id = id]
        BY <1>a, <3>4 DEF Said
      <4> QED BY <3>2, <4>1 DEF Ok, Idle, Wire
    <3> QED BY <3>1, <3>3, <3>4
  <2>5. \A q \in Requests : TagLocal(q)'
    BY <2>1, <2>3, <2>4 DEF TagInv, TagLocal, Drafting
  <2> QED BY <2>5 DEF TagInv
<1>2. CASE ServeStale
  <2>1. PICK c \in stale : Apply(c) /\ stale' = stale \ {c}
    BY <1>2 DEF ServeStale
  <2>2. c \in CallType /\ (c.op = "createTag" => c.tag \in TagNames)
    BY DEF TInv, RemoteType, StaleTags, CallType
  <2>3. \A q \in Requests :
          \/ art'[q].st # "none" /\ art[q].st # "none" /\ art'[q].tags = art[q].tags
          \/ art'[q] = art[q]
          \/ q = c.by /\ c.op = "createDraft" /\ art'[q].tags = tagIds[q]
    BY <2>1, <2>2, ApplyTags
  <2>4. UNCHANGED <<req, pc, wire, todo, tagIds>>
    BY <1>2 DEF ServeStale
  <2>5. \A q \in Requests : Drafting(q)' => Drafting(q)
    BY <2>1, <2>3, <2>4 DEF Drafting
  <2>6. \A q \in Requests : TagLocal(q)'
    BY <2>3, <2>4, <2>5 DEF TagInv, TagLocal
  <2> QED BY <2>6 DEF TagInv
<1>3. ASSUME NEW r \in Requests, Refuse(r) \/ GiveUp(r) PROVE TagInv'
  <2>1. /\ wire \in [Requests -> Wires] /\ wire' = [wire EXCEPT ![r] = Failed]
        /\ UNCHANGED <<req, pc, todo, tagIds, art>>
    BY <1>3 DEF Refuse, GiveUp, TInv, ControlType
  <2>2. wire'[r].id = NoId /\ \A q \in Requests : q # r => wire'[q] = wire[q]
    BY <2>1 DEF Failed, Idle, Wire
  <2>3. \A c \in stale' : c \in stale \/ (c.by = r /\ c.op = pc[r])
    BY <1>3, <1>a DEF Refuse, GiveUp
  <2>4. \A q \in Requests : Drafting(q)' => Drafting(q)
    BY <2>1, <2>3 DEF Drafting
  <2>5. \A q \in Requests : TagLocal(q)'
    BY <2>1, <2>2, <2>4 DEF TagInv, TagLocal
  <2> QED BY <2>5 DEF TagInv
<1>4. ASSUME NEW r \in Requests, Process(r) PROVE TagInv'
  <2>1. PICK p \in Progress : art' = [art EXCEPT ![r].progress = p]
    BY <1>4 DEF Process
  <2>2. \A q \in Requests : art'[q].st = art[q].st /\ art'[q].tags = art[q].tags
    BY <2>1 DEF TInv, RemoteType, Arts
  <2> QED BY <1>4, <2>2 DEF Process, TagInv, TagLocal, Drafting
<1>5. CASE Crash
  <2>1. /\ UNCHANGED <<req, todo, tagIds, art>>
        /\ \A q \in Requests : pc'[q] = IF Running(q) THEN "crashed" ELSE pc[q]
    BY <1>5 DEF Crash
  <2>2. \A q \in Requests : pc'[q] \notin InLoop \cup {"createDraft"}
                            /\ (pc'[q] = "idle" => pc[q] = "idle")
    BY <2>1 DEF Running
  <2>3. \A c \in stale' :
          c \in stale \/ (c.by \in Requests /\ c.op = pc[c.by])
    BY <1>5, <1>a DEF Crash
  <2>4. \A q \in Requests : Drafting(q)' => Drafting(q)
    BY <2>1, <2>2, <2>3 DEF Drafting
  <2>5. \A q \in Requests : TagLocal(q)'
    BY <2>1, <2>2, <2>4 DEF TagInv, TagLocal
  <2> QED BY <2>5 DEF TagInv
<1>6. CASE UNCHANGED vars
  BY <1>6 DEF vars, TagInv, TagLocal, Drafting
<1> QED BY <1>1, <1>2, <1>3, <1>4, <1>5, <1>6

\* Every article carries the tags its request named, in their order, none lost and
\* none in another's place, though creates fail, race and come late.
THEOREM TagsAreAttached == Spec => []TagsAttached
<1>1. Init => TagInv
  BY DEF Init, TagInv, TagLocal, Drafting, InLoop, Idle, Wire, NoArticle
<1>2. IInv /\ TagInv /\ [Next]_vars => TagInv'
  BY CoKeepsTags, EnvKeepsTags DEF IInv, Next
<1>3. TagInv => TagsAttached
  BY DEF TagInv, TagLocal, Drafting, TagsAttached
<1> QED BY <1>1, <1>2, <1>3, AlwaysIInv, PTL DEF Spec

-----------------------------------------------------------------------------
(* Publish implements PublishContract: each step is one of its, or a       *)
(* stutter.                                                                *)

phases == [r \in Requests |-> PhaseOf(r)]
shelves == [r \in Requests |-> ShelfOf(r)]

LEMMA ContractInit == Init => Contract!Init
  BY DEF Init, Contract!Init, PhaseOf, ShelfOf, NoArticle

\* A step of a coroutine begins or ends a request, or is not seen.
LEMMA CoContract ==
  ASSUME IInv, IInv', NEW r \in Requests, Coroutine(r)
  PROVE  [Contract!Next]_(Contract!vars)
<1>1. /\ Others(r) /\ UNCHANGED <<req, remote>>
      /\ pc[r] \notin {"done", "crashed"} /\ pc'[r] \notin {"idle", "crashed"}
  BY CoMoves DEF IInv
<1>2. shelves' = shelves /\ \A q \in Requests : q # r => PhaseOf(q)' = PhaseOf(q)
  BY <1>1 DEF Others, shelves, ShelfOf, PhaseOf, Whole, remote
<1>3. phases' = [phases EXCEPT ![r] = PhaseOf(r)']
  BY <1>2 DEF phases
<1>4. PhaseOf(r) \in {"idle", "working"}
  BY <1>1 DEF IInv, SInv, Local, Phase, PhaseOf
<1>5. PhaseOf(r)' \in {"working", "error"}
        \/ (PhaseOf(r)' = "ok" /\ art'[r].st = "live" /\ PhaseOf(r) = "working")
  <2>1. PhaseOf(r)' \in {"working", "error", "ok"}
    BY <1>1 DEF PhaseOf
  <2>2. PhaseOf(r)' = "ok" => art'[r].st = "live"
    BY DEF PhaseOf, IInv, SInv, Local, Steps
  <2>3. PhaseOf(r)' = "ok" /\ PhaseOf(r) = "idle" => FALSE
    <3>1. ASSUME PhaseOf(r) = "idle" PROVE art[r].st = "none"
      BY <3>1, <1>1 DEF PhaseOf, IInv, SInv, Local, Phase
    <3> QED BY <1>1, <2>2, <3>1 DEF remote
  <2> QED BY <1>4, <2>1, <2>2, <2>3
<1>6. PhaseOf(r)' = "ok" => shelves[r] = "live"
  BY <1>1, <1>5 DEF shelves, ShelfOf, remote
<1>7. phases[r] = PhaseOf(r)
  BY DEF phases
<1> QED BY <1>2, <1>3, <1>4, <1>5, <1>6, <1>7
  DEF Contract!Next, Contract!vars, Contract!Begin, Contract!Decline,
      Contract!Fail, Contract!Succeed, Contract!End, Contract!Phase, phases,
      shelves

\* A served call moves one article along, or is not seen.
LEMMA EnvContract ==
  ASSUME IInv, IInv', UNCHANGED <<req, pc, answer>>, NEW c \in CallType,
         StaleOK(c), Effect(c), art' \in [Requests -> Arts],
         \A q \in Requests : q # c.by => art'[q] = art[q]
  PROVE  [Contract!Next]_(Contract!vars)
<1> DEFINE r == c.by
<1>0. r \in Requests /\ Local(r) /\ Local(r)'
  BY DEF CallType, IInv, SInv
<1>1. phases' = phases
  BY DEF phases, PhaseOf
<1>2. shelves' = [shelves EXCEPT ![r] = ShelfOf(r)']
        /\ shelves[r] = ShelfOf(r) /\ phases[r] = PhaseOf(r)
  <2>1. ASSUME NEW q \in Requests, q # r PROVE ShelfOf(q)' = ShelfOf(q)
    <3>1. art'[q] = art[q] /\ req' = req
      BY <2>1
    <3> QED BY <3>1 DEF ShelfOf, Whole
  <2> QED BY <1>0, <2>1 DEF shelves, phases
<1>3. Kept(r)
  BY <1>0, CallKeeps DEF IInv
<1>4. CASE ShelfOf(r)' = ShelfOf(r)
  <2>1. shelves' = shelves
    BY <1>2, <1>4 DEF shelves
  <2> QED BY <1>1, <2>1 DEF Contract!vars, phases, shelves
<1>5. CASE ShelfOf(r)' # ShelfOf(r)
  <2>1. /\ art[r] \in Arts /\ art[r].st \in {"none", "draft", "live", "deleted"}
        /\ art'[r].st \in {"none", "draft", "live", "deleted"}
    BY <1>0 DEF IInv, TInv, RemoteType, Arts
  <2>2. PhaseOf(r) \in {"working", "error", "cut"}
    BY <1>0, <1>3, <1>5, <2>1 DEF PhaseOf, StaleOK, Local, Steps, Kept, ShelfOf
  <2>3. \/ ShelfOf(r) = "absent" /\ ShelfOf(r)' \in {"draft", "whole"}
        \/ ShelfOf(r) = "draft" /\ ShelfOf(r)' = "whole"
        \/ ShelfOf(r) = "whole" /\ ShelfOf(r)' = "live"
        \/ ShelfOf(r) \in {"draft", "whole", "live"} /\ ShelfOf(r)' = "deleted"
    <3>1. c.op \in {"createTag", "findTag", "getMetas", "poll"}
            => ShelfOf(r)' = ShelfOf(r)
      BY DEF Effect, ShelfOf, Whole
    <3>2. c.op = "createDraft" => art[r].st = "none" /\ art'[r].st = "draft"
      BY DEF Effect
    <3>3. c.op \in {"putMetas", "putDescription"} =>
            kid[r] /\ art'[r].st = art[r].st /\ art[r].st \in {"draft", "live"}
      BY DEF Effect, Present, StaleOK, OnArticle
    <3>4. c.op = "flip" => kid[r] /\ Whole(r)
            /\ art[r].st \in {"draft", "live"} /\ art'[r].st = "live"
      BY DEF Effect, Present, StaleOK, OnArticle
    <3>5. c.op = "rollback" => art[r].st \in {"draft", "live"}
            /\ art'[r].st = "deleted"
      BY DEF Effect, Present
    <3>6. c.op \in {"createTag", "findTag", "getMetas", "poll", "createDraft",
                    "putMetas", "putDescription", "flip", "rollback"}
      BY DEF CallType, Calls
    <3>7. kid[r] /\ Whole(r) => Whole(r)'
      BY <1>3 DEF Kept
    <3> QED BY <1>5, <3>1, <3>2, <3>3, <3>4, <3>5, <3>6, <3>7 DEF ShelfOf
  <2>4. \/ Contract!Shelve(r, {"absent"}, {"draft", "whole"})
        \/ Contract!Shelve(r, {"draft"}, {"whole"})
        \/ Contract!Shelve(r, {"whole"}, {"live"})
        \/ Contract!Shelve(r, {"draft", "whole", "live"}, {"deleted"})
    BY <1>1, <1>2, <2>2, <2>3 DEF Contract!Shelve, phases, shelves
  <2> QED BY <1>0, <2>4
     DEF Contract!Next, Contract!Create, Contract!Complete, Contract!GoLive,
         Contract!Withdraw
<1> QED BY <1>4, <1>5

LEMMA NextContract == IInv /\ IInv' /\ [Next]_vars
  => [Contract!Next]_(Contract!vars)
<1> SUFFICES ASSUME IInv, IInv', [Next]_vars PROVE [Contract!Next]_(Contract!vars)
  OBVIOUS
<1>1. ASSUME NEW r \in Requests, Coroutine(r)
      PROVE [Contract!Next]_(Contract!vars)
  BY <1>1, CoContract
<1>2. ASSUME NEW r \in Requests, Serve(r) PROVE [Contract!Next]_(Contract!vars)
  <2>1. /\ pc[r] \in Calls /\ UNCHANGED <<req, pc, answer>>
        /\ \A q \in Requests : q # r => art'[q] = art[q]
        /\ art' \in [Requests -> Arts] /\ Effect(Awaited(r))
    BY <1>2, ServeFacts DEF IInv
  <2>2. Awaited(r) \in CallType /\ Awaited(r).by = r /\ StaleOK(Awaited(r))
    BY <2>1, AwaitedOK DEF IInv
  <2> QED BY <2>1, <2>2, EnvContract
<1>3. CASE ServeStale
  <2>1. PICK c \in stale : Apply(c)
    BY <1>3 DEF ServeStale
  <2>2. c \in CallType /\ StaleOK(c) /\ (c.op = "createTag" => c.tag \in TagNames)
    BY DEF IInv, SInv, TInv, RemoteType, CallType, StaleTags
  <2>3. art' \in [Requests -> Arts] /\ Effect(c)
          /\ \A q \in Requests : q # c.by => art'[q] = art[q]
    BY <2>1, <2>2, ApplyFacts DEF IInv
  <2> QED BY <1>3, <2>2, <2>3, EnvContract DEF ServeStale
<1>4. ASSUME UNCHANGED <<req, pc, answer>>,
             \A q \in Requests : /\ art'[q].st = art[q].st
                                 /\ art'[q].metas = art[q].metas
                                 /\ art'[q].description = art[q].description
      PROVE  [Contract!Next]_(Contract!vars)
  BY <1>4 DEF Contract!vars, PhaseOf, ShelfOf, Whole
<1>5. ASSUME NEW r \in Requests, Refuse(r) \/ GiveUp(r) \/ Process(r)
      PROVE [Contract!Next]_(Contract!vars)
  <2>1. CASE Refuse(r) \/ GiveUp(r)
    BY <1>4, <2>1 DEF Refuse, GiveUp, remote
  <2>2. CASE Process(r)
    <3>1. PICK p \in Progress : art' = [art EXCEPT ![r].progress = p]
      BY <2>2 DEF Process
    <3>2. \A q \in Requests : /\ art'[q].st = art[q].st
                              /\ art'[q].metas = art[q].metas
                              /\ art'[q].description = art[q].description
      BY <3>1 DEF IInv, TInv, RemoteType, Arts
    <3> QED BY <1>4, <2>2, <3>2 DEF Process
  <2> QED BY <1>5, <2>1, <2>2
<1>6. CASE Crash
  <2>1. shelves' = shelves
    BY <1>6 DEF Crash, remote, shelves, ShelfOf, Whole
  <2>2. \A q \in Requests :
          PhaseOf(q)' = IF PhaseOf(q) = "working" THEN "cut" ELSE PhaseOf(q)
    BY <1>6 DEF Crash, Running, PhaseOf, IInv, SInv, Local, Phase
  <2> QED BY <2>1, <2>2 DEF Contract!Next, Contract!Cut, shelves
<1>7. CASE UNCHANGED vars
  BY <1>4, <1>7 DEF vars, remote
<1> QED BY <1>1, <1>2, <1>3, <1>5, <1>6, <1>7 DEF Next

\* Whatever happens between Forge and WeKnora, callers and readers see a
\* behaviour that PublishContract allows.
THEOREM ImplementsContract == Spec => Contract!Spec
  BY ContractInit, NextContract, AlwaysIInv, PTL DEF Spec, Contract!Spec
====
