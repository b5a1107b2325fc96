------------------------------ MODULE Publish ------------------------------
(***************************************************************************)
(* POST /api/v2/publish: PublishService.publish (publish_service.py), the  *)
(* semantic calls of WeKnoraClient it awaits (upstream.py), and WeKnora    *)
(* itself as far as those calls show it.                                   *)
(*                                                                         *)
(* A request is one asyncio coroutine: between two awaits it runs without  *)
(* interruption, so every handler below consumes the answer of the call    *)
(* awaited in pc[r] and issues the next one in the same step.  WeKnora     *)
(* serves a call at any time before or after the client has given up on    *)
(* it: a call that timed out is kept in `stale' and may still take effect. *)
(* A request issues at most one create, so its article is named by it.     *)
(***************************************************************************)
EXTENDS Naturals, Sequences, FiniteSets

CONSTANTS
  Requests,             \* requests the process serves
  TagNames,             \* non-empty tag names
  Keys,                 \* custom_metadata keys
  Bodies,               \* request bodies a caller may send
  DefaultMetas,         \* keys WeKnora fills in by itself on a new article
  NoName,               \* the empty string in tag_names
  NoId,                 \* None where WeKnora sent no id
  OddShapes,            \* 2xx bodies other than an object: "empty", "alien"
  RollbackOnFailure, AllowSync, MergeMetas,   \* config.publish
  WaitUntil,            \* config.publish.wait_until
  MaxPolls,             \* bound: polls a wait can fit before its deadline
  MaxCrashes            \* bound: process crashes

Calls == {"createTag", "findTag", "createDraft", "getMetas", "putMetas",
          "putDescription", "flip", "poll", "rollback"}
Origins == {"absent", "theirs", "ours"}
MetaMaps == [Keys -> Origins]
Progress == {"unknown", "pending", "failed", "completed", "enabled"}

Body == [tags: Seq(TagNames \cup {NoName}), metas: SUBSET Keys,
         description: BOOLEAN, sync: BOOLEAN]

ASSUME PublishAssumption ==
  /\ NoName \notin TagNames /\ NoId \notin TagNames
  /\ Bodies \subseteq Body
  /\ DefaultMetas \subseteq Keys
  /\ OddShapes \subseteq {"empty", "alien"}
  /\ {RollbackOnFailure, AllowSync, MergeMetas} \subseteq BOOLEAN
  /\ WaitUntil \in {"completed", "enabled", "terminal"}
  /\ MaxPolls \in Nat \ {0} /\ MaxCrashes \in Nat

VARIABLES
  req,       \* the body of each request
  pc,        \* where its coroutine is: a local step, the awaited call, the end
  wire,      \* the awaited call's answer, as far as it has got
  todo,      \* names the tag loop has left
  tagIds,    \* resolved_tag_ids
  kid,       \* knowledge_id is known
  payload,   \* the custom_metadata _write_metas sends
  latest,    \* the statuses the caller will be told
  polls,     \* attempts of wait_knowledge
  wait,      \* the wait summary
  rollback,  \* what _maybe_rollback logged
  answer,    \* what the caller got
  stale,     \* calls WeKnora holds and nobody waits for
  tags,      \* WeKnora: names of the tags of the knowledge base
  art,       \* WeKnora: the article each request made
  crashes    \* crashes so far

local  == <<todo, tagIds, kid, payload, latest, polls, wait, rollback>>
remote == <<tags, art>>
vars == <<req, pc, wire, local, answer, stale, remote, crashes>>

NoMetas == [k \in Keys |-> "absent"]
NoArticle == [st |-> "none", metas |-> NoMetas, description |-> FALSE,
              tags |-> << >>, progress |-> "unknown"]

\* An answer carries every field a handler may look at.
Wire(st, shape, id, metas, progress) ==
  [st |-> st, shape |-> shape, id |-> id, metas |-> metas, progress |-> progress]
Idle   == Wire("idle", "good", NoId, NoMetas, "unknown")
Sent   == [Idle EXCEPT !.st = "sent"]
Failed == [Idle EXCEPT !.st = "failed"]
Ok     == [Idle EXCEPT !.st = "ok"]

TypeOK ==
  /\ req \in [Requests -> Bodies]
  /\ pc \in [Requests -> Calls \cup {"idle", "tags", "done", "crashed"}]
  /\ wire \in [Requests -> [st: {"idle", "sent", "ok", "failed"},
                            shape: {"good"} \cup OddShapes,
                            id: TagNames \cup {NoId},
                            metas: MetaMaps, progress: Progress]]
  /\ todo \in [Requests -> Seq(TagNames \cup {NoName})]
  /\ tagIds \in [Requests -> Seq(TagNames \cup {NoId})]
  /\ kid \in [Requests -> BOOLEAN]
  /\ payload \in [Requests -> MetaMaps]
  /\ latest \in [Requests -> Progress \cup {"alien"}]
  /\ polls \in [Requests -> 0 .. MaxPolls]
  /\ wait \in [Requests -> {"none", "done", "timedOut", "failed"}]
  /\ rollback \in [Requests -> {"none", "done", "failed"}]
  /\ answer \in [Requests -> {"none", "ok", "error", "SYNC_DISABLED"}]
  /\ stale \subseteq [by: Requests, op: Calls, tag: TagNames \cup {NoName}]
  /\ tags \subseteq TagNames
  /\ art \in [Requests -> [st: {"none", "draft", "live", "deleted"},
                           metas: MetaMaps, description: BOOLEAN,
                           tags: Seq(TagNames \cup {NoId}), progress: Progress]]
  /\ crashes \in 0 .. MaxCrashes

Init ==
  /\ req \in [Requests -> Bodies]
  /\ pc = [r \in Requests |-> "idle"]
  /\ wire = [r \in Requests |-> Idle]
  /\ todo = [r \in Requests |-> << >>]
  /\ tagIds = [r \in Requests |-> << >>]
  /\ kid = [r \in Requests |-> FALSE]
  /\ payload = [r \in Requests |-> NoMetas]
  /\ latest = [r \in Requests |-> "unknown"]
  /\ polls = [r \in Requests |-> 0]
  /\ wait = [r \in Requests |-> "none"]
  /\ rollback = [r \in Requests |-> "none"]
  /\ answer = [r \in Requests |-> "none"]
  /\ stale = {}
  /\ tags \in SUBSET TagNames
  /\ art = [r \in Requests |-> NoArticle]
  /\ crashes = 0

-----------------------------------------------------------------------------
(* What a handler can do with its answer.                                  *)

Await(r, op) ==
  /\ pc' = [pc EXCEPT ![r] = op]
  /\ wire' = [wire EXCEPT ![r] = Sent]
  /\ UNCHANGED answer

Answer(r, a) ==
  /\ pc' = [pc EXCEPT ![r] = "done"]
  /\ wire' = [wire EXCEPT ![r] = Idle]
  /\ answer' = [answer EXCEPT ![r] = a]

GoOn(r, step) ==      \* back to a local step, nothing awaited
  /\ pc' = [pc EXCEPT ![r] = step]
  /\ wire' = [wire EXCEPT ![r] = Idle]
  /\ UNCHANGED answer

\* The handlers of a failing step: delete the article first when configured.
Abort(r) ==
  IF RollbackOnFailure THEN Await(r, "rollback") ELSE Answer(r, "error")

Got(r, op) == pc[r] = op /\ wire[r].st = "ok"
Lost(r, op) == pc[r] = op /\ wire[r].st = "failed"
Readable(r) == wire[r].shape # "alien"      \* .get() works on the body

-----------------------------------------------------------------------------
(* The request's coroutine.                                                *)

\* A sync request is refused before any call when the deployment disallows it.
Start(r) ==
  /\ pc[r] = "idle"
  /\ IF req[r].sync /\ ~AllowSync
     THEN Answer(r, "SYNC_DISABLED") /\ UNCHANGED todo
     ELSE GoOn(r, "tags") /\ todo' = [todo EXCEPT ![r] = req[r].tags]
  /\ UNCHANGED <<req, tagIds, kid, payload, latest, polls, wait, rollback,
                 stale, remote, crashes>>

\* Head of the tag loop: skip an empty name, create the next, or leave.
TagLoop(r) ==
  /\ pc[r] = "tags"
  /\ \/ todo[r] = << >> /\ Await(r, "createDraft") /\ UNCHANGED todo
     \/ /\ todo[r] # << >> /\ Head(todo[r]) = NoName
        /\ todo' = [todo EXCEPT ![r] = Tail(@)]
        /\ UNCHANGED <<pc, wire, answer>>
     \/ /\ todo[r] # << >> /\ Head(todo[r]) # NoName
        /\ Await(r, "createTag") /\ UNCHANGED todo
  /\ UNCHANGED <<req, tagIds, kid, payload, latest, polls, wait, rollback,
                 stale, remote, crashes>>

Resolved(r, id) ==
  /\ tagIds' = [tagIds EXCEPT ![r] = Append(@, id)]
  /\ todo' = [todo EXCEPT ![r] = Tail(@)]
  /\ GoOn(r, "tags")

\* ensure_tag: the create went through; its id is whatever the body carries.
TagCreated(r) ==
  /\ Got(r, "createTag")
  /\ IF Readable(r) THEN Resolved(r, wire[r].id)
                    ELSE Answer(r, "error") /\ UNCHANGED <<tagIds, todo>>
  /\ UNCHANGED <<req, kid, payload, latest, polls, wait, rollback, stale,
                 remote, crashes>>

\* Mutated TagCreateFailed: the tag is dropped; or the create is tried again.
TagSkipped(r) ==
  /\ Lost(r, "createTag")
  /\ todo' = [todo EXCEPT ![r] = Tail(@)] /\ GoOn(r, "tags")
  /\ UNCHANGED <<req, tagIds, kid, payload, latest, polls, wait, rollback,
                 stale, remote, crashes>>
TagCreateRetried(r) ==
  /\ Lost(r, "createTag") /\ Await(r, "createTag")
  /\ UNCHANGED <<req, local, stale, remote, crashes>>

\* ensure_tag: any failure of the create is taken for "exists": look it up.
TagCreateFailed(r) ==
  /\ Lost(r, "createTag")
  /\ Await(r, "findTag")
  /\ UNCHANGED <<req, local, stale, remote, crashes>>

\* The lookup found it, or re-raises the create's error.
TagFound(r) ==
  /\ Got(r, "findTag")
  /\ IF Readable(r) /\ wire[r].id # NoId
     THEN Resolved(r, wire[r].id)
     ELSE Answer(r, "error") /\ UNCHANGED <<tagIds, todo>>
  /\ UNCHANGED <<req, kid, payload, latest, polls, wait, rollback, stale,
                 remote, crashes>>

TagFindFailed(r) ==
  /\ Lost(r, "findTag")
  /\ Answer(r, "error")
  /\ UNCHANGED <<req, local, stale, remote, crashes>>

\* After the draft: read the metadata to merge, write it, write the
\* description, flip - each only if the request calls for it.
Flip(r) == Await(r, "flip")

\* Mutated Describe: no description is written.
DescribeNever(r) == Flip(r)

Describe(r) == IF req[r].description THEN Await(r, "putDescription") ELSE Flip(r)

WriteMetas(r) ==
  IF req[r].metas = {} THEN Describe(r)
  ELSE IF MergeMetas THEN Await(r, "getMetas") ELSE Await(r, "putMetas")

\* Mutated Merge: the payload replaces what there was.
MergeReplaces(existing, keys) ==
  [k \in Keys |-> IF k \in keys THEN "ours" ELSE "absent"]

Merge(existing, keys) ==
  [k \in Keys |-> IF k \in keys THEN "ours" ELSE existing[k]]

DraftCreated(r) ==
  /\ Got(r, "createDraft")
  /\ IF wire[r].shape = "good"
     THEN /\ kid' = [kid EXCEPT ![r] = TRUE]
          /\ payload' = [payload EXCEPT ![r] = Merge(NoMetas, req[r].metas)]
          /\ WriteMetas(r)
     ELSE Answer(r, "error") /\ UNCHANGED <<kid, payload>>
  /\ UNCHANGED <<req, todo, tagIds, latest, polls, wait, rollback, stale,
                 remote, crashes>>

DraftFailed(r) ==
  /\ Lost(r, "createDraft")
  /\ Answer(r, "error")
  /\ UNCHANGED <<req, local, stale, remote, crashes>>

MetasRead(r) ==
  /\ Got(r, "getMetas")
  /\ IF Readable(r)
     THEN /\ payload' = [payload EXCEPT ![r] = Merge(wire[r].metas, req[r].metas)]
          /\ Await(r, "putMetas")
     ELSE Abort(r) /\ UNCHANGED payload
  /\ UNCHANGED <<req, todo, tagIds, kid, latest, polls, wait, rollback, stale,
                 remote, crashes>>

MetasWritten(r) ==
  /\ Got(r, "putMetas")
  /\ Describe(r)
  /\ UNCHANGED <<req, local, stale, remote, crashes>>

DescriptionWritten(r) ==
  /\ Got(r, "putDescription")
  /\ Flip(r)
  /\ UNCHANGED <<req, local, stale, remote, crashes>>

\* Mutated WriteMetasFailed: the description is written outside the try block.
WriteMetasFailedKeeps(r) ==
  /\ \/ (Lost(r, "getMetas") \/ Lost(r, "putMetas")) /\ Abort(r)
     \/ Lost(r, "putDescription") /\ Answer(r, "error")
  /\ UNCHANGED <<req, local, stale, remote, crashes>>

WriteMetasFailed(r) ==
  /\ \E op \in {"getMetas", "putMetas", "putDescription"} : Lost(r, op)
  /\ Abort(r)
  /\ UNCHANGED <<req, local, stale, remote, crashes>>

\* The statuses told are read off the last body kept.  A body that is not an
\* object makes the outer handler answer with an error, without a rollback.
Conclude(r, last) ==
  /\ latest' = [latest EXCEPT ![r] = last]
  /\ Answer(r, IF last = "alien" THEN "error" ELSE "ok")

Told(r) == IF Readable(r) THEN wire[r].progress ELSE "alien"

Published(r) ==
  /\ Got(r, "flip")
  /\ IF req[r].sync
     THEN Await(r, "poll") /\ latest' = [latest EXCEPT ![r] = Told(r)]
     ELSE Conclude(r, Told(r))
  /\ UNCHANGED <<req, todo, tagIds, kid, payload, polls, wait, rollback, stale,
                 remote, crashes>>

\* Mutated FlipFailed: a lost answer is taken for success.
FlipFailedIgnored(r) ==
  /\ Lost(r, "flip") /\ Answer(r, "ok")
  /\ UNCHANGED <<req, local, stale, remote, crashes>>

FlipFailed(r) ==
  /\ Lost(r, "flip")
  /\ Abort(r)
  /\ UNCHANGED <<req, local, stale, remote, crashes>>

\* wait_knowledge: what counts as done, by publish.wait_until.
Reached(progress) ==
  \/ WaitUntil = "completed" /\ progress \in {"completed", "enabled"}
  \/ WaitUntil = "enabled" /\ progress = "enabled"
  \/ WaitUntil = "terminal" /\ progress \in {"completed", "failed", "enabled"}

\* Mutated EndWait: `latest = polled' instead of `polled or latest'.
EndWaitOverwrites(r, summary, polled) ==
  wait' = [wait EXCEPT ![r] = summary] /\ Conclude(r, polled)

\* The wait is over: a body that was read replaces the statuses of the flip.
EndWait(r, summary, polled) ==
  /\ wait' = [wait EXCEPT ![r] = summary]
  /\ Conclude(r, IF polled = "unknown" THEN latest[r] ELSE polled)

\* Mutated Polled: the deadline is not looked at.
PolledNoDeadline(r) ==
  /\ Got(r, "poll") /\ Readable(r)
  /\ polls' = [polls EXCEPT ![r] = @ + 1]
  /\ IF Reached(wire[r].progress) THEN EndWait(r, "done", wire[r].progress)
     ELSE Await(r, "poll") /\ UNCHANGED <<wait, latest>>
  /\ UNCHANGED <<req, todo, tagIds, kid, payload, rollback, stale, remote,
                 crashes>>

\* One poll answered.  Whether the deadline has passed is the clock's choice,
\* except that MaxPolls polls are all that fit before it.
Polled(r) ==
  /\ Got(r, "poll") /\ Readable(r)
  /\ polls' = [polls EXCEPT ![r] = @ + 1]
  /\ \/ Reached(wire[r].progress) /\ EndWait(r, "done", wire[r].progress)
     \/ /\ ~Reached(wire[r].progress)
        /\ EndWait(r, "timedOut", wire[r].progress)
     \/ /\ ~Reached(wire[r].progress) /\ polls[r] + 1 < MaxPolls
        /\ Await(r, "poll") /\ UNCHANGED <<wait, latest>>
  /\ UNCHANGED <<req, todo, tagIds, kid, payload, rollback, stale, remote,
                 crashes>>

\* Mutated PollFailed: an exception of the wait is handled like any other.
PollFailedAborts(r) ==
  /\ Lost(r, "poll") /\ Abort(r)
  /\ wait' = [wait EXCEPT ![r] = "failed"]
  /\ UNCHANGED <<req, todo, tagIds, kid, payload, latest, polls, rollback,
                 stale, remote, crashes>>

\* Any exception of the wait is swallowed: it must never fail the publish.
PollFailed(r) ==
  /\ Lost(r, "poll") \/ (Got(r, "poll") /\ ~Readable(r))
  /\ EndWait(r, "failed", "unknown")
  /\ UNCHANGED <<req, todo, tagIds, kid, payload, polls, rollback, stale,
                 remote, crashes>>

\* _maybe_rollback only logs how its delete went; the error is raised anyway.
RolledBack(r) ==
  /\ Got(r, "rollback") \/ Lost(r, "rollback")
  /\ rollback' = [rollback EXCEPT ![r] =
                    IF wire[r].st = "ok" THEN "done" ELSE "failed"]
  /\ Answer(r, "error")
  /\ UNCHANGED <<req, todo, tagIds, kid, payload, latest, polls, wait, stale,
                 remote, crashes>>

Coroutine(r) ==
  \/ Start(r) \/ TagLoop(r)
  \/ TagCreated(r) \/ TagCreateFailed(r) \/ TagFound(r) \/ TagFindFailed(r)
  \/ DraftCreated(r) \/ DraftFailed(r)
  \/ MetasRead(r) \/ MetasWritten(r) \/ DescriptionWritten(r)
  \/ WriteMetasFailed(r)
  \/ Published(r) \/ FlipFailed(r) \/ Polled(r) \/ PollFailed(r)
  \/ RolledBack(r)

-----------------------------------------------------------------------------
(* WeKnora, as the calls show it.  Effect of one call on its state, or      *)
(* FALSE where it would refuse it (a tag that exists, an article gone).     *)

Present(r) == art[r].st \in {"draft", "live"}

Article(c, a) == art' = [art EXCEPT ![c.by] = a] /\ UNCHANGED tags

Apply(c) ==
  LET a == art[c.by] IN
  \/ /\ c.op = "createTag" /\ c.tag \notin tags
     /\ tags' = tags \cup {c.tag} /\ UNCHANGED art
  \/ /\ c.op = "createDraft" /\ a.st = "none"
     /\ Article(c, [a EXCEPT !.st = "draft", !.tags = tagIds[c.by],
          !.metas = [k \in Keys |-> IF k \in DefaultMetas THEN "theirs"
                                    ELSE "absent"]])
  \/ /\ c.op = "putMetas" /\ Present(c.by)
     /\ Article(c, [a EXCEPT !.metas = payload[c.by]])
  \/ /\ c.op = "putDescription" /\ Present(c.by)
     /\ Article(c, [a EXCEPT !.description = TRUE])
  \/ /\ c.op = "flip" /\ Present(c.by)
     /\ Article(c, [a EXCEPT !.st = "live", !.progress = "pending"])
  \/ /\ c.op = "rollback" /\ Present(c.by)
     /\ Article(c, [a EXCEPT !.st = "deleted"])
  \/ /\ c.op \in {"getMetas", "poll"} /\ Present(c.by)
     /\ UNCHANGED <<art, tags>>
  \/ c.op = "findTag" /\ UNCHANGED <<art, tags>>

\* What the answer of a served call says: the tag (which a lookup by keyword
\* may miss on a deep page), or the article as it now is.
Said(c) ==
  IF c.op \in {"createTag", "findTag"}
  THEN {[Ok EXCEPT !.id = id] : id \in
          IF c.op = "createTag" THEN {c.tag} ELSE {NoId} \cup (tags \cap {c.tag})}
  ELSE {[Ok EXCEPT !.metas = art'[c.by].metas, !.progress = art'[c.by].progress]}

Awaited(r) == [by |-> r, op |-> pc[r], tag |->
  IF pc[r] \in {"createTag", "findTag"} THEN Head(todo[r]) ELSE NoName]

\* The awaited call is served, with the body it should have or an odd one.
Serve(r) ==
  /\ wire[r].st = "sent"
  /\ Apply(Awaited(r))
  /\ \E w \in Said(Awaited(r)) \cup {[Ok EXCEPT !.shape = s] : s \in OddShapes} :
       wire' = [wire EXCEPT ![r] = w]
  /\ UNCHANGED <<req, pc, local, answer, stale, crashes>>

\* A call nobody waits for is served after all.
ServeStale ==
  /\ \E c \in stale : Apply(c) /\ stale' = stale \ {c}
  /\ UNCHANGED <<req, pc, wire, local, answer, crashes>>

\* An answer outside 2xx, whatever the reason: no effect, ForgeError.
Refuse(r) ==
  /\ wire[r].st = "sent"
  /\ wire' = [wire EXCEPT ![r] = Failed]
  /\ UNCHANGED <<req, pc, local, answer, stale, remote, crashes>>

\* The client times out or loses the connection: the call may be unserved,
\* and then still be on its way, or served with its answer lost.
GiveUp(r) ==
  /\ wire[r].st \in {"sent", "ok"}
  /\ wire' = [wire EXCEPT ![r] = Failed]
  /\ stale' = IF wire[r].st = "sent" THEN stale \cup {Awaited(r)} ELSE stale
  /\ UNCHANGED <<req, pc, local, answer, remote, crashes>>

\* Post-processing: only a published article is parsed, then enabled.
Process(r) ==
  /\ art[r].st = "live"
  /\ \E p \in Progress :
       /\ \/ art[r].progress = "pending" /\ p \in {"completed", "failed"}
          \/ art[r].progress = "completed" /\ p = "enabled"
       /\ art' = [art EXCEPT ![r].progress = p]
  /\ UNCHANGED <<req, pc, wire, local, answer, stale, tags, crashes>>

\* The process dies: nothing is persisted, callers are cut off, calls stay out.
Running(r) == pc[r] \notin {"idle", "done", "crashed"}

Crash ==
  /\ crashes < MaxCrashes /\ crashes' = crashes + 1
  /\ pc' = [r \in Requests |-> IF Running(r) THEN "crashed" ELSE pc[r]]
  /\ wire' = [r \in Requests |-> Idle]
  /\ stale' = stale \cup {Awaited(r) : r \in {q \in Requests : wire[q].st = "sent"}}
  /\ UNCHANGED <<req, local, answer, remote>>

Next ==
  \/ \E r \in Requests : Coroutine(r) \/ Serve(r) \/ Refuse(r) \/ GiveUp(r)
                         \/ Process(r)
  \/ ServeStale \/ Crash

\* The event loop runs every coroutine that can go on, and httpx ends every
\* awaited call by its answer or by its timeout.  WeKnora owes nothing.
Fairness == \A r \in Requests : WF_vars(Coroutine(r)) /\ WF_vars(GiveUp(r))

Spec == Init /\ [][Next]_vars
FairSpec == Spec /\ Fairness
-----------------------------------------------------------------------------
(* Properties.                                                             *)

\* A live article is whole: every custom_meta and the description of the
\* request are on it, whichever calls were lost or came late (steps 2.1-2.3).
Whole(r) ==
  /\ \A k \in req[r].metas : art[r].metas[k] = "ours"
  /\ req[r].description => art[r].description
PublishedWhole == \A r \in Requests : art[r].st = "live" => Whole(r)

\* A request answered with success has its article live, now and from then on:
\* no call of its own that is still out may take it back.
AckedStaysLive == \A r \in Requests : answer[r] = "ok" => art[r].st = "live"

\* The tags of an article are those the request named, in order, without the
\* empty names; None stands where WeKnora's create answered without an id.
Place(names, i) == Cardinality({j \in 1 .. i : names[j] # NoName})
Attached(names, upto, ids) ==
  /\ Len(ids) = Place(names, upto)
  /\ \A i \in 1 .. upto : names[i] # NoName => ids[Place(names, i)] \in {names[i], NoId}
TagsAttached ==
  \A r \in Requests : art[r].st # "none" =>
    Attached(req[r].tags, Len(req[r].tags), art[r].tags)

\* With merge_metas the write of custom_metadata keeps every key WeKnora had -
\* provided its answer to the read before it is never an empty body, which the
\* code takes for "no metadata yet".
MergeKeepsTheirs ==
  MergeMetas /\ "empty" \notin OddShapes =>
    \A r \in Requests : art[r].st # "none" =>
      \A k \in DefaultMetas : art[r].metas[k] # "absent"

\* After an error an article is left only for one of four reasons: no rollback
\* configured, WeKnora's id never read, the rollback's delete failed, or the
\* acknowledged flip's body was not an object.  And a rollback that was logged
\* as done leaves nothing, whatever of the request is still out.
FailureAccountedFor ==
  \A r \in Requests :
    /\ answer[r] = "error" /\ Present(r) =>
         ~RollbackOnFailure \/ ~kid[r] \/ rollback[r] = "failed"
                            \/ latest[r] = "alien"
    /\ rollback[r] = "done" => art[r].st = "deleted"

\* Once the flip is acknowledged and the wait has begun, nothing that happens to
\* the polls deletes the article or makes the answer an error; only statuses
\* that cannot be read off the flip's own body do.
WaitNeverFailsPublish ==
  \A r \in Requests : wait[r] # "none" \/ polls[r] > 0 =>
    /\ rollback[r] = "none" /\ pc[r] # "rollback"
    /\ answer[r] = "error" => latest[r] = "alien"

\* A failed or timed-out wait never wipes the statuses the flip brought.
StatusesNeverWiped ==
  [][\A r \in Requests : latest[r] # "unknown" => latest'[r] # "unknown"]_vars

\* The contract: what the caller and a reader of WeKnora see of all this, and that
\* every request taken up is answered unless the process dies under it.
PhaseOf(r) ==
  IF pc[r] = "idle" THEN "idle" ELSE IF pc[r] = "crashed" THEN "cut"
  ELSE IF answer[r] = "none" THEN "working"
  ELSE IF answer[r] = "ok" THEN "ok" ELSE "error"
ShelfOf(r) ==
  IF art[r].st = "none" THEN "absent"
  ELSE IF art[r].st = "draft" /\ Whole(r) THEN "whole" ELSE art[r].st
Contract == INSTANCE PublishContract WITH
  phase <- [r \in Requests |-> PhaseOf(r)],
  shelf <- [r \in Requests |-> ShelfOf(r)]
MeetsContract == Contract!FairSpec

\* README.md: the choreography is "one server-side call, rolled back on failure";
\* publish_service.py: on failure "the half-built draft is removed again".
RolledBackOnFailure ==
  \A r \in Requests : answer[r] = "error" /\ RollbackOnFailure /\ Present(r) =>
    rollback[r] = "failed"
=============================================================================
