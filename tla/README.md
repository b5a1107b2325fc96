# A specification of weknora-forge

weknora-forge ("Forge") is a small FastAPI process in front of WeKnora, a
knowledge-base server. It adds a one-call publish, a metadata search, a purge of
soft-deleted data and an HMAC gate with a passthrough. This directory holds TLA+
modules that model its stateful parts, TLC configurations that check them on small
instances, and proofs, checked by TLAPS, of what holds for every instance.

Paths below are relative to `app/` of the repository unless they start with a file
of its root (`README.md`, `FMQ.md`).

## 1. The system

| Part | State it keeps | Operations | Talks to |
|---|---|---|---|
| Publish (`services/publish_service.py`, `routers/publish.py`) | nothing that outlives a request; each request is one coroutine with its locals | `publish`, `_write_metas`, `_wait`, `_maybe_rollback` | awaits the WeKnora client, a dozen calls in a row |
| WeKnora client (`upstream.py`) | one httpx pool; the cache of validated API keys | `call`, `raw`, the semantic calls, `ensure_tag`, `wait_knowledge`, `validate_api_key` | WeKnora over HTTP |
| Keystore (`keystore.py`) | the dictionary of secrets, the fingerprint of `keys.json`, a lock | `get_secret`, `_reload` | the file system, the environment |
| Authentication (`security.py`, `deps.py`) | none | `verify_v1`, `verify_v2` | keystore, validation cache |
| Purge (`services/purge_service.py`, `routers/maintenance.py`) | one database transaction; the column cache of `services/db.py` | two SELECTs, a COUNT and a DELETE for each table, a sweep of orphans | PostgreSQL, the tables WeKnora uses meanwhile |
| Metadata search (`services/metas_search.py`, `routers/metas.py`) | one database transaction | up to three SELECTs, exact evaluation, paging | PostgreSQL, WeKnora for the visible bases |
| FMQ (`services/meta_dsl.py`) | none | lexer, parser, `evaluate`, `compile_sql` | called by the search |
| Passthrough (`routers/proxy_v1.py`, `upstream.raw`) | an open upstream stream for each request, on a connection of the client's pool | forward, stream back, close | WeKnora |
| Proxy headers (`proxy.py`) | none | which address and scheme a request came by, and what WeKnora is told of it | — |
| Configuration, wiring, scripts | read at start-up | — | — |

What is hard here, and what makes each part correct:

* **Publish** is a distributed transaction without a transaction: draft, metadata,
  description, flip, wait. Each call may be refused, lose its answer, time out and take
  effect *later* - after the rollback, after the caller was answered, after the process
  died. It is correct when a live article is always whole, a success is never taken
  back, and what a failure leaves behind is one of a few known things.
* **The sync wait** polls against a deadline. It is correct when it ends, is bounded,
  does not spin, and does not miss an article that was ready in time.
* **The key cache** is read before an `await` and written after it, by any number of
  coroutines. It is correct when every decision rests on an answer young enough, in
  whatever order the answers come, and when an outage is never told as a bad key.
* **The keystore** reloads a file that another process is editing. It is correct when
  no lookup goes back to older secrets, and changes are seen.
* **The purge** deletes from tables without foreign keys one by one under READ
  COMMITTED while WeKnora writes them. It is correct when an item leaves with all its
  rows or stays with all, nothing else leaves, and a failure leaves nothing done.
* **The search** fetches a superset by SQL and decides exactly in Python. It is correct
  when the superset is one, totals are right, and pages neither repeat nor skip.

* **The passthrough** shares one pool of connections with every other call, under no
  timeout at all. It is correct when a response that looks complete is, and when every
  connection comes back, whoever dies, leaves or falls silent.
* **The proxy headers** decide whose address WeKnora records. They are correct when
  nothing an untrusted peer writes, or that stands left of an untrusted entry, changes
  it, and a trusted proxy in front can.

The list of hazards, each at its line, is in `PROJECT.json`, with the properties
that watch it.

## 2. Modules

| Module | What it is |
|---|---|
| `Publish` | the coroutine of `publish` step by step, the calls it makes, WeKnora as far as those show it, crashes |
| `PublishContract` | what a caller may count on; `Publish` implements it |
| `SyncWait` | `_wait` and `wait_knowledge` against a clock |
| `ApiKeyCache` | `validate_api_key` and the verdict of `verify_v2` |
| `KeyStore` | `get_secret` with its locked reload |
| `Purge` | any number of purges, each a transaction, and WeKnora beside them |
| `Passthrough` | relayed requests and the client's own calls over one connection pool |
| `ProxyHeaders` | what is believed of proxy headers and what WeKnora is told, over any number of Forges in a row |
| `Fmq` | `evaluate()` and `compile_sql()` of the query language, comparison by comparison and node by node |
| `MetasSearch` | the search endpoint, for a client walking pages; the language is a parameter |
| `FmqSearch` | the two composed: the search whose language is that of `Fmq`, over trees of any height |
| `MCPublish`, `MCApiKeyCache`, `MCKeyStore`, `MCPurge`, `MCPassthrough`, `MCSearch` | small instances; `MCSearch` gives `FmqSearch` its trees and the recursive walks over them, `MCPassthrough` takes `Passthrough` and `ProxyHeaders` in one run |
| `Publish_proofs`, `SyncWait_proofs`, `ApiKeyCache_proofs`, `KeyStore_proofs`, `Purge_proofs`, `Passthrough_proofs`, `ProxyHeaders_proofs`, `Search_proofs` | theorems and proofs |

Definitions keep the names of the source. An operator commented "Mutated X" is X as a
plausible bug would have it; it is used by nothing but the check that each property
can fail.

### Publish

A coroutine runs uninterrupted between two awaits, so each action consumes the answer
of the call awaited in `pc[r]` and issues the next: `TagLoop` is the loop over
`tag_names`; `TagCreated`, `TagCreateFailed`, `TagFound`, `TagFindFailed` are
`ensure_tag`; `DraftCreated` and `DraftFailed` follow `create_manual_knowledge`;
`MetasRead`, `MetasWritten`, `DescriptionWritten`, `WriteMetasFailed` are
`_write_metas`; `Published` and `FlipFailed` follow the flip; `Polled`, `PollFailed`
the wait; `RolledBack` the delete. `wire[r]` is the awaited call: sent, answered,
failed. `Serve`, `Refuse` and `GiveUp` are its three fates, and `ServeStale` is WeKnora
serving a call the client gave up on. An answer can be a 2xx body of an odd shape:
`"empty"` (which `call` reads as `{}`) or `"alien"` (not an object, on which `.get`
raises).

What the model says about the code, beyond the properties:

* a create whose answer is lost, or carries no id, leaves its draft: no id, no rollback
  (line 105, lines 115-118);
* a rollback whose delete fails is only logged (line 244);
* a flip that timed out but was served is rolled back: a live article is deleted, and
  the caller told of the failure;
* a flip answered by something other than an object leaves a live article behind an
  error (lines 152 and 158);
* tags are never rolled back, and stay;
* an empty answer to the read of the metadata is taken for "no metadata" and then WeKnora's
  keys are overwritten: `MergeKeepsTheirs` excludes it by its premise;
* a caller that retries makes a second article.

`FailureAccountedFor` is the precise statement of these: after an error an article is
left only if one of four things happened.

`PublishContract` has two variables, the phase a caller sees and the shelf a reader of
WeKnora sees. It is small on purpose: an article goes live only when whole, success is
told only of a live one, and then it is never withdrawn. `MeetsContract` adds that
every request taken up is answered unless the process dies.

### SyncWait

`poll_interval_seconds` is a float, and any value above 0 is taken as it is. So time is
counted in units as small as the interval asks for, of which `Second` make a second: the
unit of the fallback for 0 and less. Steps of the coroutine take no time. `UpTimeout` is
the longest a poll can take: httpx bounds each phase of a request and each read and not
the whole, and `UpTimeout` is what those bounds add up to. How often a deployment polls
is its own choice - with an interval of 0.05 some twenty times a second - and
`AttemptsBounded` says that it is never more often than the choice, or than once a second
where the choice would spin. The deadline is looked at after a poll was
answered, so the wait lasts up to `timeout_seconds` plus one poll
(`WaitBounded`): with the deployed 55 s, the nginx limit of 60 s that `README.md` names
beside it holds only while polls are quick.

### ApiKeyCache

Lookup and conclusion are separate steps, with the `await` between them. `asked` is the
`now` read before the GET and used for the expiry after it. `last` is history: when each
answer was last given. Time is monotonic in the model; `time.time()` is not, and a clock
set back lengthens every lifetime.

A GET may take any time: the 15 s the code passes bound each phase and each read, and a
WeKnora that drips keeps one open for longer than any lifetime. So `DecisionsAreRecent`
knows two ways to be decided. A request that asked WeKnora itself is decided by what it
was told, however long ago that was when its coroutine goes on. A request served from the
cache is decided by an answer younger than the lifetime of its kind, 300 s or 30 s. The
second holds as the lifetime counts from the lookup, before the GET: a slow GET enters an
answer that is good for less, or for no time. Counted from the end of the GET - the
property's mutant - an answer could be used beyond its lifetime.

### KeyStore

Each file access, assignment and lock operation is a step. The operator edits the file in
another process, so a write may fall between any two of them: that is the interleaving
Forge is exposed to, and `keystore_claim` needs one caller for it. The class also guards
its reload with a lock, and the model has any number of callers to say what that lock is
worth; in Forge they are coroutines of one event loop with no `await` inside
`get_secret`, so that they never overlap, and `NeverBackwards` and `LookupReturns` speak
for the class under threads, which the program does not use there. A version of the file
stands for its (mtime, size), so a rewrite that keeps both is out of the model. A file
that is absent has no fingerprint of its own: one removed, written and removed again
looks as it did (`FingerprintOf`), and rightly so, as what is loaded from it is the same
(`Newest`). `reset()`, for tests, is left out.

### Purge

Each statement of a purge is a step, and sees the committed rows less those its own
transaction has deleted. Any number of purges run at once - the endpoint takes no lock,
and a scheduler whose call timed out makes it again. A `DELETE` that meets a row another
open transaction has deleted waits (`Erase`, `blocked`); once that one has ended it
takes those of the rows it had found that are still there, as PostgreSQL re-checks them.
A `DELETE` is one step otherwise: two of them that lock one another's rows half-way are
not told apart. Two purges walk the tables in one order, so they can wait for each other
only where WeKnora adds a row behind one of them; PostgreSQL then ends one with an error,
which is `Fail`.

Between any two statements WeKnora may restore an item or a base that no purge holds, or
add a row to an item that is live to it. A child row written for an item after its
table's DELETE survives the commit as an orphan, which follows from the statements and is
why `SweptClean` and `ItemsGoWhole` ask that no row was added. The column cache may hold
a table for missing that was created later (`absent`): it is skipped, with the rows of
the items that go, and `PurgesExactly` leaves it out as no line promises more. The limit
counts bases and items only, and each purge counts for itself.

The figures of the reports are the rows each DELETE took (`gone`). The code keys them by
the table's name, so a table that `purge.tables` listed twice would report the second
DELETE only (`purge_service.py`:176); the default configuration lists none twice, and the
model's tables are a set.

What two purges do to each other, as the properties state it: together they remove what
one would (`PurgesExactly`), no row is reported deleted twice (`ReportsAddUp`), and
nothing goes that no purge within its limit selected (`LimitKept`). `SweptClean` has an
exception that only two purges can show: one that does not sweep may commit after the
other's sweep and leave orphans that the sweep was too early for.

### Passthrough

One handler for each request, one step for each of its awaits: `Verify` and `ReadBody`;
`Connect`, the wait for a connection and the sending (`raw`); `Relay`, the answer's head;
then `stream()` driven by `StreamingResponse`: `Pull` and `Send` a chunk, until `Finish`,
`Break` (WeKnora died) or `Cancel` (the caller left). A generator cancelled inside
`aiter_raw` runs its `finally` at once; one that is suspended at its `yield` cannot, and
is closed by the event loop's finalizer (`abandoned`, `Finalize`). uvicorn does not cancel
a handler, so a caller that leaves before the response has started is not noticed.
`CallStart` to `CallGivesUp` are the client's own calls, as users of the same pool.
A caller may stall - be there and read no more - and WeKnora may fall silent.

`ConnectionsComeBack` and `RequestsEnd` name all that can keep a connection or a request
for good (`Kept`, `Exhausted`); that list is the finding: an answer whose headers cannot
be relayed, a WeKnora that falls silent before the head even if the caller has left, one
silent later until the caller leaves, and a caller that stalls. `raw` passes
`timeout=None` and httpx reads that as no timeout, also for the wait for a connection.

### ProxyHeaders

`Apply` is the middleware, `ForwardHeaders` what is sent on, `Told` the two composed, and
`Hop` a Forge that sends the request to another one that takes it for a trusted proxy. A
header is the list of what stands between its commas; addresses are values, of which some
are trusted. Of the names that are stripped the model has those Forge acts on and one of
each other kind. `ChainsAgree` is about Forge behind Forge, and about every proxy that
writes the same headers: what the first tells, the second believes and tells again.
`X-Forwarded-Host` is each hop's own `Host`, so it is left out there. `CallersUnheard`
compares a request, at any Forge on its way, with the same one without what an untrusted
peer wrote, or without what stands left of an untrusted entry. It says nothing of a
caller inside the trusted ranges, nor of a chain that is trusted to its end. A peer
without an address (a Unix socket) is compared at the first Forge only: the second takes
the first for the client. The two modules of `MCPassthrough` share no variable, so its
next-state relation takes them one at a time instead of multiplying their states.

### Fmq, MetasSearch and FmqSearch

A value is a pair of a kind and a content. What is said about texts - which reads as a
number, which contains which, their order - is a parameter of which `FmqAssumption` asks
little, so that no text is taken apart. Texts are those JSON writes as they are, without
characters it escapes; numbers are those Python and PostgreSQL write alike. Python orders
texts by code points and PostgreSQL by the collation of the database, as the clause names
none: those are two parameters, `Rank` and `Collation`, and so are the two foldings of
case, `Lower` for `str.lower()` and `SqlLower` for `ILIKE`. Nothing relates the two of
either pair but `Safe`, which asks for agreement on the two texts at hand where they are
compared by order or searched with folding. With a `"C"` collation, of a UTF-8 database,
the orders agree on all texts and that part of `Safe` asks for nothing.
The columns of a document hold texts or NULL. A comparison with NULL counts as false, as
the clause holds no NOT over a comparison.

A query is a tree, as the parser makes it. `evaluate()` and `compile_sql()` are recursive
over it; `Fmq` says what each does at one node, given the nodes below it that hold
(`EvalNode`, `SelectNode`), and `FmqSearch` takes for `Matches` and `Selected` any walks
that do this at every node (`WalksAssumption`). Nothing else can be said of them without
recursion, which the provers do not take; `MCSearch` defines the walks by recursion, and
TLC evaluates that they meet the assumption.

The search's actions are its SELECTs: `FetchCandidates` (with the evaluation and the cut
to a page), `FetchTags`, `FetchContents`; `Fail` ends the transaction at any of them,
and `Write` changes a row between any two. The order of a SELECT is the position of each
row among the others (`Position`), so no set is sorted. `NextPage` is a client that
follows `has_more`. Pages walked while rows are written may skip or repeat: nothing
promises otherwise, so `WalkSeesAll` is about calm walks.

The clause of `compile_sql` is *not* a superset of `evaluate()`, though two comments say
so. `Safe` states where it can be relied on - roughly, values stored the way the query
writes them - and `SafeIsSuperset` says that there it is. Outside it, `evaluate()`
accepts and the clause loses:

* `topics NOT CONTAINS 'ai'` on `["air"]` - the list's text holds `ai` (line 757);
* `NOT (topics NOT EXISTS)` on anything present, and `NOT (topics NOT CONTAINS 'ai')` on
  a list with `ai` - written without the second negation (lines 719-733);
* `topics NOT EXISTS` on `[]` - its text is not empty (line 748);
* `level <= 'ai'` on `"Zed"` - by code points `Z` comes before `a`, in a language's
  collation after it (line 824); and `CONTAINS` with folding where `ILIKE` folds the
  texts otherwise than Python;
* `level = 9` on `"9.0"`, and `=` with case folding - equal in Python, not as text or jsonb;
* `flag CONTAINS 'True'` or `flag STARTSWITH 'T'` on `true` - Python writes `True`, JSON
  `true`; and `STARTSWITH` or `ENDSWITH` on a list, where Python's text is `['a']` and
  JSON's `["a"]` (lines 750-770);
* `$source = null` on NULL, and `$source != null` on a text - SQL's `=` and `<>` with NULL
  hold of nothing, and the guard beside `<>` is for a NULL column only (line 830);
* `$source NOT IN (null)` on `''` - NULL is written as the empty text (lines 691, 797).

The last three came out of the proof: they are cases an earlier `Safe`, which TLC had
found no fault with over the instance's queries, took for reliable.

`ItemsFilledIn` is about what the later SELECTs bring: the tag names and the chunk texts
of a page already cut belong to its items, item by item. Under writes they may be newer
than the row beside them.

## 3. What is checked

Runs pass, except those whose name ends in `_claim`: those show that what a
comment or the manual says is not what the code does (section 6).

| Run | Instance | What it shows |
|---|---|---|
| `publish_one` | one request, two tags, two keys, four bodies, 3 polls, one crash, alien bodies | types, merging, what failures leave, harmless wait, statuses kept, the contract with its fairness, by which requests end |
| `publish_pair` | two requests meeting at one tag, sync off, one crash, empty bodies | live means whole, acknowledged means live, tags attached |
| `wait_timed` | half seconds: timeout 8, intervals 0, 1 and 3, a poll of up to 4 | bound, no missed finish, number of polls, end |
| `api_keys` | two requests, two keys, cache for one, lifetimes 3 and 2, time to 7 | recency of decisions, size |
| `keystore` | two callers, three versions of the file of four kinds | changes seen, never backwards, lookups return (and no deadlock) |
| `purge` | two purges, two bases with an item each, four shapes of tables, one restore, one added row | exactness of the two together; wholeness, bystanders, limits, reports under interference |
| `passthrough` | two requests, one call, one connection, answers of up to two chunks; 3,825 header sets from three peers | complete is whole, connections accounted for and given back, requests end; what untrusted peers write is unheard, chains of Forges agree |
| `search` | 25 queries, an order and a folding of texts for Python and others for the database, 11 rows in tables of up to four, one write, pages of 1 and 2, `max_rows` 3 | walk, totals, tags and contents, the clause on safe queries |

Why the bounds are enough. Publish: an article is touched by its own request only and
requests meet at tags alone, so two requests with one tag show every interaction; three
polls give a first, a middle and a last one. The tag list of the rich body has an empty
and a repeated name. Wait: an interval of 1 is half a second, less than the fallback of
2; 3 does not divide the timeout 8, so the last sleep is cut short, and 4 makes a poll
able to straddle the deadline. Cache: a maximum of 0 makes the second answer find it over
its maximum; the clock runs to more than twice the longer lifetime, so an entry is made,
used, expired, made again and used again, and lifetimes that differ by one tell an expiry
that is late by one, counted from the wrong moment or of the wrong kind. What has been
answered is history without end, so a constraint stops the exploration where more than
two pairs of a key and an answer have been heard: an entry is one such pair, and what
overwrites it the other. Keystore: three versions are a load, a change during a reload
and a change after it. Purge: one item in each base, and tables keyed by base, by item
and by both - the shapes of the default configuration - with `max_rows` 3 just below the
four rows there can be; two purges are a pair of any two, and one restore and one
addition are each placed between any two of their statements (the purges are
interchangeable, so the run uses symmetry; no liveness is checked there). Passthrough:
with one connection every holder blocks all others, so whatever can keep a connection
shows; two chunks give a first and a last one. Headers: chains of up to three entries
over two outside addresses, a proxy and a blank put every entry left and right of every
other, and two Forges are the first and one that is told by another. Search: four rows
make more candidates than `max_rows`, and pages of one row make a walk of three. The
words are ordered by code points for Python and as a dictionary has them for the
database, and one word is folded in two ways, so that both parts of `Safe` about texts
are needed: the run fails without either.

Deadlock is checked for the keystore alone: everywhere else the system may come to rest
(requests answered, the clock at its bound, a purge done).

Fairness. `Publish`: the event loop runs a coroutine that can go on, and httpx ends
every awaited call by an answer or a timeout (`WF` of `Coroutine` and `GiveUp`); nothing
is asked of WeKnora. `SyncWait`: time passes, sleeps end, polls end. `KeyStore`: threads
that can run do (`WF`), and a lock that is let go again and again is won in the end
(`SF` of `Acquire`) - `threading.Lock` promises no order, but only so many callers
contend. The contract's fairness is `WF` of answering.
`Passthrough`: the event loop runs what can run and delivers a disconnection to a running
response (`WF` of `Handler`, and of `Cancel` apart, as it competes with the relaying),
the timers of a call fire (`CallGivesUp`), and WeKnora does one thing or another, falling
silent being one of them; a caller owes nothing.

## 4. What is proved

All theorems are for every value of the constants that meets the named assumptions
(`PublishAssumption`, `SyncWaitAssumption`, `KeyStoreAssumption`, `ApiKeyCacheAssumption`,
`PurgeAssumption`, `PassthroughAssumption`, `ProxyAssumption`, `MetasSearchAssumption`,
`FmqAssumption`, `TreesAssumption`, `WalksAssumption`):
any number of requests, tags, keys, threads, polls, crashes, and both values of each
switch. `RollbackOnFailure = FALSE` is covered by the proofs and by no run.

* **`Publish_proofs`**: `TypeCorrect`, `LiveIsWhole`, `AckedIsLive`, `FailuresAccounted`,
  `WaitIsHarmless`, `StatusesKept`, `MergeIsKind`, `TagsAreAttached`,
  `ImplementsContract`. The type invariant is not inductive: `Polled` stays within
  `MaxPolls` only since a poll is awaited with fewer done (`Waits`), and a tag is added
  to WeKnora by a call whose name is the head of `todo` (`Heads`, `Wired`, `StaleTags`).
  `TInv` adds those. The safety properties rest on `SInv`: for each place of a coroutine,
  what is already on the article, and for each call nobody waits for, why it cannot hurt
  - a stale flip exists only once the metadata and the description are written, a stale
  rollback never belongs to a request answered with success, and what any write carries
  has every key of the request. Each is one lemma for each kind of step. The refinement
  maps every step to a step of the contract or a stutter, from the same invariant.
  `MergeIsKind` adds one of its own on top: WeKnora's keys are on the article, in what a
  good answer says of it, and in the payload of any write awaited or still out
  (`MergeInv`). `TagsAreAttached` adds that the loop has resolved the first names of the
  request and has the rest to do, and that the draft is made, now or by a late create, of
  all of them (`TagInv`).
* **`SyncWait_proofs`**: `TypeCorrect`, `WaitIsBounded`, `NoFinishMissed`,
  `PollsAreBounded`. The invariant adds when the current poll was sent (`Timing`), that a
  poll answered "not yet" was sent before the finish, and only such a poll times out, at
  the deadline (`Straddled`), and that each poll but the last was sent a whole interval
  after the one before it (`Paced`), which leaves room for no more than are counted.
* **`KeyStore_proofs`**: `TypeCorrect`, `LockIsHeld`, `ChangesAreSeen`, `GoesForward`.
  The invariant adds that who is between `Acquire` and `Stamp` holds the lock, that
  nothing in memory is newer than the file, that a fingerprint is that of a version no
  newer than the file (all absent ones being one), that what is about to be put in place
  is no older than what is there, and that who reads the dictionary found or made a
  fingerprint no older than its own call.
* **`ApiKeyCache_proofs`**: `TypeCorrect`, `EntriesAlwaysAnswers`, `CacheStaysBounded`,
  `DecisionsStayRecent`. The invariant adds that what was answered to a GET was answered
  since it was sent, that an entry expires within its answer's lifetime, and that the
  cache is finite (it has to be, to be counted). How long a GET takes is not assumed.

* **`Purge_proofs`**: `TypeCorrect`, `LimitIsKept`, `BystandersAreSpared`,
  `ReportsAgree`, `ItemsAreWhole`, `SweepsClean`, `PurgesAreExact`. The first invariant
  (`IInv`) says what a transaction has done by the place it has come to (`Phases`), that
  bases and items are deleted, or waited for, only where selected (`Selected`), that a
  missing row was deleted by a purge that committed (`Accounted`), that without additions
  a row is deleted once (`Exclusive`), and that no DELETE comes near an item no purge
  selected, the sweep's included (`Spared`): such an item's row is always seen, so it is
  no orphan. The steps fall into a few kinds - reading ones, a DELETE, the SELECTs, the
  ends - and each part is shown for each kind. The other three theorems need what IInv
  does not tell: what every table a purge has passed has lost. `KInv` says it of what a
  purge selected: a table before its place holds no row of it that the purge still sees,
  a DELETE that waits knows of all it is to delete, and what is gone had a reason to go.
  `SweptInv` says it of the orphans a sweep found, but for those a purge that does not
  sweep leaves after it, and `ExactInv` that, while nothing but purges happens, all of
  them select the same and the first to commit leaves nothing of it. `ItemsAreWhole` and
  `PurgesAreExact` suppose `ItemsInCascade`: that `purge.tables` names the table of the
  items and removes from it by item id, as the default configuration does. Without it a
  purge removes what hangs on items and keeps the items.
* **`Passthrough_proofs`**: `TypeCorrect`, `WholeIfComplete`, `PoolIsAccounted`. The
  invariant adds that no more was got than read and read than made, in step with the
  place of the generator, and who holds a connection at each place.
* **`ProxyHeaders_proofs`**: `CallersAreUnheard`, `ChainsAlwaysAgree`, for headers of any
  length, any set of trusted peers and any number of Forges. They rest on facts about the
  functions - a Forge told by another tells the same (`SecondAgrees`), what is cut or
  bare is told alike - and on the invariant that each Forge hears what the first did
  (`Heard`); the rightmost entry exists as positions are bounded.

* **`Search_proofs`**: of the search `TypeCorrect`, `ExactTotal`, `WalkIsComplete`,
  `ItemsAreFilled`, for any language; of the language `ClauseIsSuperset`; of both
  `SafeSearchIsComplete`. A walk is complete since in calm the pages seen so far are
  a prefix of the matches in their order, and each ends where the next begins; that
  positions number a finite set from 1 up is shown by counting those before each,
  not by induction. `ClauseIsSuperset` is shown for each operator on its own
  (`SafeExistence` to `SafeOrders`; the two orders of texts meet in `SafeOrders` alone, the
  two foldings in `FoldsAlike`), together for a comparison (`SafeComparison`), and for
  trees of any height (`SafeTree`) by the smallest counterexample: below a node there is
  none, and the node adds none. A NOT needs no more than `SqlNot`, as nothing below it is
  asked anything.

Only model-checked: liveness (`WaitEnds`, `LookupReturns`, `ConnectionsComeBack`,
`RequestsEnd`) and the fairness half of the contract (`MeetsContract`),
as the prover has no rules for `ENABLED`; and, by TLC's evaluation of `WalksAssumption` on
the instance of `MCSearch`, that the walks written with recursion do at each node what
`Fmq` says. Every invariant and every action property a passing run checks is proved.

## 5. Not modelled

The lexer and parser of FMQ, SQL text and quoting, HMAC arithmetic and the reading of
credentials, request and error envelopes, OpenAPI decoration, logging, the probes of the
system router, configuration loading, the scripts and the vendored Swagger files: pure
functions of one input, or no behaviour of their own. Authentication as a whole
(`verify_v2` over the keystore and the key cache) would add no interleaving to its parts: the
keystore is asked without an `await` in between, and the cache's answer alone decides.

Of the passthrough: the rewriting of the response's headers (section 6 names what it
does), request bodies (read whole before anything is sent) and keep-alive of
connections. Of the proxy headers: ports, brackets and quotes around addresses (an entry
`10.0.0.1:80` is not taken for a trusted one), repeated fields of one name, of which the
relayed request keeps the last, and websockets. Of WeKnora only what Forge's calls show
is modelled, and marked external.

## 6. Where code and words differ

* `publish_claim`: "rolled back on failure" is not so for a create whose answer is lost.
* `keystore_claim`: "re-read automatically whenever it changes" is not so for a change
  between `_reload`'s read and the fingerprint it then takes; the old secret stays until
  the file changes again. Taking the fingerprint before the read would mend it.
* `search_claim`: the clause is "guaranteed to be a SUPERSET", and is not.
* `order_claim`: rows come "already ordered the way the deployment wants them", but
  `DISTINCT ON (id)` forces the id first and `default_order` never decides anything.


Read off the code while modelling, with no run of its own:

* `TESTCASE.md`:166-168 says that only a conflict makes `ensure_tag` look the tag up;
  the code does so after any failure of the create, a timeout included (`upstream.py`:337;
  `TagCreateFailed` of `Publish` is that), and `_map_status` has by then made 502 of a 409.
* `README.md` calls the passthrough verbatim (lines 106, 110, 597), and `errors.py`:8 says
  that it returns the upstream's response verbatim. But `content-encoding` is dropped from
  the answer while `aiter_raw` relays its bytes still encoded (`proxy_v1.py`:76 and 81), and
  httpx asks for gzip by itself where the caller named no encoding: such a caller gets
  gzip that nothing says is gzip. Repeated response headers are joined into one, which
  `Set-Cookie` does not survive.
* A response header outside latin-1, which httpx decodes as UTF-8, makes
  `StreamingResponse` fail: the caller gets a 500 and the connection is never given
  back (`Lost` in `Passthrough`).
* `raw` has no timeout of any kind (`upstream.py`:185), although `timeout_seconds` is
  configured: `Kept` and `Exhausted` in `Passthrough` say what follows.
* `_headers` adds `Accept: application/json` beside the `accept` of a relayed caller.

## 7. What is left

1. Row-by-row DELETEs, so that two purges can deadlock inside one statement.
2. The FMQ parser against its grammar, over short token lists.
3. Nested metadata paths and object values in `Fmq`.
4. Of the liveness properties the part that needs no `ENABLED`: that each step of a
   coroutine or a thread brings it nearer to its end, as an action property with a proof.
