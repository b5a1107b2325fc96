------------------------------- MODULE Purge -------------------------------
(***************************************************************************)
(* DELETE /api/v2/management/purge: PurgeService.run in the transaction    *)
(* the endpoint opens, statement by statement, while WeKnora goes on using *)
(* the same tables and a scheduler that timed out has made the call again. *)
(* PostgreSQL runs a transaction READ COMMITTED: each statement sees what  *)
(* is committed when it starts, minus the rows its own transaction has     *)
(* deleted.  Those are locked until it ends: a DELETE that meets a row     *)
(* another purge has deleted waits for that one's end.                     *)
(*                                                                         *)
(* A row names the knowledge base and the knowledge item it belongs to     *)
(* (NoKn for a row of a base as such).  Deletion times are told apart only *)
(* by the cutoff: a row is soft-deleted before it (`old') or is not; what  *)
(* is soft-deleted while the purges run is newer than their cutoff.        *)
(***************************************************************************)
EXTENDS Naturals, Sequences, FiniteSets

CONSTANTS
  Purges,               \* calls of the endpoint
  KBs, Kns, NoKn,       \* knowledge bases, knowledge items
  KbOf,                 \* the base of each item
  Cascade,              \* purge.tables, children first: [table, byKb, byKn]
  Sweeps,               \* purge.orphan_tables
  Missable,             \* tables that may have been missing when first asked for
  MaxRows,              \* purge.max_rows, 0 for no limit
  MaxRestores, MaxAdds  \* bounds: what WeKnora does meanwhile

KNOWLEDGES == "knowledges"
BASES == "knowledge_bases"
TablesOf(specs) == {specs[i].table : i \in DOMAIN specs}
Tables == TablesOf(Cascade) \cup TablesOf(Sweeps) \cup {KNOWLEDGES, BASES}
Row(n) == [kb |-> KbOf[n], kn |-> n]
Base(b) == [kb |-> b, kn |-> NoKn]
Rows == {Row(n) : n \in Kns} \cup {Base(b) : b \in KBs}
Specs == [table: STRING, byKb: BOOLEAN, byKn: BOOLEAN]

ASSUME PurgeAssumption ==
  /\ IsFiniteSet(KBs) /\ IsFiniteSet(Kns)
  /\ NoKn \notin Kns /\ KbOf \in [Kns -> KBs]
  /\ Cascade \in Seq(Specs) /\ Sweeps \in Seq(Specs)
  /\ BASES \notin TablesOf(Cascade) \cup TablesOf(Sweeps)
  /\ Missable \subseteq Tables \ {KNOWLEDGES, BASES}
  /\ KNOWLEDGES \notin TablesOf(Sweeps)  \* items are purged by their ids alone
  /\ \A i \in DOMAIN Cascade : Cascade[i].table = KNOWLEDGES => ~Cascade[i].byKb
  /\ MaxRows \in Nat /\ MaxRestores \in Nat /\ MaxAdds \in Nat

VARIABLES
  rows,            \* WeKnora: the committed rows of each table
  oldKb, oldKn,    \* whose deleted_at is older than the cutoff
  absent,          \* _column_cache: tables it holds for missing
  before,          \* history: the database when it all began
  pc, at,          \* of each purge: the next statement, the table it is about
  dry, sweep,      \* dry_run, include_embed
  kbIds, knIds,    \* what the two SELECTs found
  gone,            \* rows the transaction has deleted
  blocked,         \* rows found by a DELETE that waits for another transaction
  outcome,         \* none, committed, limit, failed
  restores, adds   \* what WeKnora did since

target == <<rows, oldKb, oldKn>>
fixed == <<absent, before>>
request == <<dry, sweep>>
others == <<restores, adds>>
vars == <<target, fixed, pc, at, request, kbIds, knIds, gone, blocked, outcome, others>>

Nothing == [t \in Tables |-> {}]
Database == [rows |-> rows, oldKb |-> oldKb, oldKn |-> oldKn]
Databases == [rows: [Tables -> SUBSET Rows], oldKb: SUBSET KBs, oldKn: SUBSET Kns]
InTransaction(p) == pc[p] \notin {"idle", "done"}

TypeOK ==
  /\ Database \in Databases /\ before \in Databases
  /\ absent \subseteq Missable
  /\ pc \in [Purges -> {"idle", "kbs", "kns", "count", "delete", "kbCount",
                        "kbDelete", "sweepCount", "sweepDelete", "commit", "done"}]
  /\ at \in [Purges -> Nat]
  /\ \A p \in Purges :
       /\ pc[p] \in {"count", "delete"} => at[p] \in 1 .. Len(Cascade) + 1
       /\ pc[p] = "delete" => at[p] \in DOMAIN Cascade
       /\ pc[p] = "sweepCount" => at[p] \in 1 .. Len(Sweeps) + 1
       /\ pc[p] = "sweepDelete" => at[p] \in DOMAIN Sweeps
  /\ dry \in [Purges -> BOOLEAN] /\ sweep \in [Purges -> BOOLEAN]
  /\ kbIds \in [Purges -> SUBSET KBs] /\ knIds \in [Purges -> SUBSET Kns]
  /\ gone \in [Purges -> [Tables -> SUBSET Rows]]
  /\ blocked \in [Purges -> SUBSET Rows]
  /\ outcome \in [Purges -> {"none", "committed", "limit", "failed"}]
  /\ restores \in 0 .. MaxRestores /\ adds \in 0 .. MaxAdds

\* Rows of an item or a base that is gone are orphans earlier deletions left.
Init ==
  /\ absent \in SUBSET Missable
  /\ \E bases \in SUBSET KBs : \E items \in SUBSET {n \in Kns : KbOf[n] \in bases} :
       /\ oldKb \in SUBSET bases /\ oldKn \in SUBSET items
       /\ rows = [t \in Tables |-> CASE t = KNOWLEDGES -> {Row(n) : n \in items}
                                     [] t = BASES -> {Base(b) : b \in bases}
                                     [] OTHER -> Rows]
  /\ before = Database
  /\ pc = [p \in Purges |-> "idle"] /\ at = [p \in Purges |-> 0]
  /\ dry = [p \in Purges |-> TRUE] /\ sweep = [p \in Purges |-> FALSE]
  /\ kbIds = [p \in Purges |-> {}] /\ knIds = [p \in Purges |-> {}]
  /\ gone = [p \in Purges |-> Nothing] /\ blocked = [p \in Purges |-> {}]
  /\ outcome = [p \in Purges |-> "none"] /\ restores = 0 /\ adds = 0

-----------------------------------------------------------------------------
(* The statements.                                                         *)

Seen(p, t) == rows[t] \ gone[p][t]
SeenKbs(p) == {w.kb : w \in Seen(p, BASES)}
Goto(p, l, i) == pc' = [pc EXCEPT ![p] = l] /\ at' = [at EXCEPT ![p] = i]

Begin(p) ==
  /\ pc[p] = "idle" /\ Goto(p, "kbs", 0)
  /\ \E d \in BOOLEAN, s \in BOOLEAN :
       dry' = [dry EXCEPT ![p] = d] /\ sweep' = [sweep EXCEPT ![p] = s]
  /\ UNCHANGED <<target, fixed, kbIds, knIds, gone, blocked, outcome, others>>

SelectKbs(p) ==
  /\ pc[p] = "kbs" /\ Goto(p, "kns", 0)
  /\ kbIds' = [kbIds EXCEPT ![p] = SeenKbs(p) \cap oldKb]
  /\ UNCHANGED <<target, fixed, request, knIds, gone, blocked, outcome, others>>

\* Mutated Doomed: only the items' own deletion counts; or any table is asked.
DoomedAlone(p) == {w.kn : w \in {v \in Seen(p, KNOWLEDGES) : v.kn \in oldKn}}
DoomedAnywhere(p) == {w.kn : w \in {v \in UNION {Seen(p, t) : t \in Tables} :
                                       v.kn \in oldKn \/ v.kb \in kbIds[p]}}

\* Old items, and every item of an old base; then the limit, which counts
\* bases and items only, and the early way out when there is nothing.
Doomed(p) ==
  {w.kn : w \in {v \in Seen(p, KNOWLEDGES) : v.kn \in oldKn \/ v.kb \in kbIds[p]}}

\* Mutated OverLimit: the bases are not counted.
OverLimitOfItems(p) == MaxRows # 0 /\ Cardinality(Doomed(p)) > MaxRows

OverLimit(p) == MaxRows # 0 /\ Cardinality(kbIds[p]) + Cardinality(Doomed(p)) > MaxRows
AfterCascade(p) ==
  IF sweep[p] THEN Goto(p, "sweepCount", 1) ELSE Goto(p, "commit", 0)

SelectKns(p) ==
  /\ pc[p] = "kns"
  /\ knIds' = [knIds EXCEPT ![p] = Doomed(p)]
  /\ IF OverLimit(p)
     THEN Goto(p, "done", 0) /\ outcome' = [outcome EXCEPT ![p] = "limit"]
     ELSE /\ UNCHANGED outcome
          /\ IF kbIds[p] = {} /\ Doomed(p) = {} THEN AfterCascade(p)
                                                ELSE Goto(p, "count", 1)
  /\ UNCHANGED <<target, fixed, request, kbIds, gone, blocked, others>>

\* _target_filter, and the rows it hits.  An empty id list gives no clause.
Filtered(p, s) == (s.byKb /\ kbIds[p] # {}) \/ (s.byKn /\ knIds[p] # {})
\* Mutated Hits: the base filter does not name the bases.
HitsAnyBase(p, s) ==
  {w \in Seen(p, s.table) : (s.byKb /\ kbIds[p] # {}) \/ (s.byKn /\ w.kn \in knIds[p])}

Hits(p, s) == {w \in Seen(p, s.table) : \/ s.byKb /\ w.kb \in kbIds[p]
                                        \/ s.byKn /\ w.kn \in knIds[p]}

AfterTables(p) ==
  IF kbIds[p] # {} THEN Goto(p, "kbCount", 0) ELSE AfterCascade(p)
\* Mutated AfterTable: the last table is left out.
AfterTableShort(p) ==
  IF at[p] < Len(Cascade) - 1 THEN Goto(p, "count", at[p] + 1) ELSE AfterTables(p)

AfterTable(p) ==
  IF at[p] < Len(Cascade) THEN Goto(p, "count", at[p] + 1) ELSE AfterTables(p)

Count(p) ==       \* COUNT(*), or the table is skipped
  /\ pc[p] = "count"
  /\ IF at[p] > Len(Cascade) THEN AfterTables(p)
     ELSE LET s == Cascade[at[p]] IN
       IF s.table \notin absent /\ Filtered(p, s) /\ ~dry[p] /\ Hits(p, s) # {}
       THEN Goto(p, "delete", at[p]) ELSE AfterTable(p)
  /\ UNCHANGED <<target, fixed, request, kbIds, knIds, gone, blocked, outcome, others>>

Locked(p, t) == UNION {gone[q][t] : q \in {r \in Purges \ {p} : InTransaction(r)}}
\* Mutated Erase: the rows another transaction holds are taken as well.
EraseUnlocked(p, t, hits, after) ==
  /\ gone' = [gone EXCEPT ![p][t] = @ \cup hits]
  /\ UNCHANGED <<target, fixed, request, kbIds, knIds, blocked, outcome, others>> /\ after

\* A DELETE finds its rows when it starts.  Where another transaction has deleted
\* one of them it waits, and then takes those of its rows that are still there.
Erase(p, t, hits, after) ==
  LET found == IF blocked[p] = {} THEN hits ELSE blocked[p] \cap rows[t] IN
  /\ \/ /\ found \cap Locked(p, t) # {} /\ blocked[p] = {}
        /\ blocked' = [blocked EXCEPT ![p] = found]
        /\ UNCHANGED <<gone, pc, at>>
     \/ /\ found \cap Locked(p, t) = {}
        /\ blocked' = [blocked EXCEPT ![p] = {}]
        /\ gone' = [gone EXCEPT ![p][t] = @ \cup found]
        /\ after
  /\ UNCHANGED <<target, fixed, request, kbIds, knIds, outcome, others>>

Delete(p) ==      \* DELETE with the same filter, evaluated anew
  /\ pc[p] = "delete"
  /\ LET s == Cascade[at[p]] IN Erase(p, s.table, Hits(p, s), AfterTable(p))

CountKbs(p) ==
  /\ pc[p] = "kbCount"
  /\ IF ~dry[p] /\ SeenKbs(p) \cap kbIds[p] # {} THEN Goto(p, "kbDelete", 0)
                                                 ELSE AfterCascade(p)
  /\ UNCHANGED <<target, fixed, request, kbIds, knIds, gone, blocked, outcome, others>>

DeleteKbs(p) ==
  /\ pc[p] = "kbDelete"
  /\ Erase(p, BASES, {w \in Seen(p, BASES) : w.kb \in kbIds[p]}, AfterCascade(p))

\* Mutated Orphans: a row whose base is gone is not looked for.
OrphansOfItems(p, s) ==
  {w \in Seen(p, s.table) :
     s.byKn /\ w.kn # NoKn /\ \A k \in Seen(p, KNOWLEDGES) : k.kn # w.kn}

\* _sweep_orphans: rows whose item or base is not there any more.
Orphans(p, s) ==
  {w \in Seen(p, s.table) :
     \/ s.byKn /\ w.kn # NoKn /\ \A k \in Seen(p, KNOWLEDGES) : k.kn # w.kn
     \/ s.byKb /\ w.kb \notin SeenKbs(p)}

AfterSweep(p) ==
  IF at[p] < Len(Sweeps) THEN Goto(p, "sweepCount", at[p] + 1) ELSE Goto(p, "commit", 0)

CountOrphans(p) ==
  /\ pc[p] = "sweepCount"
  /\ IF at[p] > Len(Sweeps) THEN Goto(p, "commit", 0)
     ELSE LET s == Sweeps[at[p]] IN
       IF s.table \notin absent /\ ~dry[p] /\ Orphans(p, s) # {}
       THEN Goto(p, "sweepDelete", at[p]) ELSE AfterSweep(p)
  /\ UNCHANGED <<target, fixed, request, kbIds, knIds, gone, blocked, outcome, others>>

DeleteOrphans(p) ==
  /\ pc[p] = "sweepDelete"
  /\ LET s == Sweeps[at[p]] IN Erase(p, s.table, Orphans(p, s), AfterSweep(p))

Commit(p) ==
  /\ pc[p] = "commit" /\ Goto(p, "done", 0)
  /\ outcome' = [outcome EXCEPT ![p] = "committed"]
  /\ rows' = [t \in Tables |-> Seen(p, t)]
  /\ UNCHANGED <<oldKb, oldKn, fixed, request, kbIds, knIds, gone, blocked, others>>

\* A statement fails or times out, or the connection is lost: all is undone.
Fail(p) ==
  /\ InTransaction(p) /\ Goto(p, "done", 0)
  /\ outcome' = [outcome EXCEPT ![p] = "failed"]
  /\ gone' = [gone EXCEPT ![p] = Nothing]
  /\ blocked' = [blocked EXCEPT ![p] = {}]
  /\ UNCHANGED <<target, fixed, request, kbIds, knIds, others>>

-----------------------------------------------------------------------------
(* WeKnora, on rows no purge has locked.                                   *)

Meanwhile == \E p \in Purges : InTransaction(p)
Free(t, w) == \A p \in Purges : InTransaction(p) => w \notin gone[p][t]

Restoring ==
  /\ Meanwhile /\ restores < MaxRestores /\ restores' = restores + 1
  /\ UNCHANGED <<rows, fixed, pc, at, request, kbIds, knIds, gone, blocked,
                 outcome, adds>>
Restore(n) ==
  /\ n \in oldKn /\ Free(KNOWLEDGES, Row(n))
  /\ oldKn' = oldKn \ {n} /\ UNCHANGED oldKb /\ Restoring
RestoreKb(b) ==
  /\ b \in oldKb /\ Free(BASES, Base(b))
  /\ oldKb' = oldKb \ {b} /\ UNCHANGED oldKn /\ Restoring

\* A row is added to an item that is live and, to WeKnora, still there - a chunk
\* of an item being parsed - or the item itself to a base that is live.  A row
\* stands for all of its item in its table: one that a DELETE waits for is not
\* added over.
Adding ==
  /\ Meanwhile /\ adds < MaxAdds /\ adds' = adds + 1
  /\ UNCHANGED <<oldKb, oldKn, fixed, pc, at, request, kbIds, knIds, blocked,
                 outcome, restores>>
AddItem(n) ==
  /\ Row(n) \notin rows[KNOWLEDGES]
  /\ Base(KbOf[n]) \in rows[BASES] /\ KbOf[n] \notin oldKb
  /\ rows' = [rows EXCEPT ![KNOWLEDGES] = @ \cup {Row(n)}]
  /\ UNCHANGED gone /\ Adding
AddRow(t, n) ==
  /\ t \notin {KNOWLEDGES, BASES}
  /\ ~(Row(n) \in rows[t] /\ Free(t, Row(n))) /\ \A p \in Purges : Row(n) \notin blocked[p]
  /\ Row(n) \in rows[KNOWLEDGES] /\ n \notin oldKn
  /\ rows' = [rows EXCEPT ![t] = @ \cup {Row(n)}]
  /\ gone' = [p \in Purges |-> IF InTransaction(p)
                THEN [gone[p] EXCEPT ![t] = @ \ {Row(n)}] ELSE gone[p]]
  /\ Adding

Purging(p) ==
  \/ Begin(p) \/ SelectKbs(p) \/ SelectKns(p) \/ Count(p) \/ Delete(p) \/ CountKbs(p)
  \/ DeleteKbs(p) \/ CountOrphans(p) \/ DeleteOrphans(p) \/ Commit(p) \/ Fail(p)

Next ==
  \/ \E p \in Purges : Purging(p)
  \/ \E n \in Kns : \/ Restore(n) \/ AddItem(n)
                    \/ \E t \in Tables : AddRow(t, n)
  \/ \E b \in KBs : RestoreKb(b)

Spec == Init /\ [][Next]_vars
-----------------------------------------------------------------------------
Purged(p) == outcome[p] = "committed" /\ ~dry[p]
Items(db) == {w.kn : w \in db.rows[KNOWLEDGES]}
Bases(db) == {w.kb : w \in db.rows[BASES]}

\* With no one but purges at work, what others see of the tables is exact, at any
\* moment, one purge at a time or two at once, whichever of them fail: nothing is
\* gone until one commits; from then on bases and items deleted before the cutoff,
\* all items of those bases, every row of either in the cascade tables - and, once
\* one that sweeps commits, every orphan in the swept ones - are, and nothing else.
DeadKbs == before.oldKb
DeadKns == {n \in Items(before) : n \in before.oldKn \/ KbOf[n] \in DeadKbs}
Columns(specs, t) == {specs[i] : i \in {j \in DOMAIN specs : specs[j].table = t}}
Falls(t, w) ==
  \/ t = BASES /\ w.kb \in DeadKbs
  \/ \E s \in Columns(Cascade, t) : (s.byKb /\ w.kb \in DeadKbs)
                                 \/ (s.byKn /\ w.kn \in DeadKns)
Drifts(t, w) ==
  \E s \in Columns(Sweeps, t) :
    \/ s.byKb /\ w.kb \notin Bases(before) \ DeadKbs
    \/ s.byKn /\ w.kn \notin {NoKn} \cup (Items(before) \ DeadKns)
PurgesExactly ==
  restores = 0 /\ adds = 0 =>
    \A t \in Tables \ absent :
      rows[t] = {w \in before.rows[t] :
                   /\ (\E p \in Purges : Purged(p)) => ~Falls(t, w)
                   /\ (\E p \in Purges : Purged(p) /\ sweep[p]) => ~Drifts(t, w)}

\* What restores cannot do, with one purge or two, at any moment: an item leaves
\* with all its rows or stays with all of them, and never without its base.
ItemsGoWhole ==
  adds = 0 => \A n \in Items(before) :
    /\ n \in Items(Database) => KbOf[n] \in Bases(Database)
    /\ \A t \in Tables \ absent : (\E s \in Columns(Cascade, t) : s.byKn) =>
         (Row(n) \in rows[t] <=> n \in Items(Database) /\ Row(n) \in before.rows[t])

\* After a sweep a row of a swept table lacks its item or its base only where
\* another purge removed that and did not sweep, whatever was restored
\* meanwhile, unless rows came.
SweptClean ==
  \A p \in Purges : Purged(p) /\ sweep[p] /\ adds = 0 =>
    LET unswept == {q \in Purges : Purged(q) /\ ~sweep[q]} IN
    \A i \in DOMAIN Sweeps : LET s == Sweeps[i] IN
      s.table \notin absent => \A w \in rows[s.table] :
        /\ s.byKb => w.kb \in Bases(Database) \cup UNION {kbIds[q] : q \in unswept}
        /\ s.byKn => w.kn \in {NoKn} \cup Items(Database)
                                \cup UNION {knIds[q] : q \in unswept}

\* Each base and each item that is gone was selected by a purge that committed
\* and was within its limit.
LimitKept ==
  LET Within == {p \in Purges : /\ Purged(p)
                                /\ MaxRows # 0 => Cardinality(kbIds[p])
                                                    + Cardinality(knIds[p]) <= MaxRows} IN
  /\ \A b \in Bases(before) \ Bases(Database) : \E p \in Within : b \in kbIds[p]
  /\ \A n \in Items(before) \ Items(Database) : \E p \in Within : n \in knIds[p]

\* An item that no purge selected, in a base that none selected, keeps every row
\* it had, whatever WeKnora does meanwhile and however the purges end.
BystandersKeepRows ==
  \A n \in Items(before) :
    (\A p \in Purges : n \notin knIds[p] /\ KbOf[n] \notin kbIds[p]) =>
      \A t \in Tables : Row(n) \in before.rows[t] => Row(n) \in rows[t]

\* The figures of the reports add up.  `gone' is what each DELETE of a purge took;
\* report.deleted is keyed by the table, so a table that purge.tables named twice
\* would show its last figure only.  What is missing was counted by a purge that
\* committed and was not dry - so dry runs, runs over the limit and runs that fail
\* midway delete nothing, also beside each other - and unless rows came, no row is
\* counted by two, and all that is counted is missing.
ReportsAddUp ==
  \A t \in Tables :
    LET missing == before.rows[t] \ rows[t]
        reported == UNION {gone[p][t] : p \in {q \in Purges : Purged(q)}}
    IN /\ missing \subseteq reported
       /\ adds = 0 => /\ reported \subseteq missing
                      /\ \A p, q \in Purges : p # q => gone[p][t] \cap gone[q][t] = {}
=============================================================================
