--------------------------- MODULE Purge_proofs ---------------------------
(***************************************************************************)
(* Proofs about Purge, for any number of purges at once, any tables and    *)
(* bounds: what is deleted was selected by a purge within its limit, what  *)
(* no purge selected keeps its rows, the reports add up (IInv); items go   *)
(* whole (KInv), sweeps leave no orphans (SweptInv), and what is missing   *)
(* is exactly what the purges were to remove (ExactInv). Each invariant    *)
(* rests on those before it.                                               *)
(*                                                                         *)
(* The steps of a purge fall into a few kinds: reading steps that only go  *)
(* on (Reads), a DELETE (Erases), which waits or takes (Stops, Clears),    *)
(* the two SELECTs, the beginning and the two ends. Each part of an        *)
(* invariant is shown for each kind.                                       *)
(***************************************************************************)
EXTENDS Purge, FiniteSetTheorems, TLAPS

Calm == {"count", "kbCount", "sweepCount", "commit"}
Deleting == {"delete", "kbDelete", "sweepDelete"}

-----------------------------------------------------------------------------
(* The invariant.                                                          *)

\* What was there at the beginning was whole; a row of the items is an item.
History ==
  /\ \A n \in Items(before) : /\ n \in Kns /\ Row(n) \in before.rows[KNOWLEDGES]
                              /\ Base(KbOf[n]) \in before.rows[BASES]
  /\ \A w \in rows[KNOWLEDGES] : w.kn \in Kns

\* What a transaction has done by the place it has come to.
Phases ==
  \A p \in Purges :
    /\ pc[p] \in {"idle", "kbs"} => kbIds[p] = {}
    /\ pc[p] \in {"idle", "kbs", "kns"} => knIds[p] = {} /\ gone[p] = Nothing
    /\ pc[p] \in Deleting => ~dry[p]
    /\ pc[p] \notin Deleting => blocked[p] = {}
    /\ dry[p] \/ outcome[p] \in {"failed", "limit"} => gone[p] = Nothing
    /\ pc[p] = "done" <=> outcome[p] # "none"
    /\ MaxRows # 0 /\ pc[p] \notin {"idle", "kbs", "kns"}
         /\ outcome[p] \notin {"failed", "limit"} =>
           Cardinality(kbIds[p]) + Cardinality(knIds[p]) <= MaxRows

\* Bases and items are deleted only where selected, and so is what waits to be.
Named(p, s, w) == (s.byKb /\ w.kb \in kbIds[p]) \/ (s.byKn /\ w.kn \in knIds[p])
Selected ==
  \A p \in Purges :
    /\ \A w \in gone[p][BASES] : w.kb \in kbIds[p]
    /\ \A w \in gone[p][KNOWLEDGES] : w.kn \in knIds[p]
    /\ pc[p] = "delete" => \A w \in blocked[p] : Named(p, Cascade[at[p]], w)
    /\ pc[p] = "kbDelete" => \A w \in blocked[p] : w.kb \in kbIds[p]

\* Every row that is missing was deleted by a purge that committed.
Accounted ==
  \A t \in Tables : \A w \in before.rows[t] \ rows[t] :
    \E p \in Purges : outcome[p] = "committed" /\ w \in gone[p][t]

\* Where no row was added: rows are deleted once, while they are there.
Exclusive ==
  adds = 0 => \A t \in Tables :
    /\ rows[t] \subseteq before.rows[t]
    /\ \A p \in Purges :
         /\ gone[p][t] \subseteq before.rows[t]
         /\ outcome[p] = "committed" => gone[p][t] \cap rows[t] = {}
         /\ outcome[p] = "none" => gone[p][t] \subseteq rows[t]
         /\ \A q \in Purges : p # q => gone[p][t] \cap gone[q][t] = {}

\* No DELETE comes near an item that no purge selected.
Unselected(n) == \A p \in Purges : n \notin knIds[p] /\ KbOf[n] \notin kbIds[p]
Spared ==
  \A n \in Items(before) : Unselected(n) =>
    \A p \in Purges : Row(n) \notin blocked[p] /\ \A t \in Tables : Row(n) \notin gone[p][t]

IInv == TypeOK /\ History /\ Phases /\ Selected /\ Accounted /\ Exclusive /\ Spared

-----------------------------------------------------------------------------
(* Tables and rows.                                                        *)

LEMMA TablesType ==
  /\ KNOWLEDGES \in Tables /\ BASES \in Tables /\ KNOWLEDGES # BASES
  /\ \A i \in DOMAIN Cascade : /\ Cascade[i].table \in Tables \ {BASES}
                               /\ Cascade[i].table = KNOWLEDGES => ~Cascade[i].byKb
  /\ \A i \in DOMAIN Sweeps : Sweeps[i].table \in Tables \ {KNOWLEDGES, BASES}
  /\ Len(Cascade) \in Nat /\ DOMAIN Cascade = 1 .. Len(Cascade)
  /\ Len(Sweeps) \in Nat /\ DOMAIN Sweeps = 1 .. Len(Sweeps)
  BY PurgeAssumption DEF Tables, TablesOf, KNOWLEDGES, BASES

LEMMA RowsType ==
  /\ \A n \in Kns : /\ Row(n) \in Rows /\ Row(n).kn = n /\ Row(n).kb = KbOf[n]
                    /\ KbOf[n] \in KBs /\ n # NoKn
  /\ \A b \in KBs : Base(b) \in Rows /\ Base(b).kb = b /\ Base(b).kn = NoKn
  /\ \A w \in Rows : w.kb \in KBs /\ (w.kn # NoKn => w.kn \in Kns /\ w = Row(w.kn))
  BY PurgeAssumption DEF Row, Base, Rows

LEMMA NothingType == Nothing \in [Tables -> SUBSET Rows] /\ \A t \in Tables : Nothing[t] = {}
  BY DEF Nothing

-----------------------------------------------------------------------------
(* The kinds of steps.                                                     *)

Still == UNCHANGED <<target, fixed, request, kbIds, knIds, outcome, others>>
Onward(p) ==
  \E l \in Calm, i \in Nat :
    /\ Goto(p, l, i)
    /\ l = "count" => i \in 1 .. Len(Cascade) + 1
    /\ l = "sweepCount" => i \in 1 .. Len(Sweeps) + 1
ToDelete(p) ==
  /\ ~dry[p]
  /\ \E l \in Deleting : /\ Goto(p, l, at[p]) \/ Goto(p, l, 0)
                         /\ l = "delete" => at[p] \in DOMAIN Cascade /\ Goto(p, l, at[p])
                         /\ l = "sweepDelete" => at[p] \in DOMAIN Sweeps /\ Goto(p, l, at[p])

Reads(p) ==
  /\ pc[p] \in Calm \ {"commit"} /\ (Onward(p) \/ ToDelete(p))
  /\ Still /\ UNCHANGED <<gone, blocked>>

\* A DELETE on t: why it may take each of the rows it hits.
Reason(p, t, w) ==
  \/ pc[p] = "delete" /\ t = Cascade[at[p]].table /\ Named(p, Cascade[at[p]], w)
  \/ pc[p] = "kbDelete" /\ t = BASES /\ w.kb \in kbIds[p]
  \/ pc[p] = "sweepDelete" /\ t \notin {KNOWLEDGES, BASES} /\ (w.kb \notin SeenKbs(p)
       \/ (w.kn # NoKn /\ \A k \in Seen(p, KNOWLEDGES) : k.kn # w.kn))
Waits(p, t, hits) ==
  /\ blocked[p] = {} /\ blocked' = [blocked EXCEPT ![p] = hits]
  /\ UNCHANGED <<gone, pc, at>>
Takes(p, t, hits) ==
  /\ \E found \in SUBSET rows[t] :
       /\ \A w \in found : w \in hits \/ w \in blocked[p]
       /\ found \cap Locked(p, t) = {} /\ gone' = [gone EXCEPT ![p][t] = @ \cup found]
  /\ blocked' = [blocked EXCEPT ![p] = {}] /\ Onward(p)
Erases(p) ==
  /\ pc[p] \in Deleting
  /\ \E t \in Tables : \E hits \in SUBSET Seen(p, t) :
       /\ pc[p] = "delete" => t = Cascade[at[p]].table
       /\ pc[p] = "kbDelete" => t = BASES
       /\ pc[p] = "sweepDelete" => t \notin {KNOWLEDGES, BASES}
       /\ \A w \in hits : Reason(p, t, w)
       /\ Waits(p, t, hits) \/ Takes(p, t, hits)
  /\ Still

LEMMA Onwards ==
  ASSUME TypeOK, NEW p \in Purges
  PROVE  /\ AfterCascade(p) => Onward(p)
         /\ AfterTables(p) => Onward(p)
         /\ at[p] \in DOMAIN Cascade /\ AfterTable(p) => Onward(p)
         /\ at[p] \in DOMAIN Sweeps /\ AfterSweep(p) => Onward(p)
<1>0. at[p] \in Nat
  BY DEF TypeOK
<1>1. AfterCascade(p) => Onward(p)
  BY TablesType DEF AfterCascade, Onward, Calm
<1>2. AfterTables(p) => Onward(p)
  BY <1>1, TablesType DEF AfterTables, Onward, Calm
<1>3. at[p] \in DOMAIN Cascade /\ AfterTable(p) => Onward(p)
  BY <1>0, <1>2, TablesType DEF AfterTable, Onward, Calm
<1>4. at[p] \in DOMAIN Sweeps /\ AfterSweep(p) => Onward(p)
  BY <1>0, TablesType DEF AfterSweep, Onward, Calm
<1> QED BY <1>1, <1>2, <1>3, <1>4

LEMMA ReadingSteps ==
  ASSUME TypeOK, NEW p \in Purges, Count(p) \/ CountKbs(p) \/ CountOrphans(p)
  PROVE  Reads(p)
<1> USE DEF Reads, Still
<1>1. CASE Count(p)
  <2>1. at[p] \in 1 .. Len(Cascade) + 1 /\ pc[p] = "count"
    BY <1>1 DEF TypeOK, Count
  <2>2. CASE at[p] > Len(Cascade)
    BY <1>1, <2>1, <2>2, Onwards DEF Count, Calm
  <2>3. CASE at[p] \in DOMAIN Cascade
    <3>1. Onward(p) \/ ToDelete(p)
      BY <1>1, <2>1, <2>3, Onwards, TablesType DEF Count, ToDelete, Deleting
    <3> QED BY <1>1, <2>1, <3>1 DEF Count, Calm
  <2> QED BY <2>1, <2>2, <2>3, TablesType
<1>2. CASE CountKbs(p)
  BY <1>2, Onwards DEF CountKbs, ToDelete, Calm, Deleting
<1>3. CASE CountOrphans(p)
  <2>1. at[p] \in 1 .. Len(Sweeps) + 1 /\ pc[p] = "sweepCount"
    BY <1>3 DEF TypeOK, CountOrphans
  <2>2. CASE at[p] > Len(Sweeps)
    BY <1>3, <2>1, <2>2 DEF CountOrphans, Calm, Onward
  <2>3. CASE at[p] \in DOMAIN Sweeps
    <3>1. Onward(p) \/ ToDelete(p)
      BY <1>3, <2>1, <2>3, Onwards, TablesType DEF CountOrphans, ToDelete, Deleting
    <3> QED BY <1>3, <2>1, <3>1 DEF CountOrphans, Calm
  <2> QED BY <2>1, <2>2, <2>3, TablesType
<1> QED BY <1>1, <1>2, <1>3

\* What Erase does, whatever it hits.
LEMMA Erasing ==
  ASSUME TypeOK, NEW p \in Purges, NEW t \in Tables, NEW hits \in SUBSET Seen(p, t),
         NEW ACTION after, Erase(p, t, hits, after), after => Onward(p)
  PROVE  (Waits(p, t, hits) \/ Takes(p, t, hits)) /\ Still
<1> DEFINE found == IF blocked[p] = {} THEN hits ELSE blocked[p] \cap rows[t]
<1>1. found \in SUBSET rows[t] /\ \A w \in found : w \in hits \/ w \in blocked[p]
  BY DEF Seen
<1>2. CASE found \cap Locked(p, t) # {} /\ blocked[p] = {}
           /\ blocked' = [blocked EXCEPT ![p] = found] /\ UNCHANGED <<gone, pc, at>>
  <2>1. found = hits
    BY <1>2
  <2> QED BY <1>2, <2>1 DEF Waits, Erase, Still
<1>3. CASE found \cap Locked(p, t) = {} /\ blocked' = [blocked EXCEPT ![p] = {}]
           /\ gone' = [gone EXCEPT ![p][t] = @ \cup found] /\ after
  BY <1>1, <1>3 DEF Takes, Erase, Still
<1> QED BY <1>2, <1>3 DEF Erase

LEMMA DeletingSteps ==
  ASSUME TypeOK, NEW p \in Purges, Delete(p) \/ DeleteKbs(p) \/ DeleteOrphans(p)
  PROVE  Erases(p)
<1>1. CASE Delete(p)
  <2> DEFINE s == Cascade[at[p]]
  <2>1. pc[p] = "delete" /\ at[p] \in DOMAIN Cascade /\ s.table \in Tables
    BY <1>1, TablesType DEF Delete, TypeOK
  <2>2. Hits(p, s) \in SUBSET Seen(p, s.table)
        /\ \A w \in Hits(p, s) : Reason(p, s.table, w)
    BY <2>1 DEF Hits, Reason, Named
  <2>3. (Waits(p, s.table, Hits(p, s)) \/ Takes(p, s.table, Hits(p, s))) /\ Still
    BY <1>1, <2>1, <2>2, Erasing, Onwards DEF Delete
  <2> HIDE DEF s
  <2> QED BY <2>1, <2>2, <2>3 DEF Erases, Deleting, s
<1>2. CASE DeleteKbs(p)
  <2> DEFINE hits == {w \in Seen(p, BASES) : w.kb \in kbIds[p]}
  <2>1. pc[p] = "kbDelete" /\ Erase(p, BASES, hits, AfterCascade(p))
    BY <1>2 DEF DeleteKbs
  <2>2. hits \in SUBSET Seen(p, BASES) /\ \A w \in hits : Reason(p, BASES, w)
    BY <2>1 DEF Reason
  <2> HIDE DEF hits
  <2>3. (Waits(p, BASES, hits) \/ Takes(p, BASES, hits)) /\ Still
    BY <2>1, <2>2, Erasing, Onwards, TablesType
  <2> QED BY <2>1, <2>2, <2>3, TablesType DEF Erases, Deleting
<1>3. CASE DeleteOrphans(p)
  <2> DEFINE s == Sweeps[at[p]]
  <2>1. /\ pc[p] = "sweepDelete" /\ at[p] \in DOMAIN Sweeps
        /\ s.table \in Tables /\ s.table \notin {KNOWLEDGES, BASES}
    BY <1>3, TablesType DEF DeleteOrphans, TypeOK
  <2>2. Orphans(p, s) \in SUBSET Seen(p, s.table)
        /\ \A w \in Orphans(p, s) : Reason(p, s.table, w)
    BY <2>1 DEF Orphans, Reason
  <2>3. (Waits(p, s.table, Orphans(p, s)) \/ Takes(p, s.table, Orphans(p, s))) /\ Still
    BY <1>3, <2>1, <2>2, Erasing, Onwards DEF DeleteOrphans
  <2> HIDE DEF s
  <2> QED BY <2>1, <2>2, <2>3 DEF Erases, Deleting, s
<1> QED BY <1>1, <1>2, <1>3

-----------------------------------------------------------------------------
(* Each kind of step keeps the invariant.                                  *)

\* What a step changes of the place of one transaction.
LEMMA Places ==
  ASSUME TypeOK, NEW p \in Purges, NEW l, NEW i, Goto(p, l, i)
  PROVE  /\ pc'[p] = l /\ at'[p] = i
         /\ \A q \in Purges \ {p} : pc'[q] = pc[q] /\ at'[q] = at[q]
         /\ DOMAIN pc' = Purges /\ DOMAIN at' = Purges
         /\ pc' = [pc EXCEPT ![p] = l] /\ at' = [at EXCEPT ![p] = i]
  BY DEF Goto, TypeOK

LEMMA OnwardPlaces ==
  ASSUME TypeOK, NEW p \in Purges, Onward(p)
  PROVE  /\ pc'[p] \in Calm /\ at'[p] \in Nat
         /\ pc'[p] = "count" => at'[p] \in 1 .. Len(Cascade) + 1
         /\ pc'[p] = "sweepCount" => at'[p] \in 1 .. Len(Sweeps) + 1
         /\ \A q \in Purges \ {p} : pc'[q] = pc[q] /\ at'[q] = at[q]
         /\ pc' = [pc EXCEPT ![p] = pc'[p]] /\ at' = [at EXCEPT ![p] = at'[p]]
  BY Places DEF Onward

LEMMA DeletePlaces ==
  ASSUME TypeOK, NEW p \in Purges, ToDelete(p)
  PROVE  /\ pc'[p] \in Deleting /\ at'[p] \in Nat /\ ~dry[p]
         /\ pc'[p] = "delete" => at'[p] \in DOMAIN Cascade
         /\ pc'[p] = "sweepDelete" => at'[p] \in DOMAIN Sweeps
         /\ \A q \in Purges \ {p} : pc'[q] = pc[q] /\ at'[q] = at[q]
         /\ pc' = [pc EXCEPT ![p] = pc'[p]] /\ at' = [at EXCEPT ![p] = at'[p]]
  BY Places DEF ToDelete, Deleting, TypeOK

LEMMA ReadsKeeps ==
  ASSUME IInv, NEW p \in Purges, Reads(p)
  PROVE  IInv'
<1> USE DEF Still, fixed, target, request, others
<1>1. UNCHANGED <<rows, oldKb, oldKn, absent, before, dry, sweep, kbIds, knIds,
                  gone, blocked, outcome, restores, adds>>
  BY DEF Reads
<1>2. /\ pc[p] \in Calm \ {"commit"} /\ pc'[p] \in Calm \cup Deleting /\ at'[p] \in Nat
      /\ pc'[p] \in Deleting => ~dry[p]
      /\ pc'[p] = "count" => at'[p] \in 1 .. Len(Cascade) + 1
      /\ pc'[p] = "delete" => at'[p] \in DOMAIN Cascade
      /\ pc'[p] = "sweepCount" => at'[p] \in 1 .. Len(Sweeps) + 1
      /\ pc'[p] = "sweepDelete" => at'[p] \in DOMAIN Sweeps
      /\ \A q \in Purges \ {p} : pc'[q] = pc[q] /\ at'[q] = at[q]
      /\ pc' = [pc EXCEPT ![p] = pc'[p]] /\ at' = [at EXCEPT ![p] = at'[p]]
  BY OnwardPlaces, DeletePlaces DEF Reads, IInv, Calm, Deleting
<1>3. TypeOK'
  <2>1. /\ pc' \in [Purges -> {"idle", "kbs", "kns", "count", "delete", "kbCount",
                        "kbDelete", "sweepCount", "sweepDelete", "commit", "done"}]
        /\ at' \in [Purges -> Nat]
    <3>1. pc'[p] \in {"count", "delete", "kbCount", "kbDelete", "sweepCount",
                      "sweepDelete", "commit"}
      BY <1>2 DEF Calm, Deleting
    <3>2. DOMAIN pc' = Purges /\ DOMAIN at' = Purges
      BY <1>2 DEF IInv, TypeOK
    <3> QED BY <1>2, <3>1, <3>2 DEF IInv, TypeOK
  <2>2. \A q \in Purges :
       /\ pc'[q] \in {"count", "delete"} => at'[q] \in 1 .. Len(Cascade) + 1
       /\ pc'[q] = "delete" => at'[q] \in DOMAIN Cascade
       /\ pc'[q] = "sweepCount" => at'[q] \in 1 .. Len(Sweeps) + 1
       /\ pc'[q] = "sweepDelete" => at'[q] \in DOMAIN Sweeps
    BY <1>2, TablesType DEF IInv, TypeOK
  <2> QED BY <1>1, <2>1, <2>2 DEF IInv, TypeOK, Database
<1>4. blocked[p] = {} /\ outcome[p] = "none"
  BY <1>2 DEF IInv, Phases, Calm, Deleting
<1>5. Phases'
  BY <1>1, <1>2, <1>4 DEF IInv, Phases, Calm, Deleting
<1>6. Selected'
  BY <1>1, <1>2, <1>4 DEF IInv, Selected, Named
<1>7. History' /\ Accounted' /\ Exclusive' /\ Spared'
  BY <1>1 DEF IInv, History, Accounted, Exclusive, Spared, Unselected, Items
<1> QED BY <1>3, <1>5, <1>6, <1>7 DEF IInv

\* A DELETE waits.
LEMMA WaitsKeeps ==
  ASSUME IInv, NEW p \in Purges, pc[p] \in Deleting, NEW t \in Tables,
         NEW hits \in SUBSET Seen(p, t),
         \A w \in hits : Reason(p, t, w), Waits(p, t, hits), Still
  PROVE  TypeOK' /\ Phases' /\ Selected'
<1> USE DEF Still, fixed, target, request, others
<1>1. UNCHANGED <<rows, oldKb, oldKn, absent, before, dry, sweep, kbIds, knIds,
                  gone, pc, at, outcome, restores, adds>>
  BY DEF Waits
<1>2. hits \in SUBSET Rows
  BY DEF Seen, IInv, TypeOK, Databases, Database
<1>3. TypeOK'
  BY <1>1, <1>2 DEF IInv, TypeOK, Database, Waits
<1>4. /\ blocked'[p] = hits
      /\ \A q \in Purges \ {p} : blocked'[q] = blocked[q]
  BY DEF Waits, IInv, TypeOK
<1>5. Phases'
  BY <1>1, <1>4 DEF IInv, Phases
<1>6. pc[p] = "delete" => \A w \in hits : Named(p, Cascade[at[p]], w)
  BY DEF Reason
<1>7. pc[p] = "kbDelete" => \A w \in hits : w.kb \in kbIds[p]
  BY DEF Reason
<1>8. Selected'
  BY <1>1, <1>4, <1>6, <1>7 DEF IInv, Selected, Named
<1> QED BY <1>3, <1>5, <1>8

\* A DELETE takes its rows.
LEMMA TakesKeeps ==
  ASSUME IInv, NEW p \in Purges, pc[p] \in Deleting, NEW t \in Tables,
         pc[p] = "delete" => t = Cascade[at[p]].table,
         pc[p] = "kbDelete" => t = BASES,
         pc[p] = "sweepDelete" => t \notin {KNOWLEDGES, BASES},
         NEW hits \in SUBSET Seen(p, t),
         \A w \in hits : Reason(p, t, w), Takes(p, t, hits), Still
  PROVE  TypeOK' /\ Phases' /\ Selected' /\ Accounted' /\ Exclusive'
<1> USE DEF Still, fixed, target, request, others
<1>1. UNCHANGED <<rows, oldKb, oldKn, absent, before, dry, sweep, kbIds, knIds,
                  outcome, restores, adds>>
  OBVIOUS
<1>2. PICK found \in SUBSET rows[t] :
       /\ \A w \in found : w \in hits \/ w \in blocked[p]
       /\ found \cap Locked(p, t) = {} /\ gone' = [gone EXCEPT ![p][t] = @ \cup found]
  BY DEF Takes
<1>3. blocked' = [blocked EXCEPT ![p] = {}] /\ Onward(p)
  BY DEF Takes
<1>4. found \in SUBSET Rows
  BY DEF IInv, TypeOK, Databases, Database
<1>5. /\ pc'[p] \in Calm /\ at'[p] \in Nat
      /\ pc'[p] = "count" => at'[p] \in 1 .. Len(Cascade) + 1
      /\ pc'[p] = "sweepCount" => at'[p] \in 1 .. Len(Sweeps) + 1
      /\ \A q \in Purges \ {p} : pc'[q] = pc[q] /\ at'[q] = at[q]
      /\ pc' = [pc EXCEPT ![p] = pc'[p]] /\ at' = [at EXCEPT ![p] = at'[p]]
  BY <1>3, OnwardPlaces DEF IInv
<1>6. /\ gone'[p] = [gone[p] EXCEPT ![t] = gone[p][t] \cup found]
      /\ \A q \in Purges \ {p} : gone'[q] = gone[q] /\ blocked'[q] = blocked[q]
      /\ gone' \in [Purges -> [Tables -> SUBSET Rows]]
      /\ blocked' \in [Purges -> SUBSET Rows] /\ blocked'[p] = {}
  BY <1>2, <1>3, <1>4 DEF IInv, TypeOK
<1>7. /\ gone'[p][t] = gone[p][t] \cup found
      /\ \A u \in Tables \ {t} : gone'[p][u] = gone[p][u]
  BY <1>6 DEF IInv, TypeOK
<1>8. TypeOK'
  <2>1. /\ pc' \in [Purges -> {"idle", "kbs", "kns", "count", "delete", "kbCount",
                        "kbDelete", "sweepCount", "sweepDelete", "commit", "done"}]
        /\ at' \in [Purges -> Nat]
    <3>1. pc'[p] \in {"count", "kbCount", "sweepCount", "commit"}
      BY <1>5 DEF Calm
    <3>2. DOMAIN pc' = Purges /\ DOMAIN at' = Purges
      BY <1>5 DEF IInv, TypeOK
    <3> QED BY <1>5, <3>1, <3>2 DEF IInv, TypeOK
  <2>2. \A q \in Purges :
       /\ pc'[q] \in {"count", "delete"} => at'[q] \in 1 .. Len(Cascade) + 1
       /\ pc'[q] = "delete" => at'[q] \in DOMAIN Cascade
       /\ pc'[q] = "sweepCount" => at'[q] \in 1 .. Len(Sweeps) + 1
       /\ pc'[q] = "sweepDelete" => at'[q] \in DOMAIN Sweeps
    BY <1>5 DEF IInv, TypeOK, Calm
  <2> QED BY <1>1, <1>6, <2>1, <2>2 DEF IInv, TypeOK, Database
<1>9. outcome[p] = "none" /\ ~dry[p]
  BY DEF IInv, Phases, Deleting
<1>10. Phases'
  <2>1. \A q \in Purges \ {p} :
          /\ pc'[q] = pc[q] /\ gone'[q] = gone[q] /\ blocked'[q] = blocked[q]
    BY <1>5, <1>6
  <2>2. ~dry[p] /\ outcome[p] = "none" /\ pc'[p] \in Calm /\ blocked'[p] = {}
        /\ pc[p] \in Deleting
    BY <1>5, <1>6, <1>9
  <2> QED BY <1>1, <2>1, <2>2 DEF IInv, Phases, Calm, Deleting
<1>11. Selected'
  <2>1. t = BASES => \A w \in found : w.kb \in kbIds[p]
    BY <1>2, TablesType DEF Reason, IInv, Selected, TypeOK, Deleting
  <2>2. t = KNOWLEDGES => \A w \in found : w.kn \in knIds[p]
    BY <1>2, TablesType DEF Reason, IInv, Selected, TypeOK, Deleting, Named
  <2>3. /\ \A w \in gone'[p][BASES] : w.kb \in kbIds[p]
        /\ \A w \in gone'[p][KNOWLEDGES] : w.kn \in knIds[p]
    BY <1>7, <2>1, <2>2, TablesType DEF IInv, Selected
  <2> QED BY <1>1, <1>5, <1>6, <2>3 DEF IInv, Selected, Named, Calm
<1>12. Accounted'
  <2>1. \A q \in Purges : \A u \in Tables : \A w \in gone[q][u] : w \in gone'[q][u]
    BY <1>6, <1>7
  <2> QED BY <1>1, <2>1 DEF IInv, Accounted
<1>13. Exclusive'
  <2> SUFFICES ASSUME adds = 0 PROVE Exclusive'
    BY <1>1 DEF Exclusive
  <2>1. \A q \in Purges \ {p} : gone[q][t] \cap found = {}
    <3> TAKE q \in Purges \ {p}
    <3>1. CASE InTransaction(q)
      BY <1>2, <3>1 DEF Locked
    <3>2. CASE outcome[q] = "committed"
      BY <1>2, <3>2 DEF IInv, Exclusive
    <3>3. CASE gone[q] = Nothing
      BY <3>3, NothingType
    <3> QED BY <3>1, <3>2, <3>3 DEF IInv, Phases, InTransaction, TypeOK
  <2>2. found \subseteq before.rows[t]
    BY DEF IInv, Exclusive
  <2>3. \A q \in Purges : \A u \in Tables : q # p \/ u # t => gone'[q][u] = gone[q][u]
    BY <1>6, <1>7
  <2>4. /\ gone'[p][t] \subseteq before.rows[t] /\ gone'[p][t] \subseteq rows[t]
        /\ \A q \in Purges \ {p} : gone'[p][t] \cap gone'[q][t] = {}
    BY <1>7, <1>9, <2>1, <2>2, <2>3 DEF IInv, Exclusive
  <2> QED BY <1>1, <1>9, <2>3, <2>4 DEF IInv, Exclusive
<1> QED BY <1>8, <1>10, <1>11, <1>12, <1>13

\* An unselected item and its base are there for every purge.
LEMMA Present ==
  ASSUME IInv, NEW n \in Items(before), Unselected(n), NEW p \in Purges
  PROVE  Row(n) \in Seen(p, KNOWLEDGES) /\ KbOf[n] \in SeenKbs(p) /\ n \in Kns
<1>1. n \in Kns /\ Row(n) \in before.rows[KNOWLEDGES] /\ Base(KbOf[n]) \in before.rows[BASES]
  BY DEF IInv, History
<1>2. Row(n) \in rows[KNOWLEDGES]
  BY <1>1, TablesType DEF IInv, Accounted, Spared
<1>3. \A q \in Purges : Base(KbOf[n]) \notin gone[q][BASES]
  BY <1>1, RowsType DEF IInv, Selected, Unselected
<1>4. Base(KbOf[n]) \in rows[BASES]
  BY <1>1, <1>3, TablesType DEF IInv, Accounted
<1>5. Row(n) \in Seen(p, KNOWLEDGES)
  BY <1>2, TablesType DEF IInv, Spared, Seen
<1>6. Base(KbOf[n]) \in Seen(p, BASES)
  BY <1>3, <1>4 DEF Seen
<1> QED BY <1>1, <1>5, <1>6, RowsType DEF SeenKbs

\* So no DELETE hits a row of it.
LEMMA NotHit ==
  ASSUME IInv, NEW n \in Items(before), Unselected(n), NEW p \in Purges,
         NEW t \in Tables, Reason(p, t, Row(n))
  PROVE  FALSE
<1>1. n \in Kns /\ Row(n).kn = n /\ Row(n).kb = KbOf[n] /\ n # NoKn
  BY Present, RowsType
<1>2. ~Named(p, Cascade[at[p]], Row(n)) /\ KbOf[n] \notin kbIds[p]
  BY <1>1 DEF Named, Unselected
<1>3. KbOf[n] \in SeenKbs(p) /\ \E k \in Seen(p, KNOWLEDGES) : k.kn = n
  BY <1>1, Present
<1> QED BY <1>1, <1>2, <1>3 DEF Reason

LEMMA ErasesKeeps ==
  ASSUME IInv, NEW p \in Purges, Erases(p)
  PROVE  IInv'
<1> USE DEF Still, fixed, target, request, others
<1>1. PICK t \in Tables : \E hits \in SUBSET Seen(p, t) :
       /\ pc[p] = "delete" => t = Cascade[at[p]].table
       /\ pc[p] = "kbDelete" => t = BASES
       /\ pc[p] = "sweepDelete" => t \notin {KNOWLEDGES, BASES}
       /\ \A w \in hits : Reason(p, t, w)
       /\ Waits(p, t, hits) \/ Takes(p, t, hits)
  BY DEF Erases
<1>2. PICK hits \in SUBSET Seen(p, t) :
       /\ pc[p] = "delete" => t = Cascade[at[p]].table
       /\ pc[p] = "kbDelete" => t = BASES
       /\ pc[p] = "sweepDelete" => t \notin {KNOWLEDGES, BASES}
       /\ \A w \in hits : Reason(p, t, w)
       /\ Waits(p, t, hits) \/ Takes(p, t, hits)
  BY <1>1
<1>3. UNCHANGED <<rows, absent, before, kbIds, knIds, outcome, adds>>
      /\ Still /\ pc[p] \in Deleting
  BY DEF Erases
<1>4. History'
  BY <1>3 DEF IInv, History, Items
<1>5. ASSUME NEW n \in Items(before), Unselected(n)
      PROVE  /\ \A q \in Purges : Row(n) \notin blocked'[q]
             /\ \A q \in Purges : \A u \in Tables : Row(n) \notin gone'[q][u]
  <2>1. Row(n) \notin hits
    BY <1>2, <1>5, NotHit
  <2>2. \A q \in Purges : Row(n) \notin blocked[q] /\ \A u \in Tables : Row(n) \notin gone[q][u]
    BY <1>5 DEF IInv, Spared
  <2>3. CASE Waits(p, t, hits)
    BY <2>1, <2>2, <2>3 DEF Waits, IInv, TypeOK
  <2>4. CASE Takes(p, t, hits)
    BY <2>1, <2>2, <2>4 DEF Takes, IInv, TypeOK
  <2> QED BY <1>2, <2>3, <2>4
<1>6. Spared'
  BY <1>3, <1>5 DEF Spared, Unselected, Items
<1>7. CASE Waits(p, t, hits)
  <2>1. Accounted' /\ Exclusive'
    BY <1>3, <1>7 DEF IInv, Accounted, Exclusive, Waits
  <2>2. TypeOK' /\ Phases' /\ Selected'
    BY <1>2, <1>3, <1>7, WaitsKeeps
  <2> QED BY <1>4, <1>6, <2>1, <2>2 DEF IInv
<1>8. CASE Takes(p, t, hits)
  <2>1. TypeOK' /\ Phases' /\ Selected' /\ Accounted' /\ Exclusive'
    BY <1>2, <1>3, <1>8, TakesKeeps
  <2> QED BY <1>4, <1>6, <2>1 DEF IInv
<1> QED BY <1>2, <1>7, <1>8

-----------------------------------------------------------------------------
(* The beginning, the SELECTs and the two ends.                            *)

LEMMA BeginKeeps ==
  ASSUME IInv, NEW p \in Purges, Begin(p)
  PROVE  IInv'
<1> USE DEF fixed, target, request, others
<1>1. UNCHANGED <<rows, oldKb, oldKn, absent, before, kbIds, knIds, gone, blocked,
                  outcome, restores, adds>> /\ pc[p] = "idle"
  BY DEF Begin
<1>2. PICK d \in BOOLEAN, s \in BOOLEAN :
        dry' = [dry EXCEPT ![p] = d] /\ sweep' = [sweep EXCEPT ![p] = s]
  BY DEF Begin
<1>3. pc' = [pc EXCEPT ![p] = "kbs"] /\ at' = [at EXCEPT ![p] = 0]
  BY DEF Begin, Goto
<1>4. TypeOK'
  <2>1. pc' \in [Purges -> {"idle", "kbs", "kns", "count", "delete", "kbCount",
                        "kbDelete", "sweepCount", "sweepDelete", "commit", "done"}]
        /\ at' \in [Purges -> Nat]
        /\ dry' \in [Purges -> BOOLEAN] /\ sweep' \in [Purges -> BOOLEAN]
    BY <1>2, <1>3 DEF IInv, TypeOK
  <2>2. \A q \in Purges :
       /\ pc'[q] \in {"count", "delete"} => at'[q] \in 1 .. Len(Cascade) + 1
       /\ pc'[q] = "delete" => at'[q] \in DOMAIN Cascade
       /\ pc'[q] = "sweepCount" => at'[q] \in 1 .. Len(Sweeps) + 1
       /\ pc'[q] = "sweepDelete" => at'[q] \in DOMAIN Sweeps
    BY <1>3 DEF IInv, TypeOK
  <2> QED BY <1>1, <2>1, <2>2 DEF IInv, TypeOK, Database
<1>5. Phases'
  <2>1. /\ pc'[p] = "kbs" /\ \A q \in Purges \ {p} : pc'[q] = pc[q] /\ dry'[q] = dry[q]
    BY <1>2, <1>3 DEF IInv, TypeOK
  <2> QED BY <1>1, <2>1 DEF IInv, Phases, Deleting
<1>6. Selected'
  BY <1>1, <1>3 DEF IInv, Selected, Named, TypeOK
<1>7. History' /\ Accounted' /\ Exclusive' /\ Spared'
  BY <1>1 DEF IInv, History, Accounted, Exclusive, Spared, Unselected, Items
<1> QED BY <1>4, <1>5, <1>6, <1>7 DEF IInv

LEMMA SelectKbsKeeps ==
  ASSUME IInv, NEW p \in Purges, SelectKbs(p)
  PROVE  IInv'
<1> USE DEF fixed, target, request, others
<1>1. UNCHANGED <<rows, oldKb, oldKn, absent, before, dry, sweep, knIds, gone, blocked,
                  outcome, restores, adds>> /\ pc[p] = "kbs"
  BY DEF SelectKbs
<1>2. pc' = [pc EXCEPT ![p] = "kns"] /\ at' = [at EXCEPT ![p] = 0]
      /\ kbIds' = [kbIds EXCEPT ![p] = SeenKbs(p) \cap oldKb]
  BY DEF SelectKbs, Goto
<1>3. SeenKbs(p) \cap oldKb \in SUBSET KBs
  BY DEF IInv, TypeOK, Databases, Database
<1>4. TypeOK'
  BY <1>1, <1>2, <1>3 DEF IInv, TypeOK, Database
<1>5. Phases'
  BY <1>1, <1>2 DEF IInv, Phases, Deleting, TypeOK
<1>6. gone[p][BASES] = {} /\ kbIds[p] = {}
  BY <1>1, NothingType, TablesType DEF IInv, Phases
<1>7. Selected'
  BY <1>1, <1>2, <1>6 DEF IInv, Selected, Named, TypeOK
<1>8. \A n \in Items(before) : Unselected(n)' => Unselected(n)
  BY <1>1, <1>2, <1>6 DEF Unselected, IInv, TypeOK
<1>9. History' /\ Accounted' /\ Exclusive' /\ Spared'
  BY <1>1, <1>8 DEF IInv, History, Accounted, Exclusive, Spared, Items
<1> QED BY <1>4, <1>5, <1>7, <1>9 DEF IInv

\* Going on, or giving up over the limit.
LEMMA SelectKnsGoes ==
  ASSUME IInv, NEW p \in Purges, SelectKns(p)
  PROVE  \/ /\ OverLimit(p) /\ Goto(p, "done", 0)
            /\ outcome' = [outcome EXCEPT ![p] = "limit"]
         \/ ~OverLimit(p) /\ Onward(p) /\ UNCHANGED outcome
<1>1. Goto(p, "count", 1) => Onward(p)
  BY TablesType DEF Onward, Calm
<1> QED BY <1>1, Onwards DEF SelectKns, IInv

LEMMA SelectKnsKeeps ==
  ASSUME IInv, NEW p \in Purges, SelectKns(p)
  PROVE  IInv'
<1> USE DEF fixed, target, request, others
<1>1. UNCHANGED <<rows, oldKb, oldKn, absent, before, dry, sweep, kbIds, gone, blocked,
                  restores, adds>> /\ pc[p] = "kns"
  BY DEF SelectKns
<1>2. knIds' = [knIds EXCEPT ![p] = Doomed(p)]
  BY DEF SelectKns
<1>3. Doomed(p) \in SUBSET Kns
  BY DEF Doomed, IInv, History, Seen
<1>4. outcome[p] = "none" /\ gone[p] = Nothing /\ blocked[p] = {} /\ knIds[p] = {}
  BY <1>1 DEF IInv, Phases, Deleting
<1>5. /\ \A q \in Purges \ {p} : pc'[q] = pc[q] /\ at'[q] = at[q] /\ outcome'[q] = outcome[q]
      /\ pc' = [pc EXCEPT ![p] = pc'[p]] /\ at' = [at EXCEPT ![p] = at'[p]]
      /\ at'[p] \in Nat /\ pc'[p] \in Calm \cup {"done"}
      /\ pc'[p] = "count" => at'[p] \in 1 .. Len(Cascade) + 1
      /\ pc'[p] = "sweepCount" => at'[p] \in 1 .. Len(Sweeps) + 1
      /\ outcome' = [outcome EXCEPT ![p] = outcome'[p]]
      /\ \/ pc'[p] = "done" /\ outcome'[p] = "limit"
         \/ ~OverLimit(p) /\ pc'[p] \in Calm /\ outcome'[p] = "none"
  <2>1. CASE Goto(p, "done", 0) /\ outcome' = [outcome EXCEPT ![p] = "limit"]
    BY <2>1, Places DEF IInv, TypeOK, Calm
  <2>2. CASE ~OverLimit(p) /\ Onward(p) /\ UNCHANGED outcome
    BY <1>4, <2>2, OnwardPlaces DEF IInv, TypeOK
  <2> QED BY <2>1, <2>2, SelectKnsGoes
<1>6. TypeOK'
  <2>1. /\ pc' \in [Purges -> {"idle", "kbs", "kns", "count", "delete", "kbCount",
                        "kbDelete", "sweepCount", "sweepDelete", "commit", "done"}]
        /\ at' \in [Purges -> Nat]
        /\ outcome' \in [Purges -> {"none", "committed", "limit", "failed"}]
    <3>1. /\ pc'[p] \in {"count", "kbCount", "sweepCount", "commit", "done"}
          /\ outcome'[p] \in {"none", "limit"}
      BY <1>5 DEF Calm
    <3>2. DOMAIN pc' = Purges /\ DOMAIN at' = Purges /\ DOMAIN outcome' = Purges
      BY <1>5 DEF IInv, TypeOK
    <3>3. pc' \in [Purges -> {"idle", "kbs", "kns", "count", "delete", "kbCount",
                        "kbDelete", "sweepCount", "sweepDelete", "commit", "done"}]
      BY <1>5, <3>1, <3>2 DEF IInv, TypeOK
    <3>4. at' \in [Purges -> Nat]
      BY <1>5, <3>2 DEF IInv, TypeOK
    <3>5. outcome' \in [Purges -> {"none", "committed", "limit", "failed"}]
      BY <1>5, <3>1, <3>2 DEF IInv, TypeOK
    <3> QED BY <3>3, <3>4, <3>5
  <2>2. \A q \in Purges :
       /\ pc'[q] \in {"count", "delete"} => at'[q] \in 1 .. Len(Cascade) + 1
       /\ pc'[q] = "delete" => at'[q] \in DOMAIN Cascade
       /\ pc'[q] = "sweepCount" => at'[q] \in 1 .. Len(Sweeps) + 1
       /\ pc'[q] = "sweepDelete" => at'[q] \in DOMAIN Sweeps
    BY <1>5 DEF IInv, TypeOK, Calm
  <2>3. knIds' \in [Purges -> SUBSET Kns]
    BY <1>2, <1>3 DEF IInv, TypeOK
  <2> QED BY <1>1, <2>1, <2>2, <2>3 DEF IInv, TypeOK, Database
<1>7. knIds'[p] = Doomed(p) /\ \A q \in Purges \ {p} : knIds'[q] = knIds[q]
  BY <1>2 DEF IInv, TypeOK
<1>8. Phases'
  <2>1. MaxRows # 0 /\ outcome'[p] # "limit" =>
          Cardinality(kbIds[p]) + Cardinality(knIds'[p]) <= MaxRows
    <3>1. ASSUME MaxRows # 0, ~OverLimit(p)
          PROVE  ~(Cardinality(kbIds[p]) + Cardinality(Doomed(p)) > MaxRows)
      BY <3>1 DEF OverLimit
    <3>2. Cardinality(kbIds[p]) \in Nat /\ Cardinality(Doomed(p)) \in Nat
      <4>1. kbIds[p] \in SUBSET KBs
        BY DEF IInv, TypeOK
      <4>2. IsFiniteSet(kbIds[p]) /\ IsFiniteSet(Doomed(p))
        BY <4>1, <1>3, FS_Subset, PurgeAssumption
      <4> QED BY <4>2, FS_CardinalityType
    <3> QED BY <1>5, <1>7, <3>1, <3>2, PurgeAssumption
  <2> QED BY <1>1, <1>4, <1>5, <1>7, <2>1 DEF IInv, Phases, Deleting, Calm
<1>9. Selected'
  <2>1. gone[p][BASES] = {} /\ gone[p][KNOWLEDGES] = {} /\ pc'[p] \notin Deleting
    BY <1>4, <1>5, NothingType, TablesType DEF Calm, Deleting
  <2> QED BY <1>1, <1>5, <1>7, <2>1 DEF IInv, Selected, Named, Deleting
<1>10. \A n \in Items(before) : Unselected(n)' => Unselected(n)
  BY <1>1, <1>4, <1>7 DEF Unselected
<1>11. History' /\ Spared'
  BY <1>1, <1>10 DEF IInv, History, Spared, Items
<1>12. \A q \in Purges : outcome'[q] = "committed" <=> outcome[q] = "committed"
  BY <1>4, <1>5
<1>13. \A q \in Purges : outcome'[q] = "none" => outcome[q] = "none"
  BY <1>4, <1>5
<1>14. Accounted' /\ Exclusive'
  BY <1>1, <1>12, <1>13 DEF IInv, Accounted, Exclusive
<1> QED BY <1>6, <1>8, <1>9, <1>11, <1>14 DEF IInv

LEMMA CommitKeeps ==
  ASSUME IInv, NEW p \in Purges, Commit(p)
  PROVE  IInv'
<1> USE DEF fixed, target, request, others
<1>1. UNCHANGED <<oldKb, oldKn, absent, before, dry, sweep, kbIds, knIds, gone, blocked,
                  restores, adds>> /\ pc[p] = "commit"
  BY DEF Commit
<1>2. /\ rows' \in [Tables -> SUBSET Rows]
      /\ \A t \in Tables : rows'[t] = rows[t] \ gone[p][t]
  BY DEF Commit, Seen, IInv, TypeOK, Databases, Database
<1>3. /\ pc' = [pc EXCEPT ![p] = "done"] /\ at' = [at EXCEPT ![p] = 0]
      /\ outcome' = [outcome EXCEPT ![p] = "committed"]
  BY DEF Commit, Goto
<1>4. /\ pc'[p] = "done" /\ outcome'[p] = "committed"
      /\ \A q \in Purges \ {p} : pc'[q] = pc[q] /\ at'[q] = at[q] /\ outcome'[q] = outcome[q]
  BY <1>3 DEF IInv, TypeOK
<1>5. outcome[p] = "none" /\ blocked[p] = {}
  BY <1>1 DEF IInv, Phases, Deleting
<1>6. TypeOK'
  <2>1. Database' \in Databases /\ before' \in Databases
    BY <1>1, <1>2 DEF IInv, TypeOK, Databases, Database
  <2> QED BY <1>1, <1>3, <2>1 DEF IInv, TypeOK
<1>7. Phases'
  BY <1>1, <1>4, <1>5 DEF IInv, Phases, Deleting
<1>8. Selected' /\ Spared'
  BY <1>1, <1>4 DEF IInv, Selected, Named, Spared, Unselected, Items
<1>9. History'
  BY <1>1, <1>2, TablesType DEF IInv, History, Items
<1>10. Accounted'
  <2> SUFFICES ASSUME NEW t \in Tables, NEW w \in before.rows[t] \ rows'[t]
               PROVE  \E q \in Purges : outcome'[q] = "committed" /\ w \in gone[q][t]
    BY <1>1 DEF Accounted
  <2>1. CASE w \in gone[p][t]
    BY <1>4, <2>1
  <2>2. CASE w \notin rows[t]
    <3>1. PICK q \in Purges : outcome[q] = "committed" /\ w \in gone[q][t]
      BY <2>2 DEF IInv, Accounted
    <3> QED BY <3>1, <1>4
  <2> QED BY <1>2, <2>1, <2>2
<1>11. Exclusive'
  <2> SUFFICES ASSUME adds = 0, NEW t \in Tables
               PROVE  /\ rows'[t] \subseteq before.rows[t]
                      /\ \A q \in Purges :
                           /\ gone[q][t] \subseteq before.rows[t]
                           /\ outcome'[q] = "committed" => gone[q][t] \cap rows'[t] = {}
                           /\ outcome'[q] = "none" => gone[q][t] \subseteq rows'[t]
                           /\ \A r \in Purges : q # r => gone[q][t] \cap gone[r][t] = {}
    BY <1>1 DEF Exclusive
  <2>1. /\ rows[t] \subseteq before.rows[t]
        /\ \A q \in Purges :
             /\ gone[q][t] \subseteq before.rows[t]
             /\ outcome[q] = "committed" => gone[q][t] \cap rows[t] = {}
             /\ outcome[q] = "none" => gone[q][t] \subseteq rows[t]
             /\ \A r \in Purges : q # r => gone[q][t] \cap gone[r][t] = {}
    BY DEF IInv, Exclusive
  <2> QED BY <1>2, <1>4, <2>1
<1> QED BY <1>6, <1>7, <1>8, <1>9, <1>10, <1>11 DEF IInv

LEMMA FailKeeps ==
  ASSUME IInv, NEW p \in Purges, Fail(p)
  PROVE  IInv'
<1> USE DEF fixed, target, request, others
<1>1. UNCHANGED <<rows, oldKb, oldKn, absent, before, dry, sweep, kbIds, knIds,
                  restores, adds>> /\ InTransaction(p)
  BY DEF Fail
<1>2. /\ pc' = [pc EXCEPT ![p] = "done"] /\ at' = [at EXCEPT ![p] = 0]
      /\ outcome' = [outcome EXCEPT ![p] = "failed"]
      /\ gone' = [gone EXCEPT ![p] = Nothing] /\ blocked' = [blocked EXCEPT ![p] = {}]
  BY DEF Fail, Goto
<1>3. /\ pc'[p] = "done" /\ outcome'[p] = "failed" /\ gone'[p] = Nothing /\ blocked'[p] = {}
      /\ \A q \in Purges \ {p} :
           /\ pc'[q] = pc[q] /\ at'[q] = at[q] /\ outcome'[q] = outcome[q]
           /\ gone'[q] = gone[q] /\ blocked'[q] = blocked[q]
  BY <1>2 DEF IInv, TypeOK
<1>4. outcome[p] = "none"
  BY <1>1 DEF IInv, Phases, InTransaction, TypeOK
<1>5. TypeOK'
  BY <1>1, <1>2, NothingType DEF IInv, TypeOK, Database
<1>6. Phases'
  BY <1>1, <1>3, <1>4 DEF IInv, Phases, Deleting
<1>7. \A t \in Tables : gone'[p][t] = {}
  BY <1>3, NothingType
<1>8. Selected'
  BY <1>1, <1>3, <1>7, TablesType DEF IInv, Selected, Named
<1>9. History' /\ Spared'
  BY <1>1, <1>3, <1>7 DEF IInv, History, Spared, Unselected, Items
<1>10. Accounted'
  BY <1>1, <1>3, <1>4 DEF IInv, Accounted
<1>11. Exclusive'
  BY <1>1, <1>3, <1>7 DEF IInv, Exclusive
<1> QED BY <1>5, <1>6, <1>8, <1>9, <1>10, <1>11 DEF IInv

-----------------------------------------------------------------------------
(* WeKnora's steps.                                                        *)

LEMMA RestoresKeep ==
  ASSUME IInv, (\E n \in Kns : Restore(n)) \/ (\E b \in KBs : RestoreKb(b))
  PROVE  IInv'
<1> USE DEF fixed, Restoring, Restore, RestoreKb
<1>1. UNCHANGED <<rows, absent, before, pc, at, request, kbIds, knIds, gone, blocked,
                  outcome, adds>> /\ restores' = restores + 1 /\ restores < MaxRestores
  OBVIOUS
<1>2. oldKb' \in SUBSET KBs /\ oldKn' \in SUBSET Kns
  BY DEF IInv, TypeOK, Databases, Database
<1>3. restores' \in 0 .. MaxRestores
  BY <1>1, PurgeAssumption DEF IInv, TypeOK
<1>4. TypeOK'
  BY <1>1, <1>2, <1>3 DEF IInv, TypeOK, Databases, Database, request
<1>5. History' /\ Phases' /\ Selected' /\ Accounted' /\ Exclusive' /\ Spared'
  BY <1>1 DEF IInv, History, Phases, Selected, Named, Accounted, Exclusive, Spared,
              Unselected, Items, request
<1> QED BY <1>4, <1>5 DEF IInv

\* Once a row is added Exclusive has nothing more to say.
LEMMA Adds ==
  ASSUME IInv, Adding
  PROVE  adds' \in 0 .. MaxAdds /\ adds' # 0
  BY PurgeAssumption DEF Adding, IInv, TypeOK

LEMMA AddItemKeeps ==
  ASSUME IInv, NEW n \in Kns, AddItem(n)
  PROVE  IInv'
<1> USE DEF fixed
<1>1. /\ UNCHANGED <<oldKb, oldKn, absent, before, pc, at, request, kbIds, knIds, gone,
                     blocked, outcome, restores>>
      /\ rows' = [rows EXCEPT ![KNOWLEDGES] = @ \cup {Row(n)}]
      /\ adds' \in 0 .. MaxAdds /\ adds' # 0
  BY Adds DEF AddItem, Adding
<1>2. /\ rows' \in [Tables -> SUBSET Rows]
      /\ rows'[KNOWLEDGES] = rows[KNOWLEDGES] \cup {Row(n)}
      /\ \A t \in Tables : rows[t] \subseteq rows'[t]
  BY <1>1, TablesType, RowsType DEF IInv, TypeOK, Databases, Database
<1>3. TypeOK'
  BY <1>1, <1>2 DEF IInv, TypeOK, Databases, Database, request
<1>4. History'
  BY <1>1, <1>2, RowsType DEF IInv, History, Items
<1>5. Phases' /\ Selected' /\ Spared'
  BY <1>1 DEF IInv, Phases, Selected, Named, Spared, Unselected, Items, request
<1>6. Accounted' /\ Exclusive'
  BY <1>1, <1>2 DEF IInv, Accounted, Exclusive
<1> QED BY <1>3, <1>4, <1>5, <1>6 DEF IInv

LEMMA AddRowKeeps ==
  ASSUME IInv, NEW t \in Tables, NEW n \in Kns, AddRow(t, n)
  PROVE  IInv'
<1> USE DEF fixed
<1>1. /\ UNCHANGED <<oldKb, oldKn, absent, before, pc, at, request, kbIds, knIds,
                     blocked, outcome, restores>>
      /\ rows' = [rows EXCEPT ![t] = @ \cup {Row(n)}]
      /\ adds' \in 0 .. MaxAdds /\ adds' # 0 /\ t \notin {KNOWLEDGES, BASES}
  BY Adds DEF AddRow, Adding
<1>2. /\ rows' \in [Tables -> SUBSET Rows]
      /\ rows'[KNOWLEDGES] = rows[KNOWLEDGES] /\ Row(n) \in rows'[t]
      /\ \A u \in Tables : rows[u] \subseteq rows'[u]
  BY <1>1, TablesType, RowsType DEF IInv, TypeOK, Databases, Database
<1>3. /\ gone' \in [Purges -> [Tables -> SUBSET Rows]]
      /\ \A p \in Purges : ~InTransaction(p) => gone'[p] = gone[p]
      /\ \A p \in Purges : /\ \A u \in Tables : gone'[p][u] \subseteq gone[p][u]
                           /\ \A u \in Tables \ {t} : gone'[p][u] = gone[p][u]
  BY DEF AddRow, IInv, TypeOK
<1>4. \A p \in Purges : gone[p] = Nothing => gone'[p] = Nothing
  <2> SUFFICES ASSUME NEW p \in Purges, gone[p] = Nothing PROVE gone'[p] = Nothing
    OBVIOUS
  <2>1. gone'[p] \in [Tables -> SUBSET Rows] /\ \A u \in Tables : gone'[p][u] = {}
    BY <1>3, NothingType
  <2> QED BY <2>1 DEF Nothing
<1>5. TypeOK'
  BY <1>1, <1>2, <1>3 DEF IInv, TypeOK, Databases, Database, request
<1>6. Phases'
  BY <1>1, <1>4 DEF IInv, Phases, request
<1>7. Selected'
  BY <1>1, <1>3, TablesType DEF IInv, Selected, Named
<1>8. History' /\ Spared'
  BY <1>1, <1>2, <1>3 DEF IInv, History, Spared, Unselected, Items
<1>9. Accounted'
  <2> SUFFICES ASSUME NEW u \in Tables, NEW w \in before.rows[u] \ rows'[u]
               PROVE  \E p \in Purges : outcome[p] = "committed" /\ w \in gone'[p][u]
    BY <1>1 DEF Accounted
  <2>1. PICK p \in Purges : outcome[p] = "committed" /\ w \in gone[p][u]
    BY <1>2 DEF IInv, Accounted
  <2>2. ~InTransaction(p)
    BY <2>1 DEF IInv, Phases, InTransaction
  <2> QED BY <1>3, <2>1, <2>2
<1> QED BY <1>1, <1>5, <1>6, <1>7, <1>8, <1>9 DEF IInv, Exclusive

-----------------------------------------------------------------------------
(* The invariant holds.                                                    *)

LEMMA InitIInv == Init => IInv
<1> SUFFICES ASSUME Init PROVE IInv
  OBVIOUS
<1>1. PICK bases \in SUBSET KBs : \E items \in SUBSET {n \in Kns : KbOf[n] \in bases} :
        /\ oldKb \in SUBSET bases /\ oldKn \in SUBSET items
        /\ rows = [t \in Tables |-> CASE t = KNOWLEDGES -> {Row(n) : n \in items}
                                      [] t = BASES -> {Base(b) : b \in bases}
                                      [] OTHER -> Rows]
  BY DEF Init
<1>2. PICK items \in SUBSET {n \in Kns : KbOf[n] \in bases} :
        /\ oldKb \in SUBSET bases /\ oldKn \in SUBSET items
        /\ rows = [t \in Tables |-> CASE t = KNOWLEDGES -> {Row(n) : n \in items}
                                      [] t = BASES -> {Base(b) : b \in bases}
                                      [] OTHER -> Rows]
  BY <1>1
<1>3. rows[KNOWLEDGES] = {Row(n) : n \in items} /\ rows[BASES] = {Base(b) : b \in bases}
  BY <1>2, TablesType
<1>4. rows \in [Tables -> SUBSET Rows]
  <2>1. {Row(n) : n \in items} \in SUBSET Rows /\ {Base(b) : b \in bases} \in SUBSET Rows
    BY RowsType
  <2> QED BY <1>2, <2>1
<1>5. before = Database /\ before.rows = rows
  BY DEF Init, Database
<1>6. TypeOK
  BY <1>2, <1>4, <1>5, NothingType, PurgeAssumption DEF Init, TypeOK, Databases, Database
<1>7. Items(before) = items
  BY <1>3, <1>5, RowsType DEF Items
<1>8. History
  BY <1>3, <1>5, <1>7, RowsType DEF History
<1>9. Phases /\ Selected /\ Accounted /\ Exclusive /\ Spared
  BY <1>5, NothingType, TablesType DEF Init, Phases, Selected, Deleting, Accounted,
                                       Exclusive, Spared
<1> QED BY <1>6, <1>8, <1>9 DEF IInv

LEMMA NextIInv == IInv /\ [Next]_vars => IInv'
<1> SUFFICES ASSUME IInv, [Next]_vars PROVE IInv'
  OBVIOUS
<1>1. ASSUME NEW p \in Purges, Purging(p) PROVE IInv'
  <2>1. CASE Count(p) \/ CountKbs(p) \/ CountOrphans(p)
    BY <2>1, ReadingSteps, ReadsKeeps DEF IInv
  <2>2. CASE Delete(p) \/ DeleteKbs(p) \/ DeleteOrphans(p)
    BY <2>2, DeletingSteps, ErasesKeeps DEF IInv
  <2> QED BY <1>1, <2>1, <2>2, BeginKeeps, SelectKbsKeeps, SelectKnsKeeps, CommitKeeps,
             FailKeeps DEF Purging
<1>2. CASE UNCHANGED vars
  BY <1>2 DEF vars, target, fixed, request, others, IInv, TypeOK, Databases, Database,
              History, Phases, Selected, Named, Accounted, Exclusive, Spared, Unselected, Items
<1> QED BY <1>1, <1>2, RestoresKeep, AddItemKeeps, AddRowKeeps DEF Next

LEMMA AlwaysIInv == Spec => []IInv
<1> QED BY InitIInv, NextIInv, PTL DEF Spec

-----------------------------------------------------------------------------
(* What follows.                                                           *)

\* Types, and the place of every transaction in the configured tables.
THEOREM TypeCorrect == Spec => []TypeOK
<1>1. IInv => TypeOK
  BY DEF IInv
<1> QED BY <1>1, AlwaysIInv, PTL

\* Whatever base or item is gone was selected by a purge within its limit.
THEOREM LimitIsKept == Spec => []LimitKept
<1>1. IInv => LimitKept
  <2> SUFFICES ASSUME IInv PROVE LimitKept
    OBVIOUS
  <2> DEFINE Within == {p \in Purges : /\ Purged(p)
                                       /\ MaxRows # 0 => Cardinality(kbIds[p])
                                                           + Cardinality(knIds[p]) <= MaxRows}
  <2>1. ASSUME NEW p \in Purges, outcome[p] = "committed", NEW t \in Tables, gone[p][t] # {}
        PROVE  p \in Within
    <3>1. pc[p] = "done" /\ ~dry[p]
      BY <2>1, NothingType DEF IInv, Phases
    <3> QED BY <2>1, <3>1 DEF IInv, Phases, Purged
  <2>2. ASSUME NEW b \in Bases(before) \ Bases(Database) PROVE \E p \in Within : b \in kbIds[p]
    <3>1. PICK w \in before.rows[BASES] : w.kb = b /\ w \notin rows[BASES]
      BY <2>2 DEF Bases, Database
    <3>2. PICK p \in Purges : outcome[p] = "committed" /\ w \in gone[p][BASES]
      BY <3>1, TablesType DEF IInv, Accounted
    <3>3. b \in kbIds[p]
      BY <3>1, <3>2 DEF IInv, Selected
    <3> HIDE DEF Within
    <3> QED BY <3>2, <3>3, <2>1, TablesType
  <2>3. ASSUME NEW n \in Items(before) \ Items(Database) PROVE \E p \in Within : n \in knIds[p]
    <3>1. PICK w \in before.rows[KNOWLEDGES] : w.kn = n /\ w \notin rows[KNOWLEDGES]
      BY <2>3 DEF Items, Database
    <3>2. PICK p \in Purges : outcome[p] = "committed" /\ w \in gone[p][KNOWLEDGES]
      BY <3>1, TablesType DEF IInv, Accounted
    <3>3. n \in knIds[p]
      BY <3>1, <3>2 DEF IInv, Selected
    <3> HIDE DEF Within
    <3> QED BY <3>2, <3>3, <2>1, TablesType
  <2> QED BY <2>2, <2>3 DEF LimitKept
<1> QED BY <1>1, AlwaysIInv, PTL

\* An item no purge selected, in a base none selected, keeps every row it had.
THEOREM BystandersAreSpared == Spec => []BystandersKeepRows
<1>1. IInv => BystandersKeepRows
  BY DEF IInv, Accounted, Spared, Unselected, BystandersKeepRows
<1> QED BY <1>1, AlwaysIInv, PTL

\* What is missing was reported by a purge that committed for real; without
\* additions all that is reported is missing, and no row is reported by two.
THEOREM ReportsAgree == Spec => []ReportsAddUp
<1>1. IInv => ReportsAddUp
  <2> SUFFICES ASSUME IInv, NEW t \in Tables
               PROVE  LET missing == before.rows[t] \ rows[t]
                          reported == UNION {gone[p][t] : p \in {q \in Purges : Purged(q)}}
                      IN /\ missing \subseteq reported
                         /\ adds = 0 =>
                              /\ reported \subseteq missing
                              /\ \A p, q \in Purges : p # q => gone[p][t] \cap gone[q][t] = {}
    BY DEF ReportsAddUp
  <2>1. ASSUME NEW w \in before.rows[t] \ rows[t]
        PROVE  w \in UNION {gone[p][t] : p \in {q \in Purges : Purged(q)}}
    <3>1. PICK p \in Purges : outcome[p] = "committed" /\ w \in gone[p][t]
      BY DEF IInv, Accounted
    <3>2. Purged(p)
      BY <3>1, NothingType DEF IInv, Phases, Purged
    <3> QED BY <3>1, <3>2
  <2>2. ASSUME adds = 0, NEW p \in Purges, Purged(p), NEW w \in gone[p][t]
        PROVE  w \in before.rows[t] \ rows[t]
    BY <2>2 DEF IInv, Exclusive, Purged
  <2>3. ASSUME adds = 0
        PROVE  \A p, q \in Purges : p # q => gone[p][t] \cap gone[q][t] = {}
    BY <2>3 DEF IInv, Exclusive
  <2> QED BY <2>1, <2>2, <2>3
<1> QED BY <1>1, AlwaysIInv, PTL

-----------------------------------------------------------------------------
(* What a purge leaves.  It holds while no row is added (adds = 0): rows   *)
(* only go then, and what a purge has once found gone stays gone.          *)

\* The statements a purge has done with by the place it has come to.
Past(p, i) == /\ ~dry[p]
              /\ \/ pc[p] \in {"count", "delete"} /\ i < at[p]
                 \/ pc[p] \in {"kbCount", "kbDelete", "sweepCount", "sweepDelete", "commit"}
                 \/ outcome[p] = "committed"
PastBases(p) == /\ ~dry[p]
                /\ pc[p] \in {"sweepCount", "sweepDelete", "commit"} \/ outcome[p] = "committed"
PastSweep(p, i) == /\ ~dry[p] /\ sweep[p]
                   /\ \/ pc[p] \in {"sweepCount", "sweepDelete"} /\ i < at[p]
                      \/ pc[p] = "commit" \/ outcome[p] = "committed"

\* It sees no row any more that one of them was to delete; a DELETE that waits knows
\* of all it was to delete.
Emptied(p) ==
  /\ \A i \in DOMAIN Cascade : Past(p, i) /\ Cascade[i].table \notin absent =>
       \A w \in Seen(p, Cascade[i].table) : ~Named(p, Cascade[i], w)
  /\ PastBases(p) => \A w \in Seen(p, BASES) : w.kb \notin kbIds[p]
  /\ blocked[p] # {} =>
       /\ pc[p] = "delete" => \A w \in Seen(p, Cascade[at[p]].table) :
                                 Named(p, Cascade[at[p]], w) => w \in blocked[p]
       /\ pc[p] = "kbDelete" => \A w \in Seen(p, BASES) : w.kb \in kbIds[p] => w \in blocked[p]

\* Every item of a base it selected is selected.
SeenKns(p) == {w.kn : w \in Seen(p, KNOWLEDGES)}
WithItems(p) ==
  pc[p] \notin {"idle", "kbs", "kns"} /\ outcome[p] # "failed" =>
    \A w \in rows[KNOWLEDGES] : w.kb \in kbIds[p] => w.kn \in knIds[p]

\* What it has deleted, and waits for, it had a reason to: the row is named by what
\* it selected, or to it is an orphan.
Orphaned(p, s, w) ==
  \/ s.byKn /\ w.kn # NoKn /\ w.kn \notin SeenKns(p)
  \/ s.byKb /\ w.kb \notin SeenKbs(p)
Justified(p) ==
  /\ \A t \in Tables : \A w \in gone[p][t] :
       \/ t = BASES /\ w.kb \in kbIds[p]
       \/ \E i \in DOMAIN Cascade : Cascade[i].table = t /\ Named(p, Cascade[i], w)
       \/ sweep[p] /\ \E i \in DOMAIN Sweeps : Sweeps[i].table = t /\ Orphaned(p, Sweeps[i], w)
  /\ pc[p] \in {"sweepCount", "sweepDelete"} => sweep[p]
  /\ pc[p] = "sweepDelete" => \A w \in blocked[p] : Orphaned(p, Sweeps[at[p]], w)

Thorough(p) == Emptied(p) /\ WithItems(p) /\ Justified(p)

\* Of a base or an item: one row stands for it.
Shapes == /\ \A w \in before.rows[BASES] : w = Base(w.kb)
          /\ \A w \in before.rows[KNOWLEDGES] : w.kn \in Kns
KInv == Shapes /\ (adds = 0 => \A p \in Purges : Thorough(p))

\* A row a sweep passed has its item and its base, unless a purge that does not
\* sweep has removed them since.
Unswept == {q \in Purges : Purged(q) /\ ~sweep[q]}
Kept(p, s, w) ==
  /\ s.byKb => w.kb \in SeenKbs(p) \cup UNION {kbIds[q] : q \in Unswept}
  /\ s.byKn => w.kn \in {NoKn} \cup SeenKns(p) \cup UNION {knIds[q] : q \in Unswept}
Waiting(p, i) == /\ ~dry[p] /\ sweep[p] /\ blocked[p] # {}
                 /\ pc[p] = "sweepDelete" /\ i = at[p]
Swept(p) ==
  \A i \in DOMAIN Sweeps : Sweeps[i].table \notin absent =>
    \A w \in Seen(p, Sweeps[i].table) :
      PastSweep(p, i) \/ (Waiting(p, i) /\ w \notin blocked[p]) => Kept(p, Sweeps[i], w)
SweptInv == adds = 0 => \A p \in Purges : Swept(p)

\* The purges agree on what is to go, and it goes with the first that commits.
Selection(p) ==
  /\ kbIds[p] \subseteq DeadKbs /\ knIds[p] \subseteq DeadKns
  /\ (\A q \in Purges : ~Purged(q)) /\ outcome[p] = "none" =>
       /\ pc[p] \notin {"idle", "kbs"} => kbIds[p] = DeadKbs
       /\ pc[p] \notin {"idle", "kbs", "kns"} => knIds[p] = DeadKns
Undrifted(p) ==
  \A i \in DOMAIN Sweeps : Sweeps[i].table \notin absent =>
    \A w \in Seen(p, Sweeps[i].table) :
      PastSweep(p, i) \/ (Waiting(p, i) /\ w \notin blocked[p]) =>
        /\ Sweeps[i].byKb => w.kb \in Bases(before) \ DeadKbs
        /\ Sweeps[i].byKn => w.kn \in {NoKn} \cup (Items(before) \ DeadKns)
ExactInv ==
  /\ DeadKbs \subseteq Bases(before)
  /\ restores = 0 => oldKb = before.oldKb /\ oldKn = before.oldKn
  /\ restores = 0 /\ adds = 0 =>
       /\ \A p \in Purges : Selection(p) /\ Undrifted(p)
       /\ (\E p \in Purges : Purged(p)) =>
            \A t \in Tables \ absent : \A w \in rows[t] : ~Falls(t, w)

-----------------------------------------------------------------------------
(* Its steps, as far as that goes.                                         *)

\* Nothing of q is touched.
Same(q) ==
  /\ pc'[q] = pc[q] /\ at'[q] = at[q] /\ dry'[q] = dry[q] /\ sweep'[q] = sweep[q]
  /\ kbIds'[q] = kbIds[q] /\ knIds'[q] = knIds[q] /\ gone'[q] = gone[q]
  /\ blocked'[q] = blocked[q] /\ outcome'[q] = outcome[q]
RowsGo == absent' = absent /\ \A t \in Tables : rows'[t] \subseteq rows[t]

LEMMA Frame ==
  ASSUME IInv, NEW p \in Purges, Purging(p)
  PROVE  /\ RowsGo /\ UNCHANGED <<before, oldKb, oldKn, restores, adds>>
         /\ \A q \in Purges \ {p} : Same(q)
<1> USE DEF target, fixed, request, others
<1>1. ASSUME NEW t \in Tables, NEW hits, NEW ACTION after, Erase(p, t, hits, after),
             after => Onward(p)
      PROVE  /\ RowsGo /\ UNCHANGED <<before, oldKb, oldKn, restores, adds>>
             /\ \A q \in Purges \ {p} : Same(q)
  <2>1. UNCHANGED <<rows, absent, before, oldKb, oldKn, restores, adds, dry, sweep,
                    kbIds, knIds, outcome>>
    BY <1>1 DEF Erase
  <2>2. \A q \in Purges \ {p} : /\ pc'[q] = pc[q] /\ at'[q] = at[q]
                                /\ gone'[q] = gone[q] /\ blocked'[q] = blocked[q]
    BY <1>1, OnwardPlaces DEF Erase, IInv, TypeOK
  <2> QED BY <2>1, <2>2 DEF RowsGo, Same
<1>2. CASE Count(p) \/ CountKbs(p) \/ CountOrphans(p)
  <2>1. Reads(p)
    BY <1>2, ReadingSteps DEF IInv
  <2>2. \A q \in Purges \ {p} : pc'[q] = pc[q] /\ at'[q] = at[q]
    BY <2>1, OnwardPlaces, DeletePlaces DEF Reads, IInv
  <2> QED BY <2>1, <2>2 DEF Reads, Still, RowsGo, Same
<1>3. CASE Delete(p)
  <2>1. at[p] \in DOMAIN Cascade /\ Cascade[at[p]].table \in Tables
    BY <1>3, TablesType DEF Delete, IInv, TypeOK
  <2>2. AfterTable(p) => Onward(p)
    BY <2>1, Onwards DEF IInv
  <2> QED BY <1>1, <1>3, <2>1, <2>2 DEF Delete
<1>4. CASE DeleteKbs(p)
  <2>1. AfterCascade(p) => Onward(p)
    BY Onwards DEF IInv
  <2> QED BY <1>1, <1>4, <2>1, TablesType DEF DeleteKbs
<1>5. CASE DeleteOrphans(p)
  <2>1. at[p] \in DOMAIN Sweeps /\ Sweeps[at[p]].table \in Tables
    BY <1>5, TablesType DEF DeleteOrphans, IInv, TypeOK
  <2>2. AfterSweep(p) => Onward(p)
    BY <2>1, Onwards DEF IInv
  <2> QED BY <1>1, <1>5, <2>1, <2>2 DEF DeleteOrphans
<1>6. CASE Begin(p) \/ SelectKbs(p) \/ Fail(p)
  BY <1>6 DEF Begin, SelectKbs, Fail, Goto, IInv, TypeOK, RowsGo, Same
<1>7. CASE SelectKns(p)
  <2>1. \A q \in Purges \ {p} : pc'[q] = pc[q] /\ at'[q] = at[q] /\ outcome'[q] = outcome[q]
    <3>1. \/ Goto(p, "done", 0) /\ outcome' = [outcome EXCEPT ![p] = "limit"]
          \/ Onward(p) /\ UNCHANGED outcome
      BY <1>7, SelectKnsGoes
    <3> QED BY <3>1, Places, OnwardPlaces DEF IInv, TypeOK
  <2> QED BY <1>7, <2>1 DEF SelectKns, IInv, TypeOK, RowsGo, Same
<1>8. CASE Commit(p)
  <2>1. \A t \in Tables : rows'[t] \subseteq rows[t]
    BY <1>8 DEF Commit, Seen
  <2> QED BY <1>8, <2>1 DEF Commit, Goto, IInv, TypeOK, RowsGo, Same
<1> QED BY <1>2, <1>3, <1>4, <1>5, <1>6, <1>7, <1>8 DEF Purging

\* A purge that sees fewer rows, and has done with no more than before, is still
\* thorough.
LEMMA SeesFewer ==
  ASSUME TypeOK, NEW q \in Purges, Thorough(q), Same(q), RowsGo
  PROVE  Thorough(q)'
<1>1. \A t \in Tables : Seen(q, t)' \subseteq Seen(q, t)
  BY DEF Seen, Same, RowsGo
<1>2. SeenKbs(q)' \subseteq SeenKbs(q) /\ SeenKns(q)' \subseteq SeenKns(q)
  BY <1>1, TablesType DEF SeenKbs, SeenKns
<1>3. Emptied(q)'
  <2>1. \A i \in DOMAIN Cascade : Past(q, i)' => Past(q, i)
    BY DEF Past, Same
  <2>2. PastBases(q)' => PastBases(q)
    BY DEF PastBases, Same
  <2>3. \A s, w : Named(q, s, w)' <=> Named(q, s, w)
    BY DEF Named, Same
  <2>4. pc[q] = "delete" => at[q] \in DOMAIN Cascade
    BY DEF TypeOK
  <2>5. ASSUME NEW i \in DOMAIN Cascade, Past(q, i)', Cascade[i].table \notin absent',
               NEW w \in Seen(q, Cascade[i].table)'
        PROVE  ~Named(q, Cascade[i], w)'
    BY <1>1, <2>1, <2>3, <2>5, TablesType DEF Emptied, Thorough, RowsGo
  <2>6. PastBases(q)' => \A w \in Seen(q, BASES)' : w.kb \notin kbIds'[q]
    BY <1>1, <2>2, TablesType DEF Emptied, Thorough, Same
  <2>7. blocked'[q] # {} /\ pc'[q] = "delete" =>
          \A w \in Seen(q, Cascade[at[q]].table)' : Named(q, Cascade[at[q]], w)' => w \in blocked[q]
    BY <1>1, <2>3, <2>4, TablesType DEF Emptied, Thorough, Same
  <2>8. blocked'[q] # {} /\ pc'[q] = "kbDelete" =>
          \A w \in Seen(q, BASES)' : w.kb \in kbIds[q] => w \in blocked[q]
    BY <1>1, TablesType DEF Emptied, Thorough, Same
  <2> QED BY <2>5, <2>6, <2>7, <2>8 DEF Emptied, Same
<1>4. WithItems(q)'
  BY TablesType DEF WithItems, Thorough, Same, RowsGo
<1>5. \A s, w : Orphaned(q, s, w) => Orphaned(q, s, w)'
  BY <1>2 DEF Orphaned
<1>6. \A s, w : Named(q, s, w) => Named(q, s, w)'
  BY DEF Named, Same
<1>7. Justified(q)'
  BY <1>5, <1>6 DEF Justified, Thorough, Same
<1> QED BY <1>3, <1>4, <1>7 DEF Thorough

\* Where a purge goes from each statement.
LEMMA Ways ==
  ASSUME TypeOK, NEW p \in Purges
  PROVE  /\ AfterCascade(p) => \/ pc'[p] = "sweepCount" /\ at'[p] = 1 /\ sweep[p]
                               \/ pc'[p] = "commit" /\ ~sweep[p]
         /\ AfterTables(p) => \/ pc'[p] = "kbCount"
                              \/ kbIds[p] = {} /\ AfterCascade(p)
         /\ at[p] \in DOMAIN Cascade /\ AfterTable(p) =>
              \/ pc'[p] = "count" /\ at'[p] = at[p] + 1
              \/ at[p] = Len(Cascade) /\ AfterTables(p)
         /\ at[p] \in DOMAIN Sweeps /\ AfterSweep(p) =>
              \/ pc'[p] = "sweepCount" /\ at'[p] = at[p] + 1
              \/ pc'[p] = "commit" /\ at[p] = Len(Sweeps)
<1>1. AfterCascade(p) => \/ pc'[p] = "sweepCount" /\ at'[p] = 1 /\ sweep[p]
                         \/ pc'[p] = "commit" /\ ~sweep[p]
  BY Places DEF AfterCascade
<1>2. AfterTables(p) => pc'[p] = "kbCount" \/ (kbIds[p] = {} /\ AfterCascade(p))
  BY Places DEF AfterTables
<1>3. at[p] \in DOMAIN Cascade /\ AfterTable(p) =>
              \/ pc'[p] = "count" /\ at'[p] = at[p] + 1
              \/ at[p] = Len(Cascade) /\ AfterTables(p)
  BY Places, TablesType DEF AfterTable
<1>4. at[p] \in DOMAIN Sweeps /\ AfterSweep(p) =>
              \/ pc'[p] = "sweepCount" /\ at'[p] = at[p] + 1
              \/ pc'[p] = "commit" /\ at[p] = Len(Sweeps)
  BY Places, TablesType DEF AfterSweep
<1> QED BY <1>1, <1>2, <1>3, <1>4

\* A DELETE waits for all the rows it hits; or takes its rows and leaves none of those
\* it hits, provided that, if it has waited, it knew of them all.
Stops(p, hits) ==
  /\ Still /\ blocked[p] = {} /\ blocked'[p] = hits /\ UNCHANGED <<gone, pc, at>>
  /\ \A u \in Tables : Seen(p, u)' = Seen(p, u)
Clears(p, t, hits) ==
  /\ Still /\ blocked'[p] = {}
  /\ \E found \in SUBSET Rows :
       /\ found = IF blocked[p] = {} THEN hits ELSE blocked[p] \cap rows[t]
       /\ gone'[p] = [gone[p] EXCEPT ![t] = @ \cup found]
       /\ Seen(p, t)' = Seen(p, t) \ found
       /\ blocked[p] = {} \/ hits \subseteq blocked[p] => hits \subseteq found
  /\ \A u \in Tables \ {t} : Seen(p, u)' = Seen(p, u)

LEMMA Erased ==
  ASSUME IInv, NEW p \in Purges, NEW t \in Tables, NEW hits \in SUBSET Seen(p, t),
         NEW ACTION after, Erase(p, t, hits, after)
  PROVE  Stops(p, hits) \/ (after /\ Clears(p, t, hits))
<1> USE DEF target, fixed, request, others
<1> DEFINE found == IF blocked[p] = {} THEN hits ELSE blocked[p] \cap rows[t]
<1>1. Still /\ rows' = rows
  BY DEF Erase, Still
<1>2. CASE found \cap Locked(p, t) # {} /\ blocked[p] = {}
           /\ blocked' = [blocked EXCEPT ![p] = found] /\ UNCHANGED <<gone, pc, at>>
  <2>1. found = hits /\ blocked'[p] = found
    BY <1>2 DEF IInv, TypeOK
  <2>2. \A u \in Tables : Seen(p, u)' = Seen(p, u)
    BY <1>1, <1>2 DEF Seen
  <2> QED BY <1>1, <1>2, <2>1, <2>2 DEF Stops
<1>3. CASE found \cap Locked(p, t) = {} /\ blocked' = [blocked EXCEPT ![p] = {}]
           /\ gone' = [gone EXCEPT ![p][t] = @ \cup found] /\ after
  <2>1. hits \subseteq rows[t] /\ rows[t] \subseteq Rows
    BY DEF Seen, IInv, TypeOK, Databases, Database
  <2>2. found \in SUBSET Rows
    BY <2>1
  <2> HIDE DEF found
  <2>3. /\ blocked'[p] = {} /\ gone'[p] = [gone[p] EXCEPT ![t] = gone[p][t] \cup found]
        /\ gone[p] \in [Tables -> SUBSET Rows]
    BY <1>3 DEF IInv, TypeOK
  <2>4. /\ gone'[p][t] = gone[p][t] \cup found
        /\ \A u \in Tables \ {t} : gone'[p][u] = gone[p][u]
    BY <2>3
  <2>5. Seen(p, t)' = Seen(p, t) \ found /\ \A u \in Tables \ {t} : Seen(p, u)' = Seen(p, u)
    BY <1>1, <2>4 DEF Seen
  <2>6. blocked[p] = {} \/ hits \subseteq blocked[p] => hits \subseteq found
    BY <2>1 DEF found
  <2>7. found = IF blocked[p] = {} THEN hits ELSE blocked[p] \cap rows[t]
    BY DEF found
  <2> QED BY <1>1, <1>3, <2>2, <2>3, <2>5, <2>6, <2>7 DEF Clears
<1> QED BY <1>2, <1>3 DEF Erase

\* What is left to show of a step that only goes on, or deletes in t: what it has
\* done with, it has done.
LEMMA GoesOn ==
  ASSUME IInv, NEW p \in Purges, Thorough(p), Still,
         pc[p] \in Calm \cup Deleting, pc'[p] \in Calm \cup Deleting, blocked'[p] = {},
         \A u \in Tables : Seen(p, u)' \subseteq Seen(p, u),
         \A i \in DOMAIN Cascade : Past(p, i)' =>
           \/ Past(p, i) \/ Cascade[i].table \in absent
           \/ \A w \in Seen(p, Cascade[i].table)' : ~Named(p, Cascade[i], w),
         PastBases(p)' => PastBases(p) \/ \A w \in Seen(p, BASES)' : w.kb \notin kbIds[p],
         pc'[p] \in {"sweepCount", "sweepDelete"} => sweep[p],
         \A t \in Tables : \A w \in gone'[p][t] \ gone[p][t] :
           \/ t = BASES /\ w.kb \in kbIds[p]
           \/ \E i \in DOMAIN Cascade : Cascade[i].table = t /\ Named(p, Cascade[i], w)
           \/ sweep[p] /\ \E i \in DOMAIN Sweeps : Sweeps[i].table = t /\ Orphaned(p, Sweeps[i], w)
  PROVE  Thorough(p)'
<1> USE DEF Still, target, fixed, request, others
<1>1. /\ kbIds' = kbIds /\ knIds' = knIds /\ absent' = absent /\ rows' = rows
      /\ outcome' = outcome /\ sweep' = sweep /\ dry' = dry
  OBVIOUS
<1>2. \A s, w : Named(p, s, w)' <=> Named(p, s, w)
  BY <1>1 DEF Named
<1>3. \A s, w : Orphaned(p, s, w) => Orphaned(p, s, w)'
  <2>1. SeenKbs(p)' \subseteq SeenKbs(p) /\ SeenKns(p)' \subseteq SeenKns(p)
    BY TablesType DEF SeenKbs, SeenKns
  <2> QED BY <2>1 DEF Orphaned
<1>4. Emptied(p)'
  <2>1. ASSUME NEW i \in DOMAIN Cascade, Past(p, i)', Cascade[i].table \notin absent,
               NEW w \in Seen(p, Cascade[i].table)'
        PROVE  ~Named(p, Cascade[i], w)
    <3>1. CASE Past(p, i)
      BY <2>1, <3>1, TablesType DEF Emptied, Thorough
    <3> QED BY <2>1, <3>1
  <2>2. PastBases(p)' => \A w \in Seen(p, BASES)' : w.kb \notin kbIds[p]
    BY TablesType DEF Emptied, Thorough
  <2> QED BY <1>1, <1>2, <2>1, <2>2 DEF Emptied
<1>5. WithItems(p)'
  BY <1>1 DEF WithItems, Thorough, Calm, Deleting
<1>6. Justified(p)'
  <2>1. ASSUME NEW t \in Tables, NEW w \in gone'[p][t]
        PROVE  \/ t = BASES /\ w.kb \in kbIds[p]
               \/ \E i \in DOMAIN Cascade : Cascade[i].table = t /\ Named(p, Cascade[i], w)
               \/ sweep[p] /\ \E i \in DOMAIN Sweeps : Sweeps[i].table = t
                                                      /\ Orphaned(p, Sweeps[i], w)
    <3>1. CASE w \in gone[p][t]
      BY <3>1 DEF Justified, Thorough
    <3> QED BY <2>1, <3>1
  <2>3. \A t \in Tables : \A w \in gone'[p][t] :
       \/ t = BASES /\ w.kb \in kbIds'[p]
       \/ \E i \in DOMAIN Cascade : Cascade[i].table = t /\ Named(p, Cascade[i], w)'
       \/ sweep'[p] /\ \E i \in DOMAIN Sweeps : Sweeps[i].table = t
                                               /\ Orphaned(p, Sweeps[i], w)'
    BY <1>1, <1>2, <1>3, <2>1
  <2> QED BY <1>1, <2>3 DEF Justified
<1> QED BY <1>4, <1>5, <1>6 DEF Thorough

LEMMA ReadsThorough ==
  ASSUME IInv, NEW p \in Purges, Thorough(p), Count(p) \/ CountKbs(p) \/ CountOrphans(p)
  PROVE  Thorough(p)'
<1>1. Reads(p) /\ Still /\ UNCHANGED <<gone, blocked>>
  BY ReadingSteps DEF IInv, Reads
<1>2. /\ pc[p] \in Calm \cup Deleting /\ pc'[p] \in Calm \cup Deleting
      /\ blocked'[p] = {} /\ outcome[p] = "none" /\ outcome'[p] = "none" /\ dry'[p] = dry[p]
      /\ \A u \in Tables : Seen(p, u)' = Seen(p, u)
  <2>1. pc[p] \in Calm \ {"commit"} /\ pc'[p] \in Calm \cup Deleting
    BY <1>1, OnwardPlaces, DeletePlaces DEF Reads, IInv
  <2>2. outcome[p] = "none" /\ blocked[p] = {}
    BY <2>1 DEF IInv, Phases, Calm, Deleting
  <2> QED BY <1>1, <2>1, <2>2 DEF Still, request, target, Seen
<1>3. \A t \in Tables : gone'[p][t] \ gone[p][t] = {}
  BY <1>1
<1> DEFINE GoesPast ==
  /\ \A i \in DOMAIN Cascade : Past(p, i)' =>
       \/ Past(p, i) \/ Cascade[i].table \in absent
       \/ \A w \in Seen(p, Cascade[i].table)' : ~Named(p, Cascade[i], w)
  /\ PastBases(p)' => PastBases(p) \/ \A w \in Seen(p, BASES)' : w.kb \notin kbIds[p]
  /\ pc'[p] \in {"sweepCount", "sweepDelete"} => sweep[p]
<1>4. TypeOK
  BY DEF IInv
<1>5. CASE Count(p)
  <2>1. at[p] \in 1 .. Len(Cascade) + 1 /\ pc[p] = "count"
    BY <1>4, <1>5 DEF TypeOK, Count
  <2>2. CASE at[p] > Len(Cascade)
    <3>1. AfterTables(p)
      BY <1>5, <2>2 DEF Count
    <3>2. \/ pc'[p] = "kbCount"
          \/ kbIds[p] = {} /\ pc'[p] = "sweepCount" /\ sweep[p]
          \/ kbIds[p] = {} /\ pc'[p] = "commit"
      BY <1>4, <3>1, Ways
    <3>3. \A i \in DOMAIN Cascade : i < at[p]
      BY <2>1, <2>2, TablesType
    <3>4. GoesPast
      BY <1>2, <2>1, <3>2, <3>3 DEF Past, PastBases
    <3> QED BY <1>1, <1>2, <1>3, <3>4, GoesOn
  <2>3. CASE at[p] \in DOMAIN Cascade
    <3>0. PICK k \in DOMAIN Cascade : k = at[p]
      BY <2>3
    <3> DEFINE s == Cascade[k]
    <3>1. CASE s.table \notin absent /\ Filtered(p, s) /\ ~dry[p] /\ Hits(p, s) # {}
      <4>1. pc'[p] = "delete" /\ at'[p] = at[p]
        BY <1>4, <1>5, <2>1, <3>0, <3>1, Places, TablesType DEF Count
      <4>2. GoesPast
        BY <1>2, <2>1, <4>1 DEF Past, PastBases
      <4> QED BY <1>1, <1>2, <1>3, <4>2, GoesOn
    <3>2. CASE ~(s.table \notin absent /\ Filtered(p, s) /\ ~dry[p] /\ Hits(p, s) # {})
      <4>1. AfterTable(p)
        BY <1>5, <2>1, <3>0, <3>2, TablesType DEF Count
      <4>2. ~dry[p] /\ s.table \notin absent => \A w \in Seen(p, s.table)' : ~Named(p, s, w)
        <5>0. Seen(p, s.table)' = Seen(p, s.table)
          BY <1>2, TablesType
        <5> HIDE DEF s
        <5>1. ASSUME ~dry[p], s.table \notin absent, NEW w \in Seen(p, s.table), Named(p, s, w)
              PROVE  Filtered(p, s) /\ w \in Hits(p, s)
          BY <5>1 DEF Filtered, Hits, Named
        <5> QED BY <3>2, <5>0, <5>1
      <4>3. \/ pc'[p] = "count" /\ at'[p] = at[p] + 1
            \/ at[p] = Len(Cascade) /\ pc'[p] = "kbCount"
            \/ at[p] = Len(Cascade) /\ kbIds[p] = {} /\ pc'[p] = "sweepCount" /\ sweep[p]
            \/ at[p] = Len(Cascade) /\ kbIds[p] = {} /\ pc'[p] = "commit"
        BY <1>4, <2>3, <4>1, Ways
      <4>4. \A i \in DOMAIN Cascade :
              /\ i < at[p] + 1 => i < at[p] \/ i = at[p]
              /\ at[p] = Len(Cascade) => i < at[p] \/ i = at[p]
        BY <2>3, TablesType
      <4> HIDE DEF s
      <4>5. GoesPast
        <5>1. ASSUME NEW i \in DOMAIN Cascade, Past(p, i)' PROVE Past(p, i) \/ (i = at[p] /\ ~dry[p])
          BY <1>2, <2>1, <4>3, <4>4, <5>1 DEF Past
        <5>2. ASSUME NEW i \in DOMAIN Cascade, Past(p, i)'
              PROVE  \/ Past(p, i) \/ Cascade[i].table \in absent
                     \/ \A w \in Seen(p, Cascade[i].table)' : ~Named(p, Cascade[i], w)
          BY <3>0, <4>2, <5>1, <5>2 DEF s
        <5>3. PastBases(p)' => \A w \in Seen(p, BASES)' : w.kb \notin kbIds[p]
          BY <1>2, <4>3 DEF PastBases
        <5>4. pc'[p] \in {"sweepCount", "sweepDelete"} => sweep[p]
          BY <4>3
        <5> QED BY <5>2, <5>3, <5>4
      <4> QED BY <1>1, <1>2, <1>3, <4>5, GoesOn
    <3> QED BY <3>1, <3>2
  <2> QED BY <2>1, <2>2, <2>3, TablesType
<1>6. CASE CountKbs(p)
  <2>1. pc[p] = "kbCount"
    BY <1>6 DEF CountKbs
  <2>2. CASE ~dry[p] /\ SeenKbs(p) \cap kbIds[p] # {}
    <3>1. pc'[p] = "kbDelete"
      BY <1>4, <1>6, <2>2, Places DEF CountKbs
    <3>2. GoesPast
      BY <1>2, <2>1, <3>1 DEF Past, PastBases
    <3> QED BY <1>1, <1>2, <1>3, <3>2, GoesOn
  <2>3. CASE ~(~dry[p] /\ SeenKbs(p) \cap kbIds[p] # {})
    <3>1. AfterCascade(p)
      BY <1>6, <2>3 DEF CountKbs
    <3>2. (pc'[p] = "sweepCount" /\ sweep[p]) \/ pc'[p] = "commit"
      BY <1>4, <3>1, Ways
    <3>3. ~dry[p] => \A w \in Seen(p, BASES)' : w.kb \notin kbIds[p]
      BY <1>2, <2>3, TablesType DEF SeenKbs
    <3>4. GoesPast
      BY <1>2, <2>1, <3>2, <3>3 DEF Past, PastBases
    <3> QED BY <1>1, <1>2, <1>3, <3>4, GoesOn
  <2> QED BY <2>2, <2>3
<1>7. CASE CountOrphans(p)
  <2>1. pc[p] = "sweepCount" /\ sweep[p] /\ at[p] \in 1 .. Len(Sweeps) + 1
    BY <1>4, <1>7 DEF CountOrphans, Thorough, Justified, TypeOK
  <2>2. pc'[p] \in {"sweepCount", "sweepDelete", "commit"}
    BY <1>4, <1>7, <2>1, Places, Ways, TablesType DEF CountOrphans
  <2>3. GoesPast
    BY <1>2, <2>1, <2>2 DEF Past, PastBases
  <2> QED BY <1>1, <1>2, <1>3, <2>3, GoesOn
<1> QED BY <1>5, <1>6, <1>7

\* The same of a DELETE that waits.
LEMMA WaitsOn ==
  ASSUME IInv, NEW p \in Purges, Thorough(p), Still, pc[p] \in Deleting,
         UNCHANGED <<gone, pc, at>>,
         \A u \in Tables : Seen(p, u)' = Seen(p, u),
         pc[p] = "delete" => \A w \in Seen(p, Cascade[at[p]].table) :
                                Named(p, Cascade[at[p]], w) => w \in blocked'[p],
         pc[p] = "kbDelete" => \A w \in Seen(p, BASES) : w.kb \in kbIds[p] => w \in blocked'[p],
         pc[p] = "sweepDelete" => \A w \in blocked'[p] : Orphaned(p, Sweeps[at[p]], w)
  PROVE  Thorough(p)'
<1> USE DEF Still, target, fixed, request, others
<1>1. /\ kbIds' = kbIds /\ knIds' = knIds /\ absent' = absent /\ rows' = rows
      /\ outcome' = outcome /\ sweep' = sweep /\ dry' = dry
      /\ pc[p] = "delete" => at[p] \in DOMAIN Cascade
  BY DEF IInv, TypeOK
<1>2. \A s, w : Named(p, s, w)' <=> Named(p, s, w)
  BY <1>1 DEF Named
<1>3. \A s, w : Orphaned(p, s, w)' <=> Orphaned(p, s, w)
  BY TablesType DEF Orphaned, SeenKbs, SeenKns
<1>4. Emptied(p)'
  <2>1. /\ \A i \in DOMAIN Cascade : Past(p, i)' <=> Past(p, i)
        /\ PastBases(p)' <=> PastBases(p)
    BY <1>1 DEF Past, PastBases
  <2>2. \A i \in DOMAIN Cascade : Past(p, i) /\ Cascade[i].table \notin absent =>
          \A w \in Seen(p, Cascade[i].table)' : ~Named(p, Cascade[i], w)
    BY TablesType DEF Thorough, Emptied
  <2>3. PastBases(p) => \A w \in Seen(p, BASES)' : w.kb \notin kbIds[p]
    BY TablesType DEF Thorough, Emptied
  <2>4. pc[p] = "delete" => \A w \in Seen(p, Cascade[at[p]].table)' :
                                Named(p, Cascade[at[p]], w) => w \in blocked'[p]
    BY <1>1, TablesType
  <2>5. pc[p] = "kbDelete" => \A w \in Seen(p, BASES)' : w.kb \in kbIds[p] => w \in blocked'[p]
    BY TablesType
  <2> QED BY <1>1, <1>2, <2>1, <2>2, <2>3, <2>4, <2>5 DEF Emptied
<1>5. WithItems(p)'
  BY <1>1 DEF WithItems, Thorough
<1>6. Justified(p)'
  BY <1>1, <1>2, <1>3 DEF Justified, Thorough
<1> QED BY <1>4, <1>5, <1>6 DEF Thorough

LEMMA DeletesThorough ==
  ASSUME IInv, NEW p \in Purges, Thorough(p), Delete(p) \/ DeleteKbs(p) \/ DeleteOrphans(p)
  PROVE  Thorough(p)'
<1>1. /\ TypeOK /\ pc[p] \in Deleting /\ outcome[p] = "none" /\ ~dry[p]
  BY DEF IInv, Phases, Delete, DeleteKbs, DeleteOrphans, Deleting
<1>2. CASE Delete(p)
  <2>1. pc[p] = "delete"
    BY <1>2 DEF Delete
  <2>2. PICK k \in DOMAIN Cascade : k = at[p]
    BY <1>1, <2>1 DEF TypeOK
  <2> DEFINE s == Cascade[k]
             t == s.table
             hits == Hits(p, s)
  <2>3. /\ t \in Tables /\ hits \in SUBSET Seen(p, t)
        /\ \A w \in Seen(p, t) : w \in hits <=> Named(p, s, w)
        /\ Erase(p, t, hits, AfterTable(p))
    BY <1>2, <2>2, TablesType DEF Delete, Hits, Named
  <2>4. blocked[p] # {} => hits \subseteq blocked[p]
    BY <2>1, <2>2, <2>3 DEF Thorough, Emptied
  <2>5. \A w \in blocked[p] : Named(p, s, w)
    BY <2>1, <2>2 DEF IInv, Selected
  <2> HIDE DEF s, t, hits
  <2>6. CASE Stops(p, hits)
    BY <1>1, <2>1, <2>2, <2>3, <2>6, WaitsOn DEF s, t, Stops
  <2>7. CASE AfterTable(p) /\ Clears(p, t, hits)
    <3>0. Still /\ blocked'[p] = {} /\ \A u \in Tables \ {t} : Seen(p, u)' = Seen(p, u)
      BY <2>7 DEF Clears
    <3>1. PICK found \in SUBSET Rows :
                  /\ found = IF blocked[p] = {} THEN hits ELSE blocked[p] \cap rows[t]
                  /\ gone'[p] = [gone[p] EXCEPT ![t] = @ \cup found]
                  /\ Seen(p, t)' = Seen(p, t) \ found
                  /\ blocked[p] = {} \/ hits \subseteq blocked[p] => hits \subseteq found
      BY <2>7 DEF Clears
    <3>2. \A w \in Seen(p, t)' : ~Named(p, s, w)
      BY <2>3, <2>4, <3>1
    <3>3. \A w \in found : Named(p, s, w)
      BY <2>3, <2>5, <3>1
    <3>4. \/ pc'[p] = "count" /\ at'[p] = k + 1
          \/ k = Len(Cascade) /\ pc'[p] = "kbCount"
          \/ k = Len(Cascade) /\ kbIds[p] = {} /\ pc'[p] = "sweepCount" /\ sweep[p]
          \/ k = Len(Cascade) /\ kbIds[p] = {} /\ pc'[p] = "commit"
      BY <1>1, <2>2, <2>7, Ways
    <3>5. \A i \in DOMAIN Cascade : /\ i < k + 1 => i < k \/ i = k
                                    /\ k = Len(Cascade) => i < k \/ i = k
      BY <2>2, TablesType
    <3>6. ASSUME NEW i \in DOMAIN Cascade, Past(p, i)'
          PROVE  Past(p, i) \/ \A w \in Seen(p, Cascade[i].table)' : ~Named(p, Cascade[i], w)
      <4>1. Past(p, i) \/ i = k
        BY <1>1, <2>1, <2>2, <3>0, <3>4, <3>5, <3>6 DEF Past, Still, request
      <4> QED BY <3>2, <4>1 DEF s, t
    <3>7. PastBases(p)' => \A w \in Seen(p, BASES)' : w.kb \notin kbIds[p]
      BY <1>1, <3>0, <3>4 DEF PastBases, Still
    <3>8. \A u \in Tables : Seen(p, u)' \subseteq Seen(p, u)
      BY <3>0, <3>1
    <3>9. \A u \in Tables : \A w \in gone'[p][u] \ gone[p][u] :
            Cascade[k].table = u /\ Named(p, Cascade[k], w)
      BY <1>1, <2>3, <3>1, <3>3 DEF TypeOK, s, t
    <3>10. pc'[p] \in Calm /\ (pc'[p] = "sweepCount" => sweep[p]) /\ pc'[p] # "sweepDelete"
      BY <3>4 DEF Calm
    <3> QED BY <1>1, <3>0, <3>6, <3>7, <3>8, <3>9, <3>10, GoesOn
  <2> QED BY <2>3, <2>6, <2>7, Erased
<1>3. CASE DeleteKbs(p)
  <2>1. pc[p] = "kbDelete"
    BY <1>3 DEF DeleteKbs
  <2> DEFINE hits == {w \in Seen(p, BASES) : w.kb \in kbIds[p]}
  <2>3. BASES \in Tables /\ hits \in SUBSET Seen(p, BASES) /\ Erase(p, BASES, hits, AfterCascade(p))
    BY <1>3, TablesType DEF DeleteKbs
  <2>4. blocked[p] # {} => hits \subseteq blocked[p]
    BY <2>1 DEF Thorough, Emptied
  <2>5. /\ \A w \in blocked[p] : w.kb \in kbIds[p]
        /\ \A w \in Seen(p, BASES) : w \in hits <=> w.kb \in kbIds[p]
    BY <2>1 DEF IInv, Selected
  <2> HIDE DEF hits
  <2>6. CASE Stops(p, hits)
    BY <1>1, <2>1, <2>5, <2>6, WaitsOn DEF Stops
  <2>7. CASE AfterCascade(p) /\ Clears(p, BASES, hits)
    <3>0. Still /\ blocked'[p] = {} /\ \A u \in Tables \ {BASES} : Seen(p, u)' = Seen(p, u)
      BY <2>7 DEF Clears
    <3>1. PICK found \in SUBSET Rows :
                  /\ found = IF blocked[p] = {} THEN hits ELSE blocked[p] \cap rows[BASES]
                  /\ gone'[p] = [gone[p] EXCEPT ![BASES] = @ \cup found]
                  /\ Seen(p, BASES)' = Seen(p, BASES) \ found
                  /\ blocked[p] = {} \/ hits \subseteq blocked[p] => hits \subseteq found
      BY <2>7 DEF Clears
    <3>2. \A w \in Seen(p, BASES)' : w.kb \notin kbIds[p]
      BY <2>4, <2>5, <3>1
    <3>3. \A w \in found : w.kb \in kbIds[p]
      BY <2>3, <2>5, <3>1
    <3>4. (pc'[p] = "sweepCount" /\ sweep[p]) \/ pc'[p] = "commit"
      BY <1>1, <2>7, Ways
    <3>5. \A i \in DOMAIN Cascade : Past(p, i)' => Past(p, i)
      BY <1>1, <2>1 DEF Past
    <3>6. \A u \in Tables : Seen(p, u)' \subseteq Seen(p, u)
      BY <3>0, <3>1
    <3>7. \A u \in Tables : \A w \in gone'[p][u] \ gone[p][u] : u = BASES /\ w.kb \in kbIds[p]
      BY <1>1, <2>3, <3>1, <3>3 DEF TypeOK
    <3>8. pc'[p] \in Calm /\ (pc'[p] \in {"sweepCount", "sweepDelete"} => sweep[p])
      BY <3>4 DEF Calm
    <3> QED BY <1>1, <3>0, <3>2, <3>5, <3>6, <3>7, <3>8, GoesOn
  <2> QED BY <2>3, <2>6, <2>7, Erased
<1>4. CASE DeleteOrphans(p)
  <2>1. pc[p] = "sweepDelete"
    BY <1>4 DEF DeleteOrphans
  <2>2. PICK k \in DOMAIN Sweeps : k = at[p]
    BY <1>1, <2>1 DEF TypeOK
  <2> DEFINE s == Sweeps[k]
             t == s.table
             hits == Orphans(p, s)
  <2>3. /\ t \in Tables \ {KNOWLEDGES, BASES} /\ hits \in SUBSET Seen(p, t)
        /\ Erase(p, t, hits, AfterSweep(p))
    BY <1>4, <2>2, TablesType DEF DeleteOrphans, Orphans
  <2>4. \A w \in hits : Orphaned(p, s, w)
    BY DEF Orphans, Orphaned, SeenKns
  <2>5. (\A w \in blocked[p] : Orphaned(p, s, w)) /\ sweep[p]
    BY <2>1, <2>2 DEF Thorough, Justified
  <2> HIDE DEF s, t, hits
  <2>6. CASE Stops(p, hits)
    BY <1>1, <2>1, <2>2, <2>4, <2>6, WaitsOn DEF s, Stops
  <2>7. CASE AfterSweep(p) /\ Clears(p, t, hits)
    <3>0. Still /\ blocked'[p] = {} /\ \A u \in Tables \ {t} : Seen(p, u)' = Seen(p, u)
      BY <2>7 DEF Clears
    <3>1. PICK found \in SUBSET Rows :
                  /\ found = IF blocked[p] = {} THEN hits ELSE blocked[p] \cap rows[t]
                  /\ gone'[p] = [gone[p] EXCEPT ![t] = @ \cup found]
                  /\ Seen(p, t)' = Seen(p, t) \ found
      BY <2>7 DEF Clears
    <3>2. \A w \in found : Orphaned(p, s, w)
      BY <2>4, <2>5, <3>1
    <3>3. pc'[p] = "sweepCount" \/ pc'[p] = "commit"
      BY <1>1, <2>2, <2>7, Ways
    <3>4. /\ \A i \in DOMAIN Cascade : Past(p, i)' => Past(p, i)
          /\ PastBases(p)' => PastBases(p)
      BY <1>1, <2>1 DEF Past, PastBases
    <3>5. \A u \in Tables : Seen(p, u)' \subseteq Seen(p, u)
      BY <3>0, <3>1
    <3>6. \A u \in Tables : \A w \in gone'[p][u] \ gone[p][u] :
            Sweeps[k].table = u /\ Orphaned(p, Sweeps[k], w)
      BY <1>1, <2>3, <3>1, <3>2 DEF TypeOK, s, t
    <3>7. pc'[p] \in Calm
      BY <3>3 DEF Calm
    <3> QED BY <1>1, <2>5, <3>0, <3>4, <3>5, <3>6, <3>7, GoesOn
  <2> QED BY <2>3, <2>6, <2>7, Erased
<1> QED BY <1>2, <1>3, <1>4

\* Before the first DELETE, and once all is undone, there is nothing to be thorough in.
LEMMA StartsThorough ==
  ASSUME NEW p \in Purges, gone'[p] = Nothing, blocked'[p] = {}, outcome'[p] # "committed",
         pc'[p] \in {"kbs", "kns"} \/ (pc'[p] = "done" /\ outcome'[p] = "failed")
  PROVE  Thorough(p)'
<1>1. Emptied(p)'
  BY DEF Emptied, Past, PastBases
<1>2. WithItems(p)'
  BY DEF WithItems
<1>3. Justified(p)'
  BY NothingType DEF Justified
<1> QED BY <1>1, <1>2, <1>3 DEF Thorough

\* The SELECT of the items takes every item of the bases.
LEMMA SelectKnsThorough ==
  ASSUME IInv, NEW p \in Purges, SelectKns(p)
  PROVE  Thorough(p)'
<1> USE DEF target, fixed, request, others
<1>1. /\ UNCHANGED <<rows, absent, dry, sweep, kbIds, gone, blocked>> /\ pc[p] = "kns"
      /\ knIds'[p] = Doomed(p)
  BY DEF SelectKns, IInv, TypeOK
<1>2. gone[p] = Nothing /\ blocked[p] = {} /\ outcome[p] = "none" /\ TypeOK
  BY <1>1 DEF IInv, Phases, Deleting
<1>3. outcome'[p] # "committed"
  BY <1>2, SelectKnsGoes DEF TypeOK
<1>4. \/ pc'[p] = "count" /\ at'[p] = 1
      \/ pc'[p] = "done"
      \/ /\ kbIds[p] = {} /\ Doomed(p) = {}
         /\ (pc'[p] = "sweepCount" /\ sweep[p]) \/ pc'[p] = "commit"
  BY <1>2, Places, Ways DEF SelectKns
<1>5. Emptied(p)'
  <2>1. ASSUME NEW i \in DOMAIN Cascade, Past(p, i)', NEW w PROVE ~Named(p, Cascade[i], w)'
    BY <1>1, <1>3, <1>4, <2>1, TablesType DEF Past, Named
  <2>2. PastBases(p)' => kbIds'[p] = {}
    BY <1>1, <1>3, <1>4 DEF PastBases
  <2> QED BY <1>1, <1>2, <2>1, <2>2 DEF Emptied
<1>6. WithItems(p)'
  <2>1. Seen(p, KNOWLEDGES) = rows[KNOWLEDGES]
    BY <1>2, NothingType, TablesType DEF Seen
  <2> QED BY <1>1, <2>1 DEF WithItems, Doomed
<1>7. Justified(p)'
  BY <1>1, <1>2, <1>4, NothingType DEF Justified
<1> QED BY <1>5, <1>6, <1>7 DEF Thorough

\* To the purge that commits, nothing changes.
LEMMA CommitThorough ==
  ASSUME IInv, NEW p \in Purges, Thorough(p), Commit(p)
  PROVE  /\ Thorough(p)' /\ \A t \in Tables : Seen(p, t)' = Seen(p, t)
         /\ SeenKbs(p)' = SeenKbs(p) /\ SeenKns(p)' = SeenKns(p)
<1> USE DEF target, fixed, request, others
<1>1. /\ UNCHANGED <<absent, dry, sweep, kbIds, knIds, gone, blocked>> /\ pc[p] = "commit"
      /\ pc'[p] = "done" /\ blocked[p] = {}
      /\ \A t \in Tables : rows'[t] = Seen(p, t) /\ rows'[t] \subseteq rows[t]
  BY DEF Commit, Goto, Seen, IInv, TypeOK, Phases, Deleting
<1>2. \A t \in Tables : Seen(p, t)' = Seen(p, t)
  BY <1>1 DEF Seen
<1>3. SeenKbs(p)' = SeenKbs(p) /\ SeenKns(p)' = SeenKns(p)
  BY <1>2, TablesType DEF SeenKbs, SeenKns
<1>4. \A s, w : /\ Named(p, s, w)' <=> Named(p, s, w)
                /\ Orphaned(p, s, w)' <=> Orphaned(p, s, w)
  BY <1>1, <1>3 DEF Named, Orphaned
<1>5. Emptied(p)'
  <2>1. \A i \in DOMAIN Cascade : Past(p, i)' => Past(p, i)
    BY <1>1 DEF Past
  <2>2. PastBases(p)' => PastBases(p)
    BY <1>1 DEF PastBases
  <2>3. \A i \in DOMAIN Cascade : Past(p, i)' /\ Cascade[i].table \notin absent =>
          \A w \in Seen(p, Cascade[i].table)' : ~Named(p, Cascade[i], w)
    BY <1>2, <2>1, TablesType DEF Thorough, Emptied
  <2>4. PastBases(p)' => \A w \in Seen(p, BASES)' : w.kb \notin kbIds[p]
    BY <1>2, <2>2, TablesType DEF Thorough, Emptied
  <2> QED BY <1>1, <1>4, <2>3, <2>4 DEF Emptied
<1>6. WithItems(p)'
  BY <1>1, TablesType DEF WithItems, Thorough, IInv, Phases
<1>7. Justified(p)'
  BY <1>1, <1>4 DEF Justified, Thorough
<1> QED BY <1>2, <1>3, <1>5, <1>6, <1>7 DEF Thorough

LEMMA InitKInv == Init => KInv
<1> SUFFICES ASSUME Init PROVE KInv
  OBVIOUS
<1>1. Shapes
  <2>1. PICK bases \in SUBSET KBs : \E items \in SUBSET {n \in Kns : KbOf[n] \in bases} :
          rows = [t \in Tables |-> CASE t = KNOWLEDGES -> {Row(n) : n \in items}
                                     [] t = BASES -> {Base(b) : b \in bases}
                                     [] OTHER -> Rows]
    BY DEF Init
  <2>2. PICK items \in SUBSET {n \in Kns : KbOf[n] \in bases} :
          rows = [t \in Tables |-> CASE t = KNOWLEDGES -> {Row(n) : n \in items}
                                     [] t = BASES -> {Base(b) : b \in bases}
                                     [] OTHER -> Rows]
    BY <2>1
  <2>3. /\ before.rows[KNOWLEDGES] = {Row(n) : n \in items}
        /\ before.rows[BASES] = {Base(b) : b \in bases}
    BY <2>2, TablesType DEF Init, Database
  <2> QED BY <2>3, RowsType DEF Shapes
<1>2. ASSUME NEW p \in Purges PROVE Thorough(p)
  BY NothingType DEF Init, Thorough, Emptied, Past, PastBases, WithItems, Justified
<1> QED BY <1>1, <1>2 DEF KInv

LEMMA NextKInv == IInv /\ KInv /\ [Next]_vars => KInv'
<1> SUFFICES ASSUME IInv, KInv, [Next]_vars PROVE KInv'
  OBVIOUS
<1>0. TypeOK
  BY DEF IInv
<1>1. ASSUME NEW p \in Purges, Purging(p) PROVE KInv'
  <2>1. RowsGo /\ UNCHANGED <<before, adds>> /\ \A q \in Purges \ {p} : Same(q)
    BY <1>1, Frame
  <2>2. ASSUME adds = 0, NEW q \in Purges \ {p} PROVE Thorough(q)'
    BY <1>0, <2>1, <2>2, SeesFewer DEF KInv
  <2>3. ASSUME adds = 0 PROVE Thorough(p)'
    <3>1. Thorough(p)
      BY <2>3 DEF KInv
    <3>2. CASE Begin(p) \/ SelectKbs(p)
      <4>1. gone'[p] = Nothing /\ blocked'[p] = {} /\ outcome'[p] = "none"
        BY <3>2 DEF Begin, SelectKbs, IInv, Phases, Deleting
      <4>2. pc'[p] \in {"kbs", "kns"}
        BY <1>0, <3>2, Places DEF Begin, SelectKbs
      <4> QED BY <4>1, <4>2, StartsThorough
    <3>3. CASE Fail(p)
      <4>1. gone'[p] = Nothing /\ blocked'[p] = {} /\ outcome'[p] = "failed"
        BY <1>0, <3>3 DEF Fail, TypeOK
      <4>2. pc'[p] = "done"
        BY <1>0, <3>3, Places DEF Fail
      <4> QED BY <4>1, <4>2, StartsThorough
    <3> QED BY <1>1, <3>1, <3>2, <3>3, ReadsThorough, DeletesThorough, SelectKnsThorough,
               CommitThorough DEF Purging
  <2> QED BY <2>1, <2>2, <2>3 DEF KInv, Shapes
<1>2. CASE (\E n \in Kns : Restore(n)) \/ (\E b \in KBs : RestoreKb(b)) \/ UNCHANGED vars
  <2>1. UNCHANGED <<rows, absent, before, adds>> /\ \A q \in Purges : Same(q)
    BY <1>2 DEF Restore, RestoreKb, Restoring, vars, target, fixed, request, others, Same
  <2>2. RowsGo
    BY <2>1 DEF RowsGo
  <2> QED BY <1>0, <2>1, <2>2, SeesFewer DEF KInv, Shapes
<1>3. CASE \E n \in Kns : AddItem(n) \/ \E t \in Tables : AddRow(t, n)
  <2>1. Adding /\ UNCHANGED before
    BY <1>3 DEF AddItem, AddRow, Adding, fixed
  <2> QED BY <2>1, Adds DEF KInv, Shapes
<1> QED BY <1>1, <1>2, <1>3 DEF Next

LEMMA AlwaysKInv == Spec => [](IInv /\ KInv)
<1> QED BY InitIInv, NextIInv, InitKInv, NextKInv, PTL DEF Spec

-----------------------------------------------------------------------------
(* Items go whole.                                                         *)

\* The items themselves are purged - with the other rows, by their ids: what the
\* default of purge.tables says and a configured list may leave out.
ItemsInCascade == \E i \in DOMAIN Cascade : Cascade[i].table = KNOWLEDGES /\ Cascade[i].byKn

\* What is there after a purge has committed is what it saw then, or less.
LEMMA AfterCommit ==
  ASSUME IInv, KInv, adds = 0, NEW p \in Purges, Purged(p)
  PROVE  /\ \A t \in Tables : Seen(p, t) = rows[t]
         /\ SeenKbs(p) = Bases(Database) /\ SeenKns(p) = Items(Database)
         /\ \A i \in DOMAIN Cascade : Cascade[i].table \notin absent =>
              \A w \in rows[Cascade[i].table] : ~Named(p, Cascade[i], w)
         /\ \A w \in rows[BASES] : w.kb \notin kbIds[p]
         /\ \A w \in rows[KNOWLEDGES] : w.kb \in kbIds[p] => w.kn \in knIds[p]
         /\ pc[p] = "done" /\ outcome[p] = "committed" /\ ~dry[p] /\ Thorough(p)
<1>1. outcome[p] = "committed" /\ ~dry[p] /\ pc[p] = "done" /\ Thorough(p)
  BY DEF Purged, KInv, IInv, Phases
<1>2. \A t \in Tables : Seen(p, t) = rows[t]
  BY <1>1 DEF Seen, IInv, Exclusive
<1>3. SeenKbs(p) = Bases(Database) /\ SeenKns(p) = Items(Database)
  BY <1>2, TablesType DEF SeenKbs, SeenKns, Bases, Items, Database
<1>4. /\ \A i \in DOMAIN Cascade : Past(p, i)
      /\ PastBases(p)
  BY <1>1 DEF Past, PastBases
<1>5. /\ \A i \in DOMAIN Cascade : Cascade[i].table \notin absent =>
           \A w \in rows[Cascade[i].table] : ~Named(p, Cascade[i], w)
      /\ \A w \in rows[BASES] : w.kb \notin kbIds[p]
  BY <1>1, <1>2, <1>4, TablesType DEF Thorough, Emptied
<1>6. \A w \in rows[KNOWLEDGES] : w.kb \in kbIds[p] => w.kn \in knIds[p]
  BY <1>1 DEF Thorough, WithItems
<1> QED BY <1>1, <1>2, <1>3, <1>5, <1>6

\* An item that is there was selected by no purge that committed, nor was its base.
LEMMA NotSelected ==
  ASSUME ItemsInCascade, IInv, KInv, adds = 0, NEW p \in Purges, Purged(p),
         NEW w \in rows[KNOWLEDGES]
  PROVE  w.kn \notin knIds[p] /\ w.kb \notin kbIds[p]
<1>1. PICK i \in DOMAIN Cascade : Cascade[i].table = KNOWLEDGES /\ Cascade[i].byKn
  BY DEF ItemsInCascade
<1>2. KNOWLEDGES \notin absent
  BY PurgeAssumption DEF IInv, TypeOK
<1>3. ~Named(p, Cascade[i], w)
  BY <1>1, <1>2, AfterCommit
<1>4. w.kn \notin knIds[p]
  BY <1>1, <1>3 DEF Named
<1> QED BY <1>4, AfterCommit

\* Whoever has deleted a row that is missing has committed for real.
LEMMA Missing ==
  ASSUME IInv, NEW t \in Tables, NEW w \in before.rows[t] \ rows[t]
  PROVE  \E p \in Purges : Purged(p) /\ w \in gone[p][t]
<1>1. PICK p \in Purges : outcome[p] = "committed" /\ w \in gone[p][t]
  BY DEF IInv, Accounted
<1>2. Purged(p)
  BY <1>1, NothingType DEF IInv, Phases, Purged
<1> QED BY <1>1, <1>2

LEMMA ItemRow ==
  ASSUME IInv, NEW n \in Items(before)
  PROVE  /\ n \in Items(Database) <=> Row(n) \in rows[KNOWLEDGES]
         /\ Base(KbOf[n]) \in rows[BASES] => KbOf[n] \in Bases(Database)
         /\ n \in Kns
<1>1. n \in Kns /\ rows[KNOWLEDGES] \subseteq Rows
  BY TablesType DEF IInv, History, TypeOK, Databases, Database
<1>2. n \in Items(Database) => Row(n) \in rows[KNOWLEDGES]
  BY <1>1, RowsType DEF Items, Database
<1>3. Row(n) \in rows[KNOWLEDGES] => n \in Items(Database)
  BY <1>1, RowsType DEF Items, Database
<1>4. Base(KbOf[n]) \in rows[BASES] => KbOf[n] \in Bases(Database)
  BY <1>1, RowsType DEF Bases, Database
<1> QED BY <1>1, <1>2, <1>3, <1>4

LEMMA WholeItems ==
  ASSUME ItemsInCascade, IInv, KInv
  PROVE  ItemsGoWhole
<1> SUFFICES ASSUME adds = 0, NEW n \in Items(before)
             PROVE  /\ n \in Items(Database) => KbOf[n] \in Bases(Database)
                    /\ \A t \in Tables \ absent : (\E s \in Columns(Cascade, t) : s.byKn) =>
                         (Row(n) \in rows[t] <=> n \in Items(Database) /\ Row(n) \in before.rows[t])
  BY DEF ItemsGoWhole
<1>1. /\ n \in Kns /\ Row(n).kn = n /\ Row(n).kb = KbOf[n] /\ Base(KbOf[n]).kb = KbOf[n]
      /\ n # NoKn
  BY ItemRow, RowsType
<1>2. ASSUME n \in Items(Database) PROVE KbOf[n] \in Bases(Database)
  <2>1. Row(n) \in rows[KNOWLEDGES]
    BY <1>2, ItemRow
  <2>2. CASE Base(KbOf[n]) \notin rows[BASES]
    <3>1. Base(KbOf[n]) \in before.rows[BASES] \ rows[BASES]
      BY <2>2 DEF IInv, History
    <3>2. PICK p \in Purges : Purged(p) /\ Base(KbOf[n]) \in gone[p][BASES]
      BY <3>1, Missing, TablesType
    <3>3. KbOf[n] \in kbIds[p]
      BY <1>1, <3>2 DEF IInv, Selected
    <3> QED BY <1>1, <2>1, <3>2, <3>3, NotSelected
  <2> QED BY <2>2, ItemRow
<1>3. ASSUME NEW t \in Tables \ absent, NEW i \in DOMAIN Cascade, Cascade[i].table = t,
             Cascade[i].byKn, Row(n) \in rows[t]
      PROVE  n \in Items(Database) /\ Row(n) \in before.rows[t]
  <2>1. Row(n) \in before.rows[t]
    BY <1>3 DEF IInv, Exclusive
  <2>2. CASE Row(n) \notin rows[KNOWLEDGES]
    <3>1. Row(n) \in before.rows[KNOWLEDGES] \ rows[KNOWLEDGES]
      BY <2>2 DEF IInv, History
    <3>2. PICK p \in Purges : Purged(p) /\ Row(n) \in gone[p][KNOWLEDGES]
      BY <3>1, Missing, TablesType
    <3>3. n \in knIds[p]
      BY <1>1, <3>2 DEF IInv, Selected
    <3>4. ~Named(p, Cascade[i], Row(n))
      BY <1>3, <3>2, AfterCommit
    <3> QED BY <1>1, <1>3, <3>3, <3>4 DEF Named
  <2> QED BY <2>1, <2>2, ItemRow
<1>4. ASSUME NEW t \in Tables, n \in Items(Database), Row(n) \in before.rows[t]
      PROVE  Row(n) \in rows[t]
  <2> SUFFICES ASSUME Row(n) \notin rows[t] PROVE FALSE
    OBVIOUS
  <2>1. PICK p \in Purges : Purged(p) /\ Row(n) \in gone[p][t]
    BY <1>4, Missing
  <2>2. Row(n) \in rows[KNOWLEDGES] /\ KbOf[n] \in Bases(Database)
    BY <1>2, <1>4, ItemRow
  <2>3. n \notin knIds[p] /\ KbOf[n] \notin kbIds[p]
    BY <1>1, <2>1, <2>2, NotSelected
  <2>4. \A s : ~Named(p, s, Row(n))
    BY <1>1, <2>3 DEF Named
  <2>5. SeenKbs(p) = Bases(Database) /\ SeenKns(p) = Items(Database) /\ Thorough(p)
    BY <2>1, AfterCommit
  <2>6. \A s : ~Orphaned(p, s, Row(n))
    BY <1>1, <1>4, <2>2, <2>5 DEF Orphaned
  <2> QED BY <1>1, <2>1, <2>3, <2>4, <2>5, <2>6 DEF Thorough, Justified
<1> QED BY <1>2, <1>3, <1>4 DEF Columns

\* An item leaves with all its rows or stays with all of them, and never without its
\* base, where the cascade names the items.
THEOREM ItemsAreWhole ==
  ASSUME ItemsInCascade
  PROVE  Spec => []ItemsGoWhole
<1>1. IInv /\ KInv => ItemsGoWhole
  BY WholeItems
<1> QED BY <1>1, AlwaysKInv, PTL

-----------------------------------------------------------------------------
(* Sweeps leave no orphans.                                                *)

\* What is excused stays so.
LEMMA UnsweptGrows ==
  ASSUME IInv, NEW r \in Purges, Purging(r)
  PROVE  \A q \in Unswept : q \in Unswept' /\ kbIds'[q] = kbIds[q] /\ knIds'[q] = knIds[q]
<1> SUFFICES ASSUME NEW q \in Unswept
             PROVE  q \in Unswept' /\ kbIds'[q] = kbIds[q] /\ knIds'[q] = knIds[q]
  OBVIOUS
<1>1. pc[q] = "done" /\ q \in Purges
  BY DEF Unswept, Purged, IInv, Phases
<1>2. pc[r] # "done"
  BY DEF Purging, Begin, SelectKbs, SelectKns, Count, Delete, CountKbs, DeleteKbs,
         CountOrphans, DeleteOrphans, Commit, Fail, InTransaction
<1>3. Same(q)
  BY <1>1, <1>2, Frame
<1> QED BY <1>3 DEF Same, Unswept, Purged

\* For the purge itself, as long as it sees the same bases and items.
LEMMA KeepsKept ==
  ASSUME IInv, NEW r \in Purges, Purging(r), NEW p \in Purges, NEW s, NEW w, Kept(p, s, w),
         SeenKbs(p)' = SeenKbs(p), SeenKns(p)' = SeenKns(p)
  PROVE  Kept(p, s, w)'
<1>1. /\ \A b : b \in UNION {kbIds[q] : q \in Unswept}
                   => b \in UNION {kbIds'[q] : q \in Unswept'}
      /\ \A n : n \in UNION {knIds[q] : q \in Unswept}
                   => n \in UNION {knIds'[q] : q \in Unswept'}
  BY UnsweptGrows
<1> QED BY <1>1 DEF Kept

\* A row the committing purge leaves: the base or item it may lose now was selected by
\* this purge; that does not sweep, and is an excuse, or has swept, and has one.
LEMMA OtherCommits ==
  ASSUME IInv, KInv, adds = 0, NEW r \in Purges, Swept(r), Commit(r),
         NEW p \in Purges \ {r}, NEW i \in DOMAIN Sweeps, Sweeps[i].table \notin absent,
         NEW w \in Seen(p, Sweeps[i].table)', Kept(p, Sweeps[i], w)
  PROVE  Kept(p, Sweeps[i], w)'
<1> DEFINE s == Sweeps[i]
<1>1. Purging(r)
  BY DEF Purging
<1>2. /\ Same(p) /\ UNCHANGED <<dry, sweep, kbIds, knIds, gone>> /\ pc[r] = "commit"
      /\ outcome'[r] = "committed"
      /\ \A t \in Tables : rows'[t] = Seen(r, t) /\ Seen(r, t) = rows[t] \ gone[r][t]
  BY <1>1, Frame DEF Commit, Seen, request, IInv, TypeOK
<1>3. /\ s.table \in Tables /\ w \in rows'[s.table] /\ w \in Seen(r, s.table)
      /\ w \in Rows
  <2>1. s.table \in Tables
    BY TablesType
  <2> QED BY <1>2, <2>1 DEF Seen, IInv, TypeOK, Databases, Database
<1>4. /\ \A v \in gone[r][BASES] : v.kb \in kbIds[r]
      /\ \A v \in gone[r][KNOWLEDGES] : v.kn \in knIds[r]
      /\ \A t \in Tables : gone[r][t] # {} => ~dry[r]
  BY NothingType DEF IInv, Selected, Phases
<1>5. ~dry[r] /\ ~sweep[r] => r \in Unswept'
  BY <1>2 DEF Unswept, Purged
<1>6. ~dry[r] /\ sweep[r] => Kept(r, s, w)
  BY <1>2, <1>3 DEF Swept, PastSweep
<1>7. /\ \A b : b \in UNION {kbIds[q] : q \in Unswept}
                   => b \in UNION {kbIds'[q] : q \in Unswept'}
      /\ \A n : n \in UNION {knIds[q] : q \in Unswept}
                   => n \in UNION {knIds'[q] : q \in Unswept'}
  BY <1>1, UnsweptGrows
<1>8. /\ \A v \in rows[BASES] : v = Base(v.kb)
      /\ \A v \in rows[KNOWLEDGES] : v.kn \in Kns /\ v = Row(v.kn)
  BY TablesType, RowsType DEF KInv, Shapes, IInv, Exclusive, TypeOK, Databases, Database
<1> HIDE DEF s
<1>9. ASSUME s.byKb, w.kb \in SeenKbs(p)
      PROVE  w.kb \in SeenKbs(p)' \cup UNION {kbIds'[q] : q \in Unswept'}
  <2>1. PICK v \in Seen(p, BASES) : v.kb = w.kb
    BY <1>9 DEF SeenKbs
  <2>2. CASE v \in rows'[BASES]
    <3>1. v \in Seen(p, BASES)'
      BY <1>2, <2>1, <2>2 DEF Seen
    <3> QED BY <2>1, <3>1 DEF SeenKbs
  <2>3. CASE v \notin rows'[BASES]
    <3>1. v \in gone[r][BASES] /\ v \in rows[BASES]
      BY <1>2, <2>3, TablesType DEF Seen
    <3>2. w.kb \in kbIds[r] /\ ~dry[r]
      BY <1>4, <2>1, <3>1, TablesType
    <3>3. CASE ~sweep[r]
      BY <1>2, <1>5, <3>2, <3>3
    <3>4. CASE sweep[r]
      <4>1. w.kb \in SeenKbs(r) \cup UNION {kbIds[q] : q \in Unswept}
        BY <1>6, <1>9, <3>2, <3>4 DEF Kept
      <4>2. w.kb \notin SeenKbs(r)
        <5> SUFFICES ASSUME NEW u \in Seen(r, BASES), u.kb = w.kb PROVE FALSE
          BY DEF SeenKbs
        <5>1. u = v
          BY <1>8, <2>1, <3>1 DEF Seen
        <5> QED BY <3>1, <5>1 DEF Seen
      <4> QED BY <1>7, <4>1, <4>2
    <3> QED BY <3>3, <3>4
  <2> QED BY <2>2, <2>3
<1>10. ASSUME s.byKn, w.kn \in SeenKns(p)
       PROVE  w.kn \in SeenKns(p)' \cup UNION {knIds'[q] : q \in Unswept'}
  <2>1. PICK v \in Seen(p, KNOWLEDGES) : v.kn = w.kn
    BY <1>10 DEF SeenKns
  <2>2. CASE v \in rows'[KNOWLEDGES]
    <3>1. v \in Seen(p, KNOWLEDGES)'
      BY <1>2, <2>1, <2>2 DEF Seen
    <3> QED BY <2>1, <3>1 DEF SeenKns
  <2>3. CASE v \notin rows'[KNOWLEDGES]
    <3>1. v \in gone[r][KNOWLEDGES] /\ v \in rows[KNOWLEDGES]
      BY <1>2, <2>3, TablesType DEF Seen
    <3>2. w.kn \in knIds[r] /\ ~dry[r]
      BY <1>4, <2>1, <3>1, TablesType
    <3>3. CASE ~sweep[r]
      BY <1>2, <1>5, <3>2, <3>3
    <3>4. CASE sweep[r]
      <4>1. w.kn \in {NoKn} \cup SeenKns(r) \cup UNION {knIds[q] : q \in Unswept}
        BY <1>6, <1>10, <3>2, <3>4 DEF Kept
      <4>2. w.kn # NoKn
        BY <1>8, <2>1, <3>1, RowsType
      <4>3. w.kn \notin SeenKns(r)
        <5> SUFFICES ASSUME NEW u \in Seen(r, KNOWLEDGES), u.kn = w.kn PROVE FALSE
          BY DEF SeenKns
        <5>1. u = v
          BY <1>8, <2>1, <3>1 DEF Seen
        <5> QED BY <3>1, <5>1 DEF Seen
      <4> QED BY <1>7, <4>1, <4>2, <4>3
    <3> QED BY <3>3, <3>4
  <2> QED BY <2>2, <2>3
<1>11. Kept(p, s, w)
  BY DEF s
<1>12. Kept(p, s, w)'
  <2>1. s.byKb => w.kb \in SeenKbs(p)' \cup UNION {kbIds'[q] : q \in Unswept'}
    BY <1>7, <1>9, <1>11 DEF Kept
  <2>2. s.byKn => w.kn \in {NoKn} \cup SeenKns(p)' \cup UNION {knIds'[q] : q \in Unswept'}
    BY <1>7, <1>10, <1>11 DEF Kept
  <2> QED BY <2>1, <2>2 DEF Kept
<1> QED BY <1>12 DEF s

\* Until it sweeps a purge has swept nothing.
LEMMA NotYetSwept ==
  ASSUME IInv, NEW p \in Purges,
         \/ Begin(p) \/ SelectKbs(p) \/ SelectKns(p) \/ Count(p) \/ Delete(p)
         \/ CountKbs(p) \/ DeleteKbs(p) \/ Fail(p)
  PROVE  \A i \in DOMAIN Sweeps : ~PastSweep(p, i)' /\ ~Waiting(p, i)'
<1> USE DEF target, fixed, request, others
<1>1. TypeOK
  BY DEF IInv
<1>2. CASE Begin(p) \/ SelectKbs(p) \/ Fail(p)
  <2>1. pc'[p] \in {"kbs", "kns", "done"}
    BY <1>1, <1>2, Places DEF Begin, SelectKbs, Fail
  <2>2. CASE Begin(p) \/ SelectKbs(p)
    BY <2>1, <2>2 DEF Begin, SelectKbs, PastSweep, Waiting, IInv, Phases
  <2>3. CASE Fail(p)
    BY <1>1, <2>1, <2>3 DEF Fail, TypeOK, PastSweep, Waiting
  <2> QED BY <1>2, <2>2, <2>3
<1>3. ASSUME outcome'[p] # "committed", sweep' = sweep,
             \/ pc'[p] \in {"count", "delete", "kbCount", "kbDelete", "done"}
             \/ pc'[p] = "sweepCount" /\ at'[p] = 1
             \/ pc'[p] = "commit" /\ ~sweep[p]
      PROVE  \A i \in DOMAIN Sweeps : ~PastSweep(p, i)' /\ ~Waiting(p, i)'
  BY <1>3, TablesType DEF PastSweep, Waiting
<1>4. CASE SelectKns(p)
  <2>1. outcome'[p] # "committed" /\ sweep' = sweep
    BY <1>1, <1>4, SelectKnsGoes DEF SelectKns, TypeOK, IInv, Phases
  <2>2. \/ pc'[p] \in {"count", "done"}
        \/ pc'[p] = "sweepCount" /\ at'[p] = 1
        \/ pc'[p] = "commit" /\ ~sweep[p]
    BY <1>1, <1>4, Places, Ways DEF SelectKns
  <2> QED BY <1>3, <2>1, <2>2
<1>5. CASE Count(p) \/ CountKbs(p)
  <2>1. outcome'[p] # "committed" /\ sweep' = sweep
    BY <1>5 DEF Count, CountKbs, IInv, Phases
  <2>2. CASE Count(p)
    <3>1. \/ at[p] \in DOMAIN Cascade /\ (AfterTable(p) \/ Goto(p, "delete", at[p]))
          \/ AfterTables(p)
      BY <1>1, <2>2, TablesType DEF Count, TypeOK
    <3>2. \/ pc'[p] \in {"count", "delete", "kbCount"}
          \/ pc'[p] = "sweepCount" /\ at'[p] = 1
          \/ pc'[p] = "commit" /\ ~sweep[p]
      BY <1>1, <3>1, Places, Ways
    <3> QED BY <1>3, <2>1, <3>2
  <2>3. CASE CountKbs(p)
    <3>1. \/ pc'[p] = "kbDelete"
          \/ pc'[p] = "sweepCount" /\ at'[p] = 1
          \/ pc'[p] = "commit" /\ ~sweep[p]
      BY <1>1, <2>3, Places, Ways DEF CountKbs
    <3> QED BY <1>3, <2>1, <3>1
  <2> QED BY <1>5, <2>2, <2>3
<1>6. CASE Delete(p) \/ DeleteKbs(p)
  <2>1. outcome'[p] # "committed" /\ sweep' = sweep
    BY <1>6 DEF Delete, DeleteKbs, Erase, IInv, Phases
  <2>2. CASE Delete(p)
    <3>1. at[p] \in DOMAIN Cascade /\ pc[p] = "delete"
      BY <1>1, <2>2 DEF Delete, TypeOK
    <3>2. AfterTable(p) \/ pc' = pc
      BY <2>2 DEF Delete, Erase
    <3>3. \/ pc'[p] \in {"count", "delete", "kbCount"}
          \/ pc'[p] = "sweepCount" /\ at'[p] = 1
          \/ pc'[p] = "commit" /\ ~sweep[p]
      BY <1>1, <3>1, <3>2, Ways
    <3> QED BY <1>3, <2>1, <3>3
  <2>3. CASE DeleteKbs(p)
    <3>1. AfterCascade(p) \/ pc'[p] = "kbDelete"
      BY <2>3 DEF DeleteKbs, Erase
    <3>2. \/ pc'[p] = "kbDelete"
          \/ pc'[p] = "sweepCount" /\ at'[p] = 1
          \/ pc'[p] = "commit" /\ ~sweep[p]
      BY <1>1, <3>1, Ways
    <3> QED BY <1>3, <2>1, <3>2
  <2> QED BY <1>6, <2>2, <2>3
<1> QED BY <1>2, <1>4, <1>5, <1>6

\* What a sweep does not call an orphan has what it needs.
LEMMA OrphansOrKept ==
  ASSUME NEW p \in Purges, NEW s, NEW w \in Seen(p, s.table), w \notin Orphans(p, s)
  PROVE  Kept(p, s, w)
  BY DEF Orphans, Kept, SeenKns

\* How far a sweep has come after one of its statements: as before, or done with the
\* table it is at, of which it leaves what is kept; or it waits.
LEMMA SweepGoes ==
  ASSUME IInv, NEW p \in Purges, CountOrphans(p) \/ DeleteOrphans(p),
         NEW i \in DOMAIN Sweeps, Sweeps[i].table \notin absent,
         NEW w \in Seen(p, Sweeps[i].table)',
         PastSweep(p, i)' \/ (Waiting(p, i)' /\ w \notin blocked'[p])
  PROVE  /\ w \in Seen(p, Sweeps[i].table)
         /\ \/ PastSweep(p, i) \/ (Waiting(p, i) /\ w \notin blocked[p])
            \/ w \notin Orphans(p, Sweeps[i])
         /\ SeenKbs(p)' = SeenKbs(p) /\ SeenKns(p)' = SeenKns(p)
<1>1. TypeOK /\ outcome[p] = "none" /\ Sweeps[i].table \in Tables \ {KNOWLEDGES, BASES}
  BY TablesType DEF IInv, Phases, CountOrphans, DeleteOrphans
<1>2. CASE CountOrphans(p)
  <2>1. Still /\ UNCHANGED <<gone, blocked>> /\ pc[p] = "sweepCount" /\ blocked[p] = {}
    BY <1>2 DEF CountOrphans, Still, IInv, Phases, Deleting
  <2>2. /\ \A t \in Tables : Seen(p, t)' = Seen(p, t)
        /\ SeenKbs(p)' = SeenKbs(p) /\ SeenKns(p)' = SeenKns(p)
    BY <2>1 DEF Still, target, Seen, SeenKbs, SeenKns
  <2>3. ~dry[p] /\ sweep[p] /\ outcome'[p] = "none" /\ ~Waiting(p, i)'
    BY <1>1, <2>1 DEF Still, request, PastSweep, Waiting
  <2>4. at[p] \in 1 .. Len(Sweeps) + 1
    BY <1>1, <2>1 DEF TypeOK
  <2>5. CASE at[p] > Len(Sweeps)
    <3>1. i < at[p]
      BY <2>4, <2>5, TablesType
    <3> QED BY <1>1, <2>1, <2>2, <2>3, <3>1 DEF PastSweep
  <2>6. CASE at[p] \in DOMAIN Sweeps
    <3>1. PICK k \in DOMAIN Sweeps : k = at[p]
      BY <2>6
    <3>2. \/ pc'[p] = "sweepDelete" /\ at'[p] = k
          \/ /\ \/ pc'[p] = "sweepCount" /\ at'[p] = k + 1
                \/ pc'[p] = "commit" /\ k = Len(Sweeps)
             /\ Sweeps[k].table \in absent \/ Orphans(p, Sweeps[k]) = {}
      <4>1. ~(at[p] > Len(Sweeps))
        BY <2>6, TablesType
      <4>2. \/ Goto(p, "sweepDelete", at[p])
            \/ AfterSweep(p) /\ (Sweeps[k].table \in absent \/ Orphans(p, Sweeps[k]) = {})
        BY <1>2, <2>3, <3>1, <4>1 DEF CountOrphans
      <4> QED BY <1>1, <3>1, <4>2, Places, Ways
    <3>3. i < at[p] \/ (i = k /\ (Sweeps[k].table \in absent \/ Orphans(p, Sweeps[k]) = {}))
      BY <2>3, <3>1, <3>2, TablesType DEF PastSweep
    <3> QED BY <1>1, <2>1, <2>2, <2>3, <3>3 DEF PastSweep
  <2> QED BY <2>4, <2>5, <2>6, TablesType
<1>3. CASE DeleteOrphans(p)
  <2>1. pc[p] = "sweepDelete" /\ ~dry[p]
    BY <1>3 DEF DeleteOrphans, IInv, Phases, Deleting
  <2>2. PICK k \in DOMAIN Sweeps : k = at[p]
    BY <1>1, <2>1 DEF TypeOK
  <2> DEFINE s == Sweeps[k]
             t == s.table
             hits == Orphans(p, s)
  <2>3. /\ t \in Tables \ {KNOWLEDGES, BASES} /\ hits \in SUBSET Seen(p, t)
        /\ Erase(p, t, hits, AfterSweep(p))
    BY <1>3, <2>2, TablesType DEF DeleteOrphans, Orphans
  <2> HIDE DEF s, t, hits
  <2>4. Stops(p, hits) \/ (AfterSweep(p) /\ Clears(p, t, hits))
    BY <2>3, Erased
  <2>5. Still /\ SeenKbs(p)' = SeenKbs(p) /\ SeenKns(p)' = SeenKns(p) /\ sweep[p]
    <3>1. Still /\ \A u \in Tables \ {t} : Seen(p, u)' = Seen(p, u)
      BY <2>4 DEF Stops, Clears
    <3>2. Seen(p, BASES)' = Seen(p, BASES) /\ Seen(p, KNOWLEDGES)' = Seen(p, KNOWLEDGES)
      BY <2>3, <3>1, TablesType
    <3> QED BY <3>1, <3>2 DEF SeenKbs, SeenKns, PastSweep, Waiting, Still, request
  <2>6. CASE Stops(p, hits)
    <3>1. w \in Seen(p, Sweeps[i].table)
      BY <1>1, <2>6 DEF Stops
    <3>2. PastSweep(p, i)' => PastSweep(p, i)
      BY <2>1, <2>6 DEF Stops, Still, request, PastSweep
    <3>3. Waiting(p, i)' /\ w \notin blocked'[p] => w \notin Orphans(p, Sweeps[i])
      BY <2>2, <2>6 DEF Stops, Waiting, s, hits
    <3> QED BY <2>5, <3>1, <3>2, <3>3
  <2>7. CASE AfterSweep(p) /\ Clears(p, t, hits)
    <3>1. PICK found \in SUBSET Rows :
                  /\ found = IF blocked[p] = {} THEN hits ELSE blocked[p] \cap rows[t]
                  /\ Seen(p, t)' = Seen(p, t) \ found
      BY <2>7 DEF Clears
    <3>2. \/ pc'[p] = "sweepCount" /\ at'[p] = k + 1
          \/ pc'[p] = "commit" /\ k = Len(Sweeps)
      BY <1>1, <2>2, <2>7, Ways
    <3>3. PastSweep(p, i)'
      BY <3>2 DEF Waiting
    <3>4. w \in Seen(p, Sweeps[i].table)
      BY <1>1, <2>7, <3>1 DEF Clears
    <3>5. i < k \/ i = k
      BY <1>1, <2>2, <2>5, <3>2, <3>3, TablesType DEF PastSweep, Still
    <3>6. CASE i = k
      <4>1. w \in Seen(p, t) /\ w \notin found
        BY <3>1, <3>6 DEF s, t
      <4>2. CASE blocked[p] = {}
        BY <2>5, <3>1, <3>4, <3>6, <4>1, <4>2 DEF hits, s
      <4>3. CASE blocked[p] # {}
        <5>1. w \notin blocked[p]
          BY <3>1, <4>1, <4>3 DEF Seen
        <5> QED BY <2>1, <2>2, <2>5, <3>4, <3>6, <4>3, <5>1 DEF Waiting
      <4> QED BY <4>2, <4>3
    <3> QED BY <2>1, <2>2, <2>5, <3>4, <3>5, <3>6 DEF PastSweep
  <2> QED BY <2>4, <2>6, <2>7
<1> QED BY <1>2, <1>3

LEMMA SelfSwept ==
  ASSUME IInv, KInv, adds = 0, NEW p \in Purges, Swept(p), Purging(p)
  PROVE  Swept(p)'
<1> SUFFICES ASSUME NEW i \in DOMAIN Sweeps, Sweeps[i].table \notin absent',
                    NEW w \in Seen(p, Sweeps[i].table)',
                    PastSweep(p, i)' \/ (Waiting(p, i)' /\ w \notin blocked'[p])
             PROVE  Kept(p, Sweeps[i], w)'
  BY DEF Swept
<1>1. absent' = absent
  BY Frame DEF RowsGo
<1>2. CASE CountOrphans(p) \/ DeleteOrphans(p)
  <2>1. /\ w \in Seen(p, Sweeps[i].table)
        /\ \/ PastSweep(p, i) \/ (Waiting(p, i) /\ w \notin blocked[p])
           \/ w \notin Orphans(p, Sweeps[i])
        /\ SeenKbs(p)' = SeenKbs(p) /\ SeenKns(p)' = SeenKns(p)
    BY <1>1, <1>2, SweepGoes
  <2>2. Kept(p, Sweeps[i], w)
    BY <1>1, <2>1, OrphansOrKept DEF Swept
  <2> QED BY <2>1, <2>2, KeepsKept
<1>3. CASE Commit(p)
  <2>1. Thorough(p)
    BY DEF KInv
  <2>2. /\ w \in Seen(p, Sweeps[i].table)
        /\ SeenKbs(p)' = SeenKbs(p) /\ SeenKns(p)' = SeenKns(p)
    BY <1>3, <2>1, CommitThorough, TablesType
  <2>3. PastSweep(p, i)
    BY <1>3 DEF Commit, Goto, request, PastSweep, Waiting, IInv, TypeOK
  <2>4. Kept(p, Sweeps[i], w)
    BY <1>1, <2>2, <2>3 DEF Swept
  <2> QED BY <2>2, <2>4, KeepsKept
<1> QED BY <1>2, <1>3, NotYetSwept DEF Purging

LEMMA OtherSwept ==
  ASSUME IInv, KInv, adds = 0, NEW r \in Purges, Swept(r), Purging(r),
         NEW p \in Purges \ {r}, Swept(p)
  PROVE  Swept(p)'
<1>1. Same(p) /\ RowsGo
  BY Frame
<1> SUFFICES ASSUME NEW i \in DOMAIN Sweeps, Sweeps[i].table \notin absent,
                    NEW w \in Seen(p, Sweeps[i].table)',
                    PastSweep(p, i)' \/ (Waiting(p, i)' /\ w \notin blocked'[p])
             PROVE  Kept(p, Sweeps[i], w)'
  BY <1>1 DEF Swept, RowsGo
<1>2. w \in Seen(p, Sweeps[i].table)
  BY <1>1, TablesType DEF Seen, Same, RowsGo
<1>3. Kept(p, Sweeps[i], w)
  BY <1>1, <1>2 DEF Swept, Same, PastSweep, Waiting
<1>4. CASE Commit(r)
  BY <1>3, <1>4, OtherCommits
<1>5. CASE ~Commit(r)
  <2>1. rows' = rows
    BY <1>5 DEF Purging, Begin, SelectKbs, SelectKns, Count, Delete, CountKbs, DeleteKbs,
                CountOrphans, DeleteOrphans, Erase, Fail, target
  <2>2. SeenKbs(p)' = SeenKbs(p) /\ SeenKns(p)' = SeenKns(p)
    BY <1>1, <2>1 DEF SeenKbs, SeenKns, Seen, Same
  <2> QED BY <1>3, <2>2, KeepsKept
<1> QED BY <1>4, <1>5

LEMMA InitSweptInv == Init => SweptInv
  BY DEF Init, SweptInv, Swept, PastSweep, Waiting

LEMMA NextSweptInv == IInv /\ KInv /\ SweptInv /\ [Next]_vars => SweptInv'
<1> SUFFICES ASSUME IInv, KInv, SweptInv, [Next]_vars PROVE SweptInv'
  OBVIOUS
<1>1. ASSUME NEW r \in Purges, Purging(r) PROVE SweptInv'
  <2>1. adds' = adds
    BY <1>1, Frame
  <2>2. ASSUME adds = 0, NEW p \in Purges PROVE Swept(p)'
    BY <1>1, <2>2, SelfSwept, OtherSwept DEF SweptInv
  <2> QED BY <2>1, <2>2 DEF SweptInv
<1>2. CASE (\E n \in Kns : Restore(n)) \/ (\E b \in KBs : RestoreKb(b)) \/ UNCHANGED vars
  <2>1. UNCHANGED <<rows, absent, pc, at, dry, sweep, kbIds, knIds, gone, blocked,
                    outcome, adds>>
    BY <1>2 DEF Restore, RestoreKb, Restoring, vars, target, fixed, request, others
  <2>2. ASSUME NEW p \in Purges
        PROVE  /\ \A t \in Tables : Seen(p, t)' = Seen(p, t)
               /\ SeenKbs(p)' = SeenKbs(p) /\ SeenKns(p)' = SeenKns(p) /\ Unswept' = Unswept
    BY <2>1 DEF Seen, SeenKbs, SeenKns, Unswept, Purged
  <2>3. ASSUME NEW p \in Purges, Swept(p) PROVE Swept(p)'
    <3>1. \A s, w : Kept(p, s, w) => Kept(p, s, w)'
      BY <2>1, <2>2 DEF Kept
    <3>2. \A i : /\ PastSweep(p, i)' <=> PastSweep(p, i)
                 /\ Waiting(p, i)' <=> Waiting(p, i)
      BY <2>1 DEF PastSweep, Waiting
    <3> QED BY <2>1, <2>2, <2>3, <3>1, <3>2, TablesType DEF Swept
  <2> QED BY <2>1, <2>3 DEF SweptInv
<1>3. CASE \E n \in Kns : AddItem(n) \/ \E t \in Tables : AddRow(t, n)
  <2>1. Adding
    BY <1>3 DEF AddItem, AddRow
  <2> QED BY <2>1, Adds DEF SweptInv
<1> QED BY <1>1, <1>2, <1>3 DEF Next

\* After a sweep a row of a swept table lacks its item or its base only where another
\* purge removed that and did not sweep.
THEOREM SweepsClean == Spec => []SweptClean
<1>1. IInv /\ KInv /\ SweptInv => SweptClean
  <2> SUFFICES ASSUME IInv, KInv, SweptInv, adds = 0, NEW p \in Purges, Purged(p), sweep[p],
                      NEW i \in DOMAIN Sweeps, Sweeps[i].table \notin absent,
                      NEW w \in rows[Sweeps[i].table]
               PROVE  /\ Sweeps[i].byKb => w.kb \in Bases(Database)
                                                     \cup UNION {kbIds[q] : q \in Unswept}
                      /\ Sweeps[i].byKn => w.kn \in {NoKn} \cup Items(Database)
                                                     \cup UNION {knIds[q] : q \in Unswept}
    BY DEF SweptClean, Unswept
  <2>1. PastSweep(p, i) /\ w \in Seen(p, Sweeps[i].table)
    BY AfterCommit, TablesType DEF PastSweep
  <2>2. Kept(p, Sweeps[i], w)
    BY <2>1 DEF SweptInv, Swept
  <2> QED BY <2>2, AfterCommit DEF Kept
<1> QED BY <1>1, InitIInv, NextIInv, InitKInv, NextKInv, InitSweptInv, NextSweptInv, PTL
        DEF Spec

-----------------------------------------------------------------------------
(* Purges are exact.                                                       *)

LEMMA OnlyCommits ==
  ASSUME IInv, NEW r \in Purges, Purging(r), ~Commit(r)
  PROVE  rows' = rows /\ outcome'[r] # "committed"
<1>1. rows' = rows
  BY DEF Purging, Begin, SelectKbs, SelectKns, Count, Delete, CountKbs, DeleteKbs,
         CountOrphans, DeleteOrphans, Erase, Fail, target
<1>2. outcome[r] = "none"
  BY DEF IInv, Phases, TypeOK, Purging, Begin, SelectKbs, SelectKns, Count, Delete, CountKbs,
         DeleteKbs, CountOrphans, DeleteOrphans, Commit, Fail, InTransaction
<1>3. \/ outcome' = outcome
      \/ outcome' = [outcome EXCEPT ![r] = "failed"]
      \/ outcome' = [outcome EXCEPT ![r] = "limit"]
  BY DEF Purging, Begin, SelectKbs, SelectKns, Count, Delete, CountKbs, DeleteKbs,
         CountOrphans, DeleteOrphans, Erase, Fail
<1>4. outcome'[r] # "committed"
  BY <1>2, <1>3 DEF IInv, TypeOK
<1> QED BY <1>1, <1>4

LEMMA PurgedStays ==
  ASSUME IInv, NEW r \in Purges, Purging(r), NEW q \in Purges, Purged(q)
  PROVE  Purged(q)'
<1>1. pc[q] = "done" /\ pc[r] # "done"
  BY DEF Purged, IInv, Phases, Purging, Begin, SelectKbs, SelectKns, Count, Delete, CountKbs,
         DeleteKbs, CountOrphans, DeleteOrphans, Commit, Fail, InTransaction
<1>2. Same(q)
  BY <1>1, Frame
<1> QED BY <1>2 DEF Same, Purged

\* Until a purge has committed for real nothing has happened.
LEMMA Untouched ==
  ASSUME IInv, adds = 0, \A q \in Purges : ~Purged(q)
  PROVE  \A t \in Tables : rows[t] = before.rows[t]
  BY Missing DEF IInv, Exclusive

\* An item there is was there, and its row names its base.
LEMMA OldItems ==
  ASSUME IInv, adds = 0, NEW w \in rows[KNOWLEDGES]
  PROVE  w.kn \in Items(before) /\ w.kb = KbOf[w.kn] /\ w \in before.rows[KNOWLEDGES]
<1>1. w \in Rows /\ w.kn \in Kns
  BY TablesType DEF IInv, History, TypeOK, Databases, Database
<1>2. w.kb = KbOf[w.kn]
  BY <1>1, RowsType
<1>3. w \in before.rows[KNOWLEDGES]
  BY TablesType DEF IInv, Exclusive
<1> QED BY <1>2, <1>3 DEF Items

\* The selection: what is dead, and all of it as long as nobody has committed.
LEMMA SelectionKeeps ==
  ASSUME IInv, Shapes, ExactInv, restores = 0, adds = 0, NEW r \in Purges, Purging(r),
         NEW p \in Purges
  PROVE  Selection(p)'
<1>1. /\ UNCHANGED before /\ \A q \in Purges \ {r} : Same(q)
      /\ DeadKbs' = DeadKbs /\ DeadKns' = DeadKns
  BY Frame DEF DeadKbs, DeadKns, Items
<1>2. /\ Selection(p) /\ oldKb = before.oldKb /\ oldKn = before.oldKn /\ TypeOK
      /\ DeadKbs \subseteq Bases(before)
  BY DEF ExactInv, IInv
<1>3. (\A q \in Purges : ~Purged(q)') => \A q \in Purges : ~Purged(q)
  BY PurgedStays
<1>4. CASE p # r
  BY <1>1, <1>2, <1>3, <1>4 DEF Selection, Same
<1>5. CASE p = r /\ SelectKbs(r)
  <2>1. /\ pc'[p] = "kns" /\ kbIds'[p] = SeenKbs(p) \cap oldKb /\ knIds'[p] = {}
        /\ gone[p] = Nothing
    BY <1>2, <1>5, Places DEF SelectKbs, IInv, Phases, TypeOK
  <2>2. ASSUME \A q \in Purges : ~Purged(q) PROVE kbIds'[p] = DeadKbs
    <3>1. Seen(p, BASES) = before.rows[BASES]
      BY <2>1, <2>2, Untouched, NothingType, TablesType DEF Seen
    <3>2. SeenKbs(p) = Bases(before)
      BY <3>1 DEF SeenKbs, Bases
    <3> QED BY <1>2, <2>1, <3>2 DEF DeadKbs
  <2>3. kbIds'[p] \subseteq DeadKbs
    BY <1>2, <2>1 DEF DeadKbs
  <2> QED BY <1>1, <1>3, <2>1, <2>2, <2>3 DEF Selection
<1>6. CASE p = r /\ SelectKns(r)
  <2>1. /\ kbIds'[p] = kbIds[p] /\ knIds'[p] = Doomed(p) /\ gone[p] = Nothing
        /\ pc[p] = "kns" /\ outcome[p] = "none"
    BY <1>2, <1>6 DEF SelectKns, IInv, Phases, TypeOK
  <2>2. \A n \in Doomed(p) : n \in DeadKns
    <3> SUFFICES ASSUME NEW w \in Seen(p, KNOWLEDGES), w.kn \in oldKn \/ w.kb \in kbIds[p]
                 PROVE  w.kn \in DeadKns
      BY DEF Doomed
    <3>1. w.kn \in Items(before) /\ w.kb = KbOf[w.kn]
      BY OldItems DEF Seen
    <3> QED BY <1>2, <3>1 DEF Selection, DeadKns
  <2>3. ASSUME \A q \in Purges : ~Purged(q) PROVE kbIds[p] = DeadKbs /\ DeadKns \subseteq Doomed(p)
    <3>1. kbIds[p] = DeadKbs
      BY <1>2, <2>1, <2>3 DEF Selection
    <3>2. Seen(p, KNOWLEDGES) = before.rows[KNOWLEDGES]
      BY <2>1, <2>3, Untouched, NothingType, TablesType DEF Seen
    <3>3. ASSUME NEW n \in DeadKns PROVE n \in Doomed(p)
      <4>1. n \in Kns /\ Row(n) \in Seen(p, KNOWLEDGES)
        BY <3>2 DEF DeadKns, IInv, History
      <4>2. Row(n).kn = n /\ Row(n).kb = KbOf[n]
        BY <4>1, RowsType
      <4> QED BY <1>2, <3>1, <4>1, <4>2 DEF DeadKns, Doomed
    <3> QED BY <3>1, <3>3
  <2>4. DeadKns' = DeadKns /\ kbIds[p] \subseteq DeadKbs
    BY <1>1, <1>2 DEF Selection
  <2> QED BY <1>1, <1>3, <2>1, <2>2, <2>3, <2>4 DEF Selection
<1>7. CASE p = r /\ ~SelectKbs(r) /\ ~SelectKns(r)
  <2>1. kbIds'[p] = kbIds[p] /\ knIds'[p] = knIds[p]
    BY <1>7 DEF Purging, Begin, Count, Delete, CountKbs, DeleteKbs, CountOrphans,
                DeleteOrphans, Erase, Commit, Fail
  <2>2. CASE Begin(r)
    <3>1. pc'[p] = "kbs"
      BY <1>2, <1>7, <2>2, Places DEF Begin
    <3> QED BY <1>1, <1>2, <2>1, <3>1 DEF Selection
  <2>3. CASE Fail(r)
    <3>1. outcome'[p] = "failed"
      BY <1>2, <1>7, <2>3 DEF Fail, TypeOK
    <3> QED BY <1>1, <1>2, <2>1, <3>1 DEF Selection
  <2>4. CASE ~Begin(r) /\ ~Fail(r)
    <3>1. pc[p] \notin {"idle", "kbs", "kns", "done"}
      BY <1>7, <2>4 DEF Purging, Count, Delete, CountKbs, DeleteKbs, CountOrphans,
                        DeleteOrphans, Commit
    <3>2. outcome[p] = "none"
      BY <3>1 DEF IInv, Phases
    <3> QED BY <1>1, <1>2, <1>3, <2>1, <3>1, <3>2 DEF Selection
  <2> QED BY <2>2, <2>3, <2>4
<1> QED BY <1>4, <1>5, <1>6, <1>7

\* What is dead goes with the first purge that commits for real.
LEMMA FirstClears ==
  ASSUME IInv, KInv, ExactInv, restores = 0, adds = 0, NEW r \in Purges, Purging(r),
         \E q \in Purges : Purged(q)',
         NEW t \in Tables \ absent, NEW w \in rows'[t]
  PROVE  ~Falls(t, w)
<1>1. w \in rows[t]
  BY Frame DEF RowsGo
<1>2. CASE \E q \in Purges : Purged(q)
  BY <1>1, <1>2 DEF ExactInv
<1>3. CASE \A q \in Purges : ~Purged(q)
  <2>1. \A q \in Purges \ {r} : ~Purged(q)'
    BY <1>3, Frame DEF Same, Purged
  <2>2. Commit(r) /\ Purged(r)'
    BY <2>1, OnlyCommits DEF Purged
  <2>3. ~dry[r] /\ pc[r] = "commit" /\ outcome[r] = "none" /\ w \in Seen(r, t)
    BY <2>2 DEF Purged, Commit, request, IInv, Phases
  <2>4. kbIds[r] = DeadKbs /\ knIds[r] = DeadKns
    BY <1>3, <2>3 DEF ExactInv, Selection
  <2>5. Emptied(r) /\ PastBases(r) /\ \A i \in DOMAIN Cascade : Past(r, i)
    BY <2>3 DEF KInv, Thorough, PastBases, Past
  <2>6. t = BASES => w.kb \notin DeadKbs
    BY <2>3, <2>4, <2>5 DEF Emptied
  <2>7. \A i \in DOMAIN Cascade : Cascade[i].table = t => ~Named(r, Cascade[i], w)
    BY <2>3, <2>5 DEF Emptied
  <2> QED BY <2>4, <2>6, <2>7 DEF Falls, Columns, Named
<1> QED BY <1>2, <1>3

\* A purge that sweeps sees nothing dead any more.
LEMMA SeesNoDead ==
  ASSUME ItemsInCascade, IInv, KInv, ExactInv, restores = 0, adds = 0, NEW p \in Purges,
         ~dry[p], pc[p] \in {"sweepCount", "sweepDelete"}
  PROVE  /\ SeenKbs(p) \subseteq Bases(before) \ DeadKbs
         /\ SeenKns(p) \subseteq Items(before) \ DeadKns
<1>1. PICK i \in DOMAIN Cascade : Cascade[i].table = KNOWLEDGES /\ Cascade[i].byKn
  BY DEF ItemsInCascade
<1>2. KNOWLEDGES \in Tables \ absent /\ BASES \in Tables \ absent
  BY PurgeAssumption, TablesType DEF IInv, TypeOK
<1>3. outcome[p] = "none" /\ Emptied(p) /\ PastBases(p) /\ Past(p, i)
  BY DEF IInv, Phases, KInv, Thorough, PastBases, Past
<1>4. ASSUME NEW w \in Seen(p, BASES) PROVE w.kb \in Bases(before) \ DeadKbs
  <2>1. w \in rows[BASES] /\ w \in before.rows[BASES]
    BY <1>2 DEF Seen, IInv, Exclusive
  <2>2. CASE \E q \in Purges : Purged(q)
    BY <1>2, <2>1, <2>2 DEF ExactInv, Falls, Bases
  <2>3. CASE \A q \in Purges : ~Purged(q)
    <3>1. kbIds[p] = DeadKbs
      BY <1>3, <2>3 DEF ExactInv, Selection
    <3> QED BY <1>3, <2>1, <3>1 DEF Emptied, Bases
  <2> QED BY <2>2, <2>3
<1>5. ASSUME NEW w \in Seen(p, KNOWLEDGES) PROVE w.kn \in Items(before) \ DeadKns
  <2>1. w \in rows[KNOWLEDGES] /\ w.kn \in Items(before)
    BY OldItems DEF Seen
  <2>2. CASE \E q \in Purges : Purged(q)
    <3>1. ~Falls(KNOWLEDGES, w)
      BY <1>2, <2>1, <2>2 DEF ExactInv
    <3> QED BY <1>1, <2>1, <3>1 DEF Falls, Columns
  <2>3. CASE \A q \in Purges : ~Purged(q)
    <3>1. knIds[p] = DeadKns
      BY <1>3, <2>3 DEF ExactInv, Selection
    <3>2. ~Named(p, Cascade[i], w)
      BY <1>1, <1>2, <1>3 DEF Emptied
    <3> QED BY <1>1, <2>1, <3>1, <3>2 DEF Named
  <2> QED BY <2>2, <2>3
<1> QED BY <1>4, <1>5 DEF SeenKbs, SeenKns

LEMMA UndriftedKeeps ==
  ASSUME ItemsInCascade, IInv, KInv, ExactInv, restores = 0, adds = 0,
         NEW r \in Purges, Purging(r), NEW p \in Purges
  PROVE  Undrifted(p)'
<1>1. /\ UNCHANGED before /\ RowsGo /\ \A q \in Purges \ {r} : Same(q)
      /\ DeadKbs' = DeadKbs /\ DeadKns' = DeadKns
  BY Frame DEF DeadKbs, DeadKns, Items
<1>2. Undrifted(p) /\ absent' = absent
  BY <1>1 DEF ExactInv, RowsGo
<1> SUFFICES ASSUME NEW i \in DOMAIN Sweeps, Sweeps[i].table \notin absent,
                    NEW w \in Seen(p, Sweeps[i].table)',
                    PastSweep(p, i)' \/ (Waiting(p, i)' /\ w \notin blocked'[p])
             PROVE  /\ Sweeps[i].byKb => w.kb \in Bases(before) \ DeadKbs
                    /\ Sweeps[i].byKn => w.kn \in {NoKn} \cup (Items(before) \ DeadKns)
  BY <1>1, <1>2 DEF Undrifted, Bases, Items
<1>3. ASSUME w \in Seen(p, Sweeps[i].table),
             PastSweep(p, i) \/ (Waiting(p, i) /\ w \notin blocked[p])
      PROVE  /\ Sweeps[i].byKb => w.kb \in Bases(before) \ DeadKbs
             /\ Sweeps[i].byKn => w.kn \in {NoKn} \cup (Items(before) \ DeadKns)
  BY <1>2, <1>3 DEF Undrifted
<1>4. CASE p # r
  <2>1. w \in Seen(p, Sweeps[i].table)
    BY <1>1, <1>4, TablesType DEF Seen, Same, RowsGo
  <2>2. PastSweep(p, i) \/ (Waiting(p, i) /\ w \notin blocked[p])
    BY <1>1, <1>4 DEF Same, PastSweep, Waiting
  <2> QED BY <1>3, <2>1, <2>2
<1>5. CASE p = r /\ (CountOrphans(r) \/ DeleteOrphans(r))
  <2>1. /\ w \in Seen(p, Sweeps[i].table)
        /\ \/ PastSweep(p, i) \/ (Waiting(p, i) /\ w \notin blocked[p])
           \/ w \notin Orphans(p, Sweeps[i])
    BY <1>5, SweepGoes
  <2>2. CASE w \notin Orphans(p, Sweeps[i])
    <3>1. ~dry[p] /\ pc[p] \in {"sweepCount", "sweepDelete"}
      BY <1>5 DEF CountOrphans, DeleteOrphans, Erase, request, PastSweep, Waiting
    <3>2. /\ SeenKbs(p) \subseteq Bases(before) \ DeadKbs
          /\ SeenKns(p) \subseteq Items(before) \ DeadKns
      BY <3>1, SeesNoDead
    <3>3. /\ Sweeps[i].byKb => w.kb \in SeenKbs(p)
          /\ Sweeps[i].byKn => w.kn \in {NoKn} \cup SeenKns(p)
      BY <2>1, <2>2 DEF Orphans, SeenKns
    <3> QED BY <3>2, <3>3
  <2> QED BY <1>3, <2>1, <2>2
<1>6. CASE p = r /\ Commit(r)
  <2>1. Thorough(p)
    BY DEF KInv
  <2>2. w \in Seen(p, Sweeps[i].table)
    BY <1>6, <2>1, CommitThorough, TablesType
  <2>3. PastSweep(p, i)
    BY <1>6 DEF Commit, Goto, request, PastSweep, Waiting, IInv, TypeOK
  <2> QED BY <1>3, <2>2, <2>3
<1> QED BY <1>4, <1>5, <1>6, NotYetSwept DEF Purging

LEMMA InitExactInv == Init => ExactInv
<1> SUFFICES ASSUME Init PROVE ExactInv
  OBVIOUS
<1>1. DeadKbs \subseteq Bases(before)
  <2>1. PICK bases \in SUBSET KBs : \E items \in SUBSET {n \in Kns : KbOf[n] \in bases} :
          /\ oldKb \in SUBSET bases
          /\ rows = [t \in Tables |-> CASE t = KNOWLEDGES -> {Row(n) : n \in items}
                                        [] t = BASES -> {Base(b) : b \in bases}
                                        [] OTHER -> Rows]
    BY DEF Init
  <2>2. before.rows[BASES] = {Base(b) : b \in bases} /\ before.oldKb = oldKb
    BY <2>1, TablesType DEF Init, Database
  <2>3. \A b \in bases : b \in Bases(before)
    BY <2>2, RowsType DEF Bases
  <2> QED BY <2>1, <2>2, <2>3 DEF DeadKbs
<1>2. oldKb = before.oldKb /\ oldKn = before.oldKn
  BY DEF Init, Database
<1>3. ASSUME NEW p \in Purges PROVE Selection(p) /\ Undrifted(p) /\ ~Purged(p)
  BY DEF Init, Selection, Undrifted, PastSweep, Waiting, Purged
<1> QED BY <1>1, <1>2, <1>3 DEF ExactInv

LEMMA NextExactInv ==
  ASSUME ItemsInCascade, IInv, KInv, ExactInv, [Next]_vars
  PROVE  ExactInv'
<1>1. ASSUME NEW r \in Purges, Purging(r) PROVE ExactInv'
  <2>1. /\ UNCHANGED <<before, oldKb, oldKn, restores, adds, absent>>
        /\ DeadKbs' = DeadKbs /\ DeadKns' = DeadKns /\ Bases(before)' = Bases(before)
    BY <1>1, Frame DEF RowsGo, DeadKbs, DeadKns, Items, Bases
  <2>2. ASSUME restores = 0, adds = 0, NEW p \in Purges PROVE Selection(p)' /\ Undrifted(p)'
    BY <1>1, <2>2, SelectionKeeps, UndriftedKeeps DEF KInv
  <2>3. ASSUME restores = 0, adds = 0, \E q \in Purges : Purged(q)',
               NEW t \in Tables \ absent, NEW w \in rows'[t]
        PROVE  ~Falls(t, w)'
    <3>1. ~Falls(t, w)
      BY <1>1, <2>3, FirstClears
    <3> QED BY <2>1, <3>1 DEF Falls, Columns
  <2> QED BY <2>1, <2>2, <2>3 DEF ExactInv
<1>2. CASE (\E n \in Kns : Restore(n)) \/ (\E b \in KBs : RestoreKb(b))
  <2>1. UNCHANGED before /\ restores' = restores + 1
    BY <1>2 DEF Restore, RestoreKb, Restoring, fixed
  <2>2. restores' # 0
    BY <2>1, PurgeAssumption DEF IInv, TypeOK
  <2> QED BY <2>1, <2>2 DEF ExactInv, DeadKbs, Bases
<1>3. CASE \E n \in Kns : AddItem(n) \/ \E t \in Tables : AddRow(t, n)
  <2>1. Adding /\ UNCHANGED <<before, oldKb, oldKn, restores>>
    BY <1>3 DEF AddItem, AddRow, Adding, fixed
  <2> QED BY <2>1, Adds DEF ExactInv, DeadKbs, Bases
<1>4. CASE UNCHANGED vars
  <2>1. UNCHANGED <<rows, oldKb, oldKn, absent, before, pc, at, dry, sweep, kbIds, knIds, gone,
                    blocked, outcome, restores, adds>>
    BY <1>4 DEF vars, target, fixed, request, others
  <2>2. /\ DeadKbs' = DeadKbs /\ DeadKns' = DeadKns /\ Bases(before)' = Bases(before)
        /\ Items(before)' = Items(before)
    BY <2>1 DEF DeadKbs, DeadKns, Items, Bases
  <2>3. ASSUME NEW p \in Purges
        PROVE  /\ Purged(p)' <=> Purged(p)
               /\ Selection(p) => Selection(p)'
               /\ Undrifted(p) => Undrifted(p)'
    <3>1. Purged(p)' <=> Purged(p)
      BY <2>1 DEF Purged
    <3>2. Selection(p) => Selection(p)'
      BY <2>1, <2>2 DEF Selection, Purged
    <3>3. \A i : /\ PastSweep(p, i)' <=> PastSweep(p, i)
                 /\ Waiting(p, i)' <=> Waiting(p, i)
      BY <2>1 DEF PastSweep, Waiting
    <3>4. Undrifted(p) => Undrifted(p)'
      BY <2>1, <2>2, <3>3 DEF Undrifted, Seen
    <3> QED BY <3>1, <3>2, <3>4
  <2>4. \A t, w : Falls(t, w)' <=> Falls(t, w)
    BY <2>2 DEF Falls, Columns
  <2> QED BY <2>1, <2>2, <2>3, <2>4 DEF ExactInv
<1> QED BY <1>1, <1>2, <1>3, <1>4 DEF Next

LEMMA ExactlyPurged ==
  ASSUME IInv, KInv, ExactInv
  PROVE  PurgesExactly
<1> SUFFICES ASSUME restores = 0, adds = 0, NEW t \in Tables \ absent
             PROVE  rows[t] = {w \in before.rows[t] :
                       /\ (\E p \in Purges : Purged(p)) => ~Falls(t, w)
                       /\ (\E p \in Purges : Purged(p) /\ sweep[p]) => ~Drifts(t, w)}
  BY DEF PurgesExactly
<1>1. ASSUME NEW w \in rows[t]
      PROVE  /\ w \in before.rows[t]
             /\ (\E p \in Purges : Purged(p)) => ~Falls(t, w)
             /\ (\E p \in Purges : Purged(p) /\ sweep[p]) => ~Drifts(t, w)
  <2>1. w \in before.rows[t]
    BY DEF IInv, Exclusive
  <2>2. (\E p \in Purges : Purged(p)) => ~Falls(t, w)
    BY DEF ExactInv
  <2>3. ASSUME NEW p \in Purges, Purged(p), sweep[p] PROVE ~Drifts(t, w)
    <3>1. /\ w \in Seen(p, t)
          /\ \A i \in DOMAIN Sweeps : PastSweep(p, i)
      BY <2>3, AfterCommit DEF PastSweep
    <3>2. \A i \in DOMAIN Sweeps : Sweeps[i].table = t =>
            /\ Sweeps[i].byKb => w.kb \in Bases(before) \ DeadKbs
            /\ Sweeps[i].byKn => w.kn \in {NoKn} \cup (Items(before) \ DeadKns)
      BY <3>1 DEF ExactInv, Undrifted
    <3> QED BY <3>2 DEF Drifts, Columns
  <2> QED BY <2>1, <2>2, <2>3
<1>2. ASSUME NEW w \in before.rows[t], w \notin rows[t]
      PROVE  /\ \E p \in Purges : Purged(p)
             /\ Falls(t, w) \/ (Drifts(t, w) /\ \E p \in Purges : Purged(p) /\ sweep[p])
  <2>1. PICK p \in Purges : Purged(p) /\ w \in gone[p][t]
    BY <1>2, Missing
  <2>2. /\ \A q \in Purges : kbIds[q] \subseteq DeadKbs /\ knIds[q] \subseteq DeadKns
        /\ SeenKbs(p) = Bases(Database) /\ SeenKns(p) = Items(Database) /\ Thorough(p)
    BY <2>1, AfterCommit DEF ExactInv, Selection
  <2>3. Bases(before) \ DeadKbs \subseteq Bases(Database)
    <3> SUFFICES ASSUME NEW v \in before.rows[BASES], v.kb \notin DeadKbs
                 PROVE  v \in rows[BASES]
      BY DEF Bases, Database
    <3> QED BY <2>2, Missing, TablesType DEF IInv, Selected
  <2>4. Items(before) \ DeadKns \subseteq Items(Database)
    <3> SUFFICES ASSUME NEW v \in before.rows[KNOWLEDGES], v.kn \notin DeadKns
                 PROVE  v \in rows[KNOWLEDGES]
      BY DEF Items, Database
    <3> QED BY <2>2, Missing, TablesType DEF IInv, Selected
  <2>5. \/ t = BASES /\ w.kb \in kbIds[p]
        \/ \E i \in DOMAIN Cascade : Cascade[i].table = t /\ Named(p, Cascade[i], w)
        \/ sweep[p] /\ \E i \in DOMAIN Sweeps : Sweeps[i].table = t /\ Orphaned(p, Sweeps[i], w)
    BY <2>1, <2>2 DEF Thorough, Justified
  <2>6. CASE t = BASES /\ w.kb \in kbIds[p]
    BY <2>1, <2>2, <2>6 DEF Falls
  <2>7. ASSUME NEW i \in DOMAIN Cascade, Cascade[i].table = t, Named(p, Cascade[i], w)
        PROVE  Falls(t, w)
    BY <2>2, <2>7 DEF Falls, Columns, Named
  <2>8. ASSUME NEW i \in DOMAIN Sweeps, Sweeps[i].table = t, Orphaned(p, Sweeps[i], w)
        PROVE  Drifts(t, w)
    BY <2>2, <2>3, <2>4, <2>8 DEF Drifts, Columns, Orphaned
  <2> QED BY <2>1, <2>5, <2>6, <2>7, <2>8
<1> QED BY <1>1, <1>2

\* With no one but purges at work what others see of the tables is exact, at any moment
\* and however many purges there are, where the cascade names the items.
THEOREM PurgesAreExact ==
  ASSUME ItemsInCascade
  PROVE  Spec => []PurgesExactly
<1>1. IInv /\ KInv /\ ExactInv => PurgesExactly
  BY ExactlyPurged
<1>2. IInv /\ KInv /\ ExactInv /\ [Next]_vars => ExactInv'
  BY NextExactInv
<1> QED BY <1>1, <1>2, InitIInv, NextIInv, InitKInv, NextKInv, InitExactInv, PTL DEF Spec
=============================================================================
