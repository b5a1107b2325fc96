--------------------------- MODULE KeyStore_proofs ---------------------------
(***************************************************************************)
(* Proofs of the safety properties of KeyStore, for any number of threads  *)
(* and of writes.                                                          *)
(***************************************************************************)
EXTENDS KeyStore, TLAPS

\* Nothing in memory is newer than the file, and the last version without a
\* file is the present one where there is none.
NothingAhead ==
  /\ pairs.ver <= file.ver /\ fingerprint <= file.ver /\ lastAbsent <= file.ver
  /\ file.kind = "absent" => lastAbsent = file.ver
  /\ \A c \in Callers : entry[c] <= file.ver

\* What the thread with the lock is about to put in place is not older than
\* what is there.
LoadingNewer ==
  \A c \in Callers : pc[c] = "assign" =>
    pairs.ver <= loading[c].ver /\ loading[c].ver <= file.ver

\* A dictionary has the fingerprint of its version.
Own(p) == p.of \in {Absent, p.ver}
OwnFingerprints ==
  Own(pairs) /\ \A c \in Callers : pc[c] = "assign" => Own(loading[c])

\* The newest version a fingerprint is that of.
UpTo(f) == IF f = Absent THEN lastAbsent ELSE f

\* Who looks the key up found, or made, the fingerprint one of a version not
\* older than its own call.
StampSeen == \A c \in Callers : pc[c] = "get" => entry[c] <= UpTo(fingerprint)

IInv == /\ TypeOK /\ LockHeld /\ NothingAhead /\ LoadingNewer
        /\ OwnFingerprints /\ StampSeen

\* A file that was read makes a whole dictionary of its own version.
LEMMA LoadedType ==
  ASSUME NEW f \in Files
  PROVE  Loaded(f) \in Pairs /\ Loaded(f).ver = f.ver /\ Own(Loaded(f))
  BY DEF Files, Pairs, Fingerprints, FingerprintOf, Loaded, Own

\* The file's fingerprint is that of its version, and of none newer.
LEMMA FingerprintSeen ==
  ASSUME IInv
  PROVE  /\ FingerprintOf(file) \in Fingerprints
         /\ FingerprintOf(file) <= file.ver
         /\ UpTo(FingerprintOf(file)) = file.ver
  BY KeyStoreAssumption
     DEF IInv, TypeOK, NothingAhead, Files, Fingerprints, FingerprintOf, UpTo, Absent

LEMMA InitIInv == Init => IInv
<1> SUFFICES ASSUME Init PROVE IInv
  OBVIOUS
<1>1. file \in Files /\ pairs \in Pairs /\ Empty \in Pairs
  BY KeyStoreAssumption DEF Init, Files, Pairs, Fingerprints, Empty
<1>2. pairs.ver = 0 /\ file.ver = 1
  BY KeyStoreAssumption DEF Init, Empty
<1> QED BY <1>1, <1>2, KeyStoreAssumption
  DEF Init, IInv, TypeOK, Fingerprints, LockHeld, NothingAhead, LoadingNewer,
      OwnFingerprints, Own, Empty, StampSeen

LEMMA NextIInv == IInv /\ [Next]_vars => IInv'
<1> SUFFICES ASSUME IInv, [Next]_vars PROVE IInv'
  OBVIOUS
<1> USE KeyStoreAssumption
    DEF IInv, TypeOK, LockHeld, NothingAhead, LoadingNewer, OwnFingerprints,
        StampSeen, UpTo, Goto
<1>v. file.ver \in 0 .. MaxWrites /\ pairs.ver \in 0 .. MaxWrites
      /\ \A c \in Callers : loading[c].ver \in 0 .. MaxWrites
  BY DEF Files, Pairs
<1>f. /\ FingerprintOf(file) \in Fingerprints
      /\ FingerprintOf(file) <= file.ver
      /\ UpTo(FingerprintOf(file)) = file.ver
  BY FingerprintSeen
<1>1. ASSUME NEW c \in Callers, Enter(c) PROVE IInv'
  BY <1>1, <1>v DEF Enter
<1>2. ASSUME NEW c \in Callers, Check(c) PROVE IInv'
  BY <1>2, <1>v, <1>f DEF Check, Fresh
<1>3. ASSUME NEW c \in Callers, Acquire(c) PROVE IInv'
  BY <1>3, <1>v DEF Acquire
<1>4. ASSUME NEW c \in Callers, Recheck(c) PROVE IInv'
  BY <1>4, <1>v, <1>f DEF Recheck, Fresh
<1>5. ASSUME NEW c \in Callers, ReadFile(c) PROVE IInv'
  BY <1>5, <1>v, LoadedType DEF ReadFile
<1>6. ASSUME NEW c \in Callers, Assign(c) PROVE IInv'
  BY <1>6, <1>v DEF Assign
<1>7. ASSUME NEW c \in Callers, Stamp(c) PROVE IInv'
  BY <1>7, <1>v, <1>f DEF Stamp
<1>8. ASSUME NEW c \in Callers, Get(c) PROVE IInv'
  BY <1>8, <1>v DEF Get
<1>9. CASE Write
  <2>1. file' \in Files /\ file'.ver = file.ver + 1
    BY <1>9, <1>v DEF Write, Files
  <2>2. lastAbsent' \in {lastAbsent, file'.ver} /\ lastAbsent <= lastAbsent'
        /\ (file'.kind = "absent" => lastAbsent' = file'.ver)
    BY <1>9, <1>v, <2>1 DEF Write
  <2>3. TypeOK' /\ LockHeld'
    BY <1>9, <2>1, <2>2 DEF Write, Files
  <2>4. NothingAhead'
    BY <1>9, <1>v, <2>1, <2>2 DEF Write, Fingerprints, Absent
  <2>5. LoadingNewer' /\ OwnFingerprints'
    BY <1>9, <1>v, <2>1 DEF Write, Own
  <2>6. StampSeen'
    BY <1>9, <2>1, <2>2 DEF Write
  <2> QED BY <2>3, <2>4, <2>5, <2>6
<1>10. CASE UNCHANGED vars
  BY <1>10 DEF vars
<1> QED BY <1>1, <1>2, <1>3, <1>4, <1>5, <1>6, <1>7, <1>8, <1>9, <1>10
  DEF Next, Lookup

LEMMA AlwaysIInv == Spec => []IInv
  BY InitIInv, NextIInv, PTL DEF Spec

\* The variables keep their types: every dictionary is one of a whole version.
THEOREM TypeCorrect == Spec => []TypeOK
<1>1. IInv => TypeOK
  BY DEF IInv
<1> QED BY <1>1, AlwaysIInv, PTL

\* _ensure_fresh: at most one thread reloads at any time.
THEOREM LockIsHeld == Spec => []LockHeld
<1>1. IInv => LockHeld
  BY DEF IInv
<1> QED BY <1>1, AlwaysIInv, PTL

\* get_secret sees every change made before it was called, unless a write fell
\* between some reload's read and its stamp.
THEOREM ChangesAreSeen == Spec => []ChangeSeen
<1>1. IInv => ChangeSeen
  BY DEF IInv, TypeOK, Pairs, OwnFingerprints, Own, StampSeen, UpTo, ChangeSeen,
         Raced, Newest
<1> QED BY <1>1, AlwaysIInv, PTL

\* _reload never puts an older dictionary in place of a newer one.
THEOREM GoesForward == Spec => NeverBackwards
<1>1. IInv /\ [Next]_vars => [pairs'.ver >= pairs.ver]_vars
  <2> SUFFICES ASSUME IInv, Next PROVE pairs'.ver >= pairs.ver
    OBVIOUS
  <2>1. pairs.ver \in Nat
    BY KeyStoreAssumption DEF IInv, TypeOK, Pairs
  <2>2. ASSUME NEW c \in Callers, Assign(c) PROVE pairs'.ver >= pairs.ver
    BY <2>1, <2>2, KeyStoreAssumption
       DEF Assign, IInv, TypeOK, Pairs, LoadingNewer
  <2>3. ASSUME pairs' = pairs PROVE pairs'.ver >= pairs.ver
    BY <2>1, <2>3
  <2> QED BY <2>2, <2>3 DEF Next, Lookup, Enter, Check, Acquire, Recheck,
                            ReadFile, Stamp, Get, Write
<1> QED BY <1>1, AlwaysIInv, PTL DEF Spec, NeverBackwards
=============================================================================
