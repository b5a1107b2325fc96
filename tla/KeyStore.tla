------------------------------ MODULE KeyStore ------------------------------
(***************************************************************************)
(* keystore.py: the dictionary of api_secrets cached from the environment  *)
(* and keys.json, refreshed by get_secret when the file's fingerprint      *)
(* moves.  Every file access and every assignment the operator, who edits  *)
(* keys.json from another process, can come between is a step.  The class  *)
(* guards its reload with a lock, so it is modelled for threads; Forge     *)
(* itself calls it from the coroutines of one event loop, with no await    *)
(* inside, so that there its callers never overlap.                        *)
(* The secret of one API key is followed; the environment may hold one for *)
(* it too.  A version of the file stands for its (mtime, size): versions   *)
(* that differ are told apart by it, except that no file is like no file.  *)
(***************************************************************************)
EXTENDS Integers

CONSTANTS
  Callers,       \* threads in get_secret
  Nobody,        \* not a caller: the lock is free
  EnvSecret,     \* WEKNORA_API_KEY / _SECRET name this key
  MaxWrites      \* bound: times keys.json is written

ASSUME KeyStoreAssumption ==
  Nobody \notin Callers /\ EnvSecret \in BOOLEAN /\ MaxWrites \in Nat

\* What a version of keys.json holds: no file, bytes that do not parse (a write
\* half done), an array without the key, or with it.
Kinds == {"absent", "torn", "without", "with"}
Files == [ver: 0 .. MaxWrites, kind: Kinds]
\* Fingerprints: a version, 0 before the first load, or that of no file.
Absent == -1
Fingerprints == {Absent} \cup 0 .. MaxWrites
\* _pairs at this key: the version it was loaded from, the fingerprint that
\* version has, and whose secret it is.
Pairs == [ver: 0 .. MaxWrites, of: Fingerprints, secret: {"none", "env", "file"}]

VARIABLES
  file,         \* keys.json on disk
  pairs,        \* _pairs
  fingerprint,  \* _fingerprint
  lock,
  pc,           \* each caller's place in get_secret
  loading,      \* the local `pairs' of its _reload
  entry,        \* the version on disk when its lookup began
  result,       \* what its last lookup found
  lastAbsent    \* history: the latest version that was no file, or 0

vars == <<file, pairs, fingerprint, lock, pc, loading, entry, result, lastAbsent>>

TypeOK ==
  /\ file \in Files
  /\ pairs \in Pairs
  /\ fingerprint \in Fingerprints
  /\ lock \in Callers \cup {Nobody}
  /\ pc \in [Callers -> {"idle", "check", "lock", "recheck", "read", "assign",
                         "stamp", "get", "done"}]
  /\ loading \in [Callers -> Pairs]
  /\ entry \in [Callers -> 0 .. MaxWrites]
  /\ result \in [Callers -> Pairs]
  /\ lastAbsent \in 0 .. MaxWrites

Empty == [ver |-> 0, of |-> 0, secret |-> "none"]

\* Version 0 is never on disk: it is "nothing loaded yet".
Init ==
  /\ MaxWrites > 0 /\ file \in [ver: {1}, kind: Kinds]
  /\ pairs = Empty /\ fingerprint = 0 /\ lock = Nobody
  /\ pc = [c \in Callers |-> "idle"]
  /\ loading = [c \in Callers |-> Empty]
  /\ entry = [c \in Callers |-> 0]
  /\ result = [c \in Callers |-> Empty]
  /\ lastAbsent = IF file.kind = "absent" THEN 1 ELSE 0

\* _current_fingerprint: every absent file has the same one.
FingerprintOf(f) == IF f.kind = "absent" THEN Absent ELSE f.ver

\* Mutated Loaded: what the file is goes into the dictionary unread.
LoadedRaw(f) == [ver |-> f.ver, of |-> FingerprintOf(f), secret |-> f.kind]

\* The file wins over the environment; unreadable, it counts as empty.
Loaded(f) == [ver |-> f.ver, of |-> FingerprintOf(f), secret |->
  IF f.kind = "with" THEN "file" ELSE IF EnvSecret THEN "env" ELSE "none"]

\* Mutated Fresh: once loaded, always fresh.
FreshOnce == fingerprint # 0

Fresh == FingerprintOf(file) = fingerprint

-----------------------------------------------------------------------------
Goto(c, p) == pc' = [pc EXCEPT ![c] = p]

Enter(c) ==
  /\ pc[c] \in {"idle", "done"} /\ Goto(c, "check")
  /\ entry' = [entry EXCEPT ![c] = file.ver]
  /\ UNCHANGED <<file, pairs, fingerprint, lock, loading, result, lastAbsent>>

Check(c) ==        \* the fast path, without the lock
  /\ pc[c] = "check" /\ Goto(c, IF Fresh THEN "get" ELSE "lock")
  /\ UNCHANGED <<file, pairs, fingerprint, lock, loading, entry, result, lastAbsent>>

\* Mutated Acquire: no lock.
AcquireFree(c) ==
  /\ pc[c] = "lock" /\ lock' = c /\ Goto(c, "recheck")
  /\ UNCHANGED <<file, pairs, fingerprint, loading, entry, result, lastAbsent>>

Acquire(c) ==
  /\ pc[c] = "lock" /\ lock = Nobody
  /\ lock' = c /\ Goto(c, "recheck")
  /\ UNCHANGED <<file, pairs, fingerprint, loading, entry, result, lastAbsent>>

\* Mutated Recheck: the early return keeps the lock.
RecheckKeeps(c) ==
  /\ pc[c] = "recheck" /\ Goto(c, IF Fresh THEN "get" ELSE "read")
  /\ UNCHANGED <<file, pairs, fingerprint, lock, loading, entry, result, lastAbsent>>

Recheck(c) ==      \* somebody else may have reloaded meanwhile
  /\ pc[c] = "recheck"
  /\ IF Fresh THEN lock' = Nobody /\ Goto(c, "get")
              ELSE UNCHANGED lock /\ Goto(c, "read")
  /\ UNCHANGED <<file, pairs, fingerprint, loading, entry, result, lastAbsent>>

ReadFile(c) ==
  /\ pc[c] = "read" /\ Goto(c, "assign")
  /\ loading' = [loading EXCEPT ![c] = Loaded(file)]
  /\ UNCHANGED <<file, pairs, fingerprint, lock, entry, result, lastAbsent>>

Assign(c) ==
  /\ pc[c] = "assign" /\ Goto(c, "stamp")
  /\ pairs' = loading[c]
  /\ UNCHANGED <<file, fingerprint, lock, loading, entry, result, lastAbsent>>

Stamp(c) ==        \* the file as it is NOW, not as it was read; then unlock
  /\ pc[c] = "stamp" /\ Goto(c, "get")
  /\ fingerprint' = FingerprintOf(file) /\ lock' = Nobody
  /\ UNCHANGED <<file, pairs, loading, entry, result, lastAbsent>>

Get(c) ==          \* self._pairs.get(api_key), without the lock
  /\ pc[c] = "get" /\ Goto(c, "done")
  /\ result' = [result EXCEPT ![c] = pairs]
  /\ UNCHANGED <<file, pairs, fingerprint, lock, loading, entry, lastAbsent>>

\* The operator writes, replaces, truncates or removes keys.json.
Write ==
  /\ file.ver < MaxWrites
  /\ file' \in [ver: {file.ver + 1}, kind: Kinds]
  /\ lastAbsent' = IF file'.kind = "absent" THEN file'.ver ELSE lastAbsent
  /\ UNCHANGED <<pairs, fingerprint, lock, pc, loading, entry, result>>

Lookup(c) == \/ Check(c) \/ Acquire(c) \/ Recheck(c) \/ ReadFile(c)
             \/ Assign(c) \/ Stamp(c) \/ Get(c)

Next == (\E c \in Callers : Enter(c) \/ Lookup(c)) \/ Write

\* A thread that can run runs; a lock that is let go again and again is won.
Fairness == \A c \in Callers : WF_vars(Lookup(c)) /\ SF_vars(Acquire(c))
Spec == Init /\ [][Next]_vars
FairSpec == Spec /\ Fairness

-----------------------------------------------------------------------------
\* Whoever holds the lock, and nobody else, is between Acquire and Stamp.
LockHeld ==
  \A c \in Callers :
    pc[c] \in {"recheck", "read", "assign", "stamp"} <=> lock = c

\* The dictionary is always one whole version: the secret it gives is the one
\* some version of the file held, and it never goes back to an older version -
\* a rotated-out secret does not return once the new one has been served.
NeverBackwards == [][pairs'.ver >= pairs.ver]_vars

\* The newest version that is as what was loaded: no file is like no file.
Newest(p) == IF p.of = Absent THEN lastAbsent ELSE p.ver

\* A reload that no write came into leaves a fingerprint that tells the truth,
\* so a lookup sees every change made before it began - as long as no write
\* fell between the last reload's read and its stamp.
Raced == fingerprint # pairs.of
ChangeSeen ==
  \A c \in Callers : pc[c] = "get" => Newest(pairs) >= entry[c] \/ Raced

\* Every lookup returns: the lock is let go on each way out of _ensure_fresh.
LookupReturns == \A c \in Callers : pc[c] = "check" ~> pc[c] = "done"

\* keystore.py:24: "The file is re-read automatically whenever it changes
\* (mtime + size fingerprint), so secrets can be rotated without a restart."
RereadWheneverChanged ==
  \A c \in Callers : pc[c] = "done" => Newest(result[c]) >= entry[c]
=============================================================================
