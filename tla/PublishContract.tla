-------------------------- MODULE PublishContract --------------------------
(***************************************************************************)
(* What a caller of POST /api/v2/publish may count on, whatever happens    *)
(* between Forge and WeKnora: an article goes live only when it is whole   *)
(* (its metadata and description written), success is told only of a live  *)
(* article, and an article whose success was told is never withdrawn.      *)
(* What it may not count on shows too: after an error or a crash the       *)
(* article may still appear, become whole, go live or be withdrawn.        *)
(***************************************************************************)
CONSTANT Requests
VARIABLES
  phase,    \* what the caller sees of each request
  shelf     \* what a reader of WeKnora sees of its article

vars == <<phase, shelf>>

Phases  == {"idle", "working", "ok", "error", "cut"}
Shelves == {"absent", "draft", "whole", "live", "deleted"}

TypeOK == phase \in [Requests -> Phases] /\ shelf \in [Requests -> Shelves]

Init == /\ phase = [r \in Requests |-> "idle"]
        /\ shelf = [r \in Requests |-> "absent"]

Phase(r, from, to) ==
  phase[r] = from /\ phase' = [phase EXCEPT ![r] = to] /\ UNCHANGED shelf

Begin(r)   == Phase(r, "idle", "working")
Decline(r) == Phase(r, "idle", "error")
Fail(r)    == Phase(r, "working", "error")
Succeed(r) == shelf[r] = "live" /\ Phase(r, "working", "ok")
End(r)     == Fail(r) \/ Succeed(r)

Shelve(r, from, to) ==
  /\ phase[r] \in {"working", "error", "cut"}
  /\ shelf[r] \in from
  /\ \E s \in to : shelf' = [shelf EXCEPT ![r] = s]
  /\ UNCHANGED phase

Create(r)   == Shelve(r, {"absent"}, {"draft", "whole"})
Complete(r) == Shelve(r, {"draft"}, {"whole"})
GoLive(r)   == Shelve(r, {"whole"}, {"live"})
Withdraw(r) == Shelve(r, {"draft", "whole", "live"}, {"deleted"})

Cut == /\ phase' = [r \in Requests |-> IF phase[r] = "working" THEN "cut"
                                       ELSE phase[r]]
       /\ UNCHANGED shelf

Next == \/ \E r \in Requests : \/ Begin(r) \/ Decline(r) \/ End(r)
                               \/ Create(r) \/ Complete(r) \/ GoLive(r)
                               \/ Withdraw(r)
        \/ Cut

Spec == Init /\ [][Next]_vars
\* A request that was taken up is answered, unless the process dies.
FairSpec == Spec /\ \A r \in Requests : WF_vars(End(r))
=============================================================================
