---------------------------- MODULE ParallelMap ----------------------------
(***************************************************************************)
(* What mapWithConcurrency promises (the comments at                       *)
(* src/github/snapshot.ts:12-15): every item is worked on exactly once, no *)
(* more than Width at a time; an item that fails takes no other with it;   *)
(* the result has the successful items in the order of the input.  Who     *)
(* takes which item when is left open.                                     *)
(***************************************************************************)
EXTENDS Naturals, Sequences, FiniteSets

CONSTANT Width

VARIABLES
  phase,   \* "idle", "busy" or "returned"
  jobs,    \* the state of each item
  result   \* the items of the result, in order

mapVars == <<phase, jobs, result>>

InState(s) == {i \in DOMAIN jobs : jobs[i] = s}

\* The numbers in I, in order.
Ascending(I) ==
  CHOOSE s \in [1..Cardinality(I) -> I] : \A j, k \in DOMAIN s : j < k => s[j] < s[k]

Init == phase = "idle" /\ jobs = <<>> /\ result = <<>>

Begin ==
  /\ phase = "idle"
  /\ phase' = "busy"
  /\ jobs' \in Seq({"todo", "running"})
  /\ \A I \in SUBSET (DOMAIN jobs') :
       (\A i \in I : jobs'[i] = "running") => Cardinality(I) <= Width
  /\ UNCHANGED result

\* An item settles; whoever worked on it may begin another.
Settle(i) ==
  /\ phase = "busy"
  /\ jobs[i] = "running"
  /\ \E o \in {"ok", "failed"} :
       \/ jobs' = [jobs EXCEPT ![i] = o]
       \/ \E j \in InState("todo") : jobs' = [jobs EXCEPT ![i] = o, ![j] = "running"]
  /\ UNCHANGED <<phase, result>>

Return ==
  /\ phase = "busy"
  /\ InState("todo") \cup InState("running") = {}
  /\ phase' = "returned"
  /\ result' = Ascending(InState("ok"))
  /\ UNCHANGED jobs

Next == Begin \/ Return \/ \E i \in DOMAIN jobs : Settle(i)

Spec == Init /\ [][Next]_mapVars
=============================================================================
