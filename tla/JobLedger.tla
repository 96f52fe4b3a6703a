----------------------------- MODULE JobLedger -----------------------------
(***************************************************************************)
(* What the PageRank queue promises about the record of a job: a submitted *)
(* list of resources never changes, and outcomes are appended one by one,  *)
(* in order, at most one for each resource.  Workers, leases and restarts  *)
(* do not exist at this level.                                             *)
(***************************************************************************)
EXTENDS Naturals, Sequences

CONSTANTS Jobs, Resources, MaxLength

VARIABLES target, results

ledger == <<target, results>>

Lists == UNION {[1 .. n -> Resources] : n \in 1 .. MaxLength}

Init ==
  /\ target = [j \in Jobs |-> <<>>]
  /\ results = [j \in Jobs |-> <<>>]

Submit(j) ==
  /\ target[j] = <<>>
  /\ \E t \in Lists : target' = [target EXCEPT ![j] = t]
  /\ UNCHANGED results

Report(j) ==
  /\ Len(results[j]) < Len(target[j])
  /\ \E outcome \in {"ok", "error"} :
       results' = [results EXCEPT ![j] = Append(@, outcome)]
  /\ UNCHANGED target

Next == \E j \in Jobs : Submit(j) \/ Report(j)

Spec == Init /\ [][Next]_ledger

============================================================================
