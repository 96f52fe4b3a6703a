------------------------- MODULE PageRankQueueProofs -------------------------
(***************************************************************************)
(* Proofs about PageRankQueue for every number of jobs, owner tokens,      *)
(* processes, admins and resources, and every value of the bounds: types,  *)
(* the record of a job, the limit of running jobs and the freshness of     *)
(* ranks, each with an inductive invariant of its own.                     *)
(***************************************************************************)
EXTENDS PageRankQueue, FiniteSetTheorems, TLAPS

----------------------------------------------------------------------------
(* The inductive invariant *)

\* Where a task stands says how much of the list it has handled.
TaskInv ==
  \A o \in Owners :
    /\ pc[o] \in Working \cup {"claim"} => job[o] \in Jobs /\ status[job[o]] # "absent"
    /\ pc[o] \in Reading \cup {"beat"} => Len(local[o]) < Len(target[job[o]])
    /\ pc[o] = "checkpoint" => Len(local[o]) <= Len(target[job[o]])
    /\ pc[o] \in {"final", "notify"} => Len(local[o]) = Len(target[job[o]])

\* The resources of a request, and what a job looks like before it is created,
\* while it waits and afterwards.
JobInv ==
  /\ \A a \in Admins : stamp[a] # 0 => request[a] \in Requests
  /\ \A j \in Jobs :
       /\ status[j] = "absent" => target[j] = <<>> /\ results[j] = <<>>
       /\ status[j] # "absent" => target[j] \in Requests
       /\ status[j] = "queued" => results[j] = <<>>
       /\ Len(results[j]) <= Len(target[j])

Inv == TypeOK /\ TaskInv /\ JobInv

----------------------------------------------------------------------------
(* What does not change stays well-formed *)

USE DEF Status, Finished, Outcome, Working, PC, Reading, Graph, Snapshot, Blank

LEMMA JobTypesStable == JobTypes /\ UNCHANGED jobVars => JobTypes'
BY DEF JobTypes, jobVars

LEMMA ResourceTypesStable == ResourceTypes /\ UNCHANGED resVars => ResourceTypes'
BY DEF ResourceTypes, resVars

LEMMA RequestTypesStable == RequestTypes /\ UNCHANGED reqVars => RequestTypes'
BY DEF RequestTypes, reqVars

LEMMA TaskTypesStable == TaskTypes /\ UNCHANGED taskVars => TaskTypes'
BY DEF TaskTypes, taskVars

LEMMA HistoryTypesStable == HistoryTypes /\ UNCHANGED histVars => HistoryTypes'
BY DEF HistoryTypes, histVars

LEMMA BoundTypesStable == BoundTypes /\ UNCHANGED boundVars => BoundTypes'
BY DEF BoundTypes, boundVars

LEMMA SettingsStable ==
  UNCHANGED setVars =>
    maxConcurrent' = maxConcurrent /\ maxPending' = maxPending /\ granted' = granted
BY DEF setVars

\* The invariants of tasks and jobs depend on these variables only.
LEMMA TaskInvStable ==
  TaskInv /\ UNCHANGED <<status, target, pc, job, local>> => TaskInv'
BY DEF TaskInv

LEMMA JobInvStable ==
  JobInv /\ UNCHANGED <<status, target, results, stamp, request>> => JobInv'
BY DEF JobInv

LEMMA RequestsType ==
  ASSUME NEW t \in Requests
  PROVE  t \in Seq(Resources) /\ Len(t) >= 1
<1>1. PICK n \in 1 .. MaxLength : t \in [1 .. n -> Resources]
  BY DEF Requests
<1>2. n \in Nat
  BY QueueAssumption
<1>. QED
  BY <1>1, <1>2

LEMMA InitInv == Init => Inv
<1>. SUFFICES ASSUME Init PROVE Inv
  OBVIOUS
<1>1. JobTypes /\ RequestTypes
  BY DEF Init, JobTypes, RequestTypes
<1>2. ResourceTypes
  <2>1. <<1, 0>> \in Graph
    OBVIOUS
  <2>. QED
    BY <2>1 DEF Init, ResourceTypes
<1>3. TypeOK
  <2>1. TaskTypes
    BY DEF Init, TaskTypes
  <2>2. HistoryTypes /\ BoundTypes
    BY DEF Init, HistoryTypes, BoundTypes
  <2>. QED
    BY <1>1, <1>2, <2>1, <2>2 DEF Init, TypeOK
<1>4. TaskInv
  BY DEF Init, TaskInv
<1>5. JobInv
  BY DEF Init, JobInv
<1>. QED
  BY <1>3, <1>4, <1>5 DEF Inv

----------------------------------------------------------------------------
(* Requests, settings and resources *)

USE DEF jobVars, setVars, resVars, reqVars, taskVars, histVars, boundVars

LEMMA RequestInv == Inv /\ Request => Inv'
<1>. SUFFICES ASSUME Inv, NEW a \in Admins,
                     EnqueueIssue(a) \/ EnqueueInsert(a) \/ EnqueueReject(a)
              PROVE  Inv'
  BY DEF Request
<1>. USE DEF Inv, TypeOK
<1>1. CASE EnqueueIssue(a)
  <2>1. PICK t \in Requests : request' = [request EXCEPT ![a] = t]
    BY <1>1 DEF EnqueueIssue
  <2>2. RequestTypes'
    BY <1>1, <2>1, RequestsType DEF EnqueueIssue, RequestTypes
  <2>3. JobInv'
    BY <1>1, <2>1 DEF EnqueueIssue, JobInv, RequestTypes
  <2>. QED
    BY <1>1, <2>2, <2>3, JobTypesStable, ResourceTypesStable, TaskTypesStable,
       HistoryTypesStable, BoundTypesStable, TaskInvStable
    DEF EnqueueIssue
<1>2. CASE EnqueueInsert(a)
  <2>1. PICK j \in Jobs :
          /\ status[j] = "absent"
          /\ status' = [status EXCEPT ![j] = "queued"]
          /\ created' = [created EXCEPT ![j] = stamp[a]]
          /\ target' = [target EXCEPT ![j] = request[a]]
    BY <1>2 DEF EnqueueInsert
  <2>2. request[a] \in Requests
    BY <1>2 DEF EnqueueInsert, JobInv
  <2>3. JobTypes' /\ RequestTypes' /\ HistoryTypes'
    BY <1>2, <2>1, <2>2, RequestsType
    DEF EnqueueInsert, JobTypes, RequestTypes, HistoryTypes
  <2>4. TaskInv'
    BY <1>2, <2>1 DEF EnqueueInsert, TaskInv, JobTypes
  <2>5. JobInv'
    BY <1>2, <2>1, <2>2, RequestsType DEF EnqueueInsert, JobInv, JobTypes, RequestTypes
  <2>. QED
    BY <1>2, <2>3, <2>4, <2>5, ResourceTypesStable, TaskTypesStable, BoundTypesStable
    DEF EnqueueInsert
<1>3. CASE EnqueueReject(a)
  <2>1. RequestTypes'
    BY <1>3 DEF EnqueueReject, RequestTypes
  <2>2. JobInv'
    BY <1>3 DEF EnqueueReject, JobInv, RequestTypes
  <2>. QED
    BY <1>3, <2>1, <2>2, JobTypesStable, ResourceTypesStable, TaskTypesStable,
       HistoryTypesStable, BoundTypesStable, TaskInvStable
    DEF EnqueueReject
<1>. QED
  BY <1>1, <1>2, <1>3

LEMMA SettingsInv == Inv /\ SaveSettings => Inv'
<1>. SUFFICES ASSUME Inv, SaveSettings PROVE Inv'
  OBVIOUS
<1>1. BoundTypes'
  BY DEF Inv, TypeOK, BoundTypes, SaveSettings
<1>. QED
  BY <1>1, JobTypesStable, ResourceTypesStable, RequestTypesStable, TaskTypesStable,
     HistoryTypesStable, TaskInvStable, JobInvStable
  DEF Inv, TypeOK, SaveSettings

LEMMA EditInv == Inv /\ Edit => Inv'
<1>. SUFFICES ASSUME Inv, NEW r \in Resources, Import(r) \/ Repair(r) \/ Delete(r)
              PROVE  Inv'
  BY DEF Edit
<1>1. BoundTypes'
  BY DEF Inv, TypeOK, BoundTypes, Import, Repair, Delete
<1>2. CASE Import(r)
  <2>1. ResourceTypes'
    BY <1>2 DEF Inv, TypeOK, ResourceTypes, Import
  <2>. QED
    BY <1>1, <1>2, <2>1, JobTypesStable, RequestTypesStable, TaskTypesStable,
       HistoryTypesStable, TaskInvStable, JobInvStable
    DEF Inv, TypeOK, Import
<1>3. CASE Repair(r)
  <2>1. PICK v \in Nat, n \in Nat : graph[r] = <<v, n>>
    BY DEF Inv, TypeOK, ResourceTypes
  <2>2. graph' = [graph EXCEPT ![r] = <<v, n + 1>>]
    BY <1>3, <2>1 DEF Inv, TypeOK, ResourceTypes, Repair
  <2>3. ResourceTypes'
    BY <1>3, <2>2 DEF Inv, TypeOK, ResourceTypes, Repair
  <2>. QED
    BY <1>1, <1>3, <2>3, JobTypesStable, RequestTypesStable, TaskTypesStable,
       HistoryTypesStable, TaskInvStable, JobInvStable
    DEF Inv, TypeOK, Repair
<1>4. CASE Delete(r)
  <2>1. ResourceTypes'
    BY <1>4 DEF Inv, TypeOK, ResourceTypes, Delete
  <2>. QED
    BY <1>1, <1>4, <2>1, JobTypesStable, RequestTypesStable, TaskTypesStable,
       HistoryTypesStable, TaskInvStable, JobInvStable
    DEF Inv, TypeOK, Delete
<1>. QED
  BY <1>2, <1>3, <1>4

----------------------------------------------------------------------------
(* Tasks *)

\* A coroutine that goes away satisfies everything asked of a task.
LEMMA LeaveInv ==
  ASSUME Inv, NEW o \in Owners, NEW label \in {"unused", "ended"}, Leave(o, label),
         UNCHANGED <<status, target>>
  PROVE  TaskTypes' /\ TaskInv'
<1>1. TaskTypes'
  BY DEF Inv, TypeOK, TaskTypes, Leave, Goto
<1>2. TaskInv'
  BY DEF Inv, TypeOK, TaskTypes, TaskInv, Leave, Goto
<1>. QED
  BY <1>1, <1>2

\* The resource a task works on is one of its job.
LEMMA CurrentType ==
  ASSUME Inv, NEW o \in Owners, pc[o] \in Reading
  PROVE  job[o] \in Jobs /\ Current(o) \in Resources
<1>1. job[o] \in Jobs /\ Len(local[o]) < Len(target[job[o]])
  BY DEF Inv, TaskInv
<1>2. target[job[o]] \in Seq(Resources) /\ local[o] \in Seq(Outcome)
  BY <1>1 DEF Inv, TypeOK, JobTypes, TaskTypes
<1>3. Len(local[o]) + 1 \in 1 .. Len(target[job[o]])
  BY <1>1, <1>2
<1>. QED
  BY <1>1, <1>2, <1>3 DEF Current

\* Recording an outcome keeps a task within its list.
LEMMA RecordInv ==
  ASSUME Inv, NEW o \in Owners, pc[o] \in Reading, NEW outcome \in Outcome,
         Record(o, outcome), UNCHANGED <<home, job, status, target>>
  PROVE  TaskTypes' /\ TaskInv'
<1>1. grace' \in [Owners -> BOOLEAN]
  BY DEF Record, Issue, Inv, TypeOK, TaskTypes
<1>2. local[o] \in Seq(Outcome) /\ Append(local[o], outcome) \in Seq(Outcome)
      /\ Len(Append(local[o], outcome)) = Len(local[o]) + 1
  BY DEF Inv, TypeOK, TaskTypes
<1>3. local' = [local EXCEPT ![o] = Append(local[o], outcome)]
      /\ pc' = [pc EXCEPT ![o] = "checkpoint"]
      /\ snapshot' = [snapshot EXCEPT ![o] = Blank]
  BY DEF Record, Goto
<1>4. TaskTypes'
  BY <1>1, <1>2, <1>3 DEF Inv, TypeOK, TaskTypes
<1>5. target[job[o]] \in Seq(Resources) /\ Len(local[o]) < Len(target[job[o]])
  BY CurrentType DEF Inv, TypeOK, JobTypes, TaskInv
<1>6. Len(local[o]) + 1 <= Len(target[job[o]])
  BY <1>2, <1>5
<1>7. TaskInv'
  BY <1>2, <1>3, <1>6 DEF Inv, TypeOK, TaskTypes, TaskInv
<1>. QED
  BY <1>4, <1>7

LEMMA ClaimInv ==
  ASSUME Inv, NEW o \in Owners,
         (\E p \in Processes : Poll(p, o)) \/ ClaimSelect(o) \/ ClaimNothing(o) \/ ClaimWrite(o)
  PROVE  Inv'
<1>. USE DEF Inv, TypeOK
<1>1. ASSUME NEW p \in Processes, Poll(p, o) PROVE Inv'
  <2>1. TaskTypes'
    BY <1>1 DEF Poll, Goto, TaskTypes
  <2>2. TaskInv'
    BY <1>1 DEF Poll, Goto, TaskInv, TaskTypes
  <2>. QED
    BY <1>1, <2>1, <2>2, JobTypesStable, ResourceTypesStable, RequestTypesStable,
       HistoryTypesStable, BoundTypesStable, JobInvStable
    DEF Poll
<1>2. CASE ClaimSelect(o)
  <2>1. PICK j \in First(Claimable) : job' = [job EXCEPT ![o] = j]
    BY <1>2 DEF ClaimSelect
  <2>2. j \in Jobs /\ status[j] # "absent"
    BY <2>1 DEF First, Claimable, Queued, Expired, Running
  <2>3. TaskTypes'
    BY <1>2, <2>1, <2>2 DEF ClaimSelect, Goto, TaskTypes
  <2>4. TaskInv'
    BY <1>2, <2>1, <2>2 DEF ClaimSelect, Goto, TaskInv, TaskTypes
  <2>. QED
    BY <1>2, <2>3, <2>4, JobTypesStable, ResourceTypesStable, RequestTypesStable,
       HistoryTypesStable, BoundTypesStable, JobInvStable
    DEF ClaimSelect
<1>3. CASE ClaimNothing(o)
  <2>1. TaskTypes' /\ TaskInv'
    BY <1>3, LeaveInv DEF ClaimNothing
  <2>. QED
    BY <1>3, <2>1, JobTypesStable, ResourceTypesStable, RequestTypesStable,
       HistoryTypesStable, BoundTypesStable, JobInvStable
    DEF ClaimNothing
<1>4. CASE ClaimWrite(o)
  <2>. DEFINE j == job[o]
  <2>1. j \in Jobs /\ status[j] # "absent"
    BY <1>4 DEF ClaimWrite, TaskInv
  <2>2. results[j] \in Seq(Outcome) /\ target[j] \in Seq(Resources)
        /\ Len(results[j]) <= Len(target[j])
    BY <2>1 DEF JobTypes, JobInv
  <2>3. JobTypes'
    BY <1>4, <2>1 DEF ClaimWrite, JobTypes
  <2>4. TaskTypes'
    BY <1>4, <2>1, <2>2 DEF ClaimWrite, TaskTypes, Goto, Continue
  <2>5. TaskInv'
    <3>1. CASE Len(results[j]) < Len(target[j])
      <4>1. pc' = [pc EXCEPT ![o] = "beat"] /\ local' = [local EXCEPT ![o] = results[j]]
            /\ status' = [status EXCEPT ![j] = "running"] /\ UNCHANGED <<target, job>>
        BY <1>4, <3>1 DEF ClaimWrite, Goto, Continue
      <4>. QED
        BY <2>1, <3>1, <4>1 DEF TaskInv, TaskTypes, JobTypes
    <3>2. CASE ~(Len(results[j]) < Len(target[j]))
      <4>1. pc' = [pc EXCEPT ![o] = "final"] /\ local' = [local EXCEPT ![o] = results[j]]
            /\ status' = [status EXCEPT ![j] = "running"] /\ UNCHANGED <<target, job>>
        BY <1>4, <3>2 DEF ClaimWrite, Goto, Continue
      <4>2. pc'[o] = "final" /\ job'[o] = j /\ Len(local'[o]) = Len(target'[j])
            /\ status'[j] # "absent"
        BY <2>1, <2>2, <3>2, <4>1 DEF TaskTypes, JobTypes
      <4>3. ASSUME NEW q \in Owners, q # o
            PROVE  pc'[q] = pc[q] /\ job'[q] = job[q] /\ local'[q] = local[q]
        BY <4>1, <4>3 DEF TaskTypes
      <4>4. \A k \in Jobs : target'[k] = target[k]
                            /\ (status[k] # "absent" => status'[k] # "absent")
        BY <4>1 DEF JobTypes
      <4>. QED
        BY <2>1, <4>2, <4>3, <4>4 DEF TaskInv
    <3>. QED
      BY <3>1, <3>2
  <2>6. JobInv'
    BY <1>4, <2>1 DEF ClaimWrite, JobInv, JobTypes
  <2>. QED
    BY <1>4, <2>3, <2>4, <2>5, <2>6, ResourceTypesStable, RequestTypesStable,
       HistoryTypesStable, BoundTypesStable
    DEF ClaimWrite
<1>. QED
  BY <1>1, <1>2, <1>3, <1>4

LEMMA ReadInv ==
  ASSUME Inv, NEW o \in Owners,
         Beat(o) \/ ReadMeta(o) \/ ReadNodes(o) \/ ReadEdges(o) \/ ResourceFails(o)
  PROVE  Inv'
<1>. USE DEF Inv, TypeOK
<1>1. CASE Beat(o)
  <2>1. JobTypes'
    BY <1>1 DEF Beat, JobTypes
  <2>2. TaskTypes' /\ TaskInv'
    <3>1. CASE Owns(o)
      BY <1>1, <3>1 DEF Beat, Goto, TaskTypes, TaskInv
    <3>2. CASE ~Owns(o)
      BY <1>1, <3>2, LeaveInv DEF Beat
    <3>. QED
      BY <3>1, <3>2
  <2>. QED
    BY <1>1, <2>1, <2>2, ResourceTypesStable, RequestTypesStable,
       HistoryTypesStable, BoundTypesStable, JobInvStable
    DEF Beat
<1>2. CASE ReadMeta(o)
  <2>1. TaskTypes' /\ TaskInv'
    <3>1. CASE version[Current(o)] = 0
      BY <1>2, <3>1, RecordInv DEF ReadMeta
    <3>2. CASE version[Current(o)] # 0
      <4>1. Current(o) \in Resources
        BY <1>2, CurrentType DEF ReadMeta
      <4>2. TaskTypes'
        <5>1. version[Current(o)] \in Nat
          BY <4>1 DEF ResourceTypes
        <5>2. snapshot[o] \in Snapshot
          BY DEF TaskTypes
        <5>3. [snapshot[o] EXCEPT !.version = version[Current(o)]] \in Snapshot
          BY <5>1, <5>2
        <5>4. snapshot' = [snapshot EXCEPT ![o] = [snapshot[o] EXCEPT !.version = version[Current(o)]]]
          BY <1>2, <3>2 DEF ReadMeta
        <5>. QED
          BY <1>2, <3>2, <5>3, <5>4 DEF ReadMeta, Goto, TaskTypes
      <4>3. TaskInv'
        BY <1>2, <3>2 DEF ReadMeta, Goto, TaskTypes, TaskInv
      <4>. QED
        BY <4>2, <4>3
    <3>. QED
      BY <3>1, <3>2
  <2>. QED
    BY <1>2, <2>1, JobTypesStable, ResourceTypesStable, RequestTypesStable,
       HistoryTypesStable, BoundTypesStable, JobInvStable
    DEF ReadMeta
<1>3. CASE ReadNodes(o)
  <2>1. Current(o) \in Resources
    BY <1>3, CurrentType DEF ReadNodes
  <2>2. TaskTypes'
    BY <1>3, <2>1 DEF ReadNodes, Goto, TaskTypes, ResourceTypes
  <2>3. TaskInv'
    BY <1>3 DEF ReadNodes, Goto, TaskTypes, TaskInv
  <2>. QED
    BY <1>3, <2>2, <2>3, JobTypesStable, ResourceTypesStable, RequestTypesStable,
       HistoryTypesStable, BoundTypesStable, JobInvStable
    DEF ReadNodes
<1>4. CASE ReadEdges(o)
  <2>1. Current(o) \in Resources
    BY <1>4, CurrentType DEF ReadEdges
  <2>2. TaskTypes'
    BY <1>4, <2>1 DEF ReadEdges, Goto, Issue, TaskTypes, ResourceTypes
  <2>3. TaskInv'
    BY <1>4 DEF ReadEdges, Goto, TaskTypes, TaskInv
  <2>. QED
    BY <1>4, <2>2, <2>3, JobTypesStable, ResourceTypesStable, RequestTypesStable,
       HistoryTypesStable, BoundTypesStable, JobInvStable
    DEF ReadEdges
<1>5. CASE ResourceFails(o)
  <2>1. TaskTypes' /\ TaskInv'
    BY <1>5, RecordInv DEF ResourceFails
  <2>. QED
    BY <1>5, <2>1, JobTypesStable, ResourceTypesStable, RequestTypesStable,
       HistoryTypesStable, BoundTypesStable, JobInvStable
    DEF ResourceFails
<1>. QED
  BY <1>1, <1>2, <1>3, <1>4, <1>5

LEMMA SaveInv ==
  ASSUME Inv, NEW o \in Owners,
         \/ Publish(o) \/ PublishRejected(o)
         \/ Checkpoint(o) \/ Finish(o) \/ CheckpointRejected(o) \/ Notify(o)
  PROVE  Inv'
<1>. USE DEF Inv, TypeOK
<1>1. CASE Publish(o)
  <2>1. job[o] \in Jobs /\ Current(o) \in Resources
    BY <1>1, CurrentType DEF Publish
  <2>2. TaskTypes' /\ TaskInv'
    BY <1>1, RecordInv DEF Publish
  <2>3. ResourceTypes' /\ HistoryTypes'
    BY <1>1, <2>1 DEF Publish, ResourceTypes, HistoryTypes, TaskTypes
  <2>. QED
    BY <1>1, <2>2, <2>3, JobTypesStable, RequestTypesStable, BoundTypesStable, JobInvStable
    DEF Publish
<1>2. CASE PublishRejected(o)
  <2>1. TaskTypes' /\ TaskInv'
    BY <1>2, RecordInv DEF PublishRejected
  <2>. QED
    BY <1>2, <2>1, JobTypesStable, ResourceTypesStable, RequestTypesStable,
       HistoryTypesStable, BoundTypesStable, JobInvStable
    DEF PublishRejected
<1>3. CASE Checkpoint(o)
  <2>. DEFINE j == job[o]
  <2>1. j \in Jobs /\ local[o] \in Seq(Outcome) /\ target[j] \in Seq(Resources)
        /\ Len(local[o]) <= Len(target[j]) /\ status[j] = "running"
    BY <1>3 DEF Checkpoint, TaskInv, JobTypes, TaskTypes, Owns
  <2>2. JobTypes'
    BY <1>3, <2>1 DEF Checkpoint, JobTypes
  <2>3. grace' \in [Owners -> BOOLEAN]
    BY <1>3 DEF Checkpoint, Issue, TaskTypes
  <2>4. TaskTypes'
    BY <1>3, <2>3 DEF Checkpoint, TaskTypes, Goto, Continue
  <2>5. TaskInv'
    BY <1>3, <2>1 DEF Checkpoint, TaskInv, TaskTypes, Goto, Continue
  <2>6. JobInv'
    BY <1>3, <2>1 DEF Checkpoint, JobInv, JobTypes
  <2>. QED
    BY <1>3, <2>2, <2>4, <2>5, <2>6, ResourceTypesStable, RequestTypesStable,
       HistoryTypesStable, BoundTypesStable
    DEF Checkpoint
<1>4. CASE Finish(o)
  <2>. DEFINE j == job[o]
  <2>1. j \in Jobs /\ local[o] \in Seq(Outcome) /\ Len(local[o]) = Len(target[j])
        /\ status[j] = "running"
    BY <1>4 DEF Finish, TaskInv, TaskTypes, Owns
  <2>2. PICK s \in Finished : status' = [status EXCEPT ![j] = s]
    BY <1>4 DEF Finish
  <2>3. JobTypes'
    BY <1>4, <2>1, <2>2 DEF Finish, JobTypes
  <2>4. TaskTypes'
    BY <1>4 DEF Finish, TaskTypes, Goto
  <2>5. TaskInv'
    BY <1>4, <2>1, <2>2 DEF Finish, TaskInv, TaskTypes, JobTypes, Goto
  <2>6. JobInv'
    <3>1. UNCHANGED <<target, stamp, request>> /\ results' = [results EXCEPT ![j] = local[o]]
      BY <1>4 DEF Finish
    <3>2. Len(local[o]) <= Len(target[j])
      BY <2>1
    <3>. QED
      BY <2>1, <2>2, <3>1, <3>2 DEF JobInv, JobTypes
  <2>. QED
    BY <1>4, <2>3, <2>4, <2>5, <2>6, ResourceTypesStable, RequestTypesStable,
       HistoryTypesStable, BoundTypesStable
    DEF Finish
<1>5. CASE CheckpointRejected(o)
  <2>1. TaskTypes' /\ TaskInv'
    BY <1>5, LeaveInv DEF CheckpointRejected
  <2>. QED
    BY <1>5, <2>1, JobTypesStable, ResourceTypesStable, RequestTypesStable,
       HistoryTypesStable, BoundTypesStable, JobInvStable
    DEF CheckpointRejected
<1>6. CASE Notify(o)
  <2>1. TaskTypes' /\ TaskInv'
    BY <1>6, LeaveInv DEF Notify
  <2>2. HistoryTypes'
    <3>1. job[o] \in Jobs
      BY <1>6 DEF Notify, TaskInv
    <3>. QED
      BY <1>6, <3>1 DEF Notify, HistoryTypes
  <2>. QED
    BY <1>6, <2>1, <2>2, JobTypesStable, ResourceTypesStable, RequestTypesStable,
       BoundTypesStable, JobInvStable
    DEF Notify
<1>. QED
  BY <1>1, <1>2, <1>3, <1>4, <1>5, <1>6

LEMMA LeaseInv ==
  ASSUME Inv,
         \/ \E o \in Owners : KeepAlive(o) \/ Die(o) \/ AbortClaim(o)
         \/ \E j \in Jobs : ExpireOrphan(j) \/ ExpireStalled(j)
  PROVE  Inv'
<1>. USE DEF Inv, TypeOK
<1>1. ASSUME NEW o \in Owners, KeepAlive(o) PROVE Inv'
  <2>1. JobTypes'
    BY <1>1 DEF KeepAlive, JobTypes
  <2>2. TaskTypes' /\ TaskInv'
    <3>1. CASE Owns(o)
      BY <1>1, <3>1, TaskTypesStable, TaskInvStable DEF KeepAlive
    <3>2. CASE ~Owns(o)
      BY <1>1, <3>2, LeaveInv DEF KeepAlive
    <3>. QED
      BY <3>1, <3>2
  <2>. QED
    BY <1>1, <2>1, <2>2, ResourceTypesStable, RequestTypesStable,
       HistoryTypesStable, BoundTypesStable, JobInvStable
    DEF KeepAlive
<1>2. ASSUME NEW o \in Owners, Die(o) \/ AbortClaim(o) PROVE Inv'
  <2>1. TaskTypes' /\ TaskInv'
    BY <1>2, LeaveInv DEF Die, AbortClaim
  <2>2. BoundTypes'
    BY <1>2 DEF Die, AbortClaim, BoundTypes
  <2>. QED
    BY <1>2, <2>1, <2>2, JobTypesStable, ResourceTypesStable, RequestTypesStable,
       HistoryTypesStable, JobInvStable
    DEF Die, AbortClaim
<1>3. ASSUME NEW j \in Jobs, ExpireOrphan(j) \/ ExpireStalled(j) PROVE Inv'
  <2>1. JobTypes'
    BY <1>3 DEF ExpireOrphan, ExpireStalled, JobTypes
  <2>2. BoundTypes'
    BY <1>3 DEF ExpireOrphan, ExpireStalled, BoundTypes
  <2>. QED
    BY <1>3, <2>1, <2>2, ResourceTypesStable, RequestTypesStable, TaskTypesStable,
       HistoryTypesStable, TaskInvStable, JobInvStable
    DEF ExpireOrphan, ExpireStalled
<1>. QED
  BY <1>1, <1>2, <1>3

LEMMA NextInv == Inv /\ [Next]_vars => Inv'
<1>. SUFFICES ASSUME Inv, [Next]_vars PROVE Inv'
  OBVIOUS
<1>1. CASE Request
  BY <1>1, RequestInv
<1>2. CASE SaveSettings
  BY <1>2, SettingsInv
<1>3. CASE Edit
  BY <1>3, EditInv
<1>4. ASSUME NEW o \in Owners, TaskStep(o) PROVE Inv'
  BY <1>4, ClaimInv, ReadInv, SaveInv DEF TaskStep
<1>5. ASSUME NEW o \in Owners, NEW p \in Processes, Poll(p, o) PROVE Inv'
  BY <1>5, ClaimInv
<1>6. CASE \/ \E o \in Owners : KeepAlive(o) \/ Die(o) \/ AbortClaim(o)
           \/ \E j \in Jobs : ExpireOrphan(j) \/ ExpireStalled(j)
  BY <1>6, LeaseInv
<1>7. CASE UNCHANGED vars
  BY <1>7, JobTypesStable, ResourceTypesStable, RequestTypesStable, TaskTypesStable,
     HistoryTypesStable, BoundTypesStable, TaskInvStable, JobInvStable
  DEF Inv, TypeOK, vars
<1>. QED
  BY <1>1, <1>2, <1>3, <1>4, <1>5, <1>6, <1>7 DEF Next

LEMMA Invariance == Spec => []Inv
<1>. QED
  BY InitInv, NextInv, PTL DEF Spec

\* In every reachable state every variable has its shape: the settings stay
\* admissible, a task's resource is one of its job's, and ranks are published only
\* for resources that belong to a job.
THEOREM TypeCorrect == Spec => []TypeOK
<1>1. Inv => TypeOK
  BY DEF Inv
<1>. QED
  BY <1>1, Invariance, PTL

----------------------------------------------------------------------------
(* The record of a PageRank job: stale owners cannot disturb it, a success   *)
(* means that ranks were written, and the whole queue implements the         *)
(* append-only ledger of JobLedger.                                          *)

Succeeded(j, done) ==
  \A i \in DOMAIN done : done[i] = "ok" => <<j, target[j][i]>> \in published

\* The owner of a job knows everything that is saved of it, and at most one
\* outcome more.  A token that was never granted a job owns none.
OwnerKnows(o) ==
  /\ \A j \in Jobs : owner[j] = o => pc[o] \in Working \cup {"ended"}
  /\ pc[o] \in Working /\ Owns(o) =>
       /\ pc[o] \in Reading \cup {"beat", "final"} => local[o] = results[job[o]]
       /\ pc[o] = "checkpoint" =>
            \E outcome \in Outcome : local[o] = Append(results[job[o]], outcome)

OwnersKnow == \A o \in Owners : OwnerKnows(o)

\* What a task counts as a success was published, too, by it or by a former owner.
TasksPublished == \A o \in Owners : pc[o] \in Working => Succeeded(job[o], local[o])

LedgerInv == OwnersKnow /\ TasksPublished /\ SuccessWasPublished /\ FinishedIsComplete

----------------------------------------------------------------------------
(* Steps that leave the record alone *)

HIDE DEF Graph, Snapshot, Blank

\* The four parts depend on these variables only.
LEMMA LedgerStable ==
  LedgerInv /\ UNCHANGED <<status, target, results, owner, pc, job, local, published>>
    => LedgerInv'
BY DEF LedgerInv, OwnersKnow, OwnerKnows, Owns, TasksPublished, Succeeded,
       SuccessWasPublished, FinishedIsComplete

\* A coroutine that goes away leaves nothing to be asked of it.
LEMMA LedgerLeave ==
  ASSUME Inv, LedgerInv, NEW o \in Owners, NEW label \in {"unused", "ended"},
         Leave(o, label), UNCHANGED <<status, target, results, owner, published>>,
         label = "unused" => pc[o] = "poll"
  PROVE  LedgerInv'
<1>1. pc' = [pc EXCEPT ![o] = label] /\ job' = [job EXCEPT ![o] = NoJob]
      /\ local' = [local EXCEPT ![o] = <<>>]
  BY DEF Leave, Goto
<1>2. pc'[o] = label /\ label \notin Working
  BY <1>1 DEF Inv, TypeOK, TaskTypes
<1>3. \A q \in Owners : q # o => pc'[q] = pc[q] /\ job'[q] = job[q] /\ local'[q] = local[q]
  BY <1>1 DEF Inv, TypeOK, TaskTypes
<1>4. OwnersKnow'
  <2>. SUFFICES ASSUME NEW q \in Owners PROVE OwnerKnows(q)'
    BY DEF OwnersKnow
  <2>1. CASE q = o
    <3>1. label = "unused" => \A j \in Jobs : owner[j] # o
      BY DEF LedgerInv, OwnersKnow, OwnerKnows
    <3>. QED
      BY <1>2, <2>1, <3>1 DEF OwnerKnows
  <2>2. CASE q # o
    BY <1>3, <2>2 DEF LedgerInv, OwnersKnow, OwnerKnows, Owns
  <2>. QED
    BY <2>1, <2>2
<1>5. TasksPublished'
  BY <1>2, <1>3 DEF LedgerInv, TasksPublished, Succeeded
<1>. QED
  BY <1>4, <1>5 DEF LedgerInv, SuccessWasPublished, FinishedIsComplete

----------------------------------------------------------------------------
(* The steps that touch the record *)

LEMMA LedgerInit ==
  ASSUME Init
  PROVE  LedgerInv
<1>1. OwnersKnow
  BY QueueAssumption DEF Init, OwnersKnow, OwnerKnows
<1>2. TasksPublished
  BY DEF Init, TasksPublished
<1>3. SuccessWasPublished
  <2>1. \A j \in Jobs : results[j] = <<>>
    BY DEF Init
  <2>. QED
    BY <2>1 DEF SuccessWasPublished
<1>4. FinishedIsComplete
  BY DEF Init, FinishedIsComplete
<1>. QED
  BY <1>1, <1>2, <1>3, <1>4 DEF LedgerInv

\* A new job has no outcomes, no owner that works for it and no tasks.
LEMMA LedgerInsert ==
  ASSUME Inv, LedgerInv, NEW a \in Admins, EnqueueInsert(a)
  PROVE  LedgerInv'
<1>1. PICK j \in Jobs :
        /\ status[j] = "absent"
        /\ status' = [status EXCEPT ![j] = "queued"]
        /\ target' = [target EXCEPT ![j] = request[a]]
  BY DEF EnqueueInsert
<1>2. results[j] = <<>> /\ UNCHANGED <<results, owner, pc, job, local, published>>
  BY <1>1 DEF EnqueueInsert, Inv, JobInv
<1>3. \A o \in Owners : pc[o] \in Working => job[o] \in Jobs /\ job[o] # j
  BY <1>1 DEF Inv, TaskInv
<1>4. \A k \in Jobs : k # j => status'[k] = status[k] /\ target'[k] = target[k]
  BY <1>1 DEF Inv, TypeOK, JobTypes
<1>5. status'[j] = "queued"
  BY <1>1 DEF Inv, TypeOK, JobTypes
<1>6. OwnersKnow'
  BY <1>2, <1>3, <1>4 DEF LedgerInv, OwnersKnow, OwnerKnows, Owns
<1>7. TasksPublished'
  BY <1>2, <1>3, <1>4 DEF LedgerInv, TasksPublished, Succeeded
<1>8. SuccessWasPublished'
  <2>. SUFFICES ASSUME NEW k \in Jobs, NEW i \in DOMAIN results[k], results[k][i] = "ok"
                PROVE  <<k, target'[k][i]>> \in published
    BY <1>2 DEF SuccessWasPublished
  <2>1. k # j
    BY <1>2
  <2>. QED
    BY <1>4, <2>1 DEF LedgerInv, SuccessWasPublished
<1>9. FinishedIsComplete'
  BY <1>2, <1>4, <1>5 DEF LedgerInv, FinishedIsComplete
<1>. QED
  BY <1>6, <1>7, <1>8, <1>9 DEF LedgerInv

\* A task that moves on without an outcome and without a change of the record.
LEMMA LedgerMove ==
  ASSUME Inv, LedgerInv, NEW o \in Owners, NEW label \in PC,
         pc' = [pc EXCEPT ![o] = label],
         \/ pc[o] \in Reading \cup {"beat"} /\ label \in Reading
         \/ pc[o] \in {"unused", "poll"} /\ label \in {"poll", "claim"},
         UNCHANGED <<status, target, results, owner, local, published>>,
         \A q \in Owners : q # o => job'[q] = job[q],
         pc[o] \in Working => job'[o] = job[o]
  PROVE  LedgerInv'
<1>1. pc'[o] = label /\ \A q \in Owners : q # o => pc'[q] = pc[q]
  BY DEF Inv, TypeOK, TaskTypes
<1>2. OwnersKnow'
  <2>. SUFFICES ASSUME NEW q \in Owners PROVE OwnerKnows(q)'
    BY DEF OwnersKnow
  <2>1. CASE q # o
    BY <1>1, <2>1 DEF LedgerInv, OwnersKnow, OwnerKnows, Owns
  <2>2. CASE q = o /\ label \in Reading
    <3>1. pc[o] \in Reading \cup {"beat"}
      BY <2>2
    <3>. QED
      BY <1>1, <2>2, <3>1 DEF LedgerInv, OwnersKnow, OwnerKnows, Owns
  <2>3. CASE q = o /\ label \notin Reading
    <3>1. pc[o] \in {"unused", "poll"} /\ label \in {"poll", "claim"}
      BY <2>3
    <3>2. \A j \in Jobs : owner[j] # o
      BY <3>1 DEF LedgerInv, OwnersKnow, OwnerKnows
    <3>. QED
      BY <1>1, <2>3, <3>1, <3>2 DEF OwnerKnows
  <2>. QED
    BY <2>1, <2>2, <2>3
<1>3. TasksPublished'
  BY <1>1 DEF LedgerInv, TasksPublished, Succeeded
<1>. QED
  BY <1>2, <1>3 DEF LedgerInv, SuccessWasPublished, FinishedIsComplete

\* Taking a job over: the former owner loses it, the new one starts from what is
\* saved.
LEMMA LedgerTake ==
  ASSUME Inv, LedgerInv, NEW o \in Owners, ClaimWrite(o)
  PROVE  LedgerInv'
<1>. DEFINE j == job[o]
<1>1. j \in Jobs /\ pc[o] = "claim"
  BY DEF ClaimWrite, Inv, TaskInv
<1>2. PICK label \in {"beat", "final"} : pc' = [pc EXCEPT ![o] = label]
  BY DEF ClaimWrite, Goto, Continue
<1>3. /\ status' = [status EXCEPT ![j] = "running"]
      /\ owner' = [owner EXCEPT ![j] = o]
      /\ local' = [local EXCEPT ![o] = results[j]]
      /\ UNCHANGED <<target, results, job, published>>
  BY DEF ClaimWrite
<1>4. pc'[o] = label /\ owner'[j] = o /\ local'[o] = results[j] /\ status'[j] = "running"
  BY <1>1, <1>2, <1>3 DEF Inv, TypeOK, TaskTypes, JobTypes
<1>5. \A q \in Owners : q # o => pc'[q] = pc[q] /\ local'[q] = local[q]
  BY <1>2, <1>3 DEF Inv, TypeOK, TaskTypes
<1>6. \A k \in Jobs : k # j => owner'[k] = owner[k] /\ status'[k] = status[k]
  BY <1>3 DEF Inv, TypeOK, JobTypes
<1>7. OwnersKnow'
  <2>. SUFFICES ASSUME NEW q \in Owners PROVE OwnerKnows(q)'
    BY DEF OwnersKnow
  <2>1. CASE q = o
    BY <1>3, <1>4, <2>1 DEF OwnerKnows
  <2>2. CASE q # o
    <3>1. \A k \in Jobs : owner'[k] = q => k # j /\ owner[k] = q
      BY <1>4, <1>6, <2>2
    <3>2. pc'[q] \in Working => job[q] \in Jobs
      BY <1>5, <2>2 DEF Inv, TaskInv
    <3>3. pc'[q] \in Working /\ Owns(q)' => Owns(q) /\ pc[q] \in Working
      BY <1>3, <1>5, <1>6, <2>2, <3>1, <3>2 DEF Owns
    <3>. QED
      BY <1>3, <1>5, <2>2, <3>1, <3>3 DEF LedgerInv, OwnersKnow, OwnerKnows
  <2>. QED
    BY <2>1, <2>2
<1>8. TasksPublished'
  <2>1. Succeeded(j, results[j])
    BY <1>1 DEF LedgerInv, SuccessWasPublished, Succeeded
  <2>. QED
    BY <1>3, <1>4, <1>5, <2>1 DEF LedgerInv, TasksPublished, Succeeded
<1>9. FinishedIsComplete'
  BY <1>3, <1>4, <1>6 DEF LedgerInv, FinishedIsComplete
<1>. QED
  BY <1>3, <1>7, <1>8, <1>9 DEF LedgerInv, SuccessWasPublished

LEMMA AppendElement ==
  ASSUME NEW S, NEW s \in Seq(S), NEW e \in S, NEW i \in DOMAIN Append(s, e)
  PROVE  \/ i \in DOMAIN s /\ Append(s, e)[i] = s[i]
         \/ i = Len(s) + 1 /\ Append(s, e)[i] = e
OBVIOUS

\* An outcome is noted in the coroutine only.
LEMMA LedgerRecord ==
  ASSUME Inv, LedgerInv, NEW o \in Owners, pc[o] \in Reading,
         NEW outcome \in Outcome, Record(o, outcome),
         UNCHANGED <<status, target, results, owner, job>>,
         published \subseteq published',
         outcome = "ok" => <<job[o], Current(o)>> \in published'
  PROVE  LedgerInv'
<1>1. local' = [local EXCEPT ![o] = Append(local[o], outcome)]
      /\ pc' = [pc EXCEPT ![o] = "checkpoint"]
  BY DEF Record, Goto
<1>2. pc'[o] = "checkpoint" /\ local'[o] = Append(local[o], outcome)
  BY <1>1 DEF Inv, TypeOK, TaskTypes
<1>3. \A q \in Owners : q # o => pc'[q] = pc[q] /\ local'[q] = local[q]
  BY <1>1 DEF Inv, TypeOK, TaskTypes
<1>4. OwnersKnow'
  <2>. SUFFICES ASSUME NEW q \in Owners PROVE OwnerKnows(q)'
    BY DEF OwnersKnow
  <2>1. CASE q = o
    <3>1. Owns(o) => local[o] = results[job[o]]
      BY DEF LedgerInv, OwnersKnow, OwnerKnows
    <3>. QED
      BY <1>2, <2>1, <3>1 DEF OwnerKnows, Owns
  <2>2. CASE q # o
    BY <1>3, <2>2 DEF LedgerInv, OwnersKnow, OwnerKnows, Owns
  <2>. QED
    BY <2>1, <2>2
<1>5. TasksPublished'
  <2>1. ASSUME NEW i \in DOMAIN local'[o], local'[o][i] = "ok"
        PROVE  <<job[o], target[job[o]][i]>> \in published'
    <3>1. local[o] \in Seq(Outcome)
      BY DEF Inv, TypeOK, TaskTypes
    <3>2. \/ i \in DOMAIN local[o] /\ local[o][i] = "ok"
          \/ i = Len(local[o]) + 1 /\ outcome = "ok"
      BY <1>2, <2>1, <3>1, AppendElement
    <3>. QED
      BY <3>2 DEF LedgerInv, TasksPublished, Succeeded, Current
  <2>2. ASSUME NEW q \in Owners, pc'[q] \in Working
        PROVE  Succeeded(job[q], local[q])'
    BY <1>3, <2>1, <2>2 DEF LedgerInv, TasksPublished, Succeeded
  <2>. QED
    BY <2>2 DEF TasksPublished, Succeeded
<1>6. SuccessWasPublished'
  BY DEF LedgerInv, SuccessWasPublished
<1>. QED
  BY <1>4, <1>5, <1>6 DEF LedgerInv, FinishedIsComplete

\* Saving progress: the owner's list becomes the record, nobody else's list counts.
LEMMA LedgerSave ==
  ASSUME Inv, LedgerInv, NEW o \in Owners, NEW label \in {"beat", "final", "notify"},
         pc[o] \in {"checkpoint", "final"}, Owns(o),
         pc' = [pc EXCEPT ![o] = label],
         results' = [results EXCEPT ![job[o]] = local[o]],
         UNCHANGED <<target, owner, job, local, published>>,
         \A k \in Jobs : k # job[o] => status'[k] = status[k],
         \/ status'[job[o]] \notin Finished
         \/ /\ Len(local[o]) = Len(target[job[o]])
            /\ status'[job[o]] = "completed"
                 <=> \A i \in DOMAIN local[o] : local[o][i] = "ok"
  PROVE  LedgerInv'
<1>. DEFINE j == job[o]
<1>1. j \in Jobs
  BY DEF Inv, TaskInv
<1>2. results'[j] = local[o] /\ \A k \in Jobs : k # j => results'[k] = results[k]
  BY <1>1 DEF Inv, TypeOK, JobTypes
<1>3. pc'[o] = label /\ \A q \in Owners : q # o => pc'[q] = pc[q]
  BY DEF Inv, TypeOK, TaskTypes
<1>4. OwnersKnow'
  <2>. SUFFICES ASSUME NEW q \in Owners PROVE OwnerKnows(q)'
    BY DEF OwnersKnow
  <2>1. CASE q = o
    BY <1>2, <1>3, <2>1 DEF OwnerKnows, Owns
  <2>2. CASE q # o
    <3>1. pc'[q] \in Working /\ Owns(q)' => job[q] \in Jobs /\ job[q] # j
      BY <1>3, <2>2 DEF Inv, TaskInv, Owns
    <3>. QED
      BY <1>2, <1>3, <2>2, <3>1 DEF LedgerInv, OwnersKnow, OwnerKnows, Owns
  <2>. QED
    BY <2>1, <2>2
<1>5. TasksPublished'
  BY <1>3 DEF LedgerInv, TasksPublished, Succeeded
<1>6. SuccessWasPublished'
  <2>1. Succeeded(j, local[o])
    BY DEF LedgerInv, TasksPublished
  <2>. QED
    BY <1>2, <2>1 DEF LedgerInv, SuccessWasPublished, Succeeded
<1>7. FinishedIsComplete'
  BY <1>1, <1>2 DEF LedgerInv, FinishedIsComplete
<1>. QED
  BY <1>4, <1>5, <1>6, <1>7 DEF LedgerInv

LEMMA LedgerTask ==
  ASSUME Inv, LedgerInv, NEW o \in Owners, TaskStep(o)
  PROVE  LedgerInv'
<1>1. CASE ClaimSelect(o)
  <2>1. \A q \in Owners : q # o => job'[q] = job[q]
    BY <1>1 DEF ClaimSelect, Inv, TypeOK, TaskTypes
  <2>. QED
    BY <1>1, <2>1, LedgerMove DEF ClaimSelect, Goto
<1>2. CASE ClaimNothing(o)
  BY <1>2, LedgerLeave DEF ClaimNothing
<1>3. CASE ClaimWrite(o)
  BY <1>3, LedgerTake
<1>4. CASE Beat(o)
  <2>1. CASE Owns(o)
    BY <1>4, <2>1, LedgerMove DEF Beat, Goto
  <2>2. CASE ~Owns(o)
    BY <1>4, <2>2, LedgerLeave DEF Beat
  <2>. QED
    BY <2>1, <2>2
<1>5. CASE ReadMeta(o)
  <2>1. CASE version[Current(o)] = 0
    BY <1>5, <2>1, LedgerRecord DEF ReadMeta
  <2>2. CASE version[Current(o)] # 0
    BY <1>5, <2>2, LedgerMove DEF ReadMeta, Goto
  <2>. QED
    BY <2>1, <2>2
<1>6. CASE ReadNodes(o) \/ ReadEdges(o)
  BY <1>6, LedgerMove DEF ReadNodes, ReadEdges, Goto
<1>7. CASE ResourceFails(o) \/ PublishRejected(o)
  BY <1>7, LedgerRecord DEF ResourceFails, PublishRejected
<1>8. CASE Publish(o)
  <2>1. published \subseteq published' /\ <<job[o], Current(o)>> \in published'
    BY <1>8 DEF Publish
  <2>2. PICK outcome \in Outcome : Record(o, outcome)
    BY <1>8 DEF Publish
  <2>. QED
    BY <1>8, <2>1, <2>2, LedgerRecord DEF Publish
<1>9. CASE Checkpoint(o)
  <2>1. PICK label \in {"beat", "final"} : pc' = [pc EXCEPT ![o] = label]
    BY <1>9 DEF Checkpoint, Goto, Continue
  <2>2. status'[job[o]] \notin Finished
    BY <1>9 DEF Checkpoint, Owns
  <2>. QED
    BY <1>9, <2>1, <2>2, LedgerSave DEF Checkpoint
<1>10. CASE Finish(o)
  <2>1. job[o] \in Jobs /\ Len(local[o]) = Len(target[job[o]])
    BY <1>10 DEF Finish, Inv, TaskInv
  <2>2. /\ \A k \in Jobs : k # job[o] => status'[k] = status[k]
        /\ status'[job[o]] = "completed"
             <=> \A i \in DOMAIN local[o] : local[o][i] = "ok"
    BY <1>10, <2>1 DEF Finish, Inv, TypeOK, JobTypes
  <2>. QED
    BY <1>10, <2>1, <2>2, LedgerSave DEF Finish, Goto
<1>11. CASE CheckpointRejected(o)
  BY <1>11, LedgerLeave DEF CheckpointRejected
<1>12. CASE Notify(o)
  BY <1>12, LedgerLeave DEF Notify
<1>. QED
  BY <1>1, <1>2, <1>3, <1>4, <1>5, <1>6, <1>7, <1>8, <1>9, <1>10, <1>11, <1>12
  DEF TaskStep

LEMMA LedgerNext == Inv /\ LedgerInv /\ [Next]_vars => LedgerInv'
<1>. SUFFICES ASSUME Inv, LedgerInv, [Next]_vars PROVE LedgerInv'
  OBVIOUS
<1>1. ASSUME NEW a \in Admins, EnqueueInsert(a) PROVE LedgerInv'
  BY <1>1, LedgerInsert
<1>2. ASSUME NEW a \in Admins, EnqueueIssue(a) \/ EnqueueReject(a) PROVE LedgerInv'
  BY <1>2, LedgerStable DEF EnqueueIssue, EnqueueReject
<1>3. CASE SaveSettings
  BY <1>3, LedgerStable DEF SaveSettings
<1>4. CASE Edit
  BY <1>4, LedgerStable DEF Edit, Import, Repair, Delete
<1>5. ASSUME NEW o \in Owners, TaskStep(o) PROVE LedgerInv'
  BY <1>5, LedgerTask
<1>6. ASSUME NEW o \in Owners, KeepAlive(o) PROVE LedgerInv'
  <2>1. CASE Owns(o)
    BY <1>6, <2>1, LedgerStable DEF KeepAlive
  <2>2. CASE ~Owns(o)
    BY <1>6, <2>2, LedgerLeave DEF KeepAlive
  <2>. QED
    BY <2>1, <2>2
<1>7. ASSUME NEW o \in Owners, Die(o) \/ AbortClaim(o) PROVE LedgerInv'
  BY <1>7, LedgerLeave DEF Die, AbortClaim
<1>8. ASSUME NEW o \in Owners, NEW p \in Processes, Poll(p, o) PROVE LedgerInv'
  BY <1>8, LedgerMove DEF Poll, Goto
<1>9. ASSUME NEW j \in Jobs, ExpireOrphan(j) \/ ExpireStalled(j) PROVE LedgerInv'
  BY <1>9, LedgerStable DEF ExpireOrphan, ExpireStalled
<1>10. CASE UNCHANGED vars
  BY <1>10, LedgerStable DEF vars
<1>. QED
  BY <1>1, <1>2, <1>3, <1>4, <1>5, <1>6, <1>7, <1>8, <1>9, <1>10 DEF Next, Request

LEMMA LedgerInvariance == Spec => []LedgerInv
BY LedgerInit, LedgerNext, Invariance, PTL DEF Spec

----------------------------------------------------------------------------
(* Theorems *)

\* A job counts a success for a resource only if the ranks of that resource were
\* written for that job, whoever computed them and however often the job changed
\* hands (publish raises when it writes nothing, checkpoint replaces the list only
\* for the owner).
THEOREM SuccessIsTrue == Spec => []SuccessWasPublished
<1>1. LedgerInv => SuccessWasPublished
  BY DEF LedgerInv
<1>. QED
  BY <1>1, LedgerInvariance, PTL

\* A job that left the queue has an outcome for every resource, and "completed"
\* means that all of them are successes (the last checkpoint of process_job).
THEOREM FinishedIsFinal == Spec => []FinishedIsComplete
<1>1. LedgerInv => FinishedIsComplete
  BY DEF LedgerInv
<1>. QED
  BY <1>1, LedgerInvariance, PTL

\* A checkpoint of the owner adds nothing to the record or one outcome that is missing.
LEMMA SaveReports ==
  ASSUME Inv, LedgerInv, NEW o \in Owners, Checkpoint(o) \/ Finish(o)
  PROVE  [Ledger!Next]_(Ledger!ledger)
<1>. DEFINE j == job[o]
<1>1. j \in Jobs /\ results[j] \in Seq(Outcome) /\ Len(local[o]) <= Len(target[j])
      /\ target[j] \in Seq(Resources) /\ local[o] \in Seq(Outcome)
  BY DEF Checkpoint, Finish, Inv, TaskInv, TypeOK, JobTypes, TaskTypes
<1>2. UNCHANGED target /\ results' = [results EXCEPT ![j] = local[o]]
  BY DEF Checkpoint, Finish
<1>3. CASE Finish(o)
  <2>1. local[o] = results[j]
    BY <1>3 DEF Finish, LedgerInv, OwnersKnow, OwnerKnows
  <2>2. results' = results
    BY <1>2, <2>1 DEF Inv, TypeOK, JobTypes
  <2>. QED
    BY <1>2, <2>2 DEF Ledger!ledger
<1>4. CASE Checkpoint(o)
  <2>1. PICK outcome \in Outcome : local[o] = Append(results[j], outcome)
    BY <1>4 DEF Checkpoint, LedgerInv, OwnersKnow, OwnerKnows
  <2>2. Len(results[j]) < Len(target[j])
    BY <1>1, <2>1
  <2>3. results' = [results EXCEPT ![j] = Append(@, outcome)]
    BY <1>2, <2>1
  <2>4. Ledger!Report(j)
    BY <1>2, <2>2, <2>3 DEF Ledger!Report
  <2>. QED
    BY <1>1, <2>4 DEF Ledger!Next
<1>. QED
  BY <1>3, <1>4

LEMMA StepsReport == Inv /\ LedgerInv /\ [Next]_vars => [Ledger!Next]_(Ledger!ledger)
<1>. SUFFICES ASSUME Inv, LedgerInv, [Next]_vars PROVE [Ledger!Next]_(Ledger!ledger)
  OBVIOUS
<1>1. ASSUME NEW a \in Admins, EnqueueInsert(a) PROVE [Ledger!Next]_(Ledger!ledger)
  <2>1. PICK j \in Jobs : status[j] = "absent" /\ target' = [target EXCEPT ![j] = request[a]]
    BY <1>1 DEF EnqueueInsert
  <2>2. request[a] \in Ledger!Lists
    BY <1>1 DEF EnqueueInsert, Inv, JobInv, Requests, Ledger!Lists
  <2>3. target[j] = <<>> /\ UNCHANGED results
    BY <1>1, <2>1 DEF EnqueueInsert, Inv, JobInv
  <2>4. Ledger!Submit(j)
    BY <2>1, <2>2, <2>3 DEF Ledger!Submit
  <2>. QED
    BY <2>4 DEF Ledger!Next
<1>2. ASSUME NEW o \in Owners, Checkpoint(o) \/ Finish(o)
      PROVE  [Ledger!Next]_(Ledger!ledger)
  BY <1>2, SaveReports
<1>3. CASE UNCHANGED <<target, results>>
  BY <1>3 DEF Ledger!ledger
<1>4. CASE \/ SaveSettings \/ Edit
           \/ \E a \in Admins : EnqueueIssue(a) \/ EnqueueReject(a)
           \/ \E j \in Jobs : ExpireOrphan(j) \/ ExpireStalled(j)
  BY <1>3, <1>4 DEF SaveSettings, Edit, Import, Repair, Delete, EnqueueIssue,
                    EnqueueReject, ExpireOrphan, ExpireStalled
<1>5. ASSUME NEW o \in Owners,
             \/ ClaimSelect(o) \/ ClaimNothing(o) \/ ClaimWrite(o) \/ Beat(o)
             \/ ReadMeta(o) \/ ReadNodes(o) \/ ReadEdges(o) \/ ResourceFails(o)
             \/ Publish(o) \/ PublishRejected(o) \/ CheckpointRejected(o) \/ Notify(o)
             \/ KeepAlive(o) \/ Die(o) \/ AbortClaim(o)
             \/ \E p \in Processes : Poll(p, o)
      PROVE  UNCHANGED <<target, results>>
  BY <1>5 DEF ClaimSelect, ClaimNothing, ClaimWrite, Beat, ReadMeta, ReadNodes,
              ReadEdges, ResourceFails, Publish, PublishRejected,
              CheckpointRejected, Notify, KeepAlive, Die, AbortClaim, Poll
<1>6. CASE UNCHANGED vars
  BY <1>3, <1>6 DEF vars
<1>. QED
  BY <1>1, <1>2, <1>3, <1>4, <1>5, <1>6 DEF Next, Request, TaskStep

\* Whatever workers, leases, crashes and imports do, towards the admin a job is an
\* append-only ledger of at most one outcome for each resource.
THEOREM ImplementsLedger == Spec => LedgerSpec
<1>1. Init => Ledger!Init
  BY DEF Init, Ledger!Init
<1>. QED
  BY <1>1, StepsReport, Invariance, LedgerInvariance, PTL DEF Spec, LedgerSpec, Ledger!Spec

----------------------------------------------------------------------------
(* The limit of concurrent PageRank jobs.  A claim counts only the leases    *)
(* that are live, and a heartbeat revives an expired lease without asking,   *)
(* so the count alone does not bound the running jobs.  What does is the     *)
(* order: an expired job is older than every queued one, so a claim that     *)
(* takes a queued job has found no expired job at all.                       *)

Created == {j \in Jobs : status[j] # "absent"}

\* Every enqueue has an instant of its own.
StampInv ==
  /\ clock # 0
  /\ \A a \in Admins : stamp[a] < clock
  /\ \A a, b \in Admins : stamp[a] # 0 /\ stamp[a] = stamp[b] => a = b
  /\ \A j \in Created : created[j] # 0 /\ created[j] < clock
  /\ \A j \in Created, a \in Admins : created[j] # stamp[a]
  /\ \A j, k \in Created : created[j] = created[k] => j = k

\* Claims exclude each other, and what a claim has chosen is the oldest.
ClaimsInv ==
  \A o \in Owners : pc[o] = "claim" =>
    /\ \A q \in Owners : pc[q] = "claim" => q = o
    /\ \A k \in Queued : k # job[o] => created[job[o]] < created[k]

\* Running jobs are older than waiting ones.
OrderInv == ~overtaken => \A j \in Running, k \in Queued : created[j] < created[k]

LimitInv ==
  StampInv /\ ClaimsInv /\ OrderInv /\ LimitKept /\ maxConcurrent <= granted

\* What is shown of every step.
LimitStep == LimitInv' /\ TakeWithinLimit

----------------------------------------------------------------------------

LEMMA TakenFinite ==
  Inv => /\ Taken \subseteq Jobs
         /\ IsFiniteSet(Taken)
         /\ Cardinality(Taken) \in Nat
<1>. SUFFICES ASSUME Inv PROVE Taken \subseteq Jobs
  BY QueueAssumption, FS_Subset, FS_CardinalityType
<1>. QED
  BY DEF Taken, Running, Inv, TaskInv

LEMMA SettingsAreNat == Inv => maxConcurrent \in Nat \ {0} /\ granted \in Nat \ {0}
BY QueueAssumption DEF Inv, TypeOK

\* When no more jobs are taken than before, their number does not grow.
LEMMA TakenShrinks ==
  ASSUME Inv, Inv', Taken' \subseteq Taken
  PROVE  /\ Cardinality(Taken') <= Cardinality(Taken)
         /\ TakeWithinLimit
<1>1. Cardinality(Taken') <= Cardinality(Taken)
  BY TakenFinite, FS_Subset
<1>2. Cardinality(Taken') \in Nat /\ Cardinality(Taken) \in Nat
  <2>1. IsFiniteSet(Taken')
    BY TakenFinite, FS_Subset
  <2>. QED
    BY <2>1, TakenFinite, FS_CardinalityType
<1>. QED
  BY <1>1, <1>2 DEF TakeWithinLimit

\* Steps that create, claim and admit nothing.
LEMMA LimitQuiet ==
  ASSUME Inv, Inv', LimitInv,
         Running' \subseteq Running, Queued' = Queued, Created' = Created,
         \A o \in Owners : pc'[o] = "claim" => pc[o] = "claim" /\ job'[o] = job[o],
         UNCHANGED <<created, stamp, clock, overtaken, maxConcurrent, granted>>
  PROVE  LimitStep
<1>1. Taken' \subseteq Taken
  BY DEF Taken
<1>2. Cardinality(Taken') <= Cardinality(Taken) /\ TakeWithinLimit
  BY <1>1, TakenShrinks
<1>3. LimitKept'
  <2>1. ~overtaken => Cardinality(Taken) <= granted
    BY DEF LimitInv, LimitKept
  <2>2. ~overtaken => Cardinality(Taken') <= granted
    <3>1. Cardinality(Taken) \in Nat /\ granted \in Nat
      BY TakenFinite, SettingsAreNat
    <3>2. Cardinality(Taken') \in Nat
      BY <3>1, <1>1, TakenFinite, FS_Subset, FS_CardinalityType
    <3>. QED
      BY <1>2, <2>1, <3>1, <3>2
  <2>. QED
    BY <2>2 DEF LimitKept
<1>4. StampInv'
  BY DEF LimitInv, StampInv
<1>5. ClaimsInv'
  BY DEF LimitInv, ClaimsInv
<1>6. OrderInv'
  BY DEF LimitInv, OrderInv
<1>. QED
  BY <1>2, <1>3, <1>4, <1>5, <1>6 DEF LimitStep, LimitInv

LEMMA LimitInit == Init => LimitInv
<1>. SUFFICES ASSUME Init PROVE LimitInv
  OBVIOUS
<1>1. Taken = {} /\ Created = {} /\ Running = {} /\ Queued = {}
  BY DEF Init, Taken, Created, Running, Queued
<1>2. maxConcurrent \in Nat /\ granted = maxConcurrent /\ Cardinality(Taken) = 0
  BY <1>1, FS_EmptySet, QueueAssumption DEF Init
<1>3. LimitKept
  BY <1>2 DEF LimitKept
<1>4. StampInv
  BY <1>1 DEF Init, StampInv
<1>5. ClaimsInv /\ OrderInv
  BY <1>1 DEF Init, ClaimsInv, OrderInv
<1>. QED
  BY <1>2, <1>3, <1>4, <1>5 DEF LimitInv

----------------------------------------------------------------------------
(* The steps that create, admit and claim *)

LEMMA LimitIssue ==
  ASSUME Inv, Inv', LimitInv, NEW a \in Admins, EnqueueIssue(a)
  PROVE  LimitStep
<1>1. clock' = clock + 1 /\ stamp' = [stamp EXCEPT ![a] = clock] /\ clock \in Nat
  BY DEF EnqueueIssue, Inv, TypeOK, RequestTypes
<1>2. UNCHANGED <<status, created, pc, job, live, overtaken, maxConcurrent, granted>>
  BY DEF EnqueueIssue
<1>3. stamp'[a] = clock /\ \A b \in Admins : b # a => stamp'[b] = stamp[b]
  BY <1>1 DEF Inv, TypeOK, RequestTypes
<1>4. \A b \in Admins : stamp[b] \in Nat
  BY DEF Inv, TypeOK, RequestTypes
<1>5. \A j \in Created : created[j] \in Nat
  BY DEF Created, Inv, TypeOK, JobTypes
<1>6. StampInv'
  <2>1. Created' = Created /\ UNCHANGED created
    BY <1>2 DEF Created
  <2>2. clock' # 0 /\ \A b \in Admins : stamp'[b] < clock'
    BY <1>1, <1>3, <1>4 DEF LimitInv, StampInv
  <2>3. \A b, c \in Admins : stamp'[b] # 0 /\ stamp'[b] = stamp'[c] => b = c
    BY <1>1, <1>3, <1>4 DEF LimitInv, StampInv
  <2>4. \A j \in Created : created[j] # 0 /\ created[j] < clock'
    BY <1>1, <1>5 DEF LimitInv, StampInv
  <2>5. \A j \in Created, b \in Admins : created[j] # stamp'[b]
    BY <1>1, <1>3, <1>5 DEF LimitInv, StampInv
  <2>6. \A j, k \in Created : created[j] = created[k] => j = k
    BY DEF LimitInv, StampInv
  <2>. QED
    BY <2>1, <2>2, <2>3, <2>4, <2>5, <2>6 DEF StampInv
<1>7. Taken' = Taken /\ Running' = Running /\ Queued' = Queued
  BY <1>2 DEF Taken, Running, Queued
<1>8. ClaimsInv' /\ OrderInv' /\ LimitKept' /\ maxConcurrent' <= granted'
  BY <1>2, <1>7 DEF LimitInv, ClaimsInv, OrderInv, LimitKept
<1>9. TakeWithinLimit
  BY <1>7, TakenShrinks
<1>. QED
  BY <1>6, <1>8, <1>9 DEF LimitStep, LimitInv

\* An insertion is not overtaken if its instant is later than those of all running jobs.
LEMMA LimitInsert ==
  ASSUME Inv, Inv', LimitInv, NEW a \in Admins, EnqueueInsert(a)
  PROVE  LimitStep
<1>1. PICK j \in Jobs :
        /\ status[j] = "absent"
        /\ status' = [status EXCEPT ![j] = "queued"]
        /\ created' = [created EXCEPT ![j] = stamp[a]]
  BY DEF EnqueueInsert
<1>2. /\ stamp[a] # 0 /\ stamp' = [stamp EXCEPT ![a] = 0]
      /\ overtaken' = (overtaken \/ \E k \in Running : created[k] > stamp[a])
      /\ UNCHANGED <<clock, pc, job, maxConcurrent, granted>>
      /\ \A o \in Owners : pc[o] # "claim"
  BY DEF EnqueueInsert, QueueFree
<1>3. /\ created'[j] = stamp[a] /\ \A k \in Jobs : k # j => created'[k] = created[k]
      /\ stamp'[a] = 0 /\ \A b \in Admins : b # a => stamp'[b] = stamp[b]
  BY <1>1, <1>2 DEF Inv, TypeOK, JobTypes, RequestTypes
<1>4. /\ Running' = Running /\ Queued' = Queued \cup {j} /\ Created' = Created \cup {j}
      /\ j \notin Created /\ Running \subseteq Created /\ Queued \subseteq Created
      /\ Created \subseteq Jobs
  BY <1>1 DEF Running, Queued, Created, Inv, TypeOK, JobTypes
<1>5. stamp[a] \in Nat /\ \A k \in Created : created[k] \in Nat
  BY DEF Created, Inv, TypeOK, JobTypes, RequestTypes
<1>6. StampInv'
  <2>1. clock' # 0 /\ \A b \in Admins : stamp'[b] < clock'
    BY <1>2, <1>3, <1>5 DEF LimitInv, StampInv, Inv, TypeOK, RequestTypes
  <2>2. \A b, c \in Admins : stamp'[b] # 0 /\ stamp'[b] = stamp'[c] => b = c
    BY <1>3 DEF LimitInv, StampInv
  <2>3. \A k \in Created' : created'[k] # 0 /\ created'[k] < clock'
    BY <1>2, <1>3, <1>4 DEF LimitInv, StampInv
  <2>4. \A k \in Created', b \in Admins : created'[k] # stamp'[b]
    BY <1>2, <1>3, <1>4 DEF LimitInv, StampInv
  <2>5. \A k, i \in Created' : created'[k] = created'[i] => k = i
    BY <1>3, <1>4 DEF LimitInv, StampInv
  <2>. QED
    BY <2>1, <2>2, <2>3, <2>4, <2>5 DEF StampInv
<1>7. OrderInv'
  <2>. SUFFICES ASSUME ~overtaken', NEW i \in Running, NEW k \in Queued \cup {j}
                PROVE  created'[i] < created'[k]
    BY <1>4 DEF OrderInv
  <2>1. ~overtaken /\ ~(created[i] > stamp[a]) /\ created[i] # stamp[a]
    BY <1>2, <1>4 DEF LimitInv, StampInv
  <2>2. i \in Created /\ i # j
    BY <1>4
  <2>3. CASE k = j
    BY <1>3, <1>4, <1>5, <2>1, <2>2, <2>3
  <2>4. CASE k # j
    BY <1>3, <1>4, <2>1, <2>2, <2>4 DEF LimitInv, OrderInv
  <2>. QED
    BY <2>3, <2>4
<1>8. Taken' = Taken
  BY <1>2, <1>4 DEF Taken
<1>9. ClaimsInv' /\ LimitKept' /\ maxConcurrent' <= granted'
  BY <1>2, <1>8 DEF LimitInv, ClaimsInv, LimitKept
<1>. QED
  BY <1>6, <1>7, <1>8, <1>9, TakenShrinks DEF LimitStep, LimitInv

LEMMA LimitReject ==
  ASSUME Inv, Inv', LimitInv, NEW a \in Admins, EnqueueReject(a)
  PROVE  LimitStep
<1>1. /\ stamp' = [stamp EXCEPT ![a] = 0]
      /\ UNCHANGED <<clock, status, created, pc, job, overtaken, maxConcurrent, granted>>
  BY DEF EnqueueReject
<1>2. stamp'[a] = 0 /\ \A b \in Admins : b # a => stamp'[b] = stamp[b]
  BY <1>1 DEF Inv, TypeOK, RequestTypes
<1>3. Taken' = Taken /\ Running' = Running /\ Queued' = Queued /\ Created' = Created
  BY <1>1 DEF Taken, Running, Queued, Created
<1>4. StampInv'
  BY <1>1, <1>2, <1>3 DEF LimitInv, StampInv, Inv, TypeOK, RequestTypes
<1>5. ClaimsInv' /\ OrderInv' /\ LimitKept' /\ maxConcurrent' <= granted'
  BY <1>1, <1>3 DEF LimitInv, ClaimsInv, OrderInv, LimitKept
<1>. QED
  BY <1>3, <1>4, <1>5, TakenShrinks DEF LimitStep, LimitInv

LEMMA LimitSettings ==
  ASSUME Inv, Inv', LimitInv, SaveSettings
  PROVE  LimitStep
<1>1. UNCHANGED <<status, created, stamp, clock, pc, job, overtaken>>
  BY DEF SaveSettings
<1>2. Taken' = Taken /\ Running' = Running /\ Queued' = Queued /\ Created' = Created
  BY <1>1 DEF Taken, Running, Queued, Created
<1>3. granted \in Nat /\ granted' \in Nat /\ maxConcurrent' \in Nat
  BY QueueAssumption DEF Inv, TypeOK
<1>4. maxConcurrent' <= granted' /\ granted <= granted'
  BY <1>3 DEF SaveSettings
<1>5. LimitKept'
  BY <1>1, <1>2, <1>3, <1>4, TakenFinite DEF LimitInv, LimitKept
<1>6. StampInv' /\ ClaimsInv' /\ OrderInv'
  BY <1>1, <1>2 DEF LimitInv, StampInv, ClaimsInv, OrderInv
<1>. QED
  BY <1>2, <1>4, <1>5, <1>6, TakenShrinks DEF LimitStep, LimitInv

\* A claim that finds an expired job takes it, and no more jobs are taken than
\* before; one that takes a queued job has found none, so that every running job
\* is among the live leases it counted.
LEMMA LimitSelect ==
  ASSUME Inv, Inv', LimitInv, NEW o \in Owners, ClaimSelect(o)
  PROVE  LimitStep
<1>1. PICK j \in First(Claimable) : job' = [job EXCEPT ![o] = j]
  BY DEF ClaimSelect
<1>2. /\ pc[o] = "poll" /\ pc' = [pc EXCEPT ![o] = "claim"]
      /\ \A q \in Owners : pc[q] # "claim"
      /\ Cardinality(Active) < maxConcurrent
      /\ UNCHANGED <<status, created, live, stamp, clock, overtaken, maxConcurrent, granted>>
  BY DEF ClaimSelect, Goto, QueueFree
<1>3. job'[o] = j /\ pc'[o] = "claim" /\ \A q \in Owners : q # o => pc'[q] # "claim"
  BY <1>1, <1>2 DEF Inv, TypeOK, TaskTypes
<1>4. /\ j \in Queued \cup Expired /\ j \in Created
      /\ \A k \in Queued \cup Expired : created[j] <= created[k]
      /\ Queued \cup Running \subseteq Created /\ Created \subseteq Jobs
      /\ Expired \subseteq Running /\ Queued \subseteq Jobs
  BY DEF First, Claimable, Queued, Expired, Running, Created
<1>5. Running' = Running /\ Queued' = Queued /\ Created' = Created
  BY <1>2 DEF Running, Queued, Created
<1>6. Taken = Running /\ Taken' = Running \cup {j}
  BY <1>2, <1>3, <1>5 DEF Taken
<1>7. \A k \in Created : created[k] \in Nat
  BY <1>4 DEF Inv, TypeOK, JobTypes
<1>8. ClaimsInv'
  <2>1. \A k \in Queued : k # j => created[j] < created[k]
    BY <1>4, <1>7 DEF LimitInv, StampInv
  <2>. QED
    BY <1>2, <1>3, <1>5, <2>1 DEF ClaimsInv
<1>9. StampInv' /\ OrderInv' /\ maxConcurrent' <= granted'
  BY <1>2, <1>5 DEF LimitInv, StampInv, OrderInv
<1>10. LimitKept' /\ TakeWithinLimit
  <2>1. CASE j \in Running
    <3>1. Taken' = Taken
      BY <1>6, <2>1
    <3>. QED
      BY <1>2, <3>1, TakenShrinks DEF LimitInv, LimitKept
  <2>2. CASE j \notin Running /\ ~overtaken
    <3>1. j \in Queued
      BY <1>4, <2>2
    <3>2. Expired = {}
      <4>. SUFFICES ASSUME NEW k \in Expired PROVE FALSE
        OBVIOUS
      <4>1. created[k] < created[j]
        BY <1>4, <2>2, <3>1 DEF LimitInv, OrderInv
      <4>2. created[j] <= created[k]
        BY <1>4
      <4>. QED
        BY <1>4, <1>7, <4>1, <4>2
    <3>3. Active = Running
      BY <3>2 DEF Active, Expired
    <3>4. Cardinality(Taken) < maxConcurrent /\ Cardinality(Taken) \in Nat
          /\ maxConcurrent \in Nat /\ granted \in Nat
      BY <1>2, <1>6, <3>3, TakenFinite, SettingsAreNat
    <3>5. Cardinality(Taken') = Cardinality(Taken) + 1
      BY <1>6, <2>2, TakenFinite, FS_AddElement
    <3>6. Cardinality(Taken') <= maxConcurrent' /\ Cardinality(Taken') <= granted'
      BY <1>2, <3>4, <3>5 DEF LimitInv
    <3>. QED
      BY <3>6 DEF LimitKept, TakeWithinLimit
  <2>3. CASE overtaken
    BY <1>2, <2>3 DEF LimitKept, TakeWithinLimit
  <2>. QED
    BY <2>1, <2>2, <2>3
<1>. QED
  BY <1>8, <1>9, <1>10 DEF LimitStep, LimitInv

LEMMA LimitWrite ==
  ASSUME Inv, Inv', LimitInv, NEW o \in Owners, ClaimWrite(o)
  PROVE  LimitStep
<1>. DEFINE j == job[o]
<1>1. PICK label \in {"beat", "final"} : pc' = [pc EXCEPT ![o] = label]
  BY DEF ClaimWrite, Goto, Continue
<1>2. /\ pc[o] = "claim" /\ status' = [status EXCEPT ![j] = "running"]
      /\ UNCHANGED <<job, created, stamp, clock, overtaken, maxConcurrent, granted>>
      /\ j \in Jobs /\ j \in Created
  BY DEF ClaimWrite, Inv, TaskInv, Created
<1>3. \A q \in Owners : pc'[q] # "claim"
  BY <1>1, <1>2 DEF LimitInv, ClaimsInv, Inv, TypeOK, TaskTypes
<1>4. /\ Running' = Running \cup {j} /\ Queued' = Queued \ {j} /\ Created' = Created
      /\ Running \subseteq Created /\ Queued \subseteq Created
  BY <1>2 DEF Running, Queued, Created, Inv, TypeOK, JobTypes
<1>5. Taken' \subseteq Taken
  BY <1>2, <1>3, <1>4 DEF Taken
<1>6. StampInv'
  BY <1>2, <1>4 DEF LimitInv, StampInv
<1>7. ClaimsInv'
  BY <1>3 DEF ClaimsInv
<1>8. OrderInv'
  BY <1>2, <1>4 DEF LimitInv, ClaimsInv, OrderInv
<1>9. LimitKept'
  <2>1. Cardinality(Taken') <= Cardinality(Taken) /\ IsFiniteSet(Taken')
    BY <1>5, TakenShrinks, TakenFinite, FS_Subset
  <2>2. Cardinality(Taken') \in Nat /\ Cardinality(Taken) \in Nat /\ granted \in Nat
    BY <2>1, TakenFinite, SettingsAreNat, FS_CardinalityType
  <2>. QED
    BY <1>2, <2>1, <2>2 DEF LimitInv, LimitKept
<1>. QED
  BY <1>2, <1>5, <1>6, <1>7, <1>8, <1>9, TakenShrinks DEF LimitStep, LimitInv

LEMMA LimitNext == Inv /\ Inv' /\ LimitInv /\ [Next]_vars => LimitStep
<1>. SUFFICES ASSUME Inv, Inv', LimitInv, [Next]_vars PROVE LimitStep
  OBVIOUS
<1>1. ASSUME NEW a \in Admins, EnqueueIssue(a) \/ EnqueueInsert(a) \/ EnqueueReject(a)
      PROVE  LimitStep
  BY <1>1, LimitIssue, LimitInsert, LimitReject
<1>2. CASE SaveSettings
  BY <1>2, LimitSettings
<1>3. ASSUME NEW o \in Owners, ClaimSelect(o) \/ ClaimWrite(o) PROVE LimitStep
  BY <1>3, LimitSelect, LimitWrite
<1>4. CASE \/ UNCHANGED vars \/ Edit
           \/ \E j \in Jobs : ExpireOrphan(j) \/ ExpireStalled(j)
  <2>1. UNCHANGED <<status, pc, job, created, stamp, clock, overtaken,
                    maxConcurrent, granted>>
    BY <1>4 DEF vars, Edit, Import, Repair, Delete, ExpireOrphan, ExpireStalled
  <2>. QED
    BY <2>1, LimitQuiet DEF Running, Queued, Created
<1>5. ASSUME NEW o \in Owners,
             \/ ClaimNothing(o) \/ CheckpointRejected(o) \/ Notify(o) \/ Die(o)
             \/ AbortClaim(o)
             \/ (Beat(o) /\ ~Owns(o)) \/ (KeepAlive(o) /\ ~Owns(o))
      PROVE  LimitStep
  <2>1. PICK label \in {"unused", "ended"} : Leave(o, label)
    BY <1>5 DEF ClaimNothing, CheckpointRejected, Notify, Die, AbortClaim, Beat, KeepAlive
  <2>2. \A q \in Owners : pc'[q] = "claim" => pc[q] = "claim" /\ job'[q] = job[q]
    BY <2>1 DEF Leave, Goto, Inv, TypeOK, TaskTypes
  <2>3. UNCHANGED <<status, created, stamp, clock, overtaken, maxConcurrent, granted>>
    BY <1>5 DEF ClaimNothing, CheckpointRejected, Notify, Die, AbortClaim, Beat, KeepAlive
  <2>. QED
    BY <2>2, <2>3, LimitQuiet DEF Running, Queued, Created
<1>6. ASSUME NEW o \in Owners,
             \/ ReadMeta(o) \/ ReadNodes(o) \/ ReadEdges(o) \/ ResourceFails(o)
             \/ Publish(o) \/ PublishRejected(o) \/ Checkpoint(o)
             \/ (Beat(o) /\ Owns(o)) \/ (KeepAlive(o) /\ Owns(o))
             \/ \E p \in Processes : Poll(p, o)
      PROVE  LimitStep
  <2>1. PICK label \in PC \ {"claim"} : UNCHANGED pc \/ pc' = [pc EXCEPT ![o] = label]
    BY <1>6 DEF ReadMeta, ReadNodes, ReadEdges, ResourceFails, Publish, PublishRejected,
                Checkpoint, Beat, KeepAlive, Poll, Record, Goto, Continue
  <2>2. UNCHANGED <<status, created, stamp, clock, overtaken, maxConcurrent, granted, job>>
    BY <1>6 DEF ReadMeta, ReadNodes, ReadEdges, ResourceFails, Publish, PublishRejected,
                Checkpoint, Beat, KeepAlive, Poll
  <2>3. \A q \in Owners : pc'[q] = "claim" => pc[q] = "claim"
    BY <2>1 DEF Inv, TypeOK, TaskTypes
  <2>. QED
    BY <2>2, <2>3, LimitQuiet DEF Running, Queued, Created
<1>7. ASSUME NEW o \in Owners, Finish(o) PROVE LimitStep
  <2>1. PICK s \in Finished : status' = [status EXCEPT ![job[o]] = s]
    BY <1>7 DEF Finish
  <2>2. /\ status[job[o]] = "running" /\ pc' = [pc EXCEPT ![o] = "notify"]
        /\ UNCHANGED <<created, stamp, clock, overtaken, maxConcurrent, granted, job>>
    BY <1>7 DEF Finish, Owns, Goto
  <2>3. Running' \subseteq Running /\ Queued' = Queued /\ Created' = Created
    BY <2>1, <2>2 DEF Running, Queued, Created, Inv, TypeOK, JobTypes
  <2>4. \A q \in Owners : pc'[q] = "claim" => pc[q] = "claim"
    BY <2>2 DEF Inv, TypeOK, TaskTypes
  <2>. QED
    BY <2>2, <2>3, <2>4, LimitQuiet
<1>8. ASSUME NEW o \in Owners, TaskStep(o) \/ KeepAlive(o) PROVE LimitStep
  BY <1>3, <1>5, <1>6, <1>7, <1>8 DEF TaskStep
<1>9. ASSUME NEW o \in Owners, NEW p \in Processes, Poll(p, o) PROVE LimitStep
  BY <1>6, <1>9
<1>10. ASSUME NEW o \in Owners, Die(o) \/ AbortClaim(o) PROVE LimitStep
  BY <1>5, <1>10
<1>. QED
  BY <1>1, <1>2, <1>4, <1>8, <1>9, <1>10 DEF Next, Request

LEMMA LimitInvariance == Spec => []LimitInv
<1>1. LimitStep => LimitInv'
  BY DEF LimitStep
<1>. QED
  BY <1>1, LimitInit, LimitNext, Invariance, PTL DEF Spec

----------------------------------------------------------------------------
(* Theorems *)

\* As long as no enqueue was overtaken, all web processes together never run more
\* jobs than the highest limit so far allows, whichever leases are alive.
THEOREM RunningWithinLimit == Spec => []LimitKept
<1>1. LimitInv => LimitKept
  BY DEF LimitInv
<1>. QED
  BY <1>1, LimitInvariance, PTL

\* No claim brings the number of running jobs above the limit in force.
THEOREM ClaimsWithinLimit == Spec => ClaimsRespectLimit
<1>1. Inv /\ Inv' /\ LimitInv /\ [Next]_vars => [TakeWithinLimit]_vars
  BY LimitNext DEF LimitStep
<1>. QED
  BY <1>1, Invariance, LimitInvariance, PTL DEF Spec, ClaimsRespectLimit

----------------------------------------------------------------------------
(* The freshness of PageRank results: three statements read a resource one   *)
(* after the other while imports change it, and nothing but the comparison   *)
(* of the version (txt_hash, updated) in publish and in current_cache keeps  *)
(* mixed or old ranks from being shown as ready.                             *)

\* The graph s was read when r had version s.version.  Versions grow until the
\* resource is deleted, so r still has that version only if nothing was imported.
Seen(s, r) == s.version # 0 /\ (version[r] # 0 => s.version <= version[r])

Same(s, r) == s.version = version[r] /\ ~repaired[r]

TaskSaw(o) ==
  /\ pc[o] \in {"nodes", "edges", "publish"} => Seen(snapshot[o], Current(o))
  /\ pc[o] \in {"edges", "publish"} /\ Same(snapshot[o], Current(o))
       => snapshot[o].nodes = graph[Current(o)]
  /\ pc[o] = "publish" /\ Same(snapshot[o], Current(o))
       => snapshot[o].edges = graph[Current(o)]

SnapshotInv == \A o \in Owners : TaskSaw(o)

CacheInv == \A r \in Resources : cache[r] # NoCache => Seen(cache[r], r)

RankInv == SnapshotInv /\ CacheInv /\ ReadyRanksAreCurrent

----------------------------------------------------------------------------

USE DEF Graph, Snapshot, Blank

LEMMA RankInit == Init => RankInv
BY DEF Init, RankInv, SnapshotInv, TaskSaw, CacheInv, ReadyRanksAreCurrent, Ready

\* A step of task o that leaves the resources alone.
LEMMA RankTask ==
  ASSUME Inv, Inv', RankInv, NEW o \in Owners, UNCHANGED <<resVars, target>>,
         \A q \in Owners : q # o =>
           pc'[q] = pc[q] /\ job'[q] = job[q] /\ local'[q] = local[q]
           /\ snapshot'[q] = snapshot[q],
         \/ pc'[o] \notin {"nodes", "edges", "publish"}
         \/ pc'[o] = pc[o] /\ job'[o] = job[o] /\ local'[o] = local[o]
            /\ snapshot'[o] = snapshot[o]
  PROVE  RankInv'
<1>1. \A q \in Owners : pc'[q] \in {"nodes", "edges", "publish"} =>
        /\ pc[q] = pc'[q] /\ snapshot'[q] = snapshot[q]
        /\ Current(q)' = Current(q)
  BY DEF Current
<1>2. SnapshotInv'
  BY <1>1 DEF RankInv, SnapshotInv, TaskSaw, Seen, Same
<1>3. CacheInv' /\ ReadyRanksAreCurrent'
  BY DEF RankInv, CacheInv, ReadyRanksAreCurrent, Ready, Seen
<1>. QED
  BY <1>2, <1>3 DEF RankInv

\* Each of the three reads continues with what the others have seen.
LEMMA RankRead ==
  ASSUME Inv, Inv', RankInv, NEW o \in Owners,
         \/ ReadMeta(o) /\ version[Current(o)] # 0
         \/ ReadNodes(o)
         \/ ReadEdges(o)
  PROVE  RankInv'
<1>. DEFINE r == Current(o)
<1>1. /\ pc[o] \in Reading /\ UNCHANGED <<resVars, target, job, local>>
  BY DEF ReadMeta, ReadNodes, ReadEdges
<1>2. r \in Resources /\ Current(o)' = r
  BY <1>1, CurrentType DEF Current
<1>3. \A q \in Owners : q # o =>
        pc'[q] = pc[q] /\ snapshot'[q] = snapshot[q] /\ Current(q)' = Current(q)
  BY <1>1 DEF ReadMeta, ReadNodes, ReadEdges, Goto, Current, Inv, TypeOK, TaskTypes
<1>4. snapshot[o] \in Snapshot
  BY DEF Inv, TypeOK, TaskTypes
<1>5. \A q \in Owners : q # o => TaskSaw(q)'
  BY <1>1, <1>3 DEF RankInv, SnapshotInv, TaskSaw, Seen, Same
<1>6. CASE ReadMeta(o) /\ version[r] # 0
  <2>1. pc'[o] = "nodes" /\ snapshot'[o] = [snapshot[o] EXCEPT !.version = version[r]]
    BY <1>6 DEF ReadMeta, Goto, Inv, TypeOK, TaskTypes
  <2>2. snapshot'[o].version = version[r] /\ version[r] \in Nat
    BY <1>2, <1>4, <2>1 DEF Inv, TypeOK, ResourceTypes
  <2>3. SnapshotInv'
    <3>1. TaskSaw(o)'
      BY <1>1, <1>2, <1>6, <2>1, <2>2 DEF TaskSaw, Seen
    <3>. QED
      BY <1>5, <3>1 DEF SnapshotInv
  <2>. QED
    BY <1>1, <2>3 DEF RankInv, CacheInv, ReadyRanksAreCurrent, Ready, Seen
<1>7. CASE ReadNodes(o)
  <2>1. /\ pc[o] = "nodes" /\ pc'[o] = "edges"
        /\ snapshot'[o] = [snapshot[o] EXCEPT !.nodes = graph[r]]
    BY <1>7 DEF ReadNodes, Goto, Inv, TypeOK, TaskTypes
  <2>2. snapshot'[o].version = snapshot[o].version /\ snapshot'[o].nodes = graph[r]
    BY <1>4, <2>1
  <2>3. SnapshotInv'
    <3>1. TaskSaw(o)'
      BY <1>1, <1>2, <2>1, <2>2 DEF RankInv, SnapshotInv, TaskSaw, Seen, Same
    <3>. QED
      BY <1>5, <3>1 DEF SnapshotInv
  <2>. QED
    BY <1>1, <2>3 DEF RankInv, CacheInv, ReadyRanksAreCurrent, Ready, Seen
<1>8. CASE ReadEdges(o)
  <2>1. /\ pc[o] = "edges" /\ pc'[o] = "publish"
        /\ snapshot'[o] = [snapshot[o] EXCEPT !.edges = graph[r]]
    BY <1>8 DEF ReadEdges, Goto, Inv, TypeOK, TaskTypes
  <2>2. /\ snapshot'[o].version = snapshot[o].version
        /\ snapshot'[o].nodes = snapshot[o].nodes /\ snapshot'[o].edges = graph[r]
    BY <1>4, <2>1
  <2>3. SnapshotInv'
    <3>1. TaskSaw(o)'
      BY <1>1, <1>2, <2>1, <2>2 DEF RankInv, SnapshotInv, TaskSaw, Seen, Same
    <3>. QED
      BY <1>5, <3>1 DEF SnapshotInv
  <2>. QED
    BY <1>1, <2>3 DEF RankInv, CacheInv, ReadyRanksAreCurrent, Ready, Seen
<1>. QED
  BY <1>6, <1>7, <1>8

\* What is published was read in full under the version the resource still has.
LEMMA RankPublish ==
  ASSUME Inv, Inv', RankInv, NEW o \in Owners, Publish(o)
  PROVE  RankInv'
<1>. DEFINE r == Current(o)
<1>1. r \in Resources
  BY CurrentType DEF Publish
<1>2. /\ pc[o] = "publish" /\ version[r] = snapshot[o].version
      /\ cache' = [cache EXCEPT ![r] = snapshot[o]]
      /\ UNCHANGED <<version, graph, repaired, job, target>>
  BY DEF Publish
<1>3. cache'[r] = snapshot[o] /\ \A k \in Resources : k # r => cache'[k] = cache[k]
  BY <1>1, <1>2 DEF Inv, TypeOK, ResourceTypes
<1>4. pc'[o] = "checkpoint" /\ \A q \in Owners : q # o =>
        pc'[q] = pc[q] /\ local'[q] = local[q] /\ snapshot'[q] = snapshot[q]
  BY DEF Publish, Record, Goto, Inv, TypeOK, TaskTypes
<1>5. SnapshotInv'
  <2>1. \A q \in Owners : q # o => Current(q)' = Current(q)
    BY <1>2, <1>4 DEF Current
  <2>. QED
    BY <1>2, <1>4, <2>1 DEF RankInv, SnapshotInv, TaskSaw, Seen, Same
<1>6. CacheInv'
  BY <1>2, <1>3 DEF RankInv, SnapshotInv, TaskSaw, CacheInv, Seen
<1>7. ReadyRanksAreCurrent'
  BY <1>2, <1>3 DEF RankInv, SnapshotInv, TaskSaw, Same, ReadyRanksAreCurrent, Ready
<1>. QED
  BY <1>5, <1>6, <1>7 DEF RankInv

\* An import or a deletion ends the version that was read, and a forced import
\* leaves its mark; nothing else changes a graph.
LEMMA RankEdit ==
  ASSUME Inv, Inv', RankInv, NEW r \in Resources, Import(r) \/ Repair(r) \/ Delete(r)
  PROVE  RankInv'
<1>1. UNCHANGED <<pc, job, local, snapshot, target>> /\ \A o \in Owners : Current(o)' = Current(o)
  BY DEF Import, Repair, Delete, Current
<1>2. \A k \in Resources : k # r =>
        /\ version'[k] = version[k] /\ graph'[k] = graph[k]
        /\ repaired'[k] = repaired[k] /\ cache'[k] = cache[k]
  BY DEF Import, Repair, Delete, Inv, TypeOK, ResourceTypes
<1>3. version[r] # 0 /\ version[r] \in Nat
  BY DEF Import, Repair, Delete, Inv, TypeOK, ResourceTypes
<1>4. \/ version'[r] = version[r] + 1 /\ cache'[r] = cache[r]
      \/ version'[r] = version[r] /\ cache'[r] = cache[r] /\ repaired'[r]
      \/ version'[r] = 0 /\ cache'[r] = NoCache
  BY DEF Import, Repair, Delete, Inv, TypeOK, ResourceTypes
\* What was seen of r stays seen, and is the same as now only if r is another resource.
<1>5. ASSUME NEW s \in Snapshot, Seen(s, r)
      PROVE  Seen(s, r)' /\ ~Same(s, r)'
  <2>1. s.version \in Nat
    OBVIOUS
  <2>. QED
    BY <1>3, <1>4, <1>5, <2>1 DEF Seen, Same
<1>6. \A s \in Snapshot, k \in Resources :
        Seen(s, k) => /\ Seen(s, k)'
                      /\ Same(s, k)' => k # r /\ Same(s, k) /\ graph'[k] = graph[k]
  BY <1>2, <1>5 DEF Seen, Same
<1>7. SnapshotInv'
  <2>. SUFFICES ASSUME NEW o \in Owners, pc[o] \in {"nodes", "edges", "publish"}
                PROVE  TaskSaw(o)'
    BY <1>1 DEF SnapshotInv, TaskSaw
  <2>1. snapshot[o] \in Snapshot /\ Current(o) \in Resources
    BY CurrentType DEF Inv, TypeOK, TaskTypes
  <2>2. TaskSaw(o)
    BY DEF RankInv, SnapshotInv
  <2>3. Seen(snapshot[o], Current(o))
    BY <2>2 DEF TaskSaw
  <2>4. /\ Seen(snapshot[o], Current(o))'
        /\ Same(snapshot[o], Current(o))' =>
             Same(snapshot[o], Current(o)) /\ graph'[Current(o)] = graph[Current(o)]
    BY <1>1, <1>6, <2>1, <2>3 DEF Seen, Same
  <2>. QED
    BY <1>1, <2>2, <2>4 DEF TaskSaw
<1>8. ASSUME NEW k \in Resources, cache'[k] # NoCache
      PROVE  /\ cache[k] \in Snapshot /\ cache'[k] = cache[k] /\ cache[k] # NoCache
             /\ Seen(cache[k], k)
  BY <1>2, <1>4, <1>8 DEF RankInv, CacheInv, Inv, TypeOK, ResourceTypes
<1>9. CacheInv'
  BY <1>6, <1>8 DEF CacheInv, Seen
<1>10. ReadyRanksAreCurrent'
  <2>. SUFFICES ASSUME NEW k \in Resources, Ready(k)', ~repaired'[k]
                PROVE  cache'[k].nodes = graph'[k] /\ cache'[k].edges = graph'[k]
    BY DEF ReadyRanksAreCurrent
  <2>1. cache'[k] = cache[k] /\ Same(cache[k], k) /\ graph'[k] = graph[k] /\ cache[k] # NoCache
    BY <1>6, <1>8 DEF Ready, Same
  <2>. QED
    BY <2>1 DEF RankInv, ReadyRanksAreCurrent, Ready, Same
<1>. QED
  BY <1>7, <1>9, <1>10 DEF RankInv

LEMMA RankNext == Inv /\ Inv' /\ RankInv /\ [Next]_vars => RankInv'
<1>. SUFFICES ASSUME Inv, Inv', RankInv, [Next]_vars PROVE RankInv'
  OBVIOUS
<1>1. CASE Edit
  BY <1>1, RankEdit DEF Edit
<1>2. ASSUME NEW o \in Owners,
             \/ ReadMeta(o) /\ version[Current(o)] # 0
             \/ ReadNodes(o) \/ ReadEdges(o) \/ Publish(o)
      PROVE  RankInv'
  BY <1>2, RankRead, RankPublish
<1>3. ASSUME NEW o \in Owners,
             \/ ClaimSelect(o) \/ ClaimNothing(o) \/ ClaimWrite(o) \/ Beat(o)
             \/ ReadMeta(o) /\ version[Current(o)] = 0
             \/ ResourceFails(o) \/ PublishRejected(o) \/ Checkpoint(o) \/ Finish(o)
             \/ CheckpointRejected(o) \/ Notify(o) \/ Die(o) \/ AbortClaim(o)
             \/ KeepAlive(o) /\ ~Owns(o)
             \/ \E p \in Processes : Poll(p, o)
      PROVE  RankInv'
  <2>1. UNCHANGED <<resVars, target>>
    BY <1>3 DEF ClaimSelect, ClaimNothing, ClaimWrite, Beat, ReadMeta, ResourceFails,
                PublishRejected, Checkpoint, Finish, CheckpointRejected, Notify, Die,
                AbortClaim, KeepAlive, Poll
  <2>2. PICK label \in PC \ {"nodes", "edges", "publish"} : pc' = [pc EXCEPT ![o] = label]
    BY <1>3 DEF ClaimSelect, ClaimNothing, ClaimWrite, Beat, ReadMeta, ResourceFails,
                PublishRejected, Checkpoint, Finish, CheckpointRejected, Notify, Die,
                AbortClaim, KeepAlive, Poll, Leave, Record, Goto, Continue
  <2>3. \A q \in Owners : q # o =>
          job'[q] = job[q] /\ local'[q] = local[q] /\ snapshot'[q] = snapshot[q]
    BY <1>3 DEF ClaimSelect, ClaimNothing, ClaimWrite, Beat, ReadMeta, ResourceFails,
                PublishRejected, Checkpoint, Finish, CheckpointRejected, Notify, Die,
                AbortClaim, KeepAlive, Poll, Leave, Record, Inv, TypeOK, TaskTypes
  <2>4. pc'[o] = label /\ \A q \in Owners : q # o => pc'[q] = pc[q]
    BY <2>2 DEF Inv, TypeOK, TaskTypes
  <2>. QED
    BY <2>1, <2>3, <2>4, RankTask
<1>4. CASE \/ UNCHANGED vars \/ SaveSettings
           \/ \E o \in Owners : KeepAlive(o) /\ Owns(o)
           \/ \E a \in Admins : EnqueueIssue(a) \/ EnqueueInsert(a) \/ EnqueueReject(a)
           \/ \E j \in Jobs : ExpireOrphan(j) \/ ExpireStalled(j)
  <2>1. UNCHANGED <<resVars, taskVars>>
    BY <1>4 DEF vars, SaveSettings, KeepAlive, EnqueueIssue, EnqueueInsert, EnqueueReject,
                ExpireOrphan, ExpireStalled
  <2>2. \A j \in Jobs : status[j] # "absent" => target'[j] = target[j]
    BY <1>4 DEF vars, SaveSettings, KeepAlive, EnqueueIssue, EnqueueInsert, EnqueueReject,
                ExpireOrphan, ExpireStalled, Inv, TypeOK, JobTypes
  <2>3. \A o \in Owners : pc[o] \in Reading => Current(o)' = Current(o)
    BY <2>1, <2>2 DEF Current, Inv, TaskInv
  <2>4. SnapshotInv'
    BY <2>1, <2>3 DEF RankInv, SnapshotInv, TaskSaw, Seen, Same
  <2>. QED
    BY <2>1, <2>4 DEF RankInv, CacheInv, ReadyRanksAreCurrent, Ready, Seen
<1>5. ASSUME NEW o \in Owners, TaskStep(o) PROVE RankInv'
  BY <1>2, <1>3, <1>5 DEF TaskStep
<1>6. ASSUME NEW o \in Owners, KeepAlive(o) \/ Die(o) \/ AbortClaim(o) PROVE RankInv'
  BY <1>3, <1>4, <1>6
<1>7. ASSUME NEW o \in Owners, NEW p \in Processes, Poll(p, o) PROVE RankInv'
  BY <1>3, <1>7
<1>. QED
  BY <1>1, <1>4, <1>5, <1>6, <1>7 DEF Next, Request

LEMMA RankInvariance == Spec => []RankInv
BY RankInit, RankNext, Invariance, PTL DEF Spec

\* Ranks that are shown as ready were computed from exactly the nodes and edges the
\* resource has now, unless a forced import repaired the graph of an unchanged text.
THEOREM ReadyIsCurrent == Spec => []ReadyRanksAreCurrent
<1>1. RankInv => ReadyRanksAreCurrent
  BY DEF RankInv
<1>. QED
  BY <1>1, RankInvariance, PTL

============================================================================
