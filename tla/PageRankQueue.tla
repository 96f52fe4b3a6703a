--------------------------- MODULE PageRankQueue ---------------------------
(***************************************************************************)
(* The persistent PageRank job queue: admins enqueue jobs over resources,  *)
(* the workers of all web processes claim them under a 120 second lease,   *)
(* compute one resource after the other, and save their progress so that   *)
(* another worker can resume.  Imports change the resources meanwhile.     *)
(*                                                                         *)
(* Sources: feature/recommendation/pagerank/{repo,worker,domain}.py,       *)
(* feature/repo/pagerank.py.                                               *)
(*                                                                         *)
(* The database runs each autocommit statement at read-committed level.    *)
(* A statement that starts with LOCK (repo.py) write-locks the one queue   *)
(* node, so such statements are serialised; one that starts with OWNED_JOB *)
(* write-locks the job before it looks at it.  datetime() is the instant   *)
(* the statement was issued, BEFORE it obtained any lock.  Three places    *)
(* depend on that and are therefore two steps here: an enqueue stamps the  *)
(* job before it holds the queue lock, a claim chooses a job before it     *)
(* write-locks it, and a publish or checkpoint may still pass its lease    *)
(* test although the lease ran out while it waited ("grace").              *)
(***************************************************************************)
EXTENDS Integers, Sequences, FiniteSets

CONSTANTS
  Jobs,        \* PageRankJob nodes that may ever be created
  Owners,      \* owner tokens: every claim of run_worker draws a fresh uuid
  Processes,   \* web processes, each with one run_worker loop
  Admins,      \* admin requests that may be in flight at the same time
  Resources,
  Limits,      \* values an admin may choose for max_concurrent_jobs
  Pendings,    \* values an admin may choose for max_pending_jobs
  MaxLength,   \* longest list of resources in one job
  MaxRequests, \* bound: enqueue requests
  MaxImports,  \* bound: imports that change a resource's content
  MaxRepairs,  \* bound: forced imports that repair the graph of an unchanged text
  MaxDeletes,  \* bound: deleted resources
  MaxChanges,  \* bound: changes of the settings
  MaxDeaths,   \* bound: tasks lost to a crash, a shutdown or a database error
  MaxStalls,   \* bound: leases that run out while their task is still alive
  NoJob, NoOwner, NoProcess, NoCache

ASSUME QueueAssumption ==
  /\ IsFiniteSet(Jobs)
  /\ Limits \subseteq Nat \ {0} /\ Limits # {}
  /\ Pendings \subseteq Nat \ {0} /\ Pendings # {}
  /\ MaxLength \in Nat \ {0}
  /\ MaxRequests \in Nat /\ MaxRequests <= Cardinality(Jobs)
  /\ NoCache \notin [version : Nat, nodes : Nat \X Nat, edges : Nat \X Nat]
  /\ NoJob \notin Jobs /\ NoOwner \notin Owners /\ NoProcess \notin Processes

Status   == {"absent", "queued", "running", "completed", "partial"}
Finished == {"completed", "partial"}
Outcome  == {"ok", "error"}

\* Where the coroutine of an owner token stands.  "poll" and "claim" belong to
\* run_worker, "beat" .. "notify" to process_job; "ended" means that it returned,
\* raised or was cancelled.
Working == {"beat", "meta", "nodes", "edges", "publish", "checkpoint", "final", "notify"}
PC      == {"unused", "poll", "claim", "ended"} \cup Working
Reading == {"meta", "nodes", "edges", "publish"}

VARIABLES
  \* PageRankJob nodes
  status, created, target, results, owner,
  live,        \* lease_until > now
  \* PageRankQueue node
  maxConcurrent, maxPending,
  granted,     \* the highest maxConcurrent so far (for the properties)
  \* Resource nodes; version stands for the pair (txt_hash, updated), 0 for a
  \* deleted resource; graph for its Sentence/Quoterm nodes and edges
  version, graph,
  cache,       \* ranks with their freshness metadata: what they were computed from
  \* requests and tasks
  stamp, request, clock,
  pc, home, job, local, snapshot, grace,
  \* what the properties need to remember
  overtaken,   \* a job was inserted with an older stamp than a running one
  repaired,    \* the graph was repaired since the version last changed
  published,   \* <<job, resource>> pairs whose ranks were written
  notified,    \* completion notifications stored for a job
  imports, repairs, deletes, changes, deaths, stalls

jobVars   == <<status, created, target, results, owner, live>>
setVars   == <<maxConcurrent, maxPending, granted>>
resVars   == <<version, graph, cache, repaired>>
reqVars   == <<stamp, request, clock>>
taskVars  == <<pc, home, job, local, snapshot, grace>>
histVars  == <<overtaken, published, notified>>
boundVars == <<imports, repairs, deletes, changes, deaths, stalls>>
vars == <<jobVars, setVars, resVars, reqVars, taskVars, histVars, boundVars>>

----------------------------------------------------------------------------
Running == {j \in Jobs : status[j] = "running"}
Queued  == {j \in Jobs : status[j] = "queued"}
Active  == {j \in Running : live[j]}
Expired == {j \in Running : ~live[j]}
Pending == Queued \cup Running

\* Running jobs and the one a claim has chosen and is about to write.
Taken == Running \cup {job[o] : o \in {q \in Owners : pc[q] = "claim"}}

\* The queue node is write-locked by a claim between its two steps.
QueueFree == \A o \in Owners : pc[o] # "claim"

\* PageRankStore.claim: ORDER BY job.created LIMIT 1.
\* (Faulty variants: jobs whose worker is gone are not resumed; the newest first.)
ClaimableQueuedOnly == Queued
Claimable == Queued \cup Expired

FirstNewest(S) == {j \in S : \A k \in S : created[j] >= created[k]}
First(S) == {j \in S : \A k \in S : created[j] <= created[k]}

\* OWNED_JOB, and the lease test of publish and checkpoint.
\* (Faulty variant: the owner token is not compared.)
OwnsAnyToken(o) == status[job[o]] = "running"
Owns(o) == owner[job[o]] = o /\ status[job[o]] = "running"
LeaseOk(o) == live[job[o]] \/ grace[o]

\* Tasks of a process: polling, claiming or working for a job.
Busy(p) == {o \in Owners : home[o] = p /\ pc[o] \in Working}

\* Whether the lease is live when the statement is issued.
Issue(o) == grace' = [grace EXCEPT ![o] = owner[job[o]] = o /\ live[job[o]]]

Goto(o, label) == pc' = [pc EXCEPT ![o] = label]

\* No graph has been read.
Blank == [version |-> 0, nodes |-> <<0, 0>>, edges |-> <<0, 0>>]

\* The coroutine is gone, and with it everything it knew.
Leave(o, label) ==
  /\ Goto(o, label)
  /\ home' = [home EXCEPT ![o] = NoProcess]
  /\ job' = [job EXCEPT ![o] = NoJob]
  /\ local' = [local EXCEPT ![o] = <<>>]
  /\ snapshot' = [snapshot EXCEPT ![o] = Blank]
  /\ grace' = [grace EXCEPT ![o] = FALSE]

\* process_job: the resource the task is working on.
Current(o) == target[job[o]][Len(local[o]) + 1]

\* The loop of process_job continues after the results it already has.
\* (Faulty variant: the last resource is skipped.)
ContinueShort(done, resources) == IF Len(done) + 1 < Len(resources) THEN "beat" ELSE "final"
Continue(done, resources) == IF Len(done) < Len(resources) THEN "beat" ELSE "final"

Requests == UNION {[1 .. n -> Resources] : n \in 1 .. MaxLength}
Distinct(s) == \A a, b \in DOMAIN s : s[a] = s[b] => a = b

----------------------------------------------------------------------------
Init ==
  /\ status = [j \in Jobs |-> "absent"]
  /\ created = [j \in Jobs |-> 0]
  /\ target = [j \in Jobs |-> <<>>]
  /\ results = [j \in Jobs |-> <<>>]
  /\ owner = [j \in Jobs |-> NoOwner]
  /\ live = [j \in Jobs |-> FALSE]
  /\ maxConcurrent \in Limits
  /\ maxPending \in Pendings
  /\ granted = maxConcurrent
  /\ version = [r \in Resources |-> 1]
  /\ graph = [r \in Resources |-> <<1, 0>>]
  /\ cache = [r \in Resources |-> NoCache]
  /\ repaired = [r \in Resources |-> FALSE]
  /\ stamp = [a \in Admins |-> 0]
  /\ request = [a \in Admins |-> <<>>]
  /\ clock = 1
  /\ pc = [o \in Owners |-> "unused"]
  /\ home = [o \in Owners |-> NoProcess]
  /\ job = [o \in Owners |-> NoJob]
  /\ local = [o \in Owners |-> <<>>]
  /\ snapshot = [o \in Owners |-> Blank]
  /\ grace = [o \in Owners |-> FALSE]
  /\ overtaken = FALSE
  /\ published = {}
  /\ notified = [j \in Jobs |-> 0]
  /\ imports = 0 /\ repairs = 0 /\ deletes = 0
  /\ changes = 0 /\ deaths = 0 /\ stalls = 0

----------------------------------------------------------------------------
(* Admin requests *)

\* enqueue, statement issued: datetime() is fixed, no lock is held yet.
\* The ids are deduplicated (dict.fromkeys).
EnqueueIssue(a) ==
  /\ stamp[a] = 0
  /\ clock <= MaxRequests
  /\ \E t \in Requests :
       /\ Distinct(t)
       /\ request' = [request EXCEPT ![a] = t]
  /\ stamp' = [stamp EXCEPT ![a] = clock]
  /\ clock' = clock + 1
  /\ UNCHANGED <<jobVars, setVars, resVars, taskVars, histVars, boundVars>>

Accepts(t) ==
  /\ Cardinality(Pending) < maxPending
  /\ \A i \in DOMAIN t : version[t[i]] # 0

\* enqueue, under the queue lock: the limits are tested and the job is created.
EnqueueInsert(a) ==
  /\ stamp[a] # 0
  /\ QueueFree
  /\ Accepts(request[a])
  /\ \E j \in Jobs :
       /\ status[j] = "absent"
       /\ status' = [status EXCEPT ![j] = "queued"]
       /\ created' = [created EXCEPT ![j] = stamp[a]]
       /\ target' = [target EXCEPT ![j] = request[a]]
  /\ overtaken' = (overtaken \/ \E k \in Running : created[k] > stamp[a])
  /\ stamp' = [stamp EXCEPT ![a] = 0]
  /\ request' = [request EXCEPT ![a] = <<>>]
  /\ UNCHANGED <<results, owner, live, clock, setVars, resVars, taskVars,
                 published, notified, boundVars>>

\* enqueue raises ValueError: the queue is full or a resource is gone.
EnqueueReject(a) ==
  /\ stamp[a] # 0
  /\ QueueFree
  /\ ~Accepts(request[a])
  /\ stamp' = [stamp EXCEPT ![a] = 0]
  /\ request' = [request EXCEPT ![a] = <<>>]
  /\ UNCHANGED <<clock, jobVars, setVars, resVars, taskVars, histVars, boundVars>>

\* The admin form admits only the values in range.
SaveSettings ==
  /\ QueueFree
  /\ changes < MaxChanges
  /\ changes' = changes + 1
  /\ maxConcurrent' \in Limits
  /\ maxPending' \in Pendings
  /\ granted' = IF maxConcurrent' > granted THEN maxConcurrent' ELSE granted
  /\ UNCHANGED <<jobVars, resVars, reqVars, taskVars, histVars,
                 imports, repairs, deletes, deaths, stalls>>

----------------------------------------------------------------------------
(* Resources, as the import and delete endpoints change them *)

\* An import that changes the text: hash and graph are written in one transaction.
Import(r) ==
  /\ version[r] # 0
  /\ imports < MaxImports
  /\ imports' = imports + 1
  /\ version' = [version EXCEPT ![r] = @ + 1]
  /\ graph' = [graph EXCEPT ![r] = <<version[r] + 1, 0>>]
  /\ repaired' = [repaired EXCEPT ![r] = FALSE]
  /\ UNCHANGED <<cache, jobVars, setVars, reqVars, taskVars, histVars,
                 repairs, deletes, changes, deaths, stalls>>

\* A forced import of the same text: the differences between the saved graph and
\* the parsed one are written, txt_hash and updated stay (usecase.py:286-292).
Repair(r) ==
  /\ version[r] # 0
  /\ repairs < MaxRepairs
  /\ repairs' = repairs + 1
  /\ graph' = [graph EXCEPT ![r] = <<@[1], @[2] + 1>>]
  /\ repaired' = [repaired EXCEPT ![r] = TRUE]
  /\ UNCHANGED <<version, cache, jobVars, setVars, reqVars, taskVars, histVars,
                 imports, deletes, changes, deaths, stalls>>

Delete(r) ==
  /\ version[r] # 0
  /\ deletes < MaxDeletes
  /\ deletes' = deletes + 1
  /\ version' = [version EXCEPT ![r] = 0]
  /\ cache' = [cache EXCEPT ![r] = NoCache]
  /\ UNCHANGED <<graph, repaired, jobVars, setVars, reqVars, taskVars, histVars,
                 imports, repairs, changes, deaths, stalls>>

----------------------------------------------------------------------------
(* run_worker: one loop per process *)

\* The loop reads the settings and has room for a task.  It awaits one claim at
\* a time, so no other token of the process is polling or claiming.
Poll(p, o) ==
  /\ pc[o] = "unused"
  /\ \A q \in Owners : home[q] = p => pc[q] \notin {"poll", "claim"}
  /\ Cardinality(Busy(p)) < maxConcurrent
  /\ Goto(o, "poll")
  /\ home' = [home EXCEPT ![o] = p]
  /\ UNCHANGED <<job, local, snapshot, grace, jobVars, setVars, resVars, reqVars,
                 histVars, boundVars>>

\* claim, first half: the queue node is locked, the live leases are counted and
\* the oldest claimable job is chosen.  A claim that waited for the lock compares
\* with an older instant and takes a lease that has just run out for a live one,
\* which is the same as if it ran out after this step.
\* (Faulty variant: one job too many.)
ClaimSelectOneMore(o) ==
  /\ pc[o] = "poll"
  /\ QueueFree
  /\ Cardinality(Active) <= maxConcurrent
  /\ \E j \in First(Claimable) : job' = [job EXCEPT ![o] = j]
  /\ Goto(o, "claim")
  /\ UNCHANGED <<home, local, snapshot, grace, jobVars, setVars, resVars, reqVars,
                 histVars, boundVars>>
ClaimSelect(o) ==
  /\ pc[o] = "poll"
  /\ QueueFree
  /\ Cardinality(Active) < maxConcurrent
  /\ \E j \in First(Claimable) : job' = [job EXCEPT ![o] = j]
  /\ Goto(o, "claim")
  /\ UNCHANGED <<home, local, snapshot, grace, jobVars, setVars, resVars, reqVars,
                 histVars, boundVars>>

\* claim returns no row: the loop sleeps and polls again with a new token.
ClaimNothing(o) ==
  /\ pc[o] = "poll"
  /\ QueueFree
  /\ Cardinality(Active) >= maxConcurrent \/ Claimable = {}
  /\ Leave(o, "unused")
  /\ UNCHANGED <<jobVars, setVars, resVars, reqVars,
                 histVars, boundVars>>

\* claim, second half: SET write-locks the job without testing it again, so a
\* checkpoint of the former owner may have come between.  The returned results
\* are read under that lock.
ClaimWrite(o) ==
  LET j == job[o] IN
  /\ pc[o] = "claim"
  /\ status' = [status EXCEPT ![j] = "running"]
  /\ owner' = [owner EXCEPT ![j] = o]
  /\ live' = [live EXCEPT ![j] = TRUE]
  /\ local' = [local EXCEPT ![o] = results[j]]
  /\ grace' = [grace EXCEPT ![o] = TRUE]
  /\ Goto(o, Continue(results[j], target[j]))
  /\ UNCHANGED <<created, target, results, home, job, snapshot, setVars, resVars,
                 reqVars, histVars, boundVars>>

----------------------------------------------------------------------------
(* process_job *)

\* The heartbeat before a resource; its statement takes the queue lock and does
\* not ask whether the lease is still live.
Beat(o) ==
  /\ pc[o] = "beat"
  /\ QueueFree
  /\ IF Owns(o)
     THEN /\ live' = [live EXCEPT ![job[o]] = TRUE]
          /\ Goto(o, "meta")
          /\ UNCHANGED <<home, job, local, snapshot, grace>>
     ELSE /\ Leave(o, "ended")
          /\ UNCHANGED live
  /\ UNCHANGED <<status, created, target, results, owner, setVars, resVars, reqVars,
                 histVars, boundVars>>

\* An exception inside the loop becomes the outcome of the resource.
Record(o, outcome) ==
  /\ local' = [local EXCEPT ![o] = Append(@, outcome)]
  /\ snapshot' = [snapshot EXCEPT ![o] = Blank]
  /\ Goto(o, "checkpoint")
  /\ Issue(o)

\* graph, first statement: title, txt_hash and updated.  A deleted resource is
\* an error of this resource.
ReadMeta(o) ==
  /\ pc[o] = "meta"
  /\ IF version[Current(o)] = 0
     THEN Record(o, "error")
     ELSE /\ snapshot' = [snapshot EXCEPT ![o].version = version[Current(o)]]
          /\ Goto(o, "nodes")
          /\ UNCHANGED <<local, grace>>
  /\ UNCHANGED <<home, job, jobVars, setVars, resVars, reqVars, histVars, boundVars>>

\* graph, second statement.  A resource deleted meanwhile has no nodes.
ReadNodes(o) ==
  /\ pc[o] = "nodes"
  /\ snapshot' = [snapshot EXCEPT ![o].nodes = graph[Current(o)]]
  /\ Goto(o, "edges")
  /\ UNCHANGED <<home, job, local, grace, jobVars, setVars, resVars, reqVars,
                 histVars, boundVars>>

\* graph, third statement, and calculate_ranks in a thread.
ReadEdges(o) ==
  /\ pc[o] = "edges"
  /\ snapshot' = [snapshot EXCEPT ![o].edges = graph[Current(o)]]
  /\ Goto(o, "publish")
  /\ Issue(o)
  /\ UNCHANGED <<home, job, local, jobVars, setVars, resVars, reqVars,
                 histVars, boundVars>>

\* The import is incomplete, the graph too large, the iteration does not converge,
\* or a statement of graph, current or publish raises.
ResourceFails(o) ==
  /\ pc[o] \in Reading
  /\ Record(o, "error")
  /\ UNCHANGED <<home, job, jobVars, setVars, resVars, reqVars,
                 histVars, boundVars>>

\* publish: owner, lease and version are tested under the locks of the job and of
\* the resource; ranks and freshness metadata are written together.  When the
\* connection breaks after the commit the task takes the success for an error.
\* (Faulty variant: hash and date are not compared.)
PublishUnchecked(o) ==
  LET r == Current(o) IN
  /\ pc[o] = "publish"
  /\ Owns(o)
  /\ LeaseOk(o)
  /\ cache' = [cache EXCEPT ![r] = [snapshot[o] EXCEPT !.version = version[r]]]
  /\ published' = published \cup {<<job[o], r>>}
  /\ \E outcome \in Outcome : Record(o, outcome)
  /\ UNCHANGED <<version, graph, repaired, home, job, jobVars, setVars,
                 reqVars, overtaken, notified, boundVars>>
Publish(o) ==
  LET r == Current(o) IN
  /\ pc[o] = "publish"
  /\ Owns(o)
  /\ LeaseOk(o)
  /\ version[r] = snapshot[o].version
  /\ cache' = [cache EXCEPT ![r] = snapshot[o]]
  /\ published' = published \cup {<<job[o], r>>}
  /\ \E outcome \in Outcome : Record(o, outcome)
  /\ UNCHANGED <<version, graph, repaired, home, job, jobVars, setVars,
                 reqVars, overtaken, notified, boundVars>>

\* publish matches no row and raises ValueError.
\* (Faulty variant: it returns, and the task counts a success.)
PublishIgnored(o) ==
  /\ pc[o] = "publish"
  /\ ~Owns(o) \/ ~live[job[o]] \/ version[Current(o)] # snapshot[o].version
  /\ Record(o, "ok")
  /\ UNCHANGED <<home, job, jobVars, setVars, resVars, reqVars,
                 histVars, boundVars>>
PublishRejected(o) ==
  /\ pc[o] = "publish"
  /\ ~Owns(o) \/ ~live[job[o]] \/ version[Current(o)] # snapshot[o].version
  /\ Record(o, "error")
  /\ UNCHANGED <<home, job, jobVars, setVars, resVars, reqVars,
                 histVars, boundVars>>

\* checkpoint after a resource: the whole local list replaces the saved one.
Checkpoint(o) ==
  /\ pc[o] = "checkpoint"
  /\ Owns(o)
  /\ LeaseOk(o)
  /\ results' = [results EXCEPT ![job[o]] = local[o]]
  /\ Goto(o, Continue(local[o], target[job[o]]))
  /\ Issue(o)
  /\ UNCHANGED <<status, created, target, owner, live, home, job, local, snapshot,
                 setVars, resVars, reqVars, histVars, boundVars>>

\* checkpoint(finished=True): the job leaves the queue.
Finish(o) ==
  /\ pc[o] = "final"
  /\ Owns(o)
  /\ LeaseOk(o)
  /\ results' = [results EXCEPT ![job[o]] = local[o]]
  /\ status' = [status EXCEPT ![job[o]] =
                  IF \A i \in DOMAIN local[o] : local[o][i] = "ok"
                  THEN "completed" ELSE "partial"]
  /\ Goto(o, "notify")
  /\ UNCHANGED <<created, target, owner, live, home, job, local, snapshot, grace,
                 setVars, resVars, reqVars, histVars, boundVars>>

\* Either checkpoint matches no row: process_job returns.
CheckpointRejected(o) ==
  /\ pc[o] \in {"checkpoint", "final"}
  /\ ~Owns(o) \/ ~live[job[o]]
  /\ Leave(o, "ended")
  /\ UNCHANGED <<jobVars, setVars, resVars, reqVars, histVars, boundVars>>

\* notify_user stores the completion notification.
Notify(o) ==
  /\ pc[o] = "notify"
  /\ notified' = [notified EXCEPT ![job[o]] = @ + 1]
  /\ Leave(o, "ended")
  /\ UNCHANGED <<overtaken, published, jobVars, setVars, resVars, reqVars, boundVars>>

----------------------------------------------------------------------------
(* The lease *)

\* keep_alive beside process_job: it renews the lease, and when the heartbeat
\* matches no row it raises, which cancels process_job wherever it stands.
KeepAlive(o) ==
  /\ pc[o] \in Working
  /\ QueueFree
  /\ IF Owns(o)
     THEN /\ ~live[job[o]]
          /\ live' = [live EXCEPT ![job[o]] = TRUE]
          /\ UNCHANGED taskVars
     ELSE /\ Leave(o, "ended")
          /\ UNCHANGED live
  /\ UNCHANGED <<status, created, target, results, owner, setVars, resVars, reqVars,
                 histVars, boundVars>>

\* The process stops, or a statement of the task raises: the lease is left.
Die(o) ==
  /\ pc[o] \in Working
  /\ deaths < MaxDeaths
  /\ deaths' = deaths + 1
  /\ Leave(o, "ended")
  /\ UNCHANGED <<jobVars, setVars, resVars, reqVars, histVars,
                 imports, repairs, deletes, changes, stalls>>

\* The process stops while its claim runs: the statement is rolled back.
AbortClaim(o) ==
  /\ pc[o] = "claim"
  /\ deaths < MaxDeaths
  /\ deaths' = deaths + 1
  /\ Leave(o, "ended")
  /\ UNCHANGED <<jobVars, setVars, resVars, reqVars, histVars,
                 imports, repairs, deletes, changes, stalls>>

\* 120 seconds pass without a heartbeat because nobody renews the lease...
ExpireOrphan(j) ==
  /\ j \in Active
  /\ pc[owner[j]] \notin Working
  /\ live' = [live EXCEPT ![j] = FALSE]
  /\ UNCHANGED <<status, created, target, results, owner, setVars, resVars, reqVars,
                 taskVars, histVars, boundVars>>

\* ... or although the task is alive, when it or its connection is stuck.
ExpireStalled(j) ==
  /\ j \in Active
  /\ pc[owner[j]] \in Working
  /\ stalls < MaxStalls
  /\ stalls' = stalls + 1
  /\ live' = [live EXCEPT ![j] = FALSE]
  /\ UNCHANGED <<status, created, target, results, owner, setVars, resVars, reqVars,
                 taskVars, histVars, imports, repairs, deletes, changes, deaths>>

----------------------------------------------------------------------------
Request == \E a \in Admins : EnqueueIssue(a) \/ EnqueueInsert(a) \/ EnqueueReject(a)

Edit == \E r \in Resources : Import(r) \/ Repair(r) \/ Delete(r)

\* What the coroutine of a claimed job does next.
TaskStep(o) ==
  \/ ClaimSelect(o) \/ ClaimNothing(o) \/ ClaimWrite(o)
  \/ Beat(o) \/ ReadMeta(o) \/ ReadNodes(o) \/ ReadEdges(o) \/ ResourceFails(o)
  \/ Publish(o) \/ PublishRejected(o)
  \/ Checkpoint(o) \/ Finish(o) \/ CheckpointRejected(o) \/ Notify(o)

Next ==
  \/ Request
  \/ SaveSettings
  \/ Edit
  \/ \E o \in Owners :
       \/ TaskStep(o)
       \/ KeepAlive(o)
       \/ Die(o)
       \/ AbortClaim(o)
       \/ \E p \in Processes : Poll(p, o)
  \/ \E j \in Jobs : ExpireOrphan(j) \/ ExpireStalled(j)

Spec == Init /\ [][Next]_vars

\* The event loop runs every ready coroutine, the run_worker loop never ends,
\* time passes, and a request that was issued is answered.
Fairness ==
  /\ \A o \in Owners : WF_vars(TaskStep(o)) /\ WF_vars(KeepAlive(o))
  /\ \A p \in Processes : WF_vars(\E o \in Owners : Poll(p, o))
  /\ \A j \in Jobs : WF_vars(ExpireOrphan(j))
  /\ \A a \in Admins : WF_vars(EnqueueInsert(a) \/ EnqueueReject(a))

FairSpec == Spec /\ Fairness

----------------------------------------------------------------------------
(* Properties *)

Graph    == Nat \X Nat
Snapshot == [version : Nat, nodes : Graph, edges : Graph]

JobTypes ==
  /\ status \in [Jobs -> Status]
  /\ created \in [Jobs -> Nat]
  /\ target \in [Jobs -> Seq(Resources)]
  /\ results \in [Jobs -> Seq(Outcome)]
  /\ owner \in [Jobs -> Owners \cup {NoOwner}]
  /\ live \in [Jobs -> BOOLEAN]

ResourceTypes ==
  /\ version \in [Resources -> Nat]
  /\ graph \in [Resources -> Graph]
  /\ cache \in [Resources -> Snapshot \cup {NoCache}]
  /\ repaired \in [Resources -> BOOLEAN]

RequestTypes ==
  /\ stamp \in [Admins -> Nat]
  /\ request \in [Admins -> Seq(Resources)]
  /\ clock \in Nat

TaskTypes ==
  /\ pc \in [Owners -> PC]
  /\ home \in [Owners -> Processes \cup {NoProcess}]
  /\ job \in [Owners -> Jobs \cup {NoJob}]
  /\ local \in [Owners -> Seq(Outcome)]
  /\ snapshot \in [Owners -> Snapshot]
  /\ grace \in [Owners -> BOOLEAN]

HistoryTypes ==
  /\ overtaken \in BOOLEAN
  /\ published \subseteq Jobs \X Resources
  /\ notified \in [Jobs -> Nat]

BoundTypes ==
  /\ imports \in Nat /\ repairs \in Nat /\ deletes \in Nat
  /\ changes \in Nat /\ deaths \in Nat /\ stalls \in Nat

\* Every variable keeps its shape; in particular the settings stay within what the
\* admin form admits, and only resources that belong to a job are published for it.
TypeOK ==
  /\ JobTypes /\ ResourceTypes /\ RequestTypes /\ TaskTypes /\ HistoryTypes /\ BoundTypes
  /\ maxConcurrent \in Limits
  /\ maxPending \in Pendings
  /\ granted \in Limits

\* As long as no job was inserted behind the back of a running one, no more jobs
\* are running than the highest limit so far allows: a late heartbeat, which
\* revives an expired lease without asking, can therefore not exceed it either
\* (repo.py:131-162).
LimitKept == ~overtaken => Cardinality(Taken) <= granted

\* A job counts as a success for a resource only if the ranks of that resource
\* were written for that job, whoever computed them and however often the job
\* changed hands (worker.py:25-43, repo.py:196-274).
SuccessWasPublished ==
  \A j \in Jobs : \A i \in DOMAIN results[j] :
    results[j][i] = "ok" => <<j, target[j][i]>> \in published

\* A job that left the queue has an outcome for each of its resources, and says
\* "completed" exactly when all of them are successes (repo.py:245-274).
FinishedIsComplete ==
  \A j \in Jobs : status[j] \in Finished =>
    /\ Len(results[j]) = Len(target[j])
    /\ status[j] = "completed" <=> \A i \in DOMAIN results[j] : results[j][i] = "ok"

\* current_cache calls the ranks of a resource ready.
Ready(r) == cache[r] # NoCache /\ cache[r].version = version[r]

\* Ranks that are shown as ready were computed from the nodes and edges the
\* resource has now, though three separate statements read them and imports ran
\* in between; only the forced repair of an unchanged text escapes the freshness
\* test (repo.py:164-243, repo/pagerank.py:6-12).
ReadyRanksAreCurrent ==
  \A r \in Resources :
    Ready(r) /\ ~repaired[r] => cache[r].nodes = graph[r] /\ cache[r].edges = graph[r]

\* Taking a job never brings the number of running jobs above the limit in force
\* (repo.py:131-150), unless an enqueue was overtaken.
TakeWithinLimit ==
  ~overtaken /\ Cardinality(Taken') > Cardinality(Taken)
    => Cardinality(Taken') <= maxConcurrent'
ClaimsRespectLimit == [][TakeWithinLimit]_vars

\* Towards the admin a job is a ledger: outcomes are appended one at a time, in
\* the order of the resources, and none is ever changed, lost or repeated, not
\* by a take-over, a stale worker or a restart.
Ledger == INSTANCE JobLedger WITH target <- target, results <- results
LedgerSpec == Ledger!Spec

\* Every accepted job is eventually finished, when tasks die and stall finitely
\* often.
JobsFinish == \A j \in Jobs : status[j] = "queued" ~> status[j] \in Finished

----------------------------------------------------------------------------
(* Statements of the repository that the code does not keep *)

\* README.md:140-141 and repo.py:132: the write lock on the queue node bounds the
\* number of jobs executed by all web processes.
LiveLeasesWithinLimit == Cardinality(Active) <= granted

\* README.md:135: on completion the admin who asked is notified.
CompletionIsNotified ==
  \A j \in Jobs : status[j] \in Finished ~> notified[j] > 0

============================================================================
