-------------------------- MODULE QuizPreparation --------------------------
(***************************************************************************)
(* Background preparation of quizzes.  A request reserves a slot of its    *)
(* user in the memory of the web process, marks the dungeon as scheduled,  *)
(* writes "queued" in its transaction and leaves a background task; the    *)
(* task waits for one of the global slots and fills the regions of the     *)
(* dungeon one by one, at most 15 minutes in all.                          *)
(*                                                                         *)
(* Sources: feature/quiz/learning/study_plan/{preparation_control,         *)
(* preparation_state,usecase,router,repo}.py, feature/game/preparation.py. *)
(*                                                                         *)
(* One web process.  A request and the task it leaves are one "job".  The  *)
(* task's statements are autocommit; a request's write is seen when it     *)
(* commits, and locks the plan until then.                                 *)
(***************************************************************************)
EXTENDS Integers, FiniteSets

CONSTANTS
  Dungeons,    \* pairs of a user and a resource, each with its study plan
  Users, Owner,        \* Owner[d]: whose dungeon d is
  Jobs,        \* requests under way, each with the task that it leaves
  MaxActive,   \* max_concurrent_jobs
  MaxPerUser,  \* max_concurrent_jobs_per_user
  MaxRegions,  \* bound: regions that are explored
  MaxFaults    \* bound: raised exceptions, dropped tasks, restarts, broken quizzes

ASSUME PreparationAssumption ==
  /\ Owner \in [Dungeons -> Users]
  /\ Dungeons # {}
  /\ IsFiniteSet(Jobs)
  /\ {MaxActive, MaxPerUser} \subseteq Nat \ {0}
  /\ {MaxRegions, MaxFaults} \subseteq Nat

VARIABLES
  target,      \* regions that the explored places open (the frontier)
  regions,     \* StudyPlan.adventure_prepared_regions
  pool,        \* regions that usable quizzes fill
  status, required, \* StudyPlan.preparation_status, _required (in regions)
  stale,       \* StudyPlan.preparation_updated is more than 15 minutes old
  slots,       \* _jobs_by_user
  active,      \* _active_jobs
  scheduled,   \* _scheduled_resources
  pc, dungeon, kind,   \* jobs: where they stand, for what
  goal, seen,  \* jobs: the frontier and the regions they read
  blocked,     \* jobs: _preparation_blocked
  dropped,     \* reservations whose task was never started (for the properties)
  lost,        \* marks left by such jobs or by jobs that timed out in the queue
  filled,      \* the most regions that were ever filled (for the properties)
  faults

planVars == <<target, regions, pool, status, required, stale, filled>>
slotVars == <<slots, active, scheduled, dropped, lost>>
jobVars  == <<pc, dungeon, kind, goal, seen, blocked>>
vars == <<planVars, slotVars, jobVars, faults>>

Kinds    == {"visit", "retry", "plan"}
Statuses == {"idle", "queued", "running", "ready", "failed", "exhausted"}
Asking   == {"look", "mark", "reserve", "queue", "commit"}
Working  == {"start", "fill", "record", "write", "settle", "end"}
Labels   == {"idle", "wait"} \cup Asking \cup Working

NoDungeon == CHOOSE d \in Dungeons : TRUE   \* what an idle job points at

Init ==
  /\ target = [d \in Dungeons |-> 0]
  /\ regions = [d \in Dungeons |-> 0]
  /\ pool = [d \in Dungeons |-> 0]
  /\ filled = [d \in Dungeons |-> 0]
  /\ status = [d \in Dungeons |-> "idle"]
  /\ required = [d \in Dungeons |-> 0]
  /\ stale = [d \in Dungeons |-> FALSE]
  /\ slots = [u \in Users |-> 0] /\ active = 0 /\ scheduled = {}
  /\ dropped = [u \in Users |-> 0] /\ lost = {}
  /\ pc = [j \in Jobs |-> "idle"]
  /\ dungeon = [j \in Jobs |-> NoDungeon]
  /\ kind = [j \in Jobs |-> "visit"]
  /\ goal = [j \in Jobs |-> 0]
  /\ seen = [j \in Jobs |-> 0]
  /\ blocked = [j \in Jobs |-> FALSE]
  /\ faults = 0

----------------------------------------------------------------------------
(* What the statements read and write *)

At(j, label)   == pc[j] = label
Goto(j, label) == pc' = [pc EXCEPT ![j] = label]
User(j) == Owner[dungeon[j]]
ForGame(j) == kind[j] # "plan"
LeastOf(a, b) == IF a < b THEN a ELSE b

\* preparation_states: what is queued or running for too long reads as failed.
Shown(d) == IF stale[d] /\ status[d] \in {"queued", "running"} THEN "failed" ELSE status[d]

\* dungeon_quiz_progress: completion never exceeds what the quizzes fill.
Prepared(d) == IF pool[d] = 0 THEN 0 ELSE LeastOf(regions[d], pool[d] - 1)

\* A queued write locks the plan until the request commits.
Locked(d) == \E j \in Jobs : At(j, "commit") /\ dungeon[j] = d

\* set_preparation_state.
SetState(d, new, n) ==
  /\ status' = [status EXCEPT ![d] = new]
  /\ required' = [required EXCEPT ![d] = n]
  /\ stale' = [stale EXCEPT ![d] = FALSE]

\* The job is over.
Close(j) ==
  /\ Goto(j, "idle")
  /\ dungeon' = [dungeon EXCEPT ![j] = NoDungeon]
  /\ kind' = [kind EXCEPT ![j] = "visit"]
  /\ goal' = [goal EXCEPT ![j] = 0]
  /\ seen' = [seen EXCEPT ![j] = 0]
  /\ blocked' = [blocked EXCEPT ![j] = FALSE]

Unmark(j) ==
  IF ForGame(j)
  THEN scheduled' = scheduled \ {dungeon[j]} /\ lost' = lost \ {dungeon[j]}
  ELSE UNCHANGED <<scheduled, lost>>

\* One slot of the user less, never below 0.
GiveBack(j) ==
  slots' = [slots EXCEPT ![User(j)] = IF @ > 0 THEN @ - 1 ELSE 0]

Fault == faults < MaxFaults /\ faults' = faults + 1

----------------------------------------------------------------------------
(* schedule_dungeon_quizzes, prepare_study_plans_api *)

\* The request reads the adventure and the states of the plans.
Ask(j, d, k) ==
  /\ At(j, "idle")
  /\ Goto(j, "look")
  /\ dungeon' = [dungeon EXCEPT ![j] = d]
  /\ kind' = [kind EXCEPT ![j] = k]
  /\ goal' = [goal EXCEPT ![j] = IF k = "plan" THEN 0 ELSE target[d]]
  /\ blocked' = [blocked EXCEPT ![j] =
       \/ Shown(d) \in {"queued", "running"}
       \/ /\ k = "visit" /\ Shown(d) \in {"failed", "exhausted"}
          /\ required[d] >= target[d] + 1]
  /\ UNCHANGED <<planVars, slotVars, seen, faults>>

\* A visit leaves a dungeon alone that is marked; a plan answers 409.  From here
\* on a retry is like a visit.
Look(j) ==
  /\ At(j, "look")
  /\ IF \/ kind[j] = "visit" /\ dungeon[j] \in scheduled
        \/ kind[j] = "plan" /\ blocked[j]
     THEN Close(j)
     ELSE /\ Goto(j, IF ForGame(j) THEN "mark" ELSE "reserve")
          /\ kind' = [kind EXCEPT ![j] = IF @ = "retry" THEN "visit" ELSE @]
          /\ UNCHANGED <<dungeon, goal, seen, blocked>>
  /\ UNCHANGED <<planVars, slotVars, faults>>

\* Only now, some statements later, the dungeon is marked.
Mark(j) ==
  LET d == dungeon[j] IN
  /\ At(j, "mark")
  /\ IF /\ goal[j] > Prepared(d) \/ (goal[j] = 0 /\ pool[d] = 0)
        /\ ~blocked[j]
     THEN /\ scheduled' = scheduled \cup {d}
          /\ lost' = lost \ {d}
          /\ Goto(j, "reserve")
          /\ UNCHANGED <<dungeon, kind, goal, seen, blocked>>
     ELSE Close(j) /\ UNCHANGED <<scheduled, lost>>
  /\ UNCHANGED <<planVars, slots, active, dropped, faults>>

\* QuizPreparationController.reserve; the limit takes the mark back.
\* (Faulty variant: the mark stays.)
ReserveKeepMark(j) ==
  /\ At(j, "reserve")
  /\ IF slots[User(j)] < MaxPerUser
     THEN /\ slots' = [slots EXCEPT ![User(j)] = @ + 1]
          /\ Goto(j, "queue")
          /\ UNCHANGED <<dungeon, kind, goal, seen, blocked>>
     ELSE Close(j) /\ UNCHANGED slots
  /\ UNCHANGED <<planVars, active, scheduled, dropped, lost, faults>>
Reserve(j) ==
  /\ At(j, "reserve")
  /\ IF slots[User(j)] < MaxPerUser
     THEN /\ slots' = [slots EXCEPT ![User(j)] = @ + 1]
          /\ Goto(j, "queue")
          /\ UNCHANGED <<scheduled, lost, dungeon, kind, goal, seen, blocked>>
     ELSE Close(j) /\ Unmark(j) /\ UNCHANGED slots
  /\ UNCHANGED <<planVars, active, dropped, faults>>

\* The settings cannot be read.
ReserveFails(j) ==
  /\ At(j, "reserve") /\ Fault
  /\ Close(j) /\ Unmark(j)
  /\ UNCHANGED <<planVars, slots, active, dropped>>

\* The state is written in the request's transaction.
Queue(j) ==
  /\ At(j, "queue") /\ ~Locked(dungeon[j])
  /\ Goto(j, "commit")
  /\ UNCHANGED <<planVars, slotVars, dungeon, kind, goal, seen, blocked, faults>>

\* ... or it cannot be: mark and reservation are taken back.
\* (Faulty variant: only the mark.)
QueueFailsKeepSlot(j) ==
  /\ At(j, "queue") /\ Fault
  /\ Close(j) /\ Unmark(j)
  /\ UNCHANGED <<planVars, slots, active, dropped>>
QueueFails(j) ==
  /\ At(j, "queue") /\ Fault
  /\ Close(j) /\ Unmark(j) /\ GiveBack(j)
  /\ UNCHANGED <<planVars, active, dropped>>

\* The request commits and its background task begins to wait.
Commit(j) ==
  LET d == dungeon[j] IN
  /\ At(j, "commit")
  /\ SetState(d, "queued", IF ForGame(j) THEN goal[j] + 1 ELSE pool[d] + 1)
  /\ Goto(j, "wait")
  /\ UNCHANGED <<target, regions, pool, filled, slotVars, dungeon, kind, goal, seen,
                 blocked, faults>>

\* The request fails after it registered the task, which is never started.
Drop(j) ==
  /\ At(j, "commit") /\ Fault
  /\ dropped' = [dropped EXCEPT ![User(j)] = @ + 1]
  /\ lost' = IF ForGame(j) /\ dungeon[j] \in scheduled THEN lost \cup {dungeon[j]} ELSE lost
  /\ Close(j)
  /\ UNCHANGED <<planVars, slots, active, scheduled>>

----------------------------------------------------------------------------
(* QuizPreparationController.execute *)

Admit(j) ==
  /\ At(j, "wait") /\ active < MaxActive
  /\ active' = active + 1
  /\ Goto(j, "start")
  /\ UNCHANGED <<planVars, slots, scheduled, dropped, lost, dungeon, kind, goal, seen,
                 blocked, faults>>

\* finally: the slots are free again.
End(j) ==
  /\ At(j, "end")
  /\ active' = active - 1
  /\ GiveBack(j) /\ Unmark(j) /\ Close(j)
  /\ UNCHANGED <<planVars, dropped, faults>>

\* 15 minutes are over.  In the queue the operation, and with it the removal of
\* the mark, has not begun.
\* (Faulty variant: the timeout covers the wait only.)
TimeOutInQueueOnly(j) ==
  /\ At(j, "wait")
  /\ GiveBack(j)
  /\ lost' = IF ForGame(j) /\ dungeon[j] \in scheduled THEN lost \cup {dungeon[j]} ELSE lost
  /\ Close(j)
  /\ UNCHANGED <<planVars, active, scheduled, dropped, faults>>
TimeOut(j) ==
  \/ /\ At(j, "wait")
     /\ GiveBack(j)
     /\ lost' = IF ForGame(j) /\ dungeon[j] \in scheduled THEN lost \cup {dungeon[j]} ELSE lost
     /\ Close(j)
     /\ UNCHANGED <<planVars, active, scheduled, dropped, faults>>
  \/ /\ pc[j] \in Working \ {"end"}
     /\ \/ UNCHANGED <<status, required, stale>>
        \/ /\ At(j, "fill") /\ ~Locked(dungeon[j])
           /\ SetState(dungeon[j], "failed", required[dungeon[j]])
     /\ Goto(j, "end")
     /\ UNCHANGED <<target, regions, pool, filled, slotVars, dungeon, kind, goal, seen,
                    blocked, faults>>

----------------------------------------------------------------------------
(* prepare_dungeon_quizzes, prepare_study_plans_in_background *)

\* The region that a job fills next.
Level(j) ==
  IF ~ForGame(j) THEN goal[j]
  ELSE IF goal[j] = 0 THEN 1 ELSE LeastOf(seen[j] + 2, goal[j] + 1)

\* A round begins: the frontier and the completion are read, "running" is shown.
Start(j) ==
  LET d == dungeon[j]
      n == IF ForGame(j) THEN target[d] ELSE LeastOf(pool[d], MaxRegions) + 1 IN
  /\ At(j, "start") /\ ~Locked(d)
  /\ goal' = [goal EXCEPT ![j] = n]
  /\ seen' = [seen EXCEPT ![j] = regions[d]]
  /\ SetState(d, "running", IF ForGame(j) THEN n + 1 ELSE n)
  /\ Goto(j, "fill")
  /\ UNCHANGED <<target, regions, pool, filled, slotVars, dungeon, kind, blocked, faults>>

\* Quizzes are generated if they are missing; there may not be enough candidates.
Fill(j) ==
  LET d == dungeon[j] IN
  /\ At(j, "fill")
  /\ IF ForGame(j) /\ pool[d] >= Level(j)
     THEN UNCHANGED <<pool, filled, status, required, stale>>
     ELSE /\ ~Locked(d)
          /\ \E n \in pool[d] .. Level(j) :
               /\ pool' = [pool EXCEPT ![d] = IF n > @ THEN n ELSE @]
               /\ SetState(d, IF n = Level(j) THEN "ready" ELSE "exhausted", Level(j))
          /\ filled' = [filled EXCEPT ![d] = IF pool'[d] > @ THEN pool'[d] ELSE @]
  /\ Goto(j, IF ForGame(j) THEN "record" ELSE "end")
  /\ UNCHANGED <<target, regions, slotVars, dungeon, kind, goal, seen, blocked, faults>>

\* The pool is looked at again, then the completion (the WHERE of
\* complete_adventure_quiz_region; another task may be ahead).
\* (Faulty variant: the pool is not looked at.)
RecordUnfilled(j) ==
  LET d == dungeon[j] IN
  /\ At(j, "record")
  /\ Goto(j, IF goal[j] <= seen[j] THEN "settle"
             ELSE IF regions[d] = seen[j] THEN "write" ELSE "start")
  /\ UNCHANGED <<planVars, slotVars, dungeon, kind, goal, seen, blocked, faults>>
Record(j) ==
  LET d == dungeon[j] IN
  /\ At(j, "record")
  /\ IF pool[d] < Level(j)
     THEN /\ ~Locked(d)
          /\ SetState(d, "exhausted", goal[j] + 1)
          /\ Goto(j, "end")
     ELSE /\ Goto(j, IF goal[j] <= seen[j] THEN "settle"
                     ELSE IF regions[d] = seen[j] THEN "write" ELSE "start")
          /\ UNCHANGED <<status, required, stale>>
  /\ UNCHANGED <<target, regions, pool, filled, slotVars, dungeon, kind, goal, seen,
                 blocked, faults>>

\* The SET of the same statement.
Write(j) ==
  LET d == dungeon[j] IN
  /\ At(j, "write") /\ ~Locked(d)
  /\ regions' = [regions EXCEPT ![d] = seen[j] + 1]
  /\ Goto(j, IF goal[j] = seen[j] + 1 THEN "settle" ELSE "start")
  /\ UNCHANGED <<target, pool, filled, status, required, stale, slotVars, dungeon, kind,
                 goal, seen, blocked, faults>>

Settle(j) ==
  /\ At(j, "settle") /\ ~Locked(dungeon[j])
  /\ SetState(dungeon[j], "ready", goal[j] + 1)
  /\ Goto(j, "end")
  /\ UNCHANGED <<target, regions, pool, filled, slotVars, dungeon, kind, goal, seen,
                 blocked, faults>>

\* An exception of the operation is caught and shown, if that write succeeds.
Raise(j) ==
  /\ pc[j] \in Working \ {"end"} /\ Fault
  /\ \/ UNCHANGED <<status, required, stale>>
     \/ /\ ~Locked(dungeon[j])
        /\ SetState(dungeon[j], "failed", required[dungeon[j]])
  /\ Goto(j, "end")
  /\ UNCHANGED <<target, regions, pool, filled, slotVars, dungeon, kind, goal, seen,
                 blocked>>

----------------------------------------------------------------------------
(* The world around *)

\* The user explores the places of another region.
Explore(d) ==
  /\ target[d] < MaxRegions
  /\ target' = [target EXCEPT ![d] = @ + 1]
  /\ UNCHANGED <<regions, pool, filled, status, required, stale, slotVars, jobVars, faults>>

\* Changes of the source text break quizzes.
Break(d) ==
  /\ pool[d] > 0 /\ Fault
  /\ pool' = [pool EXCEPT ![d] = @ - 1]
  /\ UNCHANGED <<target, regions, filled, status, required, stale, slotVars, jobVars>>

\* 15 minutes after the last write; a task that wrote has timed out by then.
Age(d) ==
  /\ ~stale[d] /\ status[d] \in {"queued", "running"}
  /\ \A j \in Jobs : dungeon[j] = d => pc[j] \notin Working \ {"start"}
  /\ stale' = [stale EXCEPT ![d] = TRUE]
  /\ UNCHANGED <<target, regions, pool, filled, status, required, slotVars, jobVars,
                 faults>>

\* The memory of the process is gone, the states of the plans remain.
Restart ==
  /\ Fault
  /\ slots' = [u \in Users |-> 0] /\ active' = 0 /\ scheduled' = {}
  /\ dropped' = [u \in Users |-> 0] /\ lost' = {}
  /\ pc' = [j \in Jobs |-> "idle"]
  /\ dungeon' = [j \in Jobs |-> NoDungeon]
  /\ kind' = [j \in Jobs |-> "visit"]
  /\ goal' = [j \in Jobs |-> 0]
  /\ seen' = [j \in Jobs |-> 0]
  /\ blocked' = [j \in Jobs |-> FALSE]
  /\ UNCHANGED planVars

Request(j) == Look(j) \/ Mark(j) \/ Reserve(j) \/ Queue(j) \/ Commit(j)

Work(j) == Start(j) \/ Fill(j) \/ Record(j) \/ Write(j) \/ Settle(j)

Next ==
  \/ \E j \in Jobs :
       \/ \E d \in Dungeons, k \in Kinds : Ask(j, d, k)
       \/ Request(j) \/ ReserveFails(j) \/ QueueFails(j) \/ Drop(j)
       \/ Admit(j) \/ Work(j) \/ Raise(j) \/ TimeOut(j) \/ End(j)
  \/ \E d \in Dungeons : Explore(d) \/ Break(d) \/ Age(d)
  \/ Restart

Spec == Init /\ [][Next]_vars

\* The event loop runs what can run and the timeouts, and locks are granted in
\* order; what the operation calls may hang.
Fairness == \A j \in Jobs : SF_vars(Request(j)) /\ WF_vars(End(j)) /\ WF_vars(TimeOut(j))

FairSpec == Spec /\ Fairness

----------------------------------------------------------------------------
(* Properties *)

TypeOK ==
  /\ {target, regions, pool, filled, required} \subseteq [Dungeons -> Nat]
  /\ status \in [Dungeons -> Statuses] /\ stale \in [Dungeons -> BOOLEAN]
  /\ slots \in [Users -> 0 .. MaxPerUser] /\ active \in 0 .. MaxActive
  /\ dropped \in [Users -> Nat]
  /\ scheduled \subseteq Dungeons /\ lost \subseteq scheduled
  /\ pc \in [Jobs -> Labels]
  /\ dungeon \in [Jobs -> Dungeons] /\ kind \in [Jobs -> Kinds]
  /\ {goal, seen} \subseteq [Jobs -> Nat]
  /\ blocked \in [Jobs -> BOOLEAN]
  /\ faults \in Nat

\* Jobs that hold a reservation.
Holders == {j \in Jobs : pc[j] \in {"queue", "commit", "wait"} \cup Working}

\* Every reservation is that of a request or task under way, or of a task that was
\* never started: whatever fails or times out, in whatever order, each is
\* given back once (preparation_control.py:56-75, game/preparation.py:259-276).
SlotsAddUp ==
  /\ active = Cardinality({j \in Jobs : pc[j] \in Working})
  /\ \A u \in Users :
       slots[u] = Cardinality({j \in Holders : User(j) = u}) + dropped[u]

\* A mark is that of a request or task that will remove it, except those that
\* time out in the queue leave behind (game/preparation.py:165-169, 238-262).
MarksHaveJobs ==
  \A d \in scheduled \ lost :
    \E j \in Jobs : dungeon[j] = d /\ ForGame(j) /\ pc[j] \notin {"idle", "look", "mark"}

\* A region is recorded as prepared only when it was opened and the quizzes for
\* it and all before it existed (game/preparation.py:107-147).
RecordedWereFilled ==
  \A d \in Dungeons : regions[d] > 0 => regions[d] <= target[d] /\ regions[d] < filled[d]

\* Every reserved job ends, although its operation may hang
\* (test_preparation_control.py:80).
JobsEnd == \A j \in Jobs : At(j, "look") ~> At(j, "idle")

\* preparation_control.py:32: a user at the limit has quizzes being prepared.
BlockedOnlyWhilePreparing ==
  \A u \in Users : slots[u] >= MaxPerUser => \E j \in Holders : User(j) = u

============================================================================
