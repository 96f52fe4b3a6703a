----------------------- MODULE QuizPreparationProofs -----------------------
(***************************************************************************)
(* Proofs about QuizPreparation for every number of users, dungeons and    *)
(* jobs, every limit and every bound: the reservations of a user are those *)
(* of the requests and tasks under way, however they end; recorded regions *)
(* were filled; marks of dungeons belong to jobs.  And of StudyPlans, for  *)
(* all plans, sentences, quizzes and requests: what a plan and the pages   *)
(* that show it say stays true however preparations, recommendations,      *)
(* edits and imports interleave.                                           *)
(***************************************************************************)
EXTENDS QuizPreparation, StudyPlans, FiniteSetTheorems, WellFoundedInduction, TLAPS

----------------------------------------------------------------------------
(* Types *)

PlanTypes ==
  /\ target \in [Dungeons -> Nat] /\ regions \in [Dungeons -> Nat]
  /\ pool \in [Dungeons -> Nat] /\ filled \in [Dungeons -> Nat]
  /\ required \in [Dungeons -> Nat]
  /\ status \in [Dungeons -> Statuses] /\ stale \in [Dungeons -> BOOLEAN]

JobTypes ==
  /\ pc \in [Jobs -> Labels]
  /\ dungeon \in [Jobs -> Dungeons] /\ kind \in [Jobs -> Kinds]
  /\ goal \in [Jobs -> Nat] /\ seen \in [Jobs -> Nat]
  /\ blocked \in [Jobs -> BOOLEAN]

SlotTypes ==
  /\ slots \in [Users -> 0 .. MaxPerUser] /\ active \in 0 .. MaxActive
  /\ dropped \in [Users -> Nat]
  /\ scheduled \subseteq Dungeons /\ lost \subseteq scheduled

\* Everything that is needed to count reservations.
Inv == PlanTypes /\ JobTypes /\ SlotTypes /\ faults \in Nat /\ SlotsAddUp

USE DEF Kinds, Statuses, Asking, Working, Labels, planVars, slotVars, jobVars, At, Goto

LEMMA NoDungeonType == NoDungeon \in Dungeons
BY PreparationAssumption DEF NoDungeon

LEMMA PlanTypesStable == PlanTypes /\ UNCHANGED planVars => PlanTypes'
BY DEF PlanTypes

LEMMA StateTypes ==
  ASSUME PlanTypes, NEW d \in Dungeons, NEW new \in Statuses, NEW n \in Nat,
         SetState(d, new, n), UNCHANGED <<target, regions>>,
         pool' \in [Dungeons -> Nat], filled' \in [Dungeons -> Nat]
  PROVE  PlanTypes'
BY DEF PlanTypes, SetState

\* A job that ends and a job that moves on.
LEMMA CloseTypes ==
  ASSUME JobTypes, NEW j \in Jobs, Close(j)
  PROVE  JobTypes'
BY NoDungeonType DEF JobTypes, Close

LEMMA MoveTypes ==
  ASSUME JobTypes, NEW j \in Jobs, NEW label \in Labels, Goto(j, label),
         UNCHANGED <<dungeon, kind, goal, seen, blocked>>
  PROVE  JobTypes'
BY DEF JobTypes

----------------------------------------------------------------------------
(* Counting *)

WorkingJobs == {j \in Jobs : pc[j] \in Working}
HoldersOf(u) == {j \in Holders : User(j) = u}

LEMMA CountsFinite ==
  /\ IsFiniteSet(WorkingJobs) /\ Cardinality(WorkingJobs) \in Nat
  /\ \A u : IsFiniteSet(HoldersOf(u)) /\ Cardinality(HoldersOf(u)) \in Nat
BY PreparationAssumption, FS_Subset, FS_CardinalityType
   DEF WorkingJobs, HoldersOf, Holders

LEMMA SlotsAddUpCounts ==
  SlotsAddUp <=> /\ active = Cardinality(WorkingJobs)
                 /\ \A u \in Users : slots[u] = Cardinality(HoldersOf(u)) + dropped[u]
BY DEF SlotsAddUp, WorkingJobs, HoldersOf

\* Adding and removing a member of a finite set.
LEMMA OneMore ==
  ASSUME NEW S, NEW x, IsFiniteSet(S), x \notin S
  PROVE  Cardinality(S \cup {x}) = Cardinality(S) + 1
BY FS_AddElement

LEMMA OneLess ==
  ASSUME NEW S, NEW x, IsFiniteSet(S), x \in S
  PROVE  /\ Cardinality(S) \in Nat \ {0}
         /\ Cardinality(S \ {x}) = Cardinality(S) - 1
<1>1. Cardinality(S) \in Nat /\ Cardinality(S) # 0
  BY FS_CardinalityType, FS_EmptySet
<1>2. Cardinality(S \ {x}) = Cardinality(S) - 1
  BY FS_RemoveElement
<1>. QED
  BY <1>1, <1>2

HoldPCs == {"queue", "commit", "wait"} \cup Working

SlotsMatch == \A u \in Users : slots[u] = Cardinality(HoldersOf(u)) + dropped[u]
ActiveMatches == active = Cardinality(WorkingJobs)

LEMMA Matches == SlotsAddUp <=> ActiveMatches /\ SlotsMatch
BY SlotsAddUpCounts DEF ActiveMatches, SlotsMatch

LEMMA UserType ==
  ASSUME JobTypes, NEW j \in Jobs
  PROVE  User(j) \in Users
BY PreparationAssumption DEF JobTypes, User

\* A job moves on, for the same dungeon.
LEMMA WorkingSame ==
  ASSUME JobTypes, NEW j \in Jobs, NEW label \in Labels, Goto(j, label),
         pc[j] \in Working <=> label \in Working
  PROVE  WorkingJobs' = WorkingJobs
<1>1. \A i \in Jobs : pc'[i] \in Working <=> pc[i] \in Working
  BY DEF JobTypes
<1>. QED
  BY <1>1, Zenon DEF WorkingJobs

LEMMA HoldersSame ==
  ASSUME JobTypes, NEW j \in Jobs, NEW label \in Labels, Goto(j, label),
         pc[j] \in HoldPCs <=> label \in HoldPCs,
         label \in HoldPCs => UNCHANGED dungeon,
         \A i \in Jobs : i # j => dungeon'[i] = dungeon[i]
  PROVE  \A u : HoldersOf(u)' = HoldersOf(u)
<1>. TAKE u
<1>1. \A i \in Jobs : pc'[i] \in HoldPCs <=> pc[i] \in HoldPCs
  BY DEF JobTypes
<1>2. \A i \in Jobs : pc[i] \in HoldPCs => dungeon'[i] = dungeon[i]
  <2>1. pc[j] \in HoldPCs => dungeon'[j] = dungeon[j]
    OBVIOUS
  <2>. QED
    BY <2>1
<1>3. HoldersOf(u) = {i \in Jobs : pc[i] \in HoldPCs /\ Owner[dungeon[i]] = u}
  BY Zenon DEF HoldersOf, Holders, User, HoldPCs
<1>4. HoldersOf(u)' = {i \in Jobs : pc'[i] \in HoldPCs /\ Owner[dungeon'[i]] = u}
  BY Zenon DEF HoldersOf, Holders, User, HoldPCs
<1>. QED
  BY <1>1, <1>2, <1>3, <1>4

\* A job that holds a reservation ends.
LEMMA HoldersLeave ==
  ASSUME JobTypes, NEW j \in Jobs, Close(j), pc[j] \in HoldPCs
  PROVE  \A u : /\ u = User(j) => j \in HoldersOf(u) /\ HoldersOf(u)' = HoldersOf(u) \ {j}
                /\ u # User(j) => HoldersOf(u)' = HoldersOf(u)
<1>1. ASSUME NEW u PROVE HoldersOf(u)' = HoldersOf(u) \ {j}
  <2>1. HoldersOf(u) = {i \in Jobs : pc[i] \in HoldPCs /\ Owner[dungeon[i]] = u}
    BY Zenon DEF HoldersOf, Holders, User, HoldPCs
  <2>2. HoldersOf(u)' = {i \in Jobs : pc'[i] \in HoldPCs /\ Owner[dungeon'[i]] = u}
    BY Zenon DEF HoldersOf, Holders, User, HoldPCs
  <2>3. \A i \in Jobs : i # j => pc'[i] = pc[i] /\ dungeon'[i] = dungeon[i]
    BY DEF Close, JobTypes
  <2>4. pc'[j] \notin HoldPCs
    BY DEF Close, JobTypes, HoldPCs
  <2>. QED
    BY <2>1, <2>2, <2>3, <2>4
<1>2. \A u : j \in HoldersOf(u) <=> u = User(j)
  BY Zenon DEF HoldersOf, Holders, HoldPCs
<1>. QED
  BY <1>1, <1>2

\* ... and gives its slot back.
LEMMA GiveBackMatches ==
  ASSUME Inv, NEW j \in Jobs, Close(j), pc[j] \in HoldPCs, GiveBack(j), UNCHANGED dropped
  PROVE  SlotsMatch' /\ slots' \in [Users -> 0 .. MaxPerUser]
<1>1. User(j) \in Users /\ SlotsMatch
  BY UserType, Matches DEF Inv
<1>2. slots \in [Users -> 0 .. MaxPerUser] /\ dropped \in [Users -> Nat] /\ MaxPerUser \in Nat
  BY PreparationAssumption DEF Inv, SlotTypes
<1>3. \A u \in Users \ {User(j)} : slots'[u] = slots[u] /\ HoldersOf(u)' = HoldersOf(u)
  BY <1>1, <1>2, HoldersLeave DEF Inv, GiveBack
<1>4. ASSUME NEW u \in Users, u = User(j)
      PROVE  /\ Cardinality(HoldersOf(u)) \in Nat \ {0}
             /\ Cardinality(HoldersOf(u)') = Cardinality(HoldersOf(u)) - 1
  <2>1. j \in HoldersOf(u) /\ HoldersOf(u)' = HoldersOf(u) \ {j} /\ IsFiniteSet(HoldersOf(u))
    BY <1>4, HoldersLeave, CountsFinite DEF Inv
  <2>. QED
    BY <2>1, OneLess
<1>5. ASSUME NEW u \in Users, u = User(j)
      PROVE  slots[u] > 0 /\ slots'[u] = slots[u] - 1
  <2>1. slots[u] = Cardinality(HoldersOf(u)) + dropped[u]
    BY <1>1 DEF SlotsMatch
  <2>2. slots[u] > 0
    BY <2>1, <1>2, <1>4, <1>5
  <2>. QED
    BY <2>2, <1>2, <1>5 DEF GiveBack
<1>6. ASSUME NEW u \in Users
      PROVE  slots'[u] = Cardinality(HoldersOf(u)') + dropped'[u]
  <2>1. slots[u] = Cardinality(HoldersOf(u)) + dropped[u]
    BY <1>1 DEF SlotsMatch
  <2>2. CASE u = User(j)
    BY <2>1, <2>2, <1>2, <1>4, <1>5
  <2>3. CASE u # User(j)
    BY <2>1, <2>3, <1>3
  <2>. QED
    BY <2>2, <2>3
<1>7. slots' \in [Users -> 0 .. MaxPerUser]
  BY <1>1, <1>2 DEF GiveBack
<1>. QED
  BY <1>6, <1>7 DEF SlotsMatch

----------------------------------------------------------------------------
(* Steps that move no reservation *)

LEMMA Quiet ==
  ASSUME Inv, UNCHANGED <<slots, active, dropped>>, WorkingJobs' = WorkingJobs,
         \A u : HoldersOf(u)' = HoldersOf(u)
  PROVE  SlotsAddUp'
<1>1. ActiveMatches' /\ SlotsMatch'
  BY Matches DEF Inv, ActiveMatches, SlotsMatch
<1>. QED
  BY <1>1, SlotsAddUpCounts DEF ActiveMatches, SlotsMatch, SlotsAddUp, WorkingJobs, HoldersOf

LEMMA QuietMove ==
  ASSUME Inv, NEW j \in Jobs, NEW label \in Labels, Goto(j, label),
         UNCHANGED <<slots, active, dropped, dungeon>>,
         pc[j] \in Working <=> label \in Working, pc[j] \in HoldPCs <=> label \in HoldPCs
  PROVE  SlotsAddUp'
BY Quiet, WorkingSame, HoldersSame DEF Inv

LEMMA QuietClose ==
  ASSUME Inv, NEW j \in Jobs, Close(j), pc[j] \notin HoldPCs,
         UNCHANGED <<slots, active, dropped>>
  PROVE  JobTypes' /\ SlotsAddUp'
<1>1. Goto(j, "idle") /\ \A i \in Jobs : i # j => dungeon'[i] = dungeon[i]
  BY DEF Close, Inv, JobTypes
<1>2. "idle" \notin HoldPCs /\ "idle" \notin Working /\ pc[j] \notin Working
  BY DEF HoldPCs
<1>3. WorkingJobs' = WorkingJobs /\ \A u : HoldersOf(u)' = HoldersOf(u)
  BY <1>1, <1>2, WorkingSame, HoldersSame DEF Inv
<1>. QED
  BY <1>3, Quiet, CloseTypes DEF Inv

\* Marks are marks of dungeons.
MarkTypes == scheduled \subseteq Dungeons /\ lost \subseteq scheduled

LEMMA UnmarkTypes ==
  ASSUME SlotTypes, NEW j \in Jobs, Unmark(j)
  PROVE  MarkTypes'
BY DEF SlotTypes, MarkTypes, Unmark

LEMMA MatchesNext == ActiveMatches' /\ SlotsMatch' => SlotsAddUp'
BY DEF ActiveMatches, SlotsMatch, SlotsAddUp, WorkingJobs, HoldersOf

LEMMA SlotTypesStable == SlotTypes /\ UNCHANGED slotVars => SlotTypes'
BY DEF SlotTypes

----------------------------------------------------------------------------
(* Requests *)

LEMMA AskInv ==
  ASSUME Inv, NEW j \in Jobs, NEW d \in Dungeons, NEW k \in Kinds, Ask(j, d, k)
  PROVE  Inv'
<1>1. PlanTypes' /\ SlotTypes' /\ faults' \in Nat
  BY PlanTypesStable, SlotTypesStable DEF Ask, Inv
<1>2. JobTypes'
  BY DEF Ask, Inv, JobTypes, PlanTypes
<1>3. Goto(j, "look") /\ \A i \in Jobs : i # j => dungeon'[i] = dungeon[i]
  BY DEF Ask, Inv, JobTypes
<1>4. pc[j] = "idle" /\ UNCHANGED <<slots, active, dropped>>
  BY DEF Ask
<1>5. WorkingJobs' = WorkingJobs
  BY <1>3, <1>4, WorkingSame DEF Inv
<1>6. \A u : HoldersOf(u)' = HoldersOf(u)
  BY <1>3, <1>4, HoldersSame DEF Inv, HoldPCs
<1>. QED
  BY <1>1, <1>2, <1>4, <1>5, <1>6, Quiet DEF Inv

LEMMA LookInv ==
  ASSUME Inv, NEW j \in Jobs, Look(j)
  PROVE  Inv'
<1>1. PlanTypes' /\ SlotTypes' /\ faults' \in Nat /\ UNCHANGED <<slots, active, dropped>>
  BY PlanTypesStable, SlotTypesStable DEF Look, Inv
<1>2. CASE Close(j)
  <2>1. pc[j] \notin HoldPCs
    BY DEF Look, HoldPCs
  <2>. QED
    BY <1>1, <1>2, <2>1, QuietClose DEF Inv
<1>3. CASE ~Close(j)
  <2>1. PICK label \in {"mark", "reserve"} : Goto(j, label)
    BY <1>3 DEF Look
  <2>2. pc[j] = "look" /\ UNCHANGED dungeon
    BY <1>3 DEF Look
  <2>3. SlotsAddUp'
    BY <1>1, <2>1, <2>2, QuietMove DEF HoldPCs
  <2>4. JobTypes'
    BY <1>3, <2>1 DEF Look, Inv, JobTypes
  <2>. QED
    BY <1>1, <2>3, <2>4 DEF Inv
<1>. QED
  BY <1>2, <1>3

LEMMA MarkInv ==
  ASSUME Inv, NEW j \in Jobs, Mark(j)
  PROVE  Inv'
<1>1. PlanTypes' /\ faults' \in Nat /\ UNCHANGED <<slots, active, dropped>> /\ pc[j] = "mark"
  BY PlanTypesStable DEF Mark, Inv
<1>2. SlotTypes'
  BY DEF Mark, Inv, SlotTypes, JobTypes
<1>3. CASE Close(j)
  <2>1. pc[j] \notin HoldPCs
    BY <1>1 DEF HoldPCs
  <2>. QED
    BY <1>1, <1>2, <1>3, <2>1, QuietClose DEF Inv
<1>4. CASE ~Close(j)
  <2>1. Goto(j, "reserve") /\ UNCHANGED <<dungeon, kind, goal, seen, blocked>>
    BY <1>4 DEF Mark
  <2>2. SlotsAddUp'
    BY <1>1, <2>1, QuietMove DEF HoldPCs
  <2>3. JobTypes'
    BY <2>1, MoveTypes DEF Inv
  <2>. QED
    BY <1>1, <1>2, <2>2, <2>3 DEF Inv
<1>. QED
  BY <1>3, <1>4

\* A reservation that is granted: one holder and one slot more.
LEMMA ReserveMatches ==
  ASSUME Inv, NEW j \in Jobs, Goto(j, "queue"), pc[j] = "reserve", UNCHANGED <<dungeon, dropped>>,
         slots' = [slots EXCEPT ![User(j)] = @ + 1]
  PROVE  SlotsMatch'
<1>1. User(j) \in Users /\ SlotsMatch
  BY UserType, Matches DEF Inv
<1>2. slots \in [Users -> 0 .. MaxPerUser] /\ dropped \in [Users -> Nat] /\ MaxPerUser \in Nat
  BY PreparationAssumption DEF Inv, SlotTypes
<1>3. ASSUME NEW u
      PROVE  /\ u = User(j) => j \notin HoldersOf(u) /\ HoldersOf(u)' = HoldersOf(u) \cup {j}
             /\ u # User(j) => HoldersOf(u)' = HoldersOf(u)
  <2>1. HoldersOf(u) = {i \in Jobs : pc[i] \in HoldPCs /\ Owner[dungeon[i]] = u}
    BY Zenon DEF HoldersOf, Holders, User, HoldPCs
  <2>2. HoldersOf(u)' = {i \in Jobs : pc'[i] \in HoldPCs /\ Owner[dungeon[i]] = u}
    BY Zenon DEF HoldersOf, Holders, User, HoldPCs
  <2>3. \A i \in Jobs : i # j => pc'[i] = pc[i]
    BY DEF Inv, JobTypes
  <2>4. pc[j] \notin HoldPCs /\ pc'[j] \in HoldPCs
    BY DEF Inv, JobTypes, HoldPCs
  <2>5. u = User(j) <=> Owner[dungeon[j]] = u
    BY DEF User
  <2>. QED
    BY <2>1, <2>2, <2>3, <2>4, <2>5
<1>4. ASSUME NEW u \in Users
      PROVE  slots'[u] = Cardinality(HoldersOf(u)') + dropped'[u]
  <2>1. slots[u] = Cardinality(HoldersOf(u)) + dropped[u]
    BY <1>1 DEF SlotsMatch
  <2>2. CASE u = User(j)
    <3>1. Cardinality(HoldersOf(u)') = Cardinality(HoldersOf(u)) + 1
      BY <1>3, <2>2, CountsFinite, OneMore
    <3>2. slots'[u] = slots[u] + 1
      BY <1>2, <2>2
    <3>. QED
      BY <1>2, <2>1, <3>1, <3>2, CountsFinite
  <2>3. CASE u # User(j)
    BY <1>2, <1>3, <2>1, <2>3
  <2>. QED
    BY <2>2, <2>3
<1>. QED
  BY <1>4 DEF SlotsMatch

LEMMA ReserveInv ==
  ASSUME Inv, NEW j \in Jobs, Reserve(j)
  PROVE  Inv'
<1>1. PlanTypes' /\ faults' \in Nat /\ UNCHANGED <<active, dropped>> /\ pc[j] = "reserve"
  BY PlanTypesStable DEF Reserve, Inv
<1>2. CASE slots[User(j)] < MaxPerUser
  <2>1. /\ slots' = [slots EXCEPT ![User(j)] = @ + 1] /\ Goto(j, "queue")
        /\ UNCHANGED <<scheduled, lost, dungeon, kind, goal, seen, blocked>>
    BY <1>2 DEF Reserve
  <2>2. JobTypes'
    BY <2>1, MoveTypes DEF Inv
  <2>3. SlotTypes'
    BY <1>1, <1>2, <2>1, UserType, PreparationAssumption DEF Inv, SlotTypes
  <2>4. WorkingJobs' = WorkingJobs
    BY <1>1, <2>1, WorkingSame DEF Inv
  <2>5. ActiveMatches'
    BY <1>1, <2>4, Matches DEF Inv, ActiveMatches
  <2>6. SlotsMatch'
    BY <1>1, <2>1, ReserveMatches
  <2>. QED
    BY <1>1, <2>2, <2>3, <2>5, <2>6, MatchesNext DEF Inv
<1>3. CASE ~(slots[User(j)] < MaxPerUser)
  <2>1. Close(j) /\ Unmark(j) /\ UNCHANGED slots
    BY <1>3 DEF Reserve
  <2>2. SlotTypes'
    BY <1>1, <2>1, UnmarkTypes DEF Inv, SlotTypes, MarkTypes
  <2>3. pc[j] \notin HoldPCs
    BY <1>1 DEF HoldPCs
  <2>. QED
    BY <1>1, <2>1, <2>2, <2>3, QuietClose DEF Inv
<1>. QED
  BY <1>2, <1>3

LEMMA ReserveFailsInv ==
  ASSUME Inv, NEW j \in Jobs, ReserveFails(j)
  PROVE  Inv'
<1>1. /\ Close(j) /\ Unmark(j) /\ UNCHANGED <<planVars, slots, active, dropped>>
      /\ pc[j] = "reserve" /\ faults' = faults + 1
  BY DEF ReserveFails, Fault
<1>2. SlotTypes' /\ PlanTypes' /\ faults' \in Nat
  BY <1>1, UnmarkTypes, PlanTypesStable DEF Inv, SlotTypes, MarkTypes
<1>3. pc[j] \notin HoldPCs
  BY <1>1 DEF HoldPCs
<1>. QED
  BY <1>1, <1>2, <1>3, QuietClose DEF Inv

LEMMA QueueInv ==
  ASSUME Inv, NEW j \in Jobs, Queue(j) \/ Commit(j)
  PROVE  Inv'
<1>1. PICK label \in {"commit", "wait"} : Goto(j, label)
  BY DEF Queue, Commit
<1>2. /\ UNCHANGED <<slotVars, dungeon, kind, goal, seen, blocked, faults>>
      /\ pc[j] \in {"queue", "commit"}
  BY DEF Queue, Commit
<1>3. SlotTypes' /\ JobTypes' /\ faults' \in Nat
  BY <1>1, <1>2, SlotTypesStable, MoveTypes DEF Inv
<1>4. SlotsAddUp'
  BY <1>1, <1>2, QuietMove DEF HoldPCs
<1>5. PlanTypes'
  <2>1. CASE Queue(j)
    BY <2>1, PlanTypesStable DEF Queue, Inv
  <2>2. CASE Commit(j)
    <3>1. PICK n \in Nat : SetState(dungeon[j], "queued", n)
      BY <2>2 DEF Commit, Inv, JobTypes, PlanTypes
    <3>. QED
      BY <2>2, <3>1, StateTypes DEF Commit, Inv, JobTypes, PlanTypes
  <2>. QED
    BY <2>1, <2>2
<1>. QED
  BY <1>3, <1>4, <1>5 DEF Inv

\* A reservation is given back before its task was admitted.
LEMMA LeaveSlots ==
  ASSUME Inv, NEW j \in Jobs, Close(j), GiveBack(j), UNCHANGED <<active, dropped>>,
         pc[j] \in {"queue", "commit", "wait"}
  PROVE  SlotsAddUp' /\ JobTypes' /\ slots' \in [Users -> 0 .. MaxPerUser]
<1>1. SlotsMatch' /\ slots' \in [Users -> 0 .. MaxPerUser]
  BY GiveBackMatches DEF HoldPCs
<1>2. WorkingJobs' = WorkingJobs
  BY WorkingSame DEF Inv, Close
<1>3. ActiveMatches'
  BY <1>2, Matches DEF Inv, ActiveMatches
<1>. QED
  BY <1>1, <1>3, MatchesNext, CloseTypes DEF Inv

LEMMA QueueFailsInv ==
  ASSUME Inv, NEW j \in Jobs, QueueFails(j)
  PROVE  Inv'
<1>1. /\ Close(j) /\ Unmark(j) /\ GiveBack(j) /\ UNCHANGED <<planVars, active, dropped>>
      /\ pc[j] = "queue" /\ faults' = faults + 1
  BY DEF QueueFails, Fault
<1>2. MarkTypes' /\ PlanTypes' /\ faults' \in Nat
  BY <1>1, UnmarkTypes, PlanTypesStable DEF Inv
<1>3. SlotsAddUp' /\ JobTypes' /\ slots' \in [Users -> 0 .. MaxPerUser]
  BY <1>1, LeaveSlots
<1>. QED
  BY <1>1, <1>2, <1>3 DEF Inv, SlotTypes, MarkTypes

\* The task is never started: its slot stays, counted in dropped.
LEMMA DropInv ==
  ASSUME Inv, NEW j \in Jobs, Drop(j)
  PROVE  Inv'
<1>1. /\ Close(j) /\ UNCHANGED <<planVars, slots, active, scheduled>>
      /\ pc[j] = "commit" /\ faults' = faults + 1
      /\ dropped' = [dropped EXCEPT ![User(j)] = @ + 1]
      /\ lost' \subseteq scheduled
  BY DEF Drop, Fault, Inv, SlotTypes
<1>2. User(j) \in Users /\ SlotsMatch /\ dropped \in [Users -> Nat]
  BY UserType, Matches DEF Inv, SlotTypes
<1>3. SlotTypes' /\ PlanTypes' /\ JobTypes' /\ faults' \in Nat
  BY <1>1, <1>2, PlanTypesStable, CloseTypes DEF Inv, SlotTypes
<1>4. WorkingJobs' = WorkingJobs
  BY <1>1, WorkingSame DEF Inv, Close
<1>5. ASSUME NEW u \in Users
      PROVE  slots'[u] = Cardinality(HoldersOf(u)') + dropped'[u]
  <2>1. slots'[u] = Cardinality(HoldersOf(u)) + dropped[u]
    BY <1>1, <1>2 DEF SlotsMatch
  <2>2. CASE u = User(j)
    <3>1. j \in HoldersOf(u) /\ HoldersOf(u)' = HoldersOf(u) \ {j}
      BY <1>1, <2>2, HoldersLeave DEF Inv, HoldPCs
    <3>2. /\ Cardinality(HoldersOf(u)) \in Nat \ {0}
          /\ Cardinality(HoldersOf(u)') = Cardinality(HoldersOf(u)) - 1
      BY <3>1, OneLess, CountsFinite
    <3>3. dropped'[u] = dropped[u] + 1 /\ dropped[u] \in Nat
      BY <1>1, <1>2, <2>2
    <3>. QED
      BY <2>1, <3>2, <3>3
  <2>3. CASE u # User(j)
    <3>1. HoldersOf(u)' = HoldersOf(u)
      BY <1>1, <2>3, HoldersLeave DEF Inv, HoldPCs
    <3>. QED
      BY <1>1, <1>2, <2>1, <2>3, <3>1
  <2>. QED
    BY <2>2, <2>3
<1>6. SlotsMatch' /\ ActiveMatches'
  BY <1>1, <1>4, <1>5, Matches DEF Inv, SlotsMatch, ActiveMatches
<1>. QED
  BY <1>3, <1>6, MatchesNext DEF Inv

----------------------------------------------------------------------------
(* Tasks *)

LEMMA AdmitInv ==
  ASSUME Inv, NEW j \in Jobs, Admit(j)
  PROVE  Inv'
<1>1. /\ pc[j] = "wait" /\ active < MaxActive /\ active' = active + 1 /\ Goto(j, "start")
      /\ UNCHANGED <<planVars, slots, scheduled, dropped, lost, faults>>
      /\ UNCHANGED <<dungeon, kind, goal, seen, blocked>>
  BY DEF Admit
<1>2. PlanTypes' /\ JobTypes' /\ faults' \in Nat
  BY <1>1, PlanTypesStable, MoveTypes DEF Inv
<1>3. SlotTypes'
  BY <1>1, PreparationAssumption DEF Inv, SlotTypes
<1>4. \A u : HoldersOf(u)' = HoldersOf(u)
  BY <1>1, HoldersSame DEF Inv, HoldPCs
<1>5. j \notin WorkingJobs /\ WorkingJobs' = WorkingJobs \cup {j}
  <2>1. \A i \in Jobs : i # j => pc'[i] = pc[i]
    BY <1>1 DEF Inv, JobTypes
  <2>2. pc'[j] \in Working /\ pc[j] \notin Working
    BY <1>1 DEF Inv, JobTypes
  <2>. QED
    BY <2>1, <2>2, Zenon DEF WorkingJobs
<1>6. ActiveMatches' /\ SlotsMatch'
  <2>1. Cardinality(WorkingJobs') = Cardinality(WorkingJobs) + 1
    BY <1>5, OneMore, CountsFinite
  <2>. QED
    BY <1>1, <1>4, <2>1, Matches DEF Inv, ActiveMatches, SlotsMatch
<1>. QED
  BY <1>2, <1>3, <1>6, MatchesNext DEF Inv

\* Both slots are given back; active counts j until then, so that it is not 0.
LEMMA EndInv ==
  ASSUME Inv, NEW j \in Jobs, End(j)
  PROVE  Inv'
<1>1. /\ pc[j] = "end" /\ active' = active - 1
      /\ GiveBack(j) /\ Unmark(j) /\ Close(j) /\ UNCHANGED <<planVars, dropped, faults>>
  BY DEF End
<1>2. PlanTypes' /\ JobTypes' /\ MarkTypes' /\ faults' \in Nat
  BY <1>1, PlanTypesStable, CloseTypes, UnmarkTypes DEF Inv
<1>3. SlotsMatch' /\ slots' \in [Users -> 0 .. MaxPerUser]
  BY <1>1, GiveBackMatches DEF HoldPCs
<1>4. j \in WorkingJobs /\ WorkingJobs' = WorkingJobs \ {j}
  <2>1. \A i \in Jobs : i # j => pc'[i] = pc[i]
    BY <1>1 DEF Close, Inv, JobTypes
  <2>2. pc'[j] \notin Working /\ pc[j] \in Working
    BY <1>1 DEF Close, Inv, JobTypes
  <2>. QED
    BY <2>1, <2>2, Zenon DEF WorkingJobs
<1>5. /\ Cardinality(WorkingJobs) \in Nat \ {0}
      /\ Cardinality(WorkingJobs') = Cardinality(WorkingJobs) - 1
  BY <1>4, OneLess, CountsFinite
<1>6. ActiveMatches' /\ active' \in 0 .. MaxActive
  BY <1>1, <1>5, Matches, PreparationAssumption DEF Inv, SlotTypes, ActiveMatches
<1>. QED
  BY <1>1, <1>2, <1>3, <1>6, MatchesNext DEF Inv, SlotTypes, MarkTypes

\* What a task does between admission and its end moves no slot.
LEMMA WorkSlots ==
  ASSUME Inv, NEW j \in Jobs, NEW label \in Working, Goto(j, label), pc[j] \in Working,
         UNCHANGED <<slotVars, dungeon>>
  PROVE  SlotTypes' /\ SlotsAddUp'
BY SlotTypesStable, QuietMove DEF Inv, HoldPCs

LEMMA StartInv ==
  ASSUME Inv, NEW j \in Jobs, Start(j)
  PROVE  Inv'
<1>. DEFINE n == IF ForGame(j) THEN target[dungeon[j]]
                 ELSE LeastOf(pool[dungeon[j]], MaxRegions) + 1
<1>1. dungeon[j] \in Dungeons /\ n \in Nat
  BY PreparationAssumption DEF Inv, JobTypes, PlanTypes, LeastOf
<1>2. /\ goal' = [goal EXCEPT ![j] = n]
      /\ SetState(dungeon[j], "running", IF ForGame(j) THEN n + 1 ELSE n)
  BY DEF Start
<1>. HIDE DEF n
<1>3. JobTypes'
  BY <1>1, <1>2 DEF Start, Inv, JobTypes, PlanTypes
<1>4. PlanTypes'
  <2>1. (IF ForGame(j) THEN n + 1 ELSE n) \in Nat
    BY <1>1
  <2>. QED
    BY <1>1, <1>2, <2>1, StateTypes DEF Start, Inv, PlanTypes
<1>5. SlotTypes' /\ SlotsAddUp' /\ faults' \in Nat
  BY WorkSlots DEF Start, Inv
<1>. QED
  BY <1>3, <1>4, <1>5 DEF Inv

LEMMA LevelType ==
  ASSUME Inv, NEW j \in Jobs
  PROVE  Level(j) \in Nat
BY DEF Level, LeastOf, Inv, JobTypes

LEMMA FillInv ==
  ASSUME Inv, NEW j \in Jobs, Fill(j)
  PROVE  Inv'
<1>1. PICK label \in {"record", "end"} : Goto(j, label)
  BY DEF Fill
<1>2. /\ UNCHANGED <<target, regions, slotVars, dungeon, kind, goal, seen, blocked, faults>>
      /\ pc[j] = "fill" /\ dungeon[j] \in Dungeons
  BY DEF Fill, Inv, JobTypes
<1>3. JobTypes' /\ SlotTypes' /\ SlotsAddUp' /\ faults' \in Nat
  BY <1>1, <1>2, MoveTypes, WorkSlots DEF Inv
<1>4. PlanTypes'
  <2>1. CASE UNCHANGED <<pool, filled, status, required, stale>>
    BY <1>2, <2>1, PlanTypesStable DEF Inv
  <2>2. CASE ~UNCHANGED <<pool, filled, status, required, stale>>
    <3>1. PICK n \in pool[dungeon[j]] .. Level(j) :
            /\ pool' = [pool EXCEPT ![dungeon[j]] = IF n > @ THEN n ELSE @]
            /\ SetState(dungeon[j], IF n = Level(j) THEN "ready" ELSE "exhausted", Level(j))
      BY <2>2 DEF Fill
    <3>2. filled' = [filled EXCEPT ![dungeon[j]] =
                       IF pool'[dungeon[j]] > @ THEN pool'[dungeon[j]] ELSE @]
      BY <2>2 DEF Fill
    <3>3. pool[dungeon[j]] \in Nat /\ n \in Nat
      BY <1>2, <3>1, LevelType DEF Inv, PlanTypes
    <3>4. pool' \in [Dungeons -> Nat]
      BY <3>1, <3>3 DEF Inv, PlanTypes
    <3>5. filled' \in [Dungeons -> Nat]
      BY <1>2, <3>2, <3>4 DEF Inv, PlanTypes
    <3>. QED
      BY <1>2, <3>1, <3>4, <3>5, LevelType, StateTypes DEF Inv
  <2>. QED
    BY <2>1, <2>2
<1>. QED
  BY <1>3, <1>4 DEF Inv

LEMMA RecordInv ==
  ASSUME Inv, NEW j \in Jobs, Record(j)
  PROVE  Inv'
<1>1. PICK label \in Working : Goto(j, label)
  BY DEF Record
<1>2. /\ UNCHANGED <<target, regions, pool, filled, slotVars>>
      /\ UNCHANGED <<dungeon, kind, goal, seen, blocked, faults>>
      /\ pc[j] = "record" /\ dungeon[j] \in Dungeons /\ goal[j] \in Nat
  BY DEF Record, Inv, JobTypes
<1>3. JobTypes' /\ SlotTypes' /\ SlotsAddUp' /\ faults' \in Nat
  BY <1>1, <1>2, MoveTypes, WorkSlots DEF Inv
<1>4. PlanTypes'
  <2>1. CASE UNCHANGED <<status, required, stale>>
    BY <1>2, <2>1, PlanTypesStable DEF Inv
  <2>2. CASE SetState(dungeon[j], "exhausted", goal[j] + 1)
    BY <1>2, <2>2, StateTypes DEF Inv, PlanTypes
  <2>. QED
    BY <2>1, <2>2 DEF Record
<1>. QED
  BY <1>3, <1>4 DEF Inv

LEMMA WriteInv ==
  ASSUME Inv, NEW j \in Jobs, Write(j)
  PROVE  Inv'
<1>1. PICK label \in Working : Goto(j, label)
  BY DEF Write
<1>2. /\ UNCHANGED <<target, pool, filled, status, required, stale, slotVars>>
      /\ UNCHANGED <<dungeon, kind, goal, seen, blocked, faults>>
      /\ pc[j] = "write" /\ seen[j] \in Nat
      /\ regions' = [regions EXCEPT ![dungeon[j]] = seen[j] + 1]
  BY DEF Write, Inv, JobTypes
<1>3. JobTypes' /\ SlotTypes' /\ SlotsAddUp' /\ faults' \in Nat
  BY <1>1, <1>2, MoveTypes, WorkSlots DEF Inv
<1>4. PlanTypes'
  <2>1. regions' \in [Dungeons -> Nat]
    <3>1. PICK n \in Nat : regions' = [regions EXCEPT ![dungeon[j]] = n]
      <4>1. seen[j] + 1 \in Nat
        BY <1>2
      <4>. QED
        BY <1>2, <4>1, Zenon
    <3>. QED
      BY <3>1 DEF Inv, PlanTypes
  <2>. QED
    BY <1>2, <2>1 DEF Inv, PlanTypes
<1>. QED
  BY <1>3, <1>4 DEF Inv

LEMMA SettleInv ==
  ASSUME Inv, NEW j \in Jobs, Settle(j)
  PROVE  Inv'
<1>1. /\ UNCHANGED <<target, regions, pool, filled, slotVars>>
      /\ UNCHANGED <<dungeon, kind, goal, seen, blocked, faults>>
      /\ pc[j] = "settle" /\ Goto(j, "end") /\ SetState(dungeon[j], "ready", goal[j] + 1)
  BY DEF Settle
<1>2. dungeon[j] \in Dungeons /\ goal[j] + 1 \in Nat
  BY DEF Inv, JobTypes
<1>3. JobTypes' /\ SlotTypes' /\ SlotsAddUp' /\ faults' \in Nat
  BY <1>1, MoveTypes, WorkSlots DEF Inv
<1>4. PlanTypes'
  BY <1>1, <1>2, StateTypes DEF Inv, PlanTypes
<1>. QED
  BY <1>3, <1>4 DEF Inv

\* An exception, or the timeout of an admitted task: "failed" is shown or it is not.
LEMMA StopInv ==
  ASSUME Inv, NEW j \in Jobs, pc[j] \in Working, Goto(j, "end"),
         UNCHANGED <<target, regions, pool, filled, slotVars, dungeon, kind, goal, seen, blocked>>,
         \/ UNCHANGED <<status, required, stale>>
         \/ SetState(dungeon[j], "failed", required[dungeon[j]]),
         faults' \in Nat
  PROVE  Inv'
<1>1. JobTypes' /\ SlotTypes' /\ SlotsAddUp'
  BY MoveTypes, WorkSlots DEF Inv
<1>2. dungeon[j] \in Dungeons /\ required[dungeon[j]] \in Nat
  BY DEF Inv, JobTypes, PlanTypes
<1>3. PlanTypes'
  <2>1. CASE UNCHANGED <<status, required, stale>>
    BY <2>1, PlanTypesStable DEF Inv
  <2>2. CASE SetState(dungeon[j], "failed", required[dungeon[j]])
    BY <1>2, <2>2, StateTypes DEF Inv, PlanTypes
  <2>. QED
    BY <2>1, <2>2
<1>. QED
  BY <1>1, <1>3 DEF Inv

LEMMA RaiseInv ==
  ASSUME Inv, NEW j \in Jobs, Raise(j)
  PROVE  Inv'
<1>1. /\ pc[j] \in Working /\ Goto(j, "end") /\ faults' \in Nat
      /\ UNCHANGED <<target, regions, pool, filled, slotVars, dungeon, kind, goal, seen, blocked>>
  BY DEF Raise, Fault, Inv
<1>2. \/ UNCHANGED <<status, required, stale>>
      \/ SetState(dungeon[j], "failed", required[dungeon[j]])
  BY DEF Raise
<1>. QED
  BY <1>1, <1>2, StopInv

LEMMA TimeOutInv ==
  ASSUME Inv, NEW j \in Jobs, TimeOut(j)
  PROVE  Inv'
<1>1. CASE At(j, "wait") /\ Close(j)
  <2>1. /\ GiveBack(j) /\ UNCHANGED <<planVars, active, scheduled, dropped, faults>>
        /\ lost' \subseteq scheduled
    BY <1>1 DEF TimeOut, Inv, SlotTypes
  <2>2. SlotsAddUp' /\ JobTypes' /\ slots' \in [Users -> 0 .. MaxPerUser]
    BY <1>1, <2>1, LeaveSlots
  <2>3. SlotTypes' /\ PlanTypes' /\ faults' \in Nat
    BY <2>1, <2>2, PlanTypesStable DEF Inv, SlotTypes
  <2>. QED
    BY <2>2, <2>3 DEF Inv
<1>2. CASE ~(At(j, "wait") /\ Close(j))
  <2>1. /\ pc[j] \in Working \ {"end"}
        /\ \/ UNCHANGED <<status, required, stale>>
           \/ SetState(dungeon[j], "failed", required[dungeon[j]])
        /\ Goto(j, "end")
        /\ UNCHANGED <<target, regions, pool, filled, slotVars>>
        /\ UNCHANGED <<dungeon, kind, goal, seen, blocked, faults>>
    BY <1>2 DEF TimeOut
  <2>. QED
    BY <2>1, StopInv DEF Inv
<1>. QED
  BY <1>1, <1>2

----------------------------------------------------------------------------
(* The world around *)

LEMMA QuietJobs ==
  ASSUME Inv, UNCHANGED <<slotVars, jobVars>>, PlanTypes', faults' \in Nat
  PROVE  Inv'
<1>1. JobTypes' /\ SlotTypes'
  BY SlotTypesStable DEF Inv, JobTypes
<1>2. WorkingJobs' = WorkingJobs /\ \A u : HoldersOf(u)' = HoldersOf(u)
  BY DEF WorkingJobs, HoldersOf, Holders, User
<1>. QED
  BY <1>1, <1>2, Quiet DEF Inv

LEMMA WorldInv ==
  ASSUME Inv, NEW d \in Dungeons, Explore(d) \/ Break(d) \/ Age(d)
  PROVE  Inv'
<1>1. UNCHANGED <<slotVars, jobVars>> /\ faults' \in Nat
  BY DEF Explore, Break, Age, Fault, Inv
<1>2. PlanTypes'
  <2>1. CASE Explore(d)
    BY <2>1 DEF Explore, Inv, PlanTypes
  <2>2. CASE Break(d)
    <3>1. pool' \in [Dungeons -> Nat]
      BY <2>2 DEF Break, Inv, PlanTypes
    <3>. QED
      BY <2>2, <3>1 DEF Break, Inv, PlanTypes
  <2>3. CASE Age(d)
    BY <2>3 DEF Age, Inv, PlanTypes
  <2>. QED
    BY <2>1, <2>2, <2>3
<1>. QED
  BY <1>1, <1>2, QuietJobs

LEMMA RestartInv ==
  ASSUME Inv, Restart
  PROVE  Inv'
<1>1. PlanTypes' /\ faults' \in Nat
  BY PlanTypesStable DEF Restart, Fault, Inv
<1>2. JobTypes'
  BY NoDungeonType DEF Restart, JobTypes
<1>3. SlotTypes'
  BY PreparationAssumption DEF Restart, SlotTypes
<1>4. WorkingJobs' = {} /\ \A u : HoldersOf(u)' = {}
  BY DEF Restart, WorkingJobs, HoldersOf, Holders
<1>5. ActiveMatches' /\ SlotsMatch'
  BY <1>4, FS_EmptySet DEF Restart, ActiveMatches, SlotsMatch
<1>. QED
  BY <1>1, <1>2, <1>3, <1>5, MatchesNext DEF Inv

LEMMA InitInv == Init => Inv
<1>. SUFFICES ASSUME Init PROVE Inv
  OBVIOUS
<1>1. PlanTypes /\ JobTypes /\ SlotTypes /\ faults \in Nat
  BY NoDungeonType, PreparationAssumption DEF Init, PlanTypes, JobTypes, SlotTypes
<1>2. WorkingJobs = {} /\ \A u : HoldersOf(u) = {}
  BY DEF Init, WorkingJobs, HoldersOf, Holders
<1>3. ActiveMatches /\ SlotsMatch
  BY <1>2, FS_EmptySet DEF Init, ActiveMatches, SlotsMatch
<1>. QED
  BY <1>1, <1>3, Matches DEF Inv

LEMMA NextInv == Inv /\ [Next]_vars => Inv'
<1>. SUFFICES ASSUME Inv, [Next]_vars PROVE Inv'
  OBVIOUS
<1>1. CASE UNCHANGED vars
  BY <1>1, QuietJobs, PlanTypesStable DEF vars, Inv
<1>2. ASSUME NEW j \in Jobs,
             \/ \E d \in Dungeons, k \in Kinds : Ask(j, d, k)
             \/ Request(j) \/ ReserveFails(j) \/ QueueFails(j) \/ Drop(j)
      PROVE  Inv'
  BY <1>2, AskInv, LookInv, MarkInv, ReserveInv, QueueInv, ReserveFailsInv, QueueFailsInv,
     DropInv DEF Request
<1>3. ASSUME NEW j \in Jobs,
             Admit(j) \/ Work(j) \/ Raise(j) \/ TimeOut(j) \/ End(j)
      PROVE  Inv'
  BY <1>3, AdmitInv, StartInv, FillInv, RecordInv, WriteInv, SettleInv, RaiseInv, TimeOutInv,
     EndInv DEF Work
<1>4. ASSUME NEW d \in Dungeons, Explore(d) \/ Break(d) \/ Age(d) PROVE Inv'
  BY <1>4, WorldInv
<1>5. CASE Restart
  BY <1>5, RestartInv
<1>. QED
  BY <1>1, <1>2, <1>3, <1>4, <1>5 DEF Next

----------------------------------------------------------------------------
(* One job at a time *)

\* A step of j changes no other job.
Others(j) ==
  \A i \in Jobs \ {j} :
    /\ pc'[i] = pc[i] /\ dungeon'[i] = dungeon[i] /\ kind'[i] = kind[i]
    /\ goal'[i] = goal[i] /\ seen'[i] = seen[i]

LEMMA OthersClose ==
  ASSUME JobTypes, NEW j \in Jobs, Close(j)
  PROVE  Others(j) /\ pc'[j] = "idle"
BY DEF Close, JobTypes, Others

LEMMA OthersMove ==
  ASSUME JobTypes, NEW j \in Jobs, NEW label, Goto(j, label),
         UNCHANGED <<dungeon, kind, goal, seen>>
  PROVE  Others(j) /\ pc'[j] = label
BY DEF JobTypes, Others

LEMMA OthersAsk ==
  ASSUME JobTypes, NEW j \in Jobs, NEW d \in Dungeons, NEW k \in Kinds, Ask(j, d, k)
  PROVE  Others(j) /\ pc'[j] = "look"
BY DEF Ask, JobTypes, Others

LEMMA OthersLook ==
  ASSUME JobTypes, NEW j \in Jobs, Look(j)
  PROVE  /\ Others(j) /\ pc'[j] \in {"idle", "mark", "reserve"}
         /\ pc'[j] = "mark" => ForGame(j)'
<1>1. CASE Close(j)
  BY <1>1, OthersClose
<1>2. CASE ~Close(j)
  <2>1. /\ Goto(j, IF ForGame(j) THEN "mark" ELSE "reserve") /\ UNCHANGED <<dungeon, goal, seen>>
        /\ kind' = [kind EXCEPT ![j] = IF @ = "retry" THEN "visit" ELSE @]
    BY <1>2 DEF Look
  <2>. QED
    BY <2>1 DEF JobTypes, Others, ForGame
<1>. QED
  BY <1>1, <1>2

LEMMA OthersStart ==
  ASSUME JobTypes, NEW j \in Jobs, Start(j)
  PROVE  Others(j) /\ pc'[j] = "fill" /\ UNCHANGED <<dungeon, kind>>
BY DEF Start, JobTypes, Others

----------------------------------------------------------------------------
(* Prepared regions *)

Filling == {"mark", "fill", "record", "write"}

\* What jobs know of the regions at the statements that lead to a recorded one.
RegionsInv ==
  /\ \A d \in Dungeons :
       /\ pool[d] <= filled[d]
       /\ regions[d] > 0 => regions[d] <= target[d] /\ regions[d] < filled[d]
  /\ \A j \in Jobs :
       /\ pc[j] \in {"mark", "record", "write"} => ForGame(j)
       /\ pc[j] \in {"fill", "record", "write"} /\ ForGame(j) => goal[j] <= target[dungeon[j]]
       /\ pc[j] = "write" => seen[j] < goal[j] /\ seen[j] + 1 < filled[dungeon[j]]

LEMMA RegionsQuiet ==
  ASSUME RegionsInv, NEW j \in Jobs, Others(j), pc'[j] \notin Filling,
         UNCHANGED <<target, regions, pool, filled>>
  PROVE  RegionsInv'
BY DEF RegionsInv, Others, Filling, ForGame

\* Requests, and what a task does before and after it fills regions.
LEMMA RegionsRequest ==
  ASSUME Inv, RegionsInv, NEW j \in Jobs,
         \/ \E d \in Dungeons, k \in Kinds : Ask(j, d, k)
         \/ Look(j) \/ Mark(j) \/ Reserve(j) \/ Queue(j) \/ Commit(j)
         \/ ReserveFails(j) \/ QueueFails(j) \/ Drop(j)
  PROVE  RegionsInv'
<1>1. UNCHANGED <<target, regions, pool, filled>>
  BY DEF Ask, Look, Mark, Reserve, Queue, Commit, ReserveFails, QueueFails, Drop
<1>2. ASSUME NEW d \in Dungeons, NEW k \in Kinds, Ask(j, d, k) PROVE RegionsInv'
  BY <1>1, <1>2, OthersAsk, RegionsQuiet DEF Inv, Filling
<1>3. CASE Look(j)
  <2>1. CASE pc'[j] \notin Filling
    BY <1>1, <1>3, <2>1, OthersLook, RegionsQuiet DEF Inv
  <2>2. CASE pc'[j] \in Filling
    <3>1. pc'[j] = "mark" /\ ForGame(j)' /\ Others(j)
      BY <1>3, <2>2, OthersLook DEF Inv, Filling
    <3>. QED
      BY <1>1, <3>1 DEF RegionsInv, Others, ForGame
  <2>. QED
    BY <2>1, <2>2
<1>4. CASE Mark(j) \/ Reserve(j) \/ Queue(j) \/ Commit(j)
  <2>1. \/ Close(j)
        \/ \E label \in {"reserve", "queue", "commit", "wait"} :
             Goto(j, label) /\ UNCHANGED <<dungeon, kind, goal, seen>>
    BY <1>4 DEF Mark, Reserve, Queue, Commit
  <2>2. Others(j) /\ pc'[j] \notin Filling
    BY <2>1, OthersClose, OthersMove DEF Inv, Filling
  <2>. QED
    BY <1>1, <2>2, RegionsQuiet
<1>5. CASE ReserveFails(j) \/ QueueFails(j) \/ Drop(j)
  <2>1. Close(j)
    BY <1>5 DEF ReserveFails, QueueFails, Drop
  <2>. QED
    BY <1>1, <2>1, OthersClose, RegionsQuiet DEF Inv, Filling
<1>. QED
  BY <1>2, <1>3, <1>4, <1>5

LEMMA RegionsTask ==
  ASSUME Inv, RegionsInv, NEW j \in Jobs,
         Admit(j) \/ End(j) \/ TimeOut(j) \/ Settle(j) \/ Raise(j)
  PROVE  RegionsInv'
<1>1. UNCHANGED <<target, regions, pool, filled>>
  BY DEF Admit, End, TimeOut, Settle, Raise
<1>2. \/ Close(j)
      \/ \E label \in {"start", "end"} : Goto(j, label) /\ UNCHANGED <<dungeon, kind, goal, seen>>
  BY DEF Admit, End, TimeOut, Settle, Raise
<1>3. Others(j) /\ pc'[j] \notin Filling
  BY <1>2, OthersClose, OthersMove DEF Inv, Filling
<1>. QED
  BY <1>1, <1>3, RegionsQuiet

\* The frontier only grows after it was read.
LEMMA RegionsStart ==
  ASSUME Inv, RegionsInv, NEW j \in Jobs, Start(j)
  PROVE  RegionsInv'
<1>1. Others(j) /\ pc'[j] = "fill" /\ UNCHANGED <<dungeon, kind, target, regions, pool, filled>>
  BY OthersStart DEF Inv, Start
<1>2. ForGame(j) => goal'[j] = target[dungeon[j]]
  BY DEF Start, Inv, JobTypes
<1>3. ForGame(j) => goal'[j] <= target[dungeon[j]]
  BY <1>2 DEF Inv, JobTypes, PlanTypes
<1>. QED
  BY <1>1, <1>3 DEF RegionsInv, Others, ForGame

\* Quizzes are added, and filled keeps up with the pool.
LEMMA RegionsFill ==
  ASSUME Inv, RegionsInv, NEW j \in Jobs, Fill(j)
  PROVE  RegionsInv'
<1>1. UNCHANGED <<target, regions, dungeon, kind, goal, seen>>
  BY DEF Fill
<1>2. /\ Others(j) /\ pc[j] = "fill" /\ pc'[j] \in {"record", "end"}
      /\ pc'[j] = "record" => ForGame(j)
  BY DEF Fill, Inv, JobTypes, Others
<1>3. \A d \in Dungeons : filled'[d] >= filled[d] /\ pool'[d] <= filled'[d]
  <2>1. CASE UNCHANGED <<pool, filled>>
    BY <2>1 DEF RegionsInv, Inv, PlanTypes
  <2>2. CASE ~UNCHANGED <<pool, filled>>
    <3>1. PICK n \in pool[dungeon[j]] .. Level(j) :
            pool' = [pool EXCEPT ![dungeon[j]] = IF n > @ THEN n ELSE @]
      BY <2>2 DEF Fill
    <3>2. filled' = [filled EXCEPT ![dungeon[j]] =
                       IF pool'[dungeon[j]] > @ THEN pool'[dungeon[j]] ELSE @]
      BY <2>2 DEF Fill
    <3>3. pool[dungeon[j]] \in Nat /\ n \in Nat /\ dungeon[j] \in Dungeons
      BY <3>1, LevelType DEF Inv, PlanTypes, JobTypes
    <3>4. \A d \in Dungeons : pool'[d] \in Nat /\ filled[d] \in Nat
      BY <3>1, <3>3 DEF Inv, PlanTypes
    <3>5. \A d \in Dungeons \ {dungeon[j]} : pool'[d] = pool[d] /\ filled'[d] = filled[d]
      BY <3>1, <3>2 DEF Inv, PlanTypes
    <3>6. filled'[dungeon[j]] = IF pool'[dungeon[j]] > filled[dungeon[j]]
                                THEN pool'[dungeon[j]] ELSE filled[dungeon[j]]
      BY <3>2, <3>3 DEF Inv, PlanTypes
    <3>. QED
      BY <3>3, <3>4, <3>5, <3>6 DEF RegionsInv
  <2>. QED
    BY <2>1, <2>2
<1>4. \A d \in Dungeons : /\ regions[d] \in Nat /\ target[d] \in Nat
                          /\ filled[d] \in Nat /\ filled'[d] \in Nat
  BY FillInv DEF Inv, PlanTypes
<1>5. \A d \in Dungeons : regions'[d] > 0 => regions'[d] <= target'[d] /\ regions'[d] < filled'[d]
  BY <1>1, <1>3, <1>4 DEF RegionsInv
<1>6. ASSUME NEW i \in Jobs, pc'[i] = "write"
      PROVE  seen'[i] < goal'[i] /\ seen'[i] + 1 < filled'[dungeon'[i]]
  <2>1. i # j /\ pc[i] = "write" /\ dungeon[i] \in Dungeons /\ seen[i] \in Nat
    BY <1>2, <1>6 DEF Others, Inv, JobTypes
  <2>. QED
    BY <1>1, <1>3, <1>4, <2>1 DEF RegionsInv
<1>7. ASSUME NEW i \in Jobs
      PROVE  /\ pc'[i] \in {"mark", "record", "write"} => ForGame(i)'
             /\ pc'[i] \in {"fill", "record", "write"} /\ ForGame(i)'
                  => goal'[i] <= target'[dungeon'[i]]
  BY <1>1, <1>2 DEF RegionsInv, Others, ForGame
<1>. QED
  BY <1>3, <1>5, <1>6, <1>7 DEF RegionsInv

\* A job is about to record the next region only when its quizzes and those of the
\* region after it have existed.
LEMMA RegionsRecord ==
  ASSUME Inv, RegionsInv, NEW j \in Jobs, Record(j)
  PROVE  RegionsInv'
<1>1. UNCHANGED <<target, regions, pool, filled, dungeon, kind, goal, seen>> /\ pc[j] = "record"
  BY DEF Record
<1>2. PICK label \in {"settle", "write", "start", "end"} : Goto(j, label)
  BY DEF Record
<1>3. Others(j) /\ pc'[j] = label
  BY <1>1, <1>2, OthersMove DEF Inv
<1>4. CASE label # "write"
  BY <1>1, <1>3, <1>4, RegionsQuiet DEF Filling
<1>5. CASE label = "write"
  <2>1. ~(pool[dungeon[j]] < Level(j)) /\ ~(goal[j] <= seen[j])
    BY <1>3, <1>5 DEF Record, Inv, JobTypes
  <2>2. /\ goal[j] \in Nat /\ seen[j] \in Nat /\ dungeon[j] \in Dungeons
        /\ pool[dungeon[j]] \in Nat /\ filled[dungeon[j]] \in Nat
    BY DEF Inv, JobTypes, PlanTypes
  <2>3. ForGame(j) /\ goal[j] <= target[dungeon[j]] /\ pool[dungeon[j]] <= filled[dungeon[j]]
    BY <1>1, <2>2 DEF RegionsInv
  <2>4. seen[j] < goal[j] /\ Level(j) = seen[j] + 2
    BY <2>1, <2>2, <2>3 DEF Level, LeastOf
  <2>5. seen[j] + 1 < filled[dungeon[j]]
    BY <2>1, <2>2, <2>3, <2>4
  <2>. QED
    BY <1>1, <1>3, <1>5, <2>3, <2>4, <2>5 DEF RegionsInv, Others, ForGame
<1>. QED
  BY <1>4, <1>5

LEMMA RegionsWrite ==
  ASSUME Inv, RegionsInv, NEW j \in Jobs, Write(j)
  PROVE  RegionsInv'
<1>1. /\ UNCHANGED <<target, pool, filled, dungeon, kind, goal, seen>> /\ pc[j] = "write"
      /\ regions' = [regions EXCEPT ![dungeon[j]] = seen[j] + 1]
  BY DEF Write
<1>2. PICK label \in {"settle", "start"} : Goto(j, label)
  BY DEF Write
<1>3. Others(j) /\ pc'[j] \notin Filling
  BY <1>1, <1>2, OthersMove DEF Inv, Filling
<1>4. /\ seen[j] \in Nat /\ goal[j] \in Nat /\ dungeon[j] \in Dungeons
      /\ target[dungeon[j]] \in Nat
  BY DEF Inv, JobTypes, PlanTypes
<1>5. seen[j] + 1 <= target[dungeon[j]] /\ seen[j] + 1 < filled[dungeon[j]]
  BY <1>1, <1>4 DEF RegionsInv
<1>6. \A d \in Dungeons : regions'[d] > 0 => regions'[d] <= target[d] /\ regions'[d] < filled[d]
  BY <1>1, <1>5 DEF RegionsInv, Inv, PlanTypes
<1>. QED
  BY <1>1, <1>3, <1>6 DEF RegionsInv, Others, Filling, ForGame

LEMMA RegionsWorld ==
  ASSUME Inv, RegionsInv, NEW d \in Dungeons, Explore(d) \/ Break(d) \/ Age(d)
  PROVE  RegionsInv'
<1>1. UNCHANGED <<regions, filled, jobVars>>
  BY DEF Explore, Break, Age
<1>2. \A e \in Dungeons : target'[e] >= target[e] /\ pool'[e] <= pool[e]
  BY DEF Explore, Break, Age, Inv, PlanTypes
<1>3. \A e \in Dungeons : /\ regions[e] \in Nat /\ target[e] \in Nat /\ target'[e] \in Nat
                          /\ filled[e] \in Nat /\ pool[e] \in Nat /\ pool'[e] \in Nat
  BY WorldInv DEF Inv, PlanTypes
<1>4. \A e \in Dungeons : pool'[e] <= filled[e] /\ (regions[e] > 0 => regions[e] <= target'[e])
  BY <1>2, <1>3 DEF RegionsInv
<1>5. \A j \in Jobs : goal[j] \in Nat /\ dungeon[j] \in Dungeons
  BY DEF Inv, JobTypes
<1>6. \A j \in Jobs : goal[j] <= target[dungeon[j]] => goal[j] <= target'[dungeon[j]]
  BY <1>2, <1>3, <1>5
<1>. QED
  BY <1>1, <1>4, <1>6 DEF RegionsInv, ForGame

LEMMA RegionsNext == Inv /\ RegionsInv /\ [Next]_vars => RegionsInv'
<1>. SUFFICES ASSUME Inv, RegionsInv, [Next]_vars PROVE RegionsInv'
  OBVIOUS
<1>1. CASE UNCHANGED vars
  BY <1>1 DEF vars, RegionsInv, ForGame
<1>2. CASE Restart
  BY <1>2 DEF Restart, RegionsInv
<1>. QED
  BY <1>1, <1>2, RegionsRequest, RegionsTask, RegionsStart, RegionsFill, RegionsRecord,
     RegionsWrite, RegionsWorld DEF Next, Request, Work

----------------------------------------------------------------------------
(* Marks of dungeons *)

Waiting == {"idle", "look", "mark"}
Marks(j, d) == dungeon[j] = d /\ ForGame(j) /\ pc[j] \notin Waiting

LEMMA MarksMeaning == MarksHaveJobs <=> \A d \in scheduled \ lost : \E j \in Jobs : Marks(j, d)
BY DEF MarksHaveJobs, Marks, Waiting

\* A step after which every mark belongs to a job if the mark or the job is old.
MarksStep ==
  /\ \A d \in scheduled' \ lost' :
       d \in scheduled \ lost \/ \E j \in Jobs : Marks(j, d)'
  /\ \A d \in scheduled' \ lost' : \A j \in Jobs : Marks(j, d) => Marks(j, d)'

LEMMA MarksStepKeeps == MarksHaveJobs /\ MarksStep => MarksHaveJobs'
<1>. SUFFICES ASSUME MarksHaveJobs, MarksStep PROVE MarksHaveJobs'
  OBVIOUS
<1>1. \A d \in scheduled' \ lost' : \E j \in Jobs : Marks(j, d)'
  BY MarksMeaning DEF MarksStep
<1>. QED
  BY <1>1 DEF MarksHaveJobs, Marks, Waiting

\* A step of one job that leaves no mark without a job.
LEMMA MarksJob ==
  ASSUME NEW j \in Jobs, Others(j), scheduled' \ lost' \subseteq scheduled \ lost,
         \A d \in scheduled' \ lost' : Marks(j, d) => Marks(j, d)'
  PROVE  MarksStep
<1>1. \A d : \A i \in Jobs \ {j} : Marks(i, d) => Marks(i, d)'
  BY DEF Others, Marks, ForGame
<1>. QED
  BY <1>1 DEF MarksStep

\* A job moves on with its mark.
LEMMA MarksMove ==
  ASSUME Inv, NEW j \in Jobs, NEW label \in Labels \ Waiting, Goto(j, label),
         UNCHANGED <<scheduled, lost, dungeon, kind, goal, seen>>
  PROVE  MarksStep
<1>1. Others(j) /\ pc'[j] \notin Waiting
  BY OthersMove DEF Inv
<1>. QED
  BY <1>1, MarksJob DEF Marks, ForGame

\* A job ends without a mark, or its mark is removed or counted as lost.
LEMMA MarksClose ==
  ASSUME Inv, NEW j \in Jobs, Close(j), scheduled' \ lost' \subseteq scheduled \ lost,
         dungeon[j] \in scheduled' \ lost' => ~ForGame(j) \/ pc[j] \in Waiting
  PROVE  MarksStep
BY OthersClose, MarksJob DEF Inv, Marks

LEMMA UnmarkClose ==
  ASSUME Inv, NEW j \in Jobs, Close(j), Unmark(j)
  PROVE  MarksStep
BY MarksClose DEF Unmark

LEMMA LostClose ==
  ASSUME Inv, NEW j \in Jobs, Close(j), UNCHANGED scheduled,
         lost' = IF ForGame(j) /\ dungeon[j] \in scheduled THEN lost \cup {dungeon[j]} ELSE lost
  PROVE  MarksStep
BY MarksClose

LEMMA MarksRequest ==
  ASSUME Inv, RegionsInv, NEW j \in Jobs,
         \/ \E d \in Dungeons, k \in Kinds : Ask(j, d, k)
         \/ Look(j) \/ Mark(j) \/ Reserve(j) \/ Queue(j) \/ Commit(j)
         \/ ReserveFails(j) \/ QueueFails(j) \/ Drop(j)
  PROVE  MarksStep
<1>1. ASSUME NEW d \in Dungeons, NEW k \in Kinds, Ask(j, d, k) PROVE MarksStep
  <2>1. pc[j] \in Waiting /\ UNCHANGED <<scheduled, lost>>
    BY <1>1 DEF Ask, Waiting
  <2>. QED
    BY <1>1, <2>1, OthersAsk, MarksJob DEF Inv, Marks
<1>2. CASE Look(j)
  <2>1. pc[j] \in Waiting /\ UNCHANGED <<scheduled, lost>>
    BY <1>2 DEF Look, Waiting
  <2>. QED
    BY <1>2, <2>1, OthersLook, MarksJob DEF Inv, Marks
<1>3. CASE Mark(j)
  <2>1. pc[j] \in Waiting /\ ForGame(j)
    BY <1>3 DEF Mark, Waiting, RegionsInv
  <2>2. CASE Close(j)
    <3>1. UNCHANGED <<scheduled, lost>>
      BY <1>3, <2>2 DEF Mark, Close, Inv, JobTypes
    <3>. QED
      BY <2>1, <2>2, <3>1, MarksClose
  <2>3. CASE ~Close(j)
    <3>1. /\ scheduled' = scheduled \cup {dungeon[j]} /\ lost' = lost \ {dungeon[j]}
          /\ Goto(j, "reserve") /\ UNCHANGED <<dungeon, kind, goal, seen>>
      BY <1>3, <2>3 DEF Mark
    <3>2. Others(j) /\ pc'[j] = "reserve"
      BY <3>1, OthersMove DEF Inv
    <3>3. Marks(j, dungeon[j])'
      BY <2>1, <3>1, <3>2 DEF Marks, ForGame, Waiting
    <3>4. \A d : \A i \in Jobs : Marks(i, d) => Marks(i, d)'
      BY <2>1, <3>2 DEF Others, Marks, ForGame
    <3>5. \A d \in scheduled' \ lost' : d \in scheduled \ lost \/ Marks(j, d)'
      BY <3>1, <3>3 DEF Marks
    <3>. QED
      BY <3>4, <3>5 DEF MarksStep
  <2>. QED
    BY <2>2, <2>3
<1>4. CASE Reserve(j)
  <2>1. CASE Close(j) /\ Unmark(j)
    BY <2>1, UnmarkClose
  <2>2. CASE ~(Close(j) /\ Unmark(j))
    <3>1. Goto(j, "queue") /\ UNCHANGED <<scheduled, lost, dungeon, kind, goal, seen>>
      BY <1>4, <2>2 DEF Reserve
    <3>. QED
      BY <3>1, MarksMove DEF Waiting
  <2>. QED
    BY <2>1, <2>2
<1>5. CASE Queue(j) \/ Commit(j)
  <2>1. PICK label \in {"commit", "wait"} : Goto(j, label)
    BY <1>5 DEF Queue, Commit
  <2>2. UNCHANGED <<scheduled, lost, dungeon, kind, goal, seen>>
    BY <1>5 DEF Queue, Commit
  <2>. QED
    BY <2>1, <2>2, MarksMove DEF Waiting
<1>6. CASE ReserveFails(j) \/ QueueFails(j)
  BY <1>6, UnmarkClose DEF ReserveFails, QueueFails
<1>7. CASE Drop(j)
  BY <1>7, LostClose DEF Drop
<1>. QED
  BY <1>1, <1>2, <1>3, <1>4, <1>5, <1>6, <1>7

LEMMA MarksTask ==
  ASSUME Inv, NEW j \in Jobs,
         Admit(j) \/ Work(j) \/ Raise(j) \/ TimeOut(j) \/ End(j)
  PROVE  MarksStep
<1>1. CASE End(j)
  BY <1>1, UnmarkClose DEF End
<1>2. CASE TimeOut(j) /\ Close(j)
  <2>1. /\ UNCHANGED scheduled
        /\ lost' = IF ForGame(j) /\ dungeon[j] \in scheduled THEN lost \cup {dungeon[j]} ELSE lost
    BY <1>2 DEF TimeOut, Close, Inv, JobTypes
  <2>. QED
    BY <1>2, <2>1, LostClose
<1>3. CASE Start(j)
  <2>1. UNCHANGED <<scheduled, lost>> /\ Others(j) /\ pc'[j] = "fill" /\ UNCHANGED <<dungeon, kind>>
    BY <1>3, OthersStart DEF Start, Inv
  <2>. QED
    BY <2>1, MarksJob DEF Marks, ForGame, Waiting
<1>4. CASE \/ Admit(j) \/ Fill(j) \/ Record(j) \/ Write(j) \/ Settle(j) \/ Raise(j)
           \/ TimeOut(j) /\ ~Close(j)
  <2>1. PICK label \in Working : Goto(j, label)
    BY <1>4 DEF Admit, Fill, Record, Write, Settle, Raise, TimeOut
  <2>2. UNCHANGED <<scheduled, lost, dungeon, kind, goal, seen>>
    BY <1>4 DEF Admit, Fill, Record, Write, Settle, Raise, TimeOut
  <2>. QED
    BY <2>1, <2>2, MarksMove DEF Waiting
<1>. QED
  BY <1>1, <1>2, <1>3, <1>4 DEF Work

LEMMA MarksNext == Inv /\ RegionsInv /\ [Next]_vars => MarksStep
<1>. SUFFICES ASSUME Inv, RegionsInv, [Next]_vars PROVE MarksStep
  OBVIOUS
<1>1. CASE UNCHANGED vars
  BY <1>1 DEF vars, MarksStep, Marks, ForGame
<1>2. CASE Restart
  BY <1>2 DEF Restart, MarksStep
<1>3. ASSUME NEW d \in Dungeons, Explore(d) \/ Break(d) \/ Age(d) PROVE MarksStep
  <2>1. UNCHANGED <<slotVars, jobVars>>
    BY <1>3 DEF Explore, Break, Age
  <2>. QED
    BY <2>1 DEF MarksStep, Marks, ForGame
<1>. QED
  BY <1>1, <1>2, <1>3, MarksRequest, MarksTask DEF Next, Request

----------------------------------------------------------------------------
(* Theorems *)

\* However requests fail, tasks raise, time out or are never started: every slot that is
\* taken is that of a job that will give it back, or of a task that was dropped.
THEOREM SlotsCorrect == Spec => []SlotsAddUp
<1>1. Inv => SlotsAddUp
  BY DEF Inv
<1>. QED
  BY <1>1, InitInv, NextInv, PTL DEF Spec

\* Every variable keeps its type; above all, no more tasks are active than MaxActive and
\* no user holds more than MaxPerUser slots.
THEOREM TypeCorrect == Spec => []TypeOK
<1>1. Inv => TypeOK
  BY DEF Inv, TypeOK, PlanTypes, JobTypes, SlotTypes
<1>. QED
  BY <1>1, InitInv, NextInv, PTL DEF Spec

\* A region is recorded as prepared only when the adventure has opened it and the quizzes
\* for it and for the region after it have existed, although tasks compare and set the
\* completion in two steps and others fill and record in between.
THEOREM RegionsCorrect == Spec => []RecordedWereFilled
<1>1. Init => RegionsInv
  BY DEF Init, RegionsInv
<1>2. RegionsInv => RecordedWereFilled
  BY DEF RegionsInv, RecordedWereFilled
<1>. QED
  BY <1>1, <1>2, InitInv, NextInv, RegionsNext, PTL DEF Spec

\* A dungeon stays marked only as long as a job will remove the mark, apart from the
\* marks of tasks that time out in the queue or are never started.
THEOREM MarksCorrect == Spec => []MarksHaveJobs
<1>1. Init => RegionsInv /\ MarksHaveJobs
  BY DEF Init, RegionsInv, MarksHaveJobs
<1>. QED
  BY <1>1, InitInv, NextInv, RegionsNext, MarksNext, MarksStepKeeps, PTL DEF Spec

---------------------------------------------------------------------------
(* Counting and recursion.                                                      *)

\* A set of numbers with 0 and every successor is all of them.
LEMMA Numbers ==
    ASSUME NEW T \in SUBSET Nat, 0 \in T, \A n \in T : n + 1 \in T
    PROVE  T = Nat
<1> DEFINE R == OpToRel(<, Nat)
           D == Nat \ T
<1>. SUFFICES ASSUME D # {} PROVE FALSE
  OBVIOUS
<1>1. PICK d \in D : \A e \in D : ~ (<<e, d>> \in R)
  <2>1. D \subseteq Nat
    OBVIOUS
  <2>2. IsWellFoundedOn(R, Nat)
    BY NatLessThanWellFounded, Zenon
  <2> HIDE DEF R, D
  <2>. QED
    BY <2>1, <2>2, WFMin
<1>2. d \in Nat /\ d # 0
  OBVIOUS
<1>3. d - 1 \in Nat /\ d - 1 < d
  BY <1>2
<1>4. d - 1 \in T
  BY <1>1, <1>3, <1>2 DEF OpToRel
<1>. QED
  BY <1>4, <1>2

\* The same up to a number.
LEMMA Climbing ==
    ASSUME NEW N \in Nat, NEW T, 0 \in T, \A n \in 0 .. N - 1 : n \in T => n + 1 \in T
    PROVE  \A n \in 0 .. N : n \in T
<1> DEFINE H == {n \in Nat : n <= N => n \in T}
<1>1. H \in SUBSET Nat /\ 0 \in H
  OBVIOUS
<1>2. ASSUME NEW n \in H PROVE n + 1 \in H
  OBVIOUS
<1>3. H = Nat
  <2> HIDE DEF H
  <2>. QED
    BY <1>1, <1>2, Numbers
<1>. QED
  BY <1>3

\* A function that is computed from each place to the next.
Computed(f, N, init, step) == f[0] = init /\ \A i \in 1 .. N : f[i] = step[i, f[i - 1]]
LEMMA Recursion ==
    ASSUME NEW N \in Nat, NEW S, NEW init \in S, NEW step \in [(1 .. N) \X S -> S]
    PROVE  \E f \in [0 .. N -> S] : Computed(f, N, init, step)
<1> DEFINE T == {n \in Nat : n <= N => \E f \in [0 .. n -> S] : Computed(f, n, init, step)}
<1>1. 0 \in T
  <2> DEFINE f == [i \in 0 .. 0 |-> init]
  <2>1. f \in [0 .. 0 -> S] /\ f[0] = init
    OBVIOUS
  <2>2. \A i \in 1 .. 0 : FALSE
    OBVIOUS
  <2> HIDE DEF f
  <2>3. Computed(f, 0, init, step)
    BY <2>1, <2>2, Zenon DEF Computed
  <2>. QED
    BY <2>1, <2>3
<1>2. ASSUME NEW n \in 0 .. N - 1, n \in T PROVE n + 1 \in T
  <2>0. n \in Nat /\ n + 1 \in Nat /\ n <= N /\ n + 1 \in 1 .. N /\ (n + 1) - 1 = n
    OBVIOUS
  <2>1. PICK f \in [0 .. n -> S] : Computed(f, n, init, step)
    BY <1>2, <2>0, Zenon
  <2>2. PICK top \in S : top = step[n + 1, f[n]]
    <3>1. f[n] \in S
      BY <2>0
    <3>2. <<n + 1, f[n]>> \in (1 .. N) \X S
      BY <3>1, <2>0
    <3>. QED
      BY <3>2
  <2> DEFINE g == [i \in 0 .. n + 1 |-> IF i = n + 1 THEN top ELSE f[i]]
  <2>3. g \in [0 .. n + 1 -> S] /\ g[n + 1] = top /\ \A i \in 0 .. n : g[i] = f[i]
    BY <2>0
  <2> HIDE DEF g
  <2>4. g[0] = init
    <3>1. 0 \in 0 .. n
      BY <2>0
    <3>. QED
      BY <3>1, <2>1, <2>3, Zenon DEF Computed
  <2>5. ASSUME NEW i \in 1 .. n + 1 PROVE g[i] = step[i, g[i - 1]]
    <3>1. CASE i = n + 1
      <4>1. n \in 0 .. n
        BY <2>0
      <4>. QED
        BY <3>1, <4>1, <2>0, <2>2, <2>3
    <3>2. CASE i # n + 1
      <4>1. i \in 1 .. n /\ i \in 0 .. n /\ i - 1 \in 0 .. n
        BY <3>2, <2>0
      <4>. QED
        BY <4>1, <2>1, <2>3, Zenon DEF Computed
    <3>. QED
      BY <3>1, <3>2
  <2>6. Computed(g, n + 1, init, step)
    BY <2>4, <2>5, Zenon DEF Computed
  <2>. QED
    BY <2>0, <2>3, <2>6
<1>3. N \in T
  <2>1. N \in 0 .. N
    OBVIOUS
  <2> HIDE DEF T
  <2>. QED
    BY <1>1, <1>2, <2>1, Climbing
<1>. QED
  BY <1>3


---------------------------------------------------------------------------
(* Dividing.                                                                    *)

LEMMA Larger ==
    ASSUME NEW a \in Int, NEW b \in Int, NEW c \in Nat, a <= b
    PROVE  c * a <= c * b
OBVIOUS

LEMMA Product == ASSUME NEW a \in Nat \ {0}, NEW b \in Nat \ {0} PROVE a * b \in Nat \ {0}
<1>1. a * 1 <= a * b
  BY Larger
<1>. QED
  BY <1>1

LEMMA Halves ==
    ASSUME NEW n \in Nat, NEW d \in Nat \ {0}
    PROVE  n \div d \in Nat /\ n % d \in 0 .. d - 1 /\ n = d * (n \div d) + (n % d)
<1>1. n \div d \in Nat /\ d * (n \div d) <= n /\ n < d * (n \div d) + d
  OBVIOUS
<1>2. n % d \in 0 .. d - 1
  OBVIOUS
<1>3. n = d * (n \div d) + (n % d)
  OBVIOUS
<1>. QED
  BY <1>1, <1>2, <1>3

LEMMA OneWay ==
    ASSUME NEW d \in Nat \ {0}, NEW a \in Nat, NEW b \in 0 .. d - 1
    PROVE  d * a + b \in Nat /\ (d * a + b) \div d = a /\ (d * a + b) % d = b
<1> DEFINE n == d * a + b
           q == n \div d
           r == n % d
<1>1. n \in Nat
  OBVIOUS
<1>2. q \in Nat /\ r \in 0 .. d - 1 /\ n = d * q + r
  BY <1>1, Halves
<1>3. d * a + b = d * q + r
  BY <1>2
<1> HIDE DEF q, r
<1>4. ~ a < q
  <2>. SUFFICES ASSUME a + 1 <= q PROVE FALSE
    BY <1>2
  <2>1. d * (a + 1) <= d * q
    BY <1>2, Larger
  <2>2. d * (a + 1) = d * a + d
    OBVIOUS
  <2>. QED
    BY <2>1, <2>2, <1>2, <1>3
<1>5. ~ q < a
  <2>. SUFFICES ASSUME q + 1 <= a PROVE FALSE
    BY <1>2
  <2>1. d * (q + 1) <= d * a
    BY <1>2, Larger
  <2>2. d * (q + 1) = d * q + d
    BY <1>2
  <2>. QED
    BY <2>1, <2>2, <1>2, <1>3
<1>6. q = a
  BY <1>2, <1>4, <1>5
<1>7. r = b
  BY <1>6, <1>3, <1>2
<1>. QED
  BY <1>1, <1>6, <1>7 DEF q, r

\* The n-th place of a table of T rows and R columns.
RowAt(n, R) == ((n - 1) \div R) + 1
ColumnAt(n, R) == ((n - 1) % R) + 1
LEMMA Place ==
    ASSUME NEW T \in Nat \ {0}, NEW R \in Nat \ {0}, NEW n \in 1 .. T * R
    PROVE  /\ RowAt(n, R) \in 1 .. T /\ ColumnAt(n, R) \in 1 .. R
           /\ n = R * (RowAt(n, R) - 1) + ColumnAt(n, R)
<1>0. T * R \in Nat /\ n - 1 \in Nat /\ n \in Nat /\ n <= T * R
  OBVIOUS
<1> DEFINE q == (n - 1) \div R
           r == (n - 1) % R
<1>1. q \in Nat /\ r \in 0 .. R - 1 /\ n - 1 = R * q + r
  BY <1>0, Halves
<1>2. RowAt(n, R) = q + 1 /\ ColumnAt(n, R) = r + 1
  BY DEF RowAt, ColumnAt
<1> HIDE DEF q, r
<1>3. q < T
  <2>. SUFFICES ASSUME T <= q PROVE FALSE
    BY <1>1
  <2>1. R * T <= R * q
    BY <1>1, Larger
  <2>2. R * T = T * R
    OBVIOUS
  <2>. QED
    BY <2>1, <2>2, <1>1, <1>0
<1>4. RowAt(n, R) - 1 = q /\ R * q \in Nat
  BY <1>1, <1>2
<1>. QED
  BY <1>0, <1>1, <1>2, <1>3, <1>4

LEMMA PlaceOf ==
    ASSUME NEW T \in Nat \ {0}, NEW R \in Nat \ {0}, NEW a \in 1 .. T, NEW b \in 1 .. R
    PROVE  \E n \in 1 .. T * R : RowAt(n, R) = a /\ ColumnAt(n, R) = b
<1>1. a - 1 \in Nat /\ b - 1 \in 0 .. R - 1 /\ a - 1 <= T - 1
  OBVIOUS
<1>2. R * (a - 1) + (b - 1) \in Nat /\ (R * (a - 1) + (b - 1)) \div R = a - 1 /\ (R * (a - 1) + (b - 1)) % R = b - 1
  BY <1>1, OneWay
<1>3. R * (a - 1) <= R * (T - 1)
  BY <1>1, Larger
<1>4. R * (T - 1) = T * R - R /\ T * R \in Nat /\ R * (a - 1) \in Nat
  BY <1>1
<1> DEFINE n == R * (a - 1) + (b - 1) + 1
<1>5. n - 1 = R * (a - 1) + (b - 1)
  BY <1>1
<1>6. n \in 1 .. T * R
  BY <1>2, <1>3, <1>4, <1>1
<1>7. (n - 1) \div R = a - 1 /\ (n - 1) % R = b - 1
  BY <1>2, <1>5
<1>8. RowAt(n, R) = a /\ ColumnAt(n, R) = b
  BY <1>1, <1>7 DEF RowAt, ColumnAt
<1> HIDE DEF n
<1>. QED
  BY <1>6, <1>8

---------------------------------------------------------------------------
(* Recursive definitions.                                                       *)

Row(p, n) == ((n - 1) \div Len(p.resources)) + 1
Column(p, n) == ((n - 1) % Len(p.resources)) + 1
GoodScope(p) ==
    /\ p.types \in Seq(Types) /\ p.resources \in Seq(Resources)
    /\ p.types # <<>> /\ p.resources # <<>> /\ IsInjective(p.types) /\ IsInjective(p.resources)
Places == [type : Types, resource : Resources]

LEMMA SizeIs == ASSUME NEW T, NEW s \in Seq(T), s # <<>> PROVE Len(s) \in Nat \ {0} /\ DOMAIN s = 1 .. Len(s)
OBVIOUS

LEMMA PartsAre ==
    ASSUME NEW p, GoodScope(p)
    PROVE  /\ Len(p.types) \in Nat \ {0} /\ Len(p.resources) \in Nat \ {0}
           /\ Parts(p) \in Seq(Places) /\ Parts(p) # <<>>
           /\ Len(Parts(p)) = Len(p.types) * Len(p.resources) /\ Len(Parts(p)) \in Nat \ {0}
           /\ \A n \in 1 .. Len(Parts(p)) :
                /\ Row(p, n) \in DOMAIN p.types /\ Column(p, n) \in DOMAIN p.resources
                /\ Parts(p)[n] = [type |-> p.types[Row(p, n)], resource |-> p.resources[Column(p, n)]]
                /\ Parts(p)[n].type = p.types[Row(p, n)] /\ Parts(p)[n].resource = p.resources[Column(p, n)]
<1> DEFINE T == Len(p.types)
           R == Len(p.resources)
<1>1. T \in Nat \ {0} /\ R \in Nat \ {0} /\ DOMAIN p.types = 1 .. T /\ DOMAIN p.resources = 1 .. R
  BY SizeIs DEF GoodScope
<1>2. T * R \in Nat \ {0}
  BY <1>1, Product
<1>3. \A n \in 1 .. T * R : Row(p, n) \in 1 .. T /\ Column(p, n) \in 1 .. R
  BY <1>1, Place DEF Row, Column, RowAt, ColumnAt
<1>4. Parts(p) = [n \in 1 .. T * R |-> [type |-> p.types[Row(p, n)], resource |-> p.resources[Column(p, n)]]]
  BY DEF Parts, Row, Column
<1>5. \A n \in 1 .. T * R : p.types[Row(p, n)] \in Types /\ p.resources[Column(p, n)] \in Resources
  <2>. TAKE n \in 1 .. T * R
  <2>1. Row(p, n) \in 1 .. T /\ Column(p, n) \in 1 .. R
    BY <1>3
  <2>2. p.types \in Seq(Types) /\ p.resources \in Seq(Resources)
    BY DEF GoodScope
  <2>. QED
    BY <2>1, <2>2
<1> DEFINE part(n) == [type |-> p.types[Row(p, n)], resource |-> p.resources[Column(p, n)]]
           M == T * R
<1>6. Parts(p) = [n \in 1 .. M |-> part(n)] /\ \A n \in 1 .. M : part(n) \in Places
  BY <1>4, <1>5 DEF Places
<1>7. M \in Nat
  BY <1>2
<1>8. /\ Parts(p) \in Seq(Places) /\ Len(Parts(p)) = M
      /\ \A n \in 1 .. M : Parts(p)[n] = part(n)
  <2> HIDE DEF part, M
  <2>. QED
    BY <1>6, <1>7
<1>9. Parts(p) # <<>>
  BY <1>8, <1>2
<1>10. \A n \in 1 .. M :
         /\ Parts(p)[n] = [type |-> p.types[Row(p, n)], resource |-> p.resources[Column(p, n)]]
         /\ Parts(p)[n].type = p.types[Row(p, n)] /\ Parts(p)[n].resource = p.resources[Column(p, n)]
  <2>. TAKE n \in 1 .. M
  <2>1. Parts(p)[n] = [type |-> p.types[Row(p, n)], resource |-> p.resources[Column(p, n)]]
    BY <1>8, Zenon
  <2>. QED
    BY <2>1
<1>11. Parts(p) \in Seq(Places) /\ Len(Parts(p)) = T * R
  BY <1>8
<1>. QED
  BY <1>1, <1>2, <1>3, <1>11, <1>9, <1>10, Zenon


\* A list of parts fits into what is wanted when what is left after each of them does.
Fits(todo, from, to) ==
    \E g \in [0 .. Len(todo) -> Nat] :
        /\ g[0] <= from /\ to <= g[Len(todo)]
        /\ \A k \in 1 .. Len(todo) : g[k] + todo[k].n <= g[k - 1]

LEMMA FitsNone == ASSUME NEW a \in Nat, NEW b \in Nat, b <= a PROVE Fits(<<>>, a, b)
<1> DEFINE g == [i \in 0 .. 0 |-> a]
<1>1. g \in [0 .. 0 -> Nat] /\ g[0] = a
  OBVIOUS
<1>2. Len(<<>>) = 0 /\ \A k \in 1 .. 0 : FALSE
  OBVIOUS
<1> HIDE DEF g
<1>. QED
  BY <1>1, <1>2 DEF Fits

LEMMA FitsMore ==
    ASSUME NEW u \in Seq(PartsToFill), NEW a \in Nat, NEW b \in Nat, NEW c \in Nat, NEW x \in PartsToFill,
           Fits(u, a, b), c + x.n <= b
    PROVE  Fits(Append(u, x), a, c)
<1> DEFINE m == Len(u)
           v == Append(u, x)
<1>1. PICK g \in [0 .. m -> Nat] : g[0] <= a /\ b <= g[m] /\ \A k \in 1 .. m : g[k] + u[k].n <= g[k - 1]
  BY DEF Fits
<1>2. m \in Nat /\ Len(v) = m + 1 /\ v[m + 1] = x /\ \A k \in 1 .. m : v[k] = u[k]
  OBVIOUS
<1>3. x.n \in Nat
  BY DEF PartsToFill
<1> HIDE DEF m, v
<1> DEFINE h == [k \in 0 .. m + 1 |-> IF k = m + 1 THEN c ELSE g[k]]
<1>4. /\ h \in [0 .. m + 1 -> Nat] /\ h[m + 1] = c /\ \A k \in 0 .. m : h[k] = g[k]
  BY <1>1, <1>2
<1> HIDE DEF h
<1>5. h[0] <= a
  BY <1>1, <1>2, <1>4
<1>6. ASSUME NEW k \in 1 .. m + 1 PROVE h[k] + v[k].n <= h[k - 1]
  <2>1. CASE k = m + 1
    <3>1. m \in 0 .. m /\ h[m] = g[m] /\ h[k] = c /\ v[k] = x /\ k - 1 = m /\ g[m] \in Nat
      BY <2>1, <1>2, <1>4, <1>1
    <3>. QED
      BY <3>1, <1>1, <1>3
  <2>2. CASE k # m + 1
    <3>1. k \in 1 .. m /\ k \in 0 .. m /\ k - 1 \in 0 .. m
      BY <2>2, <1>2
    <3>2. h[k] = g[k] /\ h[k - 1] = g[k - 1] /\ v[k] = u[k]
      BY <3>1, <1>4, <1>2
    <3>. QED
      BY <3>1, <3>2, <1>1
  <2>. QED
    BY <2>1, <2>2
<1>7. c <= h[m + 1]
  BY <1>4
<1>8. \E e \in [0 .. Len(v) -> Nat] :
         e[0] <= a /\ c <= e[Len(v)] /\ \A k \in 1 .. Len(v) : e[k] + v[k].n <= e[k - 1]
  BY <1>2, <1>4, <1>5, <1>6, <1>7
<1>. QED
  BY <1>8 DEF Fits, v

LEMMA FitsTail ==
    ASSUME NEW u \in Seq(PartsToFill), u # <<>>, NEW a \in Nat, NEW c \in Nat, Fits(u, a, c)
    PROVE  \E room \in Nat : room + Head(u).n <= a /\ Fits(Tail(u), room, c)
<1> DEFINE m == Len(u)
           v == Tail(u)
<1>1. PICK g \in [0 .. m -> Nat] : g[0] <= a /\ c <= g[m] /\ \A k \in 1 .. m : g[k] + u[k].n <= g[k - 1]
  BY DEF Fits
<1>2. m \in Nat \ {0} /\ Len(v) = m - 1 /\ Head(u) = u[1] /\ \A k \in 1 .. m - 1 : v[k] = u[k + 1]
  OBVIOUS
<1>3. \A k \in 1 .. m : u[k].n \in Nat
  BY DEF PartsToFill
<1> HIDE DEF m, v
<1> DEFINE h == [k \in 0 .. m - 1 |-> g[k + 1]]
<1>4. h \in [0 .. m - 1 -> Nat] /\ \A k \in 0 .. m - 1 : h[k] = g[k + 1]
  BY <1>1, <1>2
<1> HIDE DEF h
<1>5. h[0] = g[1] /\ h[m - 1] = g[m] /\ h[0] \in Nat
  BY <1>2, <1>4
<1>6. ASSUME NEW k \in 1 .. m - 1 PROVE h[k] + v[k].n <= h[k - 1]
  <2>1. k \in 0 .. m - 1 /\ k - 1 \in 0 .. m - 1 /\ k + 1 \in 1 .. m /\ (k + 1) - 1 = k /\ (k - 1) + 1 = k
    BY <1>2
  <2>2. h[k] = g[k + 1] /\ h[k - 1] = g[k] /\ v[k] = u[k + 1]
    BY <2>1, <1>2, <1>4
  <2>3. g[k + 1] + u[k + 1].n <= g[k]
    BY <2>1, <1>1
  <2>. QED
    BY <2>2, <2>3
<1>7. h[0] + u[1].n <= a
  <2>1. 1 \in 1 .. m /\ 0 \in 0 .. m /\ 1 \in 0 .. m
    BY <1>2
  <2>2. g[1] + u[1].n <= g[1 - 1]
    BY <2>1, <1>1
  <2>3. g[0] \in Nat /\ g[1] \in Nat /\ 1 - 1 = 0
    BY <2>1, <1>1
  <2>. QED
    BY <2>1, <2>2, <2>3, <1>1, <1>3, <1>5
<1>8. Fits(v, h[0], c)
  <2>1. c <= h[m - 1] /\ h[0] <= h[0]
    BY <1>1, <1>5
  <2>. QED
    BY <2>1, <1>2, <1>4, <1>6 DEF Fits
<1>. QED
  BY <1>2, <1>5, <1>7, <1>8 DEF v

LEMMA FitsWider ==
    ASSUME NEW u \in Seq(PartsToFill), NEW a \in Nat, NEW b \in Nat, NEW c \in Nat, a <= b, Fits(u, a, c)
    PROVE  Fits(u, b, c)
<1>1. PICK g \in [0 .. Len(u) -> Nat] :
         g[0] <= a /\ c <= g[Len(u)] /\ \A k \in 1 .. Len(u) : g[k] + u[k].n <= g[k - 1]
  BY DEF Fits
<1>2. g[0] \in Nat
  OBVIOUS
<1>3. g[0] <= b
  BY <1>1, <1>2
<1>. QED
  BY <1>1, <1>3 DEF Fits


\* What WithCounts computes: parts of the scope that fit into what is left.
CountsStep(parts, counts, f) ==
    f = [n \in 0 .. Len(parts) |->
            IF n = 0 THEN <<>>
            ELSE IF counts[n] > 0 THEN Append(f[n - 1], Counted(parts[n], counts[n])) ELSE f[n - 1]]
PartOf(part, parts) ==
    \E n \in 1 .. Len(parts) : part.type = parts[n].type /\ part.resource = parts[n].resource

LEMMA CountedIs ==
    ASSUME NEW part \in Places, NEW n \in Nat, n > 0
    PROVE  Counted(part, n) \in PartsToFill /\ Counted(part, n).n = n
           /\ Counted(part, n).type = part.type /\ Counted(part, n).resource = part.resource
<1>1. part.type \in Types /\ part.resource \in Resources
  BY DEF Places
<1>. QED
  BY <1>1 DEF Counted, PartsToFill

LEMMA WithCountsIs ==
    ASSUME NEW parts \in Seq(Places), NEW counts, \A n \in 1 .. Len(parts) : counts[n] \in Nat,
           NEW left \in [0 .. Len(parts) -> Nat],
           \A n \in 1 .. Len(parts) : left[n] + counts[n] <= left[n - 1]
    PROVE  LET u == WithCounts(parts, counts) IN
           /\ u \in Seq(PartsToFill) /\ Fits(u, left[0], left[Len(parts)])
           /\ \A k \in DOMAIN u : PartOf(u[k], parts)
           /\ (\E n \in 1 .. Len(parts) : counts[n] > 0) => u # <<>>
<1> DEFINE N == Len(parts)
           S == Seq(PartsToFill)
           step == [x \in (1 .. N) \X S |->
                      IF counts[x[1]] > 0 THEN Append(x[2], Counted(parts[x[1]], counts[x[1]])) ELSE x[2]]
<1>0. N \in Nat /\ \A n \in 1 .. N : parts[n] \in Places
  OBVIOUS
<1>1. <<>> \in S
  OBVIOUS
<1>2. step \in [(1 .. N) \X S -> S]
  <2>1. ASSUME NEW x \in (1 .. N) \X S
        PROVE  (IF counts[x[1]] > 0 THEN Append(x[2], Counted(parts[x[1]], counts[x[1]])) ELSE x[2]) \in S
    <3>1. x[1] \in 1 .. N /\ x[2] \in S
      OBVIOUS
    <3>2. counts[x[1]] > 0 => Counted(parts[x[1]], counts[x[1]]) \in PartsToFill
      BY <3>1, <1>0, CountedIs
    <3>. QED
      BY <3>1, <3>2
  <2>. QED
    BY <2>1
<1>3. \A n \in 1 .. N, u \in S :
         step[<<n, u>>] = IF counts[n] > 0 THEN Append(u, Counted(parts[n], counts[n])) ELSE u
  OBVIOUS
<1> HIDE DEF step, S, N
<1>4. PICK f \in [0 .. N -> S] : Computed(f, N, <<>>, step)
  BY <1>0, <1>1, <1>2, Recursion, Zenon
<1>5. CountsStep(parts, counts, f)
  <2>1. \A n \in 0 .. N :
           f[n] = IF n = 0 THEN <<>>
                  ELSE IF counts[n] > 0 THEN Append(f[n - 1], Counted(parts[n], counts[n])) ELSE f[n - 1]
    <3>. TAKE n \in 0 .. N
    <3>1. CASE n = 0
      BY <3>1, <1>4, Zenon DEF Computed
    <3>2. CASE n # 0
      <4>1. n \in 1 .. N /\ n - 1 \in 0 .. N
        BY <3>2, <1>0
      <4>2. f[n] = step[n, f[n - 1]] /\ f[n - 1] \in S
        BY <4>1, <1>4 DEF Computed
      <4>3. step[n, f[n - 1]] = step[<<n, f[n - 1]>>]
        OBVIOUS
      <4>. QED
        BY <4>1, <4>2, <4>3, <1>3, <3>2
    <3>. QED
      BY <3>1, <3>2, Zenon
  <2>2. f = [n \in 0 .. N |-> f[n]]
    OBVIOUS
  <2>. QED
    BY <2>1, <2>2, Zenon DEF CountsStep, N
<1>6. PICK g : CountsStep(parts, counts, g) /\ WithCounts(parts, counts) = g[N]
  BY <1>5, Zenon DEF WithCounts, CountsStep, N
<1>7. \A n \in 0 .. N :
         g[n] = IF n = 0 THEN <<>>
                ELSE IF counts[n] > 0 THEN Append(g[n - 1], Counted(parts[n], counts[n])) ELSE g[n - 1]
  BY <1>6, Zenon DEF CountsStep, N
<1> DEFINE T == {n \in 0 .. N :
                   /\ g[n] \in S /\ Fits(g[n], left[0], left[n])
                   /\ \A k \in DOMAIN g[n] : PartOf(g[n][k], parts)
                   /\ (\E k \in 1 .. n : counts[k] > 0) => g[n] # <<>>}
<1>8. 0 \in T
  <2>1. 0 \in 0 .. N /\ left[0] \in Nat /\ left[0] <= left[0]
    BY <1>0 DEF N
  <2>2. g[0] = <<>>
    BY <2>1, <1>7, Zenon
  <2>3. Fits(<<>>, left[0], left[0])
    BY <2>1, FitsNone
  <2>4. DOMAIN <<>> = {} /\ \A k \in 1 .. 0 : FALSE
    OBVIOUS
  <2>. QED
    BY <2>1, <2>2, <2>3, <2>4, <1>1
<1>9. ASSUME NEW n \in 0 .. N - 1, n \in T PROVE n + 1 \in T
  <2>0. n + 1 \in 0 .. N /\ n + 1 # 0 /\ (n + 1) - 1 = n /\ n + 1 \in 1 .. N /\ n \in 0 .. N
    BY <1>0
  <2>1. /\ g[n] \in S /\ Fits(g[n], left[0], left[n])
        /\ \A k \in DOMAIN g[n] : PartOf(g[n][k], parts)
        /\ (\E k \in 1 .. n : counts[k] > 0) => g[n] # <<>>
    BY <1>9
  <2>2. left[0] \in Nat /\ left[n] \in Nat /\ left[n + 1] \in Nat /\ counts[n + 1] \in Nat
        /\ left[n + 1] + counts[n + 1] <= left[n]
    <3>1. 0 \in 0 .. N
      BY <1>0
    <3>2. left[n + 1] + counts[n + 1] <= left[(n + 1) - 1]
      BY <2>0 DEF N
    <3>. QED
      BY <3>1, <3>2, <2>0 DEF N
  <2>3. g[n + 1] = IF counts[n + 1] > 0 THEN Append(g[n], Counted(parts[n + 1], counts[n + 1])) ELSE g[n]
    BY <2>0, <1>7
  <2>4. CASE counts[n + 1] > 0
    <3> DEFINE c == Counted(parts[n + 1], counts[n + 1])
    <3>1. c \in PartsToFill /\ c.n = counts[n + 1] /\ c.type = parts[n + 1].type /\ c.resource = parts[n + 1].resource
      BY <2>4, <2>0, <2>2, <1>0, CountedIs
    <3>2. g[n + 1] = Append(g[n], c)
      BY <2>3, <2>4
    <3> HIDE DEF c
    <3>3. Fits(Append(g[n], c), left[0], left[n + 1])
      <4>1. left[n + 1] + c.n <= left[n]
        BY <3>1, <2>2
      <4>. QED
        BY <4>1, <2>1, <2>2, <3>1, FitsMore DEF S
    <3>4. Append(g[n], c) \in S /\ Append(g[n], c) # <<>>
      <4>1. Append(g[n], c) \in S /\ Len(Append(g[n], c)) = Len(g[n]) + 1 /\ Len(g[n]) \in Nat
        BY <2>1, <3>1 DEF S
      <4>2. Len(<<>>) = 0
        OBVIOUS
      <4>. QED
        BY <4>1, <4>2
    <3>5. \A k \in DOMAIN Append(g[n], c) : PartOf(Append(g[n], c)[k], parts)
      <4>1. PartOf(c, parts)
        BY <3>1, <2>0 DEF PartOf, N
      <4>2. \A k \in DOMAIN Append(g[n], c) :
               Append(g[n], c)[k] = c \/ (k \in DOMAIN g[n] /\ Append(g[n], c)[k] = g[n][k])
        BY <2>1, <3>1 DEF S
      <4>. QED
        BY <4>1, <4>2, <2>1
    <3>. QED
      BY <3>2, <3>3, <3>4, <3>5, <2>0
  <2>5. CASE ~ counts[n + 1] > 0
    <3>1. g[n + 1] = g[n] /\ left[n + 1] <= left[n]
      BY <2>3, <2>5, <2>2
    <3>2. Fits(g[n], left[0], left[n + 1])
      <4>1. PICK h \in [0 .. Len(g[n]) -> Nat] :
               h[0] <= left[0] /\ left[n] <= h[Len(g[n])]
               /\ \A k \in 1 .. Len(g[n]) : h[k] + g[n][k].n <= h[k - 1]
        BY <2>1 DEF Fits
      <4>2. h[Len(g[n])] \in Nat
        <5>1. Len(g[n]) \in Nat
          BY <2>1 DEF S
        <5>2. Len(g[n]) \in 0 .. Len(g[n])
          BY <5>1
        <5>. QED
          BY <5>2
      <4>3. left[n + 1] <= h[Len(g[n])]
        BY <4>1, <4>2, <3>1, <2>2
      <4>. QED
        BY <4>1, <4>3 DEF Fits
    <3>3. (\E k \in 1 .. n + 1 : counts[k] > 0) => \E k \in 1 .. n : counts[k] > 0
      BY <2>5, <2>0
    <3>. QED
      BY <3>1, <3>2, <3>3, <2>0, <2>1
  <2>. QED
    BY <2>4, <2>5
<1>10. N \in T
  <2>1. N \in 0 .. N
    BY <1>0
  <2> HIDE DEF T
  <2>. QED
    BY <1>0, <1>8, <1>9, <2>1, Climbing
<1>. QED
  BY <1>6, <1>10 DEF N, S


---------------------------------------------------------------------------
(* Sharing out.                                                                 *)

\* What the first i of some parts get.
Given(total, size, i) == (total \div size) * i + (IF i <= total % size THEN i ELSE total % size)

LEMMA GivenIs ==
    ASSUME NEW total \in Nat, NEW size \in Nat \ {0}
    PROVE  /\ \A i \in 0 .. size : Given(total, size, i) \in Nat /\ Given(total, size, i) <= total
           /\ Given(total, size, 0) = 0 /\ Given(total, size, size) = total
           /\ \A i \in 1 .. size : /\ Share(total, size, i) \in Nat
                                   /\ Given(total, size, i - 1) + Share(total, size, i) = Given(total, size, i)
           /\ total > 0 => Share(total, size, 1) > 0
<1> DEFINE q == total \div size
           r == total % size
<1>1. q \in Nat /\ r \in 0 .. size - 1 /\ total = size * q + r
  BY Halves
<1>2. \A i : /\ Given(total, size, i) = q * i + (IF i <= r THEN i ELSE r)
             /\ Share(total, size, i) = q + (IF i <= r THEN 1 ELSE 0)
  BY DEF Given, Share
<1> HIDE DEF q, r
<1>3. q * 0 = 0 /\ q * size = size * q /\ size * q \in Nat
  BY <1>1
<1>4. Given(total, size, 0) = 0 /\ Given(total, size, size) = total
  BY <1>1, <1>2, <1>3
<1>5. ASSUME NEW i \in 0 .. size PROVE Given(total, size, i) \in Nat /\ Given(total, size, i) <= total
  <2>1. q * i <= q * size /\ q * i \in Nat
    BY <1>1, Larger
  <2>2. (IF i <= r THEN i ELSE r) \in Nat /\ (IF i <= r THEN i ELSE r) <= r
    BY <1>1
  <2>. QED
    BY <2>1, <2>2, <1>1, <1>2, <1>3
<1>6. ASSUME NEW i \in 1 .. size
      PROVE  Share(total, size, i) \in Nat
             /\ Given(total, size, i - 1) + Share(total, size, i) = Given(total, size, i)
  <2>1. q * (i - 1) + q = q * i /\ q * (i - 1) \in Nat /\ q * i \in Nat
    BY <1>1
  <2>2. Given(total, size, i - 1) = q * (i - 1) + (IF i - 1 <= r THEN i - 1 ELSE r)
    BY <1>2
  <2>3. CASE i <= r
    BY <2>1, <2>2, <2>3, <1>1, <1>2
  <2>4. CASE ~ i <= r
    <3>1. (IF i - 1 <= r THEN i - 1 ELSE r) = r
      BY <2>4, <1>1
    <3>. QED
      BY <3>1, <2>1, <2>2, <2>4, <1>1, <1>2
  <2>. QED
    BY <2>3, <2>4
<1>7. ASSUME total > 0 PROVE Share(total, size, 1) > 0
  <2>1. CASE r = 0
    <3>1. q # 0
      BY <2>1, <1>1, <1>7
    <3>. QED
      BY <3>1, <1>1, <1>2
  <2>2. CASE r # 0
    BY <2>2, <1>1, <1>2
  <2>. QED
    BY <2>1, <2>2
<1>. QED
  BY <1>4, <1>5, <1>6, <1>7

\* The parts of a preparation: what is wanted is shared out among all.
PrepareParts(p, want) ==
    WithCounts(Parts(p), [n \in DOMAIN Parts(p) |-> Share(want, Len(Parts(p)), n)])
LEMMA PreparePartsAre ==
    ASSUME NEW p, GoodScope(p), NEW want \in Nat \ {0}
    PROVE  LET u == PrepareParts(p, want) IN
           u \in Seq(PartsToFill) /\ u # <<>> /\ Fits(u, want, 0) /\ \A k \in DOMAIN u : PartOf(u[k], Parts(p))
<1> DEFINE parts == Parts(p)
           N == Len(parts)
           counts == [n \in DOMAIN parts |-> Share(want, N, n)]
           left == [n \in 0 .. N |-> want - Given(want, N, n)]
<1>1. parts \in Seq(Places) /\ N \in Nat \ {0} /\ DOMAIN parts = 1 .. N
  <2>1. parts \in Seq(Places) /\ N \in Nat \ {0}
    BY PartsAre, Zenon
  <2>2. DOMAIN parts = 1 .. N
    BY <2>1
  <2>. QED
    BY <2>1, <2>2
<1>2. \A n \in 0 .. N : Given(want, N, n) \in Nat /\ Given(want, N, n) <= want
  BY <1>1, GivenIs
<1>3. left \in [0 .. N -> Nat] /\ \A n \in 0 .. N : left[n] = want - Given(want, N, n)
  BY <1>2
<1>4. left[0] = want /\ left[N] = 0
  <2>1. Given(want, N, 0) = 0 /\ Given(want, N, N) = want
    BY <1>1, GivenIs
  <2>2. 0 \in 0 .. N /\ N \in 0 .. N
    BY <1>1
  <2>. QED
    BY <2>1, <2>2, <1>3
<1>5. \A n \in 1 .. N : counts[n] = Share(want, N, n) /\ counts[n] \in Nat
  <2>1. \A n \in 1 .. N : counts[n] = Share(want, N, n)
    BY <1>1
  <2>2. \A n \in 1 .. N : Share(want, N, n) \in Nat
    BY <1>1, GivenIs
  <2>. QED
    BY <2>1, <2>2
<1>6. \A n \in 1 .. N : left[n] + counts[n] <= left[n - 1]
  <2>. TAKE n \in 1 .. N
  <2>1. n \in 0 .. N /\ n - 1 \in 0 .. N
    BY <1>1
  <2>2. Given(want, N, n - 1) + Share(want, N, n) = Given(want, N, n)
    BY <1>1, GivenIs
  <2>3. Given(want, N, n - 1) \in Nat /\ Given(want, N, n) \in Nat /\ Share(want, N, n) \in Nat
    BY <2>1, <1>2, <1>5
  <2>4. left[n] = want - Given(want, N, n) /\ left[n - 1] = want - Given(want, N, n - 1) /\ counts[n] = Share(want, N, n)
    BY <2>1, <1>3, <1>5
  <2> HIDE DEF left, counts, N, parts
  <2>. QED
    BY <2>2, <2>3, <2>4
<1>7. \E n \in 1 .. N : counts[n] > 0
  <2>1. 1 \in 1 .. N /\ want \in Nat /\ want > 0
    BY <1>1
  <2>2. Share(want, N, 1) > 0
    BY <2>1, <1>1, GivenIs
  <2>. QED
    BY <2>1, <2>2, <1>5
<1> HIDE DEF counts, left
<1>8. LET u == WithCounts(parts, counts) IN
      /\ u \in Seq(PartsToFill) /\ Fits(u, left[0], left[N])
      /\ \A k \in DOMAIN u : PartOf(u[k], parts)
      /\ (\E n \in 1 .. N : counts[n] > 0) => u # <<>>
  BY <1>1, <1>3, <1>5, <1>6, WithCountsIs
<1>9. PrepareParts(p, want) = WithCounts(parts, counts)
  BY DEF PrepareParts, counts
<1>. QED
  BY <1>4, <1>7, <1>8, <1>9

\* Of what is missing at the end every part may make up for all.
SecondParts(p) == WithCounts(Parts(p), [n \in DOMAIN Parts(p) |-> 1])
LEMMA SecondPartsAre ==
    ASSUME NEW p, GoodScope(p)
    PROVE  LET u == SecondParts(p) IN
           u \in Seq(PartsToFill) /\ u # <<>> /\ \A k \in DOMAIN u : PartOf(u[k], Parts(p))
<1> DEFINE parts == Parts(p)
           N == Len(parts)
           counts == [n \in DOMAIN parts |-> 1]
           left == [n \in 0 .. N |-> N - n]
<1>1. parts \in Seq(Places) /\ N \in Nat \ {0} /\ DOMAIN parts = 1 .. N
  <2>1. parts \in Seq(Places) /\ N \in Nat \ {0}
    BY PartsAre, Zenon
  <2>2. DOMAIN parts = 1 .. N
    BY <2>1
  <2>. QED
    BY <2>1, <2>2
<1>2. \A n \in 1 .. N : counts[n] = 1 /\ counts[n] \in Nat
  BY <1>1
<1>3. left \in [0 .. N -> Nat] /\ \A n \in 0 .. N : left[n] = N - n
  BY <1>1
<1>4. \A n \in 1 .. N : left[n] + counts[n] <= left[n - 1]
  <2>. TAKE n \in 1 .. N
  <2>1. n \in 0 .. N /\ n - 1 \in 0 .. N
    BY <1>1
  <2>2. left[n] = N - n /\ left[n - 1] = N - (n - 1) /\ counts[n] = 1
    BY <2>1, <1>2, <1>3
  <2> HIDE DEF left, counts
  <2>. QED
    BY <2>2, <1>1
<1>5. \E n \in 1 .. N : counts[n] > 0
  <2>1. 1 \in 1 .. N
    BY <1>1
  <2>. QED
    BY <2>1, <1>2
<1> HIDE DEF counts, left
<1>6. LET u == WithCounts(parts, counts) IN
      /\ u \in Seq(PartsToFill) /\ Fits(u, left[0], left[N])
      /\ \A k \in DOMAIN u : PartOf(u[k], parts)
      /\ (\E n \in 1 .. N : counts[n] > 0) => u # <<>>
  BY <1>1, <1>2, <1>3, <1>4, WithCountsIs
<1>7. SecondParts(p) = WithCounts(parts, counts)
  BY DEF SecondParts, counts
<1>. QED
  BY <1>5, <1>6, <1>7


\* The parts of a recommendation: the number is shared out among the types, and the
\* number of a type among the resources.
TypeShare(p, most, n) == Share(most, Len(p.types), Row(p, n))
AskedCounts(p, most, types) == [n \in DOMAIN Parts(p) |->
    LET index == ((n - 1) \div Len(p.resources)) + 1 IN
    IF p.types[index] \notin types THEN 0
    ELSE Share(Share(most, Len(p.types), index), Len(p.resources), ((n - 1) % Len(p.resources)) + 1)]
AskedParts(p, most, types) == WithCounts(Parts(p), AskedCounts(p, most, types))

\* What is left after n parts: the types before get theirs, the one at hand a part of its own.
Left(p, most, n) ==
    LET row == n \div Len(p.resources)  column == n % Len(p.resources) IN
    most - Given(most, Len(p.types), row)
         - (IF column = 0 THEN 0 ELSE Given(Share(most, Len(p.types), row + 1), Len(p.resources), column))

LEMMA LeftIs ==
    ASSUME NEW p, GoodScope(p), NEW most \in Nat
    PROVE  LET M == Len(Parts(p)) IN
           /\ \A n \in 0 .. M : Left(p, most, n) \in Nat
           /\ Left(p, most, 0) = most
           /\ \A n \in 1 .. M : /\ Share(TypeShare(p, most, n), Len(p.resources), Column(p, n)) \in Nat
                                /\ Left(p, most, n) + Share(TypeShare(p, most, n), Len(p.resources), Column(p, n))
                                     = Left(p, most, n - 1)
<1> DEFINE T == Len(p.types)
           R == Len(p.resources)
           M == Len(Parts(p))
<1>1. T \in Nat \ {0} /\ R \in Nat \ {0} /\ M = T * R /\ M \in Nat
  <2>1. T \in Nat \ {0} /\ R \in Nat \ {0} /\ M = T * R /\ M \in Nat \ {0}
    BY PartsAre, Zenon
  <2>. QED
    BY <2>1
<1> HIDE DEF T, R, M
<1> DEFINE left(n) == most - Given(most, T, n \div R)
                           - (IF n % R = 0 THEN 0 ELSE Given(Share(most, T, (n \div R) + 1), R, n % R))
<1>2. \A n : Left(p, most, n) = left(n)
  BY DEF Left, T, R
<1>3. /\ \A i \in 0 .. T : Given(most, T, i) \in Nat /\ Given(most, T, i) <= most
      /\ Given(most, T, 0) = 0
      /\ \A i \in 1 .. T : /\ Share(most, T, i) \in Nat
                           /\ Given(most, T, i - 1) + Share(most, T, i) = Given(most, T, i)
  BY <1>1, GivenIs
<1>4. \A s \in Nat :
         /\ \A i \in 0 .. R : Given(s, R, i) \in Nat /\ Given(s, R, i) <= s
         /\ Given(s, R, 0) = 0 /\ Given(s, R, R) = s
         /\ \A i \in 1 .. R : /\ Share(s, R, i) \in Nat
                              /\ Given(s, R, i - 1) + Share(s, R, i) = Given(s, R, i)
  BY <1>1, GivenIs
\* Where n is: a rows are full, b of the next are.
<1>5. \A a \in 0 .. T, b \in 0 .. R : a < T \/ b = 0 =>
         most - Given(most, T, a) - (IF b = 0 THEN 0 ELSE Given(Share(most, T, a + 1), R, b)) \in Nat
  <2>. TAKE a \in 0 .. T, b \in 0 .. R
  <2>. HAVE a < T \/ b = 0
  <2>1. Given(most, T, a) \in Nat /\ Given(most, T, a) <= most
    BY <1>3
  <2>2. CASE b = 0
    BY <2>1, <2>2
  <2>3. CASE b # 0
    <3>1. a + 1 \in 1 .. T /\ (a + 1) - 1 = a /\ a + 1 \in 0 .. T
      BY <2>3, <1>1
    <3>2. Share(most, T, a + 1) \in Nat /\ Given(most, T, a) + Share(most, T, a + 1) = Given(most, T, a + 1)
          /\ Given(most, T, a + 1) \in Nat /\ Given(most, T, a + 1) <= most
      <4>1. Given(most, T, (a + 1) - 1) + Share(most, T, a + 1) = Given(most, T, a + 1)
        BY <3>1, <1>3
      <4>. QED
        BY <4>1, <3>1, <1>3
    <3>3. Given(Share(most, T, a + 1), R, b) \in Nat /\ Given(Share(most, T, a + 1), R, b) <= Share(most, T, a + 1)
      BY <3>2, <1>4
    <3>. QED
      BY <2>1, <2>3, <3>2, <3>3
  <2>. QED
    BY <2>2, <2>3
\* From n - 1 to n, by row and column of the n-th part.
<1>6. ASSUME NEW n \in 1 .. M
      PROVE  LET a == (n - 1) \div R  b == (n - 1) % R IN
             /\ a \in 0 .. T - 1 /\ b \in 0 .. R - 1
             /\ b < R - 1 => n \div R = a /\ n % R = b + 1
             /\ b = R - 1 => n \div R = a + 1 /\ n % R = 0
  <2> DEFINE a == (n - 1) \div R
             b == (n - 1) % R
  <2>0. RowAt(n, R) = a + 1 /\ ColumnAt(n, R) = b + 1
    BY DEF RowAt, ColumnAt
  <2>2. a \in Nat /\ b \in 0 .. R - 1
    <3>1. n - 1 \in Nat
      BY <1>1
    <3>. QED
      BY <3>1, <1>1, Halves
  <2> HIDE DEF a, b
  <2>1. a + 1 \in 1 .. T /\ b + 1 \in 1 .. R /\ n = R * a + b + 1
    <3>1. /\ RowAt(n, R) \in 1 .. T /\ ColumnAt(n, R) \in 1 .. R
          /\ n = R * (RowAt(n, R) - 1) + ColumnAt(n, R)
      BY <1>1, Place
    <3>2. (a + 1) - 1 = a /\ R * a \in Nat
      BY <2>2, <1>1
    <3>. QED
      BY <3>1, <3>2, <2>0, <2>2
  <2>3. a \in 0 .. T - 1
    BY <2>1, <2>2, <1>1
  <2>4. ASSUME b < R - 1 PROVE n \div R = a /\ n % R = b + 1
    <3>1. b + 1 \in 0 .. R - 1 /\ n = R * a + (b + 1)
      <4>1. R * a \in Nat
        BY <2>2, <1>1
      <4>. QED
        BY <4>1, <2>1, <2>2, <2>4, <1>1
    <3>. QED
      BY <3>1, <2>2, <1>1, OneWay
  <2>5. ASSUME b = R - 1 PROVE n \div R = a + 1 /\ n % R = 0
    <3>1. 0 \in 0 .. R - 1 /\ a + 1 \in Nat /\ n = R * (a + 1) + 0
      <4>1. R * a \in Nat /\ R * (a + 1) = R * a + R
        BY <2>2, <1>1
      <4>. QED
        BY <4>1, <2>1, <2>2, <2>5, <1>1
    <3>. QED
      BY <3>1, <1>1, OneWay
  <2>. QED
    BY <2>2, <2>3, <2>4, <2>5 DEF a, b
<1>7. ASSUME NEW n \in 1 .. M
      PROVE  LET s == TypeShare(p, most, n) IN
             /\ left(n) \in Nat /\ left(n - 1) \in Nat /\ Share(s, R, Column(p, n)) \in Nat
             /\ left(n) + Share(s, R, Column(p, n)) = left(n - 1)
  <2> DEFINE a == (n - 1) \div R
             b == (n - 1) % R
             s == Share(most, T, a + 1)
  <2>1. /\ a \in 0 .. T - 1 /\ b \in 0 .. R - 1
        /\ b < R - 1 => n \div R = a /\ n % R = b + 1
        /\ b = R - 1 => n \div R = a + 1 /\ n % R = 0
    BY <1>6
  <2>2. TypeShare(p, most, n) = s /\ Column(p, n) = b + 1
    BY DEF TypeShare, Row, Column, T, R
  <2>3. left(n - 1) = most - Given(most, T, a) - (IF b = 0 THEN 0 ELSE Given(s, R, b))
    OBVIOUS
  <2>4. left(n) = most - Given(most, T, n \div R)
                       - (IF n % R = 0 THEN 0 ELSE Given(Share(most, T, (n \div R) + 1), R, n % R))
    OBVIOUS
  <2> HIDE DEF a, b, left
  <2>5. a + 1 \in 1 .. T /\ (a + 1) - 1 = a /\ b + 1 \in 1 .. R /\ (b + 1) - 1 = b /\ a + 1 \in 0 .. T
        /\ a \in 0 .. T /\ b \in 0 .. R /\ b + 1 \in 0 .. R /\ 0 \in 0 .. R /\ a < T
    BY <2>1, <1>1
  <2>6. /\ s \in Nat /\ Given(most, T, a) + s = Given(most, T, a + 1)
        /\ Given(most, T, a) \in Nat /\ Given(most, T, a + 1) \in Nat
    <3>1. Given(most, T, (a + 1) - 1) + Share(most, T, a + 1) = Given(most, T, a + 1)
      BY <2>5, <1>3
    <3>. QED
      BY <3>1, <2>5, <1>3
  <2>7. /\ Share(s, R, b + 1) \in Nat /\ Given(s, R, b) + Share(s, R, b + 1) = Given(s, R, b + 1)
        /\ Given(s, R, b) \in Nat /\ Given(s, R, b + 1) \in Nat
    <3>1. Given(s, R, (b + 1) - 1) + Share(s, R, b + 1) = Given(s, R, b + 1)
      BY <2>5, <2>6, <1>4
    <3>. QED
      BY <3>1, <2>5, <2>6, <1>4
  <2>8. (IF b = 0 THEN 0 ELSE Given(s, R, b)) = Given(s, R, b)
    BY <2>6, <1>4
  <2>9. left(n - 1) \in Nat
    BY <2>3, <2>5, <1>5
  <2>10. CASE b < R - 1
    <3>1. left(n) = most - Given(most, T, a) - Given(s, R, b + 1)
      <4>1. n \div R = a /\ n % R = b + 1 /\ b + 1 # 0
        BY <2>1, <2>10
      <4>. QED
        BY <4>1, <2>4
    <3>2. left(n) \in Nat
      <4>1. b + 1 # 0
        BY <2>1
      <4>2. most - Given(most, T, a) - (IF b + 1 = 0 THEN 0 ELSE Given(Share(most, T, a + 1), R, b + 1)) \in Nat
        BY <2>5, <1>5
      <4>. QED
        BY <4>1, <4>2, <3>1
    <3> HIDE DEF s
    <3>. QED
      BY <3>1, <3>2, <2>2, <2>3, <2>6, <2>7, <2>8, <2>9
  <2>11. CASE b = R - 1
    <3>1. left(n) = most - Given(most, T, a + 1)
      <4>1. n \div R = a + 1 /\ n % R = 0
        BY <2>1, <2>11
      <4>2. most - Given(most, T, a + 1) \in Int
        BY <2>6
      <4>. QED
        BY <4>1, <4>2, <2>4
    <3>2. left(n) \in Nat
      <4>1. Given(most, T, a + 1) <= most
        BY <2>5, <1>3
      <4>. QED
        BY <4>1, <3>1, <2>6
    <3>3. Given(s, R, b + 1) = s
      <4>1. b + 1 = R
        BY <2>11, <1>1
      <4>. QED
        BY <4>1, <2>6, <1>4
    <3> HIDE DEF s
    <3>. QED
      BY <3>1, <3>2, <3>3, <2>2, <2>3, <2>6, <2>7, <2>8, <2>9
  <2>12. b < R - 1 \/ b = R - 1
    BY <2>1, <1>1
  <2>. QED
    BY <2>10, <2>11, <2>12
<1>8. left(0) = most
  <2>1. 0 = R * 0 + 0 /\ 0 \in 0 .. R - 1
    BY <1>1
  <2>2. 0 \div R = 0 /\ 0 % R = 0
    BY <2>1, <1>1, OneWay
  <2>. QED
    BY <2>2, <1>3
<1>9. \A n \in 0 .. M : left(n) \in Nat
  <2>. TAKE n \in 0 .. M
  <2>1. CASE n = 0
    BY <2>1, <1>8
  <2>2. CASE n # 0
    <3>1. n \in 1 .. M
      BY <2>2, <1>1
    <3> HIDE DEF left
    <3>. QED
      BY <3>1, <1>7
  <2>. QED
    BY <2>1, <2>2
<1> HIDE DEF left
<1>. QED
  BY <1>2, <1>7, <1>8, <1>9 DEF M, R

LEMMA AskedPartsAre ==
    ASSUME NEW p, GoodScope(p), NEW most \in Nat, NEW types
    PROVE  LET u == AskedParts(p, most, types) IN
           u \in Seq(PartsToFill) /\ Fits(u, most, 0) /\ \A k \in DOMAIN u : PartOf(u[k], Parts(p))
<1> DEFINE parts == Parts(p)
           N == Len(parts)
           counts == AskedCounts(p, most, types)
           left == [n \in 0 .. N |-> Left(p, most, n)]
<1>1. parts \in Seq(Places) /\ N \in Nat \ {0} /\ DOMAIN parts = 1 .. N
  <2>1. parts \in Seq(Places) /\ N \in Nat \ {0}
    BY PartsAre, Zenon
  <2>2. DOMAIN parts = 1 .. N
    BY <2>1
  <2>. QED
    BY <2>1, <2>2
<1>2. /\ \A n \in 0 .. N : Left(p, most, n) \in Nat
      /\ Left(p, most, 0) = most
      /\ \A n \in 1 .. N : /\ Share(TypeShare(p, most, n), Len(p.resources), Column(p, n)) \in Nat
                           /\ Left(p, most, n) + Share(TypeShare(p, most, n), Len(p.resources), Column(p, n))
                                = Left(p, most, n - 1)
  BY LeftIs, Zenon
<1>3. left \in [0 .. N -> Nat] /\ \A n \in 0 .. N : left[n] = Left(p, most, n)
  BY <1>2
<1>4. \A n \in 1 .. N : counts[n] = IF p.types[Row(p, n)] \notin types THEN 0
                                    ELSE Share(TypeShare(p, most, n), Len(p.resources), Column(p, n))
  BY <1>1 DEF AskedCounts, TypeShare, Row, Column
<1>5. \A n \in 1 .. N : counts[n] \in Nat
  BY <1>2, <1>4
<1>6. \A n \in 1 .. N : left[n] + counts[n] <= left[n - 1]
  <2>. TAKE n \in 1 .. N
  <2>1. n \in 0 .. N /\ n - 1 \in 0 .. N
    BY <1>1
  <2>2. left[n] = Left(p, most, n) /\ left[n - 1] = Left(p, most, n - 1) /\ Left(p, most, n) \in Nat
    BY <2>1, <1>2, <1>3
  <2> DEFINE share == Share(TypeShare(p, most, n), Len(p.resources), Column(p, n))
  <2>3. share \in Nat /\ Left(p, most, n) + share = Left(p, most, n - 1) /\ (counts[n] = 0 \/ counts[n] = share)
    BY <1>2, <1>4
  <2> HIDE DEF share, left, counts
  <2>. QED
    BY <2>2, <2>3
<1> HIDE DEF counts, left
<1>7. LET u == WithCounts(parts, counts) IN
      /\ u \in Seq(PartsToFill) /\ Fits(u, left[0], left[N])
      /\ \A k \in DOMAIN u : PartOf(u[k], parts)
  BY <1>1, <1>3, <1>5, <1>6, WithCountsIs
<1>8. left[0] = most /\ left[N] \in Nat
  <2>1. 0 \in 0 .. N /\ N \in 0 .. N
    BY <1>1
  <2>. QED
    BY <2>1, <1>2, <1>3
<1>9. AskedParts(p, most, types) = WithCounts(parts, counts)
  BY DEF AskedParts, counts
<1>10. Fits(AskedParts(p, most, types), most, 0)
  <2> DEFINE u == AskedParts(p, most, types)
  <2>1. PICK g \in [0 .. Len(u) -> Nat] :
           g[0] <= most /\ left[N] <= g[Len(u)] /\ \A k \in 1 .. Len(u) : g[k] + u[k].n <= g[k - 1]
    BY <1>7, <1>8, <1>9 DEF Fits
  <2>2. Len(u) \in 0 .. Len(u)
    <3>1. Len(u) \in Nat
      BY <1>7, <1>9
    <3>. QED
      BY <3>1
  <2>3. 0 <= g[Len(u)]
    BY <2>2
  <2>. QED
    BY <2>1, <2>3 DEF Fits
<1>. QED
  BY <1>7, <1>9, <1>10


---------------------------------------------------------------------------
(* The numbers on the pages.                                                    *)

QuizTypes ==
    /\ quiz \in Seq(MadeQuizzes \cup {None}) /\ Len(quiz) <= MaxQuizzes
    /\ \A q \in DOMAIN quiz : quiz[q] # None => quiz[q].corrects <= quiz[q].attempts

SumStep(ids, number, f) ==
    f = [n \in 0 .. Len(quiz) |-> IF n = 0 THEN 0 ELSE f[n - 1] + IF n \in ids THEN quiz[n][number] ELSE 0]

Adds(ids, number, f) ==
    /\ f \in [0 .. Len(quiz) -> Nat] /\ f[0] = 0 /\ Sum(ids, number) = f[Len(quiz)]
    /\ \A n \in 1 .. Len(quiz) : f[n] = f[n - 1] + IF n \in ids THEN quiz[n][number] ELSE 0

LEMMA SumIs ==
    ASSUME NEW ids, NEW number, quiz \in Seq(MadeQuizzes \cup {None}),
           \A n \in DOMAIN quiz : n \in ids => quiz[n][number] \in Nat
    PROVE  \E f : Adds(ids, number, f)
<1> DEFINE N == Len(quiz)
           add(n) == IF n \in ids THEN quiz[n][number] ELSE 0
           step == [x \in (1 .. N) \X Nat |-> x[2] + add(x[1])]
<1>0. N \in Nat /\ DOMAIN quiz = 1 .. N
  OBVIOUS
<1>1. \A n \in 1 .. N : add(n) \in Nat
  BY <1>0
<1>2. step \in [(1 .. N) \X Nat -> Nat]
  <2>1. \A x \in (1 .. N) \X Nat : x[2] + add(x[1]) \in Nat
    <3>. TAKE x \in (1 .. N) \X Nat
    <3>1. x[1] \in 1 .. N /\ x[2] \in Nat
      OBVIOUS
    <3>2. add(x[1]) \in Nat
      BY <3>1, <1>1
    <3> HIDE DEF add
    <3>. QED
      BY <3>1, <3>2
  <2>. QED
    BY <2>1
<1>3. \A n \in 1 .. N, k \in Nat : step[n, k] = k + add(n)
  OBVIOUS
<1> HIDE DEF step, N
<1>4. PICK f \in [0 .. N -> Nat] : Computed(f, N, 0, step)
  BY <1>0, <1>2, Recursion
<1>5. SumStep(ids, number, f)
  <2>1. \A n \in 0 .. N : f[n] = IF n = 0 THEN 0 ELSE f[n - 1] + add(n)
    <3>. TAKE n \in 0 .. N
    <3>1. CASE n = 0
      BY <3>1, <1>4, Zenon DEF Computed
    <3>2. CASE n # 0
      <4>1. n \in 1 .. N /\ n - 1 \in 0 .. N
        BY <3>2, <1>0
      <4>2. f[n] = step[n, f[n - 1]] /\ f[n - 1] \in Nat
        BY <4>1, <1>4 DEF Computed
      <4>3. f[n] = f[n - 1] + add(n)
        BY <4>1, <4>2, <1>3, Zenon
      <4>. QED
        BY <4>3, <3>2, Zenon
    <3>. QED
      BY <3>1, <3>2, Zenon
  <2>2. f = [n \in 0 .. N |-> f[n]]
    OBVIOUS
  <2>. QED
    BY <2>1, <2>2, Zenon DEF SumStep, N
<1>6. PICK g : SumStep(ids, number, g) /\ Sum(ids, number) = g[N]
  BY <1>5, Zenon DEF Sum, SumStep, N
<1>7. \A n \in 0 .. N : g[n] = IF n = 0 THEN 0 ELSE g[n - 1] + add(n)
  BY <1>6, Zenon DEF SumStep, N
<1> DEFINE T == {n \in 0 .. N : g[n] \in Nat}
<1>8. 0 \in T
  <2>1. 0 \in 0 .. N
    BY <1>0
  <2>2. g[0] = 0
    BY <2>1, <1>7, Zenon
  <2>. QED
    BY <2>1, <2>2
<1>9. ASSUME NEW n \in 0 .. N - 1, n \in T PROVE n + 1 \in T
  <2>1. n + 1 \in 0 .. N /\ n + 1 # 0 /\ (n + 1) - 1 = n /\ n + 1 \in 1 .. N
    BY <1>0
  <2>2. add(n + 1) \in Nat /\ g[n] \in Nat
    BY <2>1, <1>1, <1>9
  <2> HIDE DEF add
  <2>3. g[n + 1] = g[n] + add(n + 1)
    BY <2>1, <1>7
  <2>. QED
    BY <2>1, <2>2, <2>3
<1>10. \A n \in 0 .. N : g[n] \in Nat
  <2>1. \A n \in 0 .. N : n \in T
    <3> HIDE DEF T
    <3>. QED
      BY <1>0, <1>8, <1>9, Climbing
  <2>. QED
    BY <2>1
<1>11. g \in [0 .. N -> Nat]
  <2>1. g = [n \in 0 .. N |-> g[n]]
    BY <1>6, <1>7, Zenon DEF SumStep, N
  <2>. QED
    BY <2>1, <1>10
<1>12. g[0] = 0
  BY <1>0, <1>7
<1>13. \A n \in 1 .. N : g[n] = g[n - 1] + add(n)
  <2>. TAKE n \in 1 .. N
  <2>1. n \in 0 .. N /\ n # 0
    BY <1>0
  <2>. QED
    BY <2>1, <1>7, Zenon
<1>. QED
  BY <1>6, <1>11, <1>12, <1>13, Zenon DEF N, Adds

\* No more right answers than answers.
LEMMA FewerCorrect ==
    ASSUME NEW ids, ids \subseteq DOMAIN quiz, QuizTypes, \A q \in ids : quiz[q] # None
    PROVE  Corrects(ids) <= Attempts(ids) /\ Corrects(ids) \in Nat /\ Attempts(ids) \in Nat
<1> DEFINE N == Len(quiz)
<1>0. quiz \in Seq(MadeQuizzes \cup {None}) /\ N \in Nat /\ DOMAIN quiz = 1 .. N
  BY DEF QuizTypes
<1>1. \A n \in DOMAIN quiz : n \in ids => /\ quiz[n]["attempts"] \in Nat /\ quiz[n]["corrects"] \in Nat
                                         /\ quiz[n]["corrects"] <= quiz[n]["attempts"]
  <2>. TAKE n \in DOMAIN quiz
  <2>. HAVE n \in ids
  <2>1. quiz[n] \in MadeQuizzes /\ quiz[n].corrects <= quiz[n].attempts
    BY <1>0 DEF QuizTypes
  <2>. QED
    BY <2>1 DEF MadeQuizzes
<1>2. PICK f : Adds(ids, "attempts", f)
  <2>1. \A n \in DOMAIN quiz : n \in ids => quiz[n]["attempts"] \in Nat
    BY <1>1
  <2>. QED
    BY <2>1, <1>0, SumIs, Zenon
<1>3. PICK g : Adds(ids, "corrects", g)
  <2>1. \A n \in DOMAIN quiz : n \in ids => quiz[n]["corrects"] \in Nat
    BY <1>1
  <2>. QED
    BY <2>1, <1>0, SumIs, Zenon
<1>10. /\ f \in [0 .. N -> Nat] /\ f[0] = 0 /\ Sum(ids, "attempts") = f[N]
       /\ \A n \in 1 .. N : f[n] = f[n - 1] + IF n \in ids THEN quiz[n]["attempts"] ELSE 0
  BY <1>2, Zenon DEF Adds
<1>11. /\ g \in [0 .. N -> Nat] /\ g[0] = 0 /\ Sum(ids, "corrects") = g[N]
       /\ \A n \in 1 .. N : g[n] = g[n - 1] + IF n \in ids THEN quiz[n]["corrects"] ELSE 0
  BY <1>3, Zenon DEF Adds
<1> HIDE DEF N
<1> DEFINE T == {n \in 0 .. N : g[n] <= f[n]}
<1>4. 0 \in T
  BY <1>0, <1>10, <1>11
<1>5. ASSUME NEW n \in 0 .. N - 1, n \in T PROVE n + 1 \in T
  <2>1. n + 1 \in 0 .. N /\ (n + 1) - 1 = n /\ n + 1 \in 1 .. N /\ n \in 0 .. N
    BY <1>0
  <2>2. f[n + 1] = f[n] + (IF n + 1 \in ids THEN quiz[n + 1]["attempts"] ELSE 0)
    BY <2>1, <1>10
  <2>3. g[n + 1] = g[n] + (IF n + 1 \in ids THEN quiz[n + 1]["corrects"] ELSE 0)
    BY <2>1, <1>11
  <2>4. f[n] \in Nat /\ g[n] \in Nat /\ g[n] <= f[n]
    BY <2>1, <1>5, <1>10, <1>11
  <2>5. CASE n + 1 \in ids
    <3>1. /\ quiz[n + 1]["attempts"] \in Nat /\ quiz[n + 1]["corrects"] \in Nat
          /\ quiz[n + 1]["corrects"] <= quiz[n + 1]["attempts"]
      BY <2>5, <1>1
    <3>. QED
      BY <3>1, <2>1, <2>2, <2>3, <2>4, <2>5
  <2>6. CASE n + 1 \notin ids
    BY <2>1, <2>2, <2>3, <2>4, <2>6
  <2>. QED
    BY <2>5, <2>6
<1>6. N \in T
  <2>1. N \in 0 .. N
    BY <1>0
  <2> HIDE DEF T
  <2>. QED
    BY <1>0, <1>4, <1>5, <2>1, Climbing
<1>7. f[N] \in Nat /\ g[N] \in Nat
  BY <1>6, <1>10, <1>11
<1>. QED
  BY <1>10, <1>11, <1>6, <1>7 DEF Corrects, Attempts, N

OrderStep(ids, f) ==
    f = [n \in 0 .. Len(quiz) |-> IF n = 0 THEN <<>> ELSE IF n \in ids THEN Append(f[n - 1], n) ELSE f[n - 1]]

LEMMA InOrderIs ==
    ASSUME NEW ids, quiz \in Seq(MadeQuizzes \cup {None}), ids \subseteq DOMAIN quiz
    PROVE  InOrder(ids) \in Seq(ids) /\ Len(InOrder(ids)) = Cardinality(ids) /\ IsFiniteSet(ids)
<1> DEFINE N == Len(quiz)
           S == Seq(Nat)
           step == [x \in (1 .. N) \X S |-> IF x[1] \in ids THEN Append(x[2], x[1]) ELSE x[2]]
<1>0. N \in Nat /\ DOMAIN quiz = 1 .. N
  OBVIOUS
<1>1. <<>> \in S
  OBVIOUS
<1>2. step \in [(1 .. N) \X S -> S]
  OBVIOUS
<1>3. \A n \in 1 .. N, u \in S : step[n, u] = IF n \in ids THEN Append(u, n) ELSE u
  OBVIOUS
<1> HIDE DEF step, N, S
<1>4. PICK f \in [0 .. N -> S] : Computed(f, N, <<>>, step)
  BY <1>0, <1>1, <1>2, Recursion, Zenon
<1>5. OrderStep(ids, f)
  <2>1. \A n \in 0 .. N : f[n] = IF n = 0 THEN <<>> ELSE IF n \in ids THEN Append(f[n - 1], n) ELSE f[n - 1]
    <3>. TAKE n \in 0 .. N
    <3>1. CASE n = 0
      BY <3>1, <1>4, Zenon DEF Computed
    <3>2. CASE n # 0
      <4>1. n \in 1 .. N /\ n - 1 \in 0 .. N
        BY <3>2, <1>0
      <4>2. f[n] = step[n, f[n - 1]] /\ f[n - 1] \in S
        BY <4>1, <1>4 DEF Computed
      <4>. QED
        BY <4>1, <4>2, <1>3, <3>2, Zenon
    <3>. QED
      BY <3>1, <3>2, Zenon
  <2>2. f = [n \in 0 .. N |-> f[n]]
    OBVIOUS
  <2>. QED
    BY <2>1, <2>2, Zenon DEF OrderStep, N
<1>6. PICK g : OrderStep(ids, g) /\ InOrder(ids) = g[N]
  BY <1>5, Zenon DEF InOrder, OrderStep, N
<1>7. \A n \in 0 .. N : g[n] = IF n = 0 THEN <<>> ELSE IF n \in ids THEN Append(g[n - 1], n) ELSE g[n - 1]
  BY <1>6, Zenon DEF OrderStep, N
<1> DEFINE upTo(n) == ids \cap (1 .. n)
           T == {n \in 0 .. N : g[n] \in Seq(ids) /\ IsFiniteSet(upTo(n)) /\ Len(g[n]) = Cardinality(upTo(n))}
<1>8. 0 \in T
  <2>1. 0 \in 0 .. N
    BY <1>0
  <2>2. g[0] = <<>>
    BY <2>1, <1>7, Zenon
  <2>3. upTo(0) = {}
    OBVIOUS
  <2>4. <<>> \in Seq(ids) /\ Len(<<>>) = 0
    OBVIOUS
  <2> HIDE DEF upTo
  <2>. QED
    BY <2>1, <2>2, <2>3, <2>4, FS_EmptySet
<1>9. ASSUME NEW n \in 0 .. N - 1, n \in T PROVE n + 1 \in T
  <2>1. n + 1 \in 0 .. N /\ n + 1 # 0 /\ (n + 1) - 1 = n
    BY <1>0
  <2>2. g[n] \in Seq(ids) /\ IsFiniteSet(upTo(n)) /\ Len(g[n]) = Cardinality(upTo(n))
    BY <1>9
  <2>3. g[n + 1] = IF n + 1 \in ids THEN Append(g[n], n + 1) ELSE g[n]
    BY <2>1, <1>7
  <2>4. CASE n + 1 \in ids
    <3>1. upTo(n + 1) = upTo(n) \cup {n + 1} /\ n + 1 \notin upTo(n)
      BY <2>4
    <3> HIDE DEF upTo
    <3>2. IsFiniteSet(upTo(n + 1)) /\ Cardinality(upTo(n + 1)) = Cardinality(upTo(n)) + 1
      BY <3>1, <2>2, FS_AddElement
    <3>3. Append(g[n], n + 1) \in Seq(ids) /\ Len(Append(g[n], n + 1)) = Len(g[n]) + 1
      BY <2>2, <2>4
    <3>. QED
      BY <3>2, <3>3, <2>1, <2>2, <2>3, <2>4
  <2>5. CASE n + 1 \notin ids
    <3>1. upTo(n + 1) = upTo(n)
      BY <2>5
    <3> HIDE DEF upTo
    <3>. QED
      BY <3>1, <2>1, <2>2, <2>3, <2>5
  <2>. QED
    BY <2>4, <2>5
<1>10. N \in T
  <2>1. N \in 0 .. N
    BY <1>0
  <2> HIDE DEF T
  <2>. QED
    BY <1>0, <1>8, <1>9, <2>1, Climbing
<1>11. upTo(N) = ids
  BY <1>0
<1>. QED
  BY <1>6, <1>10, <1>11


LEMMA PartsDistinct ==
    ASSUME NEW p, GoodScope(p), NEW m \in 1 .. Len(Parts(p)), NEW n \in 1 .. Len(Parts(p)),
           Parts(p)[m].type = Parts(p)[n].type, Parts(p)[m].resource = Parts(p)[n].resource
    PROVE  m = n
<1> DEFINE T == Len(p.types)
           R == Len(p.resources)
<1>1. /\ T \in Nat \ {0} /\ R \in Nat \ {0} /\ Len(Parts(p)) = T * R
      /\ \A k \in 1 .. T * R : /\ Row(p, k) \in DOMAIN p.types /\ Column(p, k) \in DOMAIN p.resources
                               /\ Parts(p)[k].type = p.types[Row(p, k)]
                               /\ Parts(p)[k].resource = p.resources[Column(p, k)]
  BY PartsAre, Zenon
<1>2. m \in 1 .. T * R /\ n \in 1 .. T * R
  BY <1>1
<1>3. Row(p, m) = Row(p, n) /\ Column(p, m) = Column(p, n)
  <2>1. p.types[Row(p, m)] = p.types[Row(p, n)] /\ p.resources[Column(p, m)] = p.resources[Column(p, n)]
    BY <1>1, <1>2
  <2>2. IsInjective(p.types) /\ IsInjective(p.resources)
    BY DEF GoodScope
  <2>. QED
    BY <2>1, <2>2, <1>1, <1>2 DEF IsInjective
<1>4. \A k : Row(p, k) = RowAt(k, R) /\ Column(p, k) = ColumnAt(k, R)
  BY DEF Row, Column, RowAt, ColumnAt
<1> HIDE DEF T, R
<1>5. \A k \in 1 .. T * R : k = R * (RowAt(k, R) - 1) + ColumnAt(k, R)
  BY <1>1, Place
<1>. QED
  BY <1>2, <1>3, <1>4, <1>5

LEMMA PartsCover ==
    ASSUME NEW p, GoodScope(p), NEW t \in ToSet(p.types), NEW r \in ToSet(p.resources)
    PROVE  \E n \in 1 .. Len(Parts(p)) : Parts(p)[n].type = t /\ Parts(p)[n].resource = r
<1> DEFINE T == Len(p.types)
           R == Len(p.resources)
<1>1. /\ T \in Nat \ {0} /\ R \in Nat \ {0} /\ Len(Parts(p)) = T * R
      /\ \A k \in 1 .. T * R : /\ Parts(p)[k].type = p.types[Row(p, k)]
                               /\ Parts(p)[k].resource = p.resources[Column(p, k)]
  BY PartsAre, Zenon
<1>2. DOMAIN p.types = 1 .. T /\ DOMAIN p.resources = 1 .. R
  BY SizeIs DEF GoodScope
<1>3. \A k : Row(p, k) = RowAt(k, R) /\ Column(p, k) = ColumnAt(k, R)
  BY DEF Row, Column, RowAt, ColumnAt
<1>4. (\E a \in 1 .. T : p.types[a] = t) /\ (\E b \in 1 .. R : p.resources[b] = r)
  BY <1>2 DEF ToSet
<1> HIDE DEF T, R
<1>5. PICK a \in 1 .. T : p.types[a] = t
  BY <1>4
<1>6. PICK b \in 1 .. R : p.resources[b] = r
  BY <1>4
<1>7. T \in Nat \ {0} /\ R \in Nat \ {0}
  BY <1>1
<1>8. \E n \in 1 .. T * R : RowAt(n, R) = a /\ ColumnAt(n, R) = b
  <2>1. \A c \in 1 .. T, d \in 1 .. R : \E n \in 1 .. T * R : RowAt(n, R) = c /\ ColumnAt(n, R) = d
    BY <1>7, PlaceOf
  <2>. QED
    BY <2>1, Zenon
<1>9. PICK n \in 1 .. T * R : RowAt(n, R) = a /\ ColumnAt(n, R) = b
  BY <1>8
<1>10. Parts(p)[n].type = p.types[Row(p, n)] /\ Parts(p)[n].resource = p.resources[Column(p, n)]
  BY <1>1, <1>9, Zenon
<1>11. p.types[Row(p, n)] = t /\ p.resources[Column(p, n)] = r
  BY <1>3, <1>5, <1>6, <1>9, Zenon
<1>12. Parts(p)[n].type = t /\ Parts(p)[n].resource = r /\ n \in 1 .. Len(Parts(p))
  BY <1>1, <1>9, <1>10, <1>11, Zenon
<1>. QED
  BY <1>12, Zenon

LEMMA PartsWithin ==
    ASSUME NEW p, GoodScope(p), NEW n \in 1 .. Len(Parts(p))
    PROVE  Parts(p)[n].type \in ToSet(p.types) /\ Parts(p)[n].resource \in ToSet(p.resources)
<1>1. /\ Row(p, n) \in DOMAIN p.types /\ Column(p, n) \in DOMAIN p.resources
      /\ Parts(p)[n].type = p.types[Row(p, n)] /\ Parts(p)[n].resource = p.resources[Column(p, n)]
  BY PartsAre, Zenon
<1>. QED
  BY <1>1 DEF ToSet

OnPart(p, n) == On(None, Parts(p)[n].type, Parts(p)[n].resource)
AvailableStep(p, f) ==
    f = [n \in 0 .. Len(Parts(p)) |->
            IF n = 0 THEN 0
            ELSE f[n - 1] + AttemptRate(None, Parts(p)[n].type, Parts(p)[n].resource).available]

LEMMA AsManyAsPrepared ==
    ASSUME NEW p, GoodScope(p), QuizTypes
    PROVE  CountPrepared(None, p) = Available(p)
<1> DEFINE N == Len(Parts(p))
           size(n) == Cardinality(OnPart(p, n))
           step == [x \in (1 .. N) \X Nat |-> x[2] + size(x[1])]
<1>0. N \in Nat
  <2>1. N \in Nat \ {0}
    BY PartsAre, Zenon
  <2>. QED
    BY <2>1
<1>00. IsFiniteSet(DOMAIN quiz)
  <2>1. DOMAIN quiz = 1 .. Len(quiz) /\ Len(quiz) \in Nat
    BY DEF QuizTypes
  <2>. QED
    BY <2>1, FS_Interval
<1>01. \A n : IsFiniteSet(OnPart(p, n)) /\ OnPart(p, n) \subseteq DOMAIN quiz
  <2>1. \A n : OnPart(p, n) \subseteq DOMAIN quiz
    BY DEF OnPart, On, Valid, Seen
  <2>. QED
    BY <2>1, <1>00, FS_Subset
<1>1. \A n \in 1 .. N : size(n) \in Nat /\ AttemptRate(None, Parts(p)[n].type, Parts(p)[n].resource).available = size(n)
  BY <1>01, FS_CardinalityType DEF AttemptRate, OnPart
<1> HIDE DEF size, N
<1>2. step \in [(1 .. N) \X Nat -> Nat]
  <2>1. \A x \in (1 .. N) \X Nat : x[2] + size(x[1]) \in Nat
    <3>. TAKE x \in (1 .. N) \X Nat
    <3>1. x[1] \in 1 .. N /\ x[2] \in Nat
      OBVIOUS
    <3>. QED
      BY <3>1, <1>1
  <2>. QED
    BY <2>1
<1>3. \A n \in 1 .. N, k \in Nat : step[n, k] = k + size(n)
  OBVIOUS
<1> HIDE DEF step
<1>4. PICK f \in [0 .. N -> Nat] : Computed(f, N, 0, step)
  BY <1>0, <1>2, Recursion
<1>5. AvailableStep(p, f)
  <2>1. \A n \in 0 .. N : f[n] = IF n = 0 THEN 0
                                 ELSE f[n - 1] + AttemptRate(None, Parts(p)[n].type, Parts(p)[n].resource).available
    <3>. TAKE n \in 0 .. N
    <3>1. CASE n = 0
      BY <3>1, <1>4, Zenon DEF Computed
    <3>2. CASE n # 0
      <4>1. n \in 1 .. N /\ n - 1 \in 0 .. N
        BY <3>2, <1>0
      <4>2. f[n] = step[n, f[n - 1]] /\ f[n - 1] \in Nat
        BY <4>1, <1>4 DEF Computed
      <4>3. f[n] = f[n - 1] + size(n)
        BY <4>1, <4>2, <1>3, Zenon
      <4>4. AttemptRate(None, Parts(p)[n].type, Parts(p)[n].resource).available = size(n)
        BY <4>1, <1>1, Zenon
      <4>. QED
        BY <4>3, <4>4, <3>2, Zenon
    <3>. QED
      BY <3>1, <3>2, Zenon
  <2>2. f = [n \in 0 .. N |-> f[n]]
    OBVIOUS
  <2>. QED
    BY <2>1, <2>2, Zenon DEF AvailableStep, N
<1>6. PICK g : AvailableStep(p, g) /\ Available(p) = g[N]
  BY <1>5, Zenon DEF Available, AvailableStep, N
<1>7. g[0] = 0 /\ \A n \in 1 .. N : g[n] = g[n - 1] + size(n)
  <2>1. \A n \in 0 .. N : g[n] = IF n = 0 THEN 0
                                 ELSE g[n - 1] + AttemptRate(None, Parts(p)[n].type, Parts(p)[n].resource).available
    BY <1>6, Zenon DEF AvailableStep, N
  <2>2. 0 \in 0 .. N /\ \A n \in 1 .. N : n \in 0 .. N /\ n # 0
    BY <1>0
  <2>3. g[0] = 0
    BY <2>1, <2>2, Zenon
  <2>4. \A n \in 1 .. N : g[n] = g[n - 1] + size(n)
    BY <2>1, <2>2, <1>1, Zenon
  <2>. QED
    BY <2>3, <2>4
<1> DEFINE sofar(n) == {q \in Valid(None) : \E m \in 1 .. n : q \in OnPart(p, m)}
           T == {n \in 0 .. N : IsFiniteSet(sofar(n)) /\ g[n] = Cardinality(sofar(n))}
<1>8. 0 \in T
  <2>1. sofar(0) = {}
    OBVIOUS
  <2> HIDE DEF sofar
  <2>2. IsFiniteSet(sofar(0)) /\ Cardinality(sofar(0)) = 0
    BY <2>1, FS_EmptySet
  <2>3. 0 \in 0 .. N
    BY <1>0
  <2>. QED
    BY <2>2, <2>3, <1>7
<1>9. ASSUME NEW n \in 0 .. N - 1, n \in T PROVE n + 1 \in T
  <2>1. n + 1 \in 0 .. N /\ (n + 1) - 1 = n /\ n + 1 \in 1 .. N
    BY <1>0
  <2>2. sofar(n + 1) = sofar(n) \cup OnPart(p, n + 1)
    <3>1. \A m : m \in 1 .. n + 1 <=> m \in 1 .. n \/ m = n + 1
      OBVIOUS
    <3>2. OnPart(p, n + 1) \subseteq Valid(None)
      BY DEF OnPart, On
    <3>. QED
      BY <3>1, <3>2
  <2>3. sofar(n) \cap OnPart(p, n + 1) = {}
    <3>. SUFFICES ASSUME NEW q \in OnPart(p, n + 1), NEW m \in 1 .. n, q \in OnPart(p, m) PROVE FALSE
      OBVIOUS
    <3>1. /\ quiz[q].type = Parts(p)[m].type /\ ResourceOf[quiz[q].target] = Parts(p)[m].resource
          /\ quiz[q].type = Parts(p)[n + 1].type /\ ResourceOf[quiz[q].target] = Parts(p)[n + 1].resource
      BY DEF OnPart, On
    <3>2. m \in 1 .. Len(Parts(p)) /\ n + 1 \in 1 .. Len(Parts(p))
      BY <2>1, <1>0 DEF N
    <3>3. m = n + 1
      BY <3>1, <3>2, PartsDistinct
    <3>. QED
      BY <3>3
  <2>4. g[n + 1] = g[n] + size(n + 1)
    BY <2>1, <1>7
  <2>5. IsFiniteSet(sofar(n)) /\ g[n] = Cardinality(sofar(n)) /\ IsFiniteSet(OnPart(p, n + 1))
    BY <1>9, <1>01
  <2> HIDE DEF sofar
  <2>6. IsFiniteSet(sofar(n) \cup OnPart(p, n + 1))
    BY <2>5, FS_Union
  <2>7. Cardinality(sofar(n) \cup OnPart(p, n + 1))
          = Cardinality(sofar(n)) + Cardinality(OnPart(p, n + 1)) - Cardinality(sofar(n) \cap OnPart(p, n + 1))
    BY <2>5, FS_Union
  <2>8. Cardinality(sofar(n) \cap OnPart(p, n + 1)) = 0
    BY <2>3, FS_EmptySet
  <2>9. Cardinality(sofar(n)) \in Nat /\ Cardinality(OnPart(p, n + 1)) \in Nat
    BY <2>5, FS_CardinalityType
  <2>10. g[n + 1] = Cardinality(sofar(n)) + Cardinality(OnPart(p, n + 1))
    BY <2>4, <2>5 DEF size
  <2>11. Cardinality(sofar(n) \cup OnPart(p, n + 1)) = g[n + 1]
    BY <2>7, <2>8, <2>9, <2>10
  <2>12. IsFiniteSet(sofar(n + 1)) /\ g[n + 1] = Cardinality(sofar(n + 1))
    BY <2>2, <2>6, <2>11
  <2>. QED
    BY <2>1, <2>12
<1>10. N \in T
  <2>1. N \in 0 .. N
    BY <1>0
  <2> HIDE DEF T
  <2>. QED
    BY <1>0, <1>8, <1>9, <2>1, Climbing
<1>11. sofar(N) = {q \in Valid(None) : /\ \E t \in ToSet(p.types) : quiz[q].type = t
                                       /\ ResourceOf[quiz[q].target] \in ToSet(p.resources)}
  <2>1. ASSUME NEW q \in Valid(None), NEW m \in 1 .. N, q \in OnPart(p, m)
        PROVE  /\ \E t \in ToSet(p.types) : quiz[q].type = t
               /\ ResourceOf[quiz[q].target] \in ToSet(p.resources)
    <3>1. quiz[q].type = Parts(p)[m].type /\ ResourceOf[quiz[q].target] = Parts(p)[m].resource
      BY <2>1 DEF OnPart, On
    <3>2. Parts(p)[m].type \in ToSet(p.types) /\ Parts(p)[m].resource \in ToSet(p.resources)
      BY PartsWithin DEF N
    <3>. QED
      BY <3>1, <3>2
  <2>2. ASSUME NEW q \in Valid(None), quiz[q].type \in ToSet(p.types),
               ResourceOf[quiz[q].target] \in ToSet(p.resources)
        PROVE  \E m \in 1 .. N : q \in OnPart(p, m)
    <3>1. PICK m \in 1 .. N : Parts(p)[m].type = quiz[q].type
                              /\ Parts(p)[m].resource = ResourceOf[quiz[q].target]
      <4> DEFINE t == quiz[q].type
                 r == ResourceOf[quiz[q].target]
      <4>1. t \in ToSet(p.types) /\ r \in ToSet(p.resources)
        BY <2>2
      <4> HIDE DEF t, r
      <4>2. \E m \in 1 .. Len(Parts(p)) : Parts(p)[m].type = t /\ Parts(p)[m].resource = r
        BY <4>1, PartsCover
      <4>. QED
        BY <4>2 DEF N, t, r
    <3>. QED
      BY <3>1 DEF OnPart, On
  <2>. QED
    BY <2>1, <2>2
<1>. QED
  BY <1>6, <1>10, <1>11 DEF CountPrepared

LEMMA PagesAgree ==
    ASSUME StudyAssumption, QuizTypes, NEW t, NEW r
    PROVE  LET rate == AttemptRate(None, t, r)  answers == Performance(None, t, r) IN
           /\ Len(Unattempted(None, t, r, MaxQuizzes)) + Cardinality(Untold(t, r)) = rate.available - rate.attempted
           /\ Coverage(None, t, r).covered <= rate.available
           /\ answers.corrects <= answers.attempts
<1> DEFINE all == On(None, t, r)
           tried == {q \in all : quiz[q].attempts > 0}
           untried == {q \in all : quiz[q].attempts = 0}
           plain == {q \in all : quiz[q].attempts = 0 /\ ~Vague(q)}
           vague == {q \in all : quiz[q].attempts = 0 /\ Vague(q)}
           N == Len(quiz)
<1>1. N \in Nat /\ DOMAIN quiz = 1 .. N /\ N <= MaxQuizzes /\ MaxQuizzes \in Nat
      /\ quiz \in Seq(MadeQuizzes \cup {None})
  BY DEF QuizTypes, StudyAssumption
<1>2. IsFiniteSet(DOMAIN quiz) /\ Cardinality(DOMAIN quiz) = N
  <2> HIDE DEF N
  <2>1. IsFiniteSet(1 .. N) /\ Cardinality(1 .. N) = IF 1 > N THEN 0 ELSE N - 1 + 1
    BY <1>1, FS_Interval
  <2>. QED
    BY <2>1, <1>1
<1>3. all \subseteq DOMAIN quiz /\ \A q \in all : quiz[q] # None /\ quiz[q] \in MadeQuizzes
  BY <1>1 DEF On, Valid, Seen
<1>4. IsFiniteSet(all) /\ IsFiniteSet(tried) /\ IsFiniteSet(untried)
  BY <1>2, <1>3, FS_Subset
<1>5. all = tried \cup untried /\ tried \cap untried = {}
  <2>1. \A q \in all : quiz[q].attempts \in Nat
    BY <1>3 DEF MadeQuizzes
  <2> HIDE DEF all
  <2>. QED
    BY <2>1
<1>6. Cardinality(untried) = Cardinality(all) - Cardinality(tried) /\ Cardinality(untried) <= N
  <2> HIDE DEF all, tried, untried
  <2>1. Cardinality(all) = Cardinality(tried) + Cardinality(untried) - Cardinality(tried \cap untried)
    BY <1>4, <1>5, FS_Union
  <2>2. Cardinality(tried \cap untried) = 0
    BY <1>5, FS_EmptySet
  <2>3. Cardinality(tried) \in Nat /\ Cardinality(untried) \in Nat /\ Cardinality(all) \in Nat
    BY <1>4, FS_CardinalityType
  <2>4. untried \subseteq DOMAIN quiz
    BY <1>3, <1>5
  <2>5. Cardinality(untried) <= N
    BY <2>4, <1>2, FS_Subset
  <2>. QED
    BY <2>1, <2>2, <2>3, <2>5
<1>11. /\ IsFiniteSet(plain) /\ IsFiniteSet(vague)
       /\ Cardinality(plain) \in Nat /\ Cardinality(vague) \in Nat /\ Cardinality(untried) \in Nat
       /\ Cardinality(untried) = Cardinality(plain) + Cardinality(vague)
  <2>1. untried = plain \cup vague /\ plain \cap vague = {}
    OBVIOUS
  <2>2. IsFiniteSet(plain) /\ IsFiniteSet(vague)
    BY <2>1, <1>4, FS_Subset
  <2> HIDE DEF plain, vague, untried
  <2>3. Cardinality(untried) = Cardinality(plain) + Cardinality(vague) - Cardinality(plain \cap vague)
    BY <2>1, <2>2, FS_Union
  <2>4. Cardinality(plain \cap vague) = 0
    BY <2>1, FS_EmptySet
  <2>5. Cardinality(plain) \in Nat /\ Cardinality(vague) \in Nat /\ Cardinality(untried) \in Nat
    BY <1>4, <2>2, FS_CardinalityType
  <2>. QED
    BY <2>2, <2>3, <2>4, <2>5
<1>7. Len(Unattempted(None, t, r, MaxQuizzes)) = Cardinality(plain)
  <2>1. plain \subseteq DOMAIN quiz
    BY <1>3
  <2>2. InOrder(plain) \in Seq(plain) /\ Len(InOrder(plain)) = Cardinality(plain)
    BY <2>1, <1>1, InOrderIs
  <2>3. Unattempted(None, t, r, MaxQuizzes)
          = SubSeq(InOrder(plain), 1, Min2(MaxQuizzes, Len(InOrder(plain))))
    BY DEF Unattempted
  <2>4. Cardinality(plain) \in Nat
    BY <1>11
  <2>5. Cardinality(plain) <= MaxQuizzes
    <3> HIDE DEF plain, vague, untried
    <3>. QED
      BY <1>11, <1>6, <1>1
  <2> DEFINE u == InOrder(plain)
  <2>6. Min2(MaxQuizzes, Len(u)) = Len(u)
    <3> HIDE DEF plain
    <3>. QED
      BY <2>2, <2>4, <2>5, <1>1 DEF Min2
  <2>7. u \in Seq(plain)
    BY <2>2
  <2>8. Len(SubSeq(u, 1, Len(u))) = Len(u)
    <3> HIDE DEF u, plain
    <3>. QED
      BY <2>7
  <2>. QED
    BY <2>2, <2>3, <2>6, <2>8
<1>8. Cardinality(Covered(None, t, r)) <= Cardinality(all)
  <2> DEFINE image == {quiz[q].target : q \in all}
  <2>1. IsFiniteSet(image) /\ Cardinality(image) <= Cardinality(all)
    <3> HIDE DEF all
    <3> DEFINE f == [q \in all |-> quiz[q].target]
    <3>1. f \in Surjection(all, image)
      BY DEF Surjection
    <3> HIDE DEF f, image
    <3>. QED
      BY <3>1, <1>4, FS_Surjection
  <2>2. Covered(None, t, r) \subseteq image
    BY DEF Covered
  <2> HIDE DEF image, all
  <2>3. IsFiniteSet(Covered(None, t, r)) /\ Cardinality(Covered(None, t, r)) <= Cardinality(image)
    BY <2>1, <2>2, FS_Subset
  <2>4. Cardinality(Covered(None, t, r)) \in Nat /\ Cardinality(image) \in Nat /\ Cardinality(all) \in Nat
    BY <2>1, <2>3, <1>4, FS_CardinalityType
  <2>. QED
    BY <2>1, <2>3, <2>4
<1>9. Corrects(all) <= Attempts(all)
  <2> HIDE DEF all
  <2>. QED
    BY <1>3, FewerCorrect
<1>10. /\ AttemptRate(None, t, r).available = Cardinality(all)
       /\ AttemptRate(None, t, r).attempted = Cardinality(tried)
       /\ Coverage(None, t, r).covered = Cardinality(Covered(None, t, r))
       /\ Performance(None, t, r).corrects = Corrects(all) /\ Performance(None, t, r).attempts = Attempts(all)
       /\ Untold(t, r) = vague
  BY DEF AttemptRate, Coverage, Performance, Untold
<1>12. Cardinality(all) \in Nat /\ Cardinality(tried) \in Nat
  BY <1>4, FS_CardinalityType
<1> HIDE DEF all, tried, untried, plain, vague
<1>. QED
  BY <1>6, <1>7, <1>8, <1>9, <1>10, <1>11, <1>12


---------------------------------------------------------------------------
(* What a job is.                                                               *)

Course(w) ==
    /\ w \in Preparations
    /\ w.op = "prepare" =>
          /\ w.at # "look" /\ (w.at # "end" => w.plans # <<>>)
          /\ w.at \in {"fetch", "draw", "create", "count", "told"} => w.plan # None /\ GoodScope(w.plan)
          /\ w.shown = <<>> /\ w.want > 0
    /\ w.op = "recommend" => w.at \in {"look", "fetch", "draw", "create", "end"}
    /\ w.at \in {"look", "fetch", "draw", "create"} => w.todo # <<>>
    /\ w.at = "create" => w.list # <<>>
    /\ IsFiniteSet(w.made)

\* What a job made, and what it may still make, is within what is wanted.
Done(w) == IF w.op = "prepare" THEN w.total ELSE Len(w.shown)
Room(want, done, todo, more) == \E room \in Nat : room + more + done <= want /\ Fits(todo, room, 0)
InPart(w) == w.at \in {"draw", "create"}
Measure(w) ==
    /\ Done(w) <= w.want
    /\ InPart(w) => Cardinality(w.made) <= w.need
    /\ w.at = "create" => Cardinality(w.made) < w.need
    /\ w.at = "look" => Room(w.want, Done(w), w.todo, 0)
    /\ w.at = "fetch" => \/ w.op = "recommend" /\ Room(w.want, Done(w), Tail(w.todo), w.need)
                         \/ w.op = "prepare" /\ (w.second \/ Room(w.want, Done(w), w.todo, 0))
    /\ InPart(w) => \/ w.op = "prepare" /\ w.second /\ w.need - Cardinality(w.made) + Done(w) <= w.want
                    \/ ~ (w.op = "prepare" /\ w.second)
                       /\ Room(w.want, Done(w), Tail(w.todo), w.need - Cardinality(w.made))

LEMMA Fields ==
    ASSUME NEW w \in Preparations
    PROVE  /\ w.op \in {"prepare", "recommend"} /\ w.plans \in Seq(Plans) /\ w.plan \in Scopes \cup {None}
           /\ w.at \in {"queue", "open", "look", "fetch", "draw", "create", "count", "told", "end"}
           /\ w.want \in Nat /\ w.before \in Nat /\ w.total \in Nat /\ w.todo \in Seq(PartsToFill)
           /\ w.second \in BOOLEAN /\ w.why \in {None, "coverage", "review"} /\ w.need \in Nat
           /\ w.list \in Seq(Sentences \X (Sentences \cup {None})) /\ w.made \in SUBSET Nat /\ w.cover \in SUBSET Nat
           /\ w.shown \in Seq([quiz : Nat, new : BOOLEAN, round : Nat]) /\ w.round \in Nat /\ w.calm \in BOOLEAN
           /\ w.outcome \in {None, "ready", "exhausted"}
BY DEF Preparations

LEMMA DoneIs == ASSUME NEW w \in Preparations PROVE Done(w) \in Nat
<1>1. w.total \in Nat /\ w.shown \in Seq([quiz : Nat, new : BOOLEAN, round : Nat])
  BY Fields
<1>2. Len(w.shown) \in Nat
  BY <1>1
<1>. QED
  BY <1>1, <1>2 DEF Done

LEMMA HeadIs ==
    ASSUME NEW todo \in Seq(PartsToFill), todo # <<>>
    PROVE  /\ Head(todo).type \in Types /\ Head(todo).resource \in Resources /\ Head(todo).n \in Nat \ {0}
           /\ Tail(todo) \in Seq(PartsToFill)
<1>1. Head(todo) \in PartsToFill /\ Tail(todo) \in Seq(PartsToFill)
  OBVIOUS
<1>. QED
  BY <1>1 DEF PartsToFill

LEMMA RoomTail ==
    ASSUME NEW want \in Nat, NEW done \in Nat, NEW todo \in Seq(PartsToFill), todo # <<>>,
           Room(want, done, todo, 0)
    PROVE  Room(want, done, Tail(todo), Head(todo).n)
<1>1. PICK room \in Nat : room + 0 + done <= want /\ Fits(todo, room, 0)
  BY DEF Room
<1>2. PICK left \in Nat : left + Head(todo).n <= room /\ Fits(Tail(todo), left, 0)
  <2>1. 0 \in Nat
    OBVIOUS
  <2>. QED
    BY <1>1, <2>1, FitsTail
<1>3. Head(todo).n \in Nat
  BY HeadIs
<1>4. left + Head(todo).n + done <= want
  BY <1>1, <1>2, <1>3
<1>. QED
  BY <1>2, <1>4 DEF Room

LEMMA RoomMoves ==
    ASSUME NEW want \in Nat, NEW done \in Nat, NEW more \in Nat, NEW todo,
           NEW did \in Nat, NEW rest \in Nat, Room(want, done, todo, more), did + rest <= done + more
    PROVE  Room(want, did, todo, rest) /\ did <= want
<1>1. PICK room \in Nat : room + more + done <= want /\ Fits(todo, room, 0)
  BY DEF Room
<1>2. room + rest + did <= want
  BY <1>1
<1>. QED
  BY <1>1, <1>2 DEF Room

LEMMA FetchSteps ==
    ASSUME NEW w, Course(w), Measure(w), w.at = "fetch",
           NEW list \in Seq(Sentences \X (Sentences \cup {None})), NEW n, n = Needed(w)
    PROVE  LET v == [w EXCEPT !.list = list, !.need = n, !.made = {}, !.at = "draw"] IN
           Course(v) /\ Measure(v)
<1> DEFINE v == [w EXCEPT !.list = list, !.need = n, !.made = {}, !.at = "draw"]
<1>0. w \in Preparations
  BY DEF Course
<1>1. w.todo # <<>> /\ w.todo \in Seq(PartsToFill) /\ w.want \in Nat /\ w.total \in Nat /\ w.need \in Nat
      /\ w.op \in {"prepare", "recommend"} /\ Done(w) \in Nat /\ Done(w) <= w.want
  BY <1>0, Fields, DoneIs DEF Course, Measure
<1>2. Head(w.todo).n \in Nat
  BY <1>1, HeadIs
<1>3. n \in Nat
  BY <1>1, <1>2 DEF Needed, Remaining, Done
<1>4. /\ v.op = w.op /\ v.plans = w.plans /\ v.plan = w.plan /\ v.at = "draw" /\ v.want = w.want
      /\ v.total = w.total /\ v.todo = w.todo /\ v.second = w.second /\ v.need = n /\ v.list = list
      /\ v.made = {} /\ v.shown = w.shown
  BY <1>0 DEF Preparations
<1>5. v \in Preparations
  BY <1>0, <1>3 DEF Preparations
<1>6. Done(v) = Done(w) /\ Cardinality(v.made) = 0 /\ IsFiniteSet(v.made)
  BY <1>4, FS_EmptySet DEF Done
<1> HIDE DEF v
<1>7. Course(v)
  BY <1>4, <1>5, <1>6 DEF Course
<1>8. v.need - Cardinality(v.made) = n /\ Cardinality(v.made) <= v.need
  BY <1>3, <1>4, <1>6
<1>9. \/ w.op = "recommend" /\ Room(w.want, Done(w), Tail(w.todo), w.need)
      \/ w.op = "prepare" /\ (w.second \/ Room(w.want, Done(w), w.todo, 0))
  BY DEF Measure
<1>10. \/ w.op = "prepare" /\ w.second /\ n + Done(w) <= w.want
       \/ ~ (w.op = "prepare" /\ w.second) /\ Room(w.want, Done(w), Tail(w.todo), n)
  <2>1. CASE w.op = "recommend"
    BY <1>9, <2>1 DEF Needed
  <2>2. CASE w.op = "prepare" /\ w.second
    BY <2>2, <1>1 DEF Needed, Remaining, Done
  <2>3. CASE w.op = "prepare" /\ ~ w.second
    <3>1. Room(w.want, Done(w), Tail(w.todo), Head(w.todo).n)
      BY <1>1, <1>9, <2>3, RoomTail
    <3>. QED
      BY <3>1, <2>3 DEF Needed
  <2>. QED
    BY <1>1, <2>1, <2>2, <2>3
<1>11. Measure(v)
  <2>1. InPart(v) /\ v.at = "draw"
    BY <1>4 DEF InPart
  <2>2. \/ v.op = "prepare" /\ v.second /\ v.need - Cardinality(v.made) + Done(v) <= v.want
        \/ ~ (v.op = "prepare" /\ v.second)
           /\ Room(v.want, Done(v), Tail(v.todo), v.need - Cardinality(v.made))
    BY <1>4, <1>6, <1>8, <1>10
  <2>. QED
    BY <2>1, <2>2, <1>1, <1>4, <1>6, <1>8 DEF Measure
<1>. QED
  BY <1>7, <1>11 DEF v

LEMMA LongTail ==
    ASSUME NEW T, NEW s \in Seq(T), s # <<>>
    PROVE  Tail(s) \in Seq(T) /\ (Len(s) > 1 => Tail(s) # <<>>)
<1>1. Tail(s) \in Seq(T) /\ Len(Tail(s)) = Len(s) - 1 /\ Len(s) \in Nat
  OBVIOUS
<1>2. \A t \in Seq(T) : t = <<>> => Len(t) = 0
  OBVIOUS
<1>3. Tail(s) = <<>> => Len(s) - 1 = 0
  BY <1>1, <1>2, Zenon
<1>. QED
  BY <1>1, <1>3

\* A job goes on without working.
LEMMA MovesOn ==
    ASSUME NEW w, Course(w), Measure(w), w.op = "prepare"
    PROVE  /\ w.at = "queue" => LET v == [w EXCEPT !.at = "open"] IN Course(v) /\ Measure(v)
           /\ w.at # "end" => Course(NextPlan(w)) /\ Measure(NextPlan(w))
           /\ \A outcome \in {"ready", "exhausted"} : w.at = "count" =>
                 LET v == [w EXCEPT !.outcome = outcome, !.at = "told"] IN Course(v) /\ Measure(v)
<1>0. w \in Preparations
  BY DEF Course
<1>1. w.plans \in Seq(Plans)
  BY <1>0, Fields
<1>2. ASSUME NEW v \in Preparations, v.op = "prepare", v.at \in {"open", "end", "told"}, v.want = w.want,
             v.total = w.total, v.shown = w.shown, v.made = w.made, v.at # "end" => v.plans # <<>>,
             v.at = "told" => v.plan # None /\ GoodScope(v.plan)
      PROVE  Course(v) /\ Measure(v)
  BY <1>2 DEF Course, Measure, InPart, Done
<1>3. ASSUME w.at = "queue" PROVE LET v == [w EXCEPT !.at = "open"] IN Course(v) /\ Measure(v)
  <2> DEFINE v == [w EXCEPT !.at = "open"]
  <2>1. /\ v \in Preparations /\ v.op = w.op /\ v.at = "open" /\ v.want = w.want /\ v.total = w.total
        /\ v.shown = w.shown /\ v.made = w.made /\ v.plans = w.plans
    BY <1>0 DEF Preparations
  <2>2. w.plans # <<>>
    BY <1>3 DEF Course
  <2> HIDE DEF v
  <2>3. Course(v) /\ Measure(v)
    BY <2>1, <2>2, <1>2
  <2>. QED
    BY <2>3 DEF v
<1>4. ASSUME w.at # "end" PROVE Course(NextPlan(w)) /\ Measure(NextPlan(w))
  <2> DEFINE v == NextPlan(w)
             at == IF Len(w.plans) > 1 THEN "open" ELSE "end"
  <2>1. w.plans # <<>>
    BY <1>4 DEF Course
  <2>2. Tail(w.plans) \in Seq(Plans) /\ (Len(w.plans) > 1 => Tail(w.plans) # <<>>)
    BY <2>1, <1>1, LongTail
  <2>3. at \in {"open", "end"}
    OBVIOUS
  <2>4. v = [w EXCEPT !.plans = Tail(w.plans), !.at = at]
    BY <1>0 DEF NextPlan, Preparations
  <2>6. at = "open" => Tail(w.plans) # <<>>
    BY <2>2
  <2> HIDE DEF v, at
  <2>5. /\ v \in Preparations /\ v.op = w.op /\ v.at = at /\ v.want = w.want /\ v.total = w.total
        /\ v.shown = w.shown /\ v.made = w.made /\ v.plans = Tail(w.plans)
    BY <1>0, <2>2, <2>3, <2>4 DEF Preparations
  <2>7. Course(v) /\ Measure(v)
    BY <2>3, <2>5, <2>6, <1>2
  <2>. QED
    BY <2>7 DEF v
<1>5. ASSUME NEW outcome \in {"ready", "exhausted"}, w.at = "count"
      PROVE  LET v == [w EXCEPT !.outcome = outcome, !.at = "told"] IN Course(v) /\ Measure(v)
  <2> DEFINE v == [w EXCEPT !.outcome = outcome, !.at = "told"]
  <2>1. /\ v \in Preparations /\ v.op = w.op /\ v.at = "told" /\ v.want = w.want /\ v.total = w.total
        /\ v.shown = w.shown /\ v.made = w.made /\ v.plans = w.plans /\ v.plan = w.plan
    BY <1>0 DEF Preparations
  <2>2. w.plans # <<>> /\ w.plan # None /\ GoodScope(w.plan)
    BY <1>5 DEF Course
  <2> HIDE DEF v
  <2>3. Course(v) /\ Measure(v)
    BY <2>1, <2>2, <1>2
  <2>. QED
    BY <2>3 DEF v
<1>. QED
  BY <1>3, <1>4, <1>5


LEMMA EmptyLists ==
    /\ <<>> \in Seq(Plans) /\ <<>> \in Seq(PartsToFill) /\ <<>> \in Seq(Sentences \X (Sentences \cup {None}))
    /\ <<>> \in Seq([quiz : Nat, new : BOOLEAN, round : Nat])
OBVIOUS

LEMMA AskPrepareSteps ==
    ASSUME NEW batch \in Seq(Plans), batch # <<>>, NEW want \in Nat \ {0}
    PROVE  LET v == NewJob("prepare", "queue", batch, want, <<>>) IN Course(v) /\ Measure(v)
<1> DEFINE v == NewJob("prepare", "queue", batch, want, <<>>)
<1>1. /\ v.op = "prepare" /\ v.at = "queue" /\ v.plans = batch /\ v.want = want /\ v.total = 0
      /\ v.made = {} /\ v.shown = <<>>
  BY DEF NewJob
<1>2. v \in Preparations
  BY EmptyLists DEF NewJob, Preparations
<1>3. IsFiniteSet(v.made)
  BY <1>1, FS_EmptySet
<1> HIDE DEF v
<1>4. Course(v)
  BY <1>1, <1>2, <1>3 DEF Course
<1>5. Measure(v)
  BY <1>1 DEF Measure, InPart, Done
<1>. QED
  BY <1>4, <1>5 DEF v

LEMMA AskRecommendSteps ==
    ASSUME NEW most \in Nat, NEW todo \in Seq(PartsToFill), Fits(todo, most, 0)
    PROVE  LET v == NewJob("recommend", IF todo = <<>> THEN "end" ELSE "look", <<>>, most, todo) IN
           Course(v) /\ Measure(v)
<1> DEFINE at == IF todo = <<>> THEN "end" ELSE "look"
           v == NewJob("recommend", at, <<>>, most, todo)
<1>0. at \in {"end", "look"} /\ (at = "look" => todo # <<>>)
  OBVIOUS
<1> HIDE DEF at
<1>1. /\ v.op = "recommend" /\ v.at = at /\ v.todo = todo /\ v.want = most
      /\ v.made = {} /\ v.shown = <<>>
  BY DEF NewJob
<1>2. v \in Preparations
  BY <1>0, EmptyLists DEF NewJob, Preparations
<1>3. IsFiniteSet(v.made)
  BY <1>1, FS_EmptySet
<1> HIDE DEF v
<1>4. Course(v)
  BY <1>0, <1>1, <1>2, <1>3 DEF Course
<1>5. Measure(v)
  <2>1. Done(v) = 0
    BY <1>1 DEF Done
  <2>2. Room(most, 0, todo, 0)
    <3>1. most + 0 + 0 <= most
      OBVIOUS
    <3>. QED
      BY <3>1 DEF Room
  <2>. QED
    BY <1>0, <1>1, <2>1, <2>2 DEF Measure, InPart
<1>. QED
  BY <1>4, <1>5 DEF v, at

LEMMA OpenSteps ==
    ASSUME NEW w, Course(w), w.op = "prepare", w.at = "open", NEW scope \in Scopes, GoodScope(scope), scope # None,
           NEW before \in Nat, NEW todo, todo = PrepareParts(scope, w.want)
    PROVE  LET v == [w EXCEPT !.at = "fetch", !.plan = scope, !.before = before, !.todo = todo,
                              !.second = FALSE, !.why = "coverage", !.total = 0, !.calm = TRUE, !.outcome = None] IN
           Course(v) /\ Measure(v)
<1> DEFINE v == [w EXCEPT !.at = "fetch", !.plan = scope, !.before = before, !.todo = todo,
                          !.second = FALSE, !.why = "coverage", !.total = 0, !.calm = TRUE, !.outcome = None]
<1>0. w \in Preparations /\ w.want \in Nat \ {0} /\ w.plans # <<>> /\ w.shown = <<>> /\ IsFiniteSet(w.made)
  <2>1. w \in Preparations /\ w.want > 0 /\ w.plans # <<>> /\ w.shown = <<>> /\ IsFiniteSet(w.made)
    BY DEF Course
  <2>. QED
    BY <2>1, Fields
<1>1. todo \in Seq(PartsToFill) /\ todo # <<>> /\ Fits(todo, w.want, 0)
  BY <1>0, PreparePartsAre
<1>2. /\ v.op = "prepare" /\ v.plans = w.plans /\ v.plan = scope /\ v.at = "fetch" /\ v.want = w.want
      /\ v.total = 0 /\ v.todo = todo /\ v.second = FALSE /\ v.shown = <<>> /\ v.made = w.made
  BY <1>0 DEF Preparations
<1>3. v \in Preparations
  BY <1>0, <1>1 DEF Preparations
<1> HIDE DEF v
<1>4. Course(v)
  BY <1>0, <1>1, <1>2, <1>3 DEF Course
<1>5. Measure(v)
  <2>1. Done(v) = 0
    BY <1>2 DEF Done
  <2>2. Room(w.want, 0, todo, 0)
    <3>1. w.want + 0 + 0 <= w.want
      BY <1>0
    <3>. QED
      BY <3>1, <1>0, <1>1 DEF Room
  <2>. QED
    BY <1>0, <1>2, <2>1, <2>2 DEF Measure, InPart
<1>. QED
  BY <1>4, <1>5 DEF v

\* What is shown already is taken from what is asked for.
LEMMA ReviewSteps ==
    ASSUME NEW w, Course(w), Measure(w), w.at = "look",
           NEW more \in Seq([quiz : Nat, new : BOOLEAN, round : Nat]), Len(more) <= Head(w.todo).n
    PROVE  LET v == [w EXCEPT !.shown = w.shown \o more, !.need = Head(w.todo).n - Len(more),
                              !.why = "review", !.at = "fetch"] IN
           Course(v) /\ Measure(v)
<1> DEFINE need == Head(w.todo).n - Len(more)
           shown == w.shown \o more
           v == [w EXCEPT !.shown = shown, !.need = need, !.why = "review", !.at = "fetch"]
<1>0. w \in Preparations /\ w.op = "recommend" /\ w.todo # <<>> /\ IsFiniteSet(w.made)
  BY Fields DEF Course
<1>1. w.todo \in Seq(PartsToFill) /\ w.shown \in Seq([quiz : Nat, new : BOOLEAN, round : Nat]) /\ w.want \in Nat
  BY <1>0, Fields
<1>2. Head(w.todo).n \in Nat
  BY <1>0, <1>1, HeadIs
<1>3. /\ Len(more) \in Nat /\ Len(w.shown) \in Nat /\ need \in Nat /\ Len(shown) = Len(w.shown) + Len(more)
      /\ shown \in Seq([quiz : Nat, new : BOOLEAN, round : Nat])
  BY <1>1, <1>2
<1>4. Room(w.want, Len(w.shown), w.todo, 0)
  BY <1>0 DEF Measure, Done
<1>5. Room(w.want, Len(w.shown), Tail(w.todo), Head(w.todo).n)
  BY <1>0, <1>1, <1>3, <1>4, RoomTail
<1>6. Room(w.want, Len(shown), Tail(w.todo), need) /\ Len(shown) <= w.want
  <2>0. need = Head(w.todo).n - Len(more)
    OBVIOUS
  <2> HIDE DEF shown, need
  <2>1. Len(shown) \in Nat /\ Len(w.shown) \in Nat /\ Len(more) \in Nat /\ Len(shown) = Len(w.shown) + Len(more)
    BY <1>3
  <2>2. Len(shown) + need <= Len(w.shown) + Head(w.todo).n
    BY <2>0, <2>1, <1>2
  <2>. QED
    BY <2>1, <2>2, <1>1, <1>2, <1>3, <1>5, RoomMoves
<1> HIDE DEF shown, need
<1>7. /\ v.op = "recommend" /\ v.at = "fetch" /\ v.want = w.want /\ v.todo = w.todo /\ v.shown = shown
      /\ v.made = w.made /\ v.need = need
  BY <1>0 DEF Preparations
<1>8. v \in Preparations
  BY <1>0, <1>3 DEF Preparations
<1> HIDE DEF v
<1>9. Course(v)
  BY <1>0, <1>7, <1>8 DEF Course
<1>10. Measure(v)
  BY <1>6, <1>7 DEF Measure, InPart, Done
<1>. QED
  BY <1>9, <1>10 DEF v, shown, need

\* The steps at the end of a list.
LEMMA SecondRound ==
    ASSUME NEW w, Course(w), Measure(w), w.at = "draw", w.op = "prepare", NEW todo, todo = SecondParts(w.plan)
    PROVE  LET v == [w EXCEPT !.second = TRUE, !.todo = todo, !.list = <<>>, !.made = {}, !.at = "fetch"] IN
           Course(v) /\ Measure(v)
<1> DEFINE v == [w EXCEPT !.second = TRUE, !.todo = todo, !.list = <<>>, !.made = {}, !.at = "fetch"]
<1>0. /\ w \in Preparations /\ w.plans # <<>> /\ w.shown = <<>> /\ w.plan # None /\ GoodScope(w.plan)
      /\ w.want > 0
  BY DEF Course
<1>1. todo \in Seq(PartsToFill) /\ todo # <<>>
  BY <1>0, SecondPartsAre
<1>2. /\ v.op = "prepare" /\ v.plans = w.plans /\ v.plan = w.plan /\ v.at = "fetch" /\ v.want = w.want
      /\ v.total = w.total /\ v.todo = todo /\ v.second = TRUE /\ v.shown = w.shown /\ v.made = {}
  BY <1>0 DEF Preparations
<1>3. v \in Preparations
  <2>1. {} \in SUBSET Nat /\ TRUE \in BOOLEAN
    OBVIOUS
  <2>. QED
    BY <1>0, <1>1, <2>1, EmptyLists DEF Preparations
<1>4. IsFiniteSet(v.made)
  BY <1>2, FS_EmptySet
<1> HIDE DEF v
<1>5. Course(v)
  BY <1>0, <1>1, <1>2, <1>3, <1>4 DEF Course
<1>6. Measure(v)
  BY <1>2 DEF Measure, InPart, Done
<1>. QED
  BY <1>5, <1>6 DEF v

LEMMA FillsUp ==
    ASSUME NEW w, Course(w), Measure(w), w.at = "draw", w.op = "recommend",
           NEW need, need = w.need - Cardinality(w.made)
    PROVE  LET v == [w EXCEPT !.why = "coverage", !.need = need, !.at = "fetch"] IN
           Course(v) /\ Measure(v)
<1> DEFINE v == [w EXCEPT !.why = "coverage", !.need = need, !.at = "fetch"]
<1>0. w \in Preparations /\ w.todo # <<>> /\ IsFiniteSet(w.made)
  BY DEF Course
<1>1. need \in Nat
  <2>1. w.need \in Nat /\ Cardinality(w.made) \in Nat /\ Cardinality(w.made) <= w.need
    BY <1>0, Fields, FS_CardinalityType DEF Measure, InPart
  <2>. QED
    BY <2>1
<1>2. Room(w.want, Done(w), Tail(w.todo), need) /\ Done(w) <= w.want
  BY DEF Measure, InPart
<1>3. /\ v.op = "recommend" /\ v.at = "fetch" /\ v.want = w.want /\ v.todo = w.todo /\ v.shown = w.shown
      /\ v.made = w.made /\ v.need = need
  BY <1>0 DEF Preparations
<1>4. v \in Preparations
  BY <1>0, <1>1 DEF Preparations
<1>5. Done(v) = Done(w)
  BY <1>3 DEF Done
<1> HIDE DEF v
<1>6. Course(v)
  BY <1>0, <1>3, <1>4 DEF Course
<1>7. Measure(v)
  BY <1>2, <1>3, <1>5 DEF Measure, InPart
<1>. QED
  BY <1>6, <1>7 DEF v


\* Nothing more is made than was left of the part.
LEMMA RoomLeft ==
    ASSUME NEW w, Course(w), Measure(w), w.at = "draw", ~ (w.op = "prepare" /\ w.second)
    PROVE  Room(w.want, Done(w), Tail(w.todo), 0)
<1>1. w \in Preparations /\ IsFiniteSet(w.made)
  BY DEF Course
<1>2. w.need \in Nat /\ w.want \in Nat /\ Done(w) \in Nat /\ Cardinality(w.made) \in Nat /\ Cardinality(w.made) <= w.need
  BY <1>1, Fields, DoneIs, FS_CardinalityType DEF Measure, InPart
<1> DEFINE more == w.need - Cardinality(w.made)
<1>3. more \in Nat
  BY <1>2
<1>4. Room(w.want, Done(w), Tail(w.todo), more)
  BY DEF Measure, InPart
<1> HIDE DEF more
<1>5. Done(w) + 0 <= Done(w) + more
  BY <1>2, <1>3
<1>. QED
  BY <1>2, <1>3, <1>4, <1>5, RoomMoves

LEMMA AdvanceSteps ==
    ASSUME NEW j, NEW w, Course(w), Measure(w), w.at = "draw", NEW rest \in {Tail(w.todo), <<>>}
    PROVE  Course(Advance(j, w, rest)) /\ Measure(Advance(j, w, rest))
<1>0. /\ w \in Preparations /\ w.todo # <<>> /\ w.op \in {"prepare", "recommend"} /\ w.round \in Nat
      /\ w.todo \in Seq(PartsToFill) /\ w.second \in BOOLEAN
  BY Fields DEF Course
<1>1. rest \in Seq(PartsToFill)
  BY <1>0, HeadIs, EmptyLists
<1>2. IsFiniteSet({}) /\ {} \in SUBSET Nat /\ 0 \in Nat
  BY FS_EmptySet
<1>3. Done(w) <= w.want
  BY DEF Measure
<1>4. CASE rest # <<>>
  <2> DEFINE at == IF w.op = "recommend" THEN "look" ELSE "fetch"
             round == IF w.op = "recommend" THEN w.round + 1 ELSE w.round
             v == [w EXCEPT !.todo = rest, !.list = <<>>, !.made = {}, !.need = 0, !.round = round, !.at = at]
  <2>1. round \in Nat /\ at \in {"look", "fetch"} /\ (at = "look" <=> w.op = "recommend")
    BY <1>0
  <2>2. Advance(j, w, rest) = v
    <3>1. Advance(j, w, rest)
            = [w EXCEPT !.todo = rest, !.list = <<>>, !.made = {}, !.need = 0,
                        !.round = IF w.op = "recommend" THEN @ + 1 ELSE @,
                        !.at = IF w.op = "recommend" THEN "look" ELSE "fetch"]
      BY <1>4 DEF Advance
    <3>. QED
      BY <3>1, <1>0 DEF Preparations
  <2> HIDE DEF at, round
  <2>3. /\ v.op = w.op /\ v.plans = w.plans /\ v.plan = w.plan /\ v.at = at /\ v.want = w.want
        /\ v.total = w.total /\ v.todo = rest /\ v.second = w.second /\ v.shown = w.shown /\ v.made = {}
        /\ v.need = 0
    BY <1>0 DEF Preparations
  <2>4. v \in Preparations
    BY <1>0, <1>1, <1>2, <2>1, EmptyLists DEF Preparations
  <2>5. Done(v) = Done(w)
    BY <2>3 DEF Done
  <2> HIDE DEF v
  <2>6. Course(v)
    BY <1>0, <1>2, <1>4, <2>1, <2>3, <2>4 DEF Course
  <2>7. rest = Tail(w.todo)
    BY <1>4
  <2>8. Measure(v)
    <3>1. CASE w.op = "prepare" /\ w.second
      BY <3>1, <1>3, <2>1, <2>3, <2>5 DEF Measure, InPart
    <3>2. CASE ~ (w.op = "prepare" /\ w.second)
      <4>1. Room(w.want, Done(w), rest, 0)
        BY <3>2, <2>7, RoomLeft
      <4>2. v.at = "look" => Room(v.want, Done(v), v.todo, 0)
        BY <4>1, <2>3, <2>5
      <4>3. v.at = "fetch" => v.op = "prepare" /\ Room(v.want, Done(v), v.todo, 0)
        BY <4>1, <2>1, <2>3, <2>5, <1>0
      <4>4. ~ InPart(v) /\ v.at # "create" /\ Done(v) <= v.want
        BY <2>1, <2>3, <2>5, <1>3 DEF InPart
      <4>. QED
        BY <4>2, <4>3, <4>4, Zenon DEF Measure
    <3>. QED
      BY <3>1, <3>2
  <2>. QED
    BY <2>2, <2>6, <2>8
<1>5. CASE rest = <<>> /\ w.op = "recommend"
  <2> DEFINE v == [w EXCEPT !.todo = rest, !.list = <<>>, !.at = "end"]
  <2>1. Advance(j, w, rest) = v
    BY <1>5 DEF Advance
  <2>2. /\ v.op = w.op /\ v.at = "end" /\ v.want = w.want /\ v.shown = w.shown /\ v.made = w.made
    BY <1>0 DEF Preparations
  <2>3. v \in Preparations
    BY <1>0, <1>1, EmptyLists DEF Preparations
  <2> HIDE DEF v
  <2>4. Course(v)
    BY <1>5, <2>2, <2>3 DEF Course
  <2>5. Measure(v)
    BY <1>3, <1>5, <2>2 DEF Measure, InPart, Done
  <2>. QED
    BY <2>1, <2>4, <2>5
<1>6. CASE rest = <<>> /\ w.op = "prepare"
  <2> DEFINE v == [w EXCEPT !.todo = rest, !.list = <<>>, !.made = {}, !.at = "count"]
  <2>1. Advance(j, w, rest) = v
    BY <1>6 DEF Advance
  <2>2. /\ v.op = w.op /\ v.at = "count" /\ v.want = w.want /\ v.shown = w.shown /\ v.made = {}
        /\ v.plans = w.plans /\ v.plan = w.plan /\ v.total = w.total
    BY <1>0 DEF Preparations
  <2>3. v \in Preparations
    BY <1>0, <1>1, <1>2, EmptyLists DEF Preparations
  <2> HIDE DEF v
  <2>4. Course(v)
    BY <1>2, <1>6, <2>2, <2>3 DEF Course
  <2>5. Measure(v)
    BY <1>3, <1>6, <2>2 DEF Measure, InPart, Done
  <2>. QED
    BY <2>1, <2>4, <2>5
<1>. QED
  BY <1>0, <1>4, <1>5, <1>6

\* The targets that can have no quiz are passed over.
LEMMA FirstIs ==
    ASSUME NEW N \in Nat, NEW skipped, skipped \subseteq 1 .. N
    PROVE  LET first == CHOOSE n \in 1 .. (N + 1) : n \notin skipped /\ 1 .. (n - 1) \subseteq skipped IN
           first \in 1 .. (N + 1) /\ first \notin skipped
<1>1. \E n \in 1 .. (N + 1) : n \notin skipped /\ 1 .. (n - 1) \subseteq skipped
  <2>. SUFFICES ASSUME \A n \in 1 .. (N + 1) : ~ (n \notin skipped /\ 1 .. (n - 1) \subseteq skipped) PROVE FALSE
    OBVIOUS
  <2> DEFINE T == {n \in 0 .. N + 1 : 1 .. n \subseteq skipped}
  <2>1. 0 \in T
    OBVIOUS
  <2>2. ASSUME NEW n \in 0 .. (N + 1) - 1, n \in T PROVE n + 1 \in T
    <3>1. n + 1 \in 1 .. (N + 1) /\ (n + 1) - 1 = n /\ 1 .. n \subseteq skipped
      BY <2>2
    <3>2. n + 1 \in skipped
      BY <3>1
    <3>3. 1 .. (n + 1) \subseteq skipped
      BY <3>1, <3>2
    <3>. QED
      BY <3>1, <3>3
  <2>3. N + 1 \in T
    <3>1. N + 1 \in Nat /\ N + 1 \in 0 .. N + 1
      OBVIOUS
    <3> HIDE DEF T
    <3>. QED
      BY <2>1, <2>2, <3>1, Climbing
  <2>4. N + 1 \in 1 .. (N + 1) /\ N + 1 \notin 1 .. N
    OBVIOUS
  <2>. QED
    BY <2>3, <2>4
<1>. QED
  BY <1>1

Skipped(w) == {n \in DOMAIN w.list : Again(w, w.list[n]) \/ TooFew(Head(w.todo).type, w.list[n])}
LEMMA DrawSteps ==
    ASSUME NEW w, Course(w), Measure(w), w.at = "draw", w.list # <<>>, Cardinality(w.made) < w.need,
           NEW first \in 1 .. (Len(w.list) + 1)
    PROVE  LET v == [w EXCEPT !.list = SubSeq(@, first, Len(@)), !.at = IF first > Len(w.list) THEN "draw" ELSE "create"]
           IN  Course(v) /\ Measure(v)
<1> DEFINE at == IF first > Len(w.list) THEN "draw" ELSE "create"
           list == SubSeq(w.list, first, Len(w.list))
           v == [w EXCEPT !.list = list, !.at = at]
<1>0. /\ w \in Preparations /\ w.todo # <<>> /\ w.list \in Seq(Sentences \X (Sentences \cup {None}))
      /\ w.op \in {"prepare", "recommend"}
  BY Fields DEF Course
<1>1. Len(w.list) \in Nat /\ DOMAIN w.list = 1 .. Len(w.list)
  BY <1>0
<1>2. list \in Seq(Sentences \X (Sentences \cup {None}))
  BY <1>0, <1>1
<1>3. at \in {"draw", "create"} /\ (at = "create" => first <= Len(w.list))
  BY <1>1
<1>4. at = "create" => list # <<>>
  <2>. SUFFICES ASSUME first <= Len(w.list) PROVE list # <<>>
    BY <1>3
  <2>1. Len(list) = Len(w.list) - first + 1
    BY <1>0, <1>1
  <2>2. Len(list) > 0
    BY <2>1, <1>1
  <2> HIDE DEF list
  <2>. QED
    BY <2>2
<1> HIDE DEF list, at
<1>5. v = [w EXCEPT !.list = SubSeq(@, first, Len(@)), !.at = IF first > Len(w.list) THEN "draw" ELSE "create"]
  BY <1>0 DEF Preparations, list, at
<1>6. /\ v.op = w.op /\ v.plans = w.plans /\ v.plan = w.plan /\ v.at = at /\ v.want = w.want
      /\ v.total = w.total /\ v.todo = w.todo /\ v.second = w.second /\ v.shown = w.shown /\ v.made = w.made
      /\ v.need = w.need /\ v.list = list
  BY <1>0 DEF Preparations
<1>7. v \in Preparations
  BY <1>0, <1>2, <1>3 DEF Preparations
<1> HIDE DEF v
<1>8. Course(v)
  BY <1>0, <1>3, <1>4, <1>6, <1>7 DEF Course
<1>9. Measure(v)
  <2>1. Done(v) = Done(w) /\ InPart(w) /\ InPart(v)
    BY <1>3, <1>6 DEF Done, InPart
  <2>. QED
    BY <2>1, <1>3, <1>6 DEF Measure
<1>10. Course(v) /\ Measure(v)
  BY <1>8, <1>9
<1>. QED
  BY <1>5, <1>10


\* A quiz is made, which was still missing.
NewEntry(w, id) == [quiz |-> id, new |-> TRUE, round |-> w.round]
Created(w, id) ==
    [w EXCEPT !.list = Tail(@), !.made = @ \cup {id}, !.total = @ + 1, !.at = "draw",
              !.cover = IF w.why = "coverage" THEN @ \cup {id} ELSE @,
              !.shown = IF w.op = "prepare" THEN @
                        ELSE Append(@, [quiz |-> id, new |-> TRUE, round |-> w.round])]
MadeOne(w, id, v) ==
    /\ v.op = w.op /\ v.plans = w.plans /\ v.plan = w.plan /\ v.at = "draw" /\ v.want = w.want
    /\ v.todo = w.todo /\ v.second = w.second /\ v.need = w.need /\ v.why = w.why /\ v.round = w.round
    /\ v.total = w.total + 1 /\ v.made = w.made \cup {id} /\ v.list = Tail(w.list)
    /\ v.cover = (IF w.why = "coverage" THEN w.cover \cup {id} ELSE w.cover)
    /\ v.shown = (IF w.op = "prepare" THEN w.shown ELSE Append(w.shown, NewEntry(w, id)))
LEMMA CreateFields ==
    ASSUME NEW w, Course(w), w.at = "create", NEW id \in Nat
    PROVE  Created(w, id) \in Preparations /\ MadeOne(w, id, Created(w, id))
<1> DEFINE cover == IF w.why = "coverage" THEN w.cover \cup {id} ELSE w.cover
           shown == IF w.op = "prepare" THEN w.shown ELSE Append(w.shown, NewEntry(w, id))
           made == w.made \cup {id}
           list == Tail(w.list)
           total == w.total + 1
           v == [w EXCEPT !.list = list, !.made = made, !.total = total, !.at = "draw",
                          !.cover = cover, !.shown = shown]
<1>0. w \in Preparations /\ w.list # <<>>
  BY DEF Course
<1>1. /\ w.total \in Nat /\ w.round \in Nat /\ w.made \in SUBSET Nat /\ w.cover \in SUBSET Nat
      /\ w.list \in Seq(Sentences \X (Sentences \cup {None}))
      /\ w.shown \in Seq([quiz : Nat, new : BOOLEAN, round : Nat])
  BY <1>0, Fields
<1>2. Created(w, id) = v
  BY <1>0 DEF Created, Preparations, NewEntry
<1>3. cover \in SUBSET Nat /\ made \in SUBSET Nat /\ total \in Nat
  BY <1>1
<1>4. shown \in Seq([quiz : Nat, new : BOOLEAN, round : Nat])
  <2>1. NewEntry(w, id) \in [quiz : Nat, new : BOOLEAN, round : Nat]
    BY <1>1 DEF NewEntry
  <2> DEFINE e == NewEntry(w, id)
  <2> HIDE DEF e
  <2>2. Append(w.shown, e) \in Seq([quiz : Nat, new : BOOLEAN, round : Nat])
    BY <1>1, <2>1 DEF e
  <2>. QED
    BY <1>1, <2>2 DEF e
<1>5. list \in Seq(Sentences \X (Sentences \cup {None}))
  BY <1>0, <1>1
<1> HIDE DEF cover, shown, made, list, total
<1>6. v \in Preparations
  BY <1>0, <1>3, <1>4, <1>5 DEF Preparations
<1>7. /\ v.op = w.op /\ v.plans = w.plans /\ v.plan = w.plan /\ v.at = "draw" /\ v.want = w.want
      /\ v.todo = w.todo /\ v.second = w.second /\ v.need = w.need /\ v.why = w.why /\ v.round = w.round
      /\ v.total = total /\ v.made = made /\ v.list = list /\ v.cover = cover /\ v.shown = shown
  BY <1>0 DEF Preparations
<1> HIDE DEF v
<1>. QED
  BY <1>2, <1>6, <1>7 DEF MadeOne, cover, shown, made, list, total

LEMMA CreateSteps ==
    ASSUME NEW w, Course(w), Measure(w), w.at = "create", NEW id \in Nat, id \notin w.made
    PROVE  Course(Created(w, id)) /\ Measure(Created(w, id))
<1> DEFINE v == Created(w, id)
<1>0. /\ w \in Preparations /\ w.list # <<>> /\ w.op \in {"prepare", "recommend"} /\ IsFiniteSet(w.made) /\ w.todo # <<>>
      /\ w.shown \in Seq([quiz : Nat, new : BOOLEAN, round : Nat]) /\ w.round \in Nat /\ w.total \in Nat
      /\ w.need \in Nat /\ w.want \in Nat
  BY Fields DEF Course
<1>1. /\ v \in Preparations
      /\ v.op = w.op /\ v.plans = w.plans /\ v.plan = w.plan /\ v.at = "draw" /\ v.want = w.want
      /\ v.todo = w.todo /\ v.second = w.second /\ v.need = w.need
      /\ v.total = w.total + 1 /\ v.made = w.made \cup {id}
      /\ v.shown = (IF w.op = "prepare" THEN w.shown ELSE Append(w.shown, NewEntry(w, id)))
  <2>1. v \in Preparations /\ MadeOne(w, id, v)
    BY CreateFields
  <2> HIDE DEF v
  <2>. QED
    BY <2>1 DEF MadeOne
<1> HIDE DEF v
<1>2. IsFiniteSet(v.made) /\ Cardinality(v.made) = Cardinality(w.made) + 1
  <2>1. IsFiniteSet(w.made \cup {id}) /\ Cardinality(w.made \cup {id}) = Cardinality(w.made) + 1
    BY <1>0, FS_AddElement, Zenon
  <2>2. v.made = w.made \cup {id}
    BY <1>1, Zenon
  <2>. QED
    BY <2>1, <2>2, Zenon
<1>3. Course(v)
  BY <1>0, <1>1, <1>2 DEF Course
<1>4. Done(v) = Done(w) + 1
  <2>1. CASE w.op = "prepare"
    BY <2>1, <1>1 DEF Done
  <2>2. CASE w.op = "recommend"
    <3> DEFINE e == NewEntry(w, id)
    <3>1. e \in [quiz : Nat, new : BOOLEAN, round : Nat]
      BY <1>0 DEF NewEntry
    <3> HIDE DEF e
    <3>2. Len(Append(w.shown, e)) = Len(w.shown) + 1
      BY <1>0, <3>1
    <3>3. v.shown = Append(w.shown, e)
      BY <2>2, <1>1 DEF e
    <3>. QED
      BY <2>2, <1>1, <3>2, <3>3 DEF Done
  <2>. QED
    BY <1>0, <2>1, <2>2
<1>5. Done(w) \in Nat /\ Cardinality(w.made) \in Nat /\ Cardinality(w.made) < w.need
  BY <1>0, DoneIs, FS_CardinalityType DEF Measure
<1>6. InPart(w) /\ InPart(v)
  BY <1>1 DEF InPart
<1> DEFINE more == w.need - Cardinality(w.made)
           rest == v.need - Cardinality(v.made)
<1>7. more \in Nat /\ rest \in Nat /\ more = rest + 1 /\ Cardinality(v.made) <= v.need
  BY <1>0, <1>1, <1>2, <1>5
<1>8. \/ w.op = "prepare" /\ w.second /\ more + Done(w) <= w.want
      \/ ~ (w.op = "prepare" /\ w.second) /\ Room(w.want, Done(w), Tail(w.todo), more)
  BY <1>6 DEF Measure
<1>9. Measure(v)
  <2>1. Cardinality(v.made) <= v.need
    BY <1>7
  <2> HIDE DEF more, rest
  <2>2. CASE w.op = "prepare" /\ w.second /\ more + Done(w) <= w.want
    <3>1. Done(v) <= w.want /\ rest + Done(v) <= w.want
      BY <2>2, <1>0, <1>4, <1>5, <1>7
    <3>. QED
      BY <3>1, <2>1, <2>2, <1>1, <1>6 DEF Measure, rest
  <2>3. CASE ~ (w.op = "prepare" /\ w.second) /\ Room(w.want, Done(w), Tail(w.todo), more)
    <3>1. Done(v) \in Nat /\ Done(v) + rest <= Done(w) + more
      BY <1>4, <1>5, <1>7
    <3>2. Room(w.want, Done(v), Tail(w.todo), rest) /\ Done(v) <= w.want
      BY <2>3, <3>1, <1>0, <1>5, <1>7, RoomMoves
    <3>. QED
      BY <3>2, <2>1, <2>3, <1>1, <1>6 DEF Measure, rest
  <2>. QED
    BY <1>8, <2>2, <2>3
<1>. QED
  BY <1>3, <1>9 DEF v

\* Of a job that is disturbed nothing else changes.
Unmoved(w, v) ==
    /\ v.op = w.op /\ v.at = w.at /\ v.plans = w.plans /\ v.why = w.why /\ v.todo = w.todo /\ v.list = w.list
    /\ v.made = w.made /\ v.cover = w.cover /\ v.shown = w.shown /\ v.round = w.round
LEMMA CalmSteps ==
    ASSUME NEW w, Course(w), Measure(w)
    PROVE  LET v == [w EXCEPT !.calm = FALSE] IN Course(v) /\ Measure(v) /\ Unmoved(w, v)
<1> DEFINE v == [w EXCEPT !.calm = FALSE]
<1>0. w \in Preparations
  BY DEF Course
<1>1. v \in Preparations
  BY <1>0 DEF Preparations
<1>2. /\ v.op = w.op /\ v.plans = w.plans /\ v.plan = w.plan /\ v.at = w.at /\ v.want = w.want
      /\ v.total = w.total /\ v.todo = w.todo /\ v.second = w.second /\ v.shown = w.shown /\ v.made = w.made
      /\ v.need = w.need /\ v.list = w.list
  BY <1>0 DEF Preparations
<1>3. Unmoved(w, v)
  BY <1>0 DEF Preparations, Unmoved
<1> HIDE DEF v
<1>4. Course(v)
  BY <1>1, <1>2 DEF Course
<1>5. Measure(v)
  <2>1. Done(v) = Done(w) /\ (InPart(v) <=> InPart(w))
    BY <1>2 DEF Done, InPart
  <2>. QED
    BY <1>2, <2>1 DEF Measure
<1>. QED
  BY <1>3, <1>4, <1>5 DEF v


---------------------------------------------------------------------------
(* What a job has made and shown, and the quizzes there are.                    *)

Alive(qs, q) == qs[q] # None /\ ~ qs[q].broken
Alike(qs, q, r) == Alive(qs, q) /\ Alive(qs, r) /\ qs[q].type = qs[r].type /\ qs[q].target = qs[r].target
\* What a job makes is its own until it is committed.
Owned(w, j, qs) ==
    /\ w.made \subseteq 1 .. Len(qs) /\ w.cover \subseteq 1 .. Len(qs)
    /\ \A n \in DOMAIN w.shown : w.shown[n].quiz \in 1 .. Len(qs)
    /\ \A q \in w.cover : qs[q] # None => qs[q].tx \in {None, Tx(w, j)}
\* For coverage it makes one quiz of a type and target.
Single(w, qs) == \A q, r \in w.cover : Alike(qs, q, r) => q = r
\* A target of the list that has such a quiz got it from this list.
Fresh(w, qs) ==
    InPart(w) /\ w.why = "coverage" =>
        \A q \in w.cover, n \in DOMAIN w.list :
            Alive(qs, q) /\ qs[q].type = Head(w.todo).type /\ qs[q].target = w.list[n][1] => q \in w.made
\* A target of the list that is asked about already is so from this list.
Unasked(w, qs) ==
    InPart(w) /\ w.op = "recommend" =>
        \A m \in DOMAIN w.shown, n \in DOMAIN w.list :
            w.shown[m].round = w.round /\ qs[w.shown[m].quiz] # None
            /\ qs[w.shown[m].quiz].target = w.list[n][1] => w.shown[m].quiz \in w.made
\* The next quiz is about something else than those made from the list.
Other(w, qs) == w.at = "create" => \A q \in w.made : qs[q] # None => qs[q].target # Head(w.list)[1]
NotTwice(w, qs) ==
    \A m, n \in DOMAIN w.shown :
        /\ m < n /\ w.shown[n].new /\ w.shown[m].round = w.shown[n].round
        /\ qs[w.shown[m].quiz] # None /\ qs[w.shown[n].quiz] # None
        => qs[w.shown[m].quiz].target # qs[w.shown[n].quiz].target
Books(w, j, qs) ==
    /\ Owned(w, j, qs) /\ Single(w, qs) /\ Fresh(w, qs)
    /\ Unasked(w, qs) /\ Other(w, qs) /\ NotTwice(w, qs)

\* Quizzes are added, committed, broken and taken away.
Evolved(qs, rs) ==
    /\ Len(qs) \in Nat /\ Len(rs) \in Nat /\ Len(qs) <= Len(rs)
    /\ \A q \in 1 .. Len(qs) : rs[q] # None =>
          /\ qs[q] # None /\ rs[q].type = qs[q].type /\ rs[q].target = qs[q].target
          /\ (qs[q].broken => rs[q].broken) /\ rs[q].tx \in {qs[q].tx, None}

LEMMA BooksKept ==
    ASSUME NEW w, NEW v, NEW j, NEW qs, NEW rs, Evolved(qs, rs), Unmoved(w, v), Books(w, j, qs)
    PROVE  Books(v, j, rs)
<1>1. /\ w.made \subseteq 1 .. Len(qs) /\ w.cover \subseteq 1 .. Len(qs)
      /\ \A n \in DOMAIN w.shown : w.shown[n].quiz \in 1 .. Len(qs)
      /\ \A q \in w.cover : qs[q] # None => qs[q].tx \in {None, Tx(w, j)}
  BY DEF Books, Owned
<1>2. 1 .. Len(qs) \subseteq 1 .. Len(rs)
  BY DEF Evolved
<1>3. \A q \in 1 .. Len(qs) : rs[q] # None =>
          /\ qs[q] # None /\ rs[q].type = qs[q].type /\ rs[q].target = qs[q].target
          /\ (qs[q].broken => rs[q].broken) /\ rs[q].tx \in {qs[q].tx, None}
  BY DEF Evolved
<1>4. \A q \in 1 .. Len(qs) : Alive(rs, q) => Alive(qs, q)
  BY <1>3 DEF Alive
<1>5. Tx(v, j) = Tx(w, j) /\ (InPart(v) <=> InPart(w))
  BY DEF Tx, Unmoved, InPart
<1>6. Owned(v, j, rs)
  <2>1. \A q \in w.cover : rs[q] # None => rs[q].tx \in {None, Tx(w, j)}
    BY <1>1, <1>3
  <2>2. /\ w.made \subseteq 1 .. Len(rs) /\ w.cover \subseteq 1 .. Len(rs)
        /\ \A n \in DOMAIN w.shown : w.shown[n].quiz \in 1 .. Len(rs)
    BY <1>1, <1>2
  <2>. QED
    BY <1>5, <2>1, <2>2 DEF Owned, Unmoved
<1>7. Single(v, rs)
  <2>1. \A q, r \in w.cover : Alike(rs, q, r) => Alike(qs, q, r)
    BY <1>1, <1>3, <1>4 DEF Alike, Alive
  <2>2. Single(w, qs)
    BY DEF Books
  <2>. QED
    BY <2>1, <2>2 DEF Single, Unmoved
<1>8. Fresh(v, rs)
  <2>. SUFFICES ASSUME InPart(w), w.why = "coverage", NEW q \in w.cover, NEW n \in DOMAIN w.list,
                       Alive(rs, q), rs[q].type = Head(w.todo).type, rs[q].target = w.list[n][1]
                PROVE  q \in w.made
    BY <1>5 DEF Fresh, Unmoved
  <2>1. q \in 1 .. Len(qs)
    BY <1>1
  <2>2. Alive(qs, q) /\ qs[q].type = Head(w.todo).type /\ qs[q].target = w.list[n][1]
    BY <1>3, <1>4, <2>1 DEF Alive
  <2>. QED
    BY <2>2 DEF Books, Fresh
<1>9. Unasked(v, rs)
  <2>. SUFFICES ASSUME InPart(w), w.op = "recommend", NEW m \in DOMAIN w.shown, NEW n \in DOMAIN w.list,
                       w.shown[m].round = w.round, rs[w.shown[m].quiz] # None,
                       rs[w.shown[m].quiz].target = w.list[n][1]
                PROVE  w.shown[m].quiz \in w.made
    BY <1>5 DEF Unasked, Unmoved
  <2>1. qs[w.shown[m].quiz] # None /\ qs[w.shown[m].quiz].target = w.list[n][1]
    BY <1>1, <1>3
  <2>. QED
    BY <2>1 DEF Books, Unasked
<1>10. Other(v, rs)
  <2>. SUFFICES ASSUME w.at = "create", NEW q \in w.made, rs[q] # None PROVE rs[q].target # Head(w.list)[1]
    BY DEF Other, Unmoved
  <2>1. qs[q] # None /\ rs[q].target = qs[q].target
    BY <1>1, <1>3
  <2>. QED
    BY <2>1 DEF Books, Other
<1>11. NotTwice(v, rs)
  <2>. SUFFICES ASSUME NEW m \in DOMAIN w.shown, NEW n \in DOMAIN w.shown, m < n, w.shown[n].new,
                       w.shown[m].round = w.shown[n].round,
                       rs[w.shown[m].quiz] # None, rs[w.shown[n].quiz] # None
                PROVE  rs[w.shown[m].quiz].target # rs[w.shown[n].quiz].target
    BY DEF NotTwice, Unmoved
  <2>1. /\ qs[w.shown[m].quiz] # None /\ rs[w.shown[m].quiz].target = qs[w.shown[m].quiz].target
        /\ qs[w.shown[n].quiz] # None /\ rs[w.shown[n].quiz].target = qs[w.shown[n].quiz].target
    BY <1>1, <1>3
  <2>. QED
    BY <2>1 DEF Books, NotTwice
<1>. QED
  BY <1>6, <1>7, <1>8, <1>9, <1>10, <1>11 DEF Books

LEMMA BooksOfNew ==
    ASSUME NEW w, NEW j, NEW qs, w.made = {}, w.cover = {}, w.shown = <<>>, ~ InPart(w)
    PROVE  Books(w, j, qs)
<1>1. DOMAIN w.shown = {}
  OBVIOUS
<1>2. w.at # "create"
  BY DEF InPart
<1>. QED
  BY <1>1, <1>2 DEF Books, Owned, Single, Fresh, Unasked, Other, NotTwice

\* A job that does not work on a part.
LEMMA BooksMoved ==
    ASSUME NEW w, NEW v, NEW j, NEW qs, Books(w, j, qs), v.op = w.op, v.made \subseteq w.made, v.cover = w.cover,
           v.shown = w.shown, ~ InPart(v)
    PROVE  Books(v, j, qs)
<1>1. Tx(v, j) = Tx(w, j) /\ v.at # "create"
  BY DEF Tx, InPart
<1>2. Owned(v, j, qs)
  BY <1>1 DEF Books, Owned
<1>3. Single(v, qs) /\ NotTwice(v, qs)
  BY DEF Books, Single, NotTwice
<1>4. Fresh(v, qs) /\ Unasked(v, qs) /\ Other(v, qs)
  BY <1>1 DEF Fresh, Unasked, Other
<1>. QED
  BY <1>2, <1>3, <1>4 DEF Books

\* What is found is shown before anything is made.
LEMMA BooksShown ==
    ASSUME NEW w, NEW v, NEW j, NEW qs, Books(w, j, qs), v.op = w.op, v.made = w.made, v.cover = w.cover, ~ InPart(v),
           w.shown \in Seq([quiz : Nat, new : BOOLEAN, round : Nat]),
           NEW more \in Seq([quiz : Nat, new : BOOLEAN, round : Nat]), v.shown = w.shown \o more,
           \A n \in DOMAIN more : more[n].quiz \in 1 .. Len(qs) /\ ~ more[n].new
    PROVE  Books(v, j, qs)
<1>1. Tx(v, j) = Tx(w, j) /\ v.at # "create"
  BY DEF Tx, InPart
<1> DEFINE old == w.shown
           M == Len(old)
           L == M + Len(more)
<1>2. /\ M \in Nat /\ Len(more) \in Nat /\ DOMAIN old = 1 .. M /\ DOMAIN more = 1 .. Len(more) /\ DOMAIN v.shown = 1 .. L
      /\ \A n \in 1 .. L : v.shown[n] = IF n <= M THEN old[n] ELSE more[n - M]
  OBVIOUS
<1>3. \A n \in DOMAIN v.shown : \/ n \in DOMAIN old /\ v.shown[n] = old[n]
                                \/ ~ (n \in DOMAIN old) /\ \E k \in DOMAIN more : v.shown[n] = more[k]
  <2>. TAKE n \in DOMAIN v.shown
  <2>1. n \in 1 .. L
    BY <1>2
  <2>2. CASE n <= M
    BY <1>2, <2>1, <2>2
  <2>3. CASE ~ (n <= M)
    <3>1. v.shown[n] = more[n - M]
      BY <1>2, <2>1, <2>3
    <3>2. n - M \in DOMAIN more /\ n \notin DOMAIN old
      <4> HIDE DEF old, M
      <4>. QED
        BY <1>2, <2>1, <2>3 DEF L
    <3>. QED
      BY <3>1, <3>2
  <2>. QED
    BY <2>2, <2>3
<1>4. \A m, n \in DOMAIN v.shown : m < n /\ n \in DOMAIN old => m \in DOMAIN old
  BY <1>2
<1>5. Owned(v, j, qs)
  <2>1. \A n \in DOMAIN v.shown : v.shown[n].quiz \in 1 .. Len(qs)
    BY <1>3 DEF Books, Owned
  <2>. QED
    BY <1>1, <2>1 DEF Books, Owned
<1>6. NotTwice(v, qs)
  <2>. SUFFICES ASSUME NEW m \in DOMAIN v.shown, NEW n \in DOMAIN v.shown, m < n, v.shown[n].new,
                       v.shown[m].round = v.shown[n].round,
                       qs[v.shown[m].quiz] # None, qs[v.shown[n].quiz] # None
                PROVE  qs[v.shown[m].quiz].target # qs[v.shown[n].quiz].target
    BY DEF NotTwice
  <2>1. n \in DOMAIN old /\ v.shown[n] = old[n]
    BY <1>3
  <2>2. m \in DOMAIN old /\ v.shown[m] = old[m]
    BY <1>3, <1>4, <2>1
  <2>3. old[n].new /\ old[m].round = old[n].round /\ qs[old[m].quiz] # None /\ qs[old[n].quiz] # None
    BY <2>1, <2>2, Zenon
  <2>4. qs[old[m].quiz].target # qs[old[n].quiz].target
    BY <2>1, <2>2, <2>3, Zenon DEF Books, NotTwice
  <2>. QED
    BY <2>1, <2>2, <2>4, Zenon
<1>7. Fresh(v, qs) /\ Unasked(v, qs) /\ Other(v, qs) /\ Single(v, qs)
  BY <1>1 DEF Books, Fresh, Unasked, Other, Single
<1>. QED
  BY <1>5, <1>6, <1>7 DEF Books


\* What a list of candidates is taken from.
LEMMA PoolIs ==
    ASSUME StudyAssumption, living \subseteq Sentences, NEW j, NEW type, NEW r, NEW why, NEW excluded
    PROVE  /\ Pool(j, type, r, why, excluded) \subseteq Sentences \X (Sentences \cup {None})
           /\ IsFiniteSet(Pool(j, type, r, why, excluded))
           /\ \A pair \in Pool(j, type, r, why, excluded) :
                pair[1] \notin excluded /\ (why = "coverage" => pair[1] \in Uncovered(j, type, r))
<1> DEFINE all == Sentences \X (Sentences \cup {None})
<1>1. IsFiniteSet(all)
  <2>1. IsFiniteSet(Sentences) /\ IsFiniteSet(Sentences \cup {None})
    BY FS_AddElement DEF StudyAssumption
  <2>. QED
    BY <2>1, FS_Product
<1>2. CASE type \notin TermTypes
  <2>1. Pool(j, type, r, why, excluded)
          = {pair \in Related : pair[1] \in Uncovered(j, type, r) \ excluded /\ pair[2] \in living}
    BY <1>2 DEF Pool
  <2>2. Related \subseteq all
    BY DEF StudyAssumption
  <2>3. Pool(j, type, r, why, excluded) \subseteq all
    BY <2>1, <2>2
  <2>4. IsFiniteSet(Pool(j, type, r, why, excluded))
    BY <1>1, <2>3, FS_Subset
  <2>. QED
    BY <2>1, <2>3, <2>4
<1>3. CASE type \in TermTypes
  <2> DEFINE some == (IF why = "review" THEN {x \in Covered(j, type, r) : Attempts(About(j, type, x)) > 0}
                      ELSE Uncovered(j, type, r)) \ excluded
  <2>1. Pool(j, type, r, why, excluded) = {<<s, None>> : s \in some}
    BY <1>3 DEF Pool
  <2>2. some \subseteq Sentences
    BY DEF Covered, Uncovered, Eligible
  <2>3. some \cap excluded = {} /\ (why = "coverage" => some \subseteq Uncovered(j, type, r))
    OBVIOUS
  <2> HIDE DEF some
  <2>4. Pool(j, type, r, why, excluded) \subseteq all
    BY <2>1, <2>2
  <2>5. IsFiniteSet(Pool(j, type, r, why, excluded))
    BY <1>1, <2>4, FS_Subset
  <2>6. \A pair \in Pool(j, type, r, why, excluded) : pair[1] \in some
    BY <2>1
  <2>. QED
    BY <2>3, <2>4, <2>5, <2>6
<1>. QED
  BY <1>2, <1>3

LEMMA ListsAre ==
    ASSUME StudyAssumption, living \subseteq Sentences, NEW j, NEW type, NEW r, NEW why, NEW excluded, NEW n \in Nat,
           NEW list \in Lists(j, type, r, why, excluded, n)
    PROVE  /\ list \in Seq(Sentences \X (Sentences \cup {None}))
           /\ \A k \in DOMAIN list : list[k] \in Pool(j, type, r, why, excluded)
<1> DEFINE targets == Pool(j, type, r, why, excluded)
<1>1. targets \subseteq Sentences \X (Sentences \cup {None}) /\ IsFiniteSet(targets)
  BY PoolIs
<1>2. PICK s \in SetToSeqs(targets) : list = SubSeq(s, 1, Min2(Factor * n, Len(s)))
  BY DEF Lists
<1> HIDE DEF targets
<1>3. Cardinality(targets) \in Nat
  BY <1>1, FS_CardinalityType
<1>4. s \in [1 .. Cardinality(targets) -> targets]
  BY DEF SetToSeqs
<1>5. s \in Seq(targets) /\ Len(s) \in Nat /\ DOMAIN s = 1 .. Len(s)
  BY <1>3, <1>4
<1>6. Factor * n \in Nat
  BY DEF StudyAssumption
<1>7. Min2(Factor * n, Len(s)) \in Nat /\ Min2(Factor * n, Len(s)) <= Len(s)
  BY <1>5, <1>6 DEF Min2
<1> DEFINE m == Min2(Factor * n, Len(s))
<1>8. m \in 0 .. Len(s)
  BY <1>5, <1>7
<1>9. list = SubSeq(s, 1, m)
  BY <1>2
<1> HIDE DEF m
<1>10. list \in Seq(targets)
  BY <1>5, <1>8, <1>9
<1>11. \A k \in DOMAIN list : list[k] \in targets
  BY <1>10
<1>12. list \in Seq(Sentences \X (Sentences \cup {None}))
  BY <1>1, <1>10
<1>. QED
  BY <1>11, <1>12 DEF targets

LEMMA FetchBooks ==
    ASSUME StudyAssumption, QuizTypes, living \subseteq Sentences, NEW w, NEW v, NEW j,
           Books(w, j, quiz), w.op \in {"prepare", "recommend"},
           v.op = w.op, v.why = w.why, v.todo = w.todo, v.cover = w.cover, v.shown = w.shown, v.round = w.round,
           v.made = {}, v.at = "draw",
           \A k \in DOMAIN v.list : v.list[k] \in
               Pool(Tx(w, j), Head(w.todo).type, Head(w.todo).resource, w.why,
                    IF w.op = "recommend" THEN Excluded(w) ELSE {})
    PROVE  Books(v, j, quiz)
<1> DEFINE type == Head(w.todo).type
           r == Head(w.todo).resource
           excluded == IF w.op = "recommend" THEN Excluded(w) ELSE {}
<1>0. Tx(v, j) = Tx(w, j)
  BY DEF Tx
<1>1. /\ w.cover \subseteq 1 .. Len(quiz) /\ \A n \in DOMAIN w.shown : w.shown[n].quiz \in 1 .. Len(quiz)
      /\ \A q \in w.cover : quiz[q] # None => quiz[q].tx \in {None, Tx(w, j)}
  BY DEF Books, Owned
<1>2. DOMAIN quiz = 1 .. Len(quiz)
  BY DEF QuizTypes
<1>3. Owned(v, j, quiz)
  BY <1>0, <1>1 DEF Owned
<1>4. Single(v, quiz) /\ NotTwice(v, quiz)
  BY DEF Books, Single, NotTwice
<1>5. Other(v, quiz)
  BY DEF Other
<1>6. \A k \in DOMAIN v.list :
         v.list[k][1] \notin excluded /\ (w.why = "coverage" => v.list[k][1] \in Uncovered(Tx(w, j), type, r))
  <2>1. \A pair \in Pool(Tx(w, j), type, r, w.why, excluded) :
           pair[1] \notin excluded /\ (w.why = "coverage" => pair[1] \in Uncovered(Tx(w, j), type, r))
    BY PoolIs
  <2>. QED
    BY <2>1
<1>7. Fresh(v, quiz)
  <2>. SUFFICES ASSUME w.why = "coverage", NEW q \in w.cover, NEW n \in DOMAIN v.list,
                       Alive(quiz, q), quiz[q].type = type, quiz[q].target = v.list[n][1]
                PROVE  FALSE
    BY DEF Fresh
  <2>1. v.list[n][1] \in Eligible(type, r) /\ v.list[n][1] \notin Covered(Tx(w, j), type, r)
    BY <1>6 DEF Uncovered
  <2>2. ResourceOf[quiz[q].target] = r
    BY <2>1 DEF Eligible
  <2>3. q \in On(Tx(w, j), type, r)
    BY <1>1, <1>2, <2>2 DEF On, Valid, Seen, Alive
  <2>4. quiz[q].target \in Covered(Tx(w, j), type, r)
    BY <2>1, <2>3 DEF Covered
  <2>. QED
    BY <2>1, <2>4
<1>8. Unasked(v, quiz)
  <2>. SUFFICES ASSUME w.op = "recommend", NEW m \in DOMAIN w.shown, NEW n \in DOMAIN v.list,
                       w.shown[m].round = w.round, quiz[w.shown[m].quiz] # None,
                       quiz[w.shown[m].quiz].target = v.list[n][1]
                PROVE  FALSE
    BY DEF Unasked
  <2>1. quiz[w.shown[m].quiz].target \in Excluded(w)
    BY DEF Excluded
  <2>. QED
    BY <1>6, <2>1
<1>. QED
  BY <1>3, <1>4, <1>5, <1>7, <1>8 DEF Books

LEMMA DrawBooks ==
    ASSUME NEW w, NEW v, NEW j, NEW qs, Books(w, j, qs), w.at = "draw", v.at \in {"draw", "create"},
           v.op = w.op, v.why = w.why, v.todo = w.todo, v.cover = w.cover, v.shown = w.shown, v.round = w.round,
           v.made = w.made, \A k \in DOMAIN v.list : \E m \in DOMAIN w.list : v.list[k] = w.list[m],
           v.at = "create" => \A q \in w.made : qs[q] # None => qs[q].target # Head(v.list)[1]
    PROVE  Books(v, j, qs)
<1>1. Tx(v, j) = Tx(w, j) /\ InPart(w)
  BY DEF Tx, InPart
<1>2. Owned(v, j, qs) /\ Single(v, qs) /\ NotTwice(v, qs) /\ Other(v, qs)
  BY <1>1 DEF Books, Owned, Single, NotTwice, Other
<1>3. Fresh(v, qs)
  <2>. SUFFICES ASSUME w.why = "coverage", NEW q \in w.cover, NEW n \in DOMAIN v.list,
                       Alive(qs, q), qs[q].type = Head(w.todo).type, qs[q].target = v.list[n][1]
                PROVE  q \in w.made
    BY DEF Fresh
  <2>1. PICK m \in DOMAIN w.list : v.list[n] = w.list[m]
    OBVIOUS
  <2>. QED
    BY <1>1, <2>1 DEF Books, Fresh
<1>4. Unasked(v, qs)
  <2>. SUFFICES ASSUME w.op = "recommend", NEW m \in DOMAIN w.shown, NEW n \in DOMAIN v.list,
                       w.shown[m].round = w.round, qs[w.shown[m].quiz] # None,
                       qs[w.shown[m].quiz].target = v.list[n][1]
                PROVE  w.shown[m].quiz \in w.made
    BY DEF Unasked
  <2>1. PICK k \in DOMAIN w.list : v.list[n] = w.list[k]
    OBVIOUS
  <2>. QED
    BY <1>1, <2>1 DEF Books, Unasked
<1>. QED
  BY <1>2, <1>3, <1>4 DEF Books

LEMMA CreateBooks ==
    ASSUME NEW w, NEW v, NEW j, NEW qs, Books(w, j, qs), w.at = "create", w.list # <<>>,
           w.list \in Seq(Sentences \X (Sentences \cup {None})), w.op \in {"prepare", "recommend"},
           w.shown \in Seq([quiz : Nat, new : BOOLEAN, round : Nat]), w.round \in Nat,
           Len(qs) \in Nat, NEW id \in 1 .. Len(qs), MadeOne(w, id, v), qs[id].tx = Tx(w, j),
           qs[id].type = Head(w.todo).type, qs[id].target = Head(w.list)[1]
    PROVE  Books(v, j, qs)
<1>0. /\ v.op = w.op /\ v.at = "draw" /\ v.todo = w.todo /\ v.why = w.why /\ v.round = w.round
      /\ v.made = w.made \cup {id} /\ v.list = Tail(w.list)
      /\ v.cover = (IF w.why = "coverage" THEN w.cover \cup {id} ELSE w.cover)
      /\ v.shown = (IF w.op = "prepare" THEN w.shown ELSE Append(w.shown, NewEntry(w, id)))
  BY DEF MadeOne
<1>1. Tx(v, j) = Tx(w, j) /\ InPart(w) /\ v.at # "create"
  BY <1>0 DEF Tx, InPart
<1>2. /\ w.made \subseteq 1 .. Len(qs) /\ w.cover \subseteq 1 .. Len(qs)
      /\ \A n \in DOMAIN w.shown : w.shown[n].quiz \in 1 .. Len(qs)
      /\ \A q \in w.cover : qs[q] # None => qs[q].tx \in {None, Tx(w, j)}
  BY DEF Books, Owned
<1>3. \A n \in DOMAIN v.list : \E m \in DOMAIN w.list : v.list[n] = w.list[m]
  BY <1>0
<1>4. 1 \in DOMAIN w.list /\ w.list[1] = Head(w.list)
  OBVIOUS
<1>5. NewEntry(w, id).quiz = id /\ NewEntry(w, id).round = w.round
      /\ NewEntry(w, id) \in [quiz : Nat, new : BOOLEAN, round : Nat]
  BY DEF NewEntry
<1>6. /\ \A n \in DOMAIN v.shown : \/ n \in DOMAIN w.shown /\ v.shown[n] = w.shown[n]
                                   \/ w.op = "recommend" /\ v.shown[n] = NewEntry(w, id)
      /\ \A m, n \in DOMAIN v.shown : m < n => m \in DOMAIN w.shown /\ v.shown[m] = w.shown[m]
  <2>1. CASE w.op = "prepare"
    BY <1>0, <2>1
  <2>2. CASE w.op = "recommend"
    <3> DEFINE e == NewEntry(w, id)
               M == Len(w.shown)
    <3>1. v.shown = Append(w.shown, e)
      BY <1>0, <2>2
    <3>2. e \in [quiz : Nat, new : BOOLEAN, round : Nat]
      BY <1>5
    <3> HIDE DEF e
    <3>3. /\ M \in Nat /\ DOMAIN w.shown = 1 .. M /\ DOMAIN v.shown = 1 .. M + 1 /\ v.shown[M + 1] = e
          /\ \A n \in 1 .. M : v.shown[n] = w.shown[n]
      BY <3>1, <3>2
    <3> HIDE DEF M
    <3>4. \A n \in 1 .. M + 1 : n \in 1 .. M \/ n = M + 1
      BY <3>3
    <3>5. \A m, n \in 1 .. M + 1 : m < n => m \in 1 .. M
      BY <3>3
    <3>. QED
      BY <2>2, <3>3, <3>4, <3>5 DEF e
  <2>. QED
    BY <2>1, <2>2
<1>7. \A q \in w.cover : w.why = "coverage" => ~ Alike(qs, q, id)
  <2>. SUFFICES ASSUME NEW q \in w.cover, w.why = "coverage", Alike(qs, q, id) PROVE FALSE
    OBVIOUS
  <2>1. Alive(qs, q) /\ qs[q].type = Head(w.todo).type /\ qs[q].target = w.list[1][1]
    BY <1>4 DEF Alike
  <2>2. q \in w.made
    BY <1>1, <1>4, <2>1 DEF Books, Fresh
  <2>3. qs[q].target # Head(w.list)[1]
    BY <2>1, <2>2 DEF Books, Other, Alive
  <2>. QED
    BY <1>4, <2>1, <2>3
<1>8. Owned(v, j, qs)
  <2>1. v.made \subseteq 1 .. Len(qs) /\ v.cover \subseteq 1 .. Len(qs)
    BY <1>0, <1>2
  <2>2. \A n \in DOMAIN v.shown : v.shown[n].quiz \in 1 .. Len(qs)
    BY <1>2, <1>5, <1>6
  <2>3. \A q \in v.cover : qs[q] # None => qs[q].tx \in {None, Tx(w, j)}
    BY <1>0, <1>2
  <2>. QED
    BY <1>1, <2>1, <2>2, <2>3 DEF Owned
<1>9. Single(v, qs)
  <2>. SUFFICES ASSUME NEW q \in v.cover, NEW r \in v.cover, Alike(qs, q, r) PROVE q = r
    BY DEF Single
  <2>1. CASE q \in w.cover /\ r \in w.cover
    BY <2>1 DEF Books, Single
  <2>2. CASE ~ (q \in w.cover /\ r \in w.cover)
    <3>1. w.why = "coverage" /\ (q \in w.cover \/ q = id) /\ (r \in w.cover \/ r = id)
      BY <1>0, <2>2
    <3>2. Alike(qs, r, q)
      BY DEF Alike
    <3>. QED
      BY <1>7, <2>2, <3>1, <3>2
  <2>. QED
    BY <2>1, <2>2
<1>10. Fresh(v, qs)
  <2>. SUFFICES ASSUME w.why = "coverage", NEW q \in v.cover, NEW n \in DOMAIN v.list,
                       Alive(qs, q), qs[q].type = Head(w.todo).type, qs[q].target = v.list[n][1]
                PROVE  q \in v.made
    BY <1>0 DEF Fresh
  <2>1. PICK m \in DOMAIN w.list : v.list[n] = w.list[m]
    BY <1>3
  <2>2. q \in w.cover => q \in w.made
    BY <1>1, <2>1 DEF Books, Fresh
  <2>. QED
    BY <1>0, <2>2
<1>11. Unasked(v, qs)
  <2>. SUFFICES ASSUME w.op = "recommend", NEW m \in DOMAIN v.shown, NEW n \in DOMAIN v.list,
                       v.shown[m].round = w.round, qs[v.shown[m].quiz] # None,
                       qs[v.shown[m].quiz].target = v.list[n][1]
                PROVE  v.shown[m].quiz \in v.made
    BY <1>0 DEF Unasked
  <2>1. PICK k \in DOMAIN w.list : v.list[n] = w.list[k]
    BY <1>3
  <2>2. CASE m \in DOMAIN w.shown /\ v.shown[m] = w.shown[m]
    <3>1. w.shown[m].quiz \in w.made
      BY <1>1, <2>1, <2>2 DEF Books, Unasked
    <3>. QED
      BY <1>0, <2>2, <3>1
  <2>3. CASE v.shown[m] = NewEntry(w, id)
    BY <1>0, <1>5, <2>3
  <2>. QED
    BY <1>6, <2>2, <2>3
<1>12. NotTwice(v, qs)
  <2>. SUFFICES ASSUME NEW m \in DOMAIN v.shown, NEW n \in DOMAIN v.shown, m < n, v.shown[n].new,
                       v.shown[m].round = v.shown[n].round,
                       qs[v.shown[m].quiz] # None, qs[v.shown[n].quiz] # None
                PROVE  qs[v.shown[m].quiz].target # qs[v.shown[n].quiz].target
    BY DEF NotTwice
  <2>1. m \in DOMAIN w.shown /\ v.shown[m] = w.shown[m]
    BY <1>6
  <2>2. CASE n \in DOMAIN w.shown /\ v.shown[n] = w.shown[n]
    <3>1. w.shown[n].new /\ w.shown[m].round = w.shown[n].round
          /\ qs[w.shown[m].quiz] # None /\ qs[w.shown[n].quiz] # None
      BY <2>1, <2>2, Zenon
    <3>2. qs[w.shown[m].quiz].target # qs[w.shown[n].quiz].target
      BY <2>1, <2>2, <3>1, Zenon DEF Books, NotTwice
    <3>. QED
      BY <2>1, <2>2, <3>2, Zenon
  <2>3. CASE w.op = "recommend" /\ v.shown[n] = NewEntry(w, id)
    <3>1. w.shown[m].round = w.round /\ qs[w.shown[m].quiz] # None
      BY <1>5, <2>1, <2>3
    <3>2. qs[v.shown[n].quiz].target = Head(w.list)[1]
      BY <1>5, <2>3
    <3>3. SUFFICES ASSUME qs[w.shown[m].quiz].target = w.list[1][1] PROVE FALSE
      BY <1>4, <2>1, <3>2
    <3>4. w.shown[m].quiz \in w.made
      BY <1>1, <1>4, <2>1, <2>3, <3>1, <3>3 DEF Books, Unasked
    <3>. QED
      BY <1>4, <3>1, <3>3, <3>4 DEF Books, Other
  <2>. QED
    BY <1>6, <2>2, <2>3
<1>13. Other(v, qs)
  BY <1>1 DEF Other
<1>. QED
  BY <1>8, <1>9, <1>10, <1>11, <1>12, <1>13 DEF Books


---------------------------------------------------------------------------
(* The invariant.                                                               *)

GoodPlans(plans) ==
    /\ plans \in [Plans -> SavedPlans \cup {None}]
    /\ \A p \in Plans : plans[p] # None => GoodScope(plans[p])
GoodJobs(jobs) == jobs \in [Requests -> Preparations \cup {None}]
AtWork(jobs, qs) ==
    \A j \in Requests : jobs[j] # None => Course(jobs[j]) /\ Measure(jobs[j]) /\ Books(jobs[j], j, qs)
\* A quiz is about what is there, or broken; one that is not committed has a recommendation.
Rooted(qs, here, jobs) ==
    \A q \in 1 .. Len(qs) : qs[q] # None =>
        /\ qs[q].broken \/ qs[q].target \in here
        /\ qs[q].tx # None => jobs[qs[q].tx] # None /\ jobs[qs[q].tx].op = "recommend"
\* A plan waits for a job that has it before it.
Pending(w, p) ==
    /\ w # None /\ w.op = "prepare"
    /\ \/ w.at \in {"open", "fetch", "draw", "create", "count"} /\ p \in ToSet(w.plans)
       \/ w.at = "told" /\ p \in ToSet(Tail(w.plans))
Waits(plans, p) == plans[p] # None /\ plans[p].status \in {"queued", "running"}
Settled(plans, cut, jobs) ==
    \A p \in Plans : Waits(plans, p) => p \in cut \/ \E j \in Requests : Pending(jobs[j], p)
LearnInv ==
    /\ GoodPlans(plan) /\ living \subseteq Sentences /\ QuizTypes /\ GoodJobs(job)
    /\ AtWork(job, quiz) /\ Rooted(quiz, living, job) /\ Settled(plan, killed, job)

LEMMA JobsOf ==
    ASSUME NEW jobs, GoodJobs(jobs), NEW j \in Requests, NEW w, w \in Preparations \cup {None}
    PROVE  /\ GoodJobs([jobs EXCEPT ![j] = w]) /\ [jobs EXCEPT ![j] = w][j] = w
           /\ \A k \in Requests \ {j} : [jobs EXCEPT ![j] = w][k] = jobs[k]
BY DEF GoodJobs

LEMMA UnmovedSelf == ASSUME NEW w PROVE Unmoved(w, w)
BY DEF Unmoved

LEMMA EvolvedSelf ==
    ASSUME NEW qs, Len(qs) \in Nat, \A q \in 1 .. Len(qs) : qs[q] \in MadeQuizzes \cup {None}
    PROVE  Evolved(qs, qs)
BY DEF Evolved, MadeQuizzes

LEMMA WorkGoesOn ==
    ASSUME NEW jobs, GoodJobs(jobs), NEW qs, NEW rs, AtWork(jobs, qs), Evolved(qs, rs), NEW j \in Requests,
           NEW w \in Preparations \cup {None}, w # None => Course(w) /\ Measure(w) /\ Books(w, j, rs)
    PROVE  AtWork([jobs EXCEPT ![j] = w], rs)
<1> DEFINE v == [jobs EXCEPT ![j] = w]
<1>1. v[j] = w /\ \A k \in Requests \ {j} : v[k] = jobs[k]
  BY DEF GoodJobs
<1> HIDE DEF v
<1>2. ASSUME NEW k \in Requests, v[k] # None PROVE Course(v[k]) /\ Measure(v[k]) /\ Books(v[k], k, rs)
  <2>1. CASE k = j
    BY <1>1, <1>2, <2>1
  <2>2. CASE k # j
    <3>1. v[k] = jobs[k] /\ Course(jobs[k]) /\ Measure(jobs[k]) /\ Books(jobs[k], k, qs)
      BY <1>1, <1>2, <2>2 DEF AtWork
    <3>2. Books(jobs[k], k, rs)
      BY <3>1, UnmovedSelf, BooksKept
    <3>. QED
      BY <3>1, <3>2
  <2>. QED
    BY <2>1, <2>2
<1>. QED
  BY <1>2 DEF AtWork, v

LEMMA SettledStep ==
    ASSUME NEW plans, NEW after, NEW cut, NEW now, NEW jobs, GoodJobs(jobs), NEW j \in Requests,
           NEW w \in Preparations \cup {None}, Settled(plans, cut, jobs),
           \A p \in Plans : Waits(after, p) =>
               \/ p \in now \/ Pending(w, p)
               \/ Waits(plans, p) /\ p \notin cut /\ ~ Pending(jobs[j], p)
    PROVE  Settled(after, now, [jobs EXCEPT ![j] = w])
<1> DEFINE v == [jobs EXCEPT ![j] = w]
<1>1. v[j] = w /\ \A k \in Requests \ {j} : v[k] = jobs[k]
  BY DEF GoodJobs
<1> HIDE DEF v
<1>2. ASSUME NEW p \in Plans, Waits(after, p) PROVE p \in now \/ \E k \in Requests : Pending(v[k], p)
  <2>1. CASE p \in now
    BY <2>1
  <2>2. CASE Pending(w, p)
    BY <1>1, <2>2
  <2>3. CASE Waits(plans, p) /\ p \notin cut /\ ~ Pending(jobs[j], p)
    <3>1. PICK k \in Requests : Pending(jobs[k], p)
      BY <2>3 DEF Settled
    <3>2. k # j
      BY <2>3, <3>1
    <3>3. Pending(v[k], p)
      BY <1>1, <3>1, <3>2
    <3>. QED
      BY <3>3
  <2>. QED
    BY <1>2, <2>1, <2>2, <2>3
<1>. QED
  BY <1>2 DEF Settled, v

\* Who a quiz belongs to stays as long as its job does.
LEMMA RootedStep ==
    ASSUME NEW qs \in Seq(MadeQuizzes \cup {None}), NEW here, NEW jobs, GoodJobs(jobs), Rooted(qs, here, jobs),
           NEW j \in Requests, NEW w \in Preparations \cup {None},
           jobs[j] # None /\ jobs[j].op = "recommend" => w # None /\ w.op = "recommend"
    PROVE  Rooted(qs, here, [jobs EXCEPT ![j] = w])
<1> DEFINE v == [jobs EXCEPT ![j] = w]
<1>1. v[j] = w /\ \A k \in Requests \ {j} : v[k] = jobs[k]
  BY DEF GoodJobs
<1> HIDE DEF v
<1>2. ASSUME NEW q \in 1 .. Len(qs), qs[q] # None, qs[q].tx # None
      PROVE  v[qs[q].tx] # None /\ v[qs[q].tx].op = "recommend"
  <2>1. qs[q] \in MadeQuizzes
    BY <1>2
  <2>2. qs[q].tx \in Requests
    BY <1>2, <2>1 DEF MadeQuizzes
  <2>3. jobs[qs[q].tx] # None /\ jobs[qs[q].tx].op = "recommend"
    BY <1>2 DEF Rooted
  <2>4. CASE qs[q].tx = j
    BY <1>1, <2>3, <2>4
  <2>5. CASE qs[q].tx # j
    BY <1>1, <2>2, <2>3, <2>5
  <2>. QED
    BY <2>4, <2>5
<1>. QED
  BY <1>2 DEF Rooted, v

\* A list of quizzes each of which may have changed.
LEMMA SameQuizzes ==
    ASSUME NEW qs \in Seq(MadeQuizzes \cup {None}), NEW rs \in [DOMAIN qs -> MadeQuizzes \cup {None}]
    PROVE  rs \in Seq(MadeQuizzes \cup {None}) /\ Len(rs) = Len(qs) /\ DOMAIN rs = 1 .. Len(qs)
           /\ Len(qs) \in Nat /\ DOMAIN qs = 1 .. Len(qs)
<1>1. Len(qs) \in Nat /\ DOMAIN qs = 1 .. Len(qs)
  OBVIOUS
<1>2. rs \in [1 .. Len(qs) -> MadeQuizzes \cup {None}]
  BY <1>1
<1>. QED
  BY <1>1, <1>2

LEMMA QuizIs ==
    ASSUME LearnInv
    PROVE  /\ quiz \in Seq(MadeQuizzes \cup {None}) /\ Len(quiz) \in Nat /\ DOMAIN quiz = 1 .. Len(quiz)
           /\ \A q \in 1 .. Len(quiz) : quiz[q] \in MadeQuizzes \cup {None} /\ (quiz[q] # None => quiz[q] \in MadeQuizzes)
           /\ Evolved(quiz, quiz)
<1>1. quiz \in Seq(MadeQuizzes \cup {None}) /\ Len(quiz) \in Nat /\ DOMAIN quiz = 1 .. Len(quiz)
  BY DEF LearnInv, QuizTypes
<1>2. \A q \in 1 .. Len(quiz) : quiz[q] \in MadeQuizzes \cup {None} /\ (quiz[q] # None => quiz[q] \in MadeQuizzes)
  BY <1>1
<1>. QED
  BY <1>1, <1>2, EvolvedSelf

LEMMA JobIs ==
    ASSUME LearnInv, StudyAssumption, NEW j \in Requests, job[j] # None
    PROVE  /\ job[j] \in Preparations /\ Course(job[j]) /\ Measure(job[j]) /\ Books(job[j], j, quiz)
           /\ Preparations \cap {None} = {}
BY DEF LearnInv, GoodJobs, AtWork, StudyAssumption

\* A step of a job that changes nothing else.
LEMMA CutStep ==
    ASSUME LearnInv, StudyAssumption, NEW j \in Requests, NEW w \in Preparations, Course(w), Measure(w), Books(w, j, quiz),
           job[j] # None => w.op = job[j].op, \A p \in Plans : Pending(job[j], p) => Pending(w, p) \/ p \in killed' \/ ~ Waits(plan, p),
           Step(j, w), UNCHANGED <<plan, living, quiz>>, killed \subseteq killed'
    PROVE  LearnInv'
<1>0. GoodJobs(job) /\ AtWork(job, quiz) /\ Rooted(quiz, living, job) /\ Settled(plan, killed, job)
  BY DEF LearnInv
<1>1. job' = [job EXCEPT ![j] = w]
  BY DEF Step
<1>2. w # None
  BY DEF StudyAssumption
<1>3. GoodJobs(job')
  BY <1>0, <1>1, JobsOf
<1>4. AtWork(job', quiz')
  <2>1. AtWork([job EXCEPT ![j] = w], quiz)
    BY <1>0, QuizIs, WorkGoesOn
  <2>. QED
    BY <1>1, <2>1
<1>5. Rooted(quiz', living', job')
  <2>1. Rooted(quiz, living, [job EXCEPT ![j] = w])
    BY <1>0, <1>2, QuizIs, RootedStep
  <2>. QED
    BY <1>1, <2>1
<1>6. Settled(plan', killed', job')
  <2>1. \A p \in Plans : Waits(plan, p) =>
               \/ p \in killed' \/ Pending(w, p)
               \/ Waits(plan, p) /\ p \notin killed /\ ~ Pending(job[j], p)
    OBVIOUS
  <2>2. Settled(plan, killed', [job EXCEPT ![j] = w])
    BY <1>0, <2>1, SettledStep
  <2>. QED
    BY <1>1, <2>2
<1>7. GoodPlans(plan') /\ living' \subseteq Sentences /\ QuizTypes'
  BY DEF LearnInv, QuizTypes
<1>. QED
  BY <1>3, <1>4, <1>5, <1>6, <1>7 DEF LearnInv

LEMMA JobStep ==
    ASSUME LearnInv, StudyAssumption, NEW j \in Requests, NEW w \in Preparations, Course(w), Measure(w), Books(w, j, quiz),
           job[j] # None => w.op = job[j].op, \A p \in Plans : Pending(job[j], p) => Pending(w, p) \/ ~ Waits(plan, p),
           Step(j, w), UNCHANGED <<plan, living, quiz, killed>>
    PROVE  LearnInv'
<1>1. killed \subseteq killed' /\ \A p \in Plans : Pending(job[j], p) => Pending(w, p) \/ p \in killed' \/ ~ Waits(plan, p)
  OBVIOUS
<1>. QED
  BY <1>1, CutStep


---------------------------------------------------------------------------
(* The steps of a job.                                                          *)

LEMMA AskPrepareKeeps ==
    ASSUME StudyAssumption, LearnInv, NEW j \in Requests, AskPrepare(j) PROVE LearnInv'
<1>1. PICK batch \in Batches, want \in Wanted : Step(j, NewJob("prepare", "queue", batch, want, <<>>))
  BY DEF AskPrepare
<1> DEFINE w == NewJob("prepare", "queue", batch, want, <<>>)
<1>2. batch \in Seq(Plans) /\ batch # <<>> /\ want \in Nat \ {0}
  BY DEF StudyAssumption
<1>3. Course(w) /\ Measure(w)
  BY <1>2, AskPrepareSteps
<1>4. w.at = "queue" /\ w.made = {} /\ w.cover = {} /\ w.shown = <<>>
  BY DEF NewJob
<1>5. job[j] = None /\ UNCHANGED <<plan, living, quiz, killed>>
  BY DEF AskPrepare
<1>6. Step(j, w)
  BY <1>1
<1> HIDE DEF w
<1>7. w \in Preparations
  BY <1>3 DEF Course
<1>8. Books(w, j, quiz)
  BY <1>4, BooksOfNew DEF InPart
<1>9. \A p \in Plans : ~ Pending(job[j], p)
  BY <1>5 DEF Pending
<1>. QED
  BY <1>3, <1>5, <1>6, <1>7, <1>8, <1>9, JobStep

\* A plan changes its status.
LEMMA StatusKept ==
    ASSUME StudyAssumption, GoodPlans(plan), NEW ids,
           NEW state \in {"idle", "queued", "running", "ready", "exhausted", "failed"}, SetStatus(ids, state)
    PROVE  /\ GoodPlans(plan')
           /\ \A p \in Plans : Waits(plan', p) <=> plan[p] # None /\ (IF p \in ids THEN state ELSE plan[p].status) \in {"queued", "running"}
<1> DEFINE v(p) == IF p \in ids /\ plan[p] # None THEN [plan[p] EXCEPT !.status = state] ELSE plan[p]
<1>1. plan' = [p \in Plans |-> v(p)]
  BY DEF SetStatus
<1>2. ASSUME NEW p \in Plans
      PROVE  /\ v(p) \in SavedPlans \cup {None} /\ (v(p) = None <=> plan[p] = None)
             /\ v(p) # None => /\ v(p).types = plan[p].types /\ v(p).resources = plan[p].resources
                               /\ v(p).status = IF p \in ids THEN state ELSE plan[p].status
  <2>1. plan[p] \in SavedPlans \cup {None}
    BY DEF GoodPlans
  <2>2. CASE p \in ids /\ plan[p] # None
    <3> DEFINE u == [plan[p] EXCEPT !.status = state]
    <3>1. plan[p] \in SavedPlans /\ v(p) = u
      BY <2>1, <2>2
    <3>2. u \in SavedPlans /\ u.types = plan[p].types /\ u.resources = plan[p].resources /\ u.status = state
      BY <3>1 DEF SavedPlans
    <3>3. None \notin SavedPlans
      BY DEF StudyAssumption
    <3> HIDE DEF u
    <3>. QED
      BY <3>1, <3>2, <3>3, <2>2
  <2>3. CASE ~ (p \in ids /\ plan[p] # None)
    BY <2>1, <2>3
  <2>. QED
    BY <2>2, <2>3
<1>3. \A p \in Plans : plan'[p] = v(p)
  BY <1>1
<1> HIDE DEF v
<1>4. plan' \in [Plans -> SavedPlans \cup {None}]
  BY <1>1, <1>2
<1>5. \A p \in Plans : plan'[p] # None => GoodScope(plan'[p])
  BY <1>2, <1>3 DEF GoodPlans, GoodScope
<1>6. \A p \in Plans : Waits(plan', p) <=> plan[p] # None /\ (IF p \in ids THEN state ELSE plan[p].status) \in {"queued", "running"}
  BY <1>2, <1>3 DEF Waits
<1>. QED
  BY <1>4, <1>5, <1>6 DEF GoodPlans

\* A step of a job that changes the status of plans: those that wait are still waited for.
LEMMA StatusStep ==
    ASSUME LearnInv, StudyAssumption, NEW j \in Requests, NEW w \in Preparations, Course(w), Measure(w), Books(w, j, quiz),
           job[j] # None, w.op = job[j].op, Step(j, w), UNCHANGED <<living, quiz>>,
           NEW ids, NEW state \in {"idle", "queued", "running", "ready", "exhausted", "failed"}, SetStatus(ids, state),
           \A p \in Plans : plan[p] # None => CASE p \notin ids -> (Pending(job[j], p) => Pending(w, p)) /\ (p \in killed => p \in killed')
                                              [] OTHER -> state \in {"queued", "running"} => Pending(w, p) \/ p \in killed'
    PROVE  LearnInv'
<1>0. GoodPlans(plan) /\ GoodJobs(job) /\ AtWork(job, quiz) /\ Rooted(quiz, living, job) /\ Settled(plan, killed, job)
  BY DEF LearnInv
<1>1. job' = [job EXCEPT ![j] = w] /\ w # None
  BY DEF Step, StudyAssumption
<1>2. /\ GoodPlans(plan')
      /\ \A p \in Plans : Waits(plan', p) <=> plan[p] # None /\ (IF p \in ids THEN state ELSE plan[p].status) \in {"queued", "running"}
  BY <1>0, StatusKept
<1>3. GoodJobs(job')
  BY <1>0, <1>1, JobsOf
<1>4. AtWork(job', quiz')
  <2>1. AtWork([job EXCEPT ![j] = w], quiz)
    BY <1>0, QuizIs, WorkGoesOn
  <2>. QED
    BY <1>1, <2>1
<1>5. Rooted(quiz', living', job')
  <2>1. Rooted(quiz, living, [job EXCEPT ![j] = w])
    BY <1>0, <1>1, QuizIs, RootedStep
  <2>. QED
    BY <1>1, <2>1
<1>6. Settled(plan', killed', job')
  <2>1. ASSUME NEW p \in Plans, Waits(plan', p)
        PROVE  \/ p \in killed' \/ Pending(w, p)
               \/ Waits(plan, p) /\ p \notin killed /\ ~ Pending(job[j], p)
    <3>1. plan[p] # None /\ (IF p \in ids THEN state ELSE plan[p].status) \in {"queued", "running"}
      BY <1>2, <2>1
    <3>2. CASE p \in ids
      BY <3>1, <3>2
    <3>3. CASE p \notin ids
      <4>1. Waits(plan, p)
        BY <3>1, <3>3 DEF Waits
      <4>. QED
        BY <3>1, <3>3, <4>1
    <3>. QED
      BY <3>2, <3>3
  <2>2. Settled(plan', killed', [job EXCEPT ![j] = w])
    BY <1>0, <2>1, SettledStep
  <2>. QED
    BY <1>1, <2>2
<1>7. living' \subseteq Sentences /\ QuizTypes'
  BY DEF LearnInv, QuizTypes
<1>. QED
  BY <1>2, <1>3, <1>4, <1>5, <1>6, <1>7 DEF LearnInv

LEMMA EnqueueKeeps ==
    ASSUME StudyAssumption, LearnInv, NEW j \in Requests, Enqueue(j) PROVE LearnInv'
<1> DEFINE w == [job[j] EXCEPT !.at = "open"]
           ids == ToSet(job[j].plans)
<1>0. job[j] # None /\ job[j].at = "queue" /\ Step(j, w) /\ SetStatus(ids, "queued") /\ killed' = killed \ ids
      /\ UNCHANGED <<living, quiz>>
  BY DEF Enqueue, Stage
<1>1. job[j] \in Preparations /\ Course(job[j]) /\ Measure(job[j]) /\ Books(job[j], j, quiz)
  BY <1>0, JobIs
<1>2. job[j].op = "prepare"
  <2>1. job[j].op \in {"prepare", "recommend"}
    BY <1>1, Fields
  <2>. QED
    BY <1>0, <1>1, <2>1 DEF Course
<1>3. Course(w) /\ Measure(w)
  BY <1>0, <1>1, <1>2, MovesOn
<1>4. /\ w.op = "prepare" /\ w.at = "open" /\ w.plans = job[j].plans /\ w.made = job[j].made
      /\ w.cover = job[j].cover /\ w.shown = job[j].shown
  BY <1>1, <1>2 DEF Preparations
<1> HIDE DEF w
<1>5. w \in Preparations /\ w # None
  BY <1>3 DEF Course, StudyAssumption
<1>6. Books(w, j, quiz)
  BY <1>1, <1>2, <1>4, BooksMoved DEF InPart
<1>7. \A p \in Plans : ~ Pending(job[j], p) /\ (p \in ids => Pending(w, p))
  BY <1>0, <1>4, <1>5 DEF Pending
<1> HIDE DEF ids
<1>8. \A p \in Plans : plan[p] # None => CASE p \notin ids -> (Pending(job[j], p) => Pending(w, p)) /\ (p \in killed => p \in killed')
                                         [] OTHER -> "queued" \in {"queued", "running"} => Pending(w, p) \/ p \in killed'
  BY <1>0, <1>7
<1>. QED
  BY <1>0, <1>2, <1>3, <1>4, <1>5, <1>6, <1>8, StatusStep


LEMMA AskRecommendKeeps ==
    ASSUME StudyAssumption, LearnInv, NEW j \in Requests, AskRecommend(j) PROVE LearnInv'
<1>0. job[j] = None /\ UNCHANGED <<plan, living, quiz, killed>>
  BY DEF AskRecommend
<1>1. PICK p \in Plans, types \in {Types} \cup {{t} : t \in Types} :
        /\ plan[p] # None
        /\ LET w == plan[p]
               most == IF w.n > Len(w.types) THEN w.n ELSE Len(w.types)
               todo == AskedParts(w, most, types)
           IN  Step(j, NewJob("recommend", IF todo = <<>> THEN "end" ELSE "look", <<>>, most, todo))
  BY DEF AskRecommend, AskedParts, AskedCounts
<1> DEFINE s == plan[p]
           most == IF s.n > Len(s.types) THEN s.n ELSE Len(s.types)
           todo == AskedParts(s, most, types)
           w == NewJob("recommend", IF todo = <<>> THEN "end" ELSE "look", <<>>, most, todo)
<1>2. s \in SavedPlans /\ GoodScope(s)
  BY <1>1 DEF LearnInv, GoodPlans
<1>3. Step(j, w)
  BY <1>1
<1> HIDE DEF s
<1>4. most \in Nat
  <2>1. s.n \in Nat /\ s.types \in Seq(Types)
    BY <1>2 DEF SavedPlans
  <2>. QED
    BY <2>1
<1> HIDE DEF most
<1>5. todo \in Seq(PartsToFill) /\ Fits(todo, most, 0)
  BY <1>2, <1>4, AskedPartsAre
<1> HIDE DEF todo
<1>6. Course(w) /\ Measure(w)
  BY <1>4, <1>5, AskRecommendSteps
<1>7. w.at \in {"end", "look"} /\ w.made = {} /\ w.cover = {} /\ w.shown = <<>>
  BY DEF NewJob
<1> HIDE DEF w
<1>8. w \in Preparations
  BY <1>6 DEF Course
<1>9. Books(w, j, quiz)
  BY <1>7, BooksOfNew DEF InPart
<1>10. \A x \in Plans : ~ Pending(job[j], x)
  BY <1>0 DEF Pending
<1>. QED
  BY <1>0, <1>3, <1>6, <1>8, <1>9, <1>10, JobStep

LEMMA BatchIs ==
    ASSUME NEW plans \in Seq(Plans), plans # <<>>
    PROVE  /\ Head(plans) \in ToSet(plans) /\ Head(plans) \in Plans /\ ToSet(Tail(plans)) \subseteq ToSet(plans)
           /\ \A p \in ToSet(plans) : p = Head(plans) \/ p \in ToSet(Tail(plans))
           /\ \A p \in ToSet(Tail(plans)) : Len(plans) > 1
<1> DEFINE N == Len(plans)
           rest == Tail(plans)
<1>1. /\ N \in Nat \ {0} /\ DOMAIN plans = 1 .. N /\ DOMAIN rest = 1 .. N - 1 /\ Head(plans) = plans[1]
      /\ \A n \in 1 .. N - 1 : rest[n] = plans[n + 1]
  OBVIOUS
<1>2. ToSet(plans) = {plans[n] : n \in 1 .. N} /\ ToSet(rest) = {rest[n] : n \in 1 .. N - 1}
  BY <1>1 DEF ToSet
<1>3. \A n \in 1 .. N : plans[n] \in Plans
  BY <1>1
<1> HIDE DEF N, rest
<1>4. \A n \in 1 .. N : n = 1 \/ (n - 1 \in 1 .. N - 1 /\ (n - 1) + 1 = n)
  BY <1>1
<1>5. \A n \in 1 .. N - 1 : n + 1 \in 1 .. N /\ N > 1
  BY <1>1
<1>6. 1 \in 1 .. N
  BY <1>1
<1>7. Head(plans) \in ToSet(plans) /\ Head(plans) \in Plans
  BY <1>1, <1>2, <1>3, <1>6
<1>8. ToSet(rest) \subseteq ToSet(plans) /\ \A p \in ToSet(rest) : N > 1
  BY <1>1, <1>2, <1>5
<1>9. \A p \in ToSet(plans) : p = Head(plans) \/ p \in ToSet(rest)
  <2>. SUFFICES ASSUME NEW n \in 1 .. N PROVE plans[n] = Head(plans) \/ plans[n] \in ToSet(rest)
    BY <1>2
  <2>1. CASE n = 1
    BY <1>1, <2>1
  <2>2. CASE n - 1 \in 1 .. N - 1 /\ (n - 1) + 1 = n
    <3>1. rest[n - 1] = plans[n]
      BY <1>1, <2>2
    <3>. QED
      BY <1>2, <2>2, <3>1
  <2>. QED
    BY <1>4, <2>1, <2>2
<1>. QED
  BY <1>7, <1>8, <1>9 DEF N, rest

\* The next plan of a batch is waited for, and those after it.
LEMMA NextPlanIs ==
    ASSUME NEW w, Course(w), NEW j, NEW qs, Books(w, j, qs), w.op = "prepare", w.at # "end"
    PROVE  /\ NextPlan(w).op = "prepare" /\ Books(NextPlan(w), j, qs)
           /\ \A p \in ToSet(Tail(w.plans)) : NextPlan(w) # None => Pending(NextPlan(w), p)
<1> DEFINE at == IF Len(w.plans) > 1 THEN "open" ELSE "end"
           rest == Tail(w.plans)
           v == NextPlan(w)
<1>0. w \in Preparations /\ w.plans # <<>>
  BY DEF Course
<1>1. w.plans \in Seq(Plans)
  BY <1>0, Fields
<1>2. v = [w EXCEPT !.plans = rest, !.at = at]
  BY <1>0 DEF NextPlan, Preparations
<1>3. at \in {"open", "end"} /\ \A p \in ToSet(rest) : at = "open"
  BY <1>0, <1>1, BatchIs
<1> HIDE DEF at, rest, v
<1>4. v.op = w.op /\ v.plans = rest /\ v.at = at /\ v.made = w.made /\ v.cover = w.cover /\ v.shown = w.shown
  BY <1>0, <1>2 DEF Preparations
<1>5. Books(v, j, qs)
  BY <1>3, <1>4, BooksMoved DEF InPart
<1>6. \A p \in ToSet(rest) : v # None => Pending(v, p)
  BY <1>3, <1>4 DEF Pending
<1>. QED
  BY <1>4, <1>5, <1>6 DEF v, rest

\* Where a job has its plan before it, it is one that prepares.
LEMMA PreparesAt ==
    ASSUME NEW w, Course(w), w.at \in {"queue", "open", "count", "told"} PROVE w.op = "prepare"
<1>1. w.op \in {"prepare", "recommend"}
  BY Fields DEF Course
<1>. QED
  BY <1>1 DEF Course

LEMMA OpenKeeps ==
    ASSUME StudyAssumption, LearnInv, NEW j \in Requests, Open(j) PROVE LearnInv'
<1> DEFINE u == job[j]
           p == Head(u.plans)
<1>0. u # None /\ u.at = "open" /\ UNCHANGED <<living, killed>>
  BY DEF Open, Stage
<1>1. u \in Preparations /\ Course(u) /\ Measure(u) /\ Books(u, j, quiz)
  BY <1>0, JobIs
<1>2. u.op = "prepare" /\ u.plans # <<>> /\ u.plans \in Seq(Plans) /\ u.want \in Nat
  BY <1>0, <1>1, PreparesAt, Fields DEF Course
<1>3. /\ p \in ToSet(u.plans) /\ p \in Plans
      /\ \A x \in ToSet(u.plans) : x = p \/ x \in ToSet(Tail(u.plans))
  BY <1>2, BatchIs
<1>4. \A x : Pending(u, x) => x \in ToSet(u.plans)
  BY <1>0 DEF Pending
<1>5. CASE plan[p] = None
  <2> DEFINE w == NextPlan(u)
  <2>1. Step(j, w) /\ UNCHANGED <<plan, living, quiz, killed>>
    BY <1>0, <1>5 DEF Open
  <2>2. Course(w) /\ Measure(w)
    BY <1>0, <1>1, <1>2, MovesOn
  <2>3. w.op = u.op /\ Books(w, j, quiz) /\ \A x \in ToSet(Tail(u.plans)) : w # None => Pending(w, x)
    BY <1>0, <1>1, <1>2, NextPlanIs
  <2> HIDE DEF w
  <2>4. w \in Preparations /\ w # None
    BY <2>2 DEF Course, StudyAssumption
  <2>5. \A x \in Plans : Pending(u, x) => Pending(w, x) \/ ~ Waits(plan, x)
    BY <1>3, <1>4, <1>5, <2>3, <2>4 DEF Waits
  <2>. QED
    BY <2>1, <2>2, <2>3, <2>4, <2>5, JobStep
<1>6. CASE plan[p] # None
  <2> DEFINE scope == Scope(plan[p])
             before == CountPrepared(None, plan[p])
             todo == PrepareParts(scope, u.want)
             w == [u EXCEPT !.at = "fetch", !.plan = scope, !.before = before, !.todo = todo,
                            !.second = FALSE, !.why = "coverage", !.total = 0, !.calm = TRUE, !.outcome = None]
  <2>1. GoodScope(plan[p]) /\ plan[p] \in SavedPlans
    BY <1>3, <1>6 DEF LearnInv, GoodPlans
  <2>2. scope \in Scopes /\ scope.types = plan[p].types /\ scope.resources = plan[p].resources /\ GoodScope(scope)
    BY <2>1 DEF Scope, Scopes, GoodScope
  <2>3. Parts(scope) = Parts(plan[p])
    BY <2>2 DEF Parts
  <2>4. todo = LET parts == Parts(plan[p])
               IN  WithCounts(parts, [n \in DOMAIN parts |-> Share(u.want, Len(parts), n)])
    BY <2>3 DEF PrepareParts
  <2>5. before \in Nat
    <3>1. IsFiniteSet(DOMAIN quiz)
      BY QuizIs, FS_Interval
    <3>2. Valid(None) \subseteq DOMAIN quiz
      BY DEF Valid, Seen
    <3> DEFINE S == {q \in Valid(None) : /\ \E t \in ToSet(plan[p].types) : quiz[q].type = t
                                         /\ ResourceOf[quiz[q].target] \in ToSet(plan[p].resources)}
    <3>3. S \subseteq DOMAIN quiz
      BY <3>2
    <3>4. before = Cardinality(S)
      BY DEF CountPrepared
    <3> HIDE DEF S, before
    <3>5. IsFiniteSet(S)
      BY <3>1, <3>3, FS_Subset
    <3>. QED
      BY <3>4, <3>5, FS_CardinalityType
  <2>6. Step(j, w) /\ SetStatus({p}, "running") /\ quiz' = quiz
    BY <1>6, <2>4 DEF Open
  <2>7. scope # None
    <3>1. scope = [types |-> plan[p].types, resources |-> plan[p].resources]
      BY DEF Scope
    <3>. QED
      BY <2>2 DEF StudyAssumption
  <2> HIDE DEF scope, before, todo
  <2>8. todo = PrepareParts(scope, u.want)
    BY DEF todo
  <2>9. Course(w) /\ Measure(w)
    BY <1>0, <1>1, <1>2, <2>2, <2>5, <2>7, <2>8, OpenSteps
  <2>10. /\ w.op = u.op /\ w.at = "fetch" /\ w.plans = u.plans /\ w.made = u.made
         /\ w.cover = u.cover /\ w.shown = u.shown
    BY <1>1 DEF Preparations
  <2> HIDE DEF w
  <2>11. w \in Preparations /\ w # None
    BY <2>9 DEF Course, StudyAssumption
  <2>12. Books(w, j, quiz)
    BY <1>1, <2>10, BooksMoved DEF InPart
  <2>13. \A x \in ToSet(u.plans) : Pending(w, x)
    BY <1>2, <2>10, <2>11 DEF Pending
  <2>14. \A x \in Plans : plan[x] # None => CASE x \notin {p} -> (Pending(u, x) => Pending(w, x)) /\ (x \in killed => x \in killed')
                                          [] OTHER -> "running" \in {"queued", "running"} => Pending(w, x) \/ x \in killed'
    BY <1>0, <1>3, <1>4, <2>13
  <2>. QED
    BY <1>0, <2>6, <2>9, <2>10, <2>11, <2>12, <2>14, StatusStep
<1>. QED
  BY <1>5, <1>6


LEMMA FoundAre ==
    ASSUME QuizTypes, NEW j, NEW type, NEW r, NEW n \in Nat
    PROVE  LET found == Unattempted(j, type, r, n) IN
           found \in Seq(1 .. Len(quiz)) /\ Len(found) \in Nat /\ Len(found) <= n
<1> DEFINE ids == {q \in On(j, type, r) : quiz[q].attempts = 0 /\ ~Vague(q)}
           all == InOrder(ids)
           m == Min2(n, Len(all))
<1>1. quiz \in Seq(MadeQuizzes \cup {None}) /\ DOMAIN quiz = 1 .. Len(quiz)
  BY DEF QuizTypes
<1>2. ids \subseteq DOMAIN quiz
  BY DEF On, Valid, Seen
<1>3. Unattempted(j, type, r, n) = SubSeq(all, 1, m)
  BY DEF Unattempted
<1> HIDE DEF ids
<1>4. all \in Seq(ids)
  BY <1>1, <1>2, InOrderIs
<1> HIDE DEF all
<1>5. m \in Nat /\ m <= Len(all) /\ m <= n /\ Len(all) \in Nat
  BY <1>4 DEF Min2
<1> HIDE DEF m
<1>6. SubSeq(all, 1, m) \in Seq(ids) /\ Len(SubSeq(all, 1, m)) = m
  BY <1>4, <1>5
<1>7. SubSeq(all, 1, m) \in Seq(1 .. Len(quiz))
  BY <1>1, <1>2, <1>6
<1>. QED
  BY <1>3, <1>5, <1>6, <1>7

\* Only a preparation has plans before it.
LEMMA NoneWait == ASSUME NEW w, w.op = "recommend" PROVE \A p : ~ Pending(w, p)
BY DEF Pending

LEMMA ReviewKeeps ==
    ASSUME StudyAssumption, LearnInv, NEW j \in Requests, Review(j) PROVE LearnInv'
<1> DEFINE u == job[j]
           part == Head(u.todo)
           found == Unattempted(j, part.type, part.resource, part.n)
           more == [n \in DOMAIN found |-> [quiz |-> found[n], new |-> FALSE, round |-> u.round]]
           w == [u EXCEPT !.shown = u.shown \o more, !.need = part.n - Len(more), !.why = "review", !.at = "fetch"]
<1>0. u # None /\ u.at = "look" /\ UNCHANGED <<plan, living, quiz, killed>>
  BY DEF Review, Stage
<1>1. u \in Preparations /\ Course(u) /\ Measure(u) /\ Books(u, j, quiz)
  BY <1>0, JobIs
<1>2. /\ u.op = "recommend" /\ u.todo # <<>> /\ u.todo \in Seq(PartsToFill) /\ u.round \in Nat
      /\ u.shown \in Seq([quiz : Nat, new : BOOLEAN, round : Nat])
  <2>1. u.op \in {"prepare", "recommend"}
    BY <1>1, Fields
  <2>. QED
    BY <1>0, <1>1, <2>1, Fields DEF Course
<1>3. part.n \in Nat
  BY <1>2, HeadIs
<1> HIDE DEF part
<1>4. QuizTypes
  BY DEF LearnInv
<1>5. found \in Seq(1 .. Len(quiz)) /\ Len(found) \in Nat /\ Len(found) <= part.n
  BY <1>3, <1>4, FoundAre
<1> HIDE DEF found
<1>6. /\ more \in Seq([quiz : Nat, new : BOOLEAN, round : Nat]) /\ Len(more) = Len(found)
      /\ \A n \in DOMAIN more : more[n].quiz \in 1 .. Len(quiz) /\ ~ more[n].new
  <2>0. DOMAIN found = 1 .. Len(found) /\ \A n \in 1 .. Len(found) : found[n] \in 1 .. Len(quiz)
    BY <1>5
  <2>1. \A n \in 1 .. Len(found) : [quiz |-> found[n], new |-> FALSE, round |-> u.round] \in [quiz : Nat, new : BOOLEAN, round : Nat]
    BY <1>2, <2>0
  <2>2. DOMAIN more = 1 .. Len(found) /\ \A n \in 1 .. Len(found) :
            more[n] = [quiz |-> found[n], new |-> FALSE, round |-> u.round]
    BY <2>0
  <2>3. more \in [1 .. Len(found) -> [quiz : Nat, new : BOOLEAN, round : Nat]]
    BY <2>0, <2>1, <2>2
  <2>4. \A n \in DOMAIN more : more[n].quiz \in 1 .. Len(quiz) /\ ~ more[n].new
    BY <2>0, <2>2
  <2> DEFINE E == [quiz : Nat, new : BOOLEAN, round : Nat]
  <2>5. more \in [1 .. Len(found) -> E]
    BY <2>3
  <2> HIDE DEF more, E
  <2>6. more \in Seq(E) /\ Len(more) = Len(found)
    BY <1>5, <2>5
  <2>. QED
    BY <2>4, <2>6, Zenon DEF E
<1>7. Step(j, w)
  <2>1. Step(j, [u EXCEPT !.shown = @ \o more, !.need = part.n - Len(found), !.why = "review", !.at = "fetch"])
    BY DEF Review, part, found
  <2> HIDE DEF more
  <2>2. [u EXCEPT !.shown = @ \o more, !.need = part.n - Len(found), !.why = "review", !.at = "fetch"] = w
    BY <1>1, <1>6 DEF Preparations
  <2>. QED
    BY <2>1, <2>2
<1> HIDE DEF more
<1>8. Course(w) /\ Measure(w)
  BY <1>0, <1>1, <1>5, <1>6, ReviewSteps DEF part
<1>9. w.op = u.op /\ w.at = "fetch" /\ w.made = u.made /\ w.cover = u.cover /\ w.shown = u.shown \o more
  BY <1>1 DEF Preparations
<1> HIDE DEF w
<1>10. w \in Preparations
  BY <1>8 DEF Course
<1>11. Books(w, j, quiz)
  BY <1>1, <1>2, <1>6, <1>9, BooksShown DEF InPart
<1>12. \A p \in Plans : ~ Pending(u, p)
  BY <1>2, NoneWait
<1>. QED
  BY <1>0, <1>7, <1>8, <1>9, <1>10, <1>11, <1>12, JobStep

\* A preparation that works keeps its plans.
LEMMA KeepsPlans ==
    ASSUME NEW u, NEW w, w # None, w.op = u.op, w.plans = u.plans,
           w.op = "prepare" => w.at \in {"open", "fetch", "draw", "create", "count"},
           u.at # "told"
    PROVE  \A p : Pending(u, p) => Pending(w, p)
BY DEF Pending

LEMMA NeededIs == ASSUME NEW w, Course(w), Measure(w), w.at = "fetch" PROVE Needed(w) \in Nat
<1>1. /\ w \in Preparations /\ w.todo # <<>> /\ w.todo \in Seq(PartsToFill) /\ w.want \in Nat /\ w.total \in Nat
      /\ w.need \in Nat /\ w.op \in {"prepare", "recommend"} /\ Done(w) <= w.want
  BY Fields DEF Course, Measure
<1>2. Head(w.todo).n \in Nat
  BY <1>1, HeadIs
<1>. QED
  BY <1>1, <1>2 DEF Needed, Remaining, Done

LEMMA FetchKeeps ==
    ASSUME StudyAssumption, LearnInv, NEW j \in Requests, Fetch(j) PROVE LearnInv'
<1> DEFINE u == job[j]
           part == Head(u.todo)
           n == Needed(u)
           excluded == IF u.op = "recommend" THEN Excluded(u) ELSE {}
<1>0. u # None /\ u.at = "fetch" /\ UNCHANGED <<plan, living, quiz, killed>>
  BY DEF Fetch, Stage
<1>1. u \in Preparations /\ Course(u) /\ Measure(u) /\ Books(u, j, quiz)
  BY <1>0, JobIs
<1>2. u.op \in {"prepare", "recommend"} /\ n \in Nat
  BY <1>0, <1>1, Fields, NeededIs
<1>3. QuizTypes /\ living \subseteq Sentences
  BY DEF LearnInv
<1>4. PICK list \in Lists(Tx(u, j), part.type, part.resource, u.why, excluded, n) :
         Step(j, [u EXCEPT !.list = list, !.need = n, !.made = {}, !.at = "draw"])
  BY DEF Fetch
<1> DEFINE w == [u EXCEPT !.list = list, !.need = n, !.made = {}, !.at = "draw"]
<1>5. /\ list \in Seq(Sentences \X (Sentences \cup {None}))
      /\ \A k \in DOMAIN list : list[k] \in Pool(Tx(u, j), part.type, part.resource, u.why, excluded)
  <2> HIDE DEF n, excluded, part, u
  <2>. QED
    BY <1>2, <1>3, ListsAre
<1>6. Course(w) /\ Measure(w)
  BY <1>0, <1>1, <1>5, FetchSteps
<1>7. /\ w.op = u.op /\ w.at = "draw" /\ w.made = {} /\ w.cover = u.cover /\ w.shown = u.shown /\ w.plans = u.plans
      /\ w.why = u.why /\ w.todo = u.todo /\ w.round = u.round /\ w.list = list
  BY <1>1 DEF Preparations
<1>8. Step(j, w)
  BY <1>4
<1> HIDE DEF w, n
<1>9. w \in Preparations /\ w # None
  BY <1>6 DEF Course, StudyAssumption
<1>10. Books(w, j, quiz)
  <2>1. \A k \in DOMAIN w.list : w.list[k] \in
            Pool(Tx(u, j), Head(u.todo).type, Head(u.todo).resource, u.why, IF u.op = "recommend" THEN Excluded(u) ELSE {})
    BY <1>5, <1>7
  <2> HIDE DEF u
  <2>. QED
    BY <2>1, <1>1, <1>2, <1>3, <1>7, FetchBooks
<1>11. \A p \in Plans : Pending(u, p) => Pending(w, p)
  BY <1>0, <1>7, <1>9, KeepsPlans
<1>. QED
  BY <1>0, <1>6, <1>7, <1>8, <1>9, <1>10, <1>11, JobStep

LEMMA AdvanceIs ==
    ASSUME NEW j, NEW w \in Preparations, NEW rest
    PROVE  LET v == Advance(j, w, rest) IN
           /\ v.op = w.op /\ v.plans = w.plans /\ v.cover = w.cover /\ v.shown = w.shown /\ v.made \subseteq w.made
           /\ v.at \in {"look", "fetch", "end", "count"}
           /\ w.op = "prepare" => v.at \in {"fetch", "count"}
BY DEF Advance, Preparations

LEMMA PartDoneKeeps ==
    ASSUME StudyAssumption, LearnInv, NEW j \in Requests, PartDone(j) PROVE LearnInv'
<1> DEFINE u == job[j]
           enough == Cardinality(u.made) = u.need
<1>0. u # None /\ u.at = "draw" /\ UNCHANGED <<plan, living, quiz, killed>>
  BY DEF PartDone, Stage
<1>1. u \in Preparations /\ Course(u) /\ Measure(u) /\ Books(u, j, quiz)
  BY <1>0, JobIs
<1>2. ASSUME NEW w, Step(j, w), Course(w), Measure(w), w.op = u.op, w.plans = u.plans, w.cover = u.cover,
             w.shown = u.shown, w.made \subseteq u.made, w.at \in {"look", "fetch", "end", "count"},
             w.op = "prepare" => w.at \in {"fetch", "count"}
      PROVE  LearnInv'
  <2>1. w \in Preparations /\ w # None
    BY <1>2 DEF Course, StudyAssumption
  <2>2. Books(w, j, quiz)
    BY <1>1, <1>2, BooksMoved DEF InPart
  <2>3. \A p \in Plans : Pending(u, p) => Pending(w, p)
    BY <1>0, <1>2, <2>1, KeepsPlans
  <2>. QED
    BY <1>0, <1>2, <2>1, <2>2, <2>3, JobStep
<1>3. CASE u.op = "recommend" /\ u.why = "review" /\ ~ enough
  <2> DEFINE need == u.need - Cardinality(u.made)
             w == [u EXCEPT !.why = "coverage", !.need = need, !.at = "fetch"]
  <2>1. Step(j, w)
    <3>1. Step(j, [u EXCEPT !.why = "coverage", !.need = @ - Cardinality(u.made), !.at = "fetch"])
      BY <1>3 DEF PartDone
    <3>2. [u EXCEPT !.why = "coverage", !.need = @ - Cardinality(u.made), !.at = "fetch"] = w
      BY <1>1 DEF Preparations
    <3>. QED
      BY <3>1, <3>2
  <2>2. Course(w) /\ Measure(w)
    BY <1>0, <1>1, <1>3, FillsUp
  <2> HIDE DEF need
  <2>3. /\ w.op = u.op /\ w.plans = u.plans /\ w.cover = u.cover /\ w.shown = u.shown /\ w.made = u.made
        /\ w.at = "fetch"
    BY <1>1 DEF Preparations
  <2> HIDE DEF w
  <2>. QED
    BY <1>2, <1>3, <2>1, <2>2, <2>3
<1>4. CASE ~ (u.op = "recommend" /\ u.why = "review" /\ ~ enough)
           /\ u.op = "prepare" /\ Remaining(u) > 0 /\ ~ u.second /\ Len(u.todo) = 1
  <2> DEFINE todo == SecondParts(u.plan)
             w == [u EXCEPT !.second = TRUE, !.todo = todo, !.list = <<>>, !.made = {}, !.at = "fetch"]
  <2>1. Step(j, w)
    BY <1>4 DEF PartDone, SecondParts
  <2>2. Course(w) /\ Measure(w)
    BY <1>0, <1>1, <1>4, SecondRound
  <2> HIDE DEF todo
  <2>3. /\ w.op = u.op /\ w.plans = u.plans /\ w.cover = u.cover /\ w.shown = u.shown /\ w.made = {}
        /\ w.at = "fetch"
    BY <1>1 DEF Preparations
  <2> HIDE DEF w
  <2>. QED
    BY <1>2, <2>1, <2>2, <2>3
<1>5. CASE ~ (u.op = "recommend" /\ u.why = "review" /\ ~ enough)
           /\ ~ (u.op = "prepare" /\ Remaining(u) > 0 /\ ~ u.second /\ Len(u.todo) = 1)
  <2> DEFINE rest == IF u.second /\ Remaining(u) = 0 THEN <<>> ELSE Tail(u.todo)
             w == Advance(j, u, rest)
  <2>1. Step(j, w)
    BY <1>5, Zenon DEF PartDone
  <2>2. rest \in {Tail(u.todo), <<>>}
    OBVIOUS
  <2> HIDE DEF rest
  <2>3. Course(w) /\ Measure(w)
    BY <1>0, <1>1, <2>2, AdvanceSteps
  <2>4. /\ w.op = u.op /\ w.plans = u.plans /\ w.cover = u.cover /\ w.shown = u.shown /\ w.made \subseteq u.made
        /\ w.at \in {"look", "fetch", "end", "count"}
        /\ u.op = "prepare" => w.at \in {"fetch", "count"}
    BY <1>1, AdvanceIs
  <2> HIDE DEF w
  <2>. QED
    BY <1>2, <2>1, <2>3, <2>4
<1>. QED
  BY <1>3, <1>4, <1>5, Zenon


LEMMA DrawKeeps ==
    ASSUME StudyAssumption, LearnInv, NEW j \in Requests, Draw(j) PROVE LearnInv'
<1> DEFINE u == job[j]
           skipped == Skipped(u)
           first == CHOOSE n \in 1 .. (Len(u.list) + 1) : n \notin skipped /\ 1 .. (n - 1) \subseteq skipped
           at == IF first > Len(u.list) THEN "draw" ELSE "create"
           w == [u EXCEPT !.list = SubSeq(@, first, Len(@)), !.at = at]
<1>0. /\ u # None /\ u.at = "draw" /\ UNCHANGED <<plan, living, quiz, killed>>
      /\ u.list # <<>> /\ Cardinality(u.made) < u.need /\ Step(j, w)
  BY DEF Draw, Stage, Skipped
<1>1. u \in Preparations /\ Course(u) /\ Measure(u) /\ Books(u, j, quiz)
  BY <1>0, JobIs
<1>2. u.list \in Seq(Sentences \X (Sentences \cup {None}))
  BY <1>1, Fields
<1>3. Len(u.list) \in Nat /\ DOMAIN u.list = 1 .. Len(u.list)
  BY <1>2
<1>4. first \in 1 .. (Len(u.list) + 1) /\ first \notin skipped
  <2>1. skipped \subseteq 1 .. Len(u.list)
    BY <1>3 DEF Skipped
  <2> HIDE DEF skipped, u
  <2>. QED
    BY <1>3, <2>1, FirstIs
<1> HIDE DEF first
<1>5. Course(w) /\ Measure(w)
  BY <1>0, <1>1, <1>4, DrawSteps
<1> DEFINE list == SubSeq(u.list, first, Len(u.list))
<1>6. /\ \A k \in DOMAIN list : \E m \in DOMAIN u.list : list[k] = u.list[m]
      /\ first <= Len(u.list) => Head(list) = u.list[first]
  <2>1. DOMAIN list = 1 .. (Len(u.list) + 1 - first) /\ \A k \in 1 .. (Len(u.list) + 1 - first) : list[k] = u.list[first + k - 1]
    BY <1>2, <1>3, <1>4
  <2>2. \A k \in 1 .. (Len(u.list) + 1 - first) : first + k - 1 \in 1 .. Len(u.list)
    BY <1>3, <1>4
  <2>3. first <= Len(u.list) => 1 \in 1 .. (Len(u.list) + 1 - first) /\ first + 1 - 1 = first
    BY <1>3, <1>4
  <2>4. first <= Len(u.list) => Head(list) = list[1]
    <3>1. list \in Seq(Sentences \X (Sentences \cup {None}))
      BY <1>2, <1>3, <1>4
    <3> HIDE DEF list
    <3>. QED
      BY <3>1
  <2> HIDE DEF list, u
  <2>5. \A k \in DOMAIN list : \E m \in DOMAIN u.list : list[k] = u.list[m]
    BY <1>3, <2>1, <2>2
  <2>6. first <= Len(u.list) => Head(list) = u.list[first]
    BY <2>1, <2>3, <2>4
  <2>. QED
    BY <2>5, <2>6
<1>7. at \in {"draw", "create"} /\ (at = "create" => first \in DOMAIN u.list /\ first <= Len(u.list))
  BY <1>3, <1>4
<1>8. at = "create" => \A q \in u.made : quiz[q] # None => quiz[q].target # u.list[first][1]
  BY <1>4, <1>7 DEF Skipped, Again
<1>9. /\ w.op = u.op /\ w.at = at /\ w.plans = u.plans /\ w.made = u.made /\ w.cover = u.cover /\ w.shown = u.shown
      /\ w.why = u.why /\ w.todo = u.todo /\ w.round = u.round /\ w.list = list
  BY <1>1 DEF Preparations
<1> HIDE DEF w, list, at
<1>10. w \in Preparations /\ w # None
  BY <1>5 DEF Course, StudyAssumption
<1>11. Books(w, j, quiz)
  <2>1. \A k \in DOMAIN w.list : \E m \in DOMAIN u.list : w.list[k] = u.list[m]
    BY <1>6, <1>9
  <2>2. w.at = "create" => \A q \in u.made : quiz[q] # None => quiz[q].target # Head(w.list)[1]
    BY <1>6, <1>7, <1>8, <1>9
  <2> HIDE DEF u
  <2>. QED
    BY <2>1, <2>2, <1>0, <1>1, <1>7, <1>9, DrawBooks
<1>12. \A p \in Plans : Pending(u, p) => Pending(w, p)
  BY <1>0, <1>7, <1>9, <1>10, KeepsPlans
<1>. QED
  BY <1>0, <1>5, <1>9, <1>10, <1>11, <1>12, JobStep

LEMMA CreateKeeps ==
    ASSUME StudyAssumption, LearnInv, NEW j \in Requests, Create(j) PROVE LearnInv'
<1> DEFINE u == job[j]
           id == Len(quiz) + 1
           new == [type |-> Head(u.todo).type, target |-> Head(u.list)[1], broken |-> FALSE, vague |-> FALSE,
                   attempts |-> 0, corrects |-> 0, tx |-> Tx(u, j)]
           w == Created(u, id)
<1>0. /\ u # None /\ u.at = "create" /\ UNCHANGED <<plan, living, killed>> /\ Len(quiz) < MaxQuizzes
      /\ Head(u.list)[1] \in living /\ quiz' = Append(quiz, new) /\ Step(j, w)
  BY DEF Create, Stage, Created
<1>1. u \in Preparations /\ Course(u) /\ Measure(u) /\ Books(u, j, quiz)
  BY <1>0, JobIs
<1>2. /\ u.todo # <<>> /\ u.todo \in Seq(PartsToFill) /\ u.list # <<>> /\ u.op \in {"prepare", "recommend"}
      /\ u.list \in Seq(Sentences \X (Sentences \cup {None})) /\ u.round \in Nat
      /\ u.shown \in Seq([quiz : Nat, new : BOOLEAN, round : Nat])
  BY <1>0, <1>1, Fields DEF Course
<1>3. /\ quiz \in Seq(MadeQuizzes \cup {None}) /\ Len(quiz) \in Nat /\ DOMAIN quiz = 1 .. Len(quiz)
      /\ \A q \in 1 .. Len(quiz) : quiz[q] \in MadeQuizzes \cup {None} /\ (quiz[q] # None => quiz[q] \in MadeQuizzes)
  BY QuizIs
<1>4. Head(u.todo).type \in Types /\ Tx(u, j) \in Requests \cup {None} /\ living \subseteq Sentences
  BY <1>2, HeadIs DEF Tx, LearnInv
<1>5. new \in MadeQuizzes /\ new # None
  <2>1. Head(u.list)[1] \in Sentences
    BY <1>0, <1>4
  <2> DEFINE type == Head(u.todo).type
             about == Head(u.list)[1]
             owner == Tx(u, j)
  <2>2. type \in Types /\ about \in Sentences /\ owner \in Requests \cup {None}
    BY <2>1, <1>4
  <2> HIDE DEF type, about, owner
  <2>3. new = [type |-> type, target |-> about, broken |-> FALSE, vague |-> FALSE, attempts |-> 0, corrects |-> 0, tx |-> owner]
    BY DEF type, about, owner
  <2> HIDE DEF new
  <2>4. new \in MadeQuizzes
    BY <2>2, <2>3 DEF MadeQuizzes
  <2>. QED
    BY <2>4 DEF StudyAssumption
<1>6. new.type = Head(u.todo).type /\ new.target = Head(u.list)[1] /\ new.tx = Tx(u, j) /\ new.corrects <= new.attempts
      /\ ~ new.broken
  OBVIOUS
<1> HIDE DEF new
<1>7. /\ quiz' \in Seq(MadeQuizzes \cup {None}) /\ Len(quiz') = id /\ quiz'[id] = new /\ DOMAIN quiz' = 1 .. id
      /\ \A q \in 1 .. Len(quiz) : quiz'[q] = quiz[q]
  BY <1>0, <1>3, <1>5
<1>8. id \in Nat /\ id \in 1 .. id /\ id \notin 1 .. Len(quiz) /\ \A q \in 1 .. id : q \in 1 .. Len(quiz) \/ q = id
  BY <1>3
<1>9. QuizTypes'
  <2>1. Len(quiz') <= MaxQuizzes
    BY <1>0, <1>3, <1>7 DEF StudyAssumption
  <2>2. \A q \in DOMAIN quiz' : quiz'[q] # None => quiz'[q].corrects <= quiz'[q].attempts
    <3>1. \A q \in 1 .. Len(quiz) : quiz[q] # None => quiz[q].corrects <= quiz[q].attempts
      BY <1>3 DEF LearnInv, QuizTypes
    <3> HIDE DEF id
    <3>. QED
      BY <1>6, <1>7, <1>8, <3>1
  <2>. QED
    BY <1>7, <2>1, <2>2 DEF QuizTypes
<1>10. Evolved(quiz, quiz')
  <2>1. Len(quiz) <= Len(quiz') /\ Len(quiz') \in Nat
    BY <1>3, <1>7
  <2>2. \A q \in 1 .. Len(quiz) : quiz'[q] # None =>
          /\ quiz[q] # None /\ quiz'[q].type = quiz[q].type /\ quiz'[q].target = quiz[q].target
          /\ (quiz[q].broken => quiz'[q].broken) /\ quiz'[q].tx \in {quiz[q].tx, None}
    BY <1>7
  <2>. QED
    BY <1>3, <2>1, <2>2 DEF Evolved
<1>11. id \notin u.made
  BY <1>1, <1>8 DEF Books, Owned
<1> HIDE DEF id
<1>12. Course(w) /\ Measure(w)
  BY <1>0, <1>1, <1>8, <1>11, CreateSteps
<1>13. MadeOne(u, id, w)
  BY <1>0, <1>1, <1>8, CreateFields
<1> HIDE DEF w, u
<1>14. w \in Preparations /\ w # None /\ w.op = u.op /\ w.plans = u.plans /\ w.at = "draw"
  BY <1>12, <1>13 DEF Course, StudyAssumption, MadeOne
<1>15. Books(w, j, quiz')
  <2>1. Books(u, j, quiz')
    BY <1>1, <1>10, UnmovedSelf, BooksKept
  <2>2. Len(quiz') \in Nat /\ id \in 1 .. Len(quiz')
    BY <1>7, <1>8
  <2>3. quiz'[id].tx = Tx(u, j) /\ quiz'[id].type = Head(u.todo).type /\ quiz'[id].target = Head(u.list)[1]
    BY <1>6, <1>7
  <2>. QED
    BY <1>0, <1>2, <1>13, <2>1, <2>2, <2>3, CreateBooks
<1>16. GoodJobs(job) /\ AtWork(job, quiz) /\ Rooted(quiz, living, job) /\ Settled(plan, killed, job) /\ GoodPlans(plan)
  BY DEF LearnInv
<1>17. job' = [job EXCEPT ![j] = w]
  BY <1>0 DEF Step
<1>18. GoodJobs(job') /\ job'[j] = w
  BY <1>14, <1>16, <1>17 DEF GoodJobs
<1>19. AtWork(job', quiz')
  <2>1. AtWork([job EXCEPT ![j] = w], quiz')
    BY <1>10, <1>12, <1>14, <1>15, <1>16, WorkGoesOn
  <2>. QED
    BY <1>17, <2>1
<1>20. Rooted(quiz', living', job')
  <2>1. Rooted(quiz, living, [job EXCEPT ![j] = w])
    BY <1>3, <1>14, <1>16, RootedStep DEF u
  <2>2. Rooted(quiz, living, job')
    BY <1>17, <2>1
  <2>3. \A q \in 1 .. Len(quiz) : quiz'[q] # None =>
          /\ quiz'[q].broken \/ quiz'[q].target \in living
          /\ quiz'[q].tx # None => job'[quiz'[q].tx] # None /\ job'[quiz'[q].tx].op = "recommend"
    BY <1>7, <2>2 DEF Rooted
  <2>4. /\ quiz'[id].target \in living
        /\ quiz'[id].tx # None => job'[quiz'[id].tx] # None /\ job'[quiz'[id].tx].op = "recommend"
    <3>1. quiz'[id].target \in living
      BY <1>0, <1>6, <1>7
    <3>2. quiz'[id].tx = IF u.op = "recommend" THEN j ELSE None
      BY <1>6, <1>7 DEF Tx
    <3>. QED
      BY <3>1, <3>2, <1>14, <1>18
  <2>5. living' = living
    BY <1>0
  <2>. QED
    BY <1>7, <1>8, <2>3, <2>4, <2>5 DEF Rooted
<1>21. Settled(plan', killed', job')
  <2>1. \A p \in Plans : Pending(job[j], p) => Pending(w, p)
    BY <1>0, <1>14, KeepsPlans DEF u
  <2>2. \A p \in Plans : Waits(plan, p) =>
               \/ p \in killed \/ Pending(w, p)
               \/ Waits(plan, p) /\ p \notin killed /\ ~ Pending(job[j], p)
    BY <2>1
  <2>3. Settled(plan, killed, [job EXCEPT ![j] = w])
    BY <1>14, <1>16, <2>2, SettledStep
  <2>. QED
    BY <1>0, <1>17, <2>3
<1>. QED
  BY <1>0, <1>4, <1>9, <1>16, <1>18, <1>19, <1>20, <1>21 DEF LearnInv

LEMMA CountKeeps ==
    ASSUME StudyAssumption, LearnInv, NEW j \in Requests, Count(j) PROVE LearnInv'
<1> DEFINE u == job[j]
           p == Head(u.plans)
           now == IF plan[p] = None THEN 0 ELSE CountPrepared(None, plan[p])
           outcome == IF now >= u.before + u.want THEN "ready" ELSE "exhausted"
           w == [u EXCEPT !.outcome = outcome, !.at = "told"]
<1>0. /\ u # None /\ u.at = "count" /\ UNCHANGED <<living, quiz, killed>>
      /\ SetStatus({p}, outcome) /\ Step(j, w)
  BY DEF Count, Stage
<1> HIDE DEF now
<1>00. outcome \in {"ready", "exhausted"}
  OBVIOUS
<1> HIDE DEF outcome
<1>1. u \in Preparations /\ Course(u) /\ Measure(u) /\ Books(u, j, quiz)
  BY <1>0, JobIs
<1>2. u.op = "prepare" /\ u.plans # <<>> /\ u.plans \in Seq(Plans)
  BY <1>0, <1>1, PreparesAt, Fields DEF Course
<1>3. \A x \in ToSet(u.plans) : x = p \/ x \in ToSet(Tail(u.plans))
  BY <1>2, BatchIs
<1>4. Course(w) /\ Measure(w)
  BY <1>0, <1>00, <1>1, <1>2, MovesOn
<1>5. w.op = u.op /\ w.plans = u.plans /\ w.at = "told" /\ w.made = u.made /\ w.cover = u.cover /\ w.shown = u.shown
  BY <1>1 DEF Preparations
<1> HIDE DEF w
<1>6. w \in Preparations /\ w # None
  BY <1>4 DEF Course, StudyAssumption
<1>7. Books(w, j, quiz)
  BY <1>1, <1>5, BooksMoved DEF InPart
<1>8. \A x \in Plans : Pending(u, x) => x = p \/ Pending(w, x)
  BY <1>0, <1>2, <1>3, <1>5, <1>6 DEF Pending
<1>9. \A x \in Plans : plan[x] # None => CASE x \notin {p} -> (Pending(u, x) => Pending(w, x)) /\ (x \in killed => x \in killed')
                                         [] OTHER -> outcome \in {"queued", "running"} => Pending(w, x) \/ x \in killed'
  BY <1>0, <1>00, <1>8
<1>. QED
  BY <1>0, <1>00, <1>4, <1>5, <1>6, <1>7, <1>9, StatusStep

LEMMA TellKeeps ==
    ASSUME StudyAssumption, LearnInv, NEW j \in Requests, Tell(j) PROVE LearnInv'
<1> DEFINE u == job[j]
           w == NextPlan(u)
<1>0. u # None /\ u.at = "told" /\ UNCHANGED <<plan, living, quiz, killed>> /\ Step(j, w)
  BY DEF Tell, Stage
<1>1. u \in Preparations /\ Course(u) /\ Measure(u) /\ Books(u, j, quiz)
  BY <1>0, JobIs
<1>2. u.op = "prepare"
  BY <1>0, <1>1, PreparesAt
<1>3. Course(w) /\ Measure(w)
  BY <1>0, <1>1, <1>2, MovesOn
<1>4. w.op = u.op /\ Books(w, j, quiz) /\ \A x \in ToSet(Tail(u.plans)) : w # None => Pending(w, x)
  BY <1>0, <1>1, <1>2, NextPlanIs
<1> HIDE DEF w
<1>5. w \in Preparations /\ w # None
  BY <1>3 DEF Course, StudyAssumption
<1>6. \A x \in Plans : Pending(u, x) => Pending(w, x)
  BY <1>0, <1>4, <1>5 DEF Pending
<1>. QED
  BY <1>0, <1>3, <1>4, <1>5, <1>6, JobStep


\* Quizzes change and none is added.
LEMMA QuizzesChange ==
    ASSUME LearnInv, quiz' \in [DOMAIN quiz -> MadeQuizzes \cup {None}],
           \A q \in 1 .. Len(quiz) : quiz'[q] # None =>
               /\ quiz[q] # None /\ quiz'[q].type = quiz[q].type /\ quiz'[q].target = quiz[q].target
               /\ (quiz[q].broken => quiz'[q].broken) /\ quiz'[q].tx \in {quiz[q].tx, None}
               /\ quiz'[q].corrects <= quiz'[q].attempts
    PROVE  QuizTypes' /\ Evolved(quiz, quiz') /\ Len(quiz') = Len(quiz) /\ DOMAIN quiz' = 1 .. Len(quiz)
<1>1. quiz \in Seq(MadeQuizzes \cup {None}) /\ Len(quiz) \in Nat
  BY QuizIs
<1>2. quiz' \in Seq(MadeQuizzes \cup {None}) /\ Len(quiz') = Len(quiz) /\ DOMAIN quiz' = 1 .. Len(quiz)
  BY <1>1, SameQuizzes
<1>3. Len(quiz') <= MaxQuizzes
  BY <1>2 DEF LearnInv, QuizTypes
<1>4. \A q \in DOMAIN quiz' : quiz'[q] # None => quiz'[q].corrects <= quiz'[q].attempts
  BY <1>2
<1>5. Evolved(quiz, quiz')
  <2>1. Len(quiz) <= Len(quiz') /\ Len(quiz') \in Nat
    BY <1>1, <1>2
  <2>. QED
    BY <1>1, <2>1 DEF Evolved
<1>. QED
  BY <1>2, <1>3, <1>4, <1>5 DEF QuizTypes

\* A job is over: what it made is committed or taken back, and it holds up no plan.
LEMMA JobEnds ==
    ASSUME StudyAssumption, LearnInv, NEW j \in Requests, Step(j, None), UNCHANGED living, GoodPlans(plan'),
           killed \subseteq killed',
           \A p \in Plans : Waits(plan', p) => Waits(plan, p) /\ (Pending(job[j], p) => p \in killed'),
           quiz' \in [DOMAIN quiz -> MadeQuizzes \cup {None}],
           \A q \in 1 .. Len(quiz) :
               \/ quiz'[q] = quiz[q] /\ (quiz[q] # None => quiz[q].tx # j)
               \/ quiz[q] # None /\ quiz[q].tx = j /\ quiz'[q] \in {None, [quiz[q] EXCEPT !.tx = None]}
    PROVE  LearnInv'
<1>0. /\ GoodPlans(plan) /\ GoodJobs(job) /\ AtWork(job, quiz) /\ Rooted(quiz, living, job)
      /\ Settled(plan, killed, job) /\ living \subseteq Sentences
  BY DEF LearnInv
<1>1. /\ quiz \in Seq(MadeQuizzes \cup {None}) /\ Len(quiz) \in Nat /\ DOMAIN quiz = 1 .. Len(quiz)
      /\ \A q \in 1 .. Len(quiz) : quiz[q] # None => quiz[q] \in MadeQuizzes
  BY QuizIs
<1>2. \A q \in 1 .. Len(quiz) : quiz'[q] # None =>
         /\ quiz[q] # None /\ quiz'[q].type = quiz[q].type /\ quiz'[q].target = quiz[q].target
         /\ quiz'[q].broken = quiz[q].broken /\ quiz'[q].tx \in {quiz[q].tx, None} /\ quiz'[q].tx # j
         /\ quiz'[q].corrects = quiz[q].corrects /\ quiz'[q].attempts = quiz[q].attempts
  <2>. SUFFICES ASSUME NEW q \in 1 .. Len(quiz), quiz'[q] # None
                PROVE  /\ quiz[q] # None /\ quiz'[q].type = quiz[q].type /\ quiz'[q].target = quiz[q].target
                       /\ quiz'[q].broken = quiz[q].broken /\ quiz'[q].tx \in {quiz[q].tx, None} /\ quiz'[q].tx # j
                       /\ quiz'[q].corrects = quiz[q].corrects /\ quiz'[q].attempts = quiz[q].attempts
    OBVIOUS
  <2>1. CASE quiz'[q] = quiz[q] /\ (quiz[q] # None => quiz[q].tx # j)
    BY <2>1
  <2>2. CASE quiz[q] # None /\ quiz[q].tx = j /\ quiz'[q] \in {None, [quiz[q] EXCEPT !.tx = None]}
    <3>1. quiz[q] \in MadeQuizzes /\ quiz'[q] = [quiz[q] EXCEPT !.tx = None] /\ j # None
      BY <1>1, <2>2 DEF StudyAssumption
    <3>. QED
      BY <2>2, <3>1 DEF MadeQuizzes
  <2>. QED
    BY <2>1, <2>2
<1>3. \A q \in 1 .. Len(quiz) : quiz'[q] # None => quiz'[q].corrects <= quiz'[q].attempts
  <2>1. \A q \in 1 .. Len(quiz) : quiz[q] # None => quiz[q].corrects <= quiz[q].attempts
    BY <1>1 DEF LearnInv, QuizTypes
  <2>. QED
    BY <1>2, <2>1
<1>4. QuizTypes' /\ Evolved(quiz, quiz') /\ Len(quiz') = Len(quiz)
  <2>1. \A q \in 1 .. Len(quiz) : quiz'[q] # None =>
               /\ quiz[q] # None /\ quiz'[q].type = quiz[q].type /\ quiz'[q].target = quiz[q].target
               /\ (quiz[q].broken => quiz'[q].broken) /\ quiz'[q].tx \in {quiz[q].tx, None}
               /\ quiz'[q].corrects <= quiz'[q].attempts
    BY <1>2, <1>3
  <2>. QED
    BY <2>1, QuizzesChange
<1>5. job' = [job EXCEPT ![j] = None] /\ None \in Preparations \cup {None}
  BY DEF Step
<1>6. GoodJobs(job') /\ \A k \in Requests \ {j} : job'[k] = job[k]
  BY <1>0, <1>5 DEF GoodJobs
<1>7. AtWork(job', quiz')
  <2>1. AtWork([job EXCEPT ![j] = None], quiz')
    BY <1>0, <1>4, <1>5, WorkGoesOn
  <2>. QED
    BY <1>5, <2>1
<1>8. Rooted(quiz', living', job')
  <2>. SUFFICES ASSUME NEW q \in 1 .. Len(quiz), quiz'[q] # None
                PROVE  /\ quiz'[q].broken \/ quiz'[q].target \in living
                       /\ quiz'[q].tx # None => job'[quiz'[q].tx] # None /\ job'[quiz'[q].tx].op = "recommend"
    BY <1>4 DEF Rooted
  <2>1. quiz[q] # None /\ quiz'[q].target = quiz[q].target /\ quiz'[q].broken = quiz[q].broken
        /\ quiz'[q].tx \in {quiz[q].tx, None} /\ quiz'[q].tx # j
    BY <1>2
  <2>2. quiz[q].broken \/ quiz[q].target \in living
    BY <1>0, <2>1 DEF Rooted
  <2>3. quiz'[q].broken \/ quiz'[q].target \in living
    BY <2>1, <2>2, Zenon
  <2>4. ASSUME quiz'[q].tx # None PROVE job'[quiz'[q].tx] # None /\ job'[quiz'[q].tx].op = "recommend"
    <3>1. quiz'[q].tx = quiz[q].tx /\ quiz[q].tx # None
      BY <2>1, <2>4
    <3>2. job[quiz[q].tx] # None /\ job[quiz[q].tx].op = "recommend"
      BY <1>0, <2>1, <3>1 DEF Rooted
    <3>3. quiz[q].tx \in Requests \ {j}
      BY <1>1, <2>1, <3>1 DEF MadeQuizzes
    <3>. QED
      BY <1>6, <3>1, <3>2, <3>3
  <2>. QED
    BY <2>3, <2>4
<1>9. Settled(plan', killed', job')
  <2>1. \A p \in Plans : Waits(plan', p) =>
               \/ p \in killed' \/ Pending(None, p)
               \/ Waits(plan, p) /\ p \notin killed /\ ~ Pending(job[j], p)
    OBVIOUS
  <2>2. Settled(plan', killed', [job EXCEPT ![j] = None])
    BY <1>0, <1>5, <2>1, SettledStep
  <2>. QED
    BY <1>5, <2>2
<1>. QED
  BY <1>0, <1>4, <1>6, <1>7, <1>8, <1>9 DEF LearnInv

LEMMA JobLeaves ==
    ASSUME StudyAssumption, LearnInv, NEW j \in Requests, Step(j, None), UNCHANGED <<plan, living>>,
           killed \subseteq killed', \A p \in Plans : Pending(job[j], p) => p \in killed',
           quiz' \in [DOMAIN quiz -> MadeQuizzes \cup {None}],
           \A q \in 1 .. Len(quiz) :
               \/ quiz'[q] = quiz[q] /\ (quiz[q] # None => quiz[q].tx # j)
               \/ quiz[q] # None /\ quiz[q].tx = j /\ quiz'[q] \in {None, [quiz[q] EXCEPT !.tx = None]}
    PROVE  LearnInv'
<1>1. GoodPlans(plan')
  BY DEF LearnInv
<1>2. \A p \in Plans : Waits(plan', p) => Waits(plan, p) /\ (Pending(job[j], p) => p \in killed')
  OBVIOUS
<1>. QED
  BY <1>1, <1>2, JobEnds

LEMMA UndoneIs ==
    ASSUME LearnInv, NEW j \in Requests, quiz' = Undone(j)
    PROVE  /\ quiz' \in [DOMAIN quiz -> MadeQuizzes \cup {None}]
           /\ \A q \in 1 .. Len(quiz) :
                \/ quiz'[q] = quiz[q] /\ (quiz[q] # None => quiz[q].tx # j)
                \/ quiz[q] # None /\ quiz[q].tx = j /\ quiz'[q] \in {None, [quiz[q] EXCEPT !.tx = None]}
<1>1. DOMAIN quiz = 1 .. Len(quiz) /\ \A q \in 1 .. Len(quiz) : quiz[q] \in MadeQuizzes \cup {None}
  BY QuizIs
<1>2. quiz' = [q \in 1 .. Len(quiz) |-> IF quiz[q] # None /\ quiz[q].tx = j THEN None ELSE quiz[q]]
  BY <1>1 DEF Undone
<1>. QED
  BY <1>1, <1>2

LEMMA FinishKeeps ==
    ASSUME StudyAssumption, LearnInv, NEW j \in Requests, Finish(j) PROVE LearnInv'
<1>0. job[j] # None /\ job[j].at = "end" /\ Step(j, None) /\ UNCHANGED <<plan, living, killed>>
  BY DEF Finish, Stage
<1>1. /\ DOMAIN quiz = 1 .. Len(quiz) /\ \A q \in 1 .. Len(quiz) : quiz[q] \in MadeQuizzes \cup {None}
      /\ \A q \in 1 .. Len(quiz) : quiz[q] # None => quiz[q] \in MadeQuizzes
  BY QuizIs
<1>2. quiz' = [q \in 1 .. Len(quiz) |->
                  IF quiz[q] # None /\ quiz[q].tx = j THEN [quiz[q] EXCEPT !.tx = None] ELSE quiz[q]]
  BY <1>1 DEF Finish
<1>3. \A q \in 1 .. Len(quiz) :
                \/ quiz'[q] = quiz[q] /\ (quiz[q] # None => quiz[q].tx # j)
                \/ quiz[q] # None /\ quiz[q].tx = j /\ quiz'[q] \in {None, [quiz[q] EXCEPT !.tx = None]}
  BY <1>2
<1>4. quiz' \in [DOMAIN quiz -> MadeQuizzes \cup {None}]
  <2>1. \A q \in 1 .. Len(quiz) : quiz[q] # None => [quiz[q] EXCEPT !.tx = None] \in MadeQuizzes
    BY <1>1 DEF MadeQuizzes
  <2>. QED
    BY <1>1, <1>2, <2>1
<1>5. \A p \in Plans : Pending(job[j], p) => p \in killed'
  BY <1>0 DEF Pending
<1>6. killed \subseteq killed'
  BY <1>0
<1>. QED
  BY <1>0, <1>3, <1>4, <1>5, <1>6, JobLeaves

LEMMA KillKeeps ==
    ASSUME StudyAssumption, LearnInv, NEW j \in Requests, Kill(j) PROVE LearnInv'
<1>0. /\ job[j] # None /\ quiz' = Undone(j) /\ Step(j, None) /\ UNCHANGED <<plan, living>>
      /\ killed' = killed \cup IF job[j].op = "prepare" /\ job[j].at # "queue" THEN ToSet(job[j].plans) ELSE {}
  BY DEF Kill
<1>1. Course(job[j]) /\ job[j].plans \in Seq(Plans)
  BY <1>0, JobIs, Fields
<1>2. \A p \in Plans : Pending(job[j], p) => p \in killed'
  <2>. SUFFICES ASSUME NEW p \in Plans, Pending(job[j], p) PROVE p \in killed'
    OBVIOUS
  <2>1. job[j].op = "prepare" /\ job[j].at # "queue" /\ job[j].at # "end"
    BY DEF Pending
  <2>2. job[j].plans # <<>>
    BY <1>1, <2>1 DEF Course
  <2>3. p \in ToSet(job[j].plans)
    BY <1>1, <2>2, BatchIs DEF Pending
  <2>. QED
    BY <1>0, <2>1, <2>3
<1>3. killed \subseteq killed'
  BY <1>0
<1>. QED
  BY <1>0, <1>2, <1>3, UndoneIs, JobLeaves

\* A preparation has made nothing that is taken back with it.
LEMMA CancelKeeps ==
    ASSUME StudyAssumption, LearnInv, NEW j \in Requests, Cancel(j) PROVE LearnInv'
<1> DEFINE u == job[j]
           p == Head(u.plans)
<1>0. /\ u # None /\ u.op = "prepare" /\ u.at \notin {"queue", "end"} /\ SetStatus({p}, "failed")
      /\ killed' = killed \cup ToSet(Tail(u.plans)) /\ Step(j, None) /\ UNCHANGED <<living, quiz>>
  BY DEF Cancel, InHand, MarkFailed
<1>1. GoodPlans(plan) /\ Rooted(quiz, living, job)
  BY DEF LearnInv
<1>2. u.plans # <<>> /\ u.plans \in Seq(Plans)
  BY <1>0, JobIs, Fields DEF Course
<1>3. \A x \in ToSet(u.plans) : x = p \/ x \in ToSet(Tail(u.plans))
  BY <1>2, BatchIs
<1>4. /\ GoodPlans(plan')
      /\ \A x \in Plans : Waits(plan', x) <=> plan[x] # None /\ (IF x \in {p} THEN "failed" ELSE plan[x].status) \in {"queued", "running"}
  BY <1>0, <1>1, StatusKept
<1>5. ASSUME NEW x \in Plans, Waits(plan', x) PROVE Waits(plan, x) /\ (Pending(u, x) => x \in killed')
  <2>1. x # p /\ Waits(plan, x)
    BY <1>4, <1>5 DEF Waits
  <2>2. Pending(u, x) => x \in ToSet(Tail(u.plans))
    BY <1>3, <2>1 DEF Pending
  <2>. QED
    BY <1>0, <2>1, <2>2
<1>6. /\ DOMAIN quiz = 1 .. Len(quiz) /\ quiz \in Seq(MadeQuizzes \cup {None})
      /\ \A q \in 1 .. Len(quiz) : quiz[q] # None => quiz[q] \in MadeQuizzes
  BY QuizIs
<1>7. quiz' \in [DOMAIN quiz -> MadeQuizzes \cup {None}]
  BY <1>0, <1>6
<1>8. \A q \in 1 .. Len(quiz) : quiz[q] # None => quiz[q].tx # j
  <2>. SUFFICES ASSUME NEW q \in 1 .. Len(quiz), quiz[q] # None, quiz[q].tx = j PROVE FALSE
    OBVIOUS
  <2>1. quiz[q].tx # None
    BY DEF StudyAssumption
  <2>2. job[quiz[q].tx].op = "recommend"
    BY <1>1, <2>1 DEF Rooted
  <2>. QED
    BY <1>0, <2>2
<1>. QED
  BY <1>0, <1>4, <1>5, <1>7, <1>8, JobEnds

LEMMA FailKeeps ==
    ASSUME StudyAssumption, LearnInv, NEW j \in Requests, Fail(j) PROVE LearnInv'
<1> DEFINE u == job[j]
           p == Head(u.plans)
           w == NextPlan(u)
<1>1. CASE InHand(j) /\ MarkFailed(p) /\ Step(j, w) /\ quiz' = quiz /\ UNCHANGED <<living, killed, steps>>
  <2>0. u # None /\ u.op = "prepare" /\ u.at \notin {"queue", "end"} /\ SetStatus({p}, "failed")
        /\ UNCHANGED <<living, quiz, killed>> /\ Step(j, w)
    BY <1>1 DEF InHand, MarkFailed
  <2>1. u \in Preparations /\ Course(u) /\ Measure(u) /\ Books(u, j, quiz)
    BY <2>0, JobIs
  <2>2. u.plans # <<>> /\ u.plans \in Seq(Plans)
    BY <2>0, <2>1, Fields DEF Course
  <2>3. \A x \in ToSet(u.plans) : x = p \/ x \in ToSet(Tail(u.plans))
    BY <2>2, BatchIs
  <2>4. Course(w) /\ Measure(w)
    BY <2>0, <2>1, MovesOn
  <2>5. w.op = u.op /\ Books(w, j, quiz) /\ \A x \in ToSet(Tail(u.plans)) : w # None => Pending(w, x)
    BY <2>0, <2>1, NextPlanIs
  <2> HIDE DEF w
  <2>6. w \in Preparations /\ w # None
    BY <2>4 DEF Course, StudyAssumption
  <2>7. \A x \in Plans : Pending(u, x) => x = p \/ Pending(w, x)
    BY <2>0, <2>3, <2>5, <2>6 DEF Pending
  <2>8. \A x \in Plans : plan[x] # None => CASE x \notin {p} -> (Pending(u, x) => Pending(w, x)) /\ (x \in killed => x \in killed')
                                         [] OTHER -> "failed" \in {"queued", "running"} => Pending(w, x) \/ x \in killed'
    BY <2>0, <2>7
  <2>. QED
    BY <2>0, <2>4, <2>5, <2>6, <2>8, StatusStep
<1>2. CASE u # None /\ u.op = "recommend" /\ quiz' = Undone(j) /\ Step(j, None) /\ UNCHANGED <<plan, living, killed, steps>>
  <2>1. \A x \in Plans : Pending(job[j], x) => x \in killed'
    BY <1>2, NoneWait
  <2>2. killed \subseteq killed'
    BY <1>2
  <2>. QED
    BY <1>2, <2>1, <2>2, UndoneIs, JobLeaves
<1>3. CASE Stage(j, "open") /\ Step(j, w) /\ killed' = killed \cup {p} /\ UNCHANGED <<plan, living, quiz, steps>>
  <2>0. u # None /\ u.at = "open" /\ UNCHANGED <<plan, living, quiz>> /\ Step(j, w) /\ killed' = killed \cup {p}
    BY <1>3 DEF Stage
  <2>1. u \in Preparations /\ Course(u) /\ Measure(u) /\ Books(u, j, quiz)
    BY <2>0, JobIs
  <2>2. u.op = "prepare" /\ u.plans # <<>> /\ u.plans \in Seq(Plans)
    BY <2>0, <2>1, PreparesAt, Fields DEF Course
  <2>3. \A x \in ToSet(u.plans) : x = p \/ x \in ToSet(Tail(u.plans))
    BY <2>2, BatchIs
  <2>4. Course(w) /\ Measure(w)
    BY <2>0, <2>1, <2>2, MovesOn
  <2>5. w.op = u.op /\ Books(w, j, quiz) /\ \A x \in ToSet(Tail(u.plans)) : w # None => Pending(w, x)
    BY <2>0, <2>1, <2>2, NextPlanIs
  <2> HIDE DEF w
  <2>6. w \in Preparations /\ w # None
    BY <2>4 DEF Course, StudyAssumption
  <2>7. \A x \in Plans : Pending(u, x) => Pending(w, x) \/ x \in killed'
    BY <2>0, <2>3, <2>5, <2>6 DEF Pending
  <2>8. killed \subseteq killed'
    BY <2>0
  <2>. QED
    BY <2>0, <2>4, <2>5, <2>6, <2>7, <2>8, CutStep
<1>. QED
  BY <1>1, <1>2, <1>3, Zenon DEF Fail


---------------------------------------------------------------------------
(* The steps of the user, and of the texts.                                     *)

\* The user does not touch what a job is about.
LEMMA OutsideStep ==
    ASSUME StudyAssumption, LearnInv, job' \in {job, Disturbed}, GoodPlans(plan'), living' \subseteq Sentences,
           quiz' \in [DOMAIN quiz -> MadeQuizzes \cup {None}],
           \A q \in 1 .. Len(quiz) : quiz'[q] # None =>
               /\ quiz[q] # None /\ quiz'[q].type = quiz[q].type /\ quiz'[q].target = quiz[q].target
               /\ (quiz[q].broken => quiz'[q].broken) /\ quiz'[q].tx = quiz[q].tx
               /\ quiz'[q].corrects <= quiz'[q].attempts
               /\ (quiz'[q].broken \/ quiz'[q].target \in living'),
           \A p \in Plans : Waits(plan', p) => p \in killed' \/ (Waits(plan, p) /\ p \notin killed)
    PROVE  LearnInv'
<1>0. GoodJobs(job) /\ AtWork(job, quiz) /\ Rooted(quiz, living, job) /\ Settled(plan, killed, job)
  BY DEF LearnInv
<1>1. QuizTypes' /\ Evolved(quiz, quiz') /\ Len(quiz') = Len(quiz)
  <2>1. \A q \in 1 .. Len(quiz) : quiz'[q] # None =>
               /\ quiz[q] # None /\ quiz'[q].type = quiz[q].type /\ quiz'[q].target = quiz[q].target
               /\ (quiz[q].broken => quiz'[q].broken) /\ quiz'[q].tx \in {quiz[q].tx, None}
               /\ quiz'[q].corrects <= quiz'[q].attempts
    OBVIOUS
  <2>. QED
    BY <2>1, QuizzesChange
<1>2. /\ \A q \in 1 .. Len(quiz) : quiz[q] # None => quiz[q] \in MadeQuizzes
      /\ None \notin Preparations
  BY QuizIs DEF StudyAssumption
<1>3. ASSUME NEW j \in Requests
      PROVE  /\ job'[j] \in Preparations \cup {None} /\ (job[j] = None <=> job'[j] = None)
             /\ job[j] # None => Course(job'[j]) /\ Measure(job'[j]) /\ Unmoved(job[j], job'[j])
  <2>1. CASE job[j] = None
    <3>1. job'[j] = None
      BY <2>1 DEF Disturbed
    <3>. QED
      BY <2>1, <3>1
  <2>2. CASE job[j] # None
    <3>1. job[j] \in Preparations /\ Course(job[j]) /\ Measure(job[j])
      BY <2>2, JobIs
    <3>2. CASE job' = job
      BY <2>2, <3>1, <3>2, UnmovedSelf
    <3>3. CASE job' = Disturbed
      <4> DEFINE v == [job[j] EXCEPT !.calm = FALSE]
      <4>1. job'[j] = v
        BY <2>2, <3>3 DEF Disturbed
      <4>2. Course(v) /\ Measure(v) /\ Unmoved(job[j], v)
        BY <3>1, CalmSteps
      <4> HIDE DEF v
      <4>3. v \in Preparations
        BY <4>2 DEF Course
      <4>. QED
        BY <2>2, <4>1, <4>2, <4>3, <1>2
    <3>. QED
      BY <3>2, <3>3
  <2>. QED
    BY <2>1, <2>2
<1>4. GoodJobs(job')
  <2>1. CASE job' = job
    BY <1>0, <2>1
  <2>2. CASE job' = Disturbed
    <3>1. job' = [j \in Requests |-> job'[j]]
      BY <2>2 DEF Disturbed
    <3>. QED
      BY <1>3, <3>1 DEF GoodJobs
  <2>. QED
    BY <2>1, <2>2
<1>5. AtWork(job', quiz')
  <2>. SUFFICES ASSUME NEW j \in Requests, job'[j] # None
                PROVE  Course(job'[j]) /\ Measure(job'[j]) /\ Books(job'[j], j, quiz')
    BY DEF AtWork
  <2>1. job[j] # None /\ Course(job'[j]) /\ Measure(job'[j]) /\ Unmoved(job[j], job'[j])
    BY <1>3
  <2>2. Books(job[j], j, quiz)
    BY <1>0, <2>1 DEF AtWork
  <2>3. Books(job'[j], j, quiz')
    BY <1>1, <2>1, <2>2, BooksKept
  <2>. QED
    BY <2>1, <2>3
<1>6. Rooted(quiz', living', job')
  <2>. SUFFICES ASSUME NEW q \in 1 .. Len(quiz), quiz'[q] # None
                PROVE  /\ quiz'[q].broken \/ quiz'[q].target \in living'
                       /\ quiz'[q].tx # None => job'[quiz'[q].tx] # None /\ job'[quiz'[q].tx].op = "recommend"
    BY <1>1 DEF Rooted
  <2>1. quiz[q] # None /\ quiz'[q].tx = quiz[q].tx /\ (quiz'[q].broken \/ quiz'[q].target \in living')
    OBVIOUS
  <2>2. ASSUME quiz'[q].tx # None PROVE job'[quiz'[q].tx] # None /\ job'[quiz'[q].tx].op = "recommend"
    <3>1. quiz[q].tx # None /\ job[quiz[q].tx] # None /\ job[quiz[q].tx].op = "recommend"
      BY <1>0, <2>1, <2>2 DEF Rooted
    <3>2. quiz[q].tx \in Requests
      BY <1>2, <2>1, <3>1 DEF MadeQuizzes
    <3>3. job'[quiz[q].tx] # None /\ Unmoved(job[quiz[q].tx], job'[quiz[q].tx])
      BY <1>3, <3>1, <3>2
    <3>. QED
      BY <2>1, <3>1, <3>3 DEF Unmoved
  <2>. QED
    BY <2>1, <2>2, Zenon
<1>7. Settled(plan', killed', job')
  <2>. SUFFICES ASSUME NEW p \in Plans, Waits(plan', p), p \notin killed'
                PROVE  \E j \in Requests : Pending(job'[j], p)
    BY DEF Settled
  <2>1. Waits(plan, p) /\ p \notin killed
    OBVIOUS
  <2>2. PICK j \in Requests : Pending(job[j], p)
    BY <1>0, <2>1 DEF Settled
  <2>3. job[j] # None
    BY <2>2 DEF Pending
  <2>4. job'[j] # None /\ Unmoved(job[j], job'[j])
    BY <1>3, <2>3
  <2>5. Pending(job'[j], p)
    BY <2>2, <2>4 DEF Pending, Unmoved
  <2>. QED
    BY <2>5
<1>. QED
  BY <1>1, <1>4, <1>5, <1>6, <1>7 DEF LearnInv

\* Quizzes that do not change.
LEMMA SameAsBefore ==
    ASSUME LearnInv, quiz' = quiz, living' = living
    PROVE  /\ quiz' \in [DOMAIN quiz -> MadeQuizzes \cup {None}]
           /\ \A q \in 1 .. Len(quiz) : quiz'[q] # None =>
               /\ quiz[q] # None /\ quiz'[q].type = quiz[q].type /\ quiz'[q].target = quiz[q].target
               /\ (quiz[q].broken => quiz'[q].broken) /\ quiz'[q].tx = quiz[q].tx
               /\ quiz'[q].corrects <= quiz'[q].attempts
               /\ (quiz'[q].broken \/ quiz'[q].target \in living')
<1>1. quiz \in Seq(MadeQuizzes \cup {None}) /\ DOMAIN quiz = 1 .. Len(quiz)
  BY QuizIs
<1>2. \A q \in 1 .. Len(quiz) : quiz[q] # None => quiz[q].corrects <= quiz[q].attempts
  BY <1>1 DEF LearnInv, QuizTypes
<1>3. \A q \in 1 .. Len(quiz) : quiz[q] # None => quiz[q].broken \/ quiz[q].target \in living
  BY DEF LearnInv, Rooted
<1>4. quiz \in [DOMAIN quiz -> MadeQuizzes \cup {None}]
  BY <1>1
<1>. QED
  BY <1>2, <1>3, <1>4

LEMMA NewPlanIs ==
    ASSUME NEW draft, DraftOK(draft), NEW default \in BOOLEAN,
           NEW state \in {"idle", "queued", "running", "ready", "exhausted", "failed"}
    PROVE  LET v == [NewPlan(draft, default) EXCEPT !.status = state] IN
           /\ v \in SavedPlans /\ GoodScope(v) /\ v.status = state
           /\ NewPlan(draft, default) \in SavedPlans /\ GoodScope(NewPlan(draft, default))
           /\ NewPlan(draft, default).status = "idle"
<1>1. draft.types \in Seq(Types) /\ draft.resources \in Seq(Resources) /\ draft.n \in Nat
      /\ draft.types # <<>> /\ draft.resources # <<>> /\ IsInjective(draft.types) /\ IsInjective(draft.resources)
  BY DEF DraftOK
<1> DEFINE s == NewPlan(draft, default)
           v == [s EXCEPT !.status = state]
<1>2. s \in SavedPlans
  BY <1>1 DEF NewPlan, SavedPlans
<1>3. s.types = draft.types /\ s.resources = draft.resources /\ s.status = "idle"
  BY DEF NewPlan
<1> HIDE DEF s
<1>4. v \in SavedPlans /\ v.types = s.types /\ v.resources = s.resources /\ v.status = state
  BY <1>2 DEF SavedPlans
<1> HIDE DEF v
<1>5. GoodScope(s) /\ GoodScope(v)
  BY <1>1, <1>3, <1>4 DEF GoodScope
<1>. QED
  BY <1>2, <1>3, <1>4, <1>5 DEF s, v

\* A plan is saved.
LEMMA PlanSaved ==
    ASSUME GoodPlans(plan), NEW p \in Plans, NEW v \in SavedPlans \cup {None}, v # None => GoodScope(v),
           plan' = [plan EXCEPT ![p] = v]
    PROVE  GoodPlans(plan') /\ plan'[p] = v /\ \A x \in Plans \ {p} : plan'[x] = plan[x]
BY DEF GoodPlans

LEMMA CreatePlanKeeps == ASSUME StudyAssumption, LearnInv, CreatePlan PROVE LearnInv'
<1>0. job' = Disturbed /\ UNCHANGED <<living, quiz, killed>>
  BY DEF CreatePlan, Edit
<1>1. PICK p \in Plans, draft \in Drafts : plan[p] = None /\ plan' = [plan EXCEPT ![p] = NewPlan(draft, FALSE)]
  BY DEF CreatePlan
<1>2. GoodPlans(plan) /\ living \subseteq Sentences
  BY DEF LearnInv
<1>3. DraftOK(draft)
  BY DEF StudyAssumption
<1> DEFINE v == NewPlan(draft, FALSE)
<1>4. v \in SavedPlans /\ GoodScope(v) /\ v.status = "idle"
  BY <1>3, NewPlanIs
<1> HIDE DEF v
<1>5. GoodPlans(plan') /\ plan'[p] = v /\ \A x \in Plans \ {p} : plan'[x] = plan[x]
  BY <1>1, <1>2, <1>4, PlanSaved DEF v
<1>6. \A x \in Plans : Waits(plan', x) => x \in killed' \/ (Waits(plan, x) /\ x \notin killed)
  BY <1>0, <1>4, <1>5 DEF Waits
<1>. QED
  BY <1>0, <1>2, <1>5, <1>6, SameAsBefore, OutsideStep

LEMMA UpdatePlanKeeps == ASSUME StudyAssumption, LearnInv, UpdatePlan PROVE LearnInv'
<1>0. job' = Disturbed /\ UNCHANGED <<living, quiz, killed>>
  BY DEF UpdatePlan, Edit
<1>1. PICK p \in Plans, draft \in Drafts :
        /\ plan[p] # None
        /\ plan' = [plan EXCEPT ![p] = [NewPlan(draft, @.default /\ @.resources = draft.resources)
                                          EXCEPT !.status = plan[p].status]]
  BY DEF UpdatePlan
<1>2. GoodPlans(plan) /\ living \subseteq Sentences
  BY DEF LearnInv
<1>3. DraftOK(draft)
  BY DEF StudyAssumption
<1> DEFINE default == plan[p].default /\ plan[p].resources = draft.resources
           state == plan[p].status
           v == [NewPlan(draft, default) EXCEPT !.status = state]
<1>4. state \in {"idle", "queued", "running", "ready", "exhausted", "failed"}
  BY <1>1, <1>2 DEF GoodPlans, SavedPlans
<1>5. plan' = [plan EXCEPT ![p] = v]
  BY <1>1, <1>2 DEF GoodPlans
<1>6. default \in BOOLEAN
  OBVIOUS
<1> HIDE DEF default, state
<1>7. v \in SavedPlans /\ GoodScope(v) /\ v.status = state
  <2> DEFINE s == NewPlan(draft, default)
  <2>1. s \in SavedPlans /\ s.types = draft.types /\ s.resources = draft.resources
    BY <1>3, <1>6 DEF DraftOK, NewPlan, SavedPlans
  <2> HIDE DEF s
  <2>2. GoodScope(s)
    BY <1>3, <2>1 DEF DraftOK, GoodScope
  <2>3. v = [s EXCEPT !.status = state]
    BY DEF s
  <2> HIDE DEF v
  <2>4. v \in SavedPlans /\ v.types = s.types /\ v.resources = s.resources /\ v.status = state
    BY <1>4, <2>1, <2>3 DEF SavedPlans
  <2>. QED
    BY <2>2, <2>4 DEF GoodScope
<1> HIDE DEF v
<1>8. GoodPlans(plan') /\ plan'[p] = v /\ \A x \in Plans \ {p} : plan'[x] = plan[x]
  BY <1>2, <1>5, <1>7, PlanSaved
<1>9. \A x \in Plans : Waits(plan', x) => x \in killed' \/ (Waits(plan, x) /\ x \notin killed)
  BY <1>0, <1>1, <1>7, <1>8 DEF Waits, state
<1>. QED
  BY <1>0, <1>2, <1>8, <1>9, SameAsBefore, OutsideStep

LEMMA DeletePlanKeeps == ASSUME StudyAssumption, LearnInv, DeletePlan PROVE LearnInv'
<1>0. job' = Disturbed /\ UNCHANGED <<living, quiz>>
  BY DEF DeletePlan, Edit
<1>1. PICK p \in Plans : plan' = [plan EXCEPT ![p] = None] /\ killed' = killed \ {p}
  BY DEF DeletePlan
<1>2. GoodPlans(plan) /\ living \subseteq Sentences
  BY DEF LearnInv
<1>3. GoodPlans(plan') /\ plan'[p] = None /\ \A x \in Plans \ {p} : plan'[x] = plan[x]
  BY <1>1, <1>2, PlanSaved
<1>4. \A x \in Plans : Waits(plan', x) => x \in killed' \/ (Waits(plan, x) /\ x \notin killed)
  BY <1>1, <1>3 DEF Waits
<1>. QED
  BY <1>0, <1>2, <1>3, <1>4, SameAsBefore, OutsideStep

LEMMA AnswerKeeps == ASSUME StudyAssumption, LearnInv, Answer PROVE LearnInv'
<1>0. UNCHANGED <<plan, living, job, killed>>
  BY DEF Answer
<1>1. PICK a \in Valid(None), correct \in BOOLEAN :
        quiz' = [quiz EXCEPT ![a].attempts = @ + 1, ![a].corrects = IF correct THEN @ + 1 ELSE @]
  BY DEF Answer
<1>2. /\ DOMAIN quiz = 1 .. Len(quiz) /\ quiz \in Seq(MadeQuizzes \cup {None})
      /\ \A q \in 1 .. Len(quiz) : quiz[q] \in MadeQuizzes \cup {None} /\ (quiz[q] # None => quiz[q] \in MadeQuizzes)
  BY QuizIs
<1>3. a \in 1 .. Len(quiz) /\ quiz[a] # None
  BY <1>2 DEF Valid, Seen
<1> DEFINE tries == quiz[a].attempts + 1
           rights == IF correct THEN quiz[a].corrects + 1 ELSE quiz[a].corrects
           v == [quiz[a] EXCEPT !.attempts = tries, !.corrects = rights]
<1>4. quiz[a] \in MadeQuizzes /\ quiz[a].corrects <= quiz[a].attempts
  BY <1>2, <1>3 DEF LearnInv, QuizTypes
<1>5. tries \in Nat /\ rights \in Nat /\ rights <= tries
  BY <1>4 DEF MadeQuizzes
<1>6. quiz' = [quiz EXCEPT ![a] = v]
  BY <1>1, <1>2, <1>3, <1>4 DEF MadeQuizzes
<1> HIDE DEF tries, rights
<1>7. /\ v \in MadeQuizzes /\ v.type = quiz[a].type /\ v.target = quiz[a].target /\ v.broken = quiz[a].broken
      /\ v.tx = quiz[a].tx /\ v.corrects <= v.attempts
  BY <1>4, <1>5 DEF MadeQuizzes
<1> HIDE DEF v
<1>8. quiz'[a] = v /\ \A q \in 1 .. Len(quiz) : q # a => quiz'[q] = quiz[q]
  BY <1>2, <1>3, <1>6
<1>9. quiz' \in [DOMAIN quiz -> MadeQuizzes \cup {None}]
  BY <1>2, <1>3, <1>6, <1>7
<1>10. \A q \in 1 .. Len(quiz) : quiz[q] # None =>
          quiz[q].corrects <= quiz[q].attempts /\ (quiz[q].broken \/ quiz[q].target \in living)
  BY <1>2 DEF LearnInv, QuizTypes, Rooted
<1>11. ASSUME NEW q \in 1 .. Len(quiz), quiz'[q] # None
       PROVE  /\ quiz[q] # None /\ quiz'[q].type = quiz[q].type /\ quiz'[q].target = quiz[q].target
              /\ (quiz[q].broken => quiz'[q].broken) /\ quiz'[q].tx = quiz[q].tx
              /\ quiz'[q].corrects <= quiz'[q].attempts
              /\ (quiz'[q].broken \/ quiz'[q].target \in living')
  <2>1. CASE q = a
    BY <1>0, <1>3, <1>7, <1>8, <1>10, <2>1, Zenon
  <2>2. CASE q # a
    BY <1>0, <1>8, <1>10, <1>11, <2>2, Zenon
  <2>. QED
    BY <2>1, <2>2
<1>12. GoodPlans(plan') /\ living' \subseteq Sentences
  BY <1>0 DEF LearnInv
<1>13. \A x \in Plans : Waits(plan', x) => x \in killed' \/ (Waits(plan, x) /\ x \notin killed)
  BY <1>0
<1>. QED
  BY <1>0, <1>9, <1>11, <1>12, <1>13, OutsideStep

LEMMA DeleteQuizKeeps == ASSUME StudyAssumption, LearnInv, DeleteQuiz PROVE LearnInv'
<1>0. job' = Disturbed /\ UNCHANGED <<plan, living, killed>>
  BY DEF DeleteQuiz, Edit
<1>1. PICK d \in Seen(None) : quiz' = [quiz EXCEPT ![d] = None]
  BY DEF DeleteQuiz
<1>2. /\ DOMAIN quiz = 1 .. Len(quiz) /\ quiz \in Seq(MadeQuizzes \cup {None})
      /\ \A q \in 1 .. Len(quiz) : quiz[q] \in MadeQuizzes \cup {None}
  BY QuizIs
<1>3. d \in 1 .. Len(quiz)
  BY <1>2 DEF Seen
<1>4. quiz' \in [DOMAIN quiz -> MadeQuizzes \cup {None}]
  BY <1>1, <1>2, <1>3
<1>5. \A q \in 1 .. Len(quiz) : quiz'[q] # None => quiz'[q] = quiz[q]
  BY <1>1, <1>2, <1>3
<1>6. \A q \in 1 .. Len(quiz) : quiz[q] # None =>
          quiz[q].corrects <= quiz[q].attempts /\ (quiz[q].broken \/ quiz[q].target \in living)
  BY <1>2 DEF LearnInv, QuizTypes, Rooted
<1>7. \A q \in 1 .. Len(quiz) : quiz'[q] # None =>
               /\ quiz[q] # None /\ quiz'[q].type = quiz[q].type /\ quiz'[q].target = quiz[q].target
               /\ (quiz[q].broken => quiz'[q].broken) /\ quiz'[q].tx = quiz[q].tx
               /\ quiz'[q].corrects <= quiz'[q].attempts
               /\ (quiz'[q].broken \/ quiz'[q].target \in living')
  BY <1>0, <1>5, <1>6
<1>8. GoodPlans(plan') /\ living' \subseteq Sentences
  BY <1>0 DEF LearnInv
<1>9. \A x \in Plans : Waits(plan', x) => x \in killed' \/ (Waits(plan, x) /\ x \notin killed)
  BY <1>0
<1>. QED
  BY <1>0, <1>4, <1>7, <1>8, <1>9, OutsideStep

LEMMA ImportKeeps == ASSUME StudyAssumption, LearnInv, Import PROVE LearnInv'
<1>0. job' = Disturbed /\ UNCHANGED <<plan, killed>>
  BY DEF Import, Edit
<1>1. PICK s \in living \cap Fragile, offered \in SUBSET Valid(None) :
        /\ living' = living \ {s}
        /\ quiz' = [q \in DOMAIN quiz |-> IF quiz[q] # None /\ (quiz[q].target = s \/ q \in offered)
                                          THEN [quiz[q] EXCEPT !.broken = TRUE] ELSE quiz[q]]
  BY DEF Import
<1>2. /\ DOMAIN quiz = 1 .. Len(quiz) /\ quiz \in Seq(MadeQuizzes \cup {None})
      /\ \A q \in 1 .. Len(quiz) : quiz[q] \in MadeQuizzes \cup {None} /\ (quiz[q] # None => quiz[q] \in MadeQuizzes)
  BY QuizIs
<1>3. \A q \in 1 .. Len(quiz) : quiz[q] # None =>
          quiz[q].corrects <= quiz[q].attempts /\ (quiz[q].broken \/ quiz[q].target \in living)
  BY <1>2 DEF LearnInv, QuizTypes, Rooted
<1>4. ASSUME NEW q \in 1 .. Len(quiz)
      PROVE  /\ quiz'[q] \in MadeQuizzes \cup {None}
             /\ quiz'[q] # None =>
               /\ quiz[q] # None /\ quiz'[q].type = quiz[q].type /\ quiz'[q].target = quiz[q].target
               /\ (quiz[q].broken => quiz'[q].broken) /\ quiz'[q].tx = quiz[q].tx
               /\ quiz'[q].corrects <= quiz'[q].attempts
               /\ (quiz'[q].broken \/ quiz'[q].target \in living')
  <2>1. CASE quiz[q] # None /\ (quiz[q].target = s \/ q \in offered)
    <3> DEFINE v == [quiz[q] EXCEPT !.broken = TRUE]
    <3>1. quiz'[q] = v /\ quiz[q] \in MadeQuizzes
      BY <1>1, <1>2, <2>1
    <3>2. /\ v \in MadeQuizzes /\ v.type = quiz[q].type /\ v.target = quiz[q].target /\ v.broken
          /\ v.tx = quiz[q].tx /\ v.corrects = quiz[q].corrects /\ v.attempts = quiz[q].attempts
      BY <3>1 DEF MadeQuizzes
    <3> HIDE DEF v
    <3>. QED
      BY <1>3, <2>1, <3>1, <3>2, Zenon
  <2>2. CASE ~ (quiz[q] # None /\ (quiz[q].target = s \/ q \in offered))
    <3>1. quiz'[q] = quiz[q]
      BY <1>1, <1>2, <2>2
    <3>2. quiz[q] # None => quiz[q].target # s
      BY <2>2
    <3>3. quiz[q] # None /\ quiz[q].target \in living => quiz[q].target \in living'
      BY <1>1, <3>2
    <3>. QED
      BY <1>2, <1>3, <3>1, <3>3, Zenon
  <2>. QED
    BY <2>1, <2>2
<1>5. quiz' \in [DOMAIN quiz -> MadeQuizzes \cup {None}]
  <2>1. quiz' = [q \in 1 .. Len(quiz) |-> quiz'[q]]
    BY <1>1, <1>2
  <2>. QED
    BY <1>2, <1>4, <2>1
<1>6. GoodPlans(plan') /\ living' \subseteq Sentences
  BY <1>0, <1>1 DEF LearnInv
<1>7. \A x \in Plans : Waits(plan', x) => x \in killed' \/ (Waits(plan, x) /\ x \notin killed)
  BY <1>0
<1>. QED
  BY <1>0, <1>4, <1>5, <1>6, <1>7, OutsideStep


---------------------------------------------------------------------------
(* Every step, and what the invariant says.                                     *)

\* At the beginning nothing is asked yet and the default plan waits for nothing.
LEMMA LearnBegins == ASSUME StudyAssumption, StudyInit PROVE LearnInv
<1>0. /\ plan = [p \in Plans |-> IF p = Home THEN NewPlan(Preset, TRUE) ELSE None]
      /\ living = Sentences /\ quiz \in Starts /\ job = [j \in Requests |-> None] /\ killed = {}
  BY DEF StudyInit
<1>1. DraftOK(Preset)
  BY DEF StudyAssumption
<1> DEFINE v == NewPlan(Preset, TRUE)
<1>2. v \in SavedPlans /\ GoodScope(v) /\ v.status = "idle"
  <2>1. v \in SavedPlans /\ v.types = Preset.types /\ v.resources = Preset.resources /\ v.status = "idle"
    BY <1>1 DEF DraftOK, NewPlan, SavedPlans
  <2> HIDE DEF v
  <2>. QED
    BY <1>1, <2>1 DEF DraftOK, GoodScope
<1> HIDE DEF v
<1>3. \A p \in Plans : plan[p] \in {v, None}
  BY <1>0 DEF v
<1>4. GoodPlans(plan)
  <2>1. plan \in [Plans -> SavedPlans \cup {None}]
    BY <1>0, <1>2 DEF v
  <2>. QED
    BY <1>2, <1>3, <2>1 DEF GoodPlans
<1>5. QuizTypes /\ Rooted(quiz, living, job)
  <2>1. /\ quiz \in Seq(MadeQuizzes) /\ Len(quiz) <= MaxQuizzes
        /\ \A n \in DOMAIN quiz : quiz[n].tx = None /\ quiz[n].corrects <= quiz[n].attempts
    BY <1>0 DEF StudyAssumption
  <2>2. /\ DOMAIN quiz = 1 .. Len(quiz) /\ quiz \in Seq(MadeQuizzes \cup {None})
        /\ \A n \in 1 .. Len(quiz) : quiz[n] \in MadeQuizzes
    BY <2>1
  <2>3. \A n \in 1 .. Len(quiz) : quiz[n].target \in living
    BY <1>0, <2>2 DEF MadeQuizzes
  <2>. QED
    BY <2>1, <2>2, <2>3 DEF QuizTypes, Rooted
<1>6. GoodJobs(job) /\ AtWork(job, quiz)
  BY <1>0 DEF GoodJobs, AtWork
<1>7. Settled(plan, killed, job)
  BY <1>2, <1>3 DEF Settled, Waits
<1>. QED
  BY <1>0, <1>4, <1>5, <1>6, <1>7 DEF LearnInv

LEMMA LearnSteps == ASSUME StudyAssumption, LearnInv, [StudyNext]_learnVars PROVE LearnInv'
<1>1. CASE UNCHANGED learnVars
  BY <1>1 DEF learnVars, LearnInv, QuizTypes
<1>2. CASE StudyNext
  <2>1. CASE CreatePlan \/ UpdatePlan \/ DeletePlan \/ Answer \/ DeleteQuiz \/ Import
    BY <2>1, CreatePlanKeeps, UpdatePlanKeeps, DeletePlanKeeps, AnswerKeeps, DeleteQuizKeeps, ImportKeeps
  <2>2. ASSUME NEW j \in Requests,
               \/ AskPrepare(j) \/ Enqueue(j) \/ AskRecommend(j) \/ Open(j) \/ Review(j) \/ Fetch(j) \/ PartDone(j)
               \/ Draw(j) \/ Create(j) \/ Count(j) \/ Tell(j) \/ Finish(j) \/ Fail(j) \/ Cancel(j) \/ Kill(j)
        PROVE  LearnInv'
    <3>1. CASE AskPrepare(j) \/ Enqueue(j) \/ AskRecommend(j) \/ Open(j) \/ Review(j)
      BY <3>1, AskPrepareKeeps, EnqueueKeeps, AskRecommendKeeps, OpenKeeps, ReviewKeeps
    <3>2. CASE Fetch(j) \/ PartDone(j) \/ Draw(j) \/ Create(j)
      BY <3>2, FetchKeeps, PartDoneKeeps, DrawKeeps, CreateKeeps
    <3>3. CASE Count(j) \/ Tell(j) \/ Finish(j) \/ Fail(j) \/ Cancel(j) \/ Kill(j)
      BY <3>3, CountKeeps, TellKeeps, FinishKeeps, FailKeeps, CancelKeeps, KillKeeps
    <3>. QED
      BY <2>2, <3>1, <3>2, <3>3, Zenon
  <2>. QED
    BY <1>2, <2>1, <2>2, Zenon DEF StudyNext
<1>. QED
  BY <1>1, <1>2

\* What the invariant says of the plans, the pages and the jobs.
LEMMA LearnInvHolds == ASSUME StudyAssumption, LearnInv PROVE PlansHold
<1>0. /\ GoodPlans(plan) /\ QuizTypes /\ Rooted(quiz, living, job) /\ Settled(plan, killed, job)
      /\ quiz \in Seq(MadeQuizzes \cup {None}) /\ DOMAIN quiz = 1 .. Len(quiz)
  BY QuizIs DEF LearnInv
<1>1. StudyTypeOK
  <2>1. \A q \in Valid(None) : quiz[q].target \in living
    BY <1>0 DEF Valid, Seen, Rooted
  <2>2. \A p \in Plans : plan[p] # None => IsInjective(plan[p].types) /\ IsInjective(plan[p].resources)
    BY <1>0 DEF GoodPlans, GoodScope
  <2>3. \A q \in DOMAIN quiz : quiz[q] # None /\ quiz[q].tx # None =>
          job[quiz[q].tx] # None /\ job[quiz[q].tx].op = "recommend"
    BY <1>0 DEF Rooted
  <2>. QED
    BY <2>1, <2>2, <2>3 DEF StudyTypeOK
<1>2. NumbersAgree
  <2>1. \A p \in Plans : plan[p] # None => CountPrepared(None, plan[p]) = Available(plan[p])
    BY <1>0, AsManyAsPrepared DEF GoodPlans
  <2>2. \A t \in Types, r \in {ResourceOf[s] : s \in Sentences} :
          LET rate == AttemptRate(None, t, r)  answers == Performance(None, t, r) IN
          /\ Len(Unattempted(None, t, r, MaxQuizzes)) + Cardinality(Untold(t, r)) = rate.available - rate.attempted
          /\ Coverage(None, t, r).covered <= rate.available
          /\ answers.corrects <= answers.attempts
    <3>. TAKE t \in Types, r \in {ResourceOf[s] : s \in Sentences}
    <3>. QED
      BY <1>0, PagesAgree, Zenon
  <2>. QED
    BY <2>1, <2>2, Zenon DEF NumbersAgree
<1>3. NoSurplus
  BY JobIs DEF NoSurplus, Measure, Done
<1>4. OnePerTarget
  <2>. SUFFICES ASSUME NEW j \in Requests, job[j] # None, NEW a \in job[j].cover \cap Valid(j),
                       NEW b \in job[j].cover \cap Valid(j), a # b,
                       quiz[a].type = quiz[b].type, quiz[a].target = quiz[b].target
                PROVE  FALSE
    BY DEF OnePerTarget
  <2>1. Alike(quiz, a, b)
    BY DEF Alike, Alive, Valid, Seen
  <2>2. Single(job[j], quiz)
    BY JobIs DEF Books
  <2>. QED
    BY <2>1, <2>2 DEF Single
<1>5. NothingAskedTwice
  <2>1. \A j \in Requests : job[j] # None => NotTwice(job[j], quiz)
    BY JobIs DEF Books
  <2>. QED
    BY <2>1 DEF NothingAskedTwice, NotTwice
<1>6. NeverStuck
  <2>. SUFFICES ASSUME NEW p \in Plans, Waits(plan, p), p \notin killed
                PROVE  \E j \in Requests : job[j] # None /\ job[j].op = "prepare" /\ p \in ToSet(job[j].plans)
    BY DEF NeverStuck, Waits
  <2>1. PICK j \in Requests : Pending(job[j], p)
    BY <1>0 DEF Settled
  <2>2. job[j] # None /\ job[j].op = "prepare" /\ job[j].at # "end"
    BY <2>1 DEF Pending
  <2>3. job[j].plans \in Seq(Plans) /\ job[j].plans # <<>>
    BY <2>2, JobIs, Fields DEF Course
  <2>4. p \in ToSet(job[j].plans)
    BY <2>1, <2>3, BatchIs DEF Pending
  <2>. QED
    BY <2>2, <2>4
<1>. QED
  BY <1>1, <1>2, <1>3, <1>4, <1>5, <1>6 DEF PlansHold

(* However many jobs fill a plan while its quizzes are answered, edited and broken:
   the numbers on the pages agree, a preparation makes no more than was asked for, no
   sentence gets a second quiz of a type or is asked about twice in a list, and a plan
   that is shown as queued or running is one that a job will settle or a kill cut off. *)
THEOREM PlansAreHeld == ASSUME StudyAssumption PROVE StudySpec => []PlansHold
<1>1. StudyInit => LearnInv
  BY LearnBegins
<1>2. LearnInv /\ [StudyNext]_learnVars => LearnInv'
  BY LearnSteps
<1>3. LearnInv => PlansHold
  BY LearnInvHolds
<1>. QED
  BY <1>1, <1>2, <1>3, PTL DEF StudySpec
=============================================================================
