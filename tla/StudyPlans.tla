------------------------------ MODULE StudyPlans ------------------------------
(* The study plans of a user, the quizzes made for them and the quizzes recommended
   from them (quiz/learning: study_plan, fill, review, recommendation, selection and
   progress; quiz/generation/repo.py).

   A preparation runs after its request, every query committed by itself; a
   recommendation runs in the transaction of its request and sees what is committed
   and what it made itself.  Meanwhile the user answers, edits and deletes, and texts
   are imported again.  Nothing keeps two of these from working on one plan.         *)
EXTENDS Naturals, Sequences, FiniteSets, SequencesExt

CONSTANTS
    Plans,        \* ids of plans
    Home,         \* the default plan of a resource, which the game made
    Types,        \* QuizType
    TermTypes,    \* has_term: the target must be defined by a term
    Sentences, Resources, ResourceOf,
    Defined,      \* sentences with a term
    Explained,    \* sentences that are not the placeholder of a term without explanation
    Related,      \* pairs of explained sentences on a knowledge path: target and right answer
    Insufficient, \* <<type, target>> for which there are too few options
    Fragile,      \* sentences an import may take away
    Drafts,       \* what a user may save: [types, resources, n]
    Preset,       \* the draft of a default plan
    Batches,      \* lists of plans prepared by one request
    Wanted,       \* additional_count
    Starts,       \* the quizzes there are
    Factor,       \* candidates tried for each quiz wanted
    Requests,     \* requests and the background jobs they start
    MaxSteps,     \* requests and imports in a behaviour
    MaxQuizzes, MaxAnswers,
    None

\* Plans have their types and resources once each (StudyPlanDraft, unique_items), batches
\* their plans (unique_plan_ids), and at least one is asked for.
DraftOK(draft) ==
    /\ draft.types \in Seq(Types) \ {<<>>} /\ draft.resources \in Seq(Resources) \ {<<>>}
    /\ IsInjective(draft.types) /\ IsInjective(draft.resources)
    /\ draft.n \in Nat
MadeQuizzes == [type : Types, target : Sentences, broken : BOOLEAN, vague : BOOLEAN,
                attempts : Nat, corrects : Nat, tx : Requests \cup {None}]
SavedPlans == [types : Seq(Types), resources : Seq(Resources), n : Nat, default : BOOLEAN,
               status : {"idle", "queued", "running", "ready", "exhausted", "failed"}]
Scopes == [types : Seq(Types), resources : Seq(Resources)]
PartsToFill == [type : Types, resource : Resources, n : Nat \ {0}]
Preparations ==
    [op : {"prepare", "recommend"}, plans : Seq(Plans), plan : Scopes \cup {None},
     at : {"queue", "open", "look", "fetch", "draw", "create", "count", "told", "end"},
     want : Nat, before : Nat, total : Nat, todo : Seq(PartsToFill), second : BOOLEAN,
     why : {None, "coverage", "review"}, need : Nat,
     list : Seq(Sentences \X (Sentences \cup {None})), made : SUBSET Nat, cover : SUBSET Nat,
     shown : Seq([quiz : Nat, new : BOOLEAN, round : Nat]), round : Nat, calm : BOOLEAN,
     outcome : {None, "ready", "exhausted"}]
StudyAssumption ==
    /\ Home \in Plans /\ None \notin Requests
    /\ IsFiniteSet(Sentences) /\ Explained \subseteq Sentences /\ Related \subseteq Explained \X Explained
    /\ \A s \in Sentences : ResourceOf[s] \in Resources
    /\ \A draft \in Drafts \cup {Preset} : DraftOK(draft)
    /\ Batches \subseteq Seq(Plans) \ {<<>>} /\ Wanted \subseteq Nat \ {0}
    /\ {Factor, MaxQuizzes} \subseteq Nat \ {0}
    /\ \A list \in Starts : list \in Seq(MadeQuizzes) /\ Len(list) <= MaxQuizzes
                            /\ \A n \in DOMAIN list : list[n].tx = None /\ list[n].corrects <= list[n].attempts
    /\ None \notin MadeQuizzes \cup SavedPlans \cup Scopes \cup Preparations

VARIABLES
    plan,     \* [Plans -> None or [types, resources, n, default, status]]
    living,   \* sentences that are there
    quiz,     \* in the order made: [type, target, broken, vague, attempts, corrects, tx]
    job,      \* [Requests -> None or its record]
    killed,   \* plans whose preparation was cut off: shown as failed after a while
    steps

learnVars == <<plan, living, quiz, job, killed, steps>>

Min2(a, b) == IF a < b THEN a ELSE b
NewPlan(draft, default) ==
    [types |-> draft.types, resources |-> draft.resources, n |-> draft.n,
     default |-> default, status |-> "idle"]

StudyInit ==
    /\ plan = [p \in Plans |-> IF p = Home THEN NewPlan(Preset, TRUE) ELSE None]
    /\ living = Sentences /\ quiz \in Starts
    /\ job = [j \in Requests |-> None]
    /\ killed = {} /\ steps = 0

---------------------------------------------------------------------------
(* What the queries find.  j sees its own quizzes before they are committed; None
   stands for a query outside of any transaction.                                 *)
Seen(j) == {q \in DOMAIN quiz : quiz[q] # None /\ quiz[q].tx \in {None, j}}
Valid(j) == {q \in Seen(j) : ~quiz[q].broken}
On(j, type, r) == {q \in Valid(j) : quiz[q].type = type /\ ResourceOf[quiz[q].target] = r}

Eligible(type, r) == {s \in living \cap Explained : ResourceOf[s] = r /\ (type \in TermTypes => s \in Defined)}
Covered(j, type, r) == {s \in Eligible(type, r) : \E q \in On(j, type, r) : quiz[q].target = s}
Uncovered(j, type, r) == Eligible(type, r) \ Covered(j, type, r)

\* What a number of each quiz in a set adds up to; the set in the order they were made.
Sum(ids, number) ==
    LET upTo[n \in 0..Len(quiz)] ==
          IF n = 0 THEN 0 ELSE upTo[n - 1] + IF n \in ids THEN quiz[n][number] ELSE 0
    IN  upTo[Len(quiz)]
InOrder(ids) ==
    LET upTo[n \in 0..Len(quiz)] ==
          IF n = 0 THEN <<>> ELSE IF n \in ids THEN Append(upTo[n - 1], n) ELSE upTo[n - 1]
    IN  upTo[Len(quiz)]
Attempts(ids) == Sum(ids, "attempts")
Corrects(ids) == Sum(ids, "corrects")
About(j, type, s) == {q \in On(j, type, ResourceOf[s]) : quiz[q].target = s}

\* fetch_coverage, fetch_attempt_rate, fetch_performance.
Coverage(j, type, r) ==
    [eligible |-> Cardinality(Eligible(type, r)), covered |-> Cardinality(Covered(j, type, r))]
AttemptRate(j, type, r) ==
    [available |-> Cardinality(On(j, type, r)),
     attempted |-> Cardinality({q \in On(j, type, r) : quiz[q].attempts > 0})]
Performance(j, type, r) ==
    [attempts |-> Attempts(On(j, type, r)), corrects |-> Corrects(On(j, type, r))]

\* count_prepared_quizzes.
CountPrepared(j, p) ==
    Cardinality({q \in Valid(j) : /\ \E t \in ToSet(p.types) : quiz[q].type = t
                                  /\ ResourceOf[quiz[q].target] \in ToSet(p.resources)})

\* fetch_unattempted_quiz_ids: the oldest ones; not those that refer to a placeholder,
\* which older quizzes and repaired ones may.
Vague(q) == quiz[q].vague \/ quiz[q].target \notin Explained
Unattempted(j, type, r, n) ==
    LET all == InOrder({q \in On(j, type, r) : quiz[q].attempts = 0 /\ ~Vague(q)})
    IN  SubSeq(all, 1, Min2(n, Len(all)))

---------------------------------------------------------------------------
(* generate_quizzes: which targets, in which order, and how many are tried.       *)

\* A quiz about a relation takes its target from the pairs without one, whatever the
\* strategy; the others are about sentences with or without a quiz, by strategy.
Pool(j, type, r, why, excluded) ==
    IF type \notin TermTypes
    THEN {pair \in Related : pair[1] \in Uncovered(j, type, r) \ excluded /\ pair[2] \in living}
    ELSE {<<s, None>> : s \in (IF why = "review" THEN {x \in Covered(j, type, r) : Attempts(About(j, type, x)) > 0}
                               ELSE Uncovered(j, type, r)) \ excluded}

\* LOW_ACCURACY: fewest right answers first.  The other orders go by data that is left out.
Weaker(j, type, a, b) ==
    Corrects(About(j, type, a)) * Attempts(About(j, type, b))
        <= Corrects(About(j, type, b)) * Attempts(About(j, type, a))
Ordered(j, type, why, list) ==
    why = "review" /\ type \in TermTypes =>
        \A m, n \in DOMAIN list : m < n => Weaker(j, type, list[m][1], list[n][1])
Lists(j, type, r, why, excluded, n) ==
    LET targets == Pool(j, type, r, why, excluded)
        all == {s \in SetToSeqs(targets) : Ordered(j, type, why, s)}
    IN  {SubSeq(s, 1, Min2(Factor * n, Len(s))) : s \in all}

\* generate_quiz raises InsufficientOptionsError.
TooFew(type, pair) ==
    \/ <<type, pair[1]>> \in Insufficient
    \/ pair[1] \notin living \/ (pair[2] # None /\ pair[2] \notin living)
\* One quiz for a target of the list.
Again(w, pair) == \E q \in w.made : quiz[q] # None /\ quiz[q].target = pair[1]

---------------------------------------------------------------------------
(* The steps of a job.                                                            *)

CountStep == steps < MaxSteps /\ steps' = steps + 1
Stage(j, step) == job[j] # None /\ job[j].at = step
Step(j, w) == job' = [job EXCEPT ![j] = w]
Tx(w, j) == IF w.op = "recommend" THEN j ELSE None

Parts(p) == [n \in 1..(Len(p.types) * Len(p.resources)) |->
    [type |-> p.types[((n - 1) \div Len(p.resources)) + 1],
     resource |-> p.resources[((n - 1) % Len(p.resources)) + 1]]]
\* _allocate_counts.
Share(total, size, index) == (total \div size) + IF index <= total % size THEN 1 ELSE 0
Counted(part, n) == [type |-> part.type, resource |-> part.resource, n |-> n]
WithCounts(parts, counts) ==
    LET upTo[n \in 0..Len(parts)] ==
          IF n = 0 THEN <<>>
          ELSE IF counts[n] > 0 THEN Append(upTo[n - 1], Counted(parts[n], counts[n])) ELSE upTo[n - 1]
    IN  upTo[Len(parts)]

NewJob(op, at, plans, want, todo) ==
    [op |-> op, at |-> at, plans |-> plans, plan |-> None, want |-> want, before |-> 0,
     todo |-> todo, second |-> FALSE, why |-> None, need |-> 0, list |-> <<>>, made |-> {}, cover |-> {},
     total |-> 0, shown |-> <<>>, round |-> 0, calm |-> TRUE, outcome |-> None]

Scope(p) == [types |-> p.types, resources |-> p.resources]

\* POST /study-plans/prepare and /{plan_id}/prepare: the plans exist and none of them is
\* being prepared, as far as the request can see.
Busy(p) == plan[p].status \in {"queued", "running"} /\ p \notin killed
AskPrepare(j) ==
    /\ job[j] = None /\ CountStep
    /\ \E batch \in Batches, want \in Wanted :
        /\ \A p \in ToSet(batch) : plan[p] # None /\ ~Busy(p)
        /\ Step(j, NewJob("prepare", "queue", batch, want, <<>>))
    /\ UNCHANGED <<plan, living, quiz, killed>>
SetStatus(ids, now) ==
    plan' = [p \in Plans |-> IF p \in ids /\ plan[p] # None THEN [plan[p] EXCEPT !.status = now] ELSE plan[p]]
Enqueue(j) ==
    /\ Stage(j, "queue")
    /\ SetStatus(ToSet(job[j].plans), "queued") /\ killed' = killed \ ToSet(job[j].plans)
    /\ Step(j, [job[j] EXCEPT !.at = "open"])
    /\ UNCHANGED <<living, quiz, steps>>

\* POST /{plan_id}/recommendations, for one type of the plan or for all.
AskRecommend(j) ==
    /\ job[j] = None /\ CountStep
    /\ \E p \in Plans, types \in {Types} \cup {{t} : t \in Types} :
        /\ plan[p] # None
        /\ LET w == plan[p]
               most == IF w.n > Len(w.types) THEN w.n ELSE Len(w.types)
               size == Len(w.resources)
               todo == WithCounts(Parts(w), [n \in DOMAIN Parts(w) |->
                   LET index == ((n - 1) \div size) + 1 IN
                   IF w.types[index] \notin types THEN 0
                   ELSE Share(Share(most, Len(w.types), index), size, ((n - 1) % size) + 1)])
           IN  Step(j, NewJob("recommend", IF todo = <<>> THEN "end" ELSE "look", <<>>, most, todo))
    /\ UNCHANGED <<plan, living, quiz, killed>>

\* The next plan of the batch: it is read, its quizzes are counted, it is running.
NextPlan(w) == [w EXCEPT !.plans = Tail(@), !.at = IF Len(w.plans) > 1 THEN "open" ELSE "end"]
Open(j) ==
    /\ Stage(j, "open")
    /\ LET p == Head(job[j].plans) IN
        IF plan[p] = None
        THEN Step(j, NextPlan(job[j])) /\ UNCHANGED <<plan, quiz>>
        ELSE /\ Step(j, [job[j] EXCEPT !.at = "fetch", !.plan = Scope(plan[p]), !.before = CountPrepared(None, plan[p]),
                    !.todo = LET parts == Parts(plan[p])
                             IN  WithCounts(parts, [n \in DOMAIN parts |-> Share(job[j].want, Len(parts), n)]),
                    !.second = FALSE, !.why = "coverage", !.total = 0, !.calm = TRUE, !.outcome = None])
             /\ SetStatus({p}, "running") /\ quiz' = quiz
    /\ UNCHANGED <<living, killed, steps>>

\* What is there comes first in a recommendation; what is missing is made, to review
\* what went wrong first.
Review(j) ==
    /\ Stage(j, "look")
    /\ LET w == job[j]  part == Head(w.todo)
           found == Unattempted(j, part.type, part.resource, part.n)
       IN  Step(j, [w EXCEPT !.shown = @ \o [n \in DOMAIN found |-> [quiz |-> found[n], new |-> FALSE, round |-> w.round]],
                             !.need = part.n - Len(found), !.why = "review", !.at = "fetch"])
    /\ UNCHANGED <<plan, living, quiz, killed, steps>>
Excluded(w) == {quiz[w.shown[n].quiz].target : n \in {m \in DOMAIN w.shown :
                    w.shown[m].round = w.round /\ quiz[w.shown[m].quiz] # None}}

Remaining(w) == w.want - w.total
Needed(w) == IF w.op = "recommend" THEN w.need
             ELSE IF w.second THEN Remaining(w) ELSE Head(w.todo).n
Fetch(j) ==
    /\ Stage(j, "fetch")
    /\ LET w == job[j]  part == Head(w.todo)  n == Needed(w)
           excluded == IF w.op = "recommend" THEN Excluded(w) ELSE {}
       IN  \E list \in Lists(Tx(w, j), part.type, part.resource, w.why, excluded, n) :
               Step(j, [w EXCEPT !.list = list, !.need = n, !.made = {}, !.at = "draw"])
    /\ UNCHANGED <<plan, living, quiz, killed, steps>>

\* The end of a list: another part, the second round over all of them for what is
\* still missing, or the end.
\* (Faulty variant: the loop over the parts is left after the first one.)
FirstOnly(j, w, rest) ==
    [w EXCEPT !.todo = rest, !.list = <<>>, !.made = {}, !.at = IF w.op = "recommend" THEN "end" ELSE "count"]
Advance(j, w, rest) ==
    IF rest # <<>> THEN [w EXCEPT !.todo = rest, !.list = <<>>, !.made = {}, !.need = 0,
                                  !.round = IF w.op = "recommend" THEN @ + 1 ELSE @,
                                  !.at = IF w.op = "recommend" THEN "look" ELSE "fetch"]
    ELSE IF w.op = "recommend" THEN [w EXCEPT !.todo = rest, !.list = <<>>, !.at = "end"]
    ELSE [w EXCEPT !.todo = rest, !.list = <<>>, !.made = {}, !.at = "count"]
PartDone(j) ==
    /\ Stage(j, "draw")
    /\ LET w == job[j]  enough == Cardinality(w.made) = w.need IN
        /\ enough \/ w.list = <<>>
        /\ Step(j,
             IF w.op = "recommend" /\ w.why = "review" /\ ~enough
             THEN [w EXCEPT !.why = "coverage", !.need = @ - Cardinality(w.made), !.at = "fetch"]
             ELSE IF w.op = "prepare" /\ Remaining(w) > 0 /\ ~w.second /\ Len(w.todo) = 1
             THEN LET parts == Parts(w.plan) IN
                  [w EXCEPT !.second = TRUE, !.todo = WithCounts(parts, [n \in DOMAIN parts |-> 1]),
                            !.list = <<>>, !.made = {}, !.at = "fetch"]
             ELSE Advance(j, w, IF w.second /\ Remaining(w) = 0 THEN <<>> ELSE Tail(w.todo)))
    /\ UNCHANGED <<plan, living, quiz, killed, steps>>

\* generate_quiz: the options are drawn, or too few are there and the target is skipped.
Draw(j) ==
    /\ Stage(j, "draw")
    /\ LET w == job[j] IN
        /\ w.list # <<>> /\ Cardinality(w.made) < w.need
        /\ LET skipped == {n \in DOMAIN w.list : Again(w, w.list[n]) \/ TooFew(Head(w.todo).type, w.list[n])}
               first == CHOOSE n \in 1..(Len(w.list) + 1) : n \notin skipped /\ 1..(n - 1) \subseteq skipped
           IN  Step(j, [w EXCEPT !.list = SubSeq(@, first, Len(@)),
                                 !.at = IF first > Len(w.list) THEN "draw" ELSE "create"])
    /\ UNCHANGED <<plan, living, quiz, killed, steps>>
\* The quiz is created, unless the target went away meanwhile: then there is no quiz to
\* read back and the job fails.
Create(j) ==
    /\ Stage(j, "create") /\ Len(quiz) < MaxQuizzes
    /\ LET w == job[j]  pair == Head(w.list)  id == Len(quiz) + 1 IN
        /\ pair[1] \in living
        /\ quiz' = Append(quiz, [type |-> Head(w.todo).type, target |-> pair[1], broken |-> FALSE, vague |-> FALSE,
                                 attempts |-> 0, corrects |-> 0, tx |-> Tx(w, j)])
        /\ Step(j, [w EXCEPT !.list = Tail(@), !.made = @ \cup {id}, !.total = @ + 1, !.at = "draw",
                             !.cover = IF w.why = "coverage" THEN @ \cup {id} ELSE @,
                             !.shown = IF w.op = "prepare" THEN @
                                       ELSE Append(@, [quiz |-> id, new |-> TRUE, round |-> w.round])])
    /\ UNCHANGED <<plan, living, killed, steps>>

\* The quizzes of the plan are counted again; a batch goes on with the next plan.
Count(j) ==
    /\ Stage(j, "count")
    /\ LET w == job[j]  p == Head(w.plans)
           now == IF plan[p] = None THEN 0 ELSE CountPrepared(None, plan[p])
           outcome == IF now >= w.before + w.want THEN "ready" ELSE "exhausted"
       IN  SetStatus({p}, outcome) /\ Step(j, [w EXCEPT !.outcome = outcome, !.at = "told"])
    /\ UNCHANGED <<living, quiz, killed, steps>>
Tell(j) == Stage(j, "told") /\ Step(j, NextPlan(job[j])) /\ UNCHANGED <<plan, living, quiz, killed, steps>>

Finish(j) ==
    /\ Stage(j, "end")
    /\ quiz' = [q \in DOMAIN quiz |-> IF quiz[q] # None /\ quiz[q].tx = j THEN [quiz[q] EXCEPT !.tx = None] ELSE quiz[q]]
    /\ Step(j, None) /\ UNCHANGED <<plan, living, killed, steps>>

\* An exception: the plan is marked, the batch goes on; when the plan cannot be read
\* nothing is written, and it is shown as failed after a while.  A plan prepared alone
\* fails with its notice, too.  A recommendation is rolled back.
InHand(j) == /\ job[j] # None /\ job[j].op = "prepare" /\ job[j].at \notin {"queue", "end"}
             /\ job[j].at = "told" => Len(job[j].plans) = 1
\* (Faulty variant: the failure is not written.)
LeaveRunning(p) == plan' = plan
MarkFailed(p) == SetStatus({p}, "failed")
Undone(j) == [q \in DOMAIN quiz |-> IF quiz[q] # None /\ quiz[q].tx = j THEN None ELSE quiz[q]]
Fail(j) ==
    \/ /\ InHand(j)
       /\ MarkFailed(Head(job[j].plans)) /\ Step(j, NextPlan(job[j])) /\ quiz' = quiz
       /\ UNCHANGED <<living, killed, steps>>
    \/ /\ Stage(j, "open")
       /\ Step(j, NextPlan(job[j])) /\ killed' = killed \cup {Head(job[j].plans)}
       /\ UNCHANGED <<plan, living, quiz, steps>>
    \/ /\ job[j] # None /\ job[j].op = "recommend"
       /\ quiz' = Undone(j) /\ Step(j, None)
       /\ UNCHANGED <<plan, living, killed, steps>>
\* The time of the job is over: the plan in hand is marked, those behind it are not.
Cancel(j) ==
    /\ InHand(j)
    /\ MarkFailed(Head(job[j].plans)) /\ killed' = killed \cup ToSet(Tail(job[j].plans))
    /\ Step(j, None) /\ UNCHANGED <<living, quiz, steps>>
\* The process ends, or the time is over before a plan is in hand: nothing more is written.
Kill(j) ==
    /\ job[j] # None /\ job[j].at # "end"
    /\ killed' = killed \cup IF job[j].op = "prepare" /\ job[j].at # "queue" THEN ToSet(job[j].plans) ELSE {}
    /\ quiz' = Undone(j) /\ Step(j, None)
    /\ UNCHANGED <<plan, living, steps>>

---------------------------------------------------------------------------
(* The user and the texts meanwhile.                                              *)

Disturbed == [j \in Requests |-> IF job[j] = None THEN None ELSE [job[j] EXCEPT !.calm = FALSE]]
Edit == CountStep /\ job' = Disturbed

CreatePlan ==
    /\ \E p \in Plans, draft \in Drafts :
        plan[p] = None /\ plan' = [plan EXCEPT ![p] = NewPlan(draft, FALSE)]
    /\ Edit /\ UNCHANGED <<living, quiz, killed>>
\* A default plan of other resources becomes a plan like any other.
UpdatePlan ==
    /\ \E p \in Plans, draft \in Drafts :
        /\ plan[p] # None
        /\ plan' = [plan EXCEPT ![p] = [NewPlan(draft, @.default /\ @.resources = draft.resources)
                                          EXCEPT !.status = plan[p].status]]
    /\ Edit /\ UNCHANGED <<living, quiz, killed>>
DeletePlan ==
    /\ \E p \in Plans : /\ plan[p] # None /\ ~plan[p].default
                        /\ plan' = [plan EXCEPT ![p] = None] /\ killed' = killed \ {p}
    /\ Edit /\ UNCHANGED <<living, quiz>>

Answer ==
    /\ \E q \in Valid(None), correct \in BOOLEAN :
        /\ quiz[q].attempts < MaxAnswers
        /\ quiz' = [quiz EXCEPT ![q].attempts = @ + 1, ![q].corrects = IF correct THEN @ + 1 ELSE @]
    /\ CountStep /\ UNCHANGED <<plan, living, job, killed>>
DeleteQuiz ==
    /\ \E q \in Seen(None) : quiz' = [quiz EXCEPT ![q] = None]
    /\ Edit /\ UNCHANGED <<plan, living, killed>>
\* An import takes a sentence away: quizzes about it are broken, those that offer it as
\* an option are too.
Import ==
    /\ \E s \in living \cap Fragile : living' = living \ {s} /\
        \E offered \in SUBSET Valid(None) :
            /\ Cardinality(offered) <= 1
            /\ quiz' = [q \in DOMAIN quiz |-> IF quiz[q] # None /\ (quiz[q].target = s \/ q \in offered)
                                              THEN [quiz[q] EXCEPT !.broken = TRUE] ELSE quiz[q]]
    /\ Edit /\ UNCHANGED <<plan, killed>>

StudyNext ==
    \/ \E j \in Requests :
        \/ AskPrepare(j) \/ Enqueue(j) \/ AskRecommend(j) \/ Open(j) \/ Review(j) \/ Fetch(j) \/ PartDone(j)
        \/ Draw(j) \/ Create(j) \/ Count(j) \/ Tell(j) \/ Finish(j) \/ Fail(j) \/ Cancel(j) \/ Kill(j)
    \/ CreatePlan \/ UpdatePlan \/ DeletePlan \/ Answer \/ DeleteQuiz \/ Import
StudySpec == StudyInit /\ [][StudyNext]_learnVars

---------------------------------------------------------------------------
(* A valid quiz is about a sentence that is there; a plan has its types and resources
   once; an uncommitted quiz belongs to a recommendation that goes on.                *)
StudyTypeOK ==
    /\ \A q \in Valid(None) : quiz[q].target \in living
    /\ \A p \in Plans : plan[p] # None => IsInjective(plan[p].types) /\ IsInjective(plan[p].resources)
    /\ \A q \in DOMAIN quiz : quiz[q] # None /\ quiz[q].tx # None =>
          job[quiz[q].tx] # None /\ job[quiz[q].tx].op = "recommend"

(* The numbers on the pages agree: the quizzes of a plan are those its types and
   resources have, covered sentences are among the eligible, and what can be
   recommended without making anything is what was not tried yet -- but for quizzes that
   refer to a placeholder, which count as available and are never recommended.        *)
Available(p) ==
    LET parts == Parts(p)
        upTo[n \in 0..Len(parts)] ==
          IF n = 0 THEN 0 ELSE upTo[n - 1] + AttemptRate(None, parts[n].type, parts[n].resource).available
    IN  upTo[Len(parts)]
Untold(t, r) == {q \in On(None, t, r) : quiz[q].attempts = 0 /\ Vague(q)}
NumbersAgree ==
    /\ \A p \in Plans : plan[p] # None => CountPrepared(None, plan[p]) = Available(plan[p])
    /\ \A t \in Types, r \in {ResourceOf[s] : s \in Sentences} :
          LET rate == AttemptRate(None, t, r)  answers == Performance(None, t, r) IN
          /\ Len(Unattempted(None, t, r, MaxQuizzes)) + Cardinality(Untold(t, r)) = rate.available - rate.attempted
          /\ Coverage(None, t, r).covered <= rate.available
          /\ answers.corrects <= answers.attempts

(* A preparation makes no more quizzes than were asked for, however they are shared
   out and made up for.                                                              *)
NoSurplus == \A j \in Requests : job[j] # None =>
    /\ job[j].op = "prepare" => job[j].total <= job[j].want
    /\ job[j].op = "recommend" => Len(job[j].shown) <= job[j].want

(* For coverage one sentence gets one quiz of a type: a job makes a second one only if
   the first is broken by now.                                                        *)
OnePerTarget ==
    \A j \in Requests : job[j] # None =>
        \A a, b \in job[j].cover \cap Valid(j) :
            a # b => quiz[a].type # quiz[b].type \/ quiz[a].target # quiz[b].target

(* Nothing new is asked about a sentence that the same list already asks about.       *)
NothingAskedTwice ==
    \A j \in Requests : job[j] # None =>
        LET shown == job[j].shown IN
        \A m, n \in DOMAIN shown :
            /\ m < n /\ shown[n].new /\ shown[m].round = shown[n].round
            /\ quiz[shown[m].quiz] # None /\ quiz[shown[n].quiz] # None
            => quiz[shown[m].quiz].target # quiz[shown[n].quiz].target

(* A plan is said to be exhausted only when every part of it is: no sentence without a
   quiz could get one, or as many that could not were tried in vain as are tried at
   all.  Not said of a preparation during which quizzes, texts or plans were changed, nor
   where a sentence has more relations than are tried for a quiz: they take the places of
   others in the list, although a sentence gets one quiz.                              *)
InVain(part) ==
    LET targets == Pool(None, part.type, part.resource, "coverage", {})
        failing == {pair \in targets : TooFew(part.type, pair)}
    IN  failing = targets \/ Cardinality(failing) >= Factor
Crowded == \E s \in Sentences : Cardinality({pair \in Related : pair[1] = s}) > Factor
ExhaustedMeansNone ==
    \A j \in Requests : Stage(j, "told") /\ job[j].calm /\ job[j].outcome = "exhausted" =>
        Crowded \/ \A n \in DOMAIN Parts(job[j].plan) : InVain(Parts(job[j].plan)[n])

(* A plan that is shown as queued or running has a job that will settle it, or one that
   was cut off and whose time runs out: an error never leaves it so.                  *)
NeverStuck ==
    \A p \in Plans : plan[p] # None /\ plan[p].status \in {"queued", "running"} =>
        \/ p \in killed
        \/ \E j \in Requests : job[j] # None /\ job[j].op = "prepare" /\ p \in ToSet(job[j].plans)

\* However many jobs fill a plan while it is learnt from and edited, its numbers
\* agree, it gets what was asked for and nothing twice, and none is left unsettled.
PlansHold ==
    /\ StudyTypeOK /\ NumbersAgree /\ NoSurplus
    /\ OnePerTarget /\ NothingAskedTwice /\ NeverStuck
=============================================================================
