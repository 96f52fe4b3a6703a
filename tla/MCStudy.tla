------------------------------- MODULE MCStudy -------------------------------
(* What a user studies, and what happens around it, in parts that share no state:
   transactions (of a request, of a worker), the review of a day, experience and
   levels, notices, study plans, and the quizzes of all users.  The first state says
   which part moves.                                                                *)
EXTENDS Transactions, Sequences, TLC

CONSTANTS Two,     \* two requests, devices or jobs, whichever the part has
          a, b,
          r1, w1,  \* the request and the worker
          None

VARIABLES part
VARIABLES today, living, born, review, work, holder, req, asks
VARIABLES xDay, existing, coefficient, settings, ledger, xOwn, xHolder, xReq, xAsks
VARIABLES box, read, last, subs, tx, saved
VARIABLES plan, source, quiz, job, killed, steps
VARIABLES sent, asked, note, newest, made, scope, bReq, bAsks, crossed, strayed

planVars   == <<plan, source, quiz, job, killed, steps>>
ofXp       == <<xDay, existing, coefficient, settings, ledger, xOwn, xHolder, xReq, xAsks>>
ofDay      == <<today, living, born, review, work, holder, req, asks>>
ofMail     == <<box, read, last, subs, tx, saved>>
ofBoard    == <<sent, asked, note, newest, made, scope, bReq, bAsks, crossed, strayed>>

---------------------------------------------------------------------------
(* Instances.                                                                 *)

MCParent == [c \in {"handler", "helper"} |-> IF c = "handler" THEN r1 ELSE w1]
MCQuota == [t \in {"handler", "helper", r1, w1} |-> IF t = r1 THEN 0 ELSE IF t = "helper" THEN 1 ELSE 3]

Items == {1, 2, 3}
KindOf == [i \in Items |-> IF i = 3 THEN "quizzes" ELSE "tanbuns"]
SourceOf == [i \in Items |-> IF i = 2 THEN "s" ELSE "r"]
Standard == [scope |-> {"r", "s"}, size |-> 1]
Configs == {[scope |-> {"r"}, size |-> 1], [scope |-> {"s"}, size |-> 2]}
INSTANCE DailyReview WITH
    db <- review, Clients <- Two, Profiles <- {"default", "p"}, Fragile <- {1}, LastDay <- 1, Keep <- 1, Limit <- 2, MaxAsks <- 3
ASSUME DailyAssumption

Subjects == {"s", "q"}
IsQuiz == [x \in Subjects |-> x = "q"]
XpOf == [x \in Subjects |-> IF x = "s" THEN "r2" ELSE "r1"]
INSTANCE Experience WITH
    today <- xDay, db <- ledger, own <- xOwn, holder <- xHolder, req <- xReq, asks <- xAsks,
    Clients <- Two, ResourceOf <- XpOf, Fragile <- {"s"}, Coefficients <- {2}, LastDay <- 1, MaxAsks <- 3, MaxSettings <- 1
ASSUME XpAssumption

INSTANCE Notices WITH
    Users <- {"u", "v"}, Devices <- {"d"}, Requests <- Two, MaxStored <- 1, MaxNotices <- 3
ASSUME MailAssumption

\* A quiz that is there at the beginning, and what a user may save as a plan.
Made(type, target, attempts, vague) ==
    [type |-> type, target |-> target, broken |-> FALSE, vague |-> vague,
     attempts |-> attempts, corrects |-> 0, tx |-> None]
Draft(types, resources, n) == [types |-> types, resources |-> resources, n |-> n]
Texts == {"s1", "s2", "s3", "s4"}
TextOf == [s \in Texts |-> "r1"]
Related == {<<"s3", "s1">>, <<"s3", "s2">>}
Drafts == {Draft(<<"term">>, <<"r1", "r2">>, 3), Draft(<<"pair">>, <<"r1">>, 2)}
Preset == Draft(<<"term", "pair">>, <<"r1">>, 2)
Insufficient == {<<"term", "s3">>}
Starts == {<<>>, <<Made("term", "s1", 1, FALSE), Made("term", "s1", 0, TRUE)>>, <<Made("term", "s4", 0, FALSE)>>}
Learning == INSTANCE StudyPlans WITH
    living <- source, Plans <- {"p", "q"}, Home <- "p", Types <- {"term", "pair"}, TermTypes <- {"term"},
    Sentences <- Texts, Defined <- Texts, Explained <- Texts \ {"s4"}, Resources <- {"r1", "r2"}, ResourceOf <- TextOf, Fragile <- {"s2"},
    Batches <- {<<"p">>, <<"p", "q">>}, Wanted <- {2},
    Factor <- 2, Requests <- Two, MaxSteps <- 2, MaxQuizzes <- 4, MaxAnswers <- 1
ASSUME Learning!StudyAssumption

\* There is no quiz, or one, in a text or with references an import has broken.
NoQuiz == [i \in {1, 2} |-> None]
AQuiz(broken) == (1 :> [creator |-> "u", target |-> "s", options |-> {"t", "o"}, broken |-> broken])
                 @@ (2 :> None)
Sentence(retired) == [s \in {"s", "t", "o"} |-> IF s \in retired THEN "retired" ELSE "live"]
BoardStarts == {[sent |-> Sentence(lost), quiz |-> AQuiz(lost), made |-> 1] : lost \in {{}, {"s", "o"}}}
               \cup {[sent |-> Sentence({}), quiz |-> NoQuiz, made |-> 0]}
Scopes == {("u" :> {"s", "t", "o"}) @@ ("v" :> {}), ("u" :> {}) @@ ("v" :> {})}
\* Both quizzes ask for a term that t has lost, or only the second one.
Namings == {[asking |-> {1, 2}, named |-> {"s", "o"}], [asking |-> {2}, named |-> {"s", "t"}]}
INSTANCE QuizBoard WITH
    quiz <- asked, last <- newest, req <- bReq, asks <- bAsks,
    Users <- {"u", "v"}, Requests <- Two, QuizIds <- {1, 2}, Sentences <- {"s", "t", "o"},
    Fragile <- {"t", "o"}, Starts <- BoardStarts,
    MaxAsks <- 3, MaxNotes <- 2
ASSUME BoardAssumption

---------------------------------------------------------------------------
studyVars == <<part, txVars, ofDay, ofXp, ofMail, planVars, ofBoard>>

\* A part that does not move stays as it begins.
NoPlans == plan = None /\ source = None /\ quiz = None /\ job = None /\ killed = None /\ steps = None
NoBoard == made = 0 /\ scope["u"] = {}

\* Of the transactions, either the worker and its helper move or the request and its handler.
ByRequest == \A t \in {w1, "helper"} : depth[t] = 0 /\ count[t] = 0
ByWorker == at[r1] = "new"

MCInit ==
    /\ part \in {"request", "worker", "day", "experience", "notices", "plans", "board"}
    /\ TInit
    /\ DayInit
    /\ XInit
    /\ NInit
    /\ IF part = "plans" THEN Learning!StudyInit ELSE NoPlans
    /\ BInit /\ (part # "board" => NoBoard)

OnlyTx == UNCHANGED <<ofDay, ofXp, ofMail, planVars, ofBoard>>
MCNext ==
    /\ UNCHANGED part
    /\ \/ part = "request" /\ TNext /\ ByRequest' /\ OnlyTx
       \/ part = "worker" /\ TNext /\ ByWorker' /\ OnlyTx
       \/ part = "day" /\ DayNext
          /\ UNCHANGED <<txVars, ofXp, ofMail, planVars, ofBoard>>
       \/ part = "experience" /\ XNext
          /\ UNCHANGED <<txVars, ofDay, ofMail, planVars, ofBoard>>
       \/ part = "notices" /\ NNext
          /\ UNCHANGED <<txVars, ofDay, ofXp, planVars, ofBoard>>
       \/ part = "plans" /\ Learning!StudyNext
          /\ UNCHANGED <<txVars, ofDay, ofXp, ofMail, ofBoard>>
       \/ part = "board" /\ BNext
          /\ UNCHANGED <<txVars, ofDay, ofXp, ofMail, planVars>>
MCSpec == MCInit /\ [][MCNext]_studyVars
MCSym == Permutations(Two)

---------------------------------------------------------------------------
(* What each part must keep; the modules say why.  SavedAsWhole, ReviewSetKept,
   NewestKept, BoardHolds and LevelsTold are those of the modules.                        *)

\* However many jobs fill a plan while it is learnt from and edited, its numbers
\* agree, it gets what was asked for and nothing twice, and none is left unsettled.
PlansHold == part = "plans" => Learning!PlansHold
\* A plan is said to be exhausted only when no part of it could give another quiz.
ExhaustedMeansNone == part = "plans" => Learning!ExhaustedMeansNone
=============================================================================
