------------------------------ MODULE QuizBoard ------------------------------
(* The quizzes of all users: the sentences they are made of, the answers and reports
   they get, and what their creators repair, dismiss and delete
   (quiz/generation, answering, management and listing; resource/repo/retirement.py).

   A request first finds what it is about, then changes what it found and is committed.
   The database locks what is changed, not what was only read: between the two steps
   others are committed.  A change to something that is gone by then fails.          *)
EXTENDS Naturals, FiniteSets

CONSTANTS
    Users, Requests, QuizIds, Sentences,
    Fragile,      \* sentences an import may take away
    Starts,       \* the beginning: [sent, quiz, made]
    Scopes,       \* [Users -> SUBSET Sentences]: what the study plans of a user cover
    Namings,      \* [asking, named]: the quizzes that ask for a term, the sentences that have one
    MaxAsks, MaxNotes, None

VARIABLES
    sent,      \* [Sentences -> "live" | "retired" | "gone"]
    quiz,      \* [QuizIds -> None or [creator, target, options, broken]]
    note,      \* answers and reports: [id, of, kind, by, picked, open, told]
    last,      \* the newest of their ids
    made,      \* the newest quiz
    scope,     \* one of Scopes
    req,       \* [Requests -> None or what the request has found]
    asks,
    crossed, strayed   \* quizzes, and notes, changed by two requests that did not see each other

boardVars == <<sent, quiz, note, last, made, scope, req, asks, crossed, strayed>>

Refs(q) == {quiz[q].target} \cup quiz[q].options    \* the right one is among the options
Of(q, kind) == {n \in note : n.of = q /\ n.kind = kind}
There == {q \in QuizIds : quiz[q] # None}
CreatedBy(u) == {q \in There : quiz[q].creator = u}

QuizRec == [creator : Users, target : Sentences, options : SUBSET Sentences, broken : SUBSET Sentences]
\* At the beginning only what has broken is retired.
WellFormed(start) ==
    /\ start.sent \in [Sentences -> {"live", "retired", "gone"}] /\ start.made \in Nat
    /\ start.quiz \in [QuizIds -> QuizRec \cup {None}]
    /\ \A q \in QuizIds : start.quiz[q] # None =>
          LET used == {start.quiz[q].target} \cup start.quiz[q].options IN
          start.quiz[q].broken = {s \in used : start.sent[s] = "retired"}
          /\ \A s \in used : start.sent[s] # "gone"
BoardAssumption ==
    /\ QuizIds \subseteq Nat /\ IsFiniteSet(QuizIds) /\ None \notin QuizRec
    /\ Fragile \subseteq Sentences /\ Scopes \subseteq [Users -> SUBSET Sentences]
    /\ Namings \subseteq [asking : SUBSET QuizIds, named : SUBSET Sentences]
    /\ \A start \in Starts : WellFormed(start)

BInit ==
    /\ \E start \in Starts : sent = start.sent /\ quiz = start.quiz /\ made = start.made
    /\ note = {} /\ last = 0 /\ scope \in Scopes
    /\ req = [r \in Requests |-> None] /\ asks = 0 /\ crossed = {} /\ strayed = {}

---------------------------------------------------------------------------
(* What a request finds.                                                          *)

Found(r, what) == /\ req[r] = None /\ asks < MaxAsks /\ asks' = asks + 1
                  /\ req' = [req EXCEPT ![r] = what]
                  /\ UNCHANGED <<sent, quiz, note, last, made, scope, crossed, strayed>>
Doing(r, op) == req[r] # None /\ req[r].op = op
Done(r) == req' = [req EXCEPT ![r] = None] /\ UNCHANGED <<scope, asks>>

\* create_quiz_and_correct: target and options, which are sentences now.
FindForQuiz(r) ==
    \E u \in Users, t, o \in Sentences :
        /\ t # o /\ sent[t] = "live" /\ sent[o] = "live"
        /\ Found(r, [op |-> "create", new |->
               [creator |-> u, target |-> t, options |-> {o}, broken |-> {}]])
\* create_answer: the quiz and one of its options.
FindForAnswer(r) ==
    \E u \in Users, q \in There : \E s \in quiz[q].options :
        Found(r, [op |-> "answer", quiz |-> q, by |-> u,
                  picked |-> IF sent[s] = "live" THEN {s} ELSE {}])
\* report_quiz_issue: the creator is told of a first report, and of one after a dismissal.
\* Of two reports that a user made at a time, either row may come first.
FirstReport(known) == IF known = {} THEN {TRUE} ELSE {~n.open : n \in known}
FindForReport(r) ==
    \E u \in Users, q \in There :
        LET known == {n \in Of(q, "report") : n.by = u} IN
        \E created \in FirstReport(known) :
            Found(r, [op |-> "report", quiz |-> q, by |-> u, ids |-> {n.id : n \in known},
                      open |-> {n.id : n \in {x \in known : x.open}}, created |-> created])
\* dismiss_reported_quiz, by its creator.
FindForDismissal(r) ==
    \E q \in There : Found(r, [op |-> "dismiss", ids |-> {n.id : n \in {x \in Of(q, "report") : x.open}}])
\* delete_created_quiz and delete_created_quizzes: the quizzes of the list that are the
\* user's own, their answers and reports.
FindForDeletion(r) ==
    \E u \in Users, list \in SUBSET QuizIds :
        /\ list # {}
        /\ LET own == list \cap CreatedBy(u) IN
           Found(r, [op |-> "delete", quizzes |-> own,
                     ids |-> {n.id : n \in {x \in note : x.of \in own}}])
\* reattach_created_quiz_sentence: a broken reference and a sentence to take its place.
FindForRepair(r) ==
    \E q \in There : \E old \in quiz[q].broken, new \in Sentences :
        /\ sent[new] = "live"
        /\ Found(r, [op |-> "repair", quiz |-> q, old |-> old, new |-> new])
\* retire_or_delete_sentence_qs: the quizzes that refer to a sentence.
FindForImport(r) ==
    \E s \in Fragile :
        /\ sent[s] = "live"
        /\ Found(r, [op |-> "import", sentence |-> s, quizzes |-> {q \in There : s \in Refs(q)}])

---------------------------------------------------------------------------
(* What it changes.                                                               *)

Gone(ids) == ~(ids \subseteq {n.id : n \in note})

CreateQuiz(r) ==
    /\ Doing(r, "create")
    /\ LET w == req[r]  used == {w.new.target} \cup w.new.options IN
        /\ made + 1 \in QuizIds /\ made' = made + 1
        /\ \A s \in used : sent[s] # "gone"
        /\ quiz' = [quiz EXCEPT ![made + 1] = w.new]
        /\ crossed' = IF \E s \in used : sent[s] # "live" THEN crossed \cup {made + 1} ELSE crossed
    /\ Done(r) /\ UNCHANGED <<sent, note, last, strayed>>

NewNote(kind, q, u, picked, told) ==
    [id |-> last + 1, kind |-> kind, of |-> q, by |-> u, picked |-> picked, open |-> TRUE, told |-> told]
StoreAnswer(r) ==
    /\ Doing(r, "answer")
    /\ LET w == req[r] IN
        /\ w.quiz \in There /\ last < MaxNotes
        /\ \A s \in w.picked : sent[s] # "gone"
        /\ note' = note \cup {NewNote("answer", w.quiz, w.by, w.picked, TRUE)} /\ last' = last + 1
    /\ Done(r) /\ UNCHANGED <<sent, quiz, crossed, strayed, made>>

\* MERGE reopens what was known, or makes a report; a constraint does not keep two
\* requests from making one each.
StoreReport(r) ==
    /\ Doing(r, "report")
    /\ LET w == req[r] IN
        /\ w.quiz \in There /\ ~Gone(w.ids)
        /\ IF w.ids = {}
           THEN /\ last < MaxNotes /\ last' = last + 1
                /\ note' = note \cup {NewNote("report", w.quiz, w.by, {}, w.created)}
                /\ strayed' = strayed
           ELSE /\ note' = {IF n.id \in w.ids THEN [n EXCEPT !.open = TRUE, !.told = @ \/ w.created] ELSE n : n \in note}
                /\ strayed' = strayed \cup {n.id : n \in {x \in note : x.id \in w.open /\ ~x.open}}
                /\ last' = last
    /\ Done(r) /\ UNCHANGED <<sent, quiz, crossed, made>>
Dismiss(r) ==
    /\ Doing(r, "dismiss") /\ ~Gone(req[r].ids)
    /\ note' = {IF n.id \in req[r].ids THEN [n EXCEPT !.open = FALSE, !.told = FALSE] ELSE n : n \in note}
    /\ Done(r) /\ UNCHANGED <<sent, quiz, last, crossed, strayed, made>>

\* purge_orphaned_retired_sentences, after a deletion.
Purged(kept, notes) ==
    [s \in Sentences |->
        IF sent[s] = "retired" /\ (\A q \in kept : s \notin Refs(q) \cup quiz[q].broken)
                               /\ (\A n \in notes : s \notin n.picked)
        THEN "gone" ELSE sent[s]]
WithoutNotes(ids) == {n \in note : n.id \notin ids}
\* An answer or report that came after they were looked for is left without its quiz.
Delete(r) ==
    /\ Doing(r, "delete")
    /\ LET w == req[r]  left == WithoutNotes(w.ids) IN
        /\ w.quizzes \subseteq There /\ ~Gone(w.ids)
        /\ note' = left
        /\ quiz' = [q \in QuizIds |-> IF q \in w.quizzes THEN None ELSE quiz[q]]
        /\ sent' = Purged(There \ w.quizzes, left)
        /\ crossed' = crossed \ w.quizzes
        /\ strayed' = strayed \cup {n.id : n \in {x \in note : x.of \in w.quizzes /\ x.id \notin w.ids}}
    /\ Done(r) /\ UNCHANGED <<last, made>>

\* Faulty: the quiz is no longer broken at all.
NothingLeft(q, old) == {}
StillBroken(q, old) == quiz[q].broken \ {old}
Repair(r) ==
    /\ Doing(r, "repair")
    /\ LET w == req[r]  q == w.quiz
           Mended(s) == IF s = w.old THEN w.new ELSE s
       IN  /\ q \in There /\ w.old \in quiz[q].broken /\ sent[w.new] # "gone"
           /\ quiz' = [quiz EXCEPT ![q].target = Mended(@), ![q].options = {Mended(s) : s \in @},
                                   ![q].broken = StillBroken(q, w.old)]
           /\ sent' = IF \/ \E p \in There \ {q} : w.old \in Refs(p)
                         \/ \E n \in note : w.old \in n.picked
                      THEN sent ELSE [sent EXCEPT ![w.old] = "gone"]
           /\ crossed' = IF sent[w.new] = "live" THEN crossed ELSE crossed \cup {q}
    /\ Done(r) /\ UNCHANGED <<note, last, strayed, made>>

\* A sentence that quizzes were found for is retired and breaks them; another is deleted.
Import(r) ==
    /\ Doing(r, "import")
    /\ LET w == req[r]  s == w.sentence IN
        /\ w.quizzes \subseteq There /\ sent[s] = "live"
        /\ sent' = [sent EXCEPT ![s] = IF w.quizzes # {} THEN "retired" ELSE "gone"]
        /\ quiz' = [q \in QuizIds |-> IF q \in w.quizzes THEN [quiz[q] EXCEPT !.broken = @ \cup {s}] ELSE quiz[q]]
        /\ note' = {IF w.quizzes = {} THEN [n EXCEPT !.picked = @ \ {s}] ELSE n : n \in note}
        /\ crossed' = crossed \cup {q \in There : (s \in Refs(q)) # (q \in w.quizzes)}
    /\ Done(r) /\ UNCHANGED <<last, strayed, made>>

\* Nothing is found, what was found is gone, or the transaction ends otherwise.
Fail(r) == /\ req[r] # None /\ req' = [req EXCEPT ![r] = None]
           /\ UNCHANGED <<sent, quiz, note, last, made, scope, asks, crossed, strayed>>
\* The study plans of a user change.
Replan == /\ scope' \in Scopes /\ scope' # scope
          /\ UNCHANGED <<sent, quiz, note, last, made, req, asks, crossed, strayed>>

BNext ==
    \/ \E r \in Requests :
        \/ FindForQuiz(r) \/ FindForAnswer(r) \/ FindForReport(r) \/ FindForDismissal(r)
        \/ FindForDeletion(r) \/ FindForRepair(r) \/ FindForImport(r)
        \/ CreateQuiz(r) \/ StoreAnswer(r) \/ StoreReport(r) \/ Dismiss(r)
        \/ Delete(r) \/ Repair(r) \/ Import(r) \/ Fail(r)
    \/ Replan
BSpec == BInit /\ [][BNext]_boardVars

---------------------------------------------------------------------------
(* What the pages list.                                                           *)

Whole(q) == quiz[q].broken = {}
OnSentence(q) == sent[quiz[q].target] = "live"
\* list_quiz_by_user_ids and list_created_quiz_resource_statuses.
Shown == {q \in There : Whole(q) /\ OnSentence(q)}
\* search_created_quizzes, list_quiz_feed and search_public_quizzes: a quiz that asks for a
\* term or shows one needs the term of each of its sentences, which an import may take.
Nameless(n) == {q \in There \cap n.asking : ~(Refs(q) \subseteq n.named)}
Listed(n) == {q \in Shown : q \in n.asking => Refs(q) \subseteq n.named}
Statuses(u) == {<<s, Cardinality({q \in Shown \cap CreatedBy(u) : quiz[q].target = s})>> : s \in Sentences}
\* list_answer_history.
History(u) == {n \in note : n.kind = "answer" /\ n.by = u /\ n.of \in Shown}

\* count_created_quiz_issues, and the lists behind its numbers.
Broken(u) == {q \in CreatedBy(u) : ~Whole(q)}
Reported(u) == {q \in CreatedBy(u) : \E n \in Of(q, "report") : n.open}
Unplanned(u) == {q \in CreatedBy(u) : Whole(q) /\ OnSentence(q) /\ quiz[q].target \notin scope[u]}
TotalIssues(u) == Cardinality(Broken(u) \cup Reported(u) \cup Unplanned(u))

(* An answer or a report is of a quiz that is there, and what is broken refers to a
   retired sentence; only two requests that did not see each other leave it otherwise. *)
BoardTypeOK ==
    /\ \A n \in note : n.of \in There \/ n.id \in strayed
    /\ \A q \in There : quiz[q].broken \subseteq {s \in Sentences : sent[s] = "retired"} \/ q \in crossed

(* A quiz that a page shows can be asked: all it refers to are sentences of a text.
   However references break and are repaired one by one, it is shown again only when
   the last one is.  What was picked in an answer that is shown is still there.       *)
ShownCanBeAsked ==
    /\ \A q \in Shown \ crossed : \A s \in Refs(q) : sent[s] = "live"
    /\ \A u \in Users : \A n \in History(u) : \A s \in n.picked : sent[s] # "gone"

(* Its creator was told of every open report since it was made or last dismissed,
   unless the dismissal came while the report was being repeated, or the user made two
   reports of the quiz at a time, of which only one was dismissed.                   *)
Twin(n) == \E m \in note : m.id # n.id /\ m.kind = "report" /\ m.of = n.of /\ m.by = n.by
ReportsTold == \A n \in note : n.kind = "report" /\ n.open => n.told \/ n.id \in strayed \/ Twin(n)

(* The pages of a creator agree: what no study plan offers, or needs attention, is counted
   as an issue, and once.  Whatever terms the sentences have by now, a quiz that the search
   and the feed leave out is broken, and so counted, or has lost a term: that one is
   counted nowhere.                                                                  *)
IssuesAddUp ==
    crossed = {} => \A u \in Users :
        /\ TotalIssues(u) = Cardinality(CreatedBy(u))
              - Cardinality({q \in CreatedBy(u) \cap Shown : quiz[q].target \in scope[u]} \ Reported(u))
        /\ \A status \in Statuses(u) : status[2] <= Cardinality(CreatedBy(u) \ Broken(u))
        /\ \A n \in Namings : CreatedBy(u) \ Listed(n) = CreatedBy(u) \cap (Broken(u) \cup Nameless(n))

\* Whoever answers, reports, repairs or deletes, what a user is shown can be asked, the
\* creator was told what is reported, and the pages leave out only what they count or
\* what has lost a term.
BoardHolds == BoardTypeOK /\ ShownCanBeAsked /\ ReportsTold /\ IssuesAddUp
=============================================================================
