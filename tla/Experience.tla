----------------------------- MODULE Experience ------------------------------
(* Experience points of a user and the levels they reach: the exposures of
   sentences and the answers to quizzes that earn them, each in a request with a
   transaction of its own (gamification/resource.py and level_notifications.py,
   dashboard/repo.py record_tanbun_exposure, quiz/answering/repo.py).             *)
EXTENDS Integers, Sequences, FiniteSets, SequencesExt

CONSTANTS
    Clients,       \* devices of the user, one request each
    Subjects,      \* sentences that are read and quizzes that are answered
    IsQuiz,        \* IsQuiz[s]
    ResourceOf,    \* ResourceOf[s]: the resource the experience counts for
    Fragile,       \* subjects whose sentence may disappear
    Coefficients,  \* level_xp_coefficient an administrator may set; 10 when none is
    LastDay, MaxAsks, MaxSettings, None

DEFAULT_LEVEL_XP_COEFFICIENT == 10
TANBUN_EXPOSURE_XP == 1
QUIZ_ANSWERED_XP == 5
QUIZ_CORRECT_BONUS_XP == 2

VARIABLES
    today,       \* the date
    existing,    \* Subjects whose sentence is still there
    coefficient, settings,   \* the setting, and how often it was changed
    db,          \* [events, seen, answers, told]: committed
    own,         \* [Clients -> the same]: what its transaction has written
    holder,      \* the client whose transaction holds the user's node
    req,         \* [Clients -> None or its request]
    asks

XpAssumption ==
    /\ None \notin Clients /\ Coefficients \subseteq Nat \ {0}
    /\ \A s \in Subjects : ResourceOf[s] # "user"

xpVars == <<today, existing, coefficient, settings, db, own, holder, req, asks>>

Empty == [events |-> <<>>,    \* ResourceXpEvent: [key, resource, xp], in the order written
          seen |-> <<>>,      \* TanbunExposure: [subject, day]
          answers |-> <<>>,   \* Answer: [subject, day, correct]
          told |-> <<>>]      \* notices of a level: [of, from, to]

XInit ==
    /\ today = 0 /\ existing = Subjects
    /\ coefficient \in Coefficients /\ settings = 0
    /\ db = Empty /\ own = [c \in Clients |-> Empty]
    /\ holder = None /\ req = [c \in Clients |-> None] /\ asks = 0

\* What a query of c finds: what is committed, and what its transaction wrote.
Visible(c) == [part \in DOMAIN db |-> db[part] \o own[c][part]]
\* The points of the user, or those that count for one resource.
SumXp(events, of) ==
    LET upTo[n \in 0 .. Len(events)] ==
          IF n = 0 THEN 0
          ELSE upTo[n - 1] + IF of \in {"user", events[n].resource} THEN events[n].xp ELSE 0
    IN  upTo[Len(events)]

---------------------------------------------------------------------------
(* gamification/domain.py.                                                    *)

isqrt(n) == CHOOSE k \in 0..n : k * k <= n /\ n < (k + 1) * (k + 1)
level_threshold(level, coef) == (coef * level * (level - 1)) \div 2
level_from_xp(xp, coef) == (1 + isqrt(1 + 8 * (xp \div coef))) \div 2

---------------------------------------------------------------------------
(* Requests.                                                                  *)

NowAt(c, step) == req[c] # None /\ req[c].at = step
Goes(c, r) == req' = [req EXCEPT ![c] = r]
Records(c, part, entry) == own' = [own EXCEPT ![c][part] = Append(@, entry)]
Rest == UNCHANGED <<today, existing, coefficient, settings, db, asks>>

\* An exposure carries the day the request was sent; the answer takes it when stored.
Ask(c) ==
    /\ req[c] = None /\ asks < MaxAsks /\ asks' = asks + 1
    /\ \E s \in Subjects, correct \in BOOLEAN :
        /\ ~IsQuiz[s] => ~correct
        /\ Goes(c, [at |-> IF IsQuiz[s] THEN "answer" ELSE "expose", subject |-> s, correct |-> correct,
                    day |-> today, award |-> <<>>, coef |-> None])
    /\ UNCHANGED <<today, existing, coefficient, settings, db, own, holder>>

\* record_tanbun_exposure: MERGE by key, which no constraint guards: it sees what is
\* committed.  A sentence that is gone ends the request.
Event(source, xp) == [source |-> source, xp |-> xp]
Expose(c) ==
    /\ NowAt(c, "expose")
    /\ LET r == req[c]  entry == [subject |-> r.subject, day |-> r.day] IN
        IF r.subject \notin existing
        THEN Goes(c, [r EXCEPT !.at = "fail"]) /\ UNCHANGED own
        ELSE /\ IF \E n \in DOMAIN Visible(c).seen : Visible(c).seen[n] = entry
                THEN UNCHANGED own ELSE Records(c, "seen", entry)
             /\ Goes(c, [r EXCEPT !.at = "next", !.award = <<Event("tanbun_exposure", TANBUN_EXPOSURE_XP)>>])
    /\ UNCHANGED holder /\ Rest

\* create_answer_in_transaction: every answer is stored; it earns something when the
\* sentence the quiz is about is there.
CreateAnswer(c) ==
    /\ NowAt(c, "answer")
    /\ LET r == req[c] IN
        /\ Records(c, "answers", [subject |-> r.subject, day |-> today, correct |-> r.correct])
        /\ Goes(c, [r EXCEPT !.at = "next", !.day = today,
              !.award = IF r.subject \notin existing THEN <<>>
                        ELSE <<Event("quiz_answer", QUIZ_ANSWERED_XP)>>
                             \o IF r.correct THEN <<Event("correct_bonus", QUIZ_CORRECT_BONUS_XP)>> ELSE <<>>])
    /\ UNCHANGED holder /\ Rest

\* record_resource_xp, for one award after the other: the coefficient is read before
\* the user is locked.
ReadCoefficient(c) ==
    /\ NowAt(c, "next")
    /\ LET r == req[c] IN
        Goes(c, IF r.award = <<>> THEN [r EXCEPT !.at = "end"]
                ELSE [r EXCEPT !.at = "award", !.coef = coefficient])
    /\ UNCHANGED <<own, holder>> /\ Rest

\* save_level_up_notifications: a notice when the award lifts a level.
LevelNotices(of, before, xp, coef) ==
    LET from == level_from_xp(before, coef)  to == level_from_xp(before + xp, coef)
    IN  IF to > from THEN <<[of |-> of, from |-> from, to |-> to]>> ELSE <<>>

\* EVENT_QUERY: it locks the user, adds up what was earned before, and merges the
\* event by a key a constraint keeps unique.
SumsCommitted(c) == db.events     \* faulty: its own first award is not added
Sums(c) == Visible(c).events
Exists(key, c) == \E n \in DOMAIN Visible(c).events : Visible(c).events[n].key = key
Award(c) ==
    /\ NowAt(c, "award") /\ holder \in {None, c}
    /\ holder' = c
    /\ LET r == req[c]
           award == Head(r.award)
           resource == ResourceOf[r.subject]
           key == <<r.subject, r.day, award.source>>
           earned == ~Exists(key, c)
           event == [key |-> key, resource |-> resource, xp |-> award.xp]
       IN  /\ own' = IF ~earned THEN own
                     ELSE [own EXCEPT ![c].events = Append(@, event),
                            ![c].told = @ \o LevelNotices("user", SumXp(Sums(c), "user"), award.xp, r.coef)
                                          \o LevelNotices(resource, SumXp(Sums(c), resource), award.xp, r.coef)]
           /\ Goes(c, [r EXCEPT !.award = Tail(@), !.at = "next"])
    /\ Rest

\* The end of the request, well or not.
Release(c) == holder' = IF holder = c THEN None ELSE holder
Ended(c) == /\ req' = [req EXCEPT ![c] = None]
            /\ own' = [own EXCEPT ![c] = Empty]
            /\ Release(c)
Complete(c) == NowAt(c, "end") /\ db' = Visible(c) /\ Ended(c)
             /\ UNCHANGED <<today, existing, coefficient, settings, asks>>
Abort(c) == req[c] # None /\ Ended(c) /\ Rest

NextDate == /\ today < LastDay /\ today' = today + 1
            /\ UNCHANGED <<existing, coefficient, settings, db, own, holder, req, asks>>
\* update_gamification_settings: points that were earned are left alone.
Configure == /\ settings < MaxSettings /\ settings' = settings + 1
             /\ \E value \in Coefficients \cup {DEFAULT_LEVEL_XP_COEFFICIENT} : coefficient' = value
             /\ UNCHANGED <<today, existing, db, own, holder, req, asks>>
\* The text is imported again without the sentence.
Disappear == /\ \E s \in existing \cap Fragile : existing' = existing \ {s}
          /\ UNCHANGED <<today, coefficient, settings, db, own, holder, req, asks>>

XNext ==
    \/ \E c \in Clients : \/ Ask(c) \/ Expose(c) \/ CreateAnswer(c) \/ ReadCoefficient(c)
                          \/ Award(c) \/ Complete(c) \/ Abort(c)
    \/ NextDate \/ Configure \/ Disappear
XSpec == XInit /\ [][XNext]_xpVars

---------------------------------------------------------------------------
(* fetch_resource_growth: the standing of a resource, and of the user.            *)
Growth(events, coef) ==
    LET xp == SumXp(events, "user")  level == level_from_xp(xp, coef) IN
    [total |-> xp, level |-> level,
     current |-> xp - level_threshold(level, coef), needed |-> level * coef]

(* Whatever the coefficient is set to, the points shown inside a level are fewer
   than it needs.                                                                *)
PointsFit ==
    \A coef \in Coefficients \cup {DEFAULT_LEVEL_XP_COEFFICIENT} :
        LET g == Growth(db.events, coef) IN 0 <= g.current /\ g.current < g.needed

(* Every event belongs to a sentence that was read or a quiz that was answered on
   its day.                                                                      *)
Backed(key, d) ==
    \/ \E m \in DOMAIN d.seen : d.seen[m].subject = key[1] /\ d.seen[m].day = key[2]
    \/ \E m \in DOMAIN d.answers :
          /\ d.answers[m].subject = key[1] /\ d.answers[m].day = key[2]
          /\ key[3] = "correct_bonus" => d.answers[m].correct
XpTypeOK == PointsFit /\ \A n \in DOMAIN db.events : Backed(db.events[n].key, db)

(* A subject earns from one source once a day, however often and from wherever it
   is read or answered.                                                          *)
XpOnce == \A n, m \in DOMAIN db.events : db.events[n].key = db.events[m].key => n = m

(* Every level is told once, of the user and of each resource: as long as nobody
   changes the coefficient the notices lead, step by step, from the first level to
   the one the points now amount to.                                             *)
LevelTold(told, of, n) ==
    LET mine == {m \in 1..n : told[m].of = of}
    IN  IF mine = {} THEN 1 ELSE told[Max(mine)].to
Linked(told, of) ==
    \A n \in DOMAIN told : told[n].of = of =>
        told[n].from = LevelTold(told, of, n - 1) /\ told[n].from < told[n].to
EveryLevelTold ==
    settings = 0 =>
        \A of \in {"user"} \cup {ResourceOf[s] : s \in Subjects} :
            /\ Linked(db.told, of)
            /\ level_from_xp(SumXp(db.events, of), coefficient) = LevelTold(db.told, of, Len(db.told))

\* Whatever the requests, their order and their failures: a subject earns from one
\* source once a day, and every level that is reached is told once.
LevelsTold == XpTypeOK /\ XpOnce /\ EveryLevelTold
=============================================================================
