----------------------------- MODULE ActionQueue -----------------------------
(* The order of actions in a scheduled battle.  Every actor waits a distance
   that depends on its speed; the one with the shortest wait acts next and
   waits again.  Nothing depends on the clock.  A schedule is a record
   [waits, speeds, step, actor]; distances are whole multiples of a unit chosen
   so that the divisions of the model are exact.                            *)
EXTENDS Naturals, Sequences, FiniteSetsExt, TLC

CONSTANTS None,
          Interval,        \* distance an actor of a given speed waits
          Lot(_, _)        \* what decides a tie: rank of an actor in a step

ASSUME IntervalAssumption ==
    /\ Interval \in [DOMAIN Interval -> Nat \ {0}]
    /\ DOMAIN Interval \subseteq Nat \ {0}
    /\ \A a, b \in DOMAIN Interval : a <= b => Interval[b] <= Interval[a]

\* The same function; TLC works it out here, once, and not again wherever it is applied.
Worked(f) == f @@ <<>>

Waiting(sched) == DOMAIN sched.waits

\* Jump to the next event; only a genuine tie is decided by lot.  (Faulty
\* variant: the others do not come nearer.)
TakeNextAlone(sched) ==
    LET near  == Min({sched.waits[a] : a \in Waiting(sched)})
        actor == CHOOSE a \in Waiting(sched) : sched.waits[a] = near
    IN [sched EXCEPT !.step = @ + 1, !.actor = actor,
                     !.waits[actor] = Interval[sched.speeds[actor]]]
TakeNext(sched) ==
    LET near  == Min({sched.waits[a] : a \in Waiting(sched)})
        tied  == {a \in Waiting(sched) : sched.waits[a] = near}
        actor == CHOOSE a \in tied :
                    \A b \in tied : Lot(sched.step, a) <= Lot(sched.step, b)
    IN [sched EXCEPT
          !.step = @ + 1, !.actor = actor,
          !.waits = Worked([a \in Waiting(sched) |->
                               IF a = actor THEN Interval[sched.speeds[a]]
                               ELSE sched.waits[a] - near])]

\* The next `count` actions, the current one included.
Predict(sched, count) ==
    LET after[i \in 0 .. count] == IF i = 0 THEN sched ELSE TakeNext(after[i - 1])
        now == IF sched.actor = None THEN <<>> ELSE <<sched.actor>>
    IN now \o [i \in 1 .. count - Len(now) |-> after[i].actor]

\* A change of speed keeps the share of the distance already covered; actors
\* without a speed are out.
RefreshSpeeds(sched, speeds) ==
    [sched EXCEPT
       !.speeds = Worked(speeds),
       !.waits = Worked([a \in Waiting(sched) \cap DOMAIN speeds |->
                     (sched.waits[a] * Interval[speeds[a]]) \div Interval[sched.speeds[a]]])]

Schedule(speeds) ==
    [waits |-> [a \in DOMAIN speeds |-> Interval[speeds[a]]],
     speeds |-> speeds, step |-> 0, actor |-> None]
=============================================================================
