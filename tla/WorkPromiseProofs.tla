-------------------------- MODULE WorkPromiseProofs --------------------------
(***************************************************************************)
(* The work graph keeps the promise of WorkPromise, for every set of tasks    *)
(* and helpers, every spine, failure limit and bound: the initial state maps   *)
(* to the initial promise, and each of the ways a step can move the tasks      *)
(* (StepMoves) is one of the promise's steps or none.                         *)
(***************************************************************************)
EXTENDS WorkSafetyProofs

-----------------------------------------------------------------------------
(* What the refinement needs to know of a reachable state.                   *)

\* A task in flight was not judged for the dispatch it is in.
FlightUnjudged == \A t \in Tasks : wo.status[t] = "dispatched" => wo.judged[t] < wo.epoch[t]

\* What the state mover still has to handle is not in flight: claims wait for its end.
SnapshotAtRest == \A t \in Tasks : t \in seen \/ t = parking => wo.status[t] # "dispatched"

\* The mover's snapshot only shrinks, until it looks again.
LEMMA MoverView ==
  ASSUME Next
  PROVE  \/ seen' \subseteq seen /\ parking' \in seen \cup {parking, NoTask}
         \/ MoverLook
<1> USE DEF InPass, Write, MoverIdle
<1>1. CASE Architect
  BY <1>1 DEF Architect, ArchitectDecompose, ArchitectDecomposeGated, ArchitectDecomposeLinked,
     ArchitectReplan, ArchitectRegate, ArchitectRelink, ArchitectMerge, ArchitectEnd
<1>2. CASE StateMover
  BY <1>2 DEF StateMover, MoverEnds, MoverPromote, MoverRefused, MoverHold, MoverPark, MoverWake
<1>3. CASE Dispatch
  BY <1>3 DEF Dispatch, Claim, GateReject, SweepStuck, WatchEnds, GateFail, BindTicket, RecordResult, Judge
<1>4. CASE Others
  BY <1>4 DEF Others, BrainReplan, Abandon, AddHelper, MoveHelper, OwnerSetStatus, OwnerAddTask,
     TimePasses, WatchExpires
<1> QED
  BY <1>1, <1>2, <1>3, <1>4 DEF Next

\* What takes off in a step: only a claim, or a rest in flight.
LEMMA TakesOff ==
  ASSUME WorkTyped, Next, "dispatched" \notin OwnerTargets, NEW t \in Tasks, wo'.status[t] = "dispatched"
  PROVE  \/ Rests(wo, wo', t) /\ wo.status[t] = "dispatched"
         \/ Started(wo, wo', t) /\ wo.status[t] = "actionable"
<1>1. CASE Rests(wo, wo', t)
  BY <1>1 DEF Rests
<1>2. ~Dropped(wo, wo', t)
  BY DEF Dropped
<1>3. CASE Moved(wo, wo', t)
  <2>1. Started(wo, wo', t)
    BY <1>3 DEF Moved, Queued, GateFailed, Reported, WasJudged, WatchOver, OwnerMoved, Appears
  <2> QED
    BY <2>1 DEF Started, MayClaim
<1> QED
  BY <1>1, <1>2, <1>3, TaskMoves

\* Both facts hold throughout.
LEMMA FlightIsFresh ==
  ASSUME "dispatched" \notin OwnerTargets
  PROVE  Spec => [](JudgedInOrder /\ FlightUnjudged /\ SnapshotAtRest)
<1>1. Init => JudgedInOrder /\ FlightUnjudged /\ SnapshotAtRest
  BY DEF Init, NewWorkObject, JudgedInOrder, FlightUnjudged, SnapshotAtRest, NoEpoch, Nodes
<1>2. ASSUME WorkTyped, JudgedInOrder, FlightUnjudged, Next PROVE FlightUnjudged'
  <2> SUFFICES ASSUME NEW t \in Tasks, wo'.status[t] = "dispatched" PROVE wo'.judged[t] < wo'.epoch[t]
    BY DEF FlightUnjudged
  <2>1. wo.judged[t] \in Int /\ wo.epoch[t] \in Nat
    BY <1>2 DEF WorkTyped, WorkObjects, Epochs, NoEpoch
  <2>2. CASE Rests(wo, wo', t) /\ wo.status[t] = "dispatched"
    BY <1>2, <2>1, <2>2 DEF Rests, SameAttempt, FlightUnjudged
  <2>3. CASE Started(wo, wo', t)
    BY <1>2, <2>1, <2>3 DEF Started, JudgedInOrder
  <2> QED
    BY <1>2, <2>2, <2>3, TakesOff
<1>3. ASSUME WorkTyped, SnapshotAtRest, Next PROVE SnapshotAtRest'
  <2> SUFFICES ASSUME NEW t \in Tasks, t \in seen' \/ t = parking', wo'.status[t] = "dispatched" PROVE FALSE
    BY DEF SnapshotAtRest
  <2>1. CASE MoverLook
    BY <2>1, NoTaskType DEF MoverLook, MoverQuiet, Nodes
  <2>2. CASE t \in seen \/ t = parking
    <3>1. wo.status[t] # "dispatched"
      BY <1>3, <2>2 DEF SnapshotAtRest
    <3>2. MoverQuiet
      BY <1>3, <3>1, TakesOff DEF Started
    <3> QED
      BY <2>2, <3>2, NoTaskType DEF MoverQuiet, Nodes
  <2>3. t # NoTask
    BY NoTaskType DEF Nodes
  <2> QED
    BY <1>3, <2>1, <2>2, <2>3, MoverView
<1>4. WorkTyped /\ JudgedInOrder /\ FlightUnjudged /\ SnapshotAtRest /\ [Next]_vars
        => JudgedInOrder' /\ FlightUnjudged' /\ SnapshotAtRest'
  <2> SUFFICES ASSUME WorkTyped, JudgedInOrder, FlightUnjudged, SnapshotAtRest, [Next]_vars
               PROVE  JudgedInOrder' /\ FlightUnjudged' /\ SnapshotAtRest'
    OBVIOUS
  <2>1. CASE UNCHANGED vars
    BY <2>1 DEF vars, JudgedInOrder, FlightUnjudged, SnapshotAtRest
  <2>2. CASE Next
    BY <1>2, <1>3, <2>2, StepJudgesOnce
  <2> QED
    BY <2>1, <2>2
<1> QED
  BY <1>1, <1>4, TypesHold, PTL DEF Spec

-----------------------------------------------------------------------------
(* The mapping.                                                              *)

Phase(w) == [t \in Tasks |-> PhaseOf(w, t)]

\* Where a task of each status stands.
LEMMA Phases ==
  ASSUME NEW w \in WorkObjects, NEW t \in Tasks
  PROVE  /\ w.status[t] = "absent" => PhaseOf(w, t) = "none"
         /\ w.status[t] \in {"proposed", "actionable", "waiting"} => PhaseOf(w, t) = "todo"
         /\ w.status[t] = "dispatched" => PhaseOf(w, t) = "doing"
         /\ w.status[t] \in {"done", "failed"} =>
              PhaseOf(w, t) = IF w.judged[t] # w.epoch[t] THEN "told" ELSE "missed"
         /\ w.status[t] = "closed" => PhaseOf(w, t) = "met"
         /\ w.status[t] \in {"abandoned", "superseded"} => PhaseOf(w, t) = "dropped"
         /\ PhaseOf(w, t) \in Promise!Phases
<1>1. w.status[t] \in Statuses
  BY DEF WorkObjects, Nodes
<1>2. CASE w.status[t] \in {"absent", "proposed", "actionable", "waiting", "dispatched"}
  BY <1>2 DEF PhaseOf, Promise!Phases
<1>3. CASE w.status[t] \in {"done", "failed"}
  BY <1>3 DEF PhaseOf, NeedsFinalization, Promise!Phases
<1>4. CASE w.status[t] \in {"closed", "abandoned", "superseded"}
  BY <1>4 DEF PhaseOf, Promise!Phases
<1> QED
  BY <1>1, <1>2, <1>3, <1>4 DEF Statuses

\* Where the goal stands.
LEMMA Goals ==
  ASSUME NEW w \in WorkObjects
  PROVE  /\ w.work = "active" <=> GoalOf(w) = "open"
         /\ w.work = "done" <=> GoalOf(w) = "achieved"
         /\ w.work = "abandoned" <=> GoalOf(w) = "given_up"
         /\ Ended(w) <=> w.work # "active"
  BY DEF GoalOf, WorkObjects, Ended, EndedWork

\* A task that rests stays in its phase.
LEMMA RestsInPhase ==
  ASSUME NEW w, NEW v, NEW t \in Tasks, Rests(w, v, t)
  PROVE  PhaseOf(v, t) = PhaseOf(w, t)
  BY DEF Rests, SameAttempt, PhaseOf, NeedsFinalization

\* A satisfied goal has every planned task met, and one at least.
LEMMA SatisfiedIsMet ==
  ASSUME NEW w \in WorkObjects, GoalSatisfied(w)
  PROVE  (\E t \in Tasks : PhaseOf(w, t) = "met") /\ \A t \in Tasks : PhaseOf(w, t) \in {"none", "met"}
  BY Phases DEF GoalSatisfied, Planned

-----------------------------------------------------------------------------
(* The steps of the promise, in terms of the phases.                         *)

\* The goal settles: it stays open, or every task of the plan is met.
LEMMA GoalSettles ==
  ASSUME WorkTyped, WorkTyped', wo.work = "active", Settles(wo, wo')
  PROVE  Promise!Settles
<1> USE DEF WorkTyped
<1>1. CASE wo'.work = "active"
  BY <1>1, Goals DEF Promise!Settles
<1>2. CASE wo'.work = "done" /\ GoalSatisfied(wo')
  BY <1>2, Goals, SatisfiedIsMet DEF Promise!Settles, Promise!AllMet
<1> QED
  BY <1>1, <1>2 DEF Settles

\* Nothing settles while some task of the plan is not closed.
LEMMA NotSettled ==
  ASSUME Settles(wo, wo'), NEW t \in Tasks, wo'.status[t] \notin {"absent", "closed"}
  PROVE  wo'.work = wo.work
  BY DEF Settles, GoalSatisfied, Planned

\* When all other tasks rest, only this one has a new phase.
LEMMA OnlyThis ==
  ASSUME NEW t \in Tasks, \A u \in Tasks \ {t} : Rests(wo, wo', u), wo'.deps = wo.deps
  PROVE  Promise!Only(t, PhaseOf(wo', t)) /\ Promise!SameNeeds
<1>1. \A u \in Tasks \ {t} : PhaseOf(wo', u) = PhaseOf(wo, u)
  BY RestsInPhase
<1>2. [u \in Tasks |-> PhaseOf(wo', u)] = [[u \in Tasks |-> PhaseOf(wo, u)] EXCEPT ![t] = PhaseOf(wo', t)]
  BY <1>1
<1> QED
  BY <1>2 DEF Promise!Only, Promise!SameNeeds

\* A change of open work in which tasks appear or are dropped is a revision.
LEMMA ChangeIsRevise ==
  ASSUME WorkTyped, WorkTyped', wo.work = "active", Settles(wo, wo'),
         \A t \in Tasks : Rests(wo, wo', t) \/ Appears(wo, wo', t) \/ Dropped(wo, wo', t)
  PROVE  Promise!Revise
<1> USE DEF WorkTyped
<1>1. GoalOf(wo) = "open" /\ Promise!Settles
  BY Goals, GoalSettles
<1>2. [t \in Tasks |-> PhaseOf(wo', t)] \in [Tasks -> Promise!Phases]
  BY Phases
<1>3. ASSUME NEW t \in Tasks, PhaseOf(wo', t) # PhaseOf(wo, t)
      PROVE  \/ PhaseOf(wo, t) = "none" /\ PhaseOf(wo', t) = "todo"
             \/ PhaseOf(wo, t) \in {"todo", "doing", "told", "missed"} /\ PhaseOf(wo', t) = "dropped"
  <2>1. CASE Appears(wo, wo', t)
    BY <2>1, Phases DEF Appears
  <2>2. CASE Dropped(wo, wo', t)
    BY <2>2, Phases DEF Dropped, Startable
  <2> QED
    BY <1>3, <2>1, <2>2, RestsInPhase
<1>4. wo'.deps \subseteq Tasks \X Tasks
  BY DEF WorkObjects
<1> QED
  BY <1>1, <1>2, <1>3, <1>4 DEF Promise!Revise

\* An end of the work is the end of the promise, or takes an end back to given up.
LEMMA EndIsEnd ==
  ASSUME WorkTyped, WorkTyped', TerminalInert, TerminalInert', Ends(wo, wo')
  PROVE  Promise!End \/ Promise!AfterEnd
<1> USE DEF WorkTyped
<1>1. Ended(wo') /\ \A t \in Tasks : wo'.status[t] \notin Startable
  BY DEF Ends, Ended, TerminalInert, Valid, Nodes
<1>2. ASSUME NEW t \in Tasks PROVE PhaseOf(wo', t) # "todo" /\ PhaseOf(wo', t) \in Promise!Phases
  <2>1. wo'.status[t] \in Statuses \ Startable
    BY <1>1 DEF WorkObjects, Nodes
  <2> QED
    BY <2>1, Phases DEF Statuses, Startable
<1>3. ASSUME NEW t \in Tasks, PhaseOf(wo', t) # PhaseOf(wo, t)
      PROVE  /\ PhaseOf(wo', t) = "dropped" /\ PhaseOf(wo, t) \in {"todo", "doing", "told", "missed"}
             /\ wo.work # "active" => PhaseOf(wo, t) = "doing"
  <2>1. Dropped(wo, wo', t)
    BY <1>3, RestsInPhase DEF Ends
  <2>2. wo.work # "active" => wo.status[t] = "dispatched"
    BY <2>1, Goals DEF Dropped, TerminalInert, Valid, Nodes
  <2> QED
    BY <2>1, <2>2, Phases DEF Dropped, Startable
<1>4. wo'.deps = wo.deps /\ wo'.work \in EndedWork /\ (wo.work = "active" \/ wo'.work = "abandoned")
  BY DEF Ends
<1>5. [t \in Tasks |-> PhaseOf(wo', t)] \in [Tasks -> Promise!Phases]
  BY <1>2
<1>6. CASE wo.work = "active"
  <2>1. GoalOf(wo) = "open" /\ GoalOf(wo') \in {"achieved", "given_up"}
    BY <1>4, <1>6, Goals DEF EndedWork
  <2> QED
    BY <1>2, <1>3, <1>4, <1>5, <2>1 DEF Promise!End, Promise!SameNeeds
<1>7. CASE wo.work # "active"
  <2>1. GoalOf(wo) # "open" /\ GoalOf(wo') = "given_up"
    BY <1>4, <1>7, Goals
  <2> QED
    BY <1>3, <1>4, <1>5, <1>7, <2>1 DEF Promise!AfterEnd, Promise!SameNeeds
<1> QED
  BY <1>6, <1>7

\* Nobody moves: the promise stutters, or its goal is achieved.
LEMMA IdleKeepsPromise ==
  ASSUME WorkTyped, WorkTyped', Idles(wo, wo')
  PROVE  [Promise!Next]_(Promise!vars)
<1> USE DEF WorkTyped
<1>1. \A t \in Tasks : PhaseOf(wo', t) = PhaseOf(wo, t)
  BY RestsInPhase DEF Idles
<1>2. wo'.deps = wo.deps /\ Settles(wo, wo')
  BY DEF Idles, Framed
<1>3. CASE wo'.work = wo.work
  <2>1. GoalOf(wo') = GoalOf(wo) /\ [t \in Tasks |-> PhaseOf(wo', t)] = [t \in Tasks |-> PhaseOf(wo, t)]
    BY <1>1, <1>3 DEF GoalOf
  <2> QED
    BY <1>2, <2>1 DEF Promise!vars
<1>4. CASE wo.work = "active"
  <2>1. Promise!Revise
    BY <1>2, <1>4, ChangeIsRevise DEF Idles
  <2> QED
    BY <2>1 DEF Promise!Next
<1>5. wo'.work = wo.work \/ wo.work = "active"
  BY <1>2 DEF Settles, WorkObjects
<1> QED
  BY <1>3, <1>4, <1>5

-----------------------------------------------------------------------------
(* One task moves.                                                           *)

\* One task moves: it starts, reports, is judged, expires, is dropped, or only waits otherwise.
LEMMA OneKeepsPromise ==
  ASSUME OwnerTargets \subseteq {"abandoned"}, WorkTyped, WorkTyped', TerminalInert, TerminalInert',
         JudgedInOrder, FlightUnjudged, SnapshotAtRest, MovesOne(wo, wo')
  PROVE  [Promise!Next]_(Promise!vars)
<1> USE DEF WorkTyped
<1>1. PICK t \in Tasks : Moved(wo, wo', t) /\ \A u \in Tasks \ {t} : Rests(wo, wo', u)
  BY DEF MovesOne
<1>2. wo'.deps = wo.deps /\ Settles(wo, wo')
  BY DEF MovesOne, Framed
<1>3. Promise!Only(t, PhaseOf(wo', t)) /\ Promise!SameNeeds
  BY <1>1, <1>2, OnlyThis
<1>4. ASSUME PhaseOf(wo', t) = PhaseOf(wo, t), wo'.work = wo.work PROVE UNCHANGED Promise!vars
  <2>1. \A u \in Tasks : PhaseOf(wo', u) = PhaseOf(wo, u)
    BY <1>1, <1>4, RestsInPhase
  <2>2. GoalOf(wo') = GoalOf(wo) /\ [u \in Tasks |-> PhaseOf(wo', u)] = [u \in Tasks |-> PhaseOf(wo, u)]
    BY <1>4, <2>1 DEF GoalOf
  <2> QED
    BY <1>2, <2>2 DEF Promise!vars
<1>5. ASSUME wo'.work = wo.work PROVE GoalOf(wo') = GoalOf(wo)
  BY <1>5 DEF GoalOf
<1>6. wo.judged[t] \in Int /\ wo.epoch[t] \in Nat
  BY DEF WorkObjects, Epochs, NoEpoch
<1>7. CASE Queued(wo, wo', t)
  <2>1. wo.status[t] # "dispatched"
    BY <1>7 DEF Queued, SnapshotAtRest
  <2>2. PhaseOf(wo', t) = PhaseOf(wo, t)
    BY <1>7, <2>1, Phases DEF Queued
  <2>3. wo'.work = wo.work
    BY <1>2, <1>7, NotSettled DEF Queued
  <2> QED
    BY <1>4, <2>2, <2>3
<1>8. CASE Started(wo, wo', t)
  <2>1. /\ wo.work = "active" /\ wo.status[t] = "actionable" /\ wo'.status[t] = "dispatched"
        /\ \A d \in Tasks : <<d, t>> \in wo.deps => wo.status[d] = "closed"
    BY <1>8 DEF Started, MayClaim, IsReady, GateClear, DepsOf
  <2>2. wo'.work = wo.work
    BY <1>2, <2>1, NotSettled
  <2>3. GoalOf(wo) = "open" /\ GoalOf(wo') = "open" /\ PhaseOf(wo, t) = "todo" /\ PhaseOf(wo', t) = "doing"
    BY <2>1, <2>2, Goals, Phases
  <2>4. \A d \in Tasks : <<d, t>> \in wo.deps => PhaseOf(wo, d) = "met"
    BY <2>1, Phases
  <2>5. Promise!Start(t)
    BY <1>3, <2>3, <2>4 DEF Promise!Start
  <2> QED
    BY <2>5 DEF Promise!Next
<1>9. CASE GateFailed(wo, wo', t)
  <2>1. wo'.work = wo.work /\ wo'.status[t] = "failed" /\ wo'.judged[t] = wo.judged[t] /\ wo'.epoch[t] = wo.epoch[t]
    BY <1>2, <1>9, NotSettled DEF GateFailed, SameAttempt
  <2>2. ~Ended(wo')
    BY <2>1 DEF TerminalInert, Valid, Startable, Nodes
  <2>3. GoalOf(wo) = "open" /\ GoalOf(wo') = "open"
    BY <2>1, <2>2, Goals
  <2>4. CASE wo.status[t] = "done"
    <3>1. PhaseOf(wo', t) = PhaseOf(wo, t)
      BY <2>1, <2>4, Phases
    <3> QED
      BY <1>4, <2>1, <3>1
  <2>5. CASE wo.status[t] # "done"
    <3>1. wo.status[t] \in {"proposed", "actionable", "waiting", "dispatched"}
      BY <1>9, <2>5 DEF GateFailed
    <3>2. wo.status[t] = "dispatched" => wo.judged[t] # wo.epoch[t]
      BY <1>6 DEF FlightUnjudged
    <3>3. \/ PhaseOf(wo, t) \in {"todo", "doing"} /\ PhaseOf(wo', t) = "told"
          \/ PhaseOf(wo, t) = "todo" /\ PhaseOf(wo', t) = "missed"
      BY <2>1, <3>1, <3>2, Phases
    <3>4. Promise!Report(t)
      BY <1>3, <2>3, <3>3 DEF Promise!Report
    <3> QED
      BY <3>4 DEF Promise!Next
  <2> QED
    BY <2>4, <2>5
<1>10. CASE Reported(wo, wo', t)
  <2>1. /\ ~Ended(wo) /\ wo.status[t] \in {"dispatched", "proposed", "actionable", "waiting"}
        /\ wo'.status[t] \in {"done", "failed"} /\ wo'.judged[t] = wo.judged[t]
        /\ wo'.epoch[t] = IF wo.status[t] \in {"proposed", "actionable"} THEN wo.epoch[t] + 1 ELSE wo.epoch[t]
    BY <1>10 DEF Reported
  <2>2. wo'.work = wo.work
    BY <1>2, <2>1, NotSettled
  <2>3. GoalOf(wo) = "open" /\ GoalOf(wo') = "open"
    BY <2>1, <2>2, Goals
  <2>4. wo.status[t] = "dispatched" => wo'.judged[t] # wo'.epoch[t]
    BY <1>6, <2>1 DEF FlightUnjudged
  <2>5. \/ PhaseOf(wo, t) \in {"todo", "doing"} /\ PhaseOf(wo', t) = "told"
        \/ PhaseOf(wo, t) = "todo" /\ PhaseOf(wo', t) = "missed"
    BY <2>1, <2>4, Phases
  <2>6. Promise!Report(t)
    BY <1>3, <2>3, <2>5 DEF Promise!Report
  <2> QED
    BY <2>6 DEF Promise!Next
<1>11. CASE WasJudged(wo, wo', t)
  <2>1. /\ wo.work = "active" /\ wo.status[t] \in {"done", "failed"} /\ wo.judged[t] # wo.epoch[t]
        /\ wo'.status[t] \in {"closed", "waiting", "proposed", "failed"} /\ wo'.judged[t] = wo'.epoch[t]
    BY <1>11, Goals DEF WasJudged, NeedsFinalization
  <2>2. GoalOf(wo) = "open" /\ Promise!Settles
    BY <1>2, <2>1, Goals, GoalSettles
  <2>3. PhaseOf(wo, t) = "told" /\ PhaseOf(wo', t) \in {"met", "missed", "todo"}
    BY <2>1, Phases
  <2>4. Promise!Judge(t)
    BY <1>3, <2>2, <2>3 DEF Promise!Judge
  <2> QED
    BY <2>4 DEF Promise!Next
<1>12. CASE WatchOver(wo, wo', t)
  <2>1. wo.work = "active" /\ wo.status[t] = "waiting" /\ wo'.status[t] = "closed"
    BY <1>12, Goals DEF WatchOver, MayEndWatch
  <2>2. GoalOf(wo) = "open" /\ Promise!Settles
    BY <1>2, <2>1, Goals, GoalSettles
  <2>3. PhaseOf(wo, t) = "todo" /\ PhaseOf(wo', t) = "met"
    BY <2>1, Phases
  <2>4. Promise!Expire(t)
    BY <1>3, <2>2, <2>3 DEF Promise!Expire
  <2> QED
    BY <2>4 DEF Promise!Next
<1>13. CASE OwnerMoved(wo, wo', t)
  <2>1. /\ wo'.status[t] = "abandoned" /\ wo.status[t] # "absent"
        /\ "abandoned" \in Transitions[wo.status[t]] /\ SameAttempt(wo, wo', t)
    BY <1>13 DEF OwnerMoved, MaySetStatus, SameAttempt
  <2>2. wo.status[t] \in Statuses
    BY DEF WorkObjects, Nodes
  <2>3. Dropped(wo, wo', t)
    BY <2>1, <2>2, TransitionSources DEF Dropped, Startable
  <2>4. wo'.work = wo.work
    BY <1>2, <2>1, NotSettled
  <2>5. CASE wo.work = "active"
    <3>1. Promise!Revise
      BY <1>1, <1>2, <2>3, <2>5, ChangeIsRevise
    <3> QED
      BY <3>1 DEF Promise!Next
  <2>6. CASE wo.work # "active"
    <3>1. wo.status[t] = "dispatched"
      BY <2>3, <2>6, Goals DEF Dropped, TerminalInert, Valid, Nodes
    <3>2. PhaseOf(wo, t) = "doing" /\ PhaseOf(wo', t) = "dropped"
      BY <2>1, <3>1, Phases
    <3>3. \A u \in Tasks : PhaseOf(wo', u) # PhaseOf(wo, u) => u = t
      BY <1>1, RestsInPhase
    <3>4. GoalOf(wo) # "open" /\ GoalOf(wo') = GoalOf(wo)
      BY <1>5, <2>4, <2>6, Goals
    <3>5. [u \in Tasks |-> PhaseOf(wo', u)] \in [Tasks -> Promise!Phases]
      BY Phases
    <3>6. Promise!AfterEnd
      BY <1>3, <3>2, <3>3, <3>4, <3>5 DEF Promise!AfterEnd
    <3> QED
      BY <3>6 DEF Promise!Next
  <2> QED
    BY <2>5, <2>6
<1>14. CASE Appears(wo, wo', t)
  <2>1. wo'.work = wo.work /\ wo'.status[t] = "proposed"
    BY <1>2, <1>14, NotSettled DEF Appears
  <2>2. ~Ended(wo')
    BY <2>1 DEF TerminalInert, Valid, Startable, Nodes
  <2>3. wo.work = "active"
    BY <2>1, <2>2, Goals
  <2>4. Promise!Revise
    BY <1>1, <1>2, <1>14, <2>3, ChangeIsRevise
  <2> QED
    BY <2>4 DEF Promise!Next
<1> QED
  BY <1>1, <1>7, <1>8, <1>9, <1>10, <1>11, <1>12, <1>13, <1>14 DEF Moved

\* The promise starts as a work object does: nothing planned, the goal open.
LEMMA PromiseStarts == Init => Promise!Init
<1> SUFFICES ASSUME Init PROVE Promise!Init
  OBVIOUS
<1>1. /\ wo.work = "active" /\ wo.deps = {} /\ \A t \in Tasks : wo.status[t] = "absent"
  BY DEF Init, NewWorkObject, Nodes
<1>2. GoalOf(wo) = "open" /\ \A t \in Tasks : PhaseOf(wo, t) = "none"
  BY <1>1 DEF GoalOf, PhaseOf
<1>3. [t \in Tasks |-> PhaseOf(wo, t)] = [t \in Tasks |-> "none"]
  BY <1>2
<1> QED
  BY <1>1, <1>2, <1>3 DEF Promise!Init

\* Every step of the work graph is one of its promise, or none.
LEMMA StepKeepsPromise ==
  ASSUME OwnerTargets \subseteq {"abandoned"}, WorkTyped, WorkTyped', TerminalInert, TerminalInert',
         JudgedInOrder, FlightUnjudged, SnapshotAtRest, [Next]_vars
  PROVE  [Promise!Next]_(Promise!vars)
<1>1. CASE UNCHANGED vars
  BY <1>1 DEF vars, Promise!vars, GoalOf, PhaseOf, NeedsFinalization
<1>2. CASE Next /\ Idles(wo, wo')
  BY <1>2, IdleKeepsPromise
<1>3. CASE Next /\ MovesOne(wo, wo')
  BY <1>3, OneKeepsPromise
<1>4. CASE Next /\ Revises(wo, wo')
  <2>1. Promise!Revise
    BY <1>4, ChangeIsRevise DEF Revises
  <2> QED
    BY <2>1 DEF Promise!Next
<1>5. CASE Next /\ Ends(wo, wo')
  BY <1>5, EndIsEnd DEF Promise!Next
<1> QED
  BY <1>1, <1>2, <1>3, <1>4, <1>5, StepMoves

\* The work graph implements its promise: whatever its writers interleave, no task starts before
\* what it needs is met, a report is judged at most once, what was met or dropped stays so, and
\* the goal ends with its last met task or by somebody's decision.  The owner's hand edits that
\* take back an outcome are outside it; he may abandon tasks.
THEOREM PromiseKept ==
  ASSUME OwnerTargets \subseteq {"abandoned"}
  PROVE  Spec => KeepsPromise
<1>1. "dispatched" \notin OwnerTargets
  OBVIOUS
<1>2. WorkTyped /\ WorkTyped' /\ TerminalInert /\ TerminalInert' /\ JudgedInOrder /\ FlightUnjudged
        /\ SnapshotAtRest /\ [Next]_vars
      => [Promise!Next]_(Promise!vars)
  BY StepKeepsPromise
<1>3. Spec => [](JudgedInOrder /\ FlightUnjudged /\ SnapshotAtRest)
  BY <1>1, FlightIsFresh
<1> QED
  BY <1>2, <1>3, PromiseStarts, TypesHold, EndedWorkIsInert, PTL DEF Spec, KeepsPromise, Promise!Spec
=============================================================================
