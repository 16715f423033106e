--------------------------- MODULE WorkSafetyProofs ---------------------------
(***************************************************************************)
(* The safety properties of WorkGraph for every set of tasks and helpers,     *)
(* every spine, failure limit and bound.  They share one fact (StepMoves): a   *)
(* step either leaves every task where it is, revises the plan, ends the work,  *)
(* or moves one task in one of eight ways.  Each property is then an invariant  *)
(* of those ways alone.                                                       *)
(***************************************************************************)
EXTENDS WorkOrderProofs

-----------------------------------------------------------------------------
(* What the store's operators leave alone.                                   *)

SameRest(w, v) == /\ v.work = w.work /\ v.ended = w.ended /\ v.deps = w.deps
                  /\ v.pending = w.pending /\ v.watch = w.watch
                  /\ v.result = w.result /\ v.denied = w.denied /\ v.judged = w.judged

\* The main tasks look the same; their helpers may differ.
SameTasks(w, v) == v.epoch = w.epoch /\ \A t \in Tasks : v.status[t] = w.status[t]

\* No helper is moved, except that it may be stopped.
HelpersDrop(w, v) == \A h \in Helpers : v.status[h] \in {w.status[h], "abandoned"}

QuietBelow(v, t) == \A h \in Descendants(t) : v.status[h] \notin Startable

\* A cascade over helpers does not touch the main tasks.
LEMMA CascadeBelow ==
  ASSUME NEW w \in WorkObjects, NEW S \in SUBSET Helpers
  PROVE  LET v == CascadeAbandon(w, S)
         IN  /\ SameRest(w, v) /\ SameTasks(w, v) /\ HelpersDrop(w, v)
             /\ v.wake = w.wake /\ v.held = w.held
             /\ \A h \in S : v.status[h] \notin Startable
<1>1. \A t \in Tasks : t \notin S
  BY DisjointNodes
<1> DEFINE v == CascadeAbandon(w, S)
<1>2. SameRest(w, v) /\ v.epoch = w.epoch
  BY DEF CascadeAbandon, WorkObjects, SameRest
<1>3. v.wake = w.wake /\ v.held = w.held
  BY <1>1 DEF CascadeAbandon, WorkObjects
<1>4. v.status = [n \in Nodes |-> IF n \in S /\ Moot(w, n) THEN "abandoned" ELSE w.status[n]]
  BY DEF CascadeAbandon, WorkObjects
<1>5. \A h \in S : v.status[h] \notin Startable
  BY <1>4 DEF Moot, Startable, Nodes
<1> QED
  BY <1>1, <1>2, <1>3, <1>4, <1>5 DEF SameTasks, HelpersDrop, Nodes

\* set_status moves one node, starts an epoch when it dispatches a task, and stops the helpers
\* of a task that reaches an outcome.
LEMMA SetStatusMoves ==
  ASSUME NEW w \in WorkObjects, NEW n \in Nodes, NEW s \in Statuses
  PROVE  LET v == SetStatus(w, n, s)
         IN  /\ v \in WorkObjects /\ SameRest(w, v)
             /\ v.wake = w.wake /\ v.held = w.held
             /\ \A t \in Tasks : v.status[t] = IF t = n THEN s ELSE w.status[t]
             /\ \A t \in Tasks : v.epoch[t] = IF t = n /\ s = "dispatched" /\ w.status[t] # "dispatched"
                                              THEN w.epoch[t] + 1 ELSE w.epoch[t]
             /\ \A h \in Helpers : v.status[h] \in {w.status[h], "abandoned"} \/ (h = n /\ v.status[h] = s)
             /\ s \in OutcomeStatuses /\ s # w.status[n] => QuietBelow(v, n)
<1> DEFINE bumped == [t \in Tasks |-> IF t = n /\ s = "dispatched" /\ w.status[n] # "dispatched"
                                      THEN w.epoch[t] + 1 ELSE w.epoch[t]]
           moved  == [w EXCEPT !.status = [@ EXCEPT ![n] = s], !.epoch = bumped]
           v      == SetStatus(w, n, s)
<1>1. bumped \in [Tasks -> Nat]
  BY DEF WorkObjects
<1>2. \A t \in Tasks : bumped[t] = IF t = n /\ s = "dispatched" /\ w.status[t] # "dispatched"
                                   THEN w.epoch[t] + 1 ELSE w.epoch[t]
  OBVIOUS
<1> HIDE DEF bumped
<1>3. moved \in WorkObjects
  BY <1>1 DEF WorkObjects
<1>4. /\ SameRest(w, moved) /\ moved.wake = w.wake /\ moved.held = w.held /\ moved.epoch = bumped
      /\ moved.status = [w.status EXCEPT ![n] = s]
  BY DEF WorkObjects, SameRest
<1>5. \A m \in Nodes : moved.status[m] = IF m = n THEN s ELSE w.status[m]
  BY <1>4 DEF WorkObjects
<1>6. v = IF s \in OutcomeStatuses /\ s # w.status[n]
          THEN CascadeAbandon(moved, Descendants(n)) ELSE moved
  BY DEF SetStatus, bumped
<1>7. Descendants(n) \in SUBSET Helpers
  BY DescendantsAreLeast
<1> HIDE DEF moved, v
<1>8. /\ SameRest(moved, v) /\ SameTasks(moved, v) /\ HelpersDrop(moved, v)
      /\ v.wake = moved.wake /\ v.held = moved.held
      /\ s \in OutcomeStatuses /\ s # w.status[n] => QuietBelow(v, n)
  <2>1. CASE v = moved /\ ~(s \in OutcomeStatuses /\ s # w.status[n])
    BY <2>1 DEF SameRest, SameTasks, HelpersDrop
  <2>2. CASE v = CascadeAbandon(moved, Descendants(n))
    BY <1>3, <1>7, <2>2, CascadeBelow DEF QuietBelow
  <2> QED
    BY <1>6, <2>1, <2>2
<1>9. ASSUME NEW h \in Helpers
      PROVE  v.status[h] \in {w.status[h], "abandoned"} \/ (h = n /\ v.status[h] = s)
  <2>1. v.status[h] \in {moved.status[h], "abandoned"}
    BY <1>8 DEF HelpersDrop
  <2>2. h \in Nodes
    BY DEF Nodes
  <2>3. CASE h # n
    BY <1>5, <2>1, <2>2, <2>3
  <2>4. CASE h = n
    BY <1>5, <2>1, <2>2, <2>4
  <2> QED
    BY <2>3, <2>4
<1>10. v \in WorkObjects
  BY SetStatusIsTyped DEF v
<1>11. SameRest(w, v) /\ v.wake = w.wake /\ v.held = w.held
  BY <1>4, <1>8 DEF SameRest
<1>12. \A t \in Tasks : /\ v.status[t] = IF t = n THEN s ELSE w.status[t]
                        /\ v.epoch[t] = IF t = n /\ s = "dispatched" /\ w.status[t] # "dispatched"
                                        THEN w.epoch[t] + 1 ELSE w.epoch[t]
  BY <1>2, <1>4, <1>5, <1>8 DEF SameTasks, Nodes
<1> QED
  BY <1>8, <1>9, <1>10, <1>11, <1>12 DEF v

\* The work settles: it stays as it was, or its last task closed and it is done.
Settles(w, v) == \/ v.work = w.work
                 \/ v.work = "done" /\ w.work # "abandoned" /\ GoalSatisfied(v) /\ ~HasPending(v)

\* A committed result differs from the handler's in that the work may have completed, and then
\* only in its helpers: its tasks are all closed.
LEMMA CommitMoves ==
  ASSUME NEW w \in WorkObjects, Commit(w)
  PROVE  /\ wo' \in WorkObjects /\ Valid(wo')
         /\ SameTasks(w, wo') /\ HelpersDrop(w, wo') /\ Settles(w, wo')
         /\ wo'.ended = w.ended /\ wo'.deps = w.deps /\ wo'.pending = w.pending
         /\ wo'.watch = w.watch /\ wo'.result = w.result /\ wo'.denied = w.denied
         /\ wo'.judged = w.judged
         /\ wo'.wake = w.wake /\ wo'.held = w.held
<1> DEFINE completed == [w EXCEPT !.work = "done", !.goal = "done"]
<1>1. wo' \in WorkObjects /\ Valid(wo') /\ wo' = Rollup(w)
  BY RollupIsTyped DEF Commit
<1>2. CASE Rollup(w) = w
  BY <1>1, <1>2 DEF SameTasks, HelpersDrop, Settles
<1>3. CASE /\ w.work # "abandoned" /\ GoalSatisfied(w) /\ ~HasPending(w)
           /\ Rollup(w) = CascadeAbandon(completed, Nodes)
  <2>1. /\ completed \in WorkObjects /\ completed.status = w.status
        /\ completed.work = "done" /\ completed.ended = w.ended /\ completed.deps = w.deps
        /\ completed.pending = w.pending /\ completed.watch = w.watch /\ completed.epoch = w.epoch
        /\ completed.result = w.result /\ completed.denied = w.denied /\ completed.judged = w.judged
        /\ completed.wake = w.wake /\ completed.held = w.held
    BY DEF WorkObjects
  <2> HIDE DEF completed
  <2> DEFINE v == CascadeAbandon(completed, Nodes)
  <2>2. \A t \in Tasks : w.status[t] \in {"absent", "closed"}
    BY <1>3 DEF GoalSatisfied, Planned
  <2>3. \A t \in Tasks : ~Moot(completed, t)
    BY <2>1, <2>2 DEF Moot, InFlightAsk, Startable
  <2>4. v.status = [n \in Nodes |-> IF Moot(completed, n) THEN "abandoned" ELSE w.status[n]]
    BY <2>1 DEF CascadeAbandon, WorkObjects
  <2>5. v.wake = w.wake /\ v.held = w.held
    BY <2>1, <2>3 DEF CascadeAbandon, WorkObjects
  <2>6. /\ v.work = "done" /\ v.ended = w.ended /\ v.deps = w.deps
        /\ v.pending = w.pending /\ v.watch = w.watch /\ v.epoch = w.epoch
        /\ v.result = w.result /\ v.denied = w.denied /\ v.judged = w.judged
    BY <2>1 DEF CascadeAbandon, WorkObjects
  <2> HIDE DEF v
  <2>7. SameTasks(w, v) /\ HelpersDrop(w, v)
    BY <2>3, <2>4, <2>6 DEF SameTasks, HelpersDrop, Nodes
  <2>8. Planned(v) = Planned(w) /\ GoalSatisfied(v) /\ ~HasPending(v)
    BY <1>3, <2>6, <2>7 DEF SameTasks, Planned, GoalSatisfied, HasPending
  <2>9. wo' = v
    BY <1>1, <1>3 DEF v
  <2> QED
    BY <1>1, <1>3, <2>5, <2>6, <2>7, <2>8, <2>9 DEF Settles
<1> QED
  BY <1>2, <1>3 DEF Rollup

-----------------------------------------------------------------------------
(* The ways a main task can move.  Each is a relation between the work object *)
(* before and after.                                                         *)

SameAttempt(w, v, t) == /\ v.epoch[t] = w.epoch[t] /\ v.result[t] = w.result[t]
                        /\ v.denied[t] = w.denied[t] /\ v.judged[t] = w.judged[t]

\* It stays where it is; at most its gates change.
Rests(w, v, t) == /\ v.status[t] = w.status[t] /\ SameAttempt(w, v, t)
                  /\ w.status[t] = "closed" /\ w.watch[t] = "over" => v.watch[t] = "over"

Appears(w, v, t) == w.status[t] = "absent" /\ v.status[t] = "proposed" /\ SameAttempt(w, v, t)

\* Abandoned, by a revision or with the whole work.
Dropped(w, v, t) == /\ w.status[t] \in Startable \cup {"dispatched"} /\ v.status[t] = "abandoned"
                    /\ SameAttempt(w, v, t)

\* The state mover queues a task of its snapshot or holds it back.
Queued(w, v, t) == /\ t \in seen \/ t = parking
                   /\ w.status[t] \in {"proposed", "actionable", "waiting", "dispatched"}
                   /\ v.status[t] \in {"actionable", "waiting"} /\ SameAttempt(w, v, t)

Started(w, v, t) == /\ MayClaim(w, t) /\ MoverQuiet
                    /\ v.status[t] = "dispatched" /\ v.epoch[t] = w.epoch[t] + 1
                    /\ v.result[t] = w.result[t] /\ v.denied[t] = w.denied[t]
                    /\ v.judged[t] = w.judged[t]

GateFailed(w, v, t) ==
  /\ w.status[t] \in {"proposed", "actionable", "waiting", "dispatched", "done"}
  /\ v.status[t] = "failed" /\ SameAttempt(w, v, t)

\* A result is stored for the attempt the task is at, or for the one it is taken to be at.
Reported(w, v, t) ==
  /\ ~Ended(w) /\ w.status[t] \in {"dispatched", "proposed", "actionable", "waiting"}
  /\ v.status[t] \in {"done", "failed"}
  /\ v.epoch[t] = IF w.status[t] \in {"proposed", "actionable"} THEN w.epoch[t] + 1 ELSE w.epoch[t]
  /\ v.result[t] = v.epoch[t] /\ v.judged[t] = w.judged[t]

\* The attempt is judged; a denied one is judged failed.
WasJudged(w, v, t) ==
  /\ ~Ended(w) /\ NeedsFinalization(w, t)
  /\ v.status[t] \in {"closed", "waiting", "proposed", "failed"}
  /\ w.denied[t] => v.status[t] = "failed"
  /\ v.epoch[t] = w.epoch[t] /\ v.judged[t] = w.epoch[t]
  /\ v.result[t] = w.result[t] /\ v.denied[t] = w.denied[t]

WatchOver(w, v, t) == /\ ~Ended(w) /\ MayEndWatch(w, t)
                      /\ v.status[t] = "closed" /\ v.watch[t] = "over" /\ SameAttempt(w, v, t)

\* The owner sets one of the statuses the work UI offers, where the store allows it.
OwnerMoved(w, v, t) ==
  \E s \in OwnerTargets :
    /\ s # w.status[t] /\ MaySetStatus(w, t, s, "work_ui", FALSE)
    /\ v.status[t] = s
    /\ v.epoch[t] = IF s = "dispatched" THEN w.epoch[t] + 1 ELSE w.epoch[t]
    /\ v.result[t] = w.result[t] /\ v.denied[t] = w.denied[t] /\ v.judged[t] = w.judged[t]
    /\ v.watch[t] = w.watch[t]

Moved(w, v, t) == \/ Queued(w, v, t) \/ Started(w, v, t) \/ GateFailed(w, v, t)
                  \/ Reported(w, v, t) \/ WasJudged(w, v, t) \/ WatchOver(w, v, t)
                  \/ OwnerMoved(w, v, t) \/ Appears(w, v, t)

-----------------------------------------------------------------------------
(* The handlers, in these terms.                                             *)

\* defer_node moves at most a task in flight, which it parks.
LEMMA DeferMoves ==
  ASSUME NEW w \in WorkObjects, NEW t \in Tasks, NEW kind \in WakeKinds, NEW future \in BOOLEAN
  PROVE  LET v == Defer(w, t, kind, future)
         IN  /\ v \in WorkObjects /\ SameRest(w, v) /\ v.epoch = w.epoch
             /\ \A u \in Tasks : v.status[u] =
                  IF u = t /\ w.status[u] = "dispatched" /\ kind # "user_reply" THEN "waiting" ELSE w.status[u]
             /\ HelpersDrop(w, v)
<1> DEFINE v == Defer(w, t, kind, future)
<1>1. v \in WorkObjects
  BY DeferIsTyped
<1>2. /\ SameRest(w, v) /\ v.epoch = w.epoch
      /\ v.status = IF w.status[t] = "dispatched" /\ kind # "user_reply"
                    THEN [w.status EXCEPT ![t] = "waiting"] ELSE w.status
  BY DEF Defer, WorkObjects, SameRest
<1>3. w.status \in [Nodes -> Statuses] /\ \A h \in Helpers : h # t
  BY DisjointNodes DEF WorkObjects
<1> QED
  BY <1>1, <1>2, <1>3 DEF HelpersDrop, Nodes

\* Every planning operation but a prune: no task in motion is touched, no closed watch reopened.
LEMMA PlansMove ==
  ASSUME NEW w \in WorkObjects
  PROVE  /\ \A A \in SUBSET Tasks :
              LET v == AddTasks(w, A)
              IN  /\ v \in WorkObjects /\ SameRest(w, v) /\ v.epoch = w.epoch
                  /\ \A n \in Nodes : v.status[n] = IF n \in A THEN "proposed" ELSE w.status[n]
         /\ \A t \in Tasks, g \in Gates :
              LET v == Gate(w, t, g)
              IN  MayGate(w, t, g) =>
                    /\ v \in WorkObjects /\ v.status = w.status /\ v.epoch = w.epoch
                    /\ v.work = w.work /\ v.ended = w.ended /\ v.deps = w.deps
                    /\ v.pending = w.pending /\ v.result = w.result /\ v.denied = w.denied
                    /\ v.judged = w.judged
                    /\ \A u \in Tasks : u # t => v.watch[u] = w.watch[u]
         /\ LET v == Consume(w)
            IN  /\ v \in WorkObjects /\ v.status = w.status /\ v.epoch = w.epoch
                /\ v.work = w.work /\ v.ended = w.ended /\ v.deps = w.deps
                /\ v.result = w.result /\ v.denied = w.denied
                /\ v.judged = w.judged /\ v.watch = w.watch
<1>1. ASSUME NEW A \in SUBSET Tasks
      PROVE  LET v == AddTasks(w, A)
             IN  /\ v \in WorkObjects /\ SameRest(w, v) /\ v.epoch = w.epoch
                 /\ \A n \in Nodes : v.status[n] = IF n \in A THEN "proposed" ELSE w.status[n]
  <2>1. AddTasks(w, A) \in WorkObjects
    BY ArchitectIsTyped
  <2> QED
    BY <2>1 DEF AddTasks, WorkObjects, SameRest
<1>2. ASSUME NEW t \in Tasks, NEW g \in Gates, MayGate(w, t, g)
      PROVE  LET v == Gate(w, t, g)
             IN  /\ v \in WorkObjects /\ v.status = w.status /\ v.epoch = w.epoch
                 /\ v.work = w.work /\ v.ended = w.ended /\ v.deps = w.deps
                 /\ v.pending = w.pending /\ v.result = w.result /\ v.denied = w.denied
                 /\ v.judged = w.judged
                 /\ \A u \in Tasks : u # t => v.watch[u] = w.watch[u]
  <2> DEFINE Deferred(v) == /\ v \in WorkObjects /\ v.status = w.status /\ v.epoch = w.epoch
                            /\ v.work = w.work /\ v.ended = w.ended /\ v.deps = w.deps
                            /\ v.pending = w.pending /\ v.result = w.result /\ v.denied = w.denied
                            /\ v.judged = w.judged
                            /\ \A u \in Tasks : u # t => v.watch[u] = w.watch[u]
  <2>1. w.status[t] # "dispatched"
    BY <1>2 DEF MayGate
  <2>2. ASSUME NEW kind \in WakeKinds, NEW future \in BOOLEAN PROVE Deferred(Defer(w, t, kind, future))
    <3>1. Defer(w, t, kind, future) \in WorkObjects
      BY DeferIsTyped
    <3> QED
      BY <2>1, <3>1 DEF Defer, WorkObjects
  <2>3. ASSUME NEW v, Deferred(v) PROVE Deferred(OpenWatch(v, t))
    BY <2>3 DEF OpenWatch, WorkObjects
  <2> HIDE DEF Deferred
  <2>4. Deferred(Defer(w, t, "time", TRUE)) /\ Deferred(Defer(w, t, "event", FALSE))
    BY <2>2 DEF WakeKinds
  <2>5. Deferred(OpenWatch(Defer(w, t, "event", FALSE), t))
    BY <2>3, <2>4
  <2>6. Deferred(Gate(w, t, g))
    BY <2>4, <2>5, GatesType DEF Gate
  <2> QED
    BY <2>6 DEF Deferred
<1>3. LET v == Consume(w)
      IN  /\ v \in WorkObjects /\ v.status = w.status /\ v.epoch = w.epoch
          /\ v.work = w.work /\ v.ended = w.ended /\ v.deps = w.deps
          /\ v.result = w.result /\ v.denied = w.denied
          /\ v.judged = w.judged /\ v.watch = w.watch
  <2>1. Consume(w) \in WorkObjects
    BY ArchitectIsTyped
  <2> QED
    BY <2>1 DEF Consume, WorkObjects
<1> QED
  BY <1>1, <1>2, <1>3

\* A prune drops its tasks, unless they already ended, and the helpers below them.
LEMMA PruneMoves ==
  ASSUME NEW w \in WorkObjects, NEW P \in SUBSET Tasks
  PROVE  LET v == Prune(w, P)
         IN  /\ v \in WorkObjects /\ SameRest(w, v) /\ v.epoch = w.epoch
             /\ \A t \in Tasks : v.status[t] = IF t \in P THEN "abandoned" ELSE w.status[t]
             /\ HelpersDrop(w, v)
             /\ \A t \in P : QuietBelow(v, t)
<1> DEFINE v == Prune(w, P)
           below == UNION {Descendants(t) : t \in P}
<1>1. below \subseteq Helpers
  BY DescendantsAreLeast DEF Nodes
<1>2. \A t \in Tasks : t \notin below
  BY <1>1, DisjointNodes
<1>3. v \in WorkObjects
  BY ArchitectIsTyped
<1>4. SameRest(w, v) /\ v.epoch = w.epoch
  BY DEF Prune, WorkObjects, SameRest
<1>5. \A n \in Nodes : v.status[n] =
         IF n \in P \/ (n \in below /\ w.status[n] \notin OutcomeStatuses \cup {"absent"})
         THEN "abandoned" ELSE w.status[n]
  BY DEF Prune, WorkObjects
<1> HIDE DEF v
<1>6. \A t \in Tasks : v.status[t] = IF t \in P THEN "abandoned" ELSE w.status[t]
  BY <1>2, <1>5 DEF Nodes
<1>7. HelpersDrop(w, v)
  BY <1>5 DEF HelpersDrop, Nodes
<1>8. ASSUME NEW t \in P, NEW h \in Descendants(t) PROVE v.status[h] \notin Startable
  <2>1. h \in below /\ h \in Nodes
    BY <1>1 DEF Nodes
  <2> QED
    BY <1>5, <2>1 DEF Startable, OutcomeStatuses
<1> QED
  BY <1>3, <1>4, <1>6, <1>7, <1>8 DEF v, QuietBelow

\* One task is handled: the others, and everything above them, stay as they are.
OnlyTask(w, v, t) ==
  /\ v \in WorkObjects /\ v.work = w.work /\ v.ended = w.ended /\ v.deps = w.deps
  /\ \A u \in Tasks : u # t => /\ v.status[u] = w.status[u] /\ SameAttempt(w, v, u)
                               /\ v.watch[u] = w.watch[u]
  /\ HelpersDrop(w, v)

\* Handling a task twice is handling it.
LEMMA OnlyTaskChains ==
  ASSUME NEW u, NEW v, NEW w, NEW t, OnlyTask(u, v, t), OnlyTask(v, w, t)
  PROVE  OnlyTask(u, w, t)
  BY DEF OnlyTask, SameAttempt, HelpersDrop

\* Setting the status of a main task handles that task.
LEMMA SetStatusOfTask ==
  ASSUME NEW w \in WorkObjects, NEW t \in Tasks, NEW s \in Statuses
  PROVE  LET v == SetStatus(w, t, s)
         IN  /\ OnlyTask(w, v, t) /\ v.status[t] = s /\ v.pending = w.pending
             /\ v.epoch[t] = IF s = "dispatched" /\ w.status[t] # "dispatched"
                             THEN w.epoch[t] + 1 ELSE w.epoch[t]
             /\ v.result = w.result /\ v.denied = w.denied /\ v.judged = w.judged
             /\ v.watch = w.watch /\ v.wake = w.wake
             /\ s \in OutcomeStatuses /\ s # w.status[t] => QuietBelow(v, t)
<1> DEFINE v == SetStatus(w, t, s)
<1>1. t \in Nodes /\ t \notin Helpers
  BY DisjointNodes DEF Nodes
<1>2. /\ v \in WorkObjects /\ SameRest(w, v) /\ v.wake = w.wake
      /\ \A u \in Tasks : v.status[u] = IF u = t THEN s ELSE w.status[u]
      /\ \A u \in Tasks : v.epoch[u] = IF u = t /\ s = "dispatched" /\ w.status[u] # "dispatched"
                                       THEN w.epoch[u] + 1 ELSE w.epoch[u]
      /\ \A h \in Helpers : v.status[h] \in {w.status[h], "abandoned"} \/ (h = t /\ v.status[h] = s)
      /\ s \in OutcomeStatuses /\ s # w.status[t] => QuietBelow(v, t)
  BY <1>1, SetStatusMoves
<1> HIDE DEF v
<1>3. OnlyTask(w, v, t)
  BY <1>1, <1>2 DEF OnlyTask, SameAttempt, SameRest, HelpersDrop
<1> QED
  BY <1>2, <1>3 DEF SameRest, v

\* So does a rewrite of fields of its row that leaves its helpers alone.
LEMMA RowIsOnlyTask ==
  ASSUME NEW w \in WorkObjects, NEW t \in Tasks, NEW v \in WorkObjects, NEW s,
         v.work = w.work, v.ended = w.ended, v.deps = w.deps, v.status = [w.status EXCEPT ![t] = s],
         v.epoch = w.epoch, v.watch = w.watch,
         \A u \in Tasks : u # t => /\ v.result[u] = w.result[u] /\ v.denied[u] = w.denied[u]
                                   /\ v.judged[u] = w.judged[u]
  PROVE  OnlyTask(w, v, t) /\ v.status[t] = s
<1>1. \A h \in Helpers : h # t
  BY DisjointNodes
<1>2. w.status \in [Nodes -> Statuses] /\ t \in Nodes
  BY DEF WorkObjects, Nodes
<1> QED
  BY <1>1, <1>2 DEF OnlyTask, SameAttempt, HelpersDrop, Nodes

\* record_result stores the result under the epoch the task then is at.
LEMMA RecordMoves ==
  ASSUME NEW w \in WorkObjects, NEW t \in Tasks, NEW outcome \in {"done", "failed"},
         NEW denial \in BOOLEAN, ~Ended(w),
         w.status[t] \in {"dispatched", "proposed", "actionable", "waiting"}
  PROVE  LET v == Record(w, t, outcome, denial)
         IN  /\ OnlyTask(w, v, t) /\ Reported(w, v, t) /\ v.watch = w.watch /\ v.pending = w.pending
             /\ v.status[t] = "done" => QuietBelow(v, t)
<1> DEFINE running  == IF w.status[t] \in {"proposed", "actionable"}
                       THEN SetStatus(w, t, "dispatched") ELSE w
           recorded == SetStatus(running, t, outcome)
           v        == Record(w, t, outcome, denial)
<1>1. /\ OnlyTask(w, running, t) /\ running \in WorkObjects
      /\ running.status[t] \in {"dispatched", "waiting"}
      /\ running.epoch[t] = IF w.status[t] \in {"proposed", "actionable"} THEN w.epoch[t] + 1 ELSE w.epoch[t]
      /\ running.judged = w.judged /\ running.watch = w.watch /\ running.pending = w.pending
  <2>1. CASE w.status[t] \in {"proposed", "actionable"}
    <3>1. "dispatched" \in Statuses
      BY DEF Statuses
    <3> QED
      BY <2>1, <3>1, SetStatusOfTask DEF OnlyTask
  <2>2. CASE w.status[t] \notin {"proposed", "actionable"}
    BY <2>2 DEF OnlyTask, SameAttempt, HelpersDrop
  <2> QED
    BY <2>1, <2>2
<1> HIDE DEF running
<1>2. /\ OnlyTask(running, recorded, t) /\ recorded \in WorkObjects /\ recorded.status[t] = outcome
      /\ recorded.epoch[t] = running.epoch[t]
      /\ recorded.judged = running.judged /\ recorded.watch = running.watch
      /\ recorded.pending = running.pending
      /\ outcome = "done" => QuietBelow(recorded, t)
  <2>1. outcome \in Statuses
    BY DEF Statuses
  <2> QED
    BY <1>1, <2>1, SetStatusOfTask DEF OnlyTask, OutcomeStatuses
<1>3. v = [recorded EXCEPT !.result = [@ EXCEPT ![t] = recorded.epoch[t]],
                           !.denied = [@ EXCEPT ![t] = denial]]
  BY DEF Record, running
<1> HIDE DEF recorded, v
<1>4. v \in WorkObjects
  BY RecordIsTyped DEF v
<1>5. /\ v.work = recorded.work /\ v.ended = recorded.ended /\ v.deps = recorded.deps
      /\ v.status = recorded.status /\ v.epoch = recorded.epoch /\ v.watch = recorded.watch
      /\ v.pending = recorded.pending /\ v.judged = recorded.judged
      /\ v.result = [recorded.result EXCEPT ![t] = recorded.epoch[t]]
      /\ v.denied = [recorded.denied EXCEPT ![t] = denial]
  BY <1>2, <1>3 DEF WorkObjects
<1>6. recorded.result \in [Tasks -> Epochs] /\ recorded.denied \in [Tasks -> BOOLEAN]
  BY <1>2 DEF WorkObjects
<1>7. OnlyTask(recorded, v, t) /\ v.result[t] = v.epoch[t]
  BY <1>4, <1>5, <1>6 DEF OnlyTask, SameAttempt, HelpersDrop
<1>8. OnlyTask(w, v, t)
  BY <1>1, <1>2, <1>7, OnlyTaskChains
<1>9. Reported(w, v, t)
  BY <1>1, <1>2, <1>5, <1>7 DEF Reported
<1> QED
  BY <1>1, <1>2, <1>5, <1>8, <1>9 DEF v, QuietBelow

\* end_watch closes a watch that ran out; nothing else of its row moves.
LEMMA EndWatchMoves ==
  ASSUME NEW w \in WorkObjects, NEW t \in Tasks, ~Ended(w), MayEndWatch(w, t)
  PROVE  LET v == EndWatch(w, t)
         IN  /\ OnlyTask(w, v, t) /\ WatchOver(w, v, t) /\ v.pending = w.pending /\ QuietBelow(v, t)
<1> DEFINE done == [w EXCEPT !.status = [@ EXCEPT ![t] = "done"],
                             !.wake   = [@ EXCEPT ![t] = "none"],
                             !.held   = [@ EXCEPT ![t] = FALSE]]
           v    == SetStatus(done, t, "closed")
<1>1. done \in WorkObjects
  BY DEF WorkObjects, Statuses, WakeKinds, Nodes
<1>2. /\ done.work = w.work /\ done.ended = w.ended /\ done.deps = w.deps /\ done.epoch = w.epoch
      /\ done.watch = w.watch /\ done.result = w.result /\ done.denied = w.denied
      /\ done.judged = w.judged /\ done.pending = w.pending
      /\ done.status = [w.status EXCEPT ![t] = "done"]
  BY DEF WorkObjects
<1> HIDE DEF done
<1>3. OnlyTask(w, done, t) /\ done.status[t] = "done"
  BY <1>1, <1>2, RowIsOnlyTask
<1>4. /\ OnlyTask(done, v, t) /\ v.status[t] = "closed" /\ v.epoch[t] = done.epoch[t]
      /\ v.result = done.result /\ v.denied = done.denied /\ v.judged = done.judged
      /\ v.watch = done.watch /\ v.pending = done.pending /\ QuietBelow(v, t)
  <2>1. "closed" \in Statuses /\ "closed" \in OutcomeStatuses
    BY DEF Statuses, OutcomeStatuses
  <2> QED
    BY <1>1, <1>3, <2>1, SetStatusOfTask
<1> HIDE DEF v
<1>5. OnlyTask(w, v, t)
  BY <1>3, <1>4, OnlyTaskChains
<1>6. WatchOver(w, v, t)
  BY <1>2, <1>4 DEF WatchOver, MayEndWatch, SameAttempt
<1>7. EndWatch(w, t) = v
  BY DEF EndWatch, done, v
<1> QED
  BY <1>2, <1>4, <1>5, <1>6, <1>7

\* The stamp of a judgment is the epoch the task is at, and nothing else of its row.
LEMMA JudgedMoves ==
  ASSUME NEW w \in WorkObjects, NEW t \in Tasks, NEW asks \in BOOLEAN
  PROVE  LET v == Judged(w, t, asks)
         IN  /\ OnlyTask(w, v, t) /\ v.status = w.status /\ v.epoch = w.epoch /\ v.watch = w.watch
             /\ v.result = w.result /\ v.denied = w.denied /\ v.judged[t] = w.epoch[t]
<1> DEFINE v == Judged(w, t, asks)
<1>1. v \in WorkObjects
  BY JudgedIsTyped
<1>2. /\ v.work = w.work /\ v.ended = w.ended /\ v.deps = w.deps /\ v.status = w.status
      /\ v.epoch = w.epoch /\ v.watch = w.watch /\ v.result = w.result /\ v.denied = w.denied
      /\ v.judged = [w.judged EXCEPT ![t] = w.epoch[t]]
  BY DEF Judged, WorkObjects
<1>3. w.judged \in [Tasks -> Epochs]
  BY DEF WorkObjects
<1> HIDE DEF v
<1>4. OnlyTask(w, v, t)
  BY <1>1, <1>2, <1>3 DEF OnlyTask, SameAttempt, HelpersDrop
<1> QED
  BY <1>2, <1>3, <1>4 DEF v

\* retry and unrecoverable: failed, or proposed again.
LEMMA FinalizeUnmetMoves ==
  ASSUME NEW w \in WorkObjects, NEW t \in Tasks, NEW verdict, NEW next, ~Ended(w),
         NeedsFinalization(w, t)
  PROVE  LET v == FinalizeUnmet(w, t, verdict, next)
         IN  /\ OnlyTask(w, v, t) /\ v.watch = w.watch
             /\ v.status[t] \in {"failed", "proposed"} /\ (verdict # "retry" => v.status[t] = "failed")
             /\ v.epoch[t] = w.epoch[t] /\ v.judged[t] = w.epoch[t]
             /\ v.result[t] = w.result[t] /\ v.denied[t] = w.denied[t]
<1> DEFINE unmet     == IF w.unmet = FailureLimit THEN FailureLimit ELSE w.unmet + 1
           escalated == unmet = FailureLimit /\ next # "stop"
           target    == IF verdict = "retry" /\ ~escalated THEN "proposed" ELSE "failed"
           failing   == SetStatus(w, t, "failed")
           failed    == [failing EXCEPT !.unmet = unmet]
           again     == SetStatus(failed, t, target)
           v         == Judged(again, t, TRUE)
<1>1. target \in Statuses /\ target \in {"failed", "proposed"} /\ (verdict # "retry" => target = "failed")
  BY DEF Statuses
<1>2. unmet \in 0 .. FailureLimit
  <2>1. w.unmet \in 0 .. FailureLimit /\ FailureLimit \in Nat
    BY FailureLimitType DEF WorkObjects
  <2> QED
    BY <2>1
<1> HIDE DEF target, unmet
<1>3. /\ OnlyTask(w, failing, t) /\ failing \in WorkObjects /\ failing.watch = w.watch
      /\ failing.epoch[t] = w.epoch[t] /\ failing.result = w.result /\ failing.denied = w.denied
      /\ failing.judged = w.judged
  <2>1. "failed" \in Statuses
    BY DEF Statuses
  <2> QED
    BY <2>1, SetStatusOfTask DEF OnlyTask
<1> HIDE DEF failing
<1>4. /\ failed \in WorkObjects /\ failed.work = failing.work /\ failed.ended = failing.ended
      /\ failed.deps = failing.deps /\ failed.status = failing.status /\ failed.epoch = failing.epoch
      /\ failed.watch = failing.watch /\ failed.result = failing.result
      /\ failed.denied = failing.denied /\ failed.judged = failing.judged
  BY <1>2, <1>3 DEF WorkObjects
<1> HIDE DEF failed
<1>5. OnlyTask(failing, failed, t)
  BY <1>4 DEF OnlyTask, SameAttempt, HelpersDrop
<1>6. /\ OnlyTask(failed, again, t) /\ again \in WorkObjects /\ again.watch = failed.watch
      /\ again.status[t] = target /\ again.epoch[t] = failed.epoch[t]
      /\ again.result = failed.result /\ again.denied = failed.denied /\ again.judged = failed.judged
  BY <1>1, <1>4, SetStatusOfTask DEF OnlyTask
<1> HIDE DEF again
<1>7. /\ OnlyTask(again, v, t) /\ v.status = again.status /\ v.epoch = again.epoch
      /\ v.watch = again.watch /\ v.result = again.result /\ v.denied = again.denied
      /\ v.judged[t] = again.epoch[t]
  BY <1>6, JudgedMoves
<1> HIDE DEF v
<1>8. OnlyTask(w, v, t)
  BY <1>3, <1>5, <1>6, <1>7, OnlyTaskChains
<1>9. FinalizeUnmet(w, t, verdict, next) = v
  BY DEF FinalizeUnmet, v, again, failed, failing, target, unmet
<1> QED
  BY <1>1, <1>3, <1>4, <1>6, <1>7, <1>8, <1>9

\* The achieved verdicts: closed, with nothing left to start below, or a watch that waits again.
LEMMA FinalizeMetMoves ==
  ASSUME NEW w \in WorkObjects, NEW t \in Tasks, NEW verdict
  PROVE  LET v == FinalizeMet(w, t, verdict)
         IN  /\ OnlyTask(w, v, t) /\ v.watch = w.watch
             /\ v.status[t] \in {"closed", "waiting"} /\ (v.status[t] = "closed" => QuietBelow(v, t))
             /\ v.epoch[t] = w.epoch[t] /\ v.judged[t] = w.epoch[t]
             /\ v.result[t] = w.result[t] /\ v.denied[t] = w.denied[t]
<1> DEFINE met     == [w EXCEPT !.unmet = 0, !.status = [@ EXCEPT ![t] = "done"]]
           waiting == [met EXCEPT !.status = [@ EXCEPT ![t] = "waiting"],
                                  !.wake   = [@ EXCEPT ![t] = "event"],
                                  !.held   = [@ EXCEPT ![t] = FALSE]]
           closed  == SetStatus(met, t, "closed")
           asks    == verdict = "achieved_plan_changes"
           again   == Judged(waiting, t, FALSE)
           over    == Judged(closed, t, asks)
<1>1. /\ met \in WorkObjects /\ met.work = w.work /\ met.ended = w.ended /\ met.deps = w.deps
      /\ met.status = [w.status EXCEPT ![t] = "done"] /\ met.epoch = w.epoch /\ met.watch = w.watch
      /\ met.result = w.result /\ met.denied = w.denied /\ met.judged = w.judged
  <2>1. 0 \in 0 .. FailureLimit /\ t \in Nodes /\ "done" \in Statuses
    BY FailureLimitType DEF Nodes, Statuses
  <2> QED
    BY <2>1 DEF WorkObjects
<1> HIDE DEF met
<1>2. OnlyTask(w, met, t) /\ met.status[t] = "done"
  BY <1>1, RowIsOnlyTask
<1>3. /\ waiting \in WorkObjects /\ waiting.work = met.work /\ waiting.ended = met.ended
      /\ waiting.deps = met.deps /\ waiting.status = [met.status EXCEPT ![t] = "waiting"]
      /\ waiting.epoch = met.epoch /\ waiting.watch = met.watch /\ waiting.result = met.result
      /\ waiting.denied = met.denied /\ waiting.judged = met.judged
  BY <1>1 DEF WorkObjects, Statuses, WakeKinds, Nodes
<1> HIDE DEF waiting
<1>4. OnlyTask(met, waiting, t) /\ waiting.status[t] = "waiting"
  BY <1>1, <1>3, RowIsOnlyTask
<1>5. /\ OnlyTask(met, closed, t) /\ closed \in WorkObjects /\ closed.status[t] = "closed"
      /\ closed.epoch[t] = met.epoch[t] /\ closed.watch = met.watch /\ closed.result = met.result
      /\ closed.denied = met.denied /\ QuietBelow(closed, t)
  <2>1. "closed" \in Statuses /\ "closed" \in OutcomeStatuses
    BY DEF Statuses, OutcomeStatuses
  <2>2. met \in WorkObjects /\ met.status[t] = "done"
    BY <1>1, <1>2
  <2>3. closed \in WorkObjects
    BY <2>1, <2>2, SetStatusIsTyped DEF Nodes
  <2> QED
    BY <2>1, <2>2, <2>3, SetStatusOfTask
<1> HIDE DEF closed
<1>6. /\ OnlyTask(waiting, again, t) /\ again.status = waiting.status /\ again.epoch = waiting.epoch
      /\ again.watch = waiting.watch /\ again.result = waiting.result
      /\ again.denied = waiting.denied /\ again.judged[t] = waiting.epoch[t]
  BY <1>3, JudgedMoves
<1>7. /\ OnlyTask(closed, over, t) /\ over.status = closed.status /\ over.epoch = closed.epoch
      /\ over.watch = closed.watch /\ over.result = closed.result
      /\ over.denied = closed.denied /\ over.judged[t] = closed.epoch[t]
  <2>1. asks \in BOOLEAN
    OBVIOUS
  <2> HIDE DEF asks
  <2> QED
    BY <1>5, <2>1, JudgedMoves
<1>8. OnlyTask(w, again, t) /\ OnlyTask(w, over, t)
  BY <1>2, <1>4, <1>5, <1>6, <1>7, OnlyTaskChains
<1>9. QuietBelow(over, t)
  BY <1>5, <1>7 DEF QuietBelow
<1>10. FinalizeMet(w, t, verdict) \in {again, over}
  BY DEF FinalizeMet, again, over, waiting, closed, met
<1> HIDE DEF again, over
<1> QED
  BY <1>1, <1>3, <1>4, <1>5, <1>6, <1>7, <1>8, <1>9, <1>10

\* finalize_task moves its task as a judgment does; a denied attempt is not closed.
LEMMA FinalizeMoves ==
  ASSUME NEW w \in WorkObjects, NEW t \in Tasks, NEW verdict, NEW next, ~Ended(w),
         NeedsFinalization(w, t)
  PROVE  LET v == Finalize(w, t, verdict, next)
         IN  /\ OnlyTask(w, v, t) /\ WasJudged(w, v, t) /\ v.watch = w.watch
             /\ (v.status[t] = "closed" => QuietBelow(v, t))
<1> DEFINE v == Finalize(w, t, verdict, next)
<1>1. CASE w.denied[t]
  <2>1. v = FinalizeUnmet(w, t, "unrecoverable", "stop")
    BY <1>1 DEF Finalize
  <2> HIDE DEF v
  <2> QED
    BY <2>1, FinalizeUnmetMoves DEF WasJudged, v
<1>2. CASE ~w.denied[t] /\ v = FinalizeUnmet(w, t, verdict, next)
  <2> HIDE DEF v
  <2> QED
    BY <1>2, FinalizeUnmetMoves DEF WasJudged, v
<1>3. CASE ~w.denied[t] /\ v = FinalizeMet(w, t, verdict)
  <2> HIDE DEF v
  <2> QED
    BY <1>3, FinalizeMetMoves DEF WasJudged, v
<1> QED
  BY <1>1, <1>2, <1>3 DEF Finalize

\* set_work_status drops what has not started and the questions still out, and stops no task
\* in flight.
LEMMA EndWorkMoves ==
  ASSUME NEW w \in WorkObjects, NEW target \in EndedWork
  PROVE  LET v == EndWork(w, target)
         IN  /\ v \in WorkObjects /\ v.work = target /\ v.ended = TRUE /\ v.deps = w.deps
             /\ v.pending = w.pending /\ v.watch = w.watch /\ v.epoch = w.epoch
             /\ v.result = w.result /\ v.denied = w.denied /\ v.judged = w.judged
             /\ \A t \in Tasks : v.status[t] = IF Moot(w, t) THEN "abandoned" ELSE w.status[t]
             /\ HelpersDrop(w, v)
             /\ \A n \in Nodes : v.status[n] \notin Startable
<1> DEFINE ended == [w EXCEPT !.work = target, !.ended = TRUE,
                              !.goal = IF w.goal \in EndedWork THEN w.goal ELSE target]
           v == CascadeAbandon(ended, Nodes)
<1>1. /\ ended \in WorkObjects /\ ended.work = target /\ ended.ended = TRUE /\ ended.deps = w.deps
      /\ ended.pending = w.pending /\ ended.watch = w.watch /\ ended.epoch = w.epoch
      /\ ended.result = w.result /\ ended.denied = w.denied /\ ended.judged = w.judged
      /\ ended.status = w.status /\ ended.wake = w.wake
  BY DEF WorkObjects, EndedWork
<1> HIDE DEF ended
<1>2. \A n \in Nodes : Moot(ended, n) <=> Moot(w, n)
  BY <1>1 DEF Moot, InFlightAsk
<1>3. /\ v \in WorkObjects /\ v.work = target /\ v.ended = TRUE /\ v.deps = w.deps
      /\ v.pending = w.pending /\ v.watch = w.watch /\ v.epoch = w.epoch
      /\ v.result = w.result /\ v.denied = w.denied /\ v.judged = w.judged
  <2>1. v \in WorkObjects
    BY <1>1, CascadeIsTyped
  <2> QED
    BY <1>1, <2>1 DEF CascadeAbandon, WorkObjects
<1>4. \A n \in Nodes : v.status[n] = IF Moot(w, n) THEN "abandoned" ELSE w.status[n]
  BY <1>1, <1>2 DEF CascadeAbandon, WorkObjects
<1>5. EndWork(w, target) = v
  BY DEF EndWork, ended
<1> HIDE DEF v
<1>6. HelpersDrop(w, v)
  BY <1>4 DEF HelpersDrop, Nodes
<1>7. \A n \in Nodes : v.status[n] \notin Startable
  BY <1>4 DEF Moot, Startable
<1> QED
  BY <1>3, <1>4, <1>5, <1>6, <1>7 DEF Nodes

-----------------------------------------------------------------------------
(* What a step does to the main tasks.                                       *)

Framed(w, v) == v.ended = w.ended /\ v.deps = w.deps /\ Settles(w, v)

\* Every task stays where it is.
Idles(w, v) == Framed(w, v) /\ v.pending = w.pending /\ \A t \in Tasks : Rests(w, v, t)

\* The dispatches of a task are counted, and MaxEpoch bounds them.
Counts(w, v, t) == v.epoch[t] = w.epoch[t] \/ v.epoch[t] <= MaxEpoch

\* One task moves, in one of the ways above.
MovesOne(w, v) ==
  /\ Framed(w, v) /\ (v.pending = w.pending \/ ~Ended(w))
  /\ \E t \in Tasks : Moved(w, v, t) /\ Counts(w, v, t) /\ \A u \in Tasks \ {t} : Rests(w, v, u)

\* The plan of open work is revised: tasks appear, and are dropped unless the user was asked.
Revises(w, v) ==
  /\ w.work = "active" /\ v.ended = w.ended /\ Settles(w, v)
  /\ \A t \in Tasks : Rests(w, v, t) \/ Appears(w, v, t) \/ (Dropped(w, v, t) /\ ~InFlightAsk(w, t))

\* The dependencies stay, gain one that closes no cycle, or go over to the tasks kept for
\* dropped duplicates.
Rewires(w, v) ==
  \/ v.deps = w.deps
  \/ \E s, d \in Tasks : ~Reaches(w.deps, s, d) /\ v.deps = w.deps \cup {<<s, d>>}
  \/ \E D \in SUBSET Tasks : \E kept \in [D -> Tasks] :
       /\ AcyclicNeeds(v.deps) /\ v.deps = Redirect(w, kept).deps
       /\ \A t \in D : v.status[t] = "abandoned"

\* The work is ended by a decision, and with it everything that has not started.
Ends(w, v) ==
  /\ v.ended = TRUE /\ v.work \in EndedWork /\ (w.work = "active" \/ v.work = "abandoned")
  /\ v.deps = w.deps
  /\ \A t \in Tasks : Rests(w, v, t) \/ (Dropped(w, v, t) /\ Moot(w, t))

\* A revision of a typed work object that is then committed.
LEMMA CommitRevises ==
  ASSUME WorkTyped, wo.work = "active", NEW w \in WorkObjects, Commit(w),
         w.work = wo.work, w.ended = wo.ended, w.epoch = wo.epoch, w.result = wo.result,
         w.denied = wo.denied, w.judged = wo.judged,
         \A t \in Tasks : \/ w.status[t] = wo.status[t] /\ (wo.status[t] = "closed" => w.watch[t] = wo.watch[t])
                          \/ wo.status[t] = "absent" /\ w.status[t] = "proposed"
                          \/ /\ wo.status[t] \in Startable \cup {"dispatched"}
                             /\ w.status[t] = "abandoned" /\ ~InFlightAsk(wo, t)
  PROVE  Revises(wo, wo')
<1>1. /\ SameTasks(w, wo') /\ Settles(w, wo') /\ wo'.ended = w.ended /\ wo'.watch = w.watch
      /\ wo'.result = w.result /\ wo'.denied = w.denied /\ wo'.judged = w.judged
  BY CommitMoves
<1>2. \A t \in Tasks : SameAttempt(wo, wo', t)
  BY <1>1 DEF SameAttempt, SameTasks
<1>3. ASSUME NEW t \in Tasks
      PROVE  Rests(wo, wo', t) \/ Appears(wo, wo', t) \/ (Dropped(wo, wo', t) /\ ~InFlightAsk(wo, t))
  BY <1>1, <1>2 DEF SameTasks, Rests, Appears, Dropped
<1>4. Settles(wo, wo')
  BY <1>1 DEF Settles
<1> QED
  BY <1>1, <1>3, <1>4 DEF Revises

\* An end of the work that is then committed.
LEMMA CommitEnds ==
  ASSUME WorkTyped, NEW w \in WorkObjects, w.status = wo.status, w.epoch = wo.epoch, w.result = wo.result,
         w.denied = wo.denied, w.judged = wo.judged, w.watch = wo.watch, w.deps = wo.deps,
         w.wake = wo.wake, NEW target \in EndedWork, wo.work = "active" \/ target = "abandoned",
         Commit(EndWork(w, target))
  PROVE  Ends(wo, wo')
<1> DEFINE v == EndWork(w, target)
<1>1. /\ v \in WorkObjects /\ v.work = target /\ v.ended = TRUE /\ v.deps = w.deps
      /\ v.watch = w.watch /\ v.epoch = w.epoch
      /\ v.result = w.result /\ v.denied = w.denied /\ v.judged = w.judged
      /\ \A t \in Tasks : v.status[t] = IF Moot(w, t) THEN "abandoned" ELSE w.status[t]
  BY EndWorkMoves
<1> HIDE DEF v
<1>2. /\ SameTasks(v, wo') /\ Settles(v, wo') /\ wo'.ended = v.ended /\ wo'.deps = v.deps
      /\ wo'.watch = v.watch
      /\ wo'.result = v.result /\ wo'.denied = v.denied /\ wo'.judged = v.judged
  BY <1>1, CommitMoves DEF v
<1>3. \A t \in Tasks : Moot(w, t) <=> Moot(wo, t)
  BY DEF Moot, InFlightAsk
<1>4. \A t \in Tasks : SameAttempt(wo, wo', t)
  BY <1>1, <1>2 DEF SameAttempt, SameTasks
<1>5. ASSUME NEW t \in Tasks PROVE Rests(wo, wo', t) \/ (Dropped(wo, wo', t) /\ Moot(wo, t))
  <2>1. CASE Moot(wo, t)
    <3>1. wo'.status[t] = "abandoned" /\ wo.status[t] \in Startable \cup {"dispatched"}
      BY <1>1, <1>2, <1>3, <2>1 DEF SameTasks, Moot, InFlightAsk
    <3> QED
      BY <1>4, <2>1, <3>1 DEF Dropped
  <2>2. CASE ~Moot(wo, t)
    BY <1>1, <1>2, <1>3, <1>4, <2>2 DEF SameTasks, Rests
  <2> QED
    BY <2>1, <2>2
<1>6. wo'.work = target
  BY <1>1, <1>2 DEF Settles, EndedWork
<1> QED
  BY <1>1, <1>2, <1>5, <1>6 DEF Ends

\* Every step of the architect revises the plan or ends the work.
LEMMA ArchitectMoves ==
  ASSUME WorkTyped, Architect
  PROVE  (Revises(wo, wo') /\ Rewires(wo, wo')) \/ Ends(wo, wo')
<1> USE DEF WorkTyped, InPass, Write
<1>1. ASSUME NEW A \in SUBSET Tasks, wo.work = "active", \A t \in A : wo.status[t] = "absent",
             NEW w, w = AddTasks(wo, A)
      PROVE  /\ w \in WorkObjects /\ SameRest(wo, w) /\ w.epoch = wo.epoch
             /\ \A t \in Tasks : \/ w.status[t] = wo.status[t]
                                 \/ wo.status[t] = "absent" /\ w.status[t] = "proposed"
             /\ \A t \in A : w.status[t] = "proposed"
  BY <1>1, PlansMove DEF Nodes
<1>2. ASSUME NEW A \in SUBSET Tasks, ArchitectDecompose(A)
      PROVE  Revises(wo, wo') /\ Rewires(wo, wo')
  <2> DEFINE w == AddTasks(wo, A)
  <2>1. wo.work = "active" /\ Commit(w) /\ \A t \in A : wo.status[t] = "absent"
    BY <1>2 DEF ArchitectDecompose, Planned
  <2> HIDE DEF w
  <2>2. /\ w \in WorkObjects /\ SameRest(wo, w) /\ w.epoch = wo.epoch
        /\ \A t \in Tasks : \/ w.status[t] = wo.status[t]
                            \/ wo.status[t] = "absent" /\ w.status[t] = "proposed"
    BY <1>1, <2>1 DEF w
  <2>3. Revises(wo, wo')
    BY <2>1, <2>2, CommitRevises DEF SameRest
  <2>4. wo'.deps = wo.deps
    BY <2>1, <2>2, CommitMoves DEF SameRest
  <2> QED
    BY <2>3, <2>4 DEF Rewires
<1>3. ASSUME NEW A \in SUBSET Tasks, NEW t \in A, NEW g \in Gates, ArchitectDecomposeGated(A, t, g)
      PROVE  Revises(wo, wo') /\ Rewires(wo, wo')
  <2> DEFINE w == AddTasks(wo, A)
             v == Gate(w, t, g)
  <2>1. wo.work = "active" /\ MayGate(w, t, g) /\ Commit(v) /\ \A u \in A : wo.status[u] = "absent"
    BY <1>3 DEF ArchitectDecomposeGated, Planned
  <2> HIDE DEF w
  <2>2. /\ w \in WorkObjects /\ SameRest(wo, w) /\ w.epoch = wo.epoch
        /\ \A u \in Tasks : \/ w.status[u] = wo.status[u]
                            \/ wo.status[u] = "absent" /\ w.status[u] = "proposed"
        /\ w.status[t] = "proposed"
    BY <1>1, <2>1 DEF w
  <2>3. /\ v \in WorkObjects /\ v.status = w.status /\ v.epoch = w.epoch
        /\ v.work = w.work /\ v.ended = w.ended /\ v.deps = w.deps
        /\ v.result = w.result /\ v.denied = w.denied
        /\ v.judged = w.judged
        /\ \A u \in Tasks : u # t => v.watch[u] = w.watch[u]
    BY <2>1, <2>2, PlansMove
  <2> HIDE DEF v
  <2>4. Revises(wo, wo')
    BY <2>1, <2>2, <2>3, CommitRevises DEF SameRest
  <2>5. wo'.deps = wo.deps
    BY <2>1, <2>2, <2>3, CommitMoves DEF SameRest
  <2> QED
    BY <2>4, <2>5 DEF Rewires
<1>4. ASSUME NEW w \in WorkObjects, NEW s \in Tasks, NEW d \in Tasks, MayLink(w, s, d)
      PROVE  LET v == Link(w, s, d)
             IN  /\ v \in WorkObjects /\ v.deps = w.deps \cup {<<s, d>>} /\ ~Reaches(w.deps, s, d)
                 /\ v.status = w.status /\ v.epoch = w.epoch /\ v.work = w.work /\ v.ended = w.ended
                 /\ v.result = w.result /\ v.denied = w.denied /\ v.judged = w.judged
                 /\ v.watch = w.watch
  <2>1. Link(w, s, d) \in WorkObjects
    BY ArchitectIsTyped
  <2> QED
    BY <1>4, <2>1 DEF Link, MayLink, WorkObjects
<1>5. ASSUME NEW A \in SUBSET Tasks, NEW s \in A, NEW d \in A, ArchitectDecomposeLinked(A, s, d)
      PROVE  Revises(wo, wo') /\ Rewires(wo, wo')
  <2> DEFINE w == AddTasks(wo, A)
             v == Link(w, s, d)
  <2>1. wo.work = "active" /\ MayLink(w, s, d) /\ Commit(v) /\ \A u \in A : wo.status[u] = "absent"
    BY <1>5 DEF ArchitectDecomposeLinked, Planned
  <2> HIDE DEF w
  <2>2. /\ w \in WorkObjects /\ SameRest(wo, w) /\ w.epoch = wo.epoch
        /\ \A u \in Tasks : \/ w.status[u] = wo.status[u]
                            \/ wo.status[u] = "absent" /\ w.status[u] = "proposed"
    BY <1>1, <2>1 DEF w
  <2>3. /\ v \in WorkObjects /\ v.deps = w.deps \cup {<<s, d>>} /\ ~Reaches(w.deps, s, d)
        /\ v.status = w.status /\ v.epoch = w.epoch /\ v.work = w.work /\ v.ended = w.ended
        /\ v.result = w.result /\ v.denied = w.denied /\ v.judged = w.judged /\ v.watch = w.watch
    BY <1>4, <2>1, <2>2
  <2> HIDE DEF v
  <2>4. Revises(wo, wo')
    BY <2>1, <2>2, <2>3, CommitRevises DEF SameRest
  <2>5. wo'.deps = wo.deps \cup {<<s, d>>} /\ ~Reaches(wo.deps, s, d)
    BY <2>1, <2>2, <2>3, CommitMoves DEF SameRest
  <2> QED
    BY <2>4, <2>5 DEF Rewires
<1>6. ASSUME NEW w \in WorkObjects, NEW v, v = Consume(w)
      PROVE  /\ v \in WorkObjects /\ v.status = w.status /\ v.epoch = w.epoch
             /\ v.work = w.work /\ v.ended = w.ended /\ v.deps = w.deps
             /\ v.result = w.result /\ v.denied = w.denied /\ v.judged = w.judged /\ v.watch = w.watch
  BY <1>6, PlansMove
<1>7. ASSUME NEW P \in SUBSET Tasks, MayPrune(wo, P, TRUE), NEW w, w = Prune(wo, P)
      PROVE  /\ w \in WorkObjects /\ SameRest(wo, w) /\ w.epoch = wo.epoch
             /\ \A t \in Tasks : w.status[t] = IF t \in P THEN "abandoned" ELSE wo.status[t]
             /\ \A t \in P : wo.status[t] \in Startable \cup {"dispatched"} /\ ~InFlightAsk(wo, t)
  <2>1. /\ w \in WorkObjects /\ SameRest(wo, w) /\ w.epoch = wo.epoch
        /\ \A t \in Tasks : w.status[t] = IF t \in P THEN "abandoned" ELSE wo.status[t]
    BY <1>7, PruneMoves
  <2>2. ASSUME NEW t \in P PROVE wo.status[t] \in Startable \cup {"dispatched"} /\ ~InFlightAsk(wo, t)
    <3>1. wo.status[t] \in Statuses
      BY DEF WorkObjects, Nodes
    <3>2. wo.status[t] \notin OutcomeStatuses /\ wo.status[t] # "absent"
      BY <1>7 DEF MayPrune, MaySetStatus
    <3>3. ~InFlightAsk(wo, t)
      BY <1>7, <3>2 DEF MayPrune, MaySetStatus, EndStatuses, OutcomeStatuses
    <3> QED
      BY <3>1, <3>2, <3>3 DEF Statuses, OutcomeStatuses, Startable
  <2> QED
    BY <2>1, <2>2
<1>8. ASSUME NEW A \in SUBSET Tasks, NEW P \in SUBSET Tasks, ArchitectReplan(P, A)
      PROVE  Revises(wo, wo') /\ Rewires(wo, wo')
  <2> DEFINE w == Prune(wo, P)
             x == AddTasks(w, A)
             v == Consume(x)
  <2>1. wo.work = "active" /\ MayPrune(wo, P, TRUE) /\ Commit(v) /\ \A t \in A : wo.status[t] = "absent"
    BY <1>8 DEF ArchitectReplan, Planned
  <2>2. /\ w \in WorkObjects /\ SameRest(wo, w) /\ w.epoch = wo.epoch
        /\ \A t \in Tasks : w.status[t] = IF t \in P THEN "abandoned" ELSE wo.status[t]
        /\ \A t \in P : wo.status[t] \in Startable \cup {"dispatched"} /\ ~InFlightAsk(wo, t)
    BY <1>7, <2>1
  <2> HIDE DEF w
  <2>3. /\ x \in WorkObjects /\ SameRest(w, x) /\ x.epoch = w.epoch
        /\ \A t \in Tasks : x.status[t] = IF t \in A THEN "proposed" ELSE w.status[t]
    BY <2>2, PlansMove DEF Nodes
  <2> HIDE DEF x
  <2>4. /\ v \in WorkObjects /\ v.status = x.status /\ v.epoch = x.epoch
        /\ v.work = x.work /\ v.ended = x.ended /\ v.deps = x.deps
        /\ v.result = x.result /\ v.denied = x.denied /\ v.judged = x.judged /\ v.watch = x.watch
    BY <1>6, <2>3
  <2> HIDE DEF v
  <2>5. \A t \in Tasks : \/ v.status[t] = wo.status[t]
                         \/ wo.status[t] = "absent" /\ v.status[t] = "proposed"
                         \/ /\ wo.status[t] \in Startable \cup {"dispatched"}
                            /\ v.status[t] = "abandoned" /\ ~InFlightAsk(wo, t)
    BY <2>1, <2>2, <2>3, <2>4
  <2>6. Revises(wo, wo')
    BY <2>1, <2>2, <2>3, <2>4, <2>5, CommitRevises DEF SameRest
  <2>7. wo'.deps = wo.deps
    BY <2>1, <2>2, <2>3, <2>4, CommitMoves DEF SameRest
  <2> QED
    BY <2>6, <2>7 DEF Rewires
<1>9. ASSUME NEW t \in Tasks, NEW g \in Gates, ArchitectRegate(t, g)
      PROVE  Revises(wo, wo') /\ Rewires(wo, wo')
  <2> DEFINE w == Gate(wo, t, g)
             v == Consume(w)
  <2>1. wo.work = "active" /\ MayGate(wo, t, g) /\ Commit(v)
    BY <1>9 DEF ArchitectRegate
  <2>2. /\ w \in WorkObjects /\ w.status = wo.status /\ w.epoch = wo.epoch
        /\ w.work = wo.work /\ w.ended = wo.ended /\ w.deps = wo.deps
        /\ w.result = wo.result /\ w.denied = wo.denied
        /\ w.judged = wo.judged
        /\ \A u \in Tasks : u # t => w.watch[u] = wo.watch[u]
    BY <2>1, PlansMove
  <2> HIDE DEF w
  <2>3. /\ v \in WorkObjects /\ v.status = w.status /\ v.epoch = w.epoch
        /\ v.work = w.work /\ v.ended = w.ended /\ v.deps = w.deps
        /\ v.result = w.result /\ v.denied = w.denied /\ v.judged = w.judged /\ v.watch = w.watch
    BY <1>6, <2>2
  <2> HIDE DEF v
  <2>4. wo.status[t] # "closed"
    BY <2>1 DEF MayGate, EndStatuses
  <2>5. Revises(wo, wo')
    BY <2>1, <2>2, <2>3, <2>4, CommitRevises
  <2>6. wo'.deps = wo.deps
    BY <2>1, <2>2, <2>3, CommitMoves
  <2> QED
    BY <2>5, <2>6 DEF Rewires
<1>10. ASSUME NEW s \in Tasks, NEW d \in Tasks, ArchitectRelink(s, d)
       PROVE  Revises(wo, wo') /\ Rewires(wo, wo')
  <2> DEFINE w == Link(wo, s, d)
             v == Consume(w)
  <2>1. wo.work = "active" /\ MayLink(wo, s, d) /\ Commit(v)
    BY <1>10 DEF ArchitectRelink
  <2>2. /\ w \in WorkObjects /\ w.deps = wo.deps \cup {<<s, d>>} /\ ~Reaches(wo.deps, s, d)
        /\ w.status = wo.status /\ w.epoch = wo.epoch /\ w.work = wo.work /\ w.ended = wo.ended
        /\ w.result = wo.result /\ w.denied = wo.denied /\ w.judged = wo.judged /\ w.watch = wo.watch
    BY <1>4, <2>1
  <2> HIDE DEF w
  <2>3. /\ v \in WorkObjects /\ v.status = w.status /\ v.epoch = w.epoch
        /\ v.work = w.work /\ v.ended = w.ended /\ v.deps = w.deps
        /\ v.result = w.result /\ v.denied = w.denied /\ v.judged = w.judged /\ v.watch = w.watch
    BY <1>6, <2>2
  <2> HIDE DEF v
  <2>4. Revises(wo, wo')
    BY <2>1, <2>2, <2>3, CommitRevises
  <2>5. wo'.deps = wo.deps \cup {<<s, d>>} /\ ~Reaches(wo.deps, s, d)
    BY <2>1, <2>2, <2>3, CommitMoves
  <2> QED
    BY <2>4, <2>5 DEF Rewires
<1>11. ASSUME NEW D \in SUBSET Tasks, NEW kept \in [D -> Tasks], ArchitectMerge(kept)
       PROVE  Revises(wo, wo') /\ Rewires(wo, wo')
  <2> DEFINE w == Prune(wo, D)
             x == Redirect(w, kept)
             v == Consume(x)
  <2>1. /\ wo.work = "active" /\ MayPrune(wo, D, TRUE) /\ Commit(v)
        /\ AcyclicNeeds(Redirect(wo, kept).deps)
    <3>1. DOMAIN kept = D
      OBVIOUS
    <3> QED
      BY <1>11, <3>1 DEF ArchitectMerge, MayMerge
  <2>2. /\ w \in WorkObjects /\ SameRest(wo, w) /\ w.epoch = wo.epoch
        /\ \A t \in Tasks : w.status[t] = IF t \in D THEN "abandoned" ELSE wo.status[t]
        /\ \A t \in D : wo.status[t] \in Startable \cup {"dispatched"} /\ ~InFlightAsk(wo, t)
    BY <1>7, <2>1
  <2> HIDE DEF w
  <2>3. /\ x \in WorkObjects /\ x.status = w.status /\ x.epoch = w.epoch
        /\ x.work = w.work /\ x.ended = w.ended
        /\ x.result = w.result /\ x.denied = w.denied /\ x.judged = w.judged /\ x.watch = w.watch
        /\ x.deps = Redirect(wo, kept).deps
    <3> DEFINE Over(deps) == {e \in Tasks \X Tasks :
                 e[1] # e[2] /\ \E f \in deps : e = <<Keeper(kept, f[1]), Keeper(kept, f[2])>>}
    <3>1. x \in WorkObjects
      BY <2>2, ArchitectIsTyped
    <3>2. x = [w EXCEPT !.deps = Over(w.deps)] /\ Redirect(wo, kept) = [wo EXCEPT !.deps = Over(wo.deps)]
      BY DEF Redirect
    <3> HIDE DEF Over, x
    <3>3. w.deps = wo.deps
      BY <2>2 DEF SameRest
    <3>4. /\ x.deps = Over(w.deps) /\ x.status = w.status /\ x.epoch = w.epoch
          /\ x.work = w.work /\ x.ended = w.ended /\ x.result = w.result /\ x.denied = w.denied
          /\ x.judged = w.judged /\ x.watch = w.watch
      BY <2>2, <3>2 DEF WorkObjects
    <3>5. Redirect(wo, kept).deps = Over(wo.deps)
      BY <3>2 DEF WorkObjects
    <3> QED
      BY <3>1, <3>3, <3>4, <3>5
  <2> HIDE DEF x
  <2>4. /\ v \in WorkObjects /\ v.status = x.status /\ v.epoch = x.epoch
        /\ v.work = x.work /\ v.ended = x.ended /\ v.deps = x.deps
        /\ v.result = x.result /\ v.denied = x.denied /\ v.judged = x.judged /\ v.watch = x.watch
    BY <1>6, <2>3
  <2> HIDE DEF v
  <2>5. Revises(wo, wo')
    BY <2>1, <2>2, <2>3, <2>4, CommitRevises DEF SameRest
  <2>6. wo'.deps = Redirect(wo, kept).deps /\ \A t \in D : wo'.status[t] = "abandoned"
    BY <2>1, <2>2, <2>3, <2>4, CommitMoves DEF SameTasks
  <2> QED
    BY <2>1, <2>5, <2>6 DEF Rewires
<1>12. ASSUME NEW target \in EndedWork, ArchitectEnd(target) PROVE Ends(wo, wo')
  <2> DEFINE w == IF Planned(wo) = {} THEN wo ELSE Consume(wo)
  <2>1. wo.work = "active" /\ Commit(EndWork(w, target))
    BY <1>12 DEF ArchitectEnd
  <2>2. /\ w \in WorkObjects /\ w.status = wo.status /\ w.epoch = wo.epoch /\ w.result = wo.result
        /\ w.denied = wo.denied /\ w.judged = wo.judged /\ w.watch = wo.watch /\ w.deps = wo.deps
        /\ w.wake = wo.wake
    <3>1. Consume(wo).wake = wo.wake
      BY DEF Consume, WorkObjects
    <3> QED
      BY <1>6, <3>1
  <2> HIDE DEF w
  <2> QED
    BY <2>1, <2>2, CommitEnds
<1> QED
  BY <1>2, <1>3, <1>5, <1>8, <1>9, <1>10, <1>11, <1>12 DEF Architect

\* Where the lifecycle lets a status come from.
LEMMA TransitionSources ==
  ASSUME NEW s \in Statuses
  PROVE  /\ "actionable" \in Transitions[s] => s \in {"proposed", "waiting"}
         /\ "waiting" \in Transitions[s] => s \in {"proposed", "actionable", "dispatched"}
         /\ "dispatched" \in Transitions[s] => s \in {"proposed", "actionable", "waiting", "failed"}
         /\ "failed" \in Transitions[s] => s \in {"proposed", "actionable", "dispatched", "waiting", "done"}
         /\ "abandoned" \in Transitions[s] => s \in {"proposed", "actionable", "dispatched", "waiting", "failed"}
         /\ "done" \in Transitions[s] => s \in {"dispatched", "waiting"}
         /\ "closed" \in Transitions[s] => s = "done"
         /\ "superseded" \in Transitions[s] => s \in {"done", "closed"}
         /\ "proposed" \in Transitions[s] => s = "failed"
         /\ "absent" \notin Transitions[s]
<1>1. Transitions[s] = CASE s = "proposed"   -> {"actionable", "dispatched", "waiting", "failed", "abandoned"}
                         [] s = "actionable" -> {"dispatched", "waiting", "failed", "abandoned"}
                         [] s = "dispatched" -> {"waiting", "done", "failed", "abandoned"}
                         [] s = "waiting"    -> {"actionable", "dispatched", "done", "failed", "abandoned"}
                         [] s = "done"       -> {"closed", "superseded", "failed"}
                         [] s = "closed"     -> {"superseded"}
                         [] s = "failed"     -> {"dispatched", "proposed", "abandoned"}
                         [] OTHER            -> {}
  BY DEF Transitions
<1>2. CASE s \in {"proposed", "actionable", "dispatched", "waiting"}
  BY <1>1, <1>2
<1>3. CASE s \in {"done", "closed", "failed"}
  BY <1>1, <1>3
<1>4. CASE s \in {"absent", "abandoned", "superseded"}
  <2>1. Transitions[s] = {}
    BY <1>1, <1>4
  <2> QED
    BY <2>1
<1> QED
  BY <1>2, <1>3, <1>4 DEF Statuses

\* A committed change of no task.
LEMMA CommitIdles ==
  ASSUME WorkTyped, NEW w \in WorkObjects, Commit(w),
         w.work = wo.work, w.ended = wo.ended, w.deps = wo.deps, w.pending = wo.pending,
         w.epoch = wo.epoch, w.result = wo.result, w.denied = wo.denied, w.judged = wo.judged,
         w.watch = wo.watch, \A t \in Tasks : w.status[t] = wo.status[t]
  PROVE  Idles(wo, wo')
<1>1. /\ SameTasks(w, wo') /\ Settles(w, wo') /\ wo'.ended = w.ended /\ wo'.deps = w.deps
      /\ wo'.pending = w.pending /\ wo'.watch = w.watch
      /\ wo'.result = w.result /\ wo'.denied = w.denied /\ wo'.judged = w.judged
  BY CommitMoves
<1>2. \A t \in Tasks : Rests(wo, wo', t)
  BY <1>1 DEF Rests, SameAttempt, SameTasks
<1> QED
  BY <1>1, <1>2 DEF Idles, Framed, Settles

\* A committed change of one task.
LEMMA CommitOne ==
  ASSUME WorkTyped, NEW t \in Tasks, NEW w, OnlyTask(wo, w, t), Moved(wo, w, t), Counts(wo, w, t),
         Commit(w), w.pending = wo.pending \/ ~Ended(wo)
  PROVE  MovesOne(wo, wo')
<1>1. w \in WorkObjects
  BY DEF OnlyTask
<1>2. /\ SameTasks(w, wo') /\ Settles(w, wo') /\ wo'.ended = w.ended /\ wo'.deps = w.deps
      /\ wo'.pending = w.pending /\ wo'.watch = w.watch
      /\ wo'.result = w.result /\ wo'.denied = w.denied /\ wo'.judged = w.judged
  BY <1>1, CommitMoves
<1>3. \A u \in Tasks \ {t} : Rests(wo, wo', u)
  BY <1>2 DEF OnlyTask, Rests, SameAttempt, SameTasks
<1>4. Moved(wo, wo', t)
  <2>1. /\ wo'.status[t] = w.status[t] /\ wo'.epoch[t] = w.epoch[t] /\ wo'.result[t] = w.result[t]
        /\ wo'.denied[t] = w.denied[t] /\ wo'.judged[t] = w.judged[t] /\ wo'.watch[t] = w.watch[t]
    BY <1>2 DEF SameTasks
  <2>2. CASE Queued(wo, w, t) \/ Started(wo, w, t) \/ GateFailed(wo, w, t) \/ Reported(wo, w, t)
    BY <2>1, <2>2 DEF Moved, Queued, Started, GateFailed, Reported, SameAttempt
  <2>3. CASE WasJudged(wo, w, t) \/ WatchOver(wo, w, t) \/ Appears(wo, w, t)
    BY <2>1, <2>3 DEF Moved, WasJudged, WatchOver, Appears, SameAttempt
  <2>4. CASE OwnerMoved(wo, w, t)
    BY <2>1, <2>4 DEF Moved, OwnerMoved
  <2> QED
    BY <2>2, <2>3, <2>4 DEF Moved
<1>5. wo'.ended = wo.ended /\ wo'.deps = wo.deps /\ Settles(wo, wo')
  BY <1>2 DEF OnlyTask, Settles
<1>6. Counts(wo, wo', t)
  BY <1>2 DEF SameTasks, Counts
<1> QED
  BY <1>2, <1>3, <1>4, <1>5, <1>6 DEF MovesOne, Framed

\* The state mover queues one task of its snapshot or moves none.
LEMMA StateMoverMoves ==
  ASSUME WorkTyped, StateMover
  PROVE  Idles(wo, wo') \/ MovesOne(wo, wo')
<1> USE DEF WorkTyped, InPass, Write
<1>1. CASE UNCHANGED wo
  BY <1>1 DEF Idles, Framed, Settles, Rests, SameAttempt
<1>2. ASSUME NEW t \in Tasks, NEW s \in {"actionable", "waiting"}, t \in seen,
             MaySetStatus(wo, t, s, "state_mover", FALSE), Commit(SetStatus(wo, t, s))
      PROVE  MovesOne(wo, wo')
  <2> DEFINE w == SetStatus(wo, t, s)
  <2>1. /\ OnlyTask(wo, w, t) /\ w.status[t] = s /\ w.epoch[t] = wo.epoch[t] /\ w.pending = wo.pending
        /\ w.result = wo.result /\ w.denied = wo.denied /\ w.judged = wo.judged
    BY <1>2, SetStatusOfTask DEF Statuses
  <2>2. wo.status[t] \in Statuses
    BY DEF WorkObjects, Nodes
  <2>3. wo.status[t] \in {"proposed", "actionable", "waiting", "dispatched"}
    BY <1>2, <2>2, TransitionSources DEF MaySetStatus
  <2> HIDE DEF w
  <2>4. Moved(wo, w, t)
    BY <1>2, <2>1, <2>3 DEF Moved, Queued, SameAttempt
  <2> QED
    BY <1>2, <2>1, <2>4, CommitOne DEF w, Counts
<1>3. ASSUME NEW t \in Tasks, NEW kind \in WakeKinds, NEW future \in BOOLEAN, t = parking \/ wo.status[t] # "dispatched",
             Commit(Defer(wo, t, kind, future))
      PROVE  Idles(wo, wo') \/ MovesOne(wo, wo')
  <2> DEFINE w == Defer(wo, t, kind, future)
  <2>1. /\ w \in WorkObjects /\ SameRest(wo, w) /\ w.epoch = wo.epoch /\ HelpersDrop(wo, w)
        /\ \A u \in Tasks : w.status[u] =
             IF u = t /\ wo.status[u] = "dispatched" /\ kind # "user_reply" THEN "waiting" ELSE wo.status[u]
    BY DeferMoves
  <2> HIDE DEF w
  <2>2. CASE wo.status[t] = "dispatched" /\ kind # "user_reply"
    <3>1. OnlyTask(wo, w, t)
      BY <2>1 DEF OnlyTask, SameRest, SameAttempt
    <3>2. Moved(wo, w, t)
      BY <1>3, <2>1, <2>2 DEF Moved, Queued, SameRest, SameAttempt
    <3> QED
      BY <1>3, <2>1, <3>1, <3>2, CommitOne DEF SameRest, w, Counts
  <2>3. CASE ~(wo.status[t] = "dispatched" /\ kind # "user_reply")
    BY <1>3, <2>1, <2>3, CommitIdles DEF SameRest, w
  <2> QED
    BY <2>2, <2>3
<1>4. ASSUME NEW t \in Tasks, MoverPromote(t) \/ MoverHold(t) PROVE MovesOne(wo, wo')
  BY <1>2, <1>4 DEF MoverPromote, MoverHold
<1>5. ASSUME NEW t \in Tasks, MoverPark(t) PROVE Idles(wo, wo') \/ MovesOne(wo, wo')
  BY <1>3, <1>5 DEF MoverPark, WakeKinds
<1>6. ASSUME NEW t \in Tasks, MoverWake(t) PROVE Idles(wo, wo') \/ MovesOne(wo, wo')
  BY <1>3, <1>6 DEF MoverWake, WakeKinds
<1> QED
  BY <1>1, <1>4, <1>5, <1>6 DEF StateMover, MoverLook, MoverEnds, MoverRefused

\* Claims, failed dispatches, results, judgments and expiries move one task each.
LEMMA DispatchMoves ==
  ASSUME WorkTyped, Dispatch
  PROVE  Idles(wo, wo') \/ MovesOne(wo, wo')
<1> USE DEF WorkTyped, InPass, Write
<1>1. ASSUME NEW t \in Tasks, Claim(t) PROVE MovesOne(wo, wo')
  <2> DEFINE w == SetStatus(wo, t, "dispatched")
  <2>1. MayClaim(wo, t) /\ MoverQuiet /\ wo.status[t] = "actionable" /\ Commit(w)
        /\ wo.epoch[t] + 1 <= MaxEpoch
    BY <1>1, MaxEpochType DEF Claim, MayClaim, WorkObjects
  <2>2. /\ OnlyTask(wo, w, t) /\ w.status[t] = "dispatched" /\ w.epoch[t] = wo.epoch[t] + 1
        /\ w.pending = wo.pending
        /\ w.result = wo.result /\ w.denied = wo.denied /\ w.judged = wo.judged
    BY <2>1, SetStatusOfTask DEF Statuses
  <2> HIDE DEF w
  <2>3. Moved(wo, w, t)
    BY <2>1, <2>2 DEF Moved, Started
  <2> QED
    BY <2>1, <2>2, <2>3, CommitOne DEF Counts
<1>2. ASSUME NEW t \in Tasks, Commit(SetStatus(wo, t, "failed")),
             wo.status[t] \in {"proposed", "actionable", "waiting", "dispatched", "done", "failed"}
      PROVE  Idles(wo, wo') \/ MovesOne(wo, wo')
  <2> DEFINE w == SetStatus(wo, t, "failed")
  <2>1. /\ OnlyTask(wo, w, t) /\ w.status[t] = "failed" /\ w.epoch[t] = wo.epoch[t]
        /\ w.pending = wo.pending
        /\ w.result = wo.result /\ w.denied = wo.denied /\ w.judged = wo.judged /\ w.watch = wo.watch
    BY SetStatusOfTask DEF Statuses
  <2> HIDE DEF w
  <2>2. CASE wo.status[t] # "failed"
    <3>1. Moved(wo, w, t)
      BY <1>2, <2>1, <2>2 DEF Moved, GateFailed, SameAttempt
    <3> QED
      BY <1>2, <2>1, <3>1, CommitOne DEF w, Counts
  <2>3. CASE wo.status[t] = "failed"
    <3>1. w.epoch = wo.epoch /\ w \in WorkObjects
      BY <2>1, SetStatusIsTyped, SetStatusFields DEF w, Statuses, Nodes
    <3>2. \A u \in Tasks : w.status[u] = wo.status[u]
      BY <2>1, <2>3 DEF OnlyTask
    <3> QED
      BY <1>2, <2>1, <3>1, <3>2, CommitIdles DEF w, OnlyTask
  <2> QED
    BY <2>2, <2>3
<1>3. ASSUME NEW t \in Tasks, GateReject(t) PROVE Idles(wo, wo') \/ MovesOne(wo, wo')
  BY <1>2, <1>3 DEF GateReject
<1>4. ASSUME NEW t \in Tasks, NEW e \in 0 .. MaxEpoch, GateFail(t, e)
      PROVE  Idles(wo, wo') \/ MovesOne(wo, wo')
  <2>1. wo.status[t] \in Statuses
    BY DEF WorkObjects, Nodes
  <2>2. wo.status[t] \in {"proposed", "actionable", "waiting", "dispatched", "done", "failed"}
    BY <1>4, <2>1, TransitionSources DEF GateFail, MayGateFail, MaySetStatus
  <2> QED
    BY <1>2, <1>4, <2>2 DEF GateFail
<1>5. ASSUME NEW t \in Tasks, NEW outcome \in {"done", "failed"}, NEW denial \in BOOLEAN,
             MayRecord(wo, t, wo.epoch[t]), Commit(Record(wo, t, outcome, denial)),
             wo.status[t] \in {"proposed", "actionable"} => wo.epoch[t] < MaxEpoch
      PROVE  MovesOne(wo, wo')
  <2> DEFINE w == Record(wo, t, outcome, denial)
  <2>1. OnlyTask(wo, w, t) /\ Reported(wo, w, t) /\ w.pending = wo.pending
    BY <1>5, RecordMoves DEF MayRecord
  <2> HIDE DEF w
  <2>2. Moved(wo, w, t)
    BY <2>1 DEF Moved
  <2>3. Counts(wo, w, t)
    BY <1>5, <2>1, MaxEpochType DEF Reported, Counts, WorkObjects
  <2> QED
    BY <1>5, <2>1, <2>2, <2>3, CommitOne DEF w
<1>6. ASSUME NEW t \in Tasks, SweepStuck(t) PROVE MovesOne(wo, wo')
  BY <1>5, <1>6 DEF SweepStuck
<1>7. ASSUME NEW t \in Tasks, NEW e \in 0 .. MaxEpoch, NEW outcome \in {"done", "failed"},
             NEW denial \in BOOLEAN, RecordResult(t, e, outcome, denial)
      PROVE  MovesOne(wo, wo')
  <2>1. /\ MayRecord(wo, t, wo.epoch[t]) /\ Commit(Record(wo, t, outcome, denial))
        /\ wo.status[t] \in {"proposed", "actionable"} => wo.epoch[t] < MaxEpoch
    BY <1>7 DEF RecordResult, MayRecord
  <2> QED
    BY <1>5, <2>1
<1>8. ASSUME NEW t \in Tasks, WatchEnds(t) PROVE MovesOne(wo, wo')
  <2> DEFINE w == EndWatch(wo, t)
  <2>1. Commit(w) /\ OnlyTask(wo, w, t) /\ WatchOver(wo, w, t) /\ w.pending = wo.pending
    BY <1>8, EndWatchMoves DEF WatchEnds
  <2> HIDE DEF w
  <2> QED
    BY <2>1, CommitOne DEF Moved, WatchOver, SameAttempt, Counts
<1>9. ASSUME NEW t \in Tasks, NEW e \in 0 .. MaxEpoch, BindTicket(t, e) PROVE Idles(wo, wo')
  <2> DEFINE w == Defer(wo, t, "user_reply", FALSE)
  <2>1. Commit(w)
    BY <1>9 DEF BindTicket
  <2>2. "user_reply" \in WakeKinds
    BY DEF WakeKinds
  <2>3. /\ w \in WorkObjects /\ SameRest(wo, w) /\ w.epoch = wo.epoch
        /\ \A u \in Tasks : w.status[u] = wo.status[u]
    BY <2>2, DeferMoves
  <2> HIDE DEF w
  <2> QED
    BY <2>1, <2>3, CommitIdles DEF SameRest
<1>10. ASSUME NEW t \in Tasks, NEW e \in 0 .. MaxEpoch, NEW verdict \in Verdicts, NEW next \in NextSteps,
              Judge(t, e, verdict, next)
       PROVE  MovesOne(wo, wo')
  <2> DEFINE w == Finalize(wo, t, verdict, next)
  <2>1. ~Ended(wo) /\ NeedsFinalization(wo, t) /\ Commit(w)
    BY <1>10 DEF Judge, MayFinalize
  <2>2. OnlyTask(wo, w, t) /\ WasJudged(wo, w, t)
    BY <2>1, FinalizeMoves
  <2> HIDE DEF w
  <2>3. Counts(wo, w, t)
    BY <2>2 DEF WasJudged, Counts
  <2> QED
    BY <2>1, <2>2, <2>3, CommitOne DEF Moved
<1> QED
  BY <1>1, <1>3, <1>4, <1>6, <1>7, <1>8, <1>9, <1>10 DEF Dispatch

\* Workers and the brain move no main task, the owner one at most, and an end ends.
LEMMA OthersMove ==
  ASSUME WorkTyped, Others
  PROVE  Idles(wo, wo') \/ MovesOne(wo, wo') \/ Ends(wo, wo')
<1> USE DEF WorkTyped, InPass, Write
<1>1. CASE BrainReplan
  <2> DEFINE w == [wo EXCEPT !.asked = TRUE]
  <2>1. Commit(w)
    BY <1>1 DEF BrainReplan
  <2>2. /\ w \in WorkObjects /\ w.work = wo.work /\ w.ended = wo.ended /\ w.deps = wo.deps
        /\ w.pending = wo.pending /\ w.epoch = wo.epoch /\ w.result = wo.result
        /\ w.denied = wo.denied /\ w.judged = wo.judged /\ w.watch = wo.watch /\ w.status = wo.status
    BY DEF WorkObjects
  <2> HIDE DEF w
  <2> QED
    BY <2>1, <2>2, CommitIdles
<1>2. CASE Abandon
  BY <1>2, CommitEnds DEF Abandon, EndedWork
<1>3. ASSUME NEW h \in Helpers, NEW s \in Statuses, Commit(SetStatus(wo, h, s)) PROVE Idles(wo, wo')
  <2> DEFINE w == SetStatus(wo, h, s)
  <2>1. /\ w \in WorkObjects /\ SameRest(wo, w)
        /\ \A t \in Tasks : w.status[t] = wo.status[t] /\ w.epoch[t] = wo.epoch[t]
    BY SetStatusMoves, DisjointNodes DEF Nodes
  <2>2. w.epoch = wo.epoch
    <3> HIDE DEF w
    <3> QED
      BY <2>1 DEF WorkObjects
  <2> HIDE DEF w
  <2> QED
    BY <1>3, <2>1, <2>2, CommitIdles DEF SameRest, w
<1>4. ASSUME NEW h \in Helpers, AddHelper(h) PROVE Idles(wo, wo')
  <2> DEFINE w == [wo EXCEPT !.status = [@ EXCEPT ![h] = "proposed"]]
  <2>1. Commit(w)
    BY <1>4 DEF AddHelper
  <2>2. /\ w \in WorkObjects /\ w.work = wo.work /\ w.ended = wo.ended /\ w.deps = wo.deps
        /\ w.pending = wo.pending /\ w.epoch = wo.epoch /\ w.result = wo.result
        /\ w.denied = wo.denied /\ w.judged = wo.judged /\ w.watch = wo.watch
        /\ w.status = [wo.status EXCEPT ![h] = "proposed"]
    BY DEF WorkObjects, Statuses, Nodes
  <2>3. \A t \in Tasks : w.status[t] = wo.status[t]
    BY <2>2, DisjointNodes DEF WorkObjects, Nodes
  <2> HIDE DEF w
  <2> QED
    BY <2>1, <2>2, <2>3, CommitIdles
<1>5. ASSUME NEW h \in Helpers, NEW s \in Statuses, MoveHelper(h, s) PROVE Idles(wo, wo')
  BY <1>3, <1>5 DEF MoveHelper
<1>6. ASSUME NEW t \in Tasks, NEW s \in OwnerTargets, OwnerSetStatus(t, s) PROVE MovesOne(wo, wo')
  <2> DEFINE w == SetStatus(wo, t, s)
  <2>1. s # wo.status[t] /\ MaySetStatus(wo, t, s, "work_ui", FALSE) /\ Commit(w) /\ s \in Statuses
    BY <1>6, OwnerTargetsType DEF OwnerSetStatus
  <2>2. /\ OnlyTask(wo, w, t) /\ w.status[t] = s /\ w.pending = wo.pending
        /\ w.epoch[t] = IF s = "dispatched" THEN wo.epoch[t] + 1 ELSE wo.epoch[t]
        /\ w.result = wo.result /\ w.denied = wo.denied /\ w.judged = wo.judged /\ w.watch = wo.watch
    BY <2>1, SetStatusOfTask
  <2> HIDE DEF w
  <2>3. Moved(wo, w, t)
    BY <2>1, <2>2 DEF Moved, OwnerMoved
  <2>4. Counts(wo, w, t)
    BY <1>6, <2>2, MaxEpochType DEF OwnerSetStatus, Counts, WorkObjects
  <2> QED
    BY <2>1, <2>2, <2>3, <2>4, CommitOne
<1>7. ASSUME NEW n \in Nodes, NEW s \in OwnerTargets, OwnerSetStatus(n, s)
      PROVE  Idles(wo, wo') \/ MovesOne(wo, wo')
  BY <1>3, <1>6, <1>7, OwnerTargetsType DEF OwnerSetStatus, Nodes
<1>8. ASSUME NEW t \in Tasks, OwnerAddTask(t) PROVE MovesOne(wo, wo')
  <2> DEFINE w == [wo EXCEPT !.status = [@ EXCEPT ![t] = "proposed"]]
  <2>1. Commit(w) /\ wo.status[t] = "absent"
    BY <1>8 DEF OwnerAddTask, AddTask
  <2>2. /\ w \in WorkObjects /\ w.work = wo.work /\ w.ended = wo.ended /\ w.deps = wo.deps
        /\ w.pending = wo.pending /\ w.epoch = wo.epoch /\ w.result = wo.result
        /\ w.denied = wo.denied /\ w.judged = wo.judged /\ w.watch = wo.watch
        /\ w.status = [wo.status EXCEPT ![t] = "proposed"]
    BY DEF WorkObjects, Statuses, Nodes
  <2> HIDE DEF w
  <2>3. OnlyTask(wo, w, t) /\ w.status[t] = "proposed"
    BY <2>2, RowIsOnlyTask
  <2>4. Moved(wo, w, t)
    BY <2>1, <2>2, <2>3 DEF Moved, Appears, SameAttempt
  <2> QED
    BY <2>1, <2>2, <2>3, <2>4, CommitOne DEF Counts
<1>9. ASSUME NEW t \in Tasks, TimePasses(t) \/ WatchExpires(t) PROVE Idles(wo, wo')
  <2>1. /\ wo'.work = wo.work /\ wo'.ended = wo.ended /\ wo'.deps = wo.deps
        /\ wo'.pending = wo.pending /\ wo'.epoch = wo.epoch /\ wo'.result = wo.result
        /\ wo'.denied = wo.denied /\ wo'.judged = wo.judged /\ wo'.status = wo.status
        /\ \A u \in Tasks : wo'.watch[u] = wo.watch[u] \/ wo'.watch[u] = "over"
    BY <1>9 DEF TimePasses, WatchExpires, WorkObjects
  <2> QED
    BY <2>1 DEF Idles, Framed, Settles, Rests, SameAttempt
<1> QED
  BY <1>1, <1>2, <1>4, <1>5, <1>7, <1>8, <1>9 DEF Others

\* Every step of the work graph leaves the tasks where they are, moves one of them, revises
\* the plan, or ends the work.
LEMMA StepMoves ==
  ASSUME WorkTyped, Next
  PROVE  Idles(wo, wo') \/ MovesOne(wo, wo') \/ (Revises(wo, wo') /\ Rewires(wo, wo')) \/ Ends(wo, wo')
  BY ArchitectMoves, StateMoverMoves, DispatchMoves, OthersMove DEF Next

-----------------------------------------------------------------------------
(* Order: the dependencies.                                                  *)

\* A step changes the dependencies only by a revision.
LEMMA StepRewires ==
  ASSUME WorkTyped, Next
  PROVE  Rewires(wo, wo')
  BY StepMoves DEF Idles, MovesOne, Framed, Ends, Rewires

\* The dependencies stay acyclic, for every number of tasks and any sequence of revisions:
\* a link is refused when its prerequisite needs its dependent, a merge when it closes a cycle.
THEOREM NoCircularWait == Spec => []Acyclic
<1>1. Init => Acyclic
  BY DEF Init, NewWorkObject, Acyclic, AcyclicNeeds
<1>2. WorkTyped /\ Acyclic /\ [Next]_vars => Acyclic'
  <2> SUFFICES ASSUME WorkTyped, Acyclic, [Next]_vars PROVE Acyclic'
    OBVIOUS
  <2>1. CASE UNCHANGED vars
    BY <2>1 DEF vars, Acyclic
  <2>2. CASE Next
    <3>1. Rewires(wo, wo')
      BY <2>2, StepRewires
    <3>2. AcyclicNeeds(wo'.deps)
      BY <3>1, LinkClosesNoCycle DEF Rewires, Acyclic
    <3> QED
      BY <3>2 DEF Acyclic
  <2> QED
    BY <2>1, <2>2
<1> QED
  BY <1>1, <1>2, TypesHold, PTL DEF Spec

\* No revision loses the order of two tasks it leaves standing, however long the chain between
\* them and however many duplicates on it are merged at once.
THEOREM RevisionsKeepOrder == Spec => OrderSurvives
<1>1. ASSUME WorkTyped, Next, NEW a \in Tasks, NEW b \in Tasks, Reaches(wo.deps, b, a),
             wo'.status[a] # "abandoned", wo'.status[b] # "abandoned"
      PROVE  Reaches(wo'.deps, b, a)
  <2>1. Rewires(wo, wo')
    BY <1>1, StepRewires
  <2>2. CASE wo'.deps = wo.deps
    BY <1>1, <2>2
  <2>3. ASSUME NEW s \in Tasks, NEW d \in Tasks, wo'.deps = wo.deps \cup {<<s, d>>}
        PROVE  Reaches(wo'.deps, b, a)
    <3>1. wo.deps \subseteq wo'.deps
      BY <2>3
    <3> QED
      BY <1>1, <3>1, ReachesGrows
  <2>4. ASSUME NEW D \in SUBSET Tasks, NEW kept \in [D -> Tasks], wo'.deps = Redirect(wo, kept).deps,
               \A t \in D : wo'.status[t] = "abandoned"
        PROVE  Reaches(wo'.deps, b, a)
    <3>1. a \in Tasks \ D /\ b \in Tasks \ D /\ wo \in WorkObjects
      BY <1>1, <2>4 DEF WorkTyped
    <3>2. Reaches(Redirect(wo, kept).deps, b, a)
      BY <1>1, <3>1, RedirectKeepsOrder
    <3> QED
      BY <2>4, <3>2
  <2> QED
    BY <2>1, <2>2, <2>3, <2>4 DEF Rewires
<1>2. WorkTyped /\ [Next]_vars =>
        [\A a, b \in Tasks :
           Reaches(wo.deps, b, a) /\ wo'.status[a] # "abandoned" /\ wo'.status[b] # "abandoned"
             => Reaches(wo'.deps, b, a)]_vars
  BY <1>1
<1> QED
  BY <1>2, TypesHold, PTL DEF Spec, OrderSurvives

-----------------------------------------------------------------------------
(* Starts and ends.                                                          *)

\* A task that starts has its prerequisites closed, its time come and no revision pending,
\* as long as the owner sets no task dispatched by hand: what the state mover promoted on an
\* older view of the graph is looked at again when it is claimed.
THEOREM OnlyReadyTasksStart ==
  ASSUME "dispatched" \notin OwnerTargets
  PROVE  Spec => StartsClean
<1>1. ASSUME WorkTyped, Next, NEW t \in Tasks, wo.status[t] # "dispatched", wo'.status[t] = "dispatched"
      PROVE  MayClaim(wo, t)
  <2>1. ~Rests(wo, wo', t) /\ ~Appears(wo, wo', t) /\ ~Dropped(wo, wo', t)
    BY <1>1 DEF Rests, Appears, Dropped
  <2>2. MovesOne(wo, wo')
    BY <1>1, <2>1, StepMoves DEF Idles, Revises, Ends
  <2>3. Moved(wo, wo', t)
    BY <2>1, <2>2 DEF MovesOne
  <2>4. Started(wo, wo', t)
    BY <1>1, <2>1, <2>3 DEF Moved, Queued, GateFailed, Reported, WasJudged, WatchOver, OwnerMoved
  <2> QED
    BY <2>4 DEF Started
<1>2. ASSUME NEW t \in Tasks, MayClaim(wo, t)
      PROVE  wo.work = "active" /\ ~HasPending(wo) /\ wo.wake[t] # "event" /\ GateClear(wo, t)
  BY <1>2 DEF MayClaim, IsReady
<1>3. WorkTyped /\ [Next]_vars =>
        [\A t \in Tasks : wo.status[t] # "dispatched" /\ wo'.status[t] = "dispatched" =>
           /\ wo.work = "active" /\ ~HasPending(wo)
           /\ wo.wake[t] # "event" /\ GateClear(wo, t)]_vars
  BY <1>1, <1>2
<1> QED
  BY <1>3, TypesHold, PTL DEF Spec, StartsClean

\* A question out to the user is not closed, abandoned or superseded from the side by anyone:
\* not by a revision, a cascade from another task, or the owner.  Only the end of the work
\* takes it away.
THEOREM QuestionsAreFenced == Spec => AskEndsByAnswer
<1>1. ASSUME WorkTyped, Next, NEW t \in Tasks, InFlightAsk(wo, t), wo'.status[t] \in EndStatuses
      PROVE  Ended(wo')
  <2>1. wo.status[t] = "dispatched"
    BY <1>1 DEF InFlightAsk
  <2>2. ~Rests(wo, wo', t) /\ ~Appears(wo, wo', t)
    BY <1>1, <2>1 DEF Rests, Appears, EndStatuses
  <2>3. CASE MovesOne(wo, wo')
    <3>1. Moved(wo, wo', t)
      BY <2>2, <2>3 DEF MovesOne
    <3>2. ~OwnerMoved(wo, wo', t)
      BY <1>1, <2>1 DEF OwnerMoved, MaySetStatus
    <3> QED
      BY <1>1, <2>1, <2>2, <3>1, <3>2
      DEF Moved, Queued, Started, GateFailed, Reported, WasJudged, WatchOver, EndStatuses,
          NeedsFinalization, MayEndWatch
  <2>4. CASE Ends(wo, wo')
    BY <2>4 DEF Ends, Ended
  <2> QED
    BY <1>1, <2>2, <2>3, <2>4, StepMoves DEF Idles, Revises
<1>2. WorkTyped /\ [Next]_vars =>
        [\A t \in Tasks : InFlightAsk(wo, t) /\ wo'.status[t] \in EndStatuses => Ended(wo')]_vars
  BY <1>1
<1> QED
  BY <1>2, TypesHold, PTL DEF Spec, AskEndsByAnswer

-----------------------------------------------------------------------------
(* Results, judgments and completion.                                        *)

\* In a step every task rests, appears, is dropped, or moves in one of the other ways.
LEMMA TaskMoves ==
  ASSUME WorkTyped, Next, NEW t \in Tasks
  PROVE  Rests(wo, wo', t) \/ Dropped(wo, wo', t) \/ Moved(wo, wo', t)
  BY StepMoves DEF Idles, MovesOne, Revises, Ends, Moved

\* A done task has a result of its very dispatch, as long as the owner sets no task done by hand.
THEOREM DoneIsBacked ==
  ASSUME "done" \notin OwnerTargets
  PROVE  Spec => []DoneHasResult
<1>1. Init => DoneHasResult
  BY DEF Init, NewWorkObject, DoneHasResult, Nodes
<1>2. ASSUME WorkTyped, DoneHasResult, Next, NEW t \in Tasks, wo'.status[t] = "done"
      PROVE  wo'.result[t] = wo'.epoch[t]
  <2>1. CASE Rests(wo, wo', t)
    BY <1>2, <2>1 DEF Rests, SameAttempt, DoneHasResult
  <2>2. CASE Moved(wo, wo', t)
    BY <1>2, <2>2 DEF Moved, Queued, Started, GateFailed, Reported, WasJudged, WatchOver, OwnerMoved, Appears
  <2> QED
    BY <1>2, <2>1, <2>2, TaskMoves DEF Dropped
<1>3. WorkTyped /\ DoneHasResult /\ [Next]_vars => DoneHasResult'
  <2> SUFFICES ASSUME WorkTyped, DoneHasResult, [Next]_vars PROVE DoneHasResult'
    OBVIOUS
  <2>1. CASE UNCHANGED vars
    BY <2>1 DEF vars, DoneHasResult
  <2>2. CASE Next
    BY <1>2, <2>2 DEF DoneHasResult
  <2> QED
    BY <2>1, <2>2
<1> QED
  BY <1>1, <1>3, TypesHold, PTL DEF Spec

\* Only a judgment of its last dispatch, or the end of its watch, closes a task, as long as the
\* owner closes none by hand.
THEOREM ClosingIsJudged ==
  ASSUME "closed" \notin OwnerTargets
  PROVE  Spec => []ClosedWasJudged
<1>1. Init => ClosedWasJudged
  BY DEF Init, NewWorkObject, ClosedWasJudged, Nodes
<1>2. ASSUME WorkTyped, ClosedWasJudged, Next, NEW t \in Tasks, wo'.status[t] = "closed"
      PROVE  wo'.judged[t] = wo'.epoch[t] \/ wo'.watch[t] = "over"
  <2>1. CASE Rests(wo, wo', t)
    BY <1>2, <2>1 DEF Rests, SameAttempt, ClosedWasJudged
  <2>2. CASE Moved(wo, wo', t)
    BY <1>2, <2>2 DEF Moved, Queued, Started, GateFailed, Reported, WasJudged, WatchOver, OwnerMoved, Appears
  <2> QED
    BY <1>2, <2>1, <2>2, TaskMoves DEF Dropped
<1>3. WorkTyped /\ ClosedWasJudged /\ [Next]_vars => ClosedWasJudged'
  <2> SUFFICES ASSUME WorkTyped, ClosedWasJudged, [Next]_vars PROVE ClosedWasJudged'
    OBVIOUS
  <2>1. CASE UNCHANGED vars
    BY <2>1 DEF vars, ClosedWasJudged
  <2>2. CASE Next
    BY <1>2, <2>2 DEF ClosedWasJudged
  <2> QED
    BY <2>1, <2>2
<1> QED
  BY <1>1, <1>3, TypesHold, PTL DEF Spec

\* What the user denied is never taken up again by the engine: neither the agent's verdict,
\* nor a revision, nor a late promotion or result reopens it.  Only an owner who may set a task
\* closed, superseded, proposed or dispatched by hand can.
THEOREM DenialIsFinal ==
  ASSUME OwnerTargets \cap {"closed", "superseded", "proposed", "dispatched"} = {}
  PROVE  Spec => []DeniedNeverRetried
<1>1. Init => DeniedNeverRetried
  BY DEF Init, NewWorkObject, DeniedNeverRetried
<1>2. ASSUME WorkTyped, DeniedNeverRetried, Next, NEW t \in Tasks, wo'.denied[t]
      PROVE  wo'.status[t] \in {"done", "failed", "abandoned"}
  <2>1. wo.denied[t] => wo.status[t] \in {"done", "failed", "abandoned"}
    BY <1>2 DEF DeniedNeverRetried
  <2>2. CASE Rests(wo, wo', t)
    BY <1>2, <2>1, <2>2 DEF Rests, SameAttempt
  <2>3. CASE Appears(wo, wo', t) \/ Queued(wo, wo', t) \/ Started(wo, wo', t) \/ WatchOver(wo, wo', t)
    <3>1. wo.denied[t] /\ wo.status[t] \notin {"done", "failed", "abandoned"}
      BY <1>2, <2>3 DEF Appears, Queued, Started, WatchOver, SameAttempt, MayClaim, MayEndWatch
    <3> QED
      BY <2>1, <3>1
  <2>4. CASE GateFailed(wo, wo', t) \/ Reported(wo, wo', t)
    BY <2>4 DEF GateFailed, Reported
  <2>5. CASE WasJudged(wo, wo', t)
    BY <1>2, <2>5 DEF WasJudged
  <2>6. CASE OwnerMoved(wo, wo', t)
    <3>1. PICK s \in OwnerTargets : /\ s # wo.status[t] /\ MaySetStatus(wo, t, s, "work_ui", FALSE)
                                    /\ wo'.status[t] = s /\ wo'.denied[t] = wo.denied[t]
      BY <2>6 DEF OwnerMoved
    <3>2. s \in Transitions[wo.status[t]] /\ wo.status[t] \in {"done", "failed", "abandoned"}
      BY <1>2, <2>1, <3>1 DEF MaySetStatus
    <3>3. Transitions["done"] = {"closed", "superseded", "failed"}
          /\ Transitions["failed"] = {"dispatched", "proposed", "abandoned"}
          /\ Transitions["abandoned"] = {}
      BY DEF Transitions, Statuses
    <3> QED
      BY <3>1, <3>2, <3>3
  <2> QED
    BY <2>2, <2>3, <2>4, <2>5, <2>6, <1>2, TaskMoves DEF Moved, Dropped
<1>3. WorkTyped /\ DeniedNeverRetried /\ [Next]_vars => DeniedNeverRetried'
  <2> SUFFICES ASSUME WorkTyped, DeniedNeverRetried, [Next]_vars PROVE DeniedNeverRetried'
    OBVIOUS
  <2>1. CASE UNCHANGED vars
    BY <2>1 DEF vars, DeniedNeverRetried
  <2>2. CASE Next
    BY <1>2, <2>2 DEF DeniedNeverRetried
  <2> QED
    BY <2>1, <2>2
<1> QED
  BY <1>1, <1>3, TypesHold, PTL DEF Spec

\* Work that nobody ended by hand is done only with every task of its plan closed and no
\* judgment still asking for a change of plan, and it stays so, whatever the owner edits.
THEOREM CompletionIsEarned == Spec => []CompletionEarned
<1>1. Init => CompletionEarned
  BY DEF Init, NewWorkObject, CompletionEarned
<1>2. ASSUME WorkTyped, TerminalInert', CompletionEarned, Next, wo'.work = "done", ~wo'.ended
      PROVE  /\ \A t \in Planned(wo') : wo'.status[t] \in {"closed", "superseded"}
             /\ ~HasPending(wo')
  <2>1. CASE Settles(wo, wo') /\ wo'.work # wo.work
    BY <2>1 DEF Settles, GoalSatisfied
  <2>2. CASE wo.work = "done" /\ wo'.ended = wo.ended
    <3>1. /\ \A t \in Tasks : wo.status[t] \in {"absent", "closed", "superseded"}
          /\ ~HasPending(wo) /\ Ended(wo) /\ Ended(wo')
      BY <1>2, <2>2 DEF CompletionEarned, Planned, Ended, EndedWork
    <3>2. wo'.pending = wo.pending
      BY <1>2, <2>2, <3>1, StepMoves DEF Idles, MovesOne, Revises, Ends
    <3>3. ASSUME NEW t \in Tasks PROVE wo'.status[t] \in {"absent", "closed", "superseded"}
      <4>1. CASE Rests(wo, wo', t)
        BY <3>1, <4>1 DEF Rests
      <4>2. ~Dropped(wo, wo', t)
        BY <3>1 DEF Dropped, Startable
      <4>3. CASE Moved(wo, wo', t)
        <5>1. ~Appears(wo, wo', t)
          BY <1>2, <3>1 DEF Appears, TerminalInert, Valid, Startable, Nodes
        <5>2. OwnerMoved(wo, wo', t)
          BY <3>1, <4>3, <5>1 DEF Moved, Queued, Started, MayClaim, GateFailed, Reported, WasJudged, WatchOver
        <5>3. wo'.status[t] \in Transitions[wo.status[t]] /\ wo.status[t] # "absent"
          BY <5>2 DEF OwnerMoved, MaySetStatus
        <5>4. Transitions["closed"] = {"superseded"} /\ Transitions["superseded"] = {}
          BY DEF Transitions, Statuses
        <5> QED
          BY <3>1, <5>3, <5>4
      <4> QED
        BY <1>2, <4>1, <4>2, <4>3, TaskMoves
    <3> QED
      BY <3>1, <3>2, <3>3 DEF Planned, HasPending
  <2>3. (Settles(wo, wo') /\ wo'.work # wo.work) \/ (wo.work = "done" /\ wo'.ended = wo.ended)
    BY <1>2, StepMoves DEF Idles, MovesOne, Revises, Ends, Framed
  <2> QED
    BY <2>1, <2>2, <2>3
<1>3. WorkTyped /\ TerminalInert' /\ CompletionEarned /\ [Next]_vars => CompletionEarned'
  <2> SUFFICES ASSUME WorkTyped, TerminalInert', CompletionEarned, [Next]_vars PROVE CompletionEarned'
    OBVIOUS
  <2>1. CASE UNCHANGED vars
    BY <2>1 DEF vars, CompletionEarned, Planned, HasPending
  <2>2. CASE Next
    BY <1>2, <2>2 DEF CompletionEarned
  <2> QED
    BY <2>1, <2>2
<1> QED
  BY <1>1, <1>3, TypesHold, EndedWorkIsInert, PTL DEF Spec

-----------------------------------------------------------------------------
(* The helpers of a finished task.                                           *)

Quiet(w) == \A t \in Tasks : w.status[t] \in OutcomeStatuses => QuietBelow(w, t)

\* A step that keeps finished tasks quiet: helpers are at most stopped, and a task that
\* reaches an outcome stops those below it.
QuietStep(w, v) ==
  /\ HelpersDrop(w, v)
  /\ \A t \in Tasks : v.status[t] \in OutcomeStatuses => w.status[t] \in OutcomeStatuses \/ QuietBelow(v, t)

\* What was quiet stays quiet while helpers are only stopped.
LEMMA DropsStayQuiet ==
  ASSUME NEW w, NEW v, NEW t \in Tasks, HelpersDrop(w, v), QuietBelow(w, t)
  PROVE  QuietBelow(v, t)
<1>1. Descendants(t) \subseteq Helpers
  BY DescendantsAreLeast DEF Nodes
<1> QED
  BY <1>1 DEF HelpersDrop, QuietBelow, Startable

\* Quiet steps can be put together,
LEMMA QuietChains ==
  ASSUME NEW u, NEW v, NEW w, QuietStep(u, v), QuietStep(v, w)
  PROVE  QuietStep(u, w)
<1>1. HelpersDrop(u, w)
  BY DEF QuietStep, HelpersDrop
<1>2. \A t \in Tasks : QuietBelow(v, t) => QuietBelow(w, t)
  BY DropsStayQuiet DEF QuietStep
<1> QED
  BY <1>1, <1>2 DEF QuietStep

\* they keep the finished tasks quiet,
LEMMA QuietStays ==
  ASSUME NEW w, NEW v, QuietStep(w, v), Quiet(w)
  PROVE  Quiet(v)
  BY DropsStayQuiet DEF QuietStep, Quiet

\* and a commit is one.
LEMMA CommitIsQuiet ==
  ASSUME NEW w \in WorkObjects, NEW u, QuietStep(u, w), Commit(w)
  PROVE  QuietStep(u, wo')
<1>1. SameTasks(w, wo') /\ HelpersDrop(w, wo')
  BY CommitMoves
<1>2. QuietStep(w, wo')
  BY <1>1 DEF QuietStep, SameTasks
<1> QED
  BY <1>2, QuietChains

\* The same statuses are as quiet.
LEMMA SameStatusIsQuiet ==
  ASSUME NEW w, NEW v, v.status = w.status
  PROVE  QuietStep(w, v)
  BY DEF QuietStep, HelpersDrop

\* A handler of one task is quiet when it stops the helpers of a task it finishes.
LEMMA OneTaskIsQuiet ==
  ASSUME NEW w, NEW v, NEW t \in Tasks, OnlyTask(w, v, t),
         v.status[t] \in OutcomeStatuses => w.status[t] \in OutcomeStatuses \/ QuietBelow(v, t)
  PROVE  QuietStep(w, v)
  BY DEF OnlyTask, QuietStep

\* set_status on a task is.
LEMMA SetStatusIsQuiet ==
  ASSUME NEW w \in WorkObjects, NEW t \in Tasks, NEW s \in Statuses
  PROVE  SetStatus(w, t, s) \in WorkObjects /\ QuietStep(w, SetStatus(w, t, s))
<1> DEFINE v == SetStatus(w, t, s)
<1>1. /\ OnlyTask(w, v, t) /\ v.status[t] = s
      /\ s \in OutcomeStatuses /\ s # w.status[t] => QuietBelow(v, t)
  BY SetStatusOfTask
<1> HIDE DEF v
<1>2. QuietStep(w, v)
  BY <1>1, OneTaskIsQuiet
<1> QED
  BY <1>1, <1>2 DEF v, OnlyTask

\* The operations of a revision are quiet: new tasks have no outcome, and a pruned task stops
\* its helpers with it.
LEMMA PlansAreQuiet ==
  ASSUME NEW w \in WorkObjects
  PROVE  /\ \A A \in SUBSET Tasks : QuietStep(w, AddTasks(w, A))
         /\ \A P \in SUBSET Tasks : QuietStep(w, Prune(w, P))
         /\ \A s, d \in Tasks : QuietStep(w, Link(w, s, d))
         /\ \A kept : QuietStep(w, Redirect(w, kept))
         /\ \A t \in Tasks, g \in Gates : MayGate(w, t, g) => QuietStep(w, Gate(w, t, g))
         /\ QuietStep(w, Consume(w))
         /\ \A target \in EndedWork : QuietStep(w, EndWork(w, target))
<1>1. ASSUME NEW A \in SUBSET Tasks PROVE QuietStep(w, AddTasks(w, A))
  <2> DEFINE v == AddTasks(w, A)
  <2>1. \A n \in Nodes : v.status[n] = IF n \in A THEN "proposed" ELSE w.status[n]
    BY PlansMove
  <2>2. \A h \in Helpers : h \notin A
    BY DisjointNodes
  <2> HIDE DEF v
  <2>3. HelpersDrop(w, v)
    BY <2>1, <2>2 DEF HelpersDrop, Nodes
  <2>4. \A t \in Tasks : v.status[t] \in OutcomeStatuses => w.status[t] \in OutcomeStatuses
    BY <2>1 DEF Nodes, OutcomeStatuses
  <2> QED
    BY <2>3, <2>4 DEF QuietStep, v
<1>2. ASSUME NEW P \in SUBSET Tasks PROVE QuietStep(w, Prune(w, P))
  <2> DEFINE v == Prune(w, P)
  <2>1. /\ \A t \in Tasks : v.status[t] = IF t \in P THEN "abandoned" ELSE w.status[t]
        /\ HelpersDrop(w, v) /\ \A t \in P : QuietBelow(v, t)
    BY PruneMoves
  <2> HIDE DEF v
  <2> QED
    BY <2>1 DEF QuietStep, v
<1>3. ASSUME NEW s, NEW d PROVE QuietStep(w, Link(w, s, d))
  <2>1. Link(w, s, d).status = w.status
    BY DEF Link, WorkObjects
  <2> QED
    BY <2>1, SameStatusIsQuiet
<1>4. ASSUME NEW kept PROVE QuietStep(w, Redirect(w, kept))
  <2>1. Redirect(w, kept).status = w.status
    BY DEF Redirect, WorkObjects
  <2> QED
    BY <2>1, SameStatusIsQuiet
<1>5. ASSUME NEW t \in Tasks, NEW g \in Gates, MayGate(w, t, g) PROVE QuietStep(w, Gate(w, t, g))
  <2>1. Gate(w, t, g).status = w.status
    BY <1>5, PlansMove
  <2> QED
    BY <2>1, SameStatusIsQuiet
<1>6. QuietStep(w, Consume(w))
  <2>1. Consume(w).status = w.status
    BY PlansMove
  <2> QED
    BY <2>1, SameStatusIsQuiet
<1>7. ASSUME NEW target \in EndedWork PROVE QuietStep(w, EndWork(w, target))
  <2> DEFINE v == EndWork(w, target)
  <2>1. HelpersDrop(w, v) /\ \A n \in Nodes : v.status[n] \notin Startable
    BY EndWorkMoves
  <2> HIDE DEF v
  <2>2. \A t \in Tasks : QuietBelow(v, t)
    BY <2>1, DescendantsAreLeast DEF QuietBelow, Nodes
  <2> QED
    BY <2>1, <2>2 DEF QuietStep, v
<1> QED
  BY <1>1, <1>2, <1>3, <1>4, <1>5, <1>6, <1>7

\* Every revision of the architect is quiet.
LEMMA ArchitectIsQuiet ==
  ASSUME WorkTyped, Architect
  PROVE  QuietStep(wo, wo')
<1> USE DEF WorkTyped, InPass, Write
<1>1. ASSUME NEW w \in WorkObjects, QuietStep(wo, w), Commit(Consume(w)) PROVE QuietStep(wo, wo')
  <2>1. QuietStep(wo, Consume(w)) /\ Consume(w) \in WorkObjects
    BY <1>1, PlansAreQuiet, QuietChains, ArchitectIsTyped
  <2> QED
    BY <1>1, <2>1, CommitIsQuiet
<1>2. ASSUME NEW A \in SUBSET Tasks PROVE AddTasks(wo, A) \in WorkObjects /\ QuietStep(wo, AddTasks(wo, A))
  BY PlansAreQuiet, ArchitectIsTyped
<1>3. ASSUME NEW A \in SUBSET Tasks, ArchitectDecompose(A) PROVE QuietStep(wo, wo')
  BY <1>2, <1>3, CommitIsQuiet DEF ArchitectDecompose
<1>4. ASSUME NEW A \in SUBSET Tasks, NEW t \in A, NEW g \in Gates, ArchitectDecomposeGated(A, t, g)
      PROVE  QuietStep(wo, wo')
  <2> DEFINE w == AddTasks(wo, A)
  <2>1. MayGate(w, t, g) /\ Commit(Gate(w, t, g))
    BY <1>4 DEF ArchitectDecomposeGated
  <2>2. w \in WorkObjects /\ QuietStep(wo, w)
    BY <1>2
  <2> HIDE DEF w
  <2>3. Gate(w, t, g) \in WorkObjects /\ QuietStep(w, Gate(w, t, g))
    BY <2>1, <2>2, PlansAreQuiet, ArchitectIsTyped
  <2> QED
    BY <2>1, <2>2, <2>3, QuietChains, CommitIsQuiet
<1>5. ASSUME NEW A \in SUBSET Tasks, NEW s \in A, NEW d \in A, ArchitectDecomposeLinked(A, s, d)
      PROVE  QuietStep(wo, wo')
  <2> DEFINE w == AddTasks(wo, A)
  <2>1. Commit(Link(w, s, d))
    BY <1>5 DEF ArchitectDecomposeLinked
  <2>2. w \in WorkObjects /\ QuietStep(wo, w)
    BY <1>2
  <2> HIDE DEF w
  <2>3. Link(w, s, d) \in WorkObjects /\ QuietStep(w, Link(w, s, d))
    BY <2>2, PlansAreQuiet, ArchitectIsTyped
  <2> QED
    BY <2>1, <2>2, <2>3, QuietChains, CommitIsQuiet
<1>6. ASSUME NEW P \in SUBSET Tasks PROVE Prune(wo, P) \in WorkObjects /\ QuietStep(wo, Prune(wo, P))
  BY PlansAreQuiet, ArchitectIsTyped
<1>7. ASSUME NEW A \in SUBSET Tasks, NEW P \in SUBSET Tasks, ArchitectReplan(P, A)
      PROVE  QuietStep(wo, wo')
  <2> DEFINE w == Prune(wo, P)
             v == AddTasks(w, A)
  <2>1. Commit(Consume(v))
    BY <1>7 DEF ArchitectReplan
  <2>2. w \in WorkObjects /\ QuietStep(wo, w)
    BY <1>6
  <2> HIDE DEF w
  <2>3. v \in WorkObjects /\ QuietStep(w, v)
    BY <2>2, PlansAreQuiet, ArchitectIsTyped
  <2> HIDE DEF v
  <2> QED
    BY <1>1, <2>1, <2>2, <2>3, QuietChains
<1>8. ASSUME NEW t \in Tasks, NEW g \in Gates, ArchitectRegate(t, g) PROVE QuietStep(wo, wo')
  <2>1. Gate(wo, t, g) \in WorkObjects /\ QuietStep(wo, Gate(wo, t, g))
    BY <1>8, PlansAreQuiet, ArchitectIsTyped DEF ArchitectRegate
  <2> QED
    BY <1>1, <1>8, <2>1 DEF ArchitectRegate
<1>9. ASSUME NEW s \in Tasks, NEW d \in Tasks, ArchitectRelink(s, d) PROVE QuietStep(wo, wo')
  <2>1. Link(wo, s, d) \in WorkObjects /\ QuietStep(wo, Link(wo, s, d))
    BY PlansAreQuiet, ArchitectIsTyped
  <2> QED
    BY <1>1, <1>9, <2>1 DEF ArchitectRelink
<1>10. ASSUME NEW D \in SUBSET Tasks, NEW kept \in [D -> Tasks], ArchitectMerge(kept)
       PROVE  QuietStep(wo, wo')
  <2> DEFINE w == Prune(wo, D)
             v == Redirect(w, kept)
  <2>1. DOMAIN kept = D
    OBVIOUS
  <2>2. Commit(Consume(v))
    BY <1>10, <2>1 DEF ArchitectMerge
  <2>3. w \in WorkObjects /\ QuietStep(wo, w)
    BY <1>6
  <2> HIDE DEF w
  <2>4. v \in WorkObjects /\ QuietStep(w, v)
    BY <2>3, PlansAreQuiet, ArchitectIsTyped
  <2> HIDE DEF v
  <2> QED
    BY <1>1, <2>2, <2>3, <2>4, QuietChains
<1>11. ASSUME NEW target \in EndedWork, ArchitectEnd(target) PROVE QuietStep(wo, wo')
  <2>1. ASSUME NEW w \in WorkObjects, QuietStep(wo, w), Commit(EndWork(w, target)) PROVE QuietStep(wo, wo')
    BY <2>1, PlansAreQuiet, EndWorkIsTyped, QuietChains, CommitIsQuiet
  <2>2. QuietStep(wo, wo) /\ QuietStep(wo, Consume(wo)) /\ Consume(wo) \in WorkObjects
    BY SameStatusIsQuiet, PlansAreQuiet, ArchitectIsTyped
  <2> QED
    BY <1>11, <2>1, <2>2 DEF ArchitectEnd
<1> QED
  BY <1>3, <1>4, <1>5, <1>7, <1>8, <1>9, <1>10, <1>11 DEF Architect

\* So is every step of the state mover,
LEMMA StateMoverIsQuiet ==
  ASSUME WorkTyped, StateMover
  PROVE  QuietStep(wo, wo')
<1> USE DEF WorkTyped, InPass, Write
<1>1. ASSUME NEW t \in Tasks, NEW s \in {"actionable", "waiting"}, Commit(SetStatus(wo, t, s))
      PROVE  QuietStep(wo, wo')
  BY <1>1, SetStatusIsQuiet, CommitIsQuiet DEF Statuses
<1>2. ASSUME NEW t \in Tasks, NEW kind \in WakeKinds, NEW future \in BOOLEAN, Commit(Defer(wo, t, kind, future))
      PROVE  QuietStep(wo, wo')
  <2> DEFINE w == Defer(wo, t, kind, future)
  <2>1. /\ w \in WorkObjects /\ HelpersDrop(wo, w)
        /\ \A u \in Tasks : w.status[u] =
             IF u = t /\ wo.status[u] = "dispatched" /\ kind # "user_reply" THEN "waiting" ELSE wo.status[u]
    BY DeferMoves
  <2> HIDE DEF w
  <2>2. QuietStep(wo, w)
    BY <2>1 DEF QuietStep, OutcomeStatuses
  <2> QED
    BY <1>2, <2>1, <2>2, CommitIsQuiet DEF w
<1>3. CASE UNCHANGED wo
  BY <1>3, SameStatusIsQuiet
<1>4. ASSUME NEW t \in Tasks, MoverPromote(t) \/ MoverHold(t) PROVE QuietStep(wo, wo')
  BY <1>1, <1>4 DEF MoverPromote, MoverHold
<1>5. ASSUME NEW t \in Tasks, MoverPark(t) PROVE QuietStep(wo, wo')
  BY <1>2, <1>5 DEF MoverPark, WakeKinds
<1>6. ASSUME NEW t \in Tasks, MoverWake(t) PROVE QuietStep(wo, wo')
  BY <1>2, <1>6 DEF MoverWake, WakeKinds
<1> QED
  BY <1>3, <1>4, <1>5, <1>6 DEF StateMover, MoverLook, MoverEnds, MoverRefused

\* and every claim, result, judgment and expiry.
LEMMA DispatchIsQuiet ==
  ASSUME WorkTyped, Dispatch
  PROVE  QuietStep(wo, wo')
<1> USE DEF WorkTyped, InPass, Write
<1>1. ASSUME NEW t \in Tasks, NEW s \in {"dispatched", "failed"}, Commit(SetStatus(wo, t, s))
      PROVE  QuietStep(wo, wo')
  BY <1>1, SetStatusIsQuiet, CommitIsQuiet DEF Statuses
<1>2. ASSUME NEW t \in Tasks, Claim(t) \/ GateReject(t) PROVE QuietStep(wo, wo')
  BY <1>1, <1>2 DEF Claim, GateReject
<1>3. ASSUME NEW t \in Tasks, NEW e, GateFail(t, e) PROVE QuietStep(wo, wo')
  BY <1>1, <1>3 DEF GateFail
<1>4. ASSUME NEW t \in Tasks, NEW outcome \in {"done", "failed"}, NEW denial \in BOOLEAN,
             MayRecord(wo, t, wo.epoch[t]), Commit(Record(wo, t, outcome, denial))
      PROVE  QuietStep(wo, wo')
  <2> DEFINE w == Record(wo, t, outcome, denial)
  <2>1. OnlyTask(wo, w, t) /\ Reported(wo, w, t) /\ (w.status[t] = "done" => QuietBelow(w, t))
    BY <1>4, RecordMoves DEF MayRecord
  <2> HIDE DEF w
  <2>2. w.status[t] \in OutcomeStatuses => QuietBelow(w, t)
    BY <2>1 DEF Reported, OutcomeStatuses
  <2>3. w \in WorkObjects
    BY <2>1 DEF OnlyTask
  <2> QED
    BY <1>4, <2>1, <2>2, <2>3, OneTaskIsQuiet, CommitIsQuiet DEF w
<1>5. ASSUME NEW t \in Tasks, SweepStuck(t) PROVE QuietStep(wo, wo')
  BY <1>4, <1>5 DEF SweepStuck
<1>6. ASSUME NEW t \in Tasks, NEW e, NEW outcome \in {"done", "failed"}, NEW denial \in BOOLEAN,
             RecordResult(t, e, outcome, denial)
      PROVE  QuietStep(wo, wo')
  BY <1>4, <1>6 DEF RecordResult, MayRecord
<1>7. ASSUME NEW t \in Tasks, WatchEnds(t) PROVE QuietStep(wo, wo')
  <2> DEFINE w == EndWatch(wo, t)
  <2>1. Commit(w) /\ OnlyTask(wo, w, t) /\ QuietBelow(w, t)
    BY <1>7, EndWatchMoves DEF WatchEnds
  <2> HIDE DEF w
  <2>2. w \in WorkObjects
    BY <2>1 DEF OnlyTask
  <2> QED
    BY <2>1, <2>2, OneTaskIsQuiet, CommitIsQuiet
<1>8. ASSUME NEW t \in Tasks, NEW e, BindTicket(t, e) PROVE QuietStep(wo, wo')
  <2> DEFINE w == Defer(wo, t, "user_reply", FALSE)
  <2>1. Commit(w)
    BY <1>8 DEF BindTicket
  <2>2. "user_reply" \in WakeKinds
    BY DEF WakeKinds
  <2>3. w \in WorkObjects /\ HelpersDrop(wo, w) /\ \A u \in Tasks : w.status[u] = wo.status[u]
    BY <2>2, DeferMoves
  <2> HIDE DEF w
  <2> QED
    BY <2>1, <2>3, CommitIsQuiet DEF QuietStep
<1>9. ASSUME NEW t \in Tasks, NEW e, NEW verdict, NEW next, Judge(t, e, verdict, next)
      PROVE  QuietStep(wo, wo')
  <2> DEFINE w == Finalize(wo, t, verdict, next)
  <2>1. ~Ended(wo) /\ NeedsFinalization(wo, t) /\ Commit(w)
    BY <1>9 DEF Judge, MayFinalize
  <2>2. OnlyTask(wo, w, t) /\ WasJudged(wo, w, t) /\ (w.status[t] = "closed" => QuietBelow(w, t))
    BY <2>1, FinalizeMoves
  <2> HIDE DEF w
  <2>3. w.status[t] \in OutcomeStatuses => QuietBelow(w, t)
    BY <2>2 DEF WasJudged, OutcomeStatuses
  <2>4. w \in WorkObjects
    BY <2>2 DEF OnlyTask
  <2> QED
    BY <2>1, <2>2, <2>3, <2>4, OneTaskIsQuiet, CommitIsQuiet
<1> QED
  BY <1>2, <1>3, <1>5, <1>6, <1>7, <1>8, <1>9 DEF Dispatch

\* A worker moves a helper only below a task in flight, so no finished task hears of it.
LEMMA WorkerKeepsQuiet ==
  ASSUME WorkTyped, Quiet(wo), NEW h \in Helpers, WorkerActive(h),
         \A t \in Tasks : wo'.status[t] = wo.status[t],
         \A g \in Helpers \ {h} : wo'.status[g] \in {wo.status[g], "abandoned"}
  PROVE  Quiet(wo')
<1> SUFFICES ASSUME NEW t \in Tasks, wo.status[t] \in OutcomeStatuses, NEW g \in Descendants(t)
             PROVE  wo'.status[g] \notin Startable
  BY DEF Quiet, QuietBelow
<1>1. g # h
  <2>1. wo.status[Anchor(h)] = "dispatched"
    BY DEF WorkerActive
  <2>2. h \in Descendants(t) => Anchor(h) = t
    BY AnchorIsTheTaskAbove
  <2> QED
    BY <2>1, <2>2 DEF OutcomeStatuses
<1>2. g \in Helpers
  BY DescendantsAreLeast DEF Nodes
<1>3. wo.status[g] \notin Startable
  BY DEF Quiet, QuietBelow
<1> QED
  BY <1>1, <1>2, <1>3 DEF Startable

\* Workers, brain and owner leave finished tasks quiet, unless the owner may restart what is
\* below one.
LEMMA OthersKeepQuiet ==
  ASSUME WorkTyped, Quiet(wo), Others, OwnerTargets \cap Startable = {}
  PROVE  Quiet(wo')
<1> USE DEF WorkTyped, InPass, Write
<1>1. CASE BrainReplan
  <2> DEFINE w == [wo EXCEPT !.asked = TRUE]
  <2>1. Commit(w)
    BY <1>1 DEF BrainReplan
  <2>2. w \in WorkObjects /\ w.status = wo.status
    BY DEF WorkObjects
  <2> HIDE DEF w
  <2> QED
    BY <2>1, <2>2, SameStatusIsQuiet, CommitIsQuiet, QuietStays
<1>2. CASE Abandon
  <2>1. "abandoned" \in EndedWork /\ Commit(EndWork(wo, "abandoned"))
    BY <1>2 DEF Abandon, EndedWork
  <2> QED
    BY <2>1, PlansAreQuiet, EndWorkIsTyped, CommitIsQuiet, QuietStays
<1>3. ASSUME NEW h \in Helpers, AddHelper(h) PROVE Quiet(wo')
  <2> DEFINE w == [wo EXCEPT !.status = [@ EXCEPT ![h] = "proposed"]]
  <2>1. Commit(w) /\ WorkerActive(h)
    BY <1>3 DEF AddHelper
  <2>2. w \in WorkObjects /\ w.status = [wo.status EXCEPT ![h] = "proposed"]
    BY DEF WorkObjects, Statuses, Nodes
  <2>3. \A n \in Nodes \ {h} : w.status[n] = wo.status[n]
    BY <2>2 DEF WorkObjects
  <2> HIDE DEF w
  <2>4. SameTasks(w, wo') /\ HelpersDrop(w, wo')
    BY <2>1, <2>2, CommitMoves
  <2> QED
    BY <2>1, <2>3, <2>4, DisjointNodes, WorkerKeepsQuiet DEF SameTasks, HelpersDrop, Nodes
<1>4. ASSUME NEW h \in Helpers, NEW s \in Statuses, Commit(SetStatus(wo, h, s))
      PROVE  /\ \A t \in Tasks : wo'.status[t] = wo.status[t]
             /\ \A g \in Helpers \ {h} : wo'.status[g] \in {wo.status[g], "abandoned"}
             /\ wo'.status[h] \in {wo.status[h], "abandoned", s}
  <2> DEFINE w == SetStatus(wo, h, s)
  <2>1. /\ w \in WorkObjects /\ \A t \in Tasks : w.status[t] = wo.status[t]
        /\ \A g \in Helpers : w.status[g] \in {wo.status[g], "abandoned"} \/ (g = h /\ w.status[g] = s)
    BY SetStatusMoves, DisjointNodes DEF Nodes
  <2> HIDE DEF w
  <2>2. SameTasks(w, wo') /\ HelpersDrop(w, wo')
    BY <1>4, <2>1, CommitMoves DEF w
  <2> QED
    BY <2>1, <2>2 DEF SameTasks, HelpersDrop
<1>5. ASSUME NEW h \in Helpers, NEW s \in Statuses, MoveHelper(h, s) PROVE Quiet(wo')
  BY <1>4, <1>5, WorkerKeepsQuiet DEF MoveHelper
<1>6. ASSUME NEW t \in Tasks, NEW s \in OwnerTargets, OwnerSetStatus(t, s) PROVE Quiet(wo')
  <2>1. s \in Statuses /\ Commit(SetStatus(wo, t, s))
    BY <1>6, OwnerTargetsType DEF OwnerSetStatus
  <2> QED
    BY <2>1, SetStatusIsQuiet, CommitIsQuiet, QuietStays
<1>7. ASSUME NEW h \in Helpers, NEW s \in OwnerTargets, OwnerSetStatus(h, s) PROVE Quiet(wo')
  <2>1. s \in Statuses /\ s \notin Startable /\ Commit(SetStatus(wo, h, s))
    BY <1>7, OwnerTargetsType DEF OwnerSetStatus
  <2>2. /\ \A t \in Tasks : wo'.status[t] = wo.status[t]
        /\ \A g \in Helpers : wo'.status[g] \in {wo.status[g], "abandoned", s}
    BY <1>4, <2>1
  <2>3. ASSUME NEW t \in Tasks, wo.status[t] \in OutcomeStatuses, NEW g \in Descendants(t)
        PROVE  wo'.status[g] \notin Startable
    <3>1. g \in Helpers
      BY DescendantsAreLeast DEF Nodes
    <3>2. wo.status[g] \notin Startable
      BY <2>3 DEF Quiet, QuietBelow
    <3> QED
      BY <2>1, <2>2, <3>1, <3>2 DEF Startable
  <2> QED
    BY <2>2, <2>3 DEF Quiet, QuietBelow
<1>8. ASSUME NEW t \in Tasks, OwnerAddTask(t) PROVE Quiet(wo')
  <2> DEFINE w == [wo EXCEPT !.status = [@ EXCEPT ![t] = "proposed"]]
  <2>1. Commit(w)
    BY <1>8 DEF OwnerAddTask, AddTask
  <2>2. w \in WorkObjects /\ w.status = [wo.status EXCEPT ![t] = "proposed"]
    BY DEF WorkObjects, Statuses, Nodes
  <2>3. \A n \in Nodes : w.status[n] = IF n = t THEN "proposed" ELSE wo.status[n]
    BY <2>2 DEF WorkObjects
  <2> HIDE DEF w
  <2>4. QuietStep(wo, w)
    BY <2>3, DisjointNodes DEF QuietStep, HelpersDrop, Nodes, OutcomeStatuses
  <2> QED
    BY <2>1, <2>2, <2>4, CommitIsQuiet, QuietStays
<1>9. ASSUME NEW t \in Tasks, TimePasses(t) \/ WatchExpires(t) PROVE Quiet(wo')
  <2>1. wo'.status = wo.status
    BY <1>9 DEF TimePasses, WatchExpires, WorkObjects
  <2> QED
    BY <2>1, SameStatusIsQuiet, QuietStays
<1> QED
  BY <1>1, <1>2, <1>3, <1>5, <1>6, <1>7, <1>8, <1>9 DEF Others, Nodes

\* A finished task is fenced off from its workers: nothing below it could start, and nothing is
\* added there or taken up again, for every spine of helpers and as long as the owner restarts
\* none of them by hand.
THEOREM FinishedWorkIsQuiet ==
  ASSUME OwnerTargets \cap Startable = {}
  PROVE  Spec => []FinishedTaskQuiet
<1>1. Init => FinishedTaskQuiet
  BY DEF Init, NewWorkObject, FinishedTaskQuiet, OutcomeStatuses, Nodes
<1>2. FinishedTaskQuiet <=> Quiet(wo)
  BY DEF FinishedTaskQuiet, Quiet, QuietBelow
<1>3. FinishedTaskQuiet' <=> Quiet(wo')
  BY DEF FinishedTaskQuiet, Quiet, QuietBelow
<1>4. WorkTyped /\ FinishedTaskQuiet /\ [Next]_vars => FinishedTaskQuiet'
  <2> SUFFICES ASSUME WorkTyped, Quiet(wo), [Next]_vars PROVE Quiet(wo')
    BY <1>2, <1>3
  <2>1. CASE UNCHANGED vars
    BY <2>1 DEF vars
  <2>2. CASE Architect \/ StateMover \/ Dispatch
    BY <2>2, ArchitectIsQuiet, StateMoverIsQuiet, DispatchIsQuiet, QuietStays
  <2>3. CASE Others
    BY <2>3, OthersKeepQuiet
  <2> QED
    BY <2>1, <2>2, <2>3 DEF Next
<1> QED
  BY <1>1, <1>4, TypesHold, PTL DEF Spec
=============================================================================
