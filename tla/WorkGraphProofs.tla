--------------------------- MODULE WorkGraphProofs ---------------------------
(***************************************************************************)
(* Theorems about WorkGraph for every set of tasks and helpers, every spine,  *)
(* failure limit and bound: type correctness, the closure of ended work,      *)
(* and one judgment per dispatch.                                            *)
(***************************************************************************)
EXTENDS WorkGraph, TLAPS

-----------------------------------------------------------------------------
(* The store's operators keep the type of a work object.                     *)

\* The work object the brain creates is well typed.
LEMMA NewIsTyped == NewWorkObject \in WorkObjects
  BY FailureLimitType DEF NewWorkObject, WorkObjects, Statuses, WakeKinds, Epochs, NoEpoch

\* Abandoning what has not started, over any set of nodes.
LEMMA CascadeIsTyped ==
  ASSUME NEW w \in WorkObjects, NEW S
  PROVE  CascadeAbandon(w, S) \in WorkObjects
  BY DEF CascadeAbandon, WorkObjects, Statuses, WakeKinds

\* set_status, with its epoch and its cascade, keeps the type.
LEMMA SetStatusIsTyped ==
  ASSUME NEW w \in WorkObjects, NEW n \in Nodes, NEW s \in Statuses
  PROVE  SetStatus(w, n, s) \in WorkObjects
<1> DEFINE bumped == [t \in Tasks |-> IF t = n /\ s = "dispatched" /\ w.status[n] # "dispatched"
                                      THEN w.epoch[t] + 1 ELSE w.epoch[t]]
           moved  == [w EXCEPT !.status = [@ EXCEPT ![n] = s], !.epoch = bumped]
<1>1. moved \in WorkObjects
  <2>1. bumped \in [Tasks -> Nat]
    BY DEF WorkObjects
  <2> HIDE DEF bumped
  <2> QED
    BY <2>1 DEF WorkObjects
<1>2. CascadeAbandon(moved, Descendants(n)) \in WorkObjects
  BY <1>1, CascadeIsTyped
<1> QED
  BY <1>1, <1>2 DEF SetStatus

\* So does the completion of a satisfied goal,
LEMMA RollupIsTyped ==
  ASSUME NEW w \in WorkObjects
  PROVE  Rollup(w) \in WorkObjects
<1> DEFINE completed == [w EXCEPT !.work = "done", !.goal = "done"]
<1>1. completed \in WorkObjects
  BY DEF WorkObjects
<1>2. CascadeAbandon(completed, Nodes) \in WorkObjects
  BY <1>1, CascadeIsTyped
<1> QED
  BY <1>2 DEF Rollup

\* and the forced end of the work.
LEMMA EndWorkIsTyped ==
  ASSUME NEW w \in WorkObjects, NEW target \in EndedWork
  PROVE  EndWork(w, target) \in WorkObjects
<1> DEFINE ended == [w EXCEPT !.work = target, !.ended = TRUE,
                              !.goal = IF w.goal \in EndedWork THEN w.goal ELSE target]
<1>1. ended \in WorkObjects
  BY DEF WorkObjects, EndedWork
<1>2. CascadeAbandon(ended, Nodes) \in WorkObjects
  BY <1>1, CascadeIsTyped
<1> QED
  BY <1>2 DEF EndWork

\* defer_node writes a wake kind and perhaps parks the task.
LEMMA DeferIsTyped ==
  ASSUME NEW w \in WorkObjects, NEW t \in Tasks, NEW kind \in WakeKinds, NEW future \in BOOLEAN
  PROVE  Defer(w, t, kind, future) \in WorkObjects
  BY DEF Defer, WorkObjects, Statuses, Nodes

\* end_watch closes through set_status.
LEMMA EndWatchIsTyped ==
  ASSUME NEW w \in WorkObjects, NEW t \in Tasks
  PROVE  EndWatch(w, t) \in WorkObjects
<1> DEFINE done == [w EXCEPT !.status = [@ EXCEPT ![t] = "done"],
                             !.wake   = [@ EXCEPT ![t] = "none"],
                             !.held   = [@ EXCEPT ![t] = FALSE]]
<1>1. done \in WorkObjects
  BY DEF WorkObjects, Statuses, WakeKinds, Nodes
<1>2. SetStatus(done, t, "closed") \in WorkObjects
  BY <1>1, SetStatusIsTyped DEF Statuses, Nodes
<1> QED
  BY <1>2 DEF EndWatch

\* record_result stamps the epoch it reached, which is a natural number.
LEMMA RecordIsTyped ==
  ASSUME NEW w \in WorkObjects, NEW t \in Tasks, NEW outcome \in {"done", "failed"},
         NEW denial \in BOOLEAN
  PROVE  Record(w, t, outcome, denial) \in WorkObjects
<1> DEFINE running  == IF w.status[t] \in {"proposed", "actionable"}
                       THEN SetStatus(w, t, "dispatched") ELSE w
           recorded == SetStatus(running, t, outcome)
<1>1. running \in WorkObjects
  BY SetStatusIsTyped DEF Statuses, Nodes
<1>2. recorded \in WorkObjects
  BY <1>1, SetStatusIsTyped DEF Statuses, Nodes
<1> HIDE DEF running
<1>3. [recorded EXCEPT !.result = [@ EXCEPT ![t] = recorded.epoch[t]],
                       !.denied = [@ EXCEPT ![t] = denial]] \in WorkObjects
  <2> HIDE DEF recorded
  <2> QED
    BY <1>2 DEF WorkObjects, Epochs
<1> QED
  BY <1>3 DEF Record, running

\* The judgment's own stamp.
LEMMA JudgedIsTyped ==
  ASSUME NEW w \in WorkObjects, NEW t \in Tasks, NEW asks \in BOOLEAN
  PROVE  Judged(w, t, asks) \in WorkObjects
  BY DEF Judged, WorkObjects, Epochs

\* An unmet attempt counts up to the failure limit and no further.
LEMMA FinalizeUnmetIsTyped ==
  ASSUME NEW w \in WorkObjects, NEW t \in Tasks, NEW verdict, NEW next
  PROVE  FinalizeUnmet(w, t, verdict, next) \in WorkObjects
<1> DEFINE unmet     == IF w.unmet = FailureLimit THEN FailureLimit ELSE w.unmet + 1
           escalated == unmet = FailureLimit /\ next # "stop"
           target    == IF verdict = "retry" /\ ~escalated THEN "proposed" ELSE "failed"
           failing   == SetStatus(w, t, "failed")
           failed    == [failing EXCEPT !.unmet = unmet]
<1>1. unmet \in 0 .. FailureLimit
  <2>1. w.unmet \in 0 .. FailureLimit /\ FailureLimit \in Nat
    BY FailureLimitType DEF WorkObjects
  <2> QED
    BY <2>1
<1>2. failing \in WorkObjects
  BY SetStatusIsTyped DEF Statuses, Nodes
<1>3. failed \in WorkObjects
  <2> HIDE DEF failing, unmet
  <2> QED
    BY <1>1, <1>2 DEF WorkObjects
<1>4. target \in Statuses
  BY DEF Statuses
<1> HIDE DEF failed, target
<1>5. SetStatus(failed, t, target) \in WorkObjects
  BY <1>3, <1>4, SetStatusIsTyped DEF Nodes
<1>6. Judged(SetStatus(failed, t, target), t, TRUE) \in WorkObjects
  BY <1>5, JudgedIsTyped
<1> QED
  BY <1>6 DEF FinalizeUnmet, failed, target

\* An achieved verdict closes, or lets a watch wait again.
LEMMA FinalizeMetIsTyped ==
  ASSUME NEW w \in WorkObjects, NEW t \in Tasks, NEW verdict
  PROVE  FinalizeMet(w, t, verdict) \in WorkObjects
<1> DEFINE met     == [w EXCEPT !.unmet = 0, !.status = [@ EXCEPT ![t] = "done"]]
           waiting == [met EXCEPT !.status = [@ EXCEPT ![t] = "waiting"],
                                  !.wake   = [@ EXCEPT ![t] = "event"],
                                  !.held   = [@ EXCEPT ![t] = FALSE]]
<1>1. met \in WorkObjects
  <2>1. 0 \in 0 .. FailureLimit
    BY FailureLimitType
  <2>2. t \in Nodes /\ "done" \in Statuses
    BY DEF Nodes, Statuses
  <2> QED
    BY <2>1, <2>2 DEF WorkObjects
<1>2. waiting \in WorkObjects
  <2> HIDE DEF met
  <2> QED
    BY <1>1 DEF WorkObjects, Statuses, WakeKinds, Nodes
<1>3. SetStatus(met, t, "closed") \in WorkObjects
  <2> HIDE DEF met
  <2> QED
    BY <1>1, SetStatusIsTyped DEF Statuses, Nodes
<1>4. Judged(waiting, t, FALSE) \in WorkObjects
  <2> HIDE DEF waiting
  <2> QED
    BY <1>2, JudgedIsTyped
<1>5. Judged(SetStatus(met, t, "closed"), t, verdict = "achieved_plan_changes") \in WorkObjects
  <2> HIDE DEF met
  <2> QED
    BY <1>3, JudgedIsTyped
<1> QED
  BY <1>4, <1>5 DEF FinalizeMet

\* finalize_task, whatever the verdict and the next step.
LEMMA FinalizeIsTyped ==
  ASSUME NEW w \in WorkObjects, NEW t \in Tasks, NEW verdict, NEW next
  PROVE  Finalize(w, t, verdict, next) \in WorkObjects
  BY FinalizeUnmetIsTyped, FinalizeMetIsTyped DEF Finalize

-----------------------------------------------------------------------------
(* The architect's operators.                                                *)

\* Each operation of an architect revision keeps the type.
LEMMA ArchitectIsTyped ==
  ASSUME NEW w \in WorkObjects
  PROVE  /\ \A P : Prune(w, P) \in WorkObjects
         /\ \A A : AddTasks(w, A) \in WorkObjects
         /\ \A s, d \in Tasks : Link(w, s, d) \in WorkObjects
         /\ \A kept : Redirect(w, kept) \in WorkObjects
         /\ \A t \in Tasks, g \in Gates : Gate(w, t, g) \in WorkObjects
         /\ Consume(w) \in WorkObjects
<1>1. ASSUME NEW P PROVE Prune(w, P) \in WorkObjects
  BY DEF Prune, WorkObjects, Statuses
<1>2. ASSUME NEW A PROVE AddTasks(w, A) \in WorkObjects
  BY DEF AddTasks, WorkObjects, Statuses
<1>3. ASSUME NEW s \in Tasks, NEW d \in Tasks PROVE Link(w, s, d) \in WorkObjects
  BY DEF Link, WorkObjects
<1>4. ASSUME NEW t \in Tasks, NEW g \in Gates PROVE Gate(w, t, g) \in WorkObjects
  <2>1. Defer(w, t, "time", TRUE) \in WorkObjects /\ Defer(w, t, "event", FALSE) \in WorkObjects
    BY DeferIsTyped DEF WakeKinds
  <2>2. OpenWatch(Defer(w, t, "event", FALSE), t) \in WorkObjects
    <3> DEFINE deferred == Defer(w, t, "event", FALSE)
    <3>1. deferred \in WorkObjects
      BY <2>1
    <3> HIDE DEF deferred
    <3>2. OpenWatch(deferred, t) \in WorkObjects
      BY <3>1 DEF OpenWatch, WorkObjects
    <3> QED
      BY <3>2 DEF deferred
  <2> QED
    BY <2>1, <2>2, GatesType DEF Gate
<1>5. Consume(w) \in WorkObjects
  BY DEF Consume, WorkObjects
<1>6. ASSUME NEW kept PROVE Redirect(w, kept) \in WorkObjects
  BY DEF Redirect, WorkObjects
<1> QED
  BY <1>1, <1>2, <1>3, <1>4, <1>5, <1>6

-----------------------------------------------------------------------------
(* Type correctness.                                                         *)

\* A write keeps the types; the mover's snapshot is untouched.
LEMMA WriteIsTyped ==
  ASSUME WorkTyped, NEW w \in WorkObjects, Write(w)
  PROVE  WorkTyped'
  BY RollupIsTyped DEF Write, Commit, MoverIdle, WorkTyped

\* A write of the orchestrator's own pass keeps the types.
LEMMA InPassIsTyped ==
  ASSUME WorkTyped, NEW w \in WorkObjects, InPass(w)
  PROVE  WorkTyped'
  BY WriteIsTyped DEF InPass

\* Every revision of the architect keeps the types.
LEMMA ArchitectKeepsTypes == ASSUME WorkTyped, Architect PROVE WorkTyped'
<1> USE DEF WorkTyped
<1>1. ASSUME NEW A \in SUBSET Tasks, ArchitectDecompose(A) PROVE WorkTyped'
  BY <1>1, ArchitectIsTyped, InPassIsTyped DEF ArchitectDecompose
<1>2. ASSUME NEW A \in SUBSET Tasks, NEW t \in A, NEW g \in Gates, ArchitectDecomposeGated(A, t, g)
      PROVE  WorkTyped'
  <2>1. AddTasks(wo, A) \in WorkObjects
    BY ArchitectIsTyped
  <2>2. Gate(AddTasks(wo, A), t, g) \in WorkObjects
    BY <2>1, ArchitectIsTyped
  <2> QED
    BY <1>2, <2>2, InPassIsTyped DEF ArchitectDecomposeGated
<1>3. ASSUME NEW A \in SUBSET Tasks, NEW s \in A, NEW d \in A, ArchitectDecomposeLinked(A, s, d)
      PROVE  WorkTyped'
  <2>1. AddTasks(wo, A) \in WorkObjects
    BY ArchitectIsTyped
  <2>2. Link(AddTasks(wo, A), s, d) \in WorkObjects
    BY <2>1, ArchitectIsTyped
  <2> QED
    BY <1>3, <2>2, InPassIsTyped DEF ArchitectDecomposeLinked
<1>4. ASSUME NEW A \in SUBSET Tasks, NEW P \in SUBSET Tasks, ArchitectReplan(P, A) PROVE WorkTyped'
  <2>1. Prune(wo, P) \in WorkObjects
    BY ArchitectIsTyped
  <2>2. AddTasks(Prune(wo, P), A) \in WorkObjects
    BY <2>1, ArchitectIsTyped
  <2>3. Consume(AddTasks(Prune(wo, P), A)) \in WorkObjects
    BY <2>2, ArchitectIsTyped
  <2> QED
    BY <1>4, <2>3, InPassIsTyped DEF ArchitectReplan
<1>5. ASSUME NEW t \in Tasks, NEW g \in Gates, ArchitectRegate(t, g) PROVE WorkTyped'
  <2>1. Gate(wo, t, g) \in WorkObjects
    BY ArchitectIsTyped
  <2>2. Consume(Gate(wo, t, g)) \in WorkObjects
    BY <2>1, ArchitectIsTyped
  <2> QED
    BY <1>5, <2>2, InPassIsTyped DEF ArchitectRegate
<1>6. ASSUME NEW s \in Tasks, NEW d \in Tasks, ArchitectRelink(s, d) PROVE WorkTyped'
  <2>1. Link(wo, s, d) \in WorkObjects
    BY ArchitectIsTyped
  <2>2. Consume(Link(wo, s, d)) \in WorkObjects
    BY <2>1, ArchitectIsTyped
  <2> QED
    BY <1>6, <2>2, InPassIsTyped DEF ArchitectRelink
<1>7. ASSUME NEW target \in EndedWork, ArchitectEnd(target) PROVE WorkTyped'
  <2>1. (IF Planned(wo) = {} THEN wo ELSE Consume(wo)) \in WorkObjects
    BY ArchitectIsTyped
  <2>2. EndWork(IF Planned(wo) = {} THEN wo ELSE Consume(wo), target) \in WorkObjects
    BY <2>1, EndWorkIsTyped
  <2> QED
    BY <1>7, <2>2, InPassIsTyped DEF ArchitectEnd
<1>8. ASSUME NEW D \in SUBSET Tasks, NEW kept \in [D -> Tasks], ArchitectMerge(kept) PROVE WorkTyped'
  <2>1. Prune(wo, DOMAIN kept) \in WorkObjects
    BY ArchitectIsTyped
  <2>2. Redirect(Prune(wo, DOMAIN kept), kept) \in WorkObjects
    BY <2>1, ArchitectIsTyped
  <2>3. Consume(Redirect(Prune(wo, DOMAIN kept), kept)) \in WorkObjects
    BY <2>2, ArchitectIsTyped
  <2> QED
    BY <1>8, <2>3, InPassIsTyped DEF ArchitectMerge
<1> QED
  BY <1>1, <1>2, <1>3, <1>4, <1>5, <1>6, <1>7, <1>8 DEF Architect

\* A committed result of the mover's own steps.
LEMMA CommitIsTyped ==
  ASSUME NEW w \in WorkObjects, Commit(w)
  PROVE  wo' \in WorkObjects
  BY RollupIsTyped DEF Commit

\* Every step of the state mover keeps the types, its snapshot's too.
LEMMA StateMoverKeepsTypes == ASSUME WorkTyped, StateMover PROVE WorkTyped'
<1> USE DEF WorkTyped
<1>1. CASE MoverLook
  BY <1>1 DEF MoverLook
<1>2. CASE MoverEnds
  BY <1>2 DEF MoverEnds
<1>3. ASSUME NEW t \in Tasks, MoverPromote(t) PROVE WorkTyped'
  <2>1. SetStatus(wo, t, "actionable") \in WorkObjects
    BY SetStatusIsTyped DEF Statuses, Nodes
  <2> QED
    BY <1>3, <2>1, CommitIsTyped DEF MoverPromote
<1>4. ASSUME NEW t \in Tasks, MoverRefused(t) PROVE WorkTyped'
  BY <1>4 DEF MoverRefused
<1>5. ASSUME NEW t \in Tasks, MoverHold(t) PROVE WorkTyped'
  <2>1. SetStatus(wo, t, "waiting") \in WorkObjects
    BY SetStatusIsTyped DEF Statuses, Nodes
  <2> QED
    BY <1>5, <2>1, CommitIsTyped DEF MoverHold
<1>6. ASSUME NEW t \in Tasks, MoverPark(t) PROVE WorkTyped'
  <2>1. Defer(wo, t, IF wo.wake[t] = "user_reply" THEN "user_reply" ELSE "time", TRUE) \in WorkObjects
    BY DeferIsTyped DEF WakeKinds
  <2> QED
    BY <1>6, <2>1, CommitIsTyped DEF MoverPark
<1>7. ASSUME NEW t \in Tasks, MoverWake(t) PROVE WorkTyped'
  <2>1. Defer(wo, t, "none", FALSE) \in WorkObjects
    BY DeferIsTyped DEF WakeKinds
  <2> QED
    BY <1>7, <2>1, InPassIsTyped DEF MoverWake
<1> QED
  BY <1>1, <1>2, <1>3, <1>4, <1>5, <1>6, <1>7 DEF StateMover

\* Claims, results, sweeps and judgments keep the types.
LEMMA DispatchKeepsTypes == ASSUME WorkTyped, Dispatch PROVE WorkTyped'
<1> USE DEF WorkTyped
<1>1. ASSUME NEW t \in Tasks, Claim(t) PROVE WorkTyped'
  <2>1. SetStatus(wo, t, "dispatched") \in WorkObjects
    BY SetStatusIsTyped DEF Statuses, Nodes
  <2> QED
    BY <1>1, <2>1, InPassIsTyped DEF Claim
<1>2. ASSUME NEW t \in Tasks PROVE SetStatus(wo, t, "failed") \in WorkObjects
  BY SetStatusIsTyped DEF Statuses, Nodes
<1>3. ASSUME NEW t \in Tasks, GateReject(t) PROVE WorkTyped'
  BY <1>2, <1>3, InPassIsTyped DEF GateReject
<1>4. ASSUME NEW t \in Tasks, SweepStuck(t) PROVE WorkTyped'
  BY <1>4, RecordIsTyped, InPassIsTyped DEF SweepStuck
<1>5. ASSUME NEW t \in Tasks, WatchEnds(t) PROVE WorkTyped'
  BY <1>5, EndWatchIsTyped, InPassIsTyped DEF WatchEnds
<1>6. ASSUME NEW t \in Tasks, NEW e \in 0 .. MaxEpoch, GateFail(t, e) PROVE WorkTyped'
  BY <1>2, <1>6, InPassIsTyped DEF GateFail
<1>7. ASSUME NEW t \in Tasks, NEW e \in 0 .. MaxEpoch, BindTicket(t, e) PROVE WorkTyped'
  <2>1. Defer(wo, t, "user_reply", FALSE) \in WorkObjects
    BY DeferIsTyped DEF WakeKinds
  <2> QED
    BY <1>7, <2>1, WriteIsTyped DEF BindTicket
<1>8. ASSUME NEW t \in Tasks, NEW e \in 0 .. MaxEpoch, NEW outcome \in {"done", "failed"},
             NEW denial \in BOOLEAN, RecordResult(t, e, outcome, denial)
      PROVE  WorkTyped'
  BY <1>8, RecordIsTyped, WriteIsTyped DEF RecordResult
<1>9. ASSUME NEW t \in Tasks, NEW e \in 0 .. MaxEpoch, NEW verdict \in Verdicts, NEW next \in NextSteps,
             Judge(t, e, verdict, next)
      PROVE  WorkTyped'
  BY <1>9, FinalizeIsTyped, WriteIsTyped DEF Judge
<1> QED
  BY <1>1, <1>3, <1>4, <1>5, <1>6, <1>7, <1>8, <1>9 DEF Dispatch

\* Workers, the brain, the owner and the clock keep the types.
LEMMA OthersKeepTypes == ASSUME WorkTyped, Others PROVE WorkTyped'
<1> USE DEF WorkTyped
<1>1. CASE BrainReplan
  <2>1. [wo EXCEPT !.asked = TRUE] \in WorkObjects
    BY DEF WorkObjects
  <2> QED
    BY <1>1, <2>1, InPassIsTyped DEF BrainReplan
<1>2. CASE Abandon
  <2>1. EndWork(wo, "abandoned") \in WorkObjects
    BY EndWorkIsTyped DEF EndedWork
  <2> QED
    BY <1>2, <2>1, WriteIsTyped DEF Abandon
<1>3. ASSUME NEW h \in Helpers, AddHelper(h) PROVE WorkTyped'
  <2>1. [wo EXCEPT !.status = [@ EXCEPT ![h] = "proposed"]] \in WorkObjects
    BY DEF WorkObjects, Statuses, Nodes
  <2> QED
    BY <1>3, <2>1, WriteIsTyped DEF AddHelper
<1>4. ASSUME NEW h \in Helpers, NEW s \in Statuses, MoveHelper(h, s) PROVE WorkTyped'
  <2>1. SetStatus(wo, h, s) \in WorkObjects
    BY SetStatusIsTyped DEF Nodes
  <2> QED
    BY <1>4, <2>1, WriteIsTyped DEF MoveHelper
<1>5. ASSUME NEW n \in Nodes, NEW s \in OwnerTargets, OwnerSetStatus(n, s) PROVE WorkTyped'
  <2>1. SetStatus(wo, n, s) \in WorkObjects
    BY SetStatusIsTyped, OwnerTargetsType
  <2> QED
    BY <1>5, <2>1, WriteIsTyped DEF OwnerSetStatus
<1>6. ASSUME NEW t \in Tasks, OwnerAddTask(t) PROVE WorkTyped'
  <2>1. AddTask(wo, t) \in WorkObjects
    BY DEF AddTask, WorkObjects, Statuses, Nodes
  <2> QED
    BY <1>6, <2>1, WriteIsTyped DEF OwnerAddTask
<1>7. ASSUME NEW t \in Tasks, TimePasses(t) \/ WatchExpires(t) PROVE WorkTyped'
  <2>1. /\ [wo EXCEPT !.held = [@ EXCEPT ![t] = FALSE]] \in WorkObjects
        /\ [wo EXCEPT !.watch = [@ EXCEPT ![t] = "over"]] \in WorkObjects
    BY DEF WorkObjects
  <2> QED
    BY <1>7, <2>1 DEF TimePasses, WatchExpires, MoverIdle
<1> QED
  BY <1>1, <1>2, <1>3, <1>4, <1>5, <1>6, <1>7 DEF Others

\* One step keeps the types.
LEMMA TypeStep == ASSUME WorkTyped, Next PROVE WorkTyped'
  BY ArchitectKeepsTypes, StateMoverKeepsTypes, DispatchKeepsTypes, OthersKeepTypes DEF Next

\* Every reachable state of the work graph is well typed, whatever its instance.
LEMMA TypesHold == Spec => []WorkTyped
<1>1. Init => WorkTyped
  BY NewIsTyped DEF Init, WorkTyped
<1>2. WorkTyped /\ [Next]_vars => WorkTyped'
  <2> SUFFICES ASSUME WorkTyped, [Next]_vars PROVE WorkTyped'
    OBVIOUS
  <2>1. CASE UNCHANGED vars
    BY <2>1 DEF vars, WorkTyped
  <2> QED
    BY <2>1, TypeStep
<1> QED
  BY <1>1, <1>2, PTL DEF Spec

-----------------------------------------------------------------------------
(* Ended work stays ended.                                                   *)

\* What validate() admits is what every commit leaves behind; the clock changes no status.
THEOREM EndedWorkIsInert == Spec => []TerminalInert
<1>1. Init => TerminalInert
  BY DEF Init, NewWorkObject, TerminalInert, Valid, Ended, EndedWork
<1>2. WorkTyped /\ TerminalInert /\ [Next]_vars => TerminalInert'
  <2> SUFFICES ASSUME WorkTyped, TerminalInert, [Next]_vars PROVE TerminalInert'
    OBVIOUS
  <2> USE DEF TerminalInert
  <2>1. ASSUME NEW w, Commit(w) PROVE TerminalInert'
    BY <2>1 DEF Commit
  <2>2. ASSUME UNCHANGED wo PROVE TerminalInert'
    BY <2>2
  <2>3. CASE Architect
    BY <2>1, <2>3 DEF Architect, ArchitectDecompose, ArchitectDecomposeGated, ArchitectDecomposeLinked,
       ArchitectReplan, ArchitectRegate, ArchitectRelink, ArchitectMerge, ArchitectEnd, InPass, Write
  <2>4. CASE StateMover
    BY <2>1, <2>2, <2>4 DEF StateMover, MoverLook, MoverEnds, MoverPromote, MoverRefused, MoverHold,
       MoverPark, MoverWake, InPass, Write
  <2>5. CASE Dispatch
    BY <2>1, <2>5 DEF Dispatch, Claim, GateReject, SweepStuck, WatchEnds, GateFail, BindTicket,
       RecordResult, Judge, InPass, Write
  <2>6. CASE \E t \in Tasks : TimePasses(t) \/ WatchExpires(t)
    <3>1. wo'.work = wo.work /\ wo'.goal = wo.goal /\ wo'.status = wo.status
      BY <2>6 DEF TimePasses, WatchExpires, WorkTyped, WorkObjects
    <3> QED
      BY <3>1 DEF Valid, Ended
  <2>7. CASE Others
    BY <2>1, <2>6, <2>7 DEF Others, BrainReplan, Abandon, AddHelper, MoveHelper, OwnerSetStatus,
       OwnerAddTask, InPass, Write
  <2>8. CASE UNCHANGED vars
    BY <2>2, <2>8 DEF vars
  <2> QED
    BY <2>3, <2>4, <2>5, <2>7, <2>8 DEF Next
<1> QED
  BY <1>1, <1>2, TypesHold, PTL DEF Spec

-----------------------------------------------------------------------------
(* One judgment per dispatch.                                                *)

\* v comes after w with no judgment in between: dispatches may have been added.
Unjudged(w, v) == /\ v.judged = w.judged /\ v.unmet = w.unmet
                  /\ \A t \in Tasks : v.epoch[t] >= w.epoch[t]

\* Two unjudged changes in a row are one.
LEMMA UnjudgedChains ==
  ASSUME NEW u \in WorkObjects, NEW v \in WorkObjects, NEW w \in WorkObjects,
         Unjudged(u, v), Unjudged(v, w)
  PROVE  Unjudged(u, w)
  BY DEF Unjudged, WorkObjects

\* A change of neither judgments nor epochs is unjudged.
LEMMA SameEpochs ==
  ASSUME NEW w \in WorkObjects, NEW v, v.judged = w.judged, v.unmet = w.unmet, v.epoch = w.epoch
  PROVE  Unjudged(w, v)
<1>1. \A t \in Tasks : w.epoch[t] \in Nat
  BY DEF WorkObjects
<1> QED
  BY <1>1 DEF Unjudged

\* A cascade touches statuses and wakes alone.
LEMMA CascadeUnjudged ==
  ASSUME NEW w \in WorkObjects, NEW S
  PROVE  LET v == CascadeAbandon(w, S)
         IN  /\ v.judged = w.judged /\ v.unmet = w.unmet /\ v.epoch = w.epoch
             /\ v.work = w.work /\ v.result = w.result
  BY DEF CascadeAbandon, WorkObjects

\* set_status bumps the epoch of a task that starts, and of nothing else.
LEMMA SetStatusFields ==
  ASSUME NEW w \in WorkObjects, NEW n \in Nodes, NEW s \in Statuses
  PROVE  LET v == SetStatus(w, n, s)
         IN  /\ v.judged = w.judged /\ v.unmet = w.unmet /\ v.result = w.result
             /\ s # "dispatched" => v.epoch = w.epoch
             /\ \A t \in Tasks : v.epoch[t] \in {w.epoch[t], w.epoch[t] + 1}
<1> DEFINE bumped == [t \in Tasks |-> IF t = n /\ s = "dispatched" /\ w.status[n] # "dispatched"
                                      THEN w.epoch[t] + 1 ELSE w.epoch[t]]
           moved  == [w EXCEPT !.status = [@ EXCEPT ![n] = s], !.epoch = bumped]
<1>1. bumped \in [Tasks -> Nat]
  BY DEF WorkObjects
<1>2. s # "dispatched" => bumped = w.epoch
  BY DEF WorkObjects
<1>3. \A t \in Tasks : bumped[t] \in {w.epoch[t], w.epoch[t] + 1}
  BY DEF WorkObjects
<1> HIDE DEF bumped
<1>4. moved \in WorkObjects /\ moved.epoch = bumped /\ moved.judged = w.judged
      /\ moved.unmet = w.unmet /\ moved.result = w.result
  BY <1>1 DEF WorkObjects
<1>5. SetStatus(w, n, s) \in {moved, CascadeAbandon(moved, Descendants(n))}
  BY DEF SetStatus, bumped
<1> HIDE DEF moved
<1> QED
  BY <1>2, <1>3, <1>4, <1>5, CascadeUnjudged

\* set_status judges nothing.
LEMMA SetStatusUnjudged ==
  ASSUME NEW w \in WorkObjects, NEW n \in Nodes, NEW s \in Statuses
  PROVE  Unjudged(w, SetStatus(w, n, s))
<1>1. \A t \in Tasks : w.epoch[t] \in Nat
  BY DEF WorkObjects
<1> QED
  BY <1>1, SetStatusFields DEF Unjudged

\* Rollup touches neither judgments nor epochs.
LEMMA RollupFields ==
  ASSUME NEW w \in WorkObjects
  PROVE  Rollup(w).judged = w.judged /\ Rollup(w).unmet = w.unmet /\ Rollup(w).epoch = w.epoch
<1> DEFINE completed == [w EXCEPT !.work = "done", !.goal = "done"]
<1>1. completed \in WorkObjects /\ completed.judged = w.judged /\ completed.unmet = w.unmet
      /\ completed.epoch = w.epoch
  BY DEF WorkObjects
<1>2. Rollup(w) \in {w, CascadeAbandon(completed, Nodes)}
  BY DEF Rollup
<1> HIDE DEF completed
<1> QED
  BY <1>1, <1>2, CascadeUnjudged

\* Ending the work judges nothing.
LEMMA EndWorkUnjudged ==
  ASSUME NEW w \in WorkObjects, NEW target \in EndedWork
  PROVE  Unjudged(w, EndWork(w, target))
<1> DEFINE ended == [w EXCEPT !.work = target, !.ended = TRUE,
                              !.goal = IF w.goal \in EndedWork THEN w.goal ELSE target]
<1>1. ended \in WorkObjects /\ ended.judged = w.judged /\ ended.unmet = w.unmet /\ ended.epoch = w.epoch
  BY DEF WorkObjects, EndedWork
<1>2. EndWork(w, target) = CascadeAbandon(ended, Nodes)
  BY DEF EndWork
<1> HIDE DEF ended
<1> QED
  BY <1>1, <1>2, CascadeUnjudged, SameEpochs

\* A result judges nothing, even when it dispatches its task first.
LEMMA RecordUnjudged ==
  ASSUME NEW w \in WorkObjects, NEW t \in Tasks, NEW outcome \in {"done", "failed"},
         NEW denial \in BOOLEAN
  PROVE  Unjudged(w, Record(w, t, outcome, denial))
<1> DEFINE running  == IF w.status[t] \in {"proposed", "actionable"}
                       THEN SetStatus(w, t, "dispatched") ELSE w
           recorded == SetStatus(running, t, outcome)
           stamped  == [recorded EXCEPT !.result = [@ EXCEPT ![t] = recorded.epoch[t]],
                                        !.denied = [@ EXCEPT ![t] = denial]]
<1>1. running \in WorkObjects /\ Unjudged(w, running)
  BY SetStatusIsTyped, SetStatusUnjudged, SameEpochs DEF Statuses, Nodes
<1> HIDE DEF running
<1>2. recorded \in WorkObjects /\ Unjudged(running, recorded)
  BY <1>1, SetStatusIsTyped, SetStatusUnjudged DEF Statuses, Nodes
<1> HIDE DEF recorded
<1>3. stamped.judged = recorded.judged /\ stamped.unmet = recorded.unmet /\ stamped.epoch = recorded.epoch
  BY <1>2 DEF WorkObjects
<1>4. Unjudged(w, recorded)
  BY <1>1, <1>2, UnjudgedChains
<1>5. Unjudged(w, stamped)
  BY <1>3, <1>4 DEF Unjudged
<1> QED
  BY <1>5 DEF Record, recorded, running

\* A watch that ran out closes without a judgment.
LEMMA EndWatchUnjudged ==
  ASSUME NEW w \in WorkObjects, NEW t \in Tasks
  PROVE  Unjudged(w, EndWatch(w, t))
<1> DEFINE done == [w EXCEPT !.status = [@ EXCEPT ![t] = "done"],
                             !.wake   = [@ EXCEPT ![t] = "none"],
                             !.held   = [@ EXCEPT ![t] = FALSE]]
<1>1. done \in WorkObjects /\ Unjudged(w, done)
  <2>1. done \in WorkObjects
    BY DEF WorkObjects, Statuses, WakeKinds, Nodes
  <2>2. done.judged = w.judged /\ done.unmet = w.unmet /\ done.epoch = w.epoch
    BY DEF WorkObjects
  <2> QED
    BY <2>1, <2>2, SameEpochs
<1> HIDE DEF done
<1>2. SetStatus(done, t, "closed") \in WorkObjects /\ Unjudged(done, SetStatus(done, t, "closed"))
  BY <1>1, SetStatusIsTyped, SetStatusUnjudged DEF Statuses, Nodes
<1>3. Unjudged(w, SetStatus(done, t, "closed"))
  BY <1>1, <1>2, UnjudgedChains
<1> QED
  BY <1>3 DEF EndWatch, done

\* Gates, plans and consumed instructions leave judgments and epochs as they are.
LEMMA PlansUnjudged ==
  ASSUME NEW w \in WorkObjects
  PROVE  /\ \A P : Unjudged(w, Prune(w, P))
         /\ \A A : Unjudged(w, AddTasks(w, A))
         /\ \A s, d \in Tasks : Unjudged(w, Link(w, s, d))
         /\ \A kept : Unjudged(w, Redirect(w, kept))
         /\ \A t \in Tasks : \A kind, future : Unjudged(w, Defer(w, t, kind, future))
         /\ \A t \in Tasks, g \in Gates : Unjudged(w, Gate(w, t, g))
         /\ Unjudged(w, Consume(w))
<1>1. ASSUME NEW P PROVE Unjudged(w, Prune(w, P))
  BY SameEpochs DEF Prune, WorkObjects
<1>2. ASSUME NEW A PROVE Unjudged(w, AddTasks(w, A))
  BY SameEpochs DEF AddTasks, WorkObjects
<1>3. ASSUME NEW s \in Tasks, NEW d \in Tasks PROVE Unjudged(w, Link(w, s, d))
  BY SameEpochs DEF Link, WorkObjects
<1>4. ASSUME NEW t \in Tasks, NEW kind, NEW future PROVE Unjudged(w, Defer(w, t, kind, future))
  <2>1. /\ Defer(w, t, kind, future).judged = w.judged
        /\ Defer(w, t, kind, future).unmet = w.unmet
        /\ Defer(w, t, kind, future).epoch = w.epoch
    BY DEF Defer, WorkObjects
  <2> QED
    BY <2>1, SameEpochs
<1>5. ASSUME NEW t \in Tasks, NEW g \in Gates PROVE Unjudged(w, Gate(w, t, g))
  <2>1. OpenWatch(Defer(w, t, "event", FALSE), t).judged = w.judged
        /\ OpenWatch(Defer(w, t, "event", FALSE), t).unmet = w.unmet
        /\ OpenWatch(Defer(w, t, "event", FALSE), t).epoch = w.epoch
    BY DEF OpenWatch, Defer, WorkObjects
  <2>2. CASE g = "watch"
    BY <2>1, <2>2, SameEpochs DEF Gate
  <2>3. CASE g = "time"
    BY <1>4, <2>3 DEF Gate
  <2>4. CASE g = "event"
    BY <1>4, <2>4 DEF Gate
  <2> QED
    BY <2>2, <2>3, <2>4, GatesType
<1>6. Unjudged(w, Consume(w))
  <2>1. /\ Consume(w).judged = w.judged /\ Consume(w).unmet = w.unmet
        /\ Consume(w).epoch = w.epoch
    BY DEF Consume, WorkObjects
  <2> QED
    BY <2>1, SameEpochs
<1>7. ASSUME NEW kept PROVE Unjudged(w, Redirect(w, kept))
  BY SameEpochs DEF Redirect, WorkObjects
<1> QED
  BY <1>1, <1>2, <1>3, <1>4, <1>5, <1>6, <1>7

\* A commit of an unjudged successor: the rollup changes neither judgments nor epochs.
LEMMA CommitUnjudged ==
  ASSUME wo \in WorkObjects, NEW w \in WorkObjects, Unjudged(wo, w), Commit(w)
  PROVE  Unjudged(wo, wo')
<1>1. Rollup(w) \in WorkObjects /\ Unjudged(w, Rollup(w))
  BY RollupIsTyped, RollupFields, SameEpochs
<1> QED
  BY <1>1, UnjudgedChains DEF Commit

\* No revision of the architect judges.
LEMMA ArchitectUnjudged == ASSUME WorkTyped, Architect PROVE Unjudged(wo, wo')
<1> USE DEF WorkTyped, InPass, Write
<1>1. ASSUME NEW A \in SUBSET Tasks, ArchitectDecompose(A) PROVE Unjudged(wo, wo')
  BY <1>1, ArchitectIsTyped, PlansUnjudged, CommitUnjudged DEF ArchitectDecompose
<1>2. ASSUME NEW A \in SUBSET Tasks PROVE AddTasks(wo, A) \in WorkObjects /\ Unjudged(wo, AddTasks(wo, A))
  BY ArchitectIsTyped, PlansUnjudged
<1>3. ASSUME NEW A \in SUBSET Tasks, NEW t \in A, NEW g \in Gates, ArchitectDecomposeGated(A, t, g)
      PROVE  Unjudged(wo, wo')
  <2>1. Gate(AddTasks(wo, A), t, g) \in WorkObjects /\ Unjudged(AddTasks(wo, A), Gate(AddTasks(wo, A), t, g))
    BY <1>2, ArchitectIsTyped, PlansUnjudged
  <2>2. Unjudged(wo, Gate(AddTasks(wo, A), t, g))
    BY <1>2, <2>1, UnjudgedChains
  <2> QED
    BY <1>3, <2>1, <2>2, CommitUnjudged DEF ArchitectDecomposeGated
<1>4. ASSUME NEW A \in SUBSET Tasks, NEW s \in A, NEW d \in A, ArchitectDecomposeLinked(A, s, d)
      PROVE  Unjudged(wo, wo')
  <2>1. Link(AddTasks(wo, A), s, d) \in WorkObjects /\ Unjudged(AddTasks(wo, A), Link(AddTasks(wo, A), s, d))
    BY <1>2, ArchitectIsTyped, PlansUnjudged
  <2>2. Unjudged(wo, Link(AddTasks(wo, A), s, d))
    BY <1>2, <2>1, UnjudgedChains
  <2> QED
    BY <1>4, <2>1, <2>2, CommitUnjudged DEF ArchitectDecomposeLinked
<1>5. ASSUME NEW w \in WorkObjects, Unjudged(wo, w), Commit(Consume(w)) PROVE Unjudged(wo, wo')
  <2>1. Consume(w) \in WorkObjects /\ Unjudged(w, Consume(w))
    BY <1>5, ArchitectIsTyped, PlansUnjudged
  <2>2. Unjudged(wo, Consume(w))
    BY <1>5, <2>1, UnjudgedChains
  <2> QED
    BY <1>5, <2>1, <2>2, CommitUnjudged
<1>6. ASSUME NEW A \in SUBSET Tasks, NEW P \in SUBSET Tasks, ArchitectReplan(P, A)
      PROVE  Unjudged(wo, wo')
  <2>1. Prune(wo, P) \in WorkObjects /\ Unjudged(wo, Prune(wo, P))
    BY ArchitectIsTyped, PlansUnjudged
  <2>2. AddTasks(Prune(wo, P), A) \in WorkObjects /\ Unjudged(Prune(wo, P), AddTasks(Prune(wo, P), A))
    BY <2>1, ArchitectIsTyped, PlansUnjudged
  <2>3. Unjudged(wo, AddTasks(Prune(wo, P), A))
    BY <2>1, <2>2, UnjudgedChains
  <2> QED
    BY <1>5, <1>6, <2>2, <2>3 DEF ArchitectReplan
<1>7. ASSUME NEW t \in Tasks, NEW g \in Gates, ArchitectRegate(t, g) PROVE Unjudged(wo, wo')
  BY <1>5, <1>7, ArchitectIsTyped, PlansUnjudged DEF ArchitectRegate
<1>8. ASSUME NEW s \in Tasks, NEW d \in Tasks, ArchitectRelink(s, d) PROVE Unjudged(wo, wo')
  BY <1>5, <1>8, ArchitectIsTyped, PlansUnjudged DEF ArchitectRelink
<1>9. ASSUME NEW target \in EndedWork, ArchitectEnd(target) PROVE Unjudged(wo, wo')
  <2> DEFINE before == IF Planned(wo) = {} THEN wo ELSE Consume(wo)
  <2>1. before \in WorkObjects /\ Unjudged(wo, before)
    BY ArchitectIsTyped, PlansUnjudged, SameEpochs
  <2>2. Commit(EndWork(before, target))
    BY <1>9 DEF ArchitectEnd
  <2> HIDE DEF before
  <2>3. EndWork(before, target) \in WorkObjects /\ Unjudged(before, EndWork(before, target))
    BY <2>1, EndWorkIsTyped, EndWorkUnjudged
  <2>4. Unjudged(wo, EndWork(before, target))
    BY <2>1, <2>3, UnjudgedChains
  <2> QED
    BY <2>2, <2>3, <2>4, CommitUnjudged
<1>10. ASSUME NEW D \in SUBSET Tasks, NEW kept \in [D -> Tasks], ArchitectMerge(kept)
       PROVE  Unjudged(wo, wo')
  <2> DEFINE pruned == Prune(wo, DOMAIN kept)
  <2>1. pruned \in WorkObjects /\ Unjudged(wo, pruned)
    BY ArchitectIsTyped, PlansUnjudged
  <2>2. Commit(Consume(Redirect(pruned, kept)))
    BY <1>10 DEF ArchitectMerge
  <2> HIDE DEF pruned
  <2>3. Redirect(pruned, kept) \in WorkObjects /\ Unjudged(pruned, Redirect(pruned, kept))
    BY <2>1, ArchitectIsTyped, PlansUnjudged
  <2>4. Unjudged(wo, Redirect(pruned, kept))
    BY <2>1, <2>3, UnjudgedChains
  <2> QED
    BY <1>5, <2>2, <2>3, <2>4
<1> QED
  BY <1>1, <1>3, <1>4, <1>6, <1>7, <1>8, <1>9, <1>10 DEF Architect

\* The state mover does not judge.
LEMMA StateMoverUnjudged == ASSUME WorkTyped, StateMover PROVE Unjudged(wo, wo')
<1> USE DEF WorkTyped, InPass, Write
<1>1. CASE UNCHANGED wo
  BY <1>1, SameEpochs
<1>2. ASSUME NEW t \in Tasks, NEW s \in {"actionable", "waiting"}, Commit(SetStatus(wo, t, s))
      PROVE  Unjudged(wo, wo')
  BY <1>2, SetStatusIsTyped, SetStatusUnjudged, CommitUnjudged DEF Statuses, Nodes
<1>3. ASSUME NEW t \in Tasks, NEW kind \in WakeKinds, NEW future \in BOOLEAN,
             Commit(Defer(wo, t, kind, future))
      PROVE  Unjudged(wo, wo')
  BY <1>3, DeferIsTyped, PlansUnjudged, CommitUnjudged
<1>4. ASSUME NEW t \in Tasks, MoverPromote(t) \/ MoverHold(t) PROVE Unjudged(wo, wo')
  BY <1>2, <1>4 DEF MoverPromote, MoverHold
<1>5. ASSUME NEW t \in Tasks, MoverPark(t) PROVE Unjudged(wo, wo')
  BY <1>3, <1>5 DEF MoverPark, WakeKinds
<1>6. ASSUME NEW t \in Tasks, MoverWake(t) PROVE Unjudged(wo, wo')
  BY <1>3, <1>6 DEF MoverWake, WakeKinds
<1> QED
  BY <1>1, <1>4, <1>5, <1>6 DEF StateMover, MoverLook, MoverEnds, MoverRefused

\* Every dispatch step but a judgment.
LEMMA DispatchUnjudged ==
  ASSUME WorkTyped, Dispatch
  PROVE  \/ Unjudged(wo, wo')
         \/ \E t \in Tasks, e \in 0 .. MaxEpoch, verdict \in Verdicts, next \in NextSteps :
              Judge(t, e, verdict, next)
<1> USE DEF WorkTyped, InPass, Write
<1>1. ASSUME NEW t \in Tasks, NEW s \in {"dispatched", "failed"}, Commit(SetStatus(wo, t, s))
      PROVE  Unjudged(wo, wo')
  BY <1>1, SetStatusIsTyped, SetStatusUnjudged, CommitUnjudged DEF Statuses, Nodes
<1>2. ASSUME NEW t \in Tasks, NEW outcome \in {"done", "failed"}, NEW denial \in BOOLEAN,
             Commit(Record(wo, t, outcome, denial))
      PROVE  Unjudged(wo, wo')
  BY <1>2, RecordIsTyped, RecordUnjudged, CommitUnjudged
<1>3. ASSUME NEW t \in Tasks, WatchEnds(t) PROVE Unjudged(wo, wo')
  BY <1>3, EndWatchIsTyped, EndWatchUnjudged, CommitUnjudged DEF WatchEnds
<1>4. ASSUME NEW t \in Tasks, NEW e \in 0 .. MaxEpoch, BindTicket(t, e) PROVE Unjudged(wo, wo')
  BY <1>4, DeferIsTyped, PlansUnjudged, CommitUnjudged DEF BindTicket, WakeKinds
<1>5. ASSUME NEW t \in Tasks, Claim(t) \/ GateReject(t) \/ SweepStuck(t) PROVE Unjudged(wo, wo')
  BY <1>1, <1>2, <1>5 DEF Claim, GateReject, SweepStuck
<1>6. ASSUME NEW t \in Tasks, NEW e \in 0 .. MaxEpoch, GateFail(t, e) PROVE Unjudged(wo, wo')
  BY <1>1, <1>6 DEF GateFail
<1>7. ASSUME NEW t \in Tasks, NEW e \in 0 .. MaxEpoch, NEW outcome \in {"done", "failed"},
             NEW denial \in BOOLEAN, RecordResult(t, e, outcome, denial)
      PROVE  Unjudged(wo, wo')
  BY <1>2, <1>7 DEF RecordResult
<1> QED
  BY <1>3, <1>4, <1>5, <1>6, <1>7 DEF Dispatch

\* Workers, the brain, the owner and the clock do not judge.
LEMMA OthersUnjudged == ASSUME WorkTyped, Others PROVE Unjudged(wo, wo')
<1> USE DEF WorkTyped, InPass, Write
<1>1. ASSUME NEW w \in WorkObjects, w.judged = wo.judged, w.unmet = wo.unmet, w.epoch = wo.epoch, Commit(w)
      PROVE  Unjudged(wo, wo')
  BY <1>1, SameEpochs, CommitUnjudged
<1>2. CASE BrainReplan
  <2>1. LET w == [wo EXCEPT !.asked = TRUE]
        IN  w \in WorkObjects /\ w.judged = wo.judged /\ w.unmet = wo.unmet /\ w.epoch = wo.epoch
    BY DEF WorkObjects
  <2> QED
    BY <1>1, <1>2, <2>1 DEF BrainReplan
<1>3. CASE Abandon
  BY <1>3, EndWorkIsTyped, EndWorkUnjudged, CommitUnjudged DEF Abandon, EndedWork
<1>4. ASSUME NEW n \in Nodes, NEW s \in Statuses, Commit(SetStatus(wo, n, s)) PROVE Unjudged(wo, wo')
  BY <1>4, SetStatusIsTyped, SetStatusUnjudged, CommitUnjudged
<1>5. ASSUME NEW n \in Nodes, Commit([wo EXCEPT !.status = [@ EXCEPT ![n] = "proposed"]])
      PROVE  Unjudged(wo, wo')
  <2>1. LET w == [wo EXCEPT !.status = [@ EXCEPT ![n] = "proposed"]]
        IN  w \in WorkObjects /\ w.judged = wo.judged /\ w.unmet = wo.unmet /\ w.epoch = wo.epoch
    BY DEF WorkObjects, Statuses
  <2> QED
    BY <1>1, <1>5, <2>1
<1>6. ASSUME NEW h \in Helpers, AddHelper(h) PROVE Unjudged(wo, wo')
  BY <1>5, <1>6 DEF AddHelper, Nodes
<1>7. ASSUME NEW n \in Nodes, NEW s \in OwnerTargets, OwnerSetStatus(n, s) PROVE Unjudged(wo, wo')
  BY <1>4, <1>7, OwnerTargetsType DEF OwnerSetStatus
<1>8. ASSUME NEW t \in Tasks, OwnerAddTask(t) PROVE Unjudged(wo, wo')
  BY <1>5, <1>8 DEF OwnerAddTask, AddTask, Nodes
<1>9. ASSUME NEW t \in Tasks, TimePasses(t) \/ WatchExpires(t) PROVE Unjudged(wo, wo')
  <2>1. wo'.judged = wo.judged /\ wo'.unmet = wo.unmet /\ wo'.epoch = wo.epoch
    BY <1>9 DEF TimePasses, WatchExpires, WorkObjects
  <2> QED
    BY <2>1, SameEpochs
<1>10. ASSUME NEW h \in Helpers, NEW s \in Statuses, MoveHelper(h, s) PROVE Unjudged(wo, wo')
  BY <1>4, <1>10 DEF MoveHelper, Nodes
<1> QED
  BY <1>2, <1>3, <1>6, <1>7, <1>8, <1>9, <1>10 DEF Others

\* A judgment marks its task with the epoch it judged, marks nothing else, and starts nothing.
LEMMA FinalizeMarks ==
  ASSUME NEW w \in WorkObjects, NEW t \in Tasks, NEW verdict, NEW next
  PROVE  LET v == Finalize(w, t, verdict, next)
         IN  v.epoch = w.epoch /\ v.judged = [w.judged EXCEPT ![t] = w.epoch[t]]
<1> DEFINE Kept(v) == v \in WorkObjects /\ v.epoch = w.epoch /\ v.judged = w.judged
<1>1. ASSUME NEW v, Kept(v), NEW s \in {"failed", "proposed", "closed"}
      PROVE  Kept(SetStatus(v, t, s))
  <2>1. SetStatus(v, t, s) \in WorkObjects
    BY <1>1, SetStatusIsTyped DEF Statuses, Nodes
  <2>2. SetStatus(v, t, s).epoch = v.epoch /\ SetStatus(v, t, s).judged = v.judged
    BY <1>1, SetStatusFields DEF Statuses, Nodes
  <2> QED
    BY <1>1, <2>1, <2>2
<1>2. ASSUME NEW v, Kept(v), NEW asks
      PROVE  /\ Judged(v, t, asks).epoch = w.epoch
             /\ Judged(v, t, asks).judged = [w.judged EXCEPT ![t] = w.epoch[t]]
  <2>1. Judged(v, t, asks).epoch = v.epoch
        /\ Judged(v, t, asks).judged = [v.judged EXCEPT ![t] = v.epoch[t]]
    BY <1>2 DEF Judged, WorkObjects
  <2> QED
    BY <1>2, <2>1
<1>3. Kept(w)
  OBVIOUS
<1>4. ASSUME NEW unmet \in 0 .. FailureLimit, NEW v, Kept(v) PROVE Kept([v EXCEPT !.unmet = unmet])
  BY <1>4 DEF WorkObjects
<1>5. ASSUME NEW vrd, NEW nxt
      PROVE  LET v == FinalizeUnmet(w, t, vrd, nxt)
             IN  v.epoch = w.epoch /\ v.judged = [w.judged EXCEPT ![t] = w.epoch[t]]
  <2> DEFINE unmet     == IF w.unmet = FailureLimit THEN FailureLimit ELSE w.unmet + 1
             escalated == unmet = FailureLimit /\ nxt # "stop"
             target    == IF vrd = "retry" /\ ~escalated THEN "proposed" ELSE "failed"
             failed    == [SetStatus(w, t, "failed") EXCEPT !.unmet = unmet]
  <2>1. unmet \in 0 .. FailureLimit
    <3>1. w.unmet \in 0 .. FailureLimit /\ FailureLimit \in Nat
      BY FailureLimitType DEF WorkObjects
    <3> QED
      BY <3>1
  <2>2. Kept(failed)
    <3> HIDE DEF Kept, unmet
    <3> QED
      BY <1>1, <1>3, <1>4, <2>1
  <2>3. target \in {"failed", "proposed", "closed"}
    OBVIOUS
  <2> HIDE DEF Kept, failed, target
  <2>4. Kept(SetStatus(failed, t, target))
    BY <1>1, <2>2, <2>3
  <2> QED
    BY <1>2, <2>4 DEF FinalizeUnmet, failed, target
<1>6. ASSUME NEW vrd
      PROVE  LET v == FinalizeMet(w, t, vrd)
             IN  v.epoch = w.epoch /\ v.judged = [w.judged EXCEPT ![t] = w.epoch[t]]
  <2> DEFINE met     == [w EXCEPT !.unmet = 0, !.status = [@ EXCEPT ![t] = "done"]]
             waiting == [met EXCEPT !.status = [@ EXCEPT ![t] = "waiting"],
                                    !.wake   = [@ EXCEPT ![t] = "event"],
                                    !.held   = [@ EXCEPT ![t] = FALSE]]
  <2>1. Kept(met)
    <3>1. 0 \in 0 .. FailureLimit /\ t \in Nodes /\ "done" \in Statuses
      BY FailureLimitType DEF Nodes, Statuses
    <3> QED
      BY <3>1 DEF WorkObjects
  <2>2. Kept(waiting)
    <3> HIDE DEF met
    <3> QED
      BY <2>1 DEF WorkObjects, Statuses, WakeKinds, Nodes
  <2> HIDE DEF Kept, met, waiting
  <2>3. Kept(SetStatus(met, t, "closed"))
    BY <1>1, <2>1
  <2> QED
    BY <1>2, <2>2, <2>3 DEF FinalizeMet, met, waiting
<1> QED
  BY <1>5, <1>6 DEF Finalize

\* One step: an unjudged successor, or a judgment of a dispatch not judged before.
LEMMA StepJudgesOnce ==
  ASSUME WorkTyped, JudgedInOrder, Next
  PROVE  /\ JudgedInOrder'
         /\ \A t \in Tasks : wo'.judged[t] # wo.judged[t] =>
              wo'.judged[t] = wo.epoch[t] /\ wo'.judged[t] > wo.judged[t]
         /\ wo'.unmet # wo.unmet => \E t \in Tasks : wo'.judged[t] > wo.judged[t]
<1> USE DEF WorkTyped
<1>1. CASE Unjudged(wo, wo')
  <2>1. \A t \in Tasks : wo.epoch[t] \in Nat /\ wo.judged[t] \in Int
    BY DEF WorkObjects, Epochs, NoEpoch
  <2>2. wo' \in WorkObjects
    BY TypeStep
  <2>3. \A t \in Tasks : wo'.epoch[t] \in Nat
    BY <2>2 DEF WorkObjects
  <2> QED
    BY <1>1, <2>1, <2>3 DEF Unjudged, JudgedInOrder
<1>2. ASSUME NEW t \in Tasks, NEW e \in 0 .. MaxEpoch, NEW verdict \in Verdicts, NEW next \in NextSteps,
             Judge(t, e, verdict, next)
      PROVE  /\ wo'.judged = [wo.judged EXCEPT ![t] = wo.epoch[t]]
             /\ wo'.epoch = wo.epoch /\ wo.judged[t] # wo.epoch[t]
  <2> DEFINE judged == Finalize(wo, t, verdict, next)
  <2>1. judged \in WorkObjects /\ judged.epoch = wo.epoch
        /\ judged.judged = [wo.judged EXCEPT ![t] = wo.epoch[t]]
    BY FinalizeIsTyped, FinalizeMarks
  <2>2. wo' = Rollup(judged) /\ wo.judged[t] # wo.epoch[t]
    BY <1>2 DEF Judge, Write, Commit, MayFinalize, NeedsFinalization
  <2> HIDE DEF judged
  <2> QED
    BY <2>1, <2>2, RollupFields
<1>3. ASSUME NEW t \in Tasks, wo'.judged = [wo.judged EXCEPT ![t] = wo.epoch[t]],
             wo'.epoch = wo.epoch, wo.judged[t] # wo.epoch[t]
      PROVE  /\ JudgedInOrder' /\ wo'.judged[t] > wo.judged[t]
             /\ \A u \in Tasks : wo'.judged[u] # wo.judged[u] =>
                  wo'.judged[u] = wo.epoch[u] /\ wo'.judged[u] > wo.judged[u]
  <2>1. /\ \A u \in Tasks : wo.epoch[u] \in Nat /\ wo.judged[u] \in Int
        /\ wo.judged \in [Tasks -> Epochs]
    BY DEF WorkObjects, Epochs, NoEpoch
  <2>2. \A u \in Tasks : wo'.judged[u] = IF u = t THEN wo.epoch[u] ELSE wo.judged[u]
    BY <1>3, <2>1
  <2> QED
    BY <1>3, <2>1, <2>2 DEF JudgedInOrder
<1>4. \/ Unjudged(wo, wo')
      \/ \E t \in Tasks, e \in 0 .. MaxEpoch, verdict \in Verdicts, next \in NextSteps :
           Judge(t, e, verdict, next)
  BY ArchitectUnjudged, StateMoverUnjudged, DispatchUnjudged, OthersUnjudged DEF Next
<1> QED
  BY <1>1, <1>2, <1>3, <1>4

\* No interleaving stamps a judgment ahead of its task's dispatches.
LEMMA JudgmentsInOrder == Spec => []JudgedInOrder
<1>1. Init => JudgedInOrder
  BY DEF Init, NewWorkObject, JudgedInOrder, NoEpoch
<1>2. WorkTyped /\ JudgedInOrder /\ [Next]_vars => JudgedInOrder'
  <2>1. CASE UNCHANGED vars
    BY <2>1 DEF vars, JudgedInOrder
  <2> QED
    BY <2>1, StepJudgesOnce
<1> QED
  BY <1>1, <1>2, TypesHold, PTL DEF Spec

\* Every stored field keeps its range and no dispatch is taken for judged before it was, for every
\* work graph, bound on dispatches and interleaving.
THEOREM TypeCorrect == Spec => []TypeOK
<1>1. TypeOK <=> WorkTyped /\ JudgedInOrder
  BY DEF TypeOK
<1> QED
  BY <1>1, TypesHold, JudgmentsInOrder, PTL

\* finalize_task judges every dispatch at most once, and only a judgment moves the count of
\* unmet attempts, for every work graph and every interleaving.
THEOREM OneJudgmentPerDispatch == Spec => JudgedOnce
<1>1. WorkTyped /\ JudgedInOrder /\ [Next]_vars =>
        [/\ \A t \in Tasks : wo'.judged[t] # wo.judged[t] =>
              wo'.judged[t] = wo.epoch[t] /\ wo'.judged[t] > wo.judged[t]
         /\ wo'.unmet # wo.unmet => \E t \in Tasks : wo'.judged[t] > wo.judged[t]]_vars
  BY StepJudgesOnce
<1> QED
  BY <1>1, TypesHold, JudgmentsInOrder, PTL DEF Spec, JudgedOnce
=============================================================================
