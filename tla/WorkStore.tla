------------------------------ MODULE WorkStore ------------------------------
(***************************************************************************)
(* The work-object store of work_objects/store.py and model.py, as pure    *)
(* operators on one work object.  A handler of WorkStore._HANDLERS is a     *)
(* guard (its refusals) and a new work object; WorkStore.apply runs the      *)
(* handler, the rollup and validate() in one transaction (Commit).          *)
(*                                                                          *)
(* Main tasks (direct subtask children of the goal) are Tasks; the checklist *)
(* items a worker grows below its task are Helpers.  Texts, titles, pods,    *)
(* evidence rows and timestamps are abstracted: of a timestamp only "in the  *)
(* future" is kept (held, watch), of the finalizer's note only whether it     *)
(* still asks the architect for something (pending).                         *)
(***************************************************************************)
EXTENDS Integers, FiniteSets

CONSTANTS Tasks,         \* main tasks that may ever be planned
          Helpers,       \* worker checklist items that may ever be created
          Parent,        \* the ownership spine below the main tasks
          FailureLimit   \* _REPEAT_FAILURE_LIMIT of work_finalizer_node.py

Nodes == Tasks \cup Helpers

ASSUME DisjointNodes == Tasks \cap Helpers = {}
ASSUME FiniteNodes == IsFiniteSet(Tasks) /\ IsFiniteSet(Helpers)
ASSUME ParentType == Parent \in [Helpers -> Nodes]
ASSUME FailureLimitType == FailureLimit \in Nat \ {0}

NoEpoch == -1
Epochs  == Nat \cup {NoEpoch}

(***************************************************************************)
(* Statuses of the spine family and its lifecycle (TRANSITIONS["spine"]).   *)
(* "absent" is a node that add_node has not created yet.                    *)
(***************************************************************************)
Statuses == {"absent", "proposed", "actionable", "waiting", "dispatched",
             "done", "closed", "failed", "abandoned", "superseded"}

Startable       == {"proposed", "actionable", "waiting", "failed"}
EndStatuses     == {"closed", "abandoned", "superseded"}
OutcomeStatuses == {"done", "closed", "abandoned", "superseded"}
EndedWork       == {"done", "abandoned"}

Transitions ==
  [s \in Statuses |->
     CASE s = "proposed"   -> {"actionable", "dispatched", "waiting", "failed", "abandoned"}
       [] s = "actionable" -> {"dispatched", "waiting", "failed", "abandoned"}
       [] s = "dispatched" -> {"waiting", "done", "failed", "abandoned"}
       [] s = "waiting"    -> {"actionable", "dispatched", "done", "failed", "abandoned"}
       [] s = "done"       -> {"closed", "superseded", "failed"}
       [] s = "closed"     -> {"superseded"}
       [] s = "failed"     -> {"dispatched", "proposed", "abandoned"}
       [] OTHER            -> {}]

WakeKinds == {"none", "time", "event", "user_reply"}
Verdicts  == {"achieved", "achieved_plan_changes", "achieved_keep_open",
              "retry", "unrecoverable"}
NextSteps == {"stop", "new_approach", "ask_user"}

WorkObjects ==
  [work    : {"active", "done", "abandoned"},
   ended   : BOOLEAN,                 \* set_work_status ended it (constraints.terminal)
   goal    : {"dispatched", "done", "abandoned"},
   asked   : BOOLEAN,                 \* an unconsumed replan instruction of the brain
   unmet   : 0 .. FailureLimit,       \* goal_unmet_since_progress, saturating
   status  : [Nodes -> Statuses],
   wake    : [Tasks -> WakeKinds],
   held    : [Tasks -> BOOLEAN],      \* wake_at lies in the future
   watch   : [Tasks -> {"none", "open", "over"}],  \* a standing watch and its until
   epoch   : [Tasks -> Nat],          \* payload.dispatch_epoch
   result  : [Tasks -> Epochs],       \* payload.result_epoch
   denied  : [Tasks -> BOOLEAN],      \* payload.result_error_code is a denial
   judged  : [Tasks -> Epochs],       \* payload.finalized_epoch
   pending : [Tasks -> BOOLEAN],      \* payload.finalizer asks and is not consumed
   deps    : SUBSET (Tasks \X Tasks)] \* <<prerequisite, dependent>>

\* create_work_object, as the brain's list entry makes it: no task planned yet.
NewWorkObject ==
  [work |-> "active", ended |-> FALSE, goal |-> "dispatched", asked |-> FALSE, unmet |-> 0,
   status  |-> [n \in Nodes |-> "absent"],
   wake    |-> [t \in Tasks |-> "none"],
   held    |-> [t \in Tasks |-> FALSE],
   watch   |-> [t \in Tasks |-> "none"],
   epoch   |-> [t \in Tasks |-> 0],
   result  |-> [t \in Tasks |-> NoEpoch],
   denied  |-> [t \in Tasks |-> FALSE],
   judged  |-> [t \in Tasks |-> NoEpoch],
   pending |-> [t \in Tasks |-> FALSE],
   deps    |-> {}]

-----------------------------------------------------------------------------
(* Derived queries of model.py.                                             *)

Planned(w) == {t \in Tasks : w.status[t] # "absent"}
Ended(w)   == w.work \in EndedWork

\* has_pending_revision, and the rollup's _unconsumed_finalizer_instruction
HasPending(w) == \E t \in Tasks : w.pending[t]

\* a dispatched node whose question is out to the user
InFlightAsk(w, n) == n \in Tasks /\ w.status[n] = "dispatched" /\ w.wake[n] = "user_reply"

QueuedOrHeld(w, n) == \/ w.status[n] = "actionable"
                      \/ w.status[n] = "waiting" /\ n \in Tasks /\ w.held[n]

DepsOf(w, t)      == {d \in Tasks : <<d, t>> \in w.deps}
GateClear(w, t)   == ~w.held[t] /\ \A d \in DepsOf(w, t) : w.status[d] = "closed"
IsReady(w, t)     == /\ w.status[t] \in {"proposed", "waiting", "actionable"}
                     /\ w.work = "active"
                     /\ ~HasPending(w)
                     /\ w.wake[t] # "event"
                     /\ GateClear(w, t)
\* Mutant: a recorded result counts as a closed task.
GoalSatisfiedByResults(w) == Planned(w) # {} /\ \A t \in Planned(w) : w.status[t] \in {"done", "closed"}
GoalSatisfied(w)  == Planned(w) # {} /\ \A t \in Planned(w) : w.status[t] = "closed"

\* Mutant: any outcome needs a judgment, judged or not.
NeedsFinalizationAgain(w, t) == w.status[t] \in {"done", "failed"}
NeedsFinalization(w, t) == w.status[t] \in {"done", "failed"} /\ w.judged[t] # w.epoch[t]

\* Nodes owned below n on the parent spine.
Descendants(n) ==
  LET Below[k \in 0 .. Cardinality(Helpers)] ==
        IF k = 0 THEN {h \in Helpers : Parent[h] = n}
        ELSE Below[k-1] \cup {h \in Helpers : Parent[h] \in Below[k-1]}
  IN  Below[Cardinality(Helpers)]

\* validate(): a terminal work object holds nothing the engine could start.
Valid(w) == Ended(w) => /\ w.goal \in EndedWork
                        /\ \A n \in Nodes : w.status[n] \notin Startable

-----------------------------------------------------------------------------
(* The cascades, the chokepoint set_status, and the rollup.                 *)

Moot(w, n) == w.status[n] \in Startable \/ InFlightAsk(w, n)

\* Abandon what has not started, and questions still out, among S; clear the wakes.
CascadeAbandon(w, S) ==
  [w EXCEPT !.status = [n \in Nodes |-> IF n \in S /\ Moot(w, n) THEN "abandoned" ELSE w.status[n]],
            !.wake   = [t \in Tasks |-> IF t \in S /\ Moot(w, t) THEN "none" ELSE w.wake[t]],
            !.held   = [t \in Tasks |-> IF t \in S /\ Moot(w, t) THEN FALSE ELSE w.held[t]]]

\* Mutant: without the fence around a question out to the user.
MaySetStatusUnfenced(w, n, s, actor, licensed) ==
  /\ w.status[n] # "absent"
  /\ w.status[n] = "failed" => (actor # "architect" \/ licensed)
  /\ s # w.status[n] => s \in Transitions[w.status[n]]
  /\ s = "abandoned" /\ QueuedOrHeld(w, n) => licensed

\* The refusals of _op_set_status; every caller modelled here states a reason.
MaySetStatus(w, n, s, actor, licensed) ==
  /\ w.status[n] # "absent"
  /\ w.status[n] = "failed" => (actor # "architect" \/ licensed)
  /\ s # w.status[n] => s \in Transitions[w.status[n]]
  /\ (s # w.status[n] /\ s \in EndStatuses) =>
       /\ s = "abandoned" /\ QueuedOrHeld(w, n) => licensed
       /\ ~InFlightAsk(w, n)

\* Mutant: an outcome leaves its subtree alone.
SetStatusAlone(w, n, s) ==
  [w EXCEPT !.status = [@ EXCEPT ![n] = s],
            !.epoch  = [t \in Tasks |-> IF t = n /\ s = "dispatched" /\ w.status[n] # "dispatched"
                                        THEN w.epoch[t] + 1 ELSE w.epoch[t]]]

\* Mutant: a task that is promoted again starts over with a fresh count of dispatches.
SetStatusAfresh(w, n, s) ==
  LET moved == [w EXCEPT !.status = [@ EXCEPT ![n] = s],
                         !.epoch  = [t \in Tasks |->
                                       IF t = n /\ s = "dispatched" /\ w.status[n] # "dispatched" THEN w.epoch[t] + 1
                                       ELSE IF t = n /\ s = "actionable" THEN 0 ELSE w.epoch[t]]]
  IN  IF s \in OutcomeStatuses /\ s # w.status[n]
      THEN CascadeAbandon(moved, Descendants(n)) ELSE moved

\* Its effect: a claim starts a new epoch, an outcome stops the unstarted subtree.
SetStatus(w, n, s) ==
  LET moved == [w EXCEPT !.status = [@ EXCEPT ![n] = s],
                         !.epoch  = [t \in Tasks |->
                                       IF t = n /\ s = "dispatched" /\ w.status[n] # "dispatched"
                                       THEN w.epoch[t] + 1 ELSE w.epoch[t]]]
  IN  IF s \in OutcomeStatuses /\ s # w.status[n]
      THEN CascadeAbandon(moved, Descendants(n)) ELSE moved

\* Mutant: completion forgets the judgment that still asks for a revision.
RollupEager(w) ==
  IF w.work # "abandoned" /\ GoalSatisfied(w)
  THEN CascadeAbandon([w EXCEPT !.work = "done", !.goal = "done"], Nodes)
  ELSE w

\* A satisfied goal completes its work object, unless a judgment still asks for a revision.
Rollup(w) ==
  IF w.work # "abandoned" /\ GoalSatisfied(w) /\ ~HasPending(w)
  THEN CascadeAbandon([w EXCEPT !.work = "done", !.goal = "done"], Nodes)
  ELSE w

\* set_work_status: a forced end mirrors the goal and cascades over everything.
EndWork(w, target) ==
  CascadeAbandon([w EXCEPT !.work = target, !.ended = TRUE,
                           !.goal = IF w.goal \in EndedWork THEN w.goal ELSE target], Nodes)

-----------------------------------------------------------------------------
(* The remaining handlers.                                                  *)

AddTask(w, t) == [w EXCEPT !.status = [@ EXCEPT ![t] = "proposed"]]

\* defer_node: a gate on a task in flight parks it, unless the gate is the user's reply.
Defer(w, t, kind, future) ==
  [w EXCEPT !.wake   = [@ EXCEPT ![t] = kind],
            !.held   = [@ EXCEPT ![t] = future],
            !.status = IF w.status[t] = "dispatched" /\ kind # "user_reply"
                       THEN [@ EXCEPT ![t] = "waiting"] ELSE @]

\* watch_node: an event wait that repeats until a time ahead.
OpenWatch(w, t) == [w EXCEPT !.watch = [@ EXCEPT ![t] = "open"]]

\* end_watch: a watch whose time has run out, waiting for its next occurrence, is closed.
\* Mutant: any event wait is taken for a watch that ran out.
MayEndWait(w, t) == w.status[t] = "waiting" /\ w.wake[t] = "event"
MayEndWatch(w, t) == w.watch[t] = "over" /\ w.status[t] = "waiting" /\ w.wake[t] = "event"
EndWatch(w, t) ==
  SetStatus([w EXCEPT !.status = [@ EXCEPT ![t] = "done"],
                      !.wake   = [@ EXCEPT ![t] = "none"],
                      !.held   = [@ EXCEPT ![t] = FALSE]], t, "closed")

\* Mutant: trusts the promotion and does not look at the gates again.
MayClaimPromoted(w, t) == w.status[t] = "actionable" /\ w.work = "active"

\* claim_task, but for the execution reservation (WorkExecution).
MayClaim(w, t) == w.status[t] = "actionable" /\ IsReady(w, t)

\* bind_ticket: the question of exactly the attempt in flight.
MayBindTicket(w, t, e) == w.status[t] = "dispatched" /\ w.work = "active" /\ w.epoch[t] = e

\* record_result: only for the current attempt, and not for a task that already has an outcome.
MayRecord(w, t, e) ==
  /\ ~Ended(w)
  /\ w.status[t] \in {"dispatched", "proposed", "actionable", "waiting"}
  /\ w.epoch[t] = e
\* Mutant: the result is not tied to its dispatch.
RecordUnstamped(w, t, outcome, denial) ==
  LET running == IF w.status[t] \in {"proposed", "actionable"}
                 THEN SetStatus(w, t, "dispatched") ELSE w
  IN  [SetStatus(running, t, outcome) EXCEPT !.denied = [@ EXCEPT ![t] = denial]]
Record(w, t, outcome, denial) ==
  LET running  == IF w.status[t] \in {"proposed", "actionable"}
                  THEN SetStatus(w, t, "dispatched") ELSE w
      recorded == SetStatus(running, t, outcome)
  IN  [recorded EXCEPT !.result = [@ EXCEPT ![t] = recorded.epoch[t]],
                       !.denied = [@ EXCEPT ![t] = denial]]

\* finalize_task: one judgment per epoch.
MayFinalize(w, t, e, verdict) ==
  /\ ~Ended(w)
  /\ NeedsFinalization(w, t)
  /\ w.epoch[t] = e
  /\ verdict = "achieved_keep_open" => w.watch[t] # "none"

Judged(w, t, asks) == [w EXCEPT !.judged  = [@ EXCEPT ![t] = w.epoch[t]],
                                !.pending = [@ EXCEPT ![t] = asks]]

\* retry and unrecoverable: count the unmet attempt; at the limit the user is asked instead.
FinalizeUnmet(w, t, verdict, next) ==
  LET unmet     == IF w.unmet = FailureLimit THEN FailureLimit ELSE w.unmet + 1
      escalated == unmet = FailureLimit /\ next # "stop"
      failed    == [SetStatus(w, t, "failed") EXCEPT !.unmet = unmet]
  IN  Judged(SetStatus(failed, t, IF verdict = "retry" /\ ~escalated THEN "proposed" ELSE "failed"),
             t, TRUE)

\* Mutant: closes without noting which dispatch was judged.
FinalizeMetUnstamped(w, t, verdict) ==
  SetStatus([w EXCEPT !.unmet = 0, !.status = [@ EXCEPT ![t] = "done"]], t, "closed")

\* the three achieved verdicts: a standing watch waits again, anything else closes.
FinalizeMet(w, t, verdict) ==
  LET met == [w EXCEPT !.unmet = 0, !.status = [@ EXCEPT ![t] = "done"]]
  IN  IF verdict = "achieved_keep_open" /\ w.watch[t] = "open"
      THEN Judged([met EXCEPT !.status = [@ EXCEPT ![t] = "waiting"],
                              !.wake   = [@ EXCEPT ![t] = "event"],
                              !.held   = [@ EXCEPT ![t] = FALSE]], t, FALSE)
      ELSE Judged(SetStatus(met, t, "closed"), t, verdict = "achieved_plan_changes")

\* Mutant: the agent's verdict stands although the owner denied the action.
FinalizeAnyway(w, t, verdict, next) ==
  IF verdict \in {"retry", "unrecoverable"} THEN FinalizeUnmet(w, t, verdict, next)
  ELSE FinalizeMet(w, t, verdict)

\* A denied approval overrides the agent's verdict: unrecoverable, and the next step is stop.
Finalize(w, t, verdict, next) ==
  IF w.denied[t] THEN FinalizeUnmet(w, t, "unrecoverable", "stop")
  ELSE IF verdict \in {"retry", "unrecoverable"} THEN FinalizeUnmet(w, t, verdict, next)
  ELSE FinalizeMet(w, t, verdict)
=============================================================================
