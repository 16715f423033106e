---------------------------- MODULE WorkExecution ----------------------------
(***************************************************************************)
(* Who may run what: the durable attempt and call receipts of               *)
(* execution_store.py, the dispatch gate that reserves and launches an       *)
(* attempt, the session thread that makes its tool call and records the      *)
(* result, cancellation, and the restart of the process.  Every write of     *)
(* WorkGraph happens here under the conditions its caller really has, and    *)
(* runs _execution_after_mutation in the same transaction.                   *)
(*                                                                          *)
(* One call stands for the calls of an attempt.  session follows an attempt  *)
(* from the gate (claimed, stamping) through its thread to its end.  The      *)
(* owner's node edits are removals here.                                     *)
(***************************************************************************)
EXTENDS WorkGraph

CONSTANT MaxRestarts   \* bound on restarts of the process

ASSUME MaxRestartsType == MaxRestarts \in Nat
ASSUME OwnerRemoves == OwnerTargets \subseteq {"abandoned"}

VARIABLES ex,        \* receipts and threads
          restarts   \* restarts so far

xvars == <<wo, seen, parking, ex, restarts>>

Attempts == Tasks \X (1 .. MaxEpoch)

AttemptStates == {"none", "reserved", "running", "exited", "interrupted"}
CallStates    == {"none", "in_flight", "settled", "unknown"}
AtGate        == {"claimed", "stamping"}
InThread      == {"begin", "ready", "calling", "returned", "crashed", "judging", "leaving"}
Recovering    == {"resumed", "settling", "rejudging"}
SessionStates == {"none", "gone"} \cup AtGate \cup InThread \cup Recovering

ExInit == ex = [attempt  |-> [a \in Attempts |-> "none"],     \* work_execution_attempts.state
                revoked  |-> {},                              \* ... .revoked
                swept    |-> [t \in Tasks |-> FALSE],         \* result_actor is the sweeper
                call     |-> [a \in Attempts |-> "none"],     \* work_execution_calls.state
                session  |-> [a \in Attempts |-> "none"],
                recorded |-> [a \in Attempts |-> 0]]          \* results accepted for the attempt
XInit == Init /\ ExInit /\ restarts = 0

-----------------------------------------------------------------------------
(* Receipts.                                                                 *)

Unfinished(a) == ex.attempt[a] \in {"reserved", "running"}
OpenCall(a)   == ex.call[a] \in {"in_flight", "unknown"}
Alive(a)       == ex.session[a] \in InThread \cup Recovering

\* _execution_validate
Authorized(a) == /\ ~Ended(wo) /\ wo.status[a[1]] = "dispatched" /\ wo.epoch[a[1]] = a[2]
                 /\ a \notin ex.revoked /\ Unfinished(a)

\* Mutants: the claim looks at uncertain calls only, or at unfinished attempts only.
BlockedByCalls    == \E a \in Attempts : OpenCall(a)
BlockedByAttempts == \E a \in Attempts : Unfinished(a)
\* _execution_claim: the whole work object waits for a prior attempt or an uncertain call.
ExecutionBlocked == \E a \in Attempts : Unfinished(a) \/ OpenCall(a)

\* _execution_after_mutation: abandonment revokes, in the transaction that abandons.
RevokedBy(w) == {a \in Attempts :
  \/ w.work = "abandoned" /\ Unfinished(a)
  \/ /\ w.status[a[1]] \in {"abandoned", "superseded"} /\ w.epoch[a[1]] = a[2]
     /\ ex.attempt[a] # "none"}
Receipts(x) == ex' = [x EXCEPT !.revoked = @ \cup RevokedBy(wo')]

\* Mutant: a result releases every attempt of its task, running ones too.
ReleasedAll(x, t) == [x EXCEPT !.attempt = [a \in Attempts |->
  IF a[1] = t /\ x.attempt[a] \in {"reserved", "running"} THEN "exited" ELSE x.attempt[a]]]

\* A result releases the reservations of its task.
Released(x, t) == [x EXCEPT !.attempt = [a \in Attempts |->
  IF a[1] = t /\ x.attempt[a] = "reserved" THEN "exited" ELSE x.attempt[a]]]
Counted(x, a)  == [x EXCEPT !.recorded[a] = IF @ = 2 THEN 2 ELSE @ + 1,
                            !.swept = [@ EXCEPT ![a[1]] = FALSE]]

At(a, s)       == ex.session[a] = s
Goes(x, a, s)  == [x EXCEPT !.session[a] = s]
GraphUnchanged == UNCHANGED <<wo, seen, parking>>
Stays          == UNCHANGED restarts

-----------------------------------------------------------------------------
(* The orchestrator's pass, one at a time: planning, then the gate.          *)

GateIdle == \A a \in Attempts : ex.session[a] \notin AtGate

PassStep ==
  /\ GateIdle
  /\ \/ Architect \/ StateMover \/ BrainReplan
     \/ \E t \in Tasks : GateReject(t) \/ WatchEnds(t)
  /\ Receipts(ex) /\ Stays

\* Mutant: the reservation is made for the dispatch before, which the claim has just ended.
ClaimTaskStale(t) ==
  /\ GateIdle /\ ~ExecutionBlocked
  /\ Claim(t)
  /\ LET reserved == [a \in Attempts |-> IF a = <<t, wo.epoch[t]>> THEN "reserved" ELSE ex.attempt[a]]
     IN  Receipts(Goes([ex EXCEPT !.attempt = reserved], <<t, wo.epoch[t] + 1>>, "claimed"))
  /\ Stays

\* claim_task and its reservation are one transaction.
ClaimTask(t) ==
  /\ GateIdle /\ ~ExecutionBlocked
  /\ Claim(t)
  /\ LET a == <<t, wo.epoch[t] + 1>>
     IN  Receipts(Goes([ex EXCEPT !.attempt[a] = "reserved"], a, "claimed"))
  /\ Stays

\* open_session, start_execution: the reservation becomes a running attempt.
OpenSession(a) ==
  /\ At(a, "claimed") /\ Authorized(a)
  /\ ex' = Goes([ex EXCEPT !.attempt[a] = "running"], a, "stamping")
  /\ GraphUnchanged /\ Stays

\* Mutant: fails the node whatever became of it.
FailNodeAnyway(a) == Commit(SetStatus(wo, a[1], "failed")) /\ MoverIdle

\* _fail_node with the claim's epoch; what the store refuses is only logged.
FailNode(a) ==
  IF MayGateFail(a[1], a[2]) THEN GateFail(a[1], a[2]) ELSE GraphUnchanged

\* The task was taken away between the claim and the start: open_session returns, or the
\* start is refused and the gate fails the node.  The reservation is left as it is.
OpenRefused(a) ==
  /\ At(a, "claimed") /\ ~Authorized(a)
  /\ IF wo.status[a[1]] # "dispatched" THEN GraphUnchanged ELSE FailNode(a)
  /\ Receipts(Goes(ex, a, "gone")) /\ Stays

\* The session is stamped on the node and its thread starts.
StartThread(a) ==
  /\ At(a, "stamping") /\ wo.status[a[1]] = "dispatched" /\ wo.epoch[a[1]] = a[2]
  /\ \A b \in Attempts : b[1] = a[1] => ~Alive(b)
  /\ ex' = Goes(ex, a, "begin") /\ GraphUnchanged /\ Stays

\* The launch breaks: the attempt is finished and the gate fails the node.
LaunchFails(a) ==
  /\ At(a, "stamping")
  /\ FailNode(a)
  /\ Receipts(Goes([ex EXCEPT !.attempt[a] = "exited"], a, "gone")) /\ Stays

-----------------------------------------------------------------------------
(* The session thread.                                                       *)

Begin(a) ==
  /\ At(a, "begin")
  /\ ex' = Goes(ex, a, IF wo.status[a[1]] = "dispatched" /\ wo.epoch[a[1]] = a[2]
                       THEN "ready" ELSE "leaving")
  /\ GraphUnchanged /\ Stays

\* tool_call: admission and the durable check are one transaction.
AdmitCall(a) ==
  /\ At(a, "ready") /\ Authorized(a)
  /\ ex' = Goes([ex EXCEPT !.call[a] = "in_flight"], a, "calling")
  /\ GraphUnchanged /\ Stays

\* The room fails before its call: an agent broke, a check saw the cancellation, no tool ran.
RoomFails(a) == At(a, "ready") /\ ex' = Goes(ex, a, "crashed") /\ GraphUnchanged /\ Stays

\* The call returns, or raises (cancelled or broken); an uncertain outcome stays unknown.
CallEnds(a, receipt, next) ==
  /\ At(a, "calling") /\ receipt \in {"settled", "unknown"} /\ next \in {"returned", "crashed"}
  /\ ex' = Goes([ex EXCEPT !.call[a] = receipt], a, next)
  /\ GraphUnchanged /\ Stays

\* record_tool_result with the attempt's epoch; no check of the attempt's revocation.
SessionRecords(a, outcome, denial) ==
  /\ \/ At(a, "returned")
     \/ At(a, "crashed") /\ outcome = "failed" /\ ~denial
  /\ RecordResult(a[1], a[2], outcome, denial)
  /\ Receipts(Goes(Counted(Released(ex, a[1]), a), a, "judging")) /\ Stays

RecordRefused(a) ==
  /\ At(a, "returned") \/ At(a, "crashed")
  /\ ~MayRecord(wo, a[1], a[2])
  /\ ex' = Goes(ex, a, "leaving") /\ GraphUnchanged /\ Stays

\* The finalizer in the room.  Its agent call observes a cancellation, except in recovery.
RoomJudges(a, verdict, next) ==
  /\ \/ At(a, "judging") /\ a \notin ex.revoked
     \/ At(a, "rejudging")
  /\ Judge(a[1], a[2], verdict, next)
  /\ Receipts(Goes(ex, a, IF At(a, "judging") THEN "leaving" ELSE "gone")) /\ Stays
RoomDoesNotJudge(a) ==
  /\ \/ At(a, "judging")   /\ ex' = Goes(ex, a, "leaving")
     \/ At(a, "rejudging") /\ ex' = Goes(ex, a, "gone")
  /\ GraphUnchanged /\ Stays

\* finish_owner: the last span has exited.
Leave(a) ==
  /\ At(a, "leaving")
  /\ ex' = Goes([ex EXCEPT !.attempt[a] = "exited"], a, "gone")
  /\ GraphUnchanged /\ Stays

\* Inside the call: a job of it times out, and cancelling the job's manager revokes the whole
\* attempt; the ticket tool binds its question; a worker writes its checklist.
CancelAttempt(a) ==
  /\ At(a, "calling") /\ a \notin ex.revoked
  /\ ex' = [ex EXCEPT !.revoked = @ \cup {a}]
  /\ GraphUnchanged /\ Stays
BindsTicket(a) ==
  /\ At(a, "calling") /\ BindTicket(a[1], a[2]) /\ Receipts(ex) /\ Stays
WorkerWrites(a) ==
  /\ At(a, "calling") /\ Authorized(a)
  /\ \E h \in Descendants(a[1]) \cap Helpers : AddHelper(h) \/ \E s \in Statuses : MoveHelper(h, s)
  /\ Receipts(ex) /\ Stays

-----------------------------------------------------------------------------
(* Supervision: the sweeper, the recovery of judgments, the restart.         *)

\* Mutants: a sweep that does not revoke, and one that spares live sessions.
SweepWithoutRevoking(t) ==
  /\ GateIdle /\ SweepStuck(t) /\ Receipts(Released(ex, t)) /\ Stays
SweepOrphans(t) ==
  /\ GateIdle /\ SweepStuck(t)
  /\ \A a \in Attempts : a = <<t, wo.epoch[t]>> => ~Alive(a)
  /\ Receipts(Released(ex, t)) /\ Stays

\* The sweeper's result revokes the attempt it gives up on.
Sweep(t) ==
  /\ GateIdle /\ SweepStuck(t)
  /\ LET swept == {a \in Attempts : a = <<t, wo.epoch[t]>> /\ ex.attempt[a] # "none"}
         given == IF swept = {} THEN Released(ex, t)
                  ELSE Counted(Released(ex, t), <<t, wo.epoch[t]>>)
     IN  Receipts([given EXCEPT !.revoked = @ \cup swept, !.swept[t] = TRUE])
  /\ Stays

\* Mutant: waits for every live session, the swept ones too.
SupervisedAlways(t) == \E a \in Attempts : a = <<t, wo.epoch[t]>> /\ Alive(a)

\* recover_pending_finalizations: not while the session that recorded it is alive,
\* unless the sweeper wrote the result.
Supervised(t) == LET a == <<t, wo.epoch[t]>>
                 IN  a \in Attempts /\ Alive(a) /\ ~ex.swept[t]
TickJudges(t, verdict, next) ==
  /\ GateIdle /\ MoverQuiet /\ ~Supervised(t)
  /\ Judge(t, wo.epoch[t], verdict, next)
  /\ Receipts(ex) /\ Stays

\* The process dies and boots: threads are gone, its attempts are interrupted, its calls
\* uncertain; a question still out is waited for again on its own ticket.
Restart ==
  /\ restarts < MaxRestarts
  /\ seen' = {} /\ parking' = NoTask /\ UNCHANGED wo
  /\ LET asking(a) == InFlightAsk(wo, a[1]) /\ wo.epoch[a[1]] = a[2]
     IN  ex' = [ex EXCEPT
           !.attempt = [a \in Attempts |-> IF Unfinished(a) THEN "interrupted" ELSE ex.attempt[a]],
           !.revoked = @ \cup {a \in Attempts : Unfinished(a)},
           !.call    = [a \in Attempts |-> IF ex.call[a] = "in_flight" THEN "unknown" ELSE ex.call[a]],
           !.session = [a \in Attempts |-> IF asking(a) THEN "resumed"
                                           ELSE IF At(a, "none") THEN "none" ELSE "gone"]]
  /\ restarts' = restarts + 1

\* The ticket's outcome is recorded first, its receipt settled second.
ResumedRecords(a, outcome, denial) ==
  /\ At(a, "resumed")
  /\ RecordResult(a[1], a[2], outcome, denial)
  /\ Receipts(Goes(Counted(Released(ex, a[1]), a), a, "settling")) /\ Stays
ResumedRefused(a) ==
  /\ At(a, "resumed") /\ ~MayRecord(wo, a[1], a[2])
  /\ ex' = Goes(ex, a, "gone") /\ GraphUnchanged /\ Stays
SettleTicket(a) ==
  /\ At(a, "settling")
  /\ ex' = Goes([ex EXCEPT !.call[a] = IF @ = "unknown" THEN "settled" ELSE @], a, "rejudging")
  /\ GraphUnchanged /\ Stays

\* resolve_execution_call: the operator brings evidence of an uncertain call's outcome.
ResolveCall(a) ==
  /\ ex.call[a] = "unknown" /\ ex' = [ex EXCEPT !.call[a] = "settled"]
  /\ GraphUnchanged /\ Stays

\* The brain's, the owner's and the clock's writes of WorkGraph.
Elsewhere ==
  /\ \/ Abandon
     \/ \E n \in Nodes, s \in OwnerTargets : OwnerSetStatus(n, s)
     \/ \E t \in Tasks : OwnerAddTask(t) \/ TimePasses(t) \/ WatchExpires(t)
  /\ Receipts(ex) /\ Stays

-----------------------------------------------------------------------------
GateStep(a) == OpenSession(a) \/ OpenRefused(a) \/ StartThread(a) \/ LaunchFails(a)

\* What a thread does on its own; the end of its call is up to the tool.
Thread(a) ==
  \/ Begin(a) \/ AdmitCall(a) \/ RoomFails(a) \/ RecordRefused(a) \/ Leave(a)
  \/ ResumedRefused(a) \/ SettleTicket(a) \/ RoomDoesNotJudge(a)
  \/ \E outcome \in {"done", "failed"}, denial \in BOOLEAN : SessionRecords(a, outcome, denial)
  \/ \E verdict \in Verdicts, next \in NextSteps : RoomJudges(a, verdict, next)

Tool(a) ==
  \/ CancelAttempt(a) \/ BindsTicket(a) \/ WorkerWrites(a) \/ ResolveCall(a)
  \/ \E receipt \in CallStates, next \in InThread : CallEnds(a, receipt, next)
  \/ \E outcome \in {"done", "failed"}, denial \in BOOLEAN : ResumedRecords(a, outcome, denial)

Judgment(t) == \E verdict \in Verdicts, next \in NextSteps : TickJudges(t, verdict, next)

XNext ==
  \/ PassStep \/ Restart \/ Elsewhere
  \/ \E t \in Tasks : ClaimTask(t) \/ Sweep(t) \/ Judgment(t)
  \/ \E a \in Attempts : GateStep(a) \/ Thread(a) \/ Tool(a)

XSpec == XInit /\ [][XNext]_xvars

\* Threads run, the gate and the state mover finish their pass, and every pass of the
\* scheduler goes through the sweep (a stuck task is idle for good) and the recovery of
\* judgments, which are off while the gate or the mover is at work.
Fairness ==
  /\ \A a \in Attempts : WF_xvars(Thread(a)) /\ WF_xvars(GateStep(a))
  /\ WF_xvars(PassStep /\ (MoverEnds \/ \E t \in Tasks : MoverPromote(t)))
  /\ \A t \in Tasks : SF_xvars(Judgment(t)) /\ SF_xvars(Sweep(t))
FairSpec == XSpec /\ Fairness

-----------------------------------------------------------------------------
(* Properties.                                                               *)

\* The receipts and threads keep their ranges, and nothing runs without a durable row: whatever has a
\* session, or has made a call, has its attempt reserved first, also when a restart resumes it.
XTypeOK ==
  /\ WorkTyped
  /\ ex \in [attempt  : [Attempts -> AttemptStates],
             revoked  : SUBSET Attempts,
             swept    : [Tasks -> BOOLEAN],
             call     : [Attempts -> CallStates],
             session  : [Attempts -> SessionStates],
             recorded : [Attempts -> 0 .. 2]]
  /\ \A a \in Attempts : ex.attempt[a] = "none" => ex.session[a] = "none" /\ ex.call[a] = "none"

\* "Claiming replacement work is held across the whole work object": at most one attempt
\* is unfinished, and it is not running beside a call whose outcome is still open.
OneUnfinishedAttempt ==
  \A a, b \in Attempts : Unfinished(a) /\ (Unfinished(b) \/ OpenCall(b)) => a = b

\* A timed-out or cancelled thread is still there: until its thread has gone its row stays
\* running, so no replacement starts beside it.
ThreadHoldsItsRow ==
  \A a \in Attempts : ex.session[a] \in InThread => ex.attempt[a] = "running"

\* No external effect is started beside one in doubt: one open call in the work object.
OneOpenCall ==
  \A a, b \in Attempts : OpenCall(a) /\ OpenCall(b) => a = b

\* A call does not run on for a task that was given up: while it is out its attempt is the
\* authorized one, or it is revoked, so that every check its thread makes stops it.  (Work
\* that the architect ends as done revokes nothing; admission alone refuses there.)
CallStopsWithItsTask ==
  \A a \in Attempts : ex.call[a] = "in_flight" =>
     Authorized(a) \/ a \in ex.revoked \/ wo.work = "done"

\* Everything the sessions, the gate and the supervisor write is a step of WorkGraph.
ImplementsGraph == Init /\ [][Next]_vars

\* A recorded outcome does not wait for ever: it is judged, or overtaken, or its work ends.
JudgmentComes ==
  \A t \in Tasks : NeedsFinalization(wo, t) /\ ~Ended(wo)
                     ~> (~NeedsFinalization(wo, t) \/ Ended(wo))

\* No task stays in flight for ever: whatever became of its gate, its thread, its call or the
\* process, it gets a result, is taken away, or its work ends.
InFlightEnds ==
  \A t \in Tasks : wo.status[t] = "dispatched" /\ ~Ended(wo)
                     ~> (wo.status[t] # "dispatched" \/ Ended(wo))

\* result_recorder.py: "stale/duplicate results change nothing": one result per attempt.
OneResultPerAttempt == \A a \in Attempts : ex.recorded[a] <= 1

\* EXECUTION_OWNERSHIP.md: "Failed launches release reservations."  A reservation belongs
\* to a launch that is still under way.
ReservationIsReleased ==
  \A a \in Attempts : ex.attempt[a] = "reserved" /\ ~Ended(wo) => ex.session[a] \in AtGate
=============================================================================
