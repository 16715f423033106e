------------------------- MODULE WorkExecutionProofs -------------------------
(***************************************************************************)
(* Theorems about WorkExecution for every set of tasks and helpers, every     *)
(* number of dispatches and of restarts: its steps are steps of WorkGraph,     *)
(* and what its receipts keep apart.                                         *)
(***************************************************************************)
EXTENDS WorkExecution, WorkPromiseProofs

-----------------------------------------------------------------------------
(* The graph below the execution.                                            *)

DispatchesCounted == \A t \in Tasks : wo.epoch[t] <= MaxEpoch

\* No step of the graph counts a dispatch beyond the bound.
LEMMA StepCounts ==
  ASSUME WorkTyped, DispatchesCounted, Next
  PROVE  DispatchesCounted'
<1> SUFFICES ASSUME NEW t \in Tasks PROVE wo'.epoch[t] <= MaxEpoch
  BY DEF DispatchesCounted
<1>1. wo'.epoch[t] = wo.epoch[t] \/ wo'.epoch[t] <= MaxEpoch
  BY StepMoves DEF Idles, MovesOne, Revises, Ends, Rests, Appears, Dropped, SameAttempt, Counts
<1> QED
  BY <1>1 DEF DispatchesCounted

\* A failed dispatch is reported by a step of the graph, or the report is refused.
LEMMA FailNodeIsAStep ==
  ASSUME NEW a \in Attempts, FailNode(a)
  PROVE  [Next]_vars
<1>1. CASE GateFail(a[1], a[2])
  <2>1. a[1] \in Tasks /\ a[2] \in 0 .. MaxEpoch
    BY MaxEpochType DEF Attempts
  <2> QED
    BY <1>1, <2>1 DEF Next, Dispatch
<1>2. CASE GraphUnchanged
  BY <1>2 DEF GraphUnchanged, vars
<1> QED
  BY <1>1, <1>2 DEF FailNode

\* A session's result is a step of the graph.
LEMMA ResultIsAStep ==
  ASSUME NEW a \in Attempts, NEW outcome \in {"done", "failed"}, NEW denial \in BOOLEAN,
         RecordResult(a[1], a[2], outcome, denial)
  PROVE  Next
<1>1. a[1] \in Tasks /\ a[2] \in 0 .. MaxEpoch
  BY MaxEpochType DEF Attempts
<1> QED
  BY <1>1 DEF Next, Dispatch

\* A step of the execution is a step of the graph or leaves it alone.
LEMMA StepImplementsGraph ==
  ASSUME WorkTyped, DispatchesCounted, [XNext]_xvars
  PROVE  [Next]_vars
<1>1. CASE UNCHANGED xvars \/ GraphUnchanged
  BY <1>1 DEF xvars, GraphUnchanged, vars
<1>2. CASE PassStep
  BY <1>2 DEF PassStep, Next, Dispatch, Others
<1>3. CASE Restart
  <2>1. CASE seen = {} /\ parking = NoTask
    BY <1>3, <2>1 DEF Restart, vars
  <2>2. CASE ~(seen = {} /\ parking = NoTask)
    BY <1>3, <2>2 DEF Restart, Next, StateMover, MoverEnds
  <2> QED
    BY <2>1, <2>2
<1>4. CASE Elsewhere
  BY <1>4 DEF Elsewhere, Next, Others
<1>5. ASSUME NEW t \in Tasks, ClaimTask(t) \/ Sweep(t) PROVE Next
  BY <1>5 DEF ClaimTask, Sweep, Next, Dispatch
<1>6. ASSUME NEW t \in Tasks, Judgment(t) PROVE Next
  <2>1. wo.epoch[t] \in 0 .. MaxEpoch
    BY MaxEpochType DEF DispatchesCounted, WorkTyped, WorkObjects
  <2> QED
    BY <1>6, <2>1 DEF Judgment, TickJudges, Next, Dispatch
<1>7. ASSUME NEW a \in Attempts, GateStep(a) PROVE [Next]_vars
  BY <1>1, <1>7, FailNodeIsAStep DEF GateStep, OpenSession, OpenRefused, StartThread, LaunchFails
<1>8. ASSUME NEW a \in Attempts, Thread(a) PROVE [Next]_vars
  <2>1. ASSUME NEW outcome \in {"done", "failed"}, NEW denial \in BOOLEAN, SessionRecords(a, outcome, denial)
        PROVE  Next
    BY <2>1, ResultIsAStep DEF SessionRecords
  <2>2. ASSUME NEW verdict \in Verdicts, NEW next \in NextSteps, RoomJudges(a, verdict, next)
        PROVE  Next
    <3>1. a[1] \in Tasks /\ a[2] \in 0 .. MaxEpoch
      BY MaxEpochType DEF Attempts
    <3> QED
      BY <2>2, <3>1 DEF RoomJudges, Next, Dispatch
  <2>3. CASE \/ Begin(a) \/ AdmitCall(a) \/ RoomFails(a) \/ RecordRefused(a) \/ Leave(a)
             \/ ResumedRefused(a) \/ SettleTicket(a) \/ RoomDoesNotJudge(a)
    <3>1. GraphUnchanged
      BY <2>3 DEF Begin, AdmitCall, RoomFails, RecordRefused, Leave, ResumedRefused, SettleTicket,
         RoomDoesNotJudge
    <3> QED
      BY <1>1, <3>1
  <2> QED
    BY <1>8, <2>1, <2>2, <2>3 DEF Thread
<1>9. ASSUME NEW a \in Attempts, Tool(a) PROVE [Next]_vars
  <2>1. ASSUME NEW outcome \in {"done", "failed"}, NEW denial \in BOOLEAN, ResumedRecords(a, outcome, denial)
        PROVE  Next
    BY <2>1, ResultIsAStep DEF ResumedRecords
  <2>2. CASE BindsTicket(a)
    <3>1. a[1] \in Tasks /\ a[2] \in 0 .. MaxEpoch
      BY MaxEpochType DEF Attempts
    <3> QED
      BY <2>2, <3>1 DEF BindsTicket, Next, Dispatch
  <2>3. CASE WorkerWrites(a)
    BY <2>3 DEF WorkerWrites, Next, Others
  <2>4. CASE CancelAttempt(a) \/ ResolveCall(a)
    BY <1>1, <2>4 DEF CancelAttempt, ResolveCall
  <2>5. ASSUME NEW receipt, NEW next, CallEnds(a, receipt, next) PROVE [Next]_vars
    BY <1>1, <2>5 DEF CallEnds
  <2> QED
    BY <1>9, <2>1, <2>2, <2>3, <2>4, <2>5 DEF Tool
<1> QED
  BY <1>1, <1>2, <1>3, <1>4, <1>5, <1>6, <1>7, <1>8, <1>9 DEF XNext

\* A step of the execution keeps the graph well typed and its dispatches counted.
LEMMA StepKeepsGraph ==
  ASSUME WorkTyped, DispatchesCounted, [XNext]_xvars
  PROVE  WorkTyped' /\ DispatchesCounted'
<1>1. [Next]_vars
  BY StepImplementsGraph
<1>2. CASE UNCHANGED vars
  BY <1>2 DEF vars, WorkTyped, DispatchesCounted
<1>3. CASE Next
  BY <1>3, TypeStep, StepCounts
<1> QED
  BY <1>1, <1>2, <1>3

\* Everything that the gate, the sessions, the sweeper, the recovery and a restart write is a step
\* of the work graph, so that what is proved of the graph holds of every execution of it.
THEOREM ExecutionImplementsGraph == XSpec => ImplementsGraph
<1>1. XInit => Init /\ WorkTyped /\ DispatchesCounted
  <2>1. Init => WorkTyped
    BY NewIsTyped DEF Init, WorkTyped
  <2>2. Init => DispatchesCounted
    BY MaxEpochType DEF Init, NewWorkObject, DispatchesCounted
  <2> QED
    BY <2>1, <2>2 DEF XInit
<1>2. WorkTyped /\ DispatchesCounted /\ [XNext]_xvars => WorkTyped' /\ DispatchesCounted' /\ [Next]_vars
  BY StepKeepsGraph, StepImplementsGraph
<1> QED
  BY <1>1, <1>2, PTL DEF XSpec, ImplementsGraph

-----------------------------------------------------------------------------
(* Type correctness of the receipts.                                         *)

ExStates == [attempt  : [Attempts -> AttemptStates],
             revoked  : SUBSET Attempts,
             swept    : [Tasks -> BOOLEAN],
             call     : [Attempts -> CallStates],
             session  : [Attempts -> SessionStates],
             recorded : [Attempts -> 0 .. 2]]
ReceiptsOK == ex \in ExStates

\* The operators on receipts keep their ranges.
LEMMA ReceiptsAreTyped ==
  ASSUME NEW x \in ExStates
  PROVE  /\ \A a \in Attempts, s \in SessionStates : Goes(x, a, s) \in ExStates
         /\ \A a \in Attempts, s \in AttemptStates : [x EXCEPT !.attempt[a] = s] \in ExStates
         /\ \A a \in Attempts, s \in CallStates : [x EXCEPT !.call[a] = s] \in ExStates
         /\ \A A \in SUBSET Attempts : [x EXCEPT !.revoked = @ \cup A] \in ExStates
         /\ \A t \in Tasks : Released(x, t) \in ExStates
         /\ \A a \in Attempts : Counted(x, a) \in ExStates
         /\ Receipts(x) => ex' \in ExStates
<1>1. \A a \in Attempts, s \in SessionStates : Goes(x, a, s) \in ExStates
  BY DEF Goes, ExStates
<1>2. \A a \in Attempts, s \in AttemptStates : [x EXCEPT !.attempt[a] = s] \in ExStates
  BY DEF ExStates
<1>3. \A a \in Attempts, s \in CallStates : [x EXCEPT !.call[a] = s] \in ExStates
  BY DEF ExStates
<1>4. \A A \in SUBSET Attempts : [x EXCEPT !.revoked = @ \cup A] \in ExStates
  BY DEF ExStates
<1>5. ASSUME NEW t \in Tasks PROVE Released(x, t) \in ExStates
  <2> DEFINE attempt == [a \in Attempts |-> IF a[1] = t /\ x.attempt[a] = "reserved"
                                            THEN "exited" ELSE x.attempt[a]]
  <2>1. attempt \in [Attempts -> AttemptStates]
    BY DEF ExStates, AttemptStates
  <2> HIDE DEF attempt
  <2>2. [x EXCEPT !.attempt = attempt] \in ExStates
    BY <2>1 DEF ExStates
  <2> QED
    BY <2>2 DEF Released, attempt
<1>6. ASSUME NEW a \in Attempts PROVE Counted(x, a) \in ExStates
  <2>1. x.recorded[a] \in 0 .. 2
    BY DEF ExStates
  <2>2. (IF x.recorded[a] = 2 THEN 2 ELSE x.recorded[a] + 1) \in 0 .. 2
    BY <2>1
  <2> QED
    BY <2>2 DEF Counted, ExStates
<1>7. ASSUME Receipts(x) PROVE ex' \in ExStates
  <2>1. RevokedBy(wo') \in SUBSET Attempts
    BY DEF RevokedBy
  <2> QED
    BY <1>4, <1>7, <2>1 DEF Receipts
<1> QED
  BY <1>1, <1>2, <1>3, <1>4, <1>5, <1>6, <1>7

\* Every step of the execution keeps the ranges of its receipts.
LEMMA StepKeepsReceipts ==
  ASSUME WorkTyped, ex \in ExStates, [XNext]_xvars
  PROVE  ex' \in ExStates
<1> USE DEF GraphUnchanged, Stays
<1>1. CASE UNCHANGED xvars
  BY <1>1 DEF xvars
<1>2. CASE PassStep \/ Elsewhere
  BY <1>2, ReceiptsAreTyped DEF PassStep, Elsewhere
<1>3. CASE Restart
  <2> DEFINE asking(a) == InFlightAsk(wo, a[1]) /\ wo.epoch[a[1]] = a[2]
             attempt == [a \in Attempts |-> IF Unfinished(a) THEN "interrupted" ELSE ex.attempt[a]]
             call    == [a \in Attempts |-> IF ex.call[a] = "in_flight" THEN "unknown" ELSE ex.call[a]]
             session == [a \in Attempts |-> IF asking(a) THEN "resumed"
                                            ELSE IF At(a, "none") THEN "none" ELSE "gone"]
             revoked == ex.revoked \cup {a \in Attempts : Unfinished(a)}
  <2>1. attempt \in [Attempts -> AttemptStates] /\ call \in [Attempts -> CallStates]
        /\ revoked \in SUBSET Attempts
    BY DEF ExStates, AttemptStates, CallStates
  <2>2. session \in [Attempts -> SessionStates]
    BY DEF SessionStates, Recovering
  <2>3. ex' = [ex EXCEPT !.attempt = attempt, !.revoked = revoked, !.call = call, !.session = session]
    BY <1>3 DEF Restart
  <2> HIDE DEF attempt, call, session, revoked
  <2> QED
    BY <2>1, <2>2, <2>3 DEF ExStates
<1>4. ASSUME NEW t \in Tasks, ClaimTask(t) PROVE ex' \in ExStates
  <2> DEFINE a == <<t, wo.epoch[t] + 1>>
  <2>1. a \in Attempts
    BY <1>4, MaxEpochType DEF ClaimTask, Claim, Attempts, WorkTyped, WorkObjects
  <2>2. "reserved" \in AttemptStates /\ "claimed" \in SessionStates
    BY DEF AttemptStates, SessionStates, AtGate
  <2>3. Receipts(Goes([ex EXCEPT !.attempt[a] = "reserved"], a, "claimed"))
    BY <1>4 DEF ClaimTask
  <2> HIDE DEF a
  <2>4. [ex EXCEPT !.attempt[a] = "reserved"] \in ExStates
    BY <2>1, <2>2, ReceiptsAreTyped
  <2> DEFINE x == [ex EXCEPT !.attempt[a] = "reserved"]
  <2>5. Goes(x, a, "claimed") \in ExStates
    <3> HIDE DEF x
    <3> QED
      BY <2>1, <2>2, <2>4, ReceiptsAreTyped DEF x
  <2> QED
    BY <2>3, <2>5, ReceiptsAreTyped
<1>5. ASSUME NEW t \in Tasks, Sweep(t) PROVE ex' \in ExStates
  <2> DEFINE swept == {a \in Attempts : a = <<t, wo.epoch[t]>> /\ ex.attempt[a] # "none"}
             given == IF swept = {} THEN Released(ex, t)
                      ELSE Counted(Released(ex, t), <<t, wo.epoch[t]>>)
  <2>1. Receipts([given EXCEPT !.revoked = @ \cup swept, !.swept[t] = TRUE])
    BY <1>5 DEF Sweep
  <2>2. given \in ExStates
    <3>1. Released(ex, t) \in ExStates
      BY ReceiptsAreTyped
    <3>2. CASE swept # {}
      <4>1. <<t, wo.epoch[t]>> \in Attempts
        BY <3>2
      <4> QED
        BY <3>1, <3>2, <4>1, ReceiptsAreTyped
    <3> QED
      BY <3>1, <3>2
  <2>3. swept \subseteq Attempts
    OBVIOUS
  <2> HIDE DEF given, swept
  <2>4. [given EXCEPT !.revoked = @ \cup swept, !.swept[t] = TRUE] \in ExStates
    BY <2>2, <2>3 DEF ExStates
  <2> QED
    BY <2>1, <2>4, ReceiptsAreTyped
<1>6. ASSUME NEW t \in Tasks, Judgment(t) PROVE ex' \in ExStates
  BY <1>6, ReceiptsAreTyped DEF Judgment, TickJudges
<1>7. ASSUME NEW a \in Attempts, NEW s \in SessionStates, ex' = Goes(ex, a, s) PROVE ex' \in ExStates
  BY <1>7, ReceiptsAreTyped
<1>8. ASSUME NEW a \in Attempts, NEW s \in SessionStates, NEW p \in AttemptStates
      PROVE  Goes([ex EXCEPT !.attempt[a] = p], a, s) \in ExStates
  <2> DEFINE x == [ex EXCEPT !.attempt[a] = p]
  <2>1. x \in ExStates
    BY ReceiptsAreTyped
  <2> HIDE DEF x
  <2>2. Goes(x, a, s) \in ExStates
    BY <2>1, ReceiptsAreTyped
  <2> QED
    BY <2>2 DEF x
<1>9. ASSUME NEW a \in Attempts, NEW s \in SessionStates, NEW p \in CallStates
      PROVE  Goes([ex EXCEPT !.call[a] = p], a, s) \in ExStates
  <2> DEFINE x == [ex EXCEPT !.call[a] = p]
  <2>1. x \in ExStates
    BY ReceiptsAreTyped
  <2> HIDE DEF x
  <2>2. Goes(x, a, s) \in ExStates
    BY <2>1, ReceiptsAreTyped
  <2> QED
    BY <2>2 DEF x
<1>10. ASSUME NEW a \in Attempts, NEW s \in SessionStates, Receipts(Goes(Counted(Released(ex, a[1]), a), a, s))
       PROVE  ex' \in ExStates
  <2>1. Released(ex, a[1]) \in ExStates
    BY ReceiptsAreTyped DEF Attempts
  <2>2. Counted(Released(ex, a[1]), a) \in ExStates
    BY <2>1, ReceiptsAreTyped
  <2>3. Goes(Counted(Released(ex, a[1]), a), a, s) \in ExStates
    BY <2>2, ReceiptsAreTyped
  <2> QED
    BY <1>10, <2>3, ReceiptsAreTyped
<1> USE DEF SessionStates, AtGate, InThread, Recovering, AttemptStates, CallStates
<1>11. ASSUME NEW a \in Attempts, GateStep(a) PROVE ex' \in ExStates
  <2>1. CASE OpenSession(a)
    BY <1>8, <2>1 DEF OpenSession
  <2>2. CASE OpenRefused(a)
    BY <2>2, ReceiptsAreTyped DEF OpenRefused
  <2>3. CASE StartThread(a)
    BY <1>7, <2>3 DEF StartThread
  <2>4. CASE LaunchFails(a)
    BY <1>8, <2>4, ReceiptsAreTyped DEF LaunchFails
  <2> QED
    BY <1>11, <2>1, <2>2, <2>3, <2>4 DEF GateStep
<1>12. ASSUME NEW a \in Attempts, Thread(a) PROVE ex' \in ExStates
  <2>1. CASE Begin(a) \/ RoomFails(a) \/ RecordRefused(a) \/ ResumedRefused(a) \/ RoomDoesNotJudge(a)
    BY <1>7, <2>1 DEF Begin, RoomFails, RecordRefused, ResumedRefused, RoomDoesNotJudge
  <2>2. CASE AdmitCall(a)
    BY <1>9, <2>2 DEF AdmitCall
  <2>3. CASE Leave(a)
    BY <1>8, <2>3 DEF Leave
  <2>4. CASE SettleTicket(a)
    <3>1. ex.call[a] \in CallStates
      BY DEF ExStates
    <3>2. ex' = Goes([ex EXCEPT !.call[a] = IF ex.call[a] = "unknown" THEN "settled" ELSE ex.call[a]], a, "rejudging")
      BY <2>4 DEF SettleTicket
    <3> QED
      BY <1>9, <3>1, <3>2
  <2>5. ASSUME NEW outcome, NEW denial, SessionRecords(a, outcome, denial) PROVE ex' \in ExStates
    BY <1>10, <2>5 DEF SessionRecords
  <2>6. ASSUME NEW verdict, NEW next, RoomJudges(a, verdict, next) PROVE ex' \in ExStates
    BY <2>6, ReceiptsAreTyped DEF RoomJudges
  <2> QED
    BY <1>12, <2>1, <2>2, <2>3, <2>4, <2>5, <2>6 DEF Thread
<1>13. ASSUME NEW a \in Attempts, Tool(a) PROVE ex' \in ExStates
  <2>1. CASE CancelAttempt(a)
    BY <2>1, ReceiptsAreTyped DEF CancelAttempt
  <2>2. CASE BindsTicket(a) \/ WorkerWrites(a)
    BY <2>2, ReceiptsAreTyped DEF BindsTicket, WorkerWrites
  <2>3. CASE ResolveCall(a)
    BY <2>3, ReceiptsAreTyped DEF ResolveCall
  <2>4. ASSUME NEW receipt, NEW next, CallEnds(a, receipt, next) PROVE ex' \in ExStates
    BY <1>9, <2>4 DEF CallEnds
  <2>5. ASSUME NEW outcome, NEW denial, ResumedRecords(a, outcome, denial) PROVE ex' \in ExStates
    BY <1>10, <2>5 DEF ResumedRecords
  <2> QED
    BY <1>13, <2>1, <2>2, <2>3, <2>4, <2>5 DEF Tool
<1> QED
  BY <1>1, <1>2, <1>3, <1>4, <1>5, <1>6, <1>11, <1>12, <1>13 DEF XNext

-----------------------------------------------------------------------------
(* The ways an attempt can move, each a relation between its receipts before  *)
(* and after.                                                                *)

SameCall(a)    == ex'.call[a] = ex.call[a]
SameSession(a) == ex'.session[a] = ex.session[a]
\* Its row stays, or its reservation is released.
RowOrReleased(a) == \/ ex'.attempt[a] = ex.attempt[a]
                    \/ ex.attempt[a] = "reserved" /\ ex'.attempt[a] = "exited"

Aside(a) == SameCall(a) /\ SameSession(a) /\ RowOrReleased(a)

Reserves(a) == /\ ~ExecutionBlocked /\ ex'.attempt[a] = "reserved" /\ ex'.session[a] = "claimed"
               /\ SameCall(a)
Opens(a)    == /\ ex.session[a] = "claimed" /\ Unfinished(a)
               /\ ex'.attempt[a] = "running" /\ ex'.session[a] = "stamping" /\ SameCall(a)
Launches(a) == /\ ex.session[a] = "stamping" /\ ex'.session[a] = "begin"
               /\ ex'.attempt[a] = ex.attempt[a] /\ SameCall(a)
GoesOn(a)   == /\ ex.session[a] \in InThread \ {"calling"} /\ ex'.session[a] \in InThread \ {"calling"}
               /\ RowOrReleased(a) /\ SameCall(a)
Admitted(a) == /\ ex.session[a] = "ready" /\ Authorized(a) /\ ex'.session[a] = "calling"
               /\ ex'.attempt[a] = ex.attempt[a] /\ ex'.call[a] = "in_flight" /\ wo' = wo
Returns(a)  == /\ ex.session[a] = "calling" /\ ex'.session[a] \in InThread \ {"calling"}
               /\ ex'.attempt[a] = ex.attempt[a] /\ ex'.call[a] \in {"settled", "unknown"}
Recovers(a) == /\ ex.session[a] \in Recovering /\ ex'.session[a] \in Recovering
               /\ RowOrReleased(a)
               /\ SameCall(a) \/ (ex.call[a] = "unknown" /\ ex'.call[a] = "settled")
Exits(a)    == /\ ex.session[a] \notin {"calling", "none"} /\ ex'.session[a] = "gone"
               /\ ex'.attempt[a] = ex.attempt[a] \/ ex'.attempt[a] = "exited"
               /\ SameCall(a)
Resolved(a) == /\ SameSession(a) /\ ex'.attempt[a] = ex.attempt[a]
               /\ ex.call[a] = "unknown" /\ ex'.call[a] = "settled"

AttemptMoves(a) == \/ Reserves(a) \/ Opens(a) \/ Launches(a) \/ GoesOn(a) \/ Admitted(a)
                   \/ Returns(a) \/ Recovers(a) \/ Exits(a) \/ Resolved(a)

\* One attempt moves at a time; the others keep their receipts or lose a reservation.
OneAttemptMoves == \/ \A b \in Attempts : Aside(b)
                   \/ \E a \in Attempts : AttemptMoves(a) /\ \A b \in Attempts \ {a} : Aside(b)

\* What the receipt operators leave alone.
LEMMA ReceiptFields ==
  ASSUME NEW x \in ExStates
  PROVE  /\ Receipts(x) => /\ ex'.attempt = x.attempt /\ ex'.call = x.call /\ ex'.session = x.session
                           /\ ex'.revoked = x.revoked \cup RevokedBy(wo')
         /\ \A t \in Tasks : /\ Released(x, t) \in ExStates
                             /\ Released(x, t).call = x.call /\ Released(x, t).session = x.session
                             /\ Released(x, t).revoked = x.revoked
                             /\ \A a \in Attempts : \/ Released(x, t).attempt[a] = x.attempt[a]
                                                    \/ x.attempt[a] = "reserved" /\ Released(x, t).attempt[a] = "exited"
         /\ \A a \in Attempts : /\ Counted(x, a) \in ExStates
                                /\ Counted(x, a).attempt = x.attempt /\ Counted(x, a).call = x.call
                                /\ Counted(x, a).session = x.session /\ Counted(x, a).revoked = x.revoked
         /\ \A a \in Attempts : \A s :
              /\ Goes(x, a, s).attempt = x.attempt /\ Goes(x, a, s).call = x.call
              /\ Goes(x, a, s).revoked = x.revoked
              /\ Goes(x, a, s).session = [x.session EXCEPT ![a] = s]
<1>1. ASSUME Receipts(x)
      PROVE  /\ ex'.attempt = x.attempt /\ ex'.call = x.call /\ ex'.session = x.session
             /\ ex'.revoked = x.revoked \cup RevokedBy(wo')
  BY <1>1 DEF Receipts, ExStates
<1>2. ASSUME NEW t \in Tasks
      PROVE  /\ Released(x, t) \in ExStates
             /\ Released(x, t).call = x.call /\ Released(x, t).session = x.session
             /\ Released(x, t).revoked = x.revoked
             /\ \A a \in Attempts : \/ Released(x, t).attempt[a] = x.attempt[a]
                                    \/ x.attempt[a] = "reserved" /\ Released(x, t).attempt[a] = "exited"
  <2>1. Released(x, t) \in ExStates
    BY ReceiptsAreTyped
  <2> QED
    BY <2>1 DEF Released, ExStates
<1>3. ASSUME NEW a \in Attempts
      PROVE  /\ Counted(x, a) \in ExStates
             /\ Counted(x, a).attempt = x.attempt /\ Counted(x, a).call = x.call
             /\ Counted(x, a).session = x.session /\ Counted(x, a).revoked = x.revoked
  <2>1. Counted(x, a) \in ExStates
    BY ReceiptsAreTyped
  <2> QED
    BY <2>1 DEF Counted, ExStates
<1>4. ASSUME NEW a \in Attempts, NEW s
      PROVE  /\ Goes(x, a, s).attempt = x.attempt /\ Goes(x, a, s).call = x.call
             /\ Goes(x, a, s).revoked = x.revoked
             /\ Goes(x, a, s).session = [x.session EXCEPT ![a] = s]
  BY DEF Goes, ExStates
<1> QED
  BY <1>1, <1>2, <1>3, <1>4

\* The receipts become x, with or without a transaction on the graph.
Becomes(x) == ex' = x \/ Receipts(x)

\* A step that takes the session of a from receipts y to s keeps the rows and calls of y.
LEMMA SessionGoes ==
  ASSUME NEW y \in ExStates, NEW a \in Attempts, NEW s \in SessionStates, y.session = ex.session,
         Becomes(Goes(y, a, s))
  PROVE  /\ ex'.attempt = y.attempt /\ ex'.call = y.call
         /\ ex'.session = [ex.session EXCEPT ![a] = s]
<1> DEFINE x == Goes(y, a, s)
<1>1. /\ x \in ExStates /\ x.attempt = y.attempt /\ x.call = y.call
      /\ x.session = [ex.session EXCEPT ![a] = s]
  BY ReceiptsAreTyped, ReceiptFields
<1>2. ex' = x \/ Receipts(x)
  BY DEF Becomes
<1> HIDE DEF x
<1>3. ex'.attempt = x.attempt /\ ex'.call = x.call /\ ex'.session = x.session
  BY <1>1, <1>2, ReceiptFields
<1> QED
  BY <1>1, <1>3

\* A step of one attempt's session.
LEMMA SessionMoves ==
  ASSUME ex \in ExStates, NEW a \in Attempts, NEW s \in SessionStates, Becomes(Goes(ex, a, s))
  PROVE  /\ ex'.attempt[a] = ex.attempt[a] /\ SameCall(a) /\ ex'.session[a] = s
         /\ \A b \in Attempts \ {a} : Aside(b)
<1>1. /\ ex'.attempt = ex.attempt /\ ex'.call = ex.call
      /\ ex'.session = [ex.session EXCEPT ![a] = s]
  BY SessionGoes
<1> QED
  BY <1>1 DEF ExStates, Aside, SameCall, SameSession, RowOrReleased

\* A step of one attempt's session and row.
LEMMA RowMoves ==
  ASSUME ex \in ExStates, NEW a \in Attempts, NEW s \in SessionStates, NEW p \in AttemptStates,
         Becomes(Goes([ex EXCEPT !.attempt[a] = p], a, s))
  PROVE  /\ ex'.attempt[a] = p /\ SameCall(a) /\ ex'.session[a] = s
         /\ \A b \in Attempts \ {a} : Aside(b)
<1> DEFINE y == [ex EXCEPT !.attempt[a] = p]
<1>1. /\ y \in ExStates /\ y.attempt = [ex.attempt EXCEPT ![a] = p]
      /\ y.call = ex.call /\ y.session = ex.session
  BY DEF ExStates
<1>2. Becomes(Goes(y, a, s))
  OBVIOUS
<1> HIDE DEF y
<1>3. /\ ex'.attempt = y.attempt /\ ex'.call = y.call
      /\ ex'.session = [ex.session EXCEPT ![a] = s]
  BY <1>1, <1>2, SessionGoes
<1> QED
  BY <1>1, <1>3 DEF ExStates, Aside, SameCall, SameSession, RowOrReleased

\* A step of one attempt's session and call.
LEMMA CallMoves ==
  ASSUME ex \in ExStates, NEW a \in Attempts, NEW s \in SessionStates, NEW c \in CallStates,
         Becomes(Goes([ex EXCEPT !.call[a] = c], a, s))
  PROVE  /\ ex'.attempt[a] = ex.attempt[a] /\ ex'.call[a] = c /\ ex'.session[a] = s
         /\ \A b \in Attempts \ {a} : Aside(b)
<1> DEFINE y == [ex EXCEPT !.call[a] = c]
<1>1. /\ y \in ExStates /\ y.attempt = ex.attempt
      /\ y.call = [ex.call EXCEPT ![a] = c] /\ y.session = ex.session
  BY DEF ExStates
<1>2. Becomes(Goes(y, a, s))
  OBVIOUS
<1> HIDE DEF y
<1>3. /\ ex'.attempt = y.attempt /\ ex'.call = y.call
      /\ ex'.session = [ex.session EXCEPT ![a] = s]
  BY <1>1, <1>2, SessionGoes
<1> QED
  BY <1>1, <1>3 DEF ExStates, Aside, SameCall, SameSession, RowOrReleased

\* The receipts of a transaction that releases reservations, stores a result of attempt a, and
\* lets its session go on.
LEMMA ResultReceipts ==
  ASSUME ex \in ExStates, NEW a \in Attempts, NEW s \in SessionStates,
         Receipts(Goes(Counted(Released(ex, a[1]), a), a, s))
  PROVE  /\ ex'.session[a] = s /\ SameCall(a) /\ RowOrReleased(a)
         /\ \A b \in Attempts \ {a} : Aside(b)
<1> DEFINE released == Released(ex, a[1])
           counted  == Counted(released, a)
           gone     == Goes(counted, a, s)
<1>1. /\ released \in ExStates /\ released.call = ex.call /\ released.session = ex.session
      /\ \A b \in Attempts : \/ released.attempt[b] = ex.attempt[b]
                             \/ ex.attempt[b] = "reserved" /\ released.attempt[b] = "exited"
  BY ReceiptFields DEF Attempts
<1> HIDE DEF released
<1>2. /\ counted \in ExStates /\ counted.attempt = released.attempt /\ counted.call = released.call
      /\ counted.session = released.session
  BY <1>1, ReceiptFields
<1> HIDE DEF counted
<1>3. /\ gone \in ExStates /\ gone.attempt = counted.attempt /\ gone.call = counted.call
      /\ gone.session = [counted.session EXCEPT ![a] = s]
  BY <1>2, ReceiptFields, ReceiptsAreTyped
<1> HIDE DEF gone
<1>4. ex'.attempt = gone.attempt /\ ex'.call = gone.call /\ ex'.session = gone.session
  BY <1>3, ReceiptFields DEF gone, counted, released
<1>5. ex.session \in [Attempts -> SessionStates]
  BY DEF ExStates
<1> QED
  BY <1>1, <1>2, <1>3, <1>4, <1>5 DEF Aside, SameCall, SameSession, RowOrReleased

\* Every step but a restart moves at most one attempt, in one of those ways.
LEMMA StepMovesOneAttempt ==
  ASSUME WorkTyped, ex \in ExStates, XNext, ~Restart
  PROVE  OneAttemptMoves
<1> USE DEF GraphUnchanged, Stays
<1>1. ex' \in ExStates
  BY StepKeepsReceipts
<1>2. ASSUME ex'.attempt = ex.attempt, ex'.call = ex.call, ex'.session = ex.session PROVE OneAttemptMoves
  BY <1>2 DEF OneAttemptMoves, Aside, SameCall, SameSession, RowOrReleased
<1>3. ASSUME Receipts(ex) PROVE OneAttemptMoves
  BY <1>2, <1>3, ReceiptFields
<1>4. CASE PassStep \/ Elsewhere
  BY <1>3, <1>4 DEF PassStep, Elsewhere
<1>5. ASSUME NEW t \in Tasks, ClaimTask(t) PROVE OneAttemptMoves
  <2> DEFINE a == <<t, wo.epoch[t] + 1>>
             x == [ex EXCEPT !.attempt[a] = "reserved"]
             y == Goes(x, a, "claimed")
  <2>1. a \in Attempts
    BY <1>5, MaxEpochType DEF ClaimTask, Claim, Attempts, WorkTyped, WorkObjects
  <2>2. Receipts(y) /\ ~ExecutionBlocked
    BY <1>5 DEF ClaimTask
  <2> HIDE DEF a
  <2>3. x \in ExStates
    BY <2>1, ReceiptsAreTyped DEF AttemptStates
  <2>4. x.attempt = [ex.attempt EXCEPT ![a] = "reserved"] /\ x.call = ex.call /\ x.session = ex.session
    BY DEF ExStates
  <2> HIDE DEF x
  <2>5. y \in ExStates /\ y.attempt = x.attempt /\ y.call = x.call
        /\ y.session = [x.session EXCEPT ![a] = "claimed"]
    BY <2>1, <2>3, ReceiptsAreTyped, ReceiptFields DEF SessionStates, AtGate
  <2> HIDE DEF y
  <2>6. ex'.attempt = y.attempt /\ ex'.call = y.call /\ ex'.session = y.session
    BY <2>2, <2>5, ReceiptFields
  <2>7. Reserves(a) /\ \A b \in Attempts \ {a} : Aside(b)
    BY <2>1, <2>2, <2>4, <2>5, <2>6 DEF ExStates, Reserves, Aside, SameCall, SameSession, RowOrReleased
  <2> QED
    BY <2>1, <2>7 DEF OneAttemptMoves, AttemptMoves
<1>6. ASSUME NEW t \in Tasks, Sweep(t) PROVE OneAttemptMoves
  <2> DEFINE swept == {a \in Attempts : a = <<t, wo.epoch[t]>> /\ ex.attempt[a] # "none"}
             released == Released(ex, t)
             given == IF swept = {} THEN released ELSE Counted(released, <<t, wo.epoch[t]>>)
             y == [given EXCEPT !.revoked = @ \cup swept, !.swept[t] = TRUE]
  <2>1. Receipts(y)
    BY <1>6 DEF Sweep
  <2>2. swept # {} => <<t, wo.epoch[t]>> \in Attempts
    OBVIOUS
  <2>3. swept \subseteq Attempts
    OBVIOUS
  <2> HIDE DEF swept
  <2>4. /\ released \in ExStates /\ released.call = ex.call /\ released.session = ex.session
        /\ \A a \in Attempts : \/ released.attempt[a] = ex.attempt[a]
                               \/ ex.attempt[a] = "reserved" /\ released.attempt[a] = "exited"
    BY ReceiptFields
  <2> HIDE DEF released
  <2>5. /\ given \in ExStates /\ given.attempt = released.attempt /\ given.call = released.call
        /\ given.session = released.session
    BY <2>2, <2>4, ReceiptFields
  <2> HIDE DEF given
  <2>6. y \in ExStates /\ y.attempt = given.attempt /\ y.call = given.call /\ y.session = given.session
    BY <2>3, <2>5 DEF ExStates
  <2> HIDE DEF y
  <2>7. ex'.attempt = y.attempt /\ ex'.call = y.call /\ ex'.session = y.session
    BY <2>1, <2>6, ReceiptFields
  <2>8. \A a \in Attempts : Aside(a)
    BY <2>4, <2>5, <2>6, <2>7 DEF Aside, SameCall, SameSession, RowOrReleased
  <2> QED
    BY <2>8 DEF OneAttemptMoves
<1>7. ASSUME NEW t \in Tasks, Judgment(t) PROVE OneAttemptMoves
  BY <1>3, <1>7 DEF Judgment, TickJudges
<1>8. ASSUME NEW a \in Attempts PROVE ex.attempt[a] \in AttemptStates /\ ex.call[a] \in CallStates
  BY DEF ExStates
<1>9. ASSUME NEW a \in Attempts, NEW s \in SessionStates, ex' = Goes(ex, a, s) \/ Receipts(Goes(ex, a, s))
      PROVE  /\ ex'.attempt[a] = ex.attempt[a] /\ SameCall(a) /\ ex'.session[a] = s
             /\ \A b \in Attempts \ {a} : Aside(b)
  BY <1>9, SessionMoves DEF Becomes
<1>10. ASSUME NEW a \in Attempts, AttemptMoves(a), \A b \in Attempts \ {a} : Aside(b) PROVE OneAttemptMoves
  BY <1>10 DEF OneAttemptMoves
<1> USE DEF SessionStates, AtGate, InThread, Recovering, At
<1>11. ASSUME NEW a \in Attempts, GateStep(a) PROVE OneAttemptMoves
  <2>2. CASE OpenSession(a)
    <3>1. Opens(a) /\ \A b \in Attempts \ {a} : Aside(b)
      BY <2>2, RowMoves DEF Becomes, OpenSession, Opens, AttemptStates, Authorized
    <3> QED
      BY <1>10, <3>1 DEF AttemptMoves
  <2>3. CASE OpenRefused(a)
    <3>1. Exits(a) /\ \A b \in Attempts \ {a} : Aside(b)
      BY <1>9, <2>3 DEF OpenRefused, Exits
    <3> QED
      BY <1>10, <3>1 DEF AttemptMoves
  <2>4. CASE StartThread(a)
    <3>1. Launches(a) /\ \A b \in Attempts \ {a} : Aside(b)
      BY <1>9, <2>4 DEF StartThread, Launches
    <3> QED
      BY <1>10, <3>1 DEF AttemptMoves
  <2>5. CASE LaunchFails(a)
    <3>1. Exits(a) /\ \A b \in Attempts \ {a} : Aside(b)
      BY <2>5, RowMoves DEF Becomes, LaunchFails, Exits, AttemptStates
    <3> QED
      BY <1>10, <3>1 DEF AttemptMoves
  <2> QED
    BY <1>11, <2>2, <2>3, <2>4, <2>5 DEF GateStep
<1>12. ASSUME NEW a \in Attempts, NEW c \in CallStates, NEW s \in SessionStates,
              ex' = Goes([ex EXCEPT !.call[a] = c], a, s)
       PROVE  /\ ex'.attempt[a] = ex.attempt[a] /\ ex'.call[a] = c /\ ex'.session[a] = s
              /\ \A b \in Attempts \ {a} : Aside(b)
  BY <1>12, CallMoves DEF Becomes
<1>13. ASSUME NEW a \in Attempts, Thread(a) PROVE OneAttemptMoves
  <2>1. CASE Begin(a) \/ RoomFails(a)
    <3>1. GoesOn(a) /\ \A b \in Attempts \ {a} : Aside(b)
      BY <1>9, <2>1 DEF Begin, RoomFails, GoesOn, RowOrReleased
    <3> QED
      BY <1>10, <3>1 DEF AttemptMoves
  <2>2. CASE RecordRefused(a)
    <3>1. GoesOn(a) /\ \A b \in Attempts \ {a} : Aside(b)
      BY <1>9, <2>2 DEF RecordRefused, GoesOn, RowOrReleased
    <3> QED
      BY <1>10, <3>1 DEF AttemptMoves
  <2>3. CASE AdmitCall(a)
    <3>1. Admitted(a) /\ \A b \in Attempts \ {a} : Aside(b)
      BY <1>12, <2>3 DEF AdmitCall, Admitted, CallStates
    <3> QED
      BY <1>10, <3>1 DEF AttemptMoves
  <2>4. CASE Leave(a)
    <3>1. "exited" \in AttemptStates /\ ex' = Goes([ex EXCEPT !.attempt[a] = "exited"], a, "gone")
      BY <2>4 DEF Leave, AttemptStates
    <3>2. Exits(a) /\ \A b \in Attempts \ {a} : Aside(b)
      BY <2>4, <3>1, RowMoves DEF Becomes, Leave, Exits
    <3> QED
      BY <1>10, <3>2 DEF AttemptMoves
  <2>5. CASE ResumedRefused(a)
    <3>1. Exits(a) /\ \A b \in Attempts \ {a} : Aside(b)
      BY <1>9, <2>5 DEF ResumedRefused, Exits
    <3> QED
      BY <1>10, <3>1 DEF AttemptMoves
  <2>6. CASE SettleTicket(a)
    <3> DEFINE c == IF ex.call[a] = "unknown" THEN "settled" ELSE ex.call[a]
    <3>1. c \in CallStates
      BY <1>8 DEF CallStates
    <3>2. ex' = Goes([ex EXCEPT !.call[a] = c], a, "rejudging") /\ ex.session[a] = "settling"
      BY <2>6 DEF SettleTicket
    <3>3. c = ex.call[a] \/ (ex.call[a] = "unknown" /\ c = "settled")
      OBVIOUS
    <3> HIDE DEF c
    <3>4. Recovers(a) /\ \A b \in Attempts \ {a} : Aside(b)
      BY <1>12, <3>1, <3>2, <3>3 DEF Recovers, SameCall, RowOrReleased
    <3> QED
      BY <1>10, <3>4 DEF AttemptMoves
  <2>7. CASE RoomDoesNotJudge(a)
    <3>1. CASE At(a, "judging")
      <4>1. GoesOn(a) /\ \A b \in Attempts \ {a} : Aside(b)
        BY <1>9, <2>7, <3>1 DEF RoomDoesNotJudge, GoesOn, RowOrReleased
      <4> QED
        BY <1>10, <4>1 DEF AttemptMoves
    <3>2. CASE At(a, "rejudging")
      <4>1. Exits(a) /\ \A b \in Attempts \ {a} : Aside(b)
        BY <1>9, <2>7, <3>2 DEF RoomDoesNotJudge, Exits
      <4> QED
        BY <1>10, <4>1 DEF AttemptMoves
    <3> QED
      BY <2>7, <3>1, <3>2 DEF RoomDoesNotJudge
  <2>8. ASSUME NEW outcome, NEW denial, SessionRecords(a, outcome, denial) PROVE OneAttemptMoves
    <3>1. /\ Receipts(Goes(Counted(Released(ex, a[1]), a), a, "judging"))
          /\ ex.session[a] \in {"returned", "crashed"}
      BY <2>8 DEF SessionRecords
    <3>2. GoesOn(a) /\ \A b \in Attempts \ {a} : Aside(b)
      BY <3>1, ResultReceipts DEF GoesOn
    <3> QED
      BY <1>10, <3>2 DEF AttemptMoves
  <2>9. ASSUME NEW verdict, NEW next, RoomJudges(a, verdict, next) PROVE OneAttemptMoves
    <3>1. CASE At(a, "judging")
      <4>1. Receipts(Goes(ex, a, "leaving"))
        BY <2>9, <3>1 DEF RoomJudges
      <4>2. GoesOn(a) /\ \A b \in Attempts \ {a} : Aside(b)
        BY <1>9, <3>1, <4>1 DEF GoesOn, RowOrReleased
      <4> QED
        BY <1>10, <4>2 DEF AttemptMoves
    <3>2. CASE At(a, "rejudging")
      <4>1. Receipts(Goes(ex, a, "gone"))
        BY <2>9, <3>2 DEF RoomJudges
      <4>2. Exits(a) /\ \A b \in Attempts \ {a} : Aside(b)
        BY <1>9, <3>2, <4>1 DEF Exits
      <4> QED
        BY <1>10, <4>2 DEF AttemptMoves
    <3> QED
      BY <2>9, <3>1, <3>2 DEF RoomJudges
  <2> QED
    BY <1>13, <2>1, <2>2, <2>3, <2>4, <2>5, <2>6, <2>7, <2>8, <2>9 DEF Thread
<1>14. ASSUME NEW a \in Attempts, Tool(a) PROVE OneAttemptMoves
  <2>1. CASE CancelAttempt(a)
    <3>1. ex'.attempt = ex.attempt /\ ex'.call = ex.call /\ ex'.session = ex.session
      BY <2>1 DEF CancelAttempt, ExStates
    <3> QED
      BY <1>2, <3>1
  <2>2. CASE BindsTicket(a) \/ WorkerWrites(a)
    BY <1>3, <2>2 DEF BindsTicket, WorkerWrites
  <2>3. CASE ResolveCall(a)
    <3>1. /\ ex.call[a] = "unknown" /\ ex'.attempt = ex.attempt /\ ex'.session = ex.session
          /\ ex'.call = [ex.call EXCEPT ![a] = "settled"]
      BY <2>3 DEF ResolveCall, ExStates
    <3>2. Resolved(a) /\ \A b \in Attempts \ {a} : Aside(b)
      BY <3>1 DEF ExStates, Resolved, Aside, SameCall, SameSession, RowOrReleased
    <3> QED
      BY <1>10, <3>2 DEF AttemptMoves
  <2>4. ASSUME NEW receipt \in CallStates, NEW next, CallEnds(a, receipt, next) PROVE OneAttemptMoves
    <3>1. Returns(a) /\ \A b \in Attempts \ {a} : Aside(b)
      BY <1>12, <2>4 DEF CallEnds, Returns
    <3> QED
      BY <1>10, <3>1 DEF AttemptMoves
  <2>5. ASSUME NEW outcome, NEW denial, ResumedRecords(a, outcome, denial) PROVE OneAttemptMoves
    <3>1. /\ Receipts(Goes(Counted(Released(ex, a[1]), a), a, "settling")) /\ ex.session[a] = "resumed"
      BY <2>5 DEF ResumedRecords
    <3>2. Recovers(a) /\ \A b \in Attempts \ {a} : Aside(b)
      BY <3>1, ResultReceipts DEF Recovers
    <3> QED
      BY <1>10, <3>2 DEF AttemptMoves
  <2> QED
    BY <1>14, <2>1, <2>2, <2>3, <2>4, <2>5 DEF Tool
<1> QED
  BY <1>4, <1>5, <1>6, <1>7, <1>11, <1>13, <1>14 DEF XNext

-----------------------------------------------------------------------------
(* What the receipts keep apart.                                             *)

\* A thread, and a gate that has started one, holds a running row; a call is out exactly while
\* its thread is in it.
ThreadsHold == \A a \in Attempts :
  /\ ex.session[a] \in InThread \cup {"stamping"} => ex.attempt[a] = "running"
  /\ ex.call[a] = "in_flight" <=> ex.session[a] = "calling"

\* The inductive invariant of the receipts.
Held == ThreadsHold /\ OneUnfinishedAttempt /\ OneOpenCall

\* Receipts that only lose reservations keep it.
LEMMA AsideKeepsHeld ==
  ASSUME NEW a \in Attempts, Aside(a)
  PROVE  /\ Unfinished(a)' => Unfinished(a)
         /\ OpenCall(a)' <=> OpenCall(a)
         /\ ex.attempt[a] = "running" => ex'.attempt[a] = "running"
         /\ ex'.session[a] = ex.session[a] /\ ex'.call[a] = ex.call[a]
  BY DEF Aside, SameCall, SameSession, RowOrReleased, Unfinished, OpenCall

\* A step of one attempt keeps it.
LEMMA MovesKeepHeld ==
  ASSUME Held, OneAttemptMoves
  PROVE  Held'
<1>1. CASE \A b \in Attempts : Aside(b)
  <2>1. ThreadsHold'
    BY <1>1, AsideKeepsHeld DEF Held, ThreadsHold
  <2>2. OneUnfinishedAttempt' /\ OneOpenCall'
    BY <1>1, AsideKeepsHeld DEF Held, OneUnfinishedAttempt, OneOpenCall
  <2> QED
    BY <2>1, <2>2 DEF Held
<1>2. ASSUME NEW a \in Attempts, AttemptMoves(a), \A b \in Attempts \ {a} : Aside(b)
      PROVE  Held'
  <2> USE DEF InThread, Recovering
  <2>1. /\ ex.session[a] \in InThread \cup {"stamping"} => ex.attempt[a] = "running"
        /\ ex.call[a] = "in_flight" <=> ex.session[a] = "calling"
    BY DEF Held, ThreadsHold
  <2>2. \A b \in Attempts \ {a} : Aside(b)
    BY <1>2
  <2>3. /\ ex'.session[a] \in InThread \cup {"stamping"} => ex'.attempt[a] = "running"
        /\ ex'.call[a] = "in_flight" <=> ex'.session[a] = "calling"
        /\ \/ ~ExecutionBlocked /\ (OpenCall(a)' <=> OpenCall(a))
           \/ (Unfinished(a)' => Unfinished(a)) /\ (OpenCall(a)' => OpenCall(a) \/ Unfinished(a))
    <3>1. CASE Reserves(a)
      <4>1. ~OpenCall(a)
        BY <3>1 DEF Reserves, ExecutionBlocked
      <4> QED
        BY <2>1, <3>1, <4>1 DEF Reserves, SameCall, OpenCall
    <3>2. CASE Opens(a)
      BY <2>1, <3>2 DEF Opens, SameCall, OpenCall, Unfinished
    <3>3. CASE Launches(a)
      BY <2>1, <3>3 DEF Launches, SameCall, OpenCall, Unfinished
    <3>4. CASE GoesOn(a)
      BY <2>1, <3>4 DEF GoesOn, SameCall, RowOrReleased, OpenCall, Unfinished
    <3>5. CASE Admitted(a)
      BY <2>1, <3>5 DEF Admitted, Authorized, OpenCall, Unfinished
    <3>6. CASE Returns(a)
      BY <2>1, <3>6 DEF Returns, OpenCall, Unfinished
    <3>7. CASE Recovers(a)
      BY <2>1, <3>7 DEF Recovers, SameCall, RowOrReleased, OpenCall, Unfinished
    <3>8. CASE Exits(a)
      BY <2>1, <3>8 DEF Exits, SameCall, OpenCall, Unfinished
    <3>9. CASE Resolved(a)
      BY <2>1, <3>9 DEF Resolved, SameSession, OpenCall, Unfinished
    <3> QED
      BY <1>2, <3>1, <3>2, <3>3, <3>4, <3>5, <3>6, <3>7, <3>8, <3>9 DEF AttemptMoves
  <2>4. ThreadsHold'
    BY <2>2, <2>3, AsideKeepsHeld DEF Held, ThreadsHold
  <2>5. CASE ~ExecutionBlocked /\ (OpenCall(a)' <=> OpenCall(a))
    <3>1. \A b \in Attempts : ~Unfinished(b) /\ ~OpenCall(b)
      BY <2>5 DEF ExecutionBlocked
    <3>2. \A b \in Attempts : (~OpenCall(b))'
      BY <2>2, <2>5, <3>1, AsideKeepsHeld
    <3>3. \A b \in Attempts \ {a} : (~Unfinished(b))'
      BY <2>2, <3>1, AsideKeepsHeld
    <3> QED
      BY <2>4, <3>2, <3>3 DEF Held, OneUnfinishedAttempt, OneOpenCall
  <2>6. CASE (Unfinished(a)' => Unfinished(a)) /\ (OpenCall(a)' => OpenCall(a) \/ Unfinished(a))
    <3>1. \A b \in Attempts : /\ Unfinished(b)' => Unfinished(b)
                              /\ OpenCall(b)' => OpenCall(b) \/ (b = a /\ Unfinished(a))
      BY <2>2, <2>6, AsideKeepsHeld
    <3> QED
      BY <2>4, <3>1 DEF Held, OneUnfinishedAttempt, OneOpenCall
  <2> QED
    BY <2>3, <2>5, <2>6
<1> QED
  BY <1>1, <1>2 DEF OneAttemptMoves

\* What a restart makes of the receipts.
LEMMA RestartReceipts ==
  ASSUME ex \in ExStates, Restart
  PROVE  \A a \in Attempts :
           /\ ex'.attempt[a] = IF Unfinished(a) THEN "interrupted" ELSE ex.attempt[a]
           /\ ex'.call[a] = IF ex.call[a] = "in_flight" THEN "unknown" ELSE ex.call[a]
           /\ ex'.session[a] \in {"resumed", "none", "gone"}
  BY DEF Restart, ExStates

\* A restart keeps it: nothing is unfinished any more, and the calls in doubt are the old ones.
LEMMA RestartKeepsHeld ==
  ASSUME ex \in ExStates, Held, Restart
  PROVE  Held'
<1>1. \A a \in Attempts :
        /\ ex'.attempt[a] = IF Unfinished(a) THEN "interrupted" ELSE ex.attempt[a]
        /\ ex'.call[a] = IF ex.call[a] = "in_flight" THEN "unknown" ELSE ex.call[a]
        /\ ex'.session[a] \in {"resumed", "none", "gone"}
  BY RestartReceipts
<1>2. \A a \in Attempts : ~(Unfinished(a)') /\ (OpenCall(a)' <=> OpenCall(a))
  BY <1>1 DEF Unfinished, OpenCall
<1>3. ThreadsHold'
  BY <1>1 DEF ThreadsHold, InThread
<1> QED
  BY <1>2, <1>3 DEF Held, OneUnfinishedAttempt, OneOpenCall

\* Every step keeps it.
LEMMA StepKeepsHeld ==
  ASSUME WorkTyped, ex \in ExStates, Held, [XNext]_xvars
  PROVE  Held'
<1>1. CASE UNCHANGED xvars
  BY <1>1 DEF xvars, Held, ThreadsHold, OneUnfinishedAttempt, OneOpenCall, Unfinished, OpenCall
<1>2. CASE XNext
  BY <1>2, StepMovesOneAttempt, MovesKeepHeld, RestartKeepsHeld
<1> QED
  BY <1>1, <1>2

\* It holds of every execution.
LEMMA ExecutionsHold == XSpec => [](WorkTyped /\ DispatchesCounted /\ ReceiptsOK /\ Held)
<1>1. XInit => ReceiptsOK /\ Held
  BY DEF XInit, ExInit, ReceiptsOK, ExStates, AttemptStates, CallStates, SessionStates,
     Held, ThreadsHold, OneUnfinishedAttempt, OneOpenCall, Unfinished, OpenCall, InThread
<1>2. XInit => WorkTyped /\ DispatchesCounted
  <2>1. Init => WorkTyped
    BY NewIsTyped DEF Init, WorkTyped
  <2>2. Init => DispatchesCounted
    BY MaxEpochType DEF Init, NewWorkObject, DispatchesCounted
  <2> QED
    BY <2>1, <2>2 DEF XInit
<1>3. WorkTyped /\ DispatchesCounted /\ ReceiptsOK /\ Held /\ [XNext]_xvars
        => WorkTyped' /\ DispatchesCounted' /\ ReceiptsOK' /\ Held'
  BY StepKeepsGraph, StepKeepsReceipts, StepKeepsHeld DEF ReceiptsOK
<1> QED
  BY <1>1, <1>2, <1>3, PTL DEF XSpec

\* A replacement never runs beside the attempt it replaces, nor beside a call whose outcome is
\* still open, however claims, sweeps, cancellations and restarts interleave.
THEOREM OneAttemptAtATime == XSpec => []OneUnfinishedAttempt
  BY ExecutionsHold, PTL DEF Held

\* A thread that was cancelled, swept or timed out is still counted as long as it is there.
THEOREM ThreadsAreCounted == XSpec => []ThreadHoldsItsRow
<1>1. ThreadsHold => ThreadHoldsItsRow
  BY DEF ThreadsHold, ThreadHoldsItsRow
<1> QED
  BY <1>1, ExecutionsHold, PTL DEF Held

\* No external effect is started while another one is out or in doubt.
THEOREM OneEffectInDoubt == XSpec => []OneOpenCall
  BY ExecutionsHold, PTL DEF Held

-----------------------------------------------------------------------------
(* Calls and the tasks they run for.                                         *)

\* A task in flight stays so, in the same attempt, or is given up; no other takes off.
Calm(v, t) == /\ wo.status[t] = "dispatched" =>
                   v.epoch[t] = wo.epoch[t] /\ v.status[t] \in {"dispatched", "abandoned"}
              /\ v.status[t] = "dispatched" => wo.status[t] = "dispatched"

\* A transaction is as calm as the handler's work object.
LEMMA CommitIsCalm ==
  ASSUME NEW w \in WorkObjects, Commit(w), NEW t \in Tasks, Calm(w, t)
  PROVE  Calm(wo', t)
  BY CommitMoves DEF SameTasks, Calm

\* Handling one task leaves the others in flight, and itself when it neither was nor gets there.
LEMMA OneTaskIsCalm ==
  ASSUME NEW t \in Tasks, NEW w, OnlyTask(wo, w, t), Commit(w), NEW u \in Tasks,
         u # t \/ "dispatched" \notin {wo.status[t], w.status[t]}
  PROVE  Calm(wo', u)
<1>1. w \in WorkObjects /\ Calm(w, u)
  BY DEF OnlyTask, SameAttempt, Calm
<1> QED
  BY <1>1, CommitIsCalm

\* Setting another task's status, or that of a helper.
LEMMA SetStatusIsCalm ==
  ASSUME WorkTyped, NEW n \in Nodes, NEW s \in Statuses, Commit(SetStatus(wo, n, s)), NEW u \in Tasks,
         u # n \/ "dispatched" \notin {wo.status[n], s} \/ s = "abandoned"
  PROVE  Calm(wo', u)
<1> DEFINE w == SetStatus(wo, n, s)
<1>1. /\ w \in WorkObjects /\ w.status[u] = (IF u = n THEN s ELSE wo.status[u])
      /\ w.epoch[u] = IF u = n /\ s = "dispatched" /\ wo.status[u] # "dispatched"
                      THEN wo.epoch[u] + 1 ELSE wo.epoch[u]
  BY SetStatusMoves DEF WorkTyped
<1>2. Commit(w)
  OBVIOUS
<1> HIDE DEF w
<1> QED
  BY <1>1, <1>2, CommitIsCalm DEF Calm

\* A revision, an end of the work, and a step that moves no task.
LEMMA PlansAreCalm ==
  ASSUME Revises(wo, wo') \/ Ends(wo, wo') \/ Idles(wo, wo'), NEW u \in Tasks
  PROVE  Calm(wo', u)
  BY DEF Revises, Ends, Idles, Rests, Appears, Dropped, SameAttempt, Calm

\* The state mover's writes, when what it still has to handle is not in flight.
LEMMA MoverIsCalm ==
  ASSUME WorkTyped, SnapshotAtRest, StateMover, NEW u \in Tasks
  PROVE  Calm(wo', u)
<1> USE DEF WorkTyped, InPass, Write
<1>1. CASE UNCHANGED wo
  BY <1>1 DEF Calm
<1>2. ASSUME NEW t \in Tasks, MoverPromote(t) \/ MoverHold(t) PROVE Calm(wo', u)
  <2>1. wo.status[t] # "dispatched" /\ t \in Nodes
    BY <1>2 DEF SnapshotAtRest, MoverPromote, MoverHold, Nodes
  <2>2. Commit(SetStatus(wo, t, "actionable")) \/ Commit(SetStatus(wo, t, "waiting"))
    BY <1>2 DEF MoverPromote, MoverHold
  <2> QED
    BY <2>1, <2>2, SetStatusIsCalm DEF Statuses
<1>3. ASSUME NEW t \in Tasks, NEW kind \in WakeKinds, NEW future \in BOOLEAN,
             wo.status[t] # "dispatched", Commit(Defer(wo, t, kind, future))
      PROVE  Calm(wo', u)
  <2> DEFINE w == Defer(wo, t, kind, future)
  <2>1. w \in WorkObjects /\ w.epoch = wo.epoch /\ w.status[u] = wo.status[u]
    BY <1>3, DeferMoves
  <2>2. Commit(w)
    BY <1>3
  <2> HIDE DEF w
  <2> QED
    BY <2>1, <2>2, CommitIsCalm DEF Calm
<1>4. ASSUME NEW t \in Tasks, MoverPark(t) PROVE Calm(wo', u)
  <2>1. wo.status[t] # "dispatched"
    BY <1>4 DEF SnapshotAtRest, MoverPark
  <2> QED
    BY <1>3, <1>4, <2>1 DEF MoverPark, WakeKinds
<1>5. ASSUME NEW t \in Tasks, MoverWake(t) PROVE Calm(wo', u)
  BY <1>3, <1>5 DEF MoverWake, WakeKinds
<1> QED
  BY <1>1, <1>2, <1>4, <1>5 DEF StateMover, MoverLook, MoverEnds, MoverRefused

\* Claims, refusals by the gate, judgments and expiries are of tasks that are not in flight; a
\* ticket leaves its task in flight.
LEMMA DispatchIsCalm ==
  ASSUME WorkTyped, NEW t \in Tasks, NEW u \in Tasks,
         \/ (Claim(t) /\ u # t) \/ GateReject(t) \/ WatchEnds(t)
         \/ \E e : BindTicket(t, e)
         \/ \E e, verdict, next : Judge(t, e, verdict, next)
  PROVE  Calm(wo', u)
<1> USE DEF WorkTyped, InPass, Write
<1>1. CASE Claim(t) /\ u # t
  BY <1>1, SetStatusIsCalm DEF Claim, Statuses, Nodes
<1>2. CASE GateReject(t)
  BY <1>2, SetStatusIsCalm DEF GateReject, Statuses, Nodes
<1>3. CASE WatchEnds(t)
  <2> DEFINE w == EndWatch(wo, t)
  <2>1. Commit(w) /\ OnlyTask(wo, w, t) /\ "dispatched" \notin {wo.status[t], w.status[t]}
    BY <1>3, EndWatchMoves DEF WatchEnds, MayEndWatch, WatchOver
  <2> HIDE DEF w
  <2> QED
    BY <2>1, OneTaskIsCalm
<1>4. ASSUME NEW e, BindTicket(t, e) PROVE Calm(wo', u)
  <2> DEFINE w == Defer(wo, t, "user_reply", FALSE)
  <2>1. "user_reply" \in WakeKinds /\ Commit(w)
    BY <1>4 DEF BindTicket, WakeKinds
  <2>2. w \in WorkObjects /\ w.epoch = wo.epoch /\ w.status[u] = wo.status[u]
    BY <2>1, DeferMoves
  <2> HIDE DEF w
  <2> QED
    BY <2>1, <2>2, CommitIsCalm DEF Calm
<1>5. ASSUME NEW e, NEW verdict, NEW next, Judge(t, e, verdict, next) PROVE Calm(wo', u)
  <2> DEFINE w == Finalize(wo, t, verdict, next)
  <2>1. ~Ended(wo) /\ NeedsFinalization(wo, t) /\ Commit(w)
    BY <1>5 DEF Judge, MayFinalize
  <2>2. OnlyTask(wo, w, t) /\ "dispatched" \notin {wo.status[t], w.status[t]}
    BY <2>1, FinalizeMoves DEF NeedsFinalization, WasJudged
  <2> HIDE DEF w
  <2> QED
    BY <2>1, <2>2, OneTaskIsCalm
<1> QED
  BY <1>1, <1>2, <1>3, <1>4, <1>5

\* Workers, brain, owner and clock give tasks in flight up at most.
LEMMA OthersAreCalm ==
  ASSUME WorkTyped, NEW u \in Tasks, Others
  PROVE  Calm(wo', u)
<1> USE DEF WorkTyped, InPass, Write
<1>1. CASE BrainReplan
  <2> DEFINE w == [wo EXCEPT !.asked = TRUE]
  <2>1. Commit(w) /\ w \in WorkObjects /\ w.epoch = wo.epoch /\ w.status = wo.status
    BY <1>1 DEF BrainReplan, WorkObjects
  <2> HIDE DEF w
  <2> QED
    BY <2>1, CommitIsCalm DEF Calm
<1>2. CASE Abandon
  <2>1. Ends(wo, wo')
    BY <1>2, CommitEnds DEF Abandon, EndedWork
  <2> QED
    BY <2>1, PlansAreCalm
<1>3. ASSUME NEW h \in Helpers, AddHelper(h) PROVE Calm(wo', u)
  <2> DEFINE w == [wo EXCEPT !.status = [@ EXCEPT ![h] = "proposed"]]
  <2>1. Commit(w)
    BY <1>3 DEF AddHelper
  <2>2. w \in WorkObjects /\ w.epoch = wo.epoch /\ w.status = [wo.status EXCEPT ![h] = "proposed"]
    BY DEF WorkObjects, Statuses, Nodes
  <2>3. w.status[u] = wo.status[u]
    BY <2>2, DisjointNodes DEF WorkObjects, Nodes
  <2> HIDE DEF w
  <2> QED
    BY <2>1, <2>2, <2>3, CommitIsCalm DEF Calm
<1>4. ASSUME NEW h \in Helpers, NEW s \in Statuses, MoveHelper(h, s) PROVE Calm(wo', u)
  BY <1>4, SetStatusIsCalm, DisjointNodes DEF MoveHelper, Nodes
<1>5. ASSUME NEW n \in Nodes, NEW s \in OwnerTargets, OwnerSetStatus(n, s) PROVE Calm(wo', u)
  <2>1. s = "abandoned"
    BY OwnerRemoves
  <2> QED
    BY <1>5, <2>1, SetStatusIsCalm DEF OwnerSetStatus, Statuses
<1>6. ASSUME NEW t \in Tasks, OwnerAddTask(t) PROVE Calm(wo', u)
  <2> DEFINE w == AddTask(wo, t)
  <2>1. Commit(w) /\ wo.status[t] = "absent"
    BY <1>6 DEF OwnerAddTask
  <2>2. w \in WorkObjects /\ w.epoch = wo.epoch /\ w.status = [wo.status EXCEPT ![t] = "proposed"]
    BY DEF AddTask, WorkObjects, Statuses, Nodes
  <2>3. \/ w.status[u] = wo.status[u]
        \/ wo.status[u] = "absent" /\ w.status[u] = "proposed"
    BY <2>1, <2>2 DEF WorkObjects, Nodes
  <2> HIDE DEF w
  <2> QED
    BY <2>1, <2>2, <2>3, CommitIsCalm DEF Calm
<1>7. ASSUME NEW t \in Tasks, TimePasses(t) \/ WatchExpires(t) PROVE Calm(wo', u)
  BY <1>7 DEF TimePasses, WatchExpires, WorkObjects, Calm
<1> QED
  BY <1>1, <1>2, <1>3, <1>4, <1>5, <1>6, <1>7 DEF Others

\* A failed dispatch and a stored result leave the other tasks in flight.
LEMMA OutcomesAreCalm ==
  ASSUME WorkTyped, NEW t \in Tasks, NEW u \in Tasks, u # t,
         \/ \E e : GateFail(t, e)
         \/ SweepStuck(t)
         \/ \E e : \E outcome \in {"done", "failed"}, denial \in BOOLEAN : RecordResult(t, e, outcome, denial)
  PROVE  Calm(wo', u)
<1> USE DEF WorkTyped, InPass, Write
<1>1. CASE \E e : GateFail(t, e)
  BY <1>1, SetStatusIsCalm DEF GateFail, Statuses, Nodes
<1>2. ASSUME NEW outcome \in {"done", "failed"}, NEW denial \in BOOLEAN, NEW e, MayRecord(wo, t, e),
             Commit(Record(wo, t, outcome, denial))
      PROVE  Calm(wo', u)
  <2> DEFINE w == Record(wo, t, outcome, denial)
  <2>1. OnlyTask(wo, w, t) /\ Commit(w)
    BY <1>2, RecordMoves DEF MayRecord
  <2> HIDE DEF w
  <2> QED
    BY <2>1, OneTaskIsCalm
<1>3. CASE SweepStuck(t)
  BY <1>2, <1>3 DEF SweepStuck
<1> QED
  BY <1>1, <1>2, <1>3 DEF RecordResult

\* What the store requires of a failed dispatch and of a result: they name the attempt.
LEMMA OutcomesNameTheirAttempt ==
  ASSUME NEW t, NEW e
  PROVE  /\ GateFail(t, e) => wo.epoch[t] = e
         /\ \A outcome, denial : RecordResult(t, e, outcome, denial) => wo.epoch[t] = e
  BY DEF GateFail, MayGateFail, RecordResult, MayRecord

\* While a call is out, the only outcome its task can get in flight is the sweeper's: the gate
\* and the sessions report other attempts.
LEMMA CallKeepsItsTask ==
  ASSUME WorkTyped, Held, SnapshotAtRest, XNext, NEW a \in Attempts,
         ex.call[a] = "in_flight", wo.epoch[a[1]] = a[2]
  PROVE  Calm(wo', a[1]) \/ Sweep(a[1])
<1>1. a[1] \in Tasks /\ ex.session[a] = "calling"
  BY DEF Attempts, Held, ThreadsHold
<1>2. ASSUME GraphUnchanged PROVE Calm(wo', a[1])
  BY <1>2 DEF GraphUnchanged, Calm
<1>3. ASSUME Architect PROVE Calm(wo', a[1])
  BY <1>1, <1>3, ArchitectMoves, PlansAreCalm
<1>4. CASE PassStep
  BY <1>1, <1>3, <1>4, MoverIsCalm, OthersAreCalm, DispatchIsCalm DEF PassStep, Others
<1>5. CASE Restart
  BY <1>5 DEF Restart, Calm
<1>6. CASE Elsewhere
  BY <1>1, <1>6, OthersAreCalm DEF Elsewhere, Others
<1>7. ASSUME NEW t \in Tasks, ClaimTask(t) PROVE FALSE
  BY <1>7 DEF ClaimTask, ExecutionBlocked, OpenCall
<1>8. ASSUME NEW t \in Tasks, Sweep(t) PROVE Calm(wo', a[1]) \/ Sweep(a[1])
  BY <1>1, <1>8, OutcomesAreCalm DEF Sweep
<1>9. ASSUME NEW t \in Tasks, Judgment(t) PROVE Calm(wo', a[1])
  BY <1>1, <1>9, DispatchIsCalm DEF Judgment, TickJudges
<1>10. ASSUME NEW b \in Attempts, b # a, a[1] = b[1] PROVE wo.epoch[b[1]] # b[2]
  BY <1>10 DEF Attempts
<1>11. ASSUME NEW b \in Attempts, b # a, GateFail(b[1], b[2]) PROVE Calm(wo', a[1])
  <2>1. b[1] # a[1] /\ b[1] \in Tasks
    BY <1>10, <1>11, OutcomesNameTheirAttempt DEF Attempts
  <2> QED
    BY <1>1, <1>11, <2>1, OutcomesAreCalm
<1>12. ASSUME NEW b \in Attempts, b # a, NEW outcome \in {"done", "failed"}, NEW denial \in BOOLEAN,
              RecordResult(b[1], b[2], outcome, denial)
       PROVE  Calm(wo', a[1])
  <2>1. b[1] # a[1] /\ b[1] \in Tasks
    BY <1>10, <1>12, OutcomesNameTheirAttempt DEF Attempts
  <2> QED
    BY <1>1, <1>12, <2>1, OutcomesAreCalm
<1>13. ASSUME NEW b \in Attempts, FailNode(b), b # a PROVE Calm(wo', a[1])
  BY <1>2, <1>11, <1>13 DEF FailNode
<1>14. ASSUME NEW b \in Attempts, GateStep(b) PROVE Calm(wo', a[1])
  BY <1>1, <1>2, <1>13, <1>14 DEF GateStep, OpenSession, OpenRefused, StartThread, LaunchFails, At
<1>15. ASSUME NEW b \in Attempts, Thread(b) PROVE Calm(wo', a[1])
  <2>1. ASSUME NEW outcome \in {"done", "failed"}, NEW denial \in BOOLEAN, SessionRecords(b, outcome, denial)
        PROVE  Calm(wo', a[1])
    BY <1>1, <1>12, <2>1 DEF SessionRecords, At
  <2>2. ASSUME NEW verdict, NEW next, RoomJudges(b, verdict, next) PROVE Calm(wo', a[1])
    <3>1. b[1] \in Tasks
      BY DEF Attempts
    <3> QED
      BY <1>1, <2>2, <3>1, DispatchIsCalm DEF RoomJudges
  <2>3. CASE \/ Begin(b) \/ AdmitCall(b) \/ RoomFails(b) \/ RecordRefused(b) \/ Leave(b)
             \/ ResumedRefused(b) \/ SettleTicket(b) \/ RoomDoesNotJudge(b)
    BY <1>2, <2>3 DEF Begin, AdmitCall, RoomFails, RecordRefused, Leave, ResumedRefused, SettleTicket,
       RoomDoesNotJudge
  <2> QED
    BY <1>15, <2>1, <2>2, <2>3 DEF Thread
<1>16. ASSUME NEW b \in Attempts, Tool(b) PROVE Calm(wo', a[1])
  <2>1. ASSUME NEW outcome \in {"done", "failed"}, NEW denial \in BOOLEAN, ResumedRecords(b, outcome, denial)
        PROVE  Calm(wo', a[1])
    BY <1>1, <1>12, <2>1 DEF ResumedRecords, At
  <2>2. CASE BindsTicket(b)
    <3>1. b[1] \in Tasks
      BY DEF Attempts
    <3> QED
      BY <1>1, <2>2, <3>1, DispatchIsCalm DEF BindsTicket
  <2>3. CASE WorkerWrites(b)
    BY <1>1, <2>3, OthersAreCalm DEF WorkerWrites, Others
  <2>4. CASE CancelAttempt(b) \/ ResolveCall(b)
    BY <1>2, <2>4 DEF CancelAttempt, ResolveCall
  <2>5. ASSUME NEW receipt, NEW next, CallEnds(b, receipt, next) PROVE Calm(wo', a[1])
    BY <1>2, <2>5 DEF CallEnds
  <2> QED
    BY <1>16, <2>1, <2>2, <2>3, <2>4, <2>5 DEF Tool
<1> QED
  BY <1>4, <1>5, <1>6, <1>7, <1>8, <1>9, <1>14, <1>15, <1>16 DEF XNext

-----------------------------------------------------------------------------
(* Rows and what runs on them.                                               *)

\* A result, or a failed dispatch, starts no task.
LEMMA OutcomesStartNothing ==
  ASSUME WorkTyped, NEW t \in Tasks, NEW u \in Tasks, wo'.status[u] = "dispatched",
         \/ \E e : GateFail(t, e)
         \/ SweepStuck(t)
         \/ \E e : \E outcome \in {"done", "failed"}, denial \in BOOLEAN : RecordResult(t, e, outcome, denial)
  PROVE  wo.status[u] = "dispatched"
<1> USE DEF WorkTyped, InPass, Write
<1>1. CASE u # t
  BY <1>1, OutcomesAreCalm DEF Calm
<1>2. ASSUME NEW e, GateFail(t, e) PROVE wo'.status[t] = "failed"
  <2> DEFINE w == SetStatus(wo, t, "failed")
  <2>1. t \in Nodes /\ "failed" \in Statuses
    BY DEF Statuses, Nodes
  <2>2. w \in WorkObjects /\ w.status[t] = "failed"
    BY <2>1, SetStatusMoves
  <2>3. Commit(w)
    BY <1>2 DEF GateFail
  <2> HIDE DEF w
  <2> QED
    BY <2>2, <2>3, CommitMoves DEF SameTasks
<1>3. ASSUME NEW outcome \in {"done", "failed"}, NEW denial \in BOOLEAN, NEW e, MayRecord(wo, t, e),
             Commit(Record(wo, t, outcome, denial))
      PROVE  wo'.status[t] \in {"done", "failed"}
  <2> DEFINE w == Record(wo, t, outcome, denial)
  <2>1. w \in WorkObjects /\ w.status[t] \in {"done", "failed"} /\ Commit(w)
    BY <1>3, RecordMoves DEF MayRecord, OnlyTask, Reported
  <2> HIDE DEF w
  <2> QED
    BY <2>1, CommitMoves DEF SameTasks
<1>4. wo'.status[t] \in {"done", "failed"}
  BY <1>2, <1>3 DEF SweepStuck, RecordResult
<1> QED
  BY <1>1, <1>4

\* Only a claim, with its reservation, starts a task.
LEMMA OnlyClaimsStart ==
  ASSUME WorkTyped, SnapshotAtRest, XNext, NEW u \in Tasks, wo'.status[u] = "dispatched"
  PROVE  wo.status[u] = "dispatched" \/ ClaimTask(u)
<1>1. ASSUME Calm(wo', u) PROVE wo.status[u] = "dispatched"
  BY <1>1 DEF Calm
<1>2. ASSUME GraphUnchanged PROVE Calm(wo', u)
  BY <1>2 DEF GraphUnchanged, Calm
<1>3. ASSUME Architect PROVE Calm(wo', u)
  BY <1>3, ArchitectMoves, PlansAreCalm
<1>4. CASE PassStep
  BY <1>1, <1>3, <1>4, MoverIsCalm, OthersAreCalm, DispatchIsCalm DEF PassStep, Others
<1>5. CASE Restart
  BY <1>5 DEF Restart
<1>6. CASE Elsewhere
  BY <1>1, <1>6, OthersAreCalm DEF Elsewhere, Others
<1>7. ASSUME NEW t \in Tasks, ClaimTask(t) PROVE Calm(wo', u) \/ ClaimTask(u)
  BY <1>7, DispatchIsCalm DEF ClaimTask
<1>8. ASSUME NEW t \in Tasks, Sweep(t) PROVE wo.status[u] = "dispatched"
  BY <1>8, OutcomesStartNothing DEF Sweep
<1>9. ASSUME NEW t \in Tasks, Judgment(t) PROVE Calm(wo', u)
  BY <1>9, DispatchIsCalm DEF Judgment, TickJudges
<1>10. ASSUME NEW b \in Attempts PROVE b[1] \in Tasks
  BY DEF Attempts
<1>11. ASSUME NEW b \in Attempts, GateStep(b) PROVE wo.status[u] = "dispatched"
  <2>1. ASSUME FailNode(b) PROVE wo.status[u] = "dispatched"
    BY <1>1, <1>2, <1>10, <2>1, OutcomesStartNothing DEF FailNode
  <2> QED
    BY <1>1, <1>2, <1>11, <2>1 DEF GateStep, OpenSession, OpenRefused, StartThread, LaunchFails
<1>12. ASSUME NEW b \in Attempts, NEW outcome \in {"done", "failed"}, NEW denial \in BOOLEAN,
              RecordResult(b[1], b[2], outcome, denial)
       PROVE  wo.status[u] = "dispatched"
  BY <1>10, <1>12, OutcomesStartNothing
<1>13. ASSUME NEW b \in Attempts, Thread(b) PROVE wo.status[u] = "dispatched"
  <2>1. ASSUME NEW outcome \in {"done", "failed"}, NEW denial \in BOOLEAN, SessionRecords(b, outcome, denial)
        PROVE  wo.status[u] = "dispatched"
    BY <1>12, <2>1 DEF SessionRecords
  <2>2. ASSUME NEW verdict, NEW next, RoomJudges(b, verdict, next) PROVE Calm(wo', u)
    BY <1>10, <2>2, DispatchIsCalm DEF RoomJudges
  <2>3. CASE \/ Begin(b) \/ AdmitCall(b) \/ RoomFails(b) \/ RecordRefused(b) \/ Leave(b)
             \/ ResumedRefused(b) \/ SettleTicket(b) \/ RoomDoesNotJudge(b)
    BY <1>1, <1>2, <2>3 DEF Begin, AdmitCall, RoomFails, RecordRefused, Leave, ResumedRefused, SettleTicket,
       RoomDoesNotJudge
  <2> QED
    BY <1>1, <1>13, <2>1, <2>2, <2>3 DEF Thread
<1>14. ASSUME NEW b \in Attempts, Tool(b) PROVE wo.status[u] = "dispatched"
  <2>1. ASSUME NEW outcome \in {"done", "failed"}, NEW denial \in BOOLEAN, ResumedRecords(b, outcome, denial)
        PROVE  wo.status[u] = "dispatched"
    BY <1>12, <2>1 DEF ResumedRecords
  <2>2. CASE BindsTicket(b)
    BY <1>1, <1>10, <2>2, DispatchIsCalm DEF BindsTicket
  <2>3. CASE WorkerWrites(b)
    BY <1>1, <2>3, OthersAreCalm DEF WorkerWrites, Others
  <2>4. CASE CancelAttempt(b) \/ ResolveCall(b)
    BY <1>1, <1>2, <2>4 DEF CancelAttempt, ResolveCall
  <2>5. ASSUME NEW receipt, NEW next, CallEnds(b, receipt, next) PROVE Calm(wo', u)
    BY <1>2, <2>5 DEF CallEnds
  <2> QED
    BY <1>1, <1>14, <2>1, <2>2, <2>3, <2>4, <2>5 DEF Tool
<1> QED
  BY <1>1, <1>4, <1>5, <1>6, <1>7, <1>8, <1>9, <1>11, <1>13, <1>14 DEF XNext

\* A task in flight has the row of its attempt, and nothing runs or has called without its row.
FlightHasRow == \A a \in Attempts :
  wo.status[a[1]] = "dispatched" /\ wo.epoch[a[1]] = a[2] => ex.attempt[a] # "none"
RowsFirst == \A a \in Attempts :
  ex.attempt[a] = "none" => ex.session[a] = "none" /\ ex.call[a] = "none"

\* A row is never taken back.
LEMMA RowsStay ==
  ASSUME ex \in ExStates, OneAttemptMoves \/ Restart, NEW a \in Attempts, ex.attempt[a] # "none"
  PROVE  ex'.attempt[a] # "none"
<1>1. CASE Restart
  BY <1>1, RestartReceipts
<1>2. CASE Aside(a)
  BY <1>2 DEF Aside, RowOrReleased
<1>3. CASE AttemptMoves(a)
  BY <1>3 DEF AttemptMoves, Reserves, Opens, Launches, GoesOn, Admitted, Returns, Recovers, Exits, Resolved,
     RowOrReleased
<1> QED
  BY <1>1, <1>2, <1>3 DEF OneAttemptMoves

\* A step of one attempt goes on from its row.
LEMMA MovesKeepRows ==
  ASSUME RowsFirst, OneAttemptMoves
  PROVE  RowsFirst'
<1> SUFFICES ASSUME NEW a \in Attempts, ex'.attempt[a] = "none"
             PROVE  ex'.session[a] = "none" /\ ex'.call[a] = "none"
  BY DEF RowsFirst
<1>1. CASE Aside(a)
  BY <1>1 DEF Aside, RowOrReleased, SameCall, SameSession, RowsFirst
<1>2. CASE AttemptMoves(a)
  <2>1. ex.attempt[a] = "none" => ex.session[a] = "none" /\ ex.call[a] = "none"
    BY DEF RowsFirst
  <2> QED
    BY <1>2, <2>1 DEF AttemptMoves, Reserves, Opens, Launches, GoesOn, Admitted, Returns, Recovers, Exits, Resolved,
       RowOrReleased, SameCall, SameSession, InThread, Recovering
<1> QED
  BY <1>1, <1>2 DEF OneAttemptMoves

\* A restart resumes only what has a row.
LEMMA RestartKeepsRows ==
  ASSUME ex \in ExStates, FlightHasRow, RowsFirst, Restart
  PROVE  RowsFirst'
<1> SUFFICES ASSUME NEW a \in Attempts, ex'.attempt[a] = "none"
             PROVE  ex'.session[a] = "none" /\ ex'.call[a] = "none"
  BY DEF RowsFirst
<1>1. ex.attempt[a] = "none"
  BY RestartReceipts
<1>2. ex.session[a] = "none" /\ ex.call[a] = "none"
  BY <1>1 DEF RowsFirst
<1>3. ~(InFlightAsk(wo, a[1]) /\ wo.epoch[a[1]] = a[2])
  BY <1>1 DEF FlightHasRow, InFlightAsk
<1>4. ex'.session[a] = "none"
  BY <1>2, <1>3 DEF Restart, ExStates, At
<1> QED
  BY <1>2, <1>4, RestartReceipts

\* What a claim reserves.
LEMMA ClaimReserves ==
  ASSUME WorkTyped, ex \in ExStates, NEW t \in Tasks, ClaimTask(t)
  PROVE  ex'.attempt[<<t, wo.epoch[t] + 1>>] = "reserved"
<1> DEFINE a == <<t, wo.epoch[t] + 1>>
<1>1. a \in Attempts
  BY MaxEpochType DEF ClaimTask, Claim, Attempts, WorkTyped, WorkObjects
<1>2. Becomes(Goes([ex EXCEPT !.attempt[a] = "reserved"], a, "claimed"))
  BY DEF ClaimTask, Becomes
<1> HIDE DEF a
<1>3. ex'.attempt[a] = "reserved"
  BY <1>1, <1>2, RowMoves DEF AttemptStates, SessionStates, AtGate
<1> QED
  BY <1>3 DEF a

\* A task in flight keeps its row, and one that takes off gets it.
LEMMA FlightKeepsRow ==
  ASSUME WorkTyped, DispatchesCounted, ex \in ExStates, SnapshotAtRest, FlightHasRow, XNext
  PROVE  FlightHasRow'
<1> SUFFICES ASSUME NEW a \in Attempts, wo'.status[a[1]] = "dispatched", wo'.epoch[a[1]] = a[2]
             PROVE  ex'.attempt[a] # "none"
  BY DEF FlightHasRow
<1>1. a[1] \in Tasks /\ a = <<a[1], a[2]>>
  BY DEF Attempts
<1>2. OneAttemptMoves \/ Restart
  BY StepMovesOneAttempt
<1>3. [Next]_vars
  BY StepImplementsGraph
<1>4. "dispatched" \notin OwnerTargets
  BY OwnerRemoves
<1>5. CASE wo.status[a[1]] = "dispatched"
  <2>1. wo'.epoch[a[1]] = wo.epoch[a[1]]
    BY <1>1, <1>3, <1>4, <1>5, TakesOff DEF vars, Rests, SameAttempt
  <2> QED
    BY <1>2, <1>5, <2>1, RowsStay DEF FlightHasRow
<1>6. CASE wo.status[a[1]] # "dispatched" /\ ClaimTask(a[1])
  <2>1. wo'.epoch[a[1]] = wo.epoch[a[1]] + 1
    BY <1>1, <1>3, <1>4, <1>6, TakesOff DEF vars, Started
  <2> QED
    BY <1>1, <1>6, <2>1, ClaimReserves
<1> QED
  BY <1>1, <1>5, <1>6, OnlyClaimsStart

\* Graph, receipts and threads keep their ranges through every step, restarts included, and no
\* session, thread or call is there without the row that counts it.
THEOREM ReceiptsTypeCorrect == XSpec => []XTypeOK
<1>1. XTypeOK <=> WorkTyped /\ ReceiptsOK /\ RowsFirst
  BY DEF XTypeOK, ReceiptsOK, ExStates, RowsFirst
<1>2. XInit => FlightHasRow /\ RowsFirst
  BY DEF XInit, ExInit, Init, NewWorkObject, FlightHasRow, RowsFirst, Attempts, Nodes
<1>3. WorkTyped /\ DispatchesCounted /\ ReceiptsOK /\ SnapshotAtRest /\ FlightHasRow /\ RowsFirst
        /\ [XNext]_xvars => FlightHasRow' /\ RowsFirst'
  <2> SUFFICES ASSUME WorkTyped, DispatchesCounted, ReceiptsOK, SnapshotAtRest, FlightHasRow, RowsFirst,
                      [XNext]_xvars
               PROVE  FlightHasRow' /\ RowsFirst'
    OBVIOUS
  <2>1. CASE UNCHANGED xvars
    BY <2>1 DEF xvars, FlightHasRow, RowsFirst
  <2>2. CASE XNext
    <3>1. FlightHasRow'
      BY <2>2, FlightKeepsRow DEF ReceiptsOK
    <3>2. RowsFirst'
      BY <2>2, StepMovesOneAttempt, MovesKeepRows, RestartKeepsRows DEF ReceiptsOK
    <3> QED
      BY <3>1, <3>2
  <2> QED
    BY <2>1, <2>2
<1>4. "dispatched" \notin OwnerTargets
  BY OwnerRemoves
<1>5. Spec => [](JudgedInOrder /\ FlightUnjudged /\ SnapshotAtRest)
  BY <1>4, FlightIsFresh
<1>6. ImplementsGraph => Spec
  BY DEF ImplementsGraph, Spec
<1> QED
  BY <1>1, <1>2, <1>3, <1>5, <1>6, ExecutionsHold, ExecutionImplementsGraph, PTL DEF XSpec

-----------------------------------------------------------------------------
(* Revocation.                                                               *)

\* No step takes a revocation back, and one that writes the graph revokes what it abandons.
Revokes == ex.revoked \subseteq ex'.revoked /\ (RevokedBy(wo') \subseteq ex'.revoked \/ wo' = wo)

\* A transaction on receipts that have lost no revocation.
LEMMA ReceiptsRevoke ==
  ASSUME NEW x \in ExStates, ex.revoked \subseteq x.revoked, Receipts(x)
  PROVE  Revokes
  BY ReceiptFields DEF Revokes

\* Moving a session takes no revocation back.
LEMMA GoingKeepsRevoked ==
  ASSUME NEW x \in ExStates, NEW a \in Attempts, NEW s \in SessionStates
  PROVE  Goes(x, a, s) \in ExStates /\ Goes(x, a, s).revoked = x.revoked
<1>1. Goes(x, a, s) \in ExStates
  BY ReceiptsAreTyped
<1> QED
  BY <1>1 DEF Goes, ExStates

\* Every step revokes so.
LEMMA StepRevokes ==
  ASSUME WorkTyped, ex \in ExStates, XNext
  PROVE  Revokes
<1>1. ASSUME Receipts(ex) PROVE Revokes
  BY <1>1, ReceiptsRevoke
<1>2. ASSUME ex'.revoked = ex.revoked, GraphUnchanged PROVE Revokes
  BY <1>2 DEF GraphUnchanged, Revokes
<1>3. CASE PassStep \/ Elsewhere
  BY <1>1, <1>3 DEF PassStep, Elsewhere
<1>4. CASE Restart
  BY <1>4 DEF Restart, ExStates, Revokes
<1> DEFINE Landings == {"claimed", "gone", "judging", "leaving", "settling"}
<1>14. Landings \subseteq SessionStates
  BY DEF SessionStates, AtGate, InThread, Recovering
<1>5. ASSUME NEW t \in Tasks, ClaimTask(t) PROVE Revokes
  <2> DEFINE a == <<t, wo.epoch[t] + 1>>
             x == [ex EXCEPT !.attempt[a] = "reserved"]
             y == Goes(x, a, "claimed")
  <2>1. a \in Attempts
    BY <1>5, MaxEpochType DEF ClaimTask, Claim, Attempts, WorkTyped, WorkObjects
  <2>2. Receipts(y)
    BY <1>5 DEF ClaimTask
  <2> HIDE DEF a
  <2>3. x \in ExStates /\ x.revoked = ex.revoked
    BY <2>1 DEF ExStates, AttemptStates
  <2> HIDE DEF x
  <2>4. y \in ExStates /\ y.revoked = x.revoked
    BY <1>14, <2>1, <2>3, GoingKeepsRevoked
  <2> HIDE DEF y
  <2> QED
    BY <2>2, <2>3, <2>4, ReceiptsRevoke
<1>6. ASSUME NEW t \in Tasks, Sweep(t) PROVE Revokes
  <2> DEFINE swept == {a \in Attempts : a = <<t, wo.epoch[t]>> /\ ex.attempt[a] # "none"}
             given == IF swept = {} THEN Released(ex, t)
                      ELSE Counted(Released(ex, t), <<t, wo.epoch[t]>>)
             y == [given EXCEPT !.revoked = @ \cup swept, !.swept[t] = TRUE]
  <2>1. Receipts(y)
    BY <1>6 DEF Sweep
  <2>2. (swept # {} => <<t, wo.epoch[t]>> \in Attempts) /\ swept \subseteq Attempts
    OBVIOUS
  <2> HIDE DEF swept
  <2>3. Released(ex, t) \in ExStates /\ Released(ex, t).revoked = ex.revoked
    BY ReceiptFields
  <2>4. given \in ExStates /\ given.revoked = ex.revoked
    BY <2>2, <2>3, ReceiptFields
  <2> HIDE DEF given
  <2>5. y \in ExStates /\ y.revoked = given.revoked \cup swept
    BY <2>2, <2>4 DEF ExStates
  <2> HIDE DEF y
  <2> QED
    BY <2>1, <2>4, <2>5, ReceiptsRevoke
<1>7. ASSUME NEW t \in Tasks, Judgment(t) PROVE Revokes
  BY <1>1, <1>7 DEF Judgment, TickJudges
<1>8. ASSUME NEW a \in Attempts, NEW s \in SessionStates, Receipts(Goes(ex, a, s)) PROVE Revokes
  <2>1. Goes(ex, a, s) \in ExStates /\ Goes(ex, a, s).revoked = ex.revoked
    BY GoingKeepsRevoked
  <2> QED
    BY <1>8, <2>1, ReceiptsRevoke
<1>9. ASSUME NEW a, NEW s, ex' = Goes(ex, a, s), GraphUnchanged PROVE Revokes
  BY <1>2, <1>9 DEF Goes, ExStates
<1>10. ASSUME NEW a \in Attempts, NEW s \in SessionStates,
              Receipts(Goes(Counted(Released(ex, a[1]), a), a, s))
       PROVE  Revokes
  <2> DEFINE released == Released(ex, a[1])
             counted  == Counted(released, a)
             gone     == Goes(counted, a, s)
  <2>1. released \in ExStates /\ released.revoked = ex.revoked
    BY ReceiptFields DEF Attempts
  <2> HIDE DEF released
  <2>2. counted \in ExStates /\ counted.revoked = released.revoked
    BY <2>1, ReceiptFields
  <2> HIDE DEF counted
  <2>3. gone \in ExStates /\ gone.revoked = counted.revoked
    BY <2>2, GoingKeepsRevoked
  <2>4. Receipts(gone)
    BY <1>10 DEF gone, counted, released
  <2> HIDE DEF gone
  <2> QED
    BY <2>1, <2>2, <2>3, <2>4, ReceiptsRevoke
<1>11. ASSUME NEW a \in Attempts, GateStep(a) PROVE Revokes
  <2>1. CASE OpenSession(a)
    BY <1>2, <2>1 DEF OpenSession, Goes, ExStates
  <2>2. CASE OpenRefused(a)
    BY <1>8, <1>14, <2>2 DEF OpenRefused
  <2>3. CASE StartThread(a)
    BY <1>9, <2>3 DEF StartThread
  <2>4. CASE LaunchFails(a)
    <3> DEFINE x == [ex EXCEPT !.attempt[a] = "exited"]
               y == Goes(x, a, "gone")
    <3>1. x \in ExStates /\ x.revoked = ex.revoked
      BY DEF ExStates, AttemptStates
    <3>2. Receipts(y)
      BY <2>4 DEF LaunchFails
    <3> HIDE DEF x
    <3>3. y \in ExStates /\ y.revoked = x.revoked
      BY <1>14, <3>1, GoingKeepsRevoked
    <3> HIDE DEF y
    <3> QED
      BY <3>1, <3>2, <3>3, ReceiptsRevoke
  <2> QED
    BY <1>11, <2>1, <2>2, <2>3, <2>4 DEF GateStep
<1>12. ASSUME NEW a \in Attempts, Thread(a) PROVE Revokes
  <2>1. CASE \/ Begin(a) \/ RoomFails(a) \/ RecordRefused(a) \/ ResumedRefused(a) \/ RoomDoesNotJudge(a)
    BY <1>9, <2>1 DEF Begin, RoomFails, RecordRefused, ResumedRefused, RoomDoesNotJudge
  <2>2. CASE AdmitCall(a) \/ Leave(a) \/ SettleTicket(a)
    BY <1>2, <2>2 DEF AdmitCall, Leave, SettleTicket, Goes, ExStates
  <2>3. ASSUME NEW outcome, NEW denial, SessionRecords(a, outcome, denial) PROVE Revokes
    BY <1>10, <1>14, <2>3 DEF SessionRecords
  <2>4. ASSUME NEW verdict, NEW next, RoomJudges(a, verdict, next) PROVE Revokes
    BY <1>8, <1>14, <2>4 DEF RoomJudges
  <2> QED
    BY <1>12, <2>1, <2>2, <2>3, <2>4 DEF Thread
<1>13. ASSUME NEW a \in Attempts, Tool(a) PROVE Revokes
  <2>1. CASE CancelAttempt(a)
    BY <2>1 DEF CancelAttempt, GraphUnchanged, ExStates, Revokes
  <2>2. CASE BindsTicket(a) \/ WorkerWrites(a)
    BY <1>1, <2>2 DEF BindsTicket, WorkerWrites
  <2>3. CASE ResolveCall(a)
    BY <1>2, <2>3 DEF ResolveCall, ExStates
  <2>4. ASSUME NEW receipt, NEW next, CallEnds(a, receipt, next) PROVE Revokes
    BY <1>2, <2>4 DEF CallEnds, Goes, ExStates
  <2>5. ASSUME NEW outcome, NEW denial, ResumedRecords(a, outcome, denial) PROVE Revokes
    BY <1>10, <1>14, <2>5 DEF ResumedRecords
  <2> QED
    BY <1>13, <2>1, <2>2, <2>3, <2>4, <2>5 DEF Tool
<1> QED
  BY <1>3, <1>4, <1>5, <1>6, <1>7, <1>11, <1>12, <1>13 DEF XNext

\* The sweeper revokes the attempt it gives up on.
LEMMA SweepRevokes ==
  ASSUME ex \in ExStates, NEW a \in Attempts, wo.epoch[a[1]] = a[2], ex.attempt[a] # "none", Sweep(a[1])
  PROVE  a \in ex'.revoked
<1> DEFINE t == a[1]
           swept == {b \in Attempts : b = <<t, wo.epoch[t]>> /\ ex.attempt[b] # "none"}
           given == IF swept = {} THEN Released(ex, t)
                    ELSE Counted(Released(ex, t), <<t, wo.epoch[t]>>)
           y == [given EXCEPT !.revoked = @ \cup swept, !.swept[t] = TRUE]
<1>1. Receipts(y)
  BY DEF Sweep
<1>2. t \in Tasks /\ a = <<t, wo.epoch[t]>> /\ a \in swept /\ swept \subseteq Attempts
  BY DEF Attempts
<1> HIDE DEF swept, t
<1>3. Released(ex, t) \in ExStates
  BY <1>2, ReceiptFields
<1>4. given \in ExStates
  BY <1>2, <1>3, ReceiptFields
<1> HIDE DEF given
<1>5. y \in ExStates /\ y.revoked = given.revoked \cup swept
  BY <1>2, <1>4 DEF ExStates
<1> HIDE DEF y
<1>6. ex'.revoked = y.revoked \cup RevokedBy(wo')
  BY <1>1, <1>5, ReceiptFields
<1> QED
  BY <1>2, <1>5, <1>6

\* Work that has ended does not become active again.
LEMMA WorkStaysEnded ==
  ASSUME WorkTyped, [Next]_vars
  PROVE  wo'.work \in {"active", "done", "abandoned"} /\ (wo'.work = "active" => wo.work = "active")
<1>1. wo.work \in {"active", "done", "abandoned"}
  BY DEF WorkTyped, WorkObjects
<1>2. CASE UNCHANGED vars
  BY <1>1, <1>2 DEF vars
<1>3. CASE Next
  BY <1>1, <1>3, StepMoves DEF Idles, MovesOne, Revises, Ends, Framed, Settles, EndedWork
<1> QED
  BY <1>2, <1>3

\* A call that is out stays the authorized one, or is revoked, through a step.
LEMMA CallsStopInAStep ==
  ASSUME WorkTyped, DispatchesCounted, ex \in ExStates, Held, SnapshotAtRest, CallStopsWithItsTask, XNext
  PROVE  CallStopsWithItsTask'
<1> SUFFICES ASSUME NEW a \in Attempts, ex'.call[a] = "in_flight", a \notin ex'.revoked,
                    wo'.work # "done"
             PROVE  Authorized(a)'
  BY DEF CallStopsWithItsTask
<1>1. Held' /\ Revokes
  BY StepKeepsHeld, StepRevokes
<1>2. a \notin ex.revoked /\ Unfinished(a)'
  <2>1. ex'.session[a] = "calling" /\ ex'.attempt[a] = "running"
    BY <1>1 DEF Held, ThreadsHold, InThread
  <2> QED
    BY <1>1, <2>1 DEF Revokes, Unfinished
<1>3. ~Restart
  BY RestartReceipts
<1>4. OneAttemptMoves
  BY <1>3, StepMovesOneAttempt
<1>5. ex.call[a] = "in_flight" \/ Admitted(a)
  BY <1>4 DEF OneAttemptMoves, AttemptMoves, Aside, SameCall, SameSession, Reserves, Opens, Launches,
     GoesOn, Returns, Recovers, Exits, Resolved
<1>6. CASE Admitted(a)
  BY <1>2, <1>6 DEF Admitted, Authorized, Ended
<1>7. CASE ex.call[a] = "in_flight"
  <2>1. ex.attempt[a] = "running"
    BY <1>7 DEF Held, ThreadsHold, InThread
  <2>2. wo'.work = "active"
    <3>1. wo'.work \in {"active", "done", "abandoned"}
      BY StepImplementsGraph, WorkStaysEnded
    <3>2. ASSUME wo'.work = "abandoned" PROVE FALSE
      <4>1. a \in RevokedBy(wo')
        BY <2>1, <3>2 DEF RevokedBy, Unfinished
      <4>2. wo' = wo
        BY <1>1, <4>1 DEF Revokes
      <4> QED
        BY <1>2, <1>7, <3>2, <4>2 DEF CallStopsWithItsTask, Authorized, Ended, EndedWork
    <3> QED
      BY <3>1, <3>2
  <2>3. Authorized(a)
    <3>1. wo.work = "active"
      BY <2>2, StepImplementsGraph, WorkStaysEnded
    <3> QED
      BY <1>2, <1>7, <3>1 DEF CallStopsWithItsTask
  <2>4. ~Sweep(a[1])
    BY <2>1, <2>3, SweepRevokes DEF Authorized
  <2>5. wo'.epoch[a[1]] = a[2] /\ wo'.status[a[1]] \in {"dispatched", "abandoned"}
    BY <1>7, <2>3, <2>4, CallKeepsItsTask DEF Authorized, Calm
  <2>6. wo'.status[a[1]] # "abandoned"
    <3> SUFFICES ASSUME wo'.status[a[1]] = "abandoned" PROVE FALSE
      OBVIOUS
    <3>1. a \in RevokedBy(wo')
      BY <2>1, <2>5 DEF RevokedBy
    <3>2. wo' = wo
      BY <1>1, <3>1 DEF Revokes
    <3> QED
      BY <2>3, <3>2 DEF Authorized
  <2> QED
    BY <1>2, <2>2, <2>5, <2>6 DEF Authorized, Ended, EndedWork
<1> QED
  BY <1>5, <1>6, <1>7

\* A call never runs on for a task that was taken away: whatever abandons the task, by the
\* owner, the brain, a revision or the sweeper, revokes the attempt in the same transaction.
THEOREM CallsStopWithTheirTasks == XSpec => []CallStopsWithItsTask
<1>1. XInit => CallStopsWithItsTask
  BY DEF XInit, ExInit, CallStopsWithItsTask
<1>2. WorkTyped /\ DispatchesCounted /\ ReceiptsOK /\ Held /\ SnapshotAtRest /\ CallStopsWithItsTask
        /\ [XNext]_xvars => CallStopsWithItsTask'
  <2> SUFFICES ASSUME WorkTyped, DispatchesCounted, ReceiptsOK, Held, SnapshotAtRest, CallStopsWithItsTask,
                      [XNext]_xvars
               PROVE  CallStopsWithItsTask'
    OBVIOUS
  <2>1. CASE UNCHANGED xvars
    BY <2>1 DEF xvars, CallStopsWithItsTask, Authorized, Unfinished, Ended
  <2>2. CASE XNext
    BY <2>2, CallsStopInAStep DEF ReceiptsOK
  <2> QED
    BY <2>1, <2>2
<1>3. "dispatched" \notin OwnerTargets
  BY OwnerRemoves
<1>4. Spec => [](JudgedInOrder /\ FlightUnjudged /\ SnapshotAtRest)
  BY <1>3, FlightIsFresh
<1>5. ImplementsGraph => Spec
  BY DEF ImplementsGraph, Spec
<1> QED
  BY <1>1, <1>2, <1>4, <1>5, ExecutionsHold, ExecutionImplementsGraph, PTL DEF XSpec
=============================================================================
