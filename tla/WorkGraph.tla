------------------------------ MODULE WorkGraph ------------------------------
(***************************************************************************)
(* One work object and everyone who writes it: the architect, the state     *)
(* mover, the dispatch gate, tool sessions recording results, the           *)
(* dispatch sweeper, the finalizer, the workers, the brain and the owner.   *)
(* Every step is one store transaction (WorkStore.apply).  Writers that     *)
(* carry a version or an epoch fence see the state they prepared from; the   *)
(* state mover carries none, so its snapshot (seen, parking) is state.       *)
(*                                                                          *)
(* Who may call what and when beyond the store's own refusals (sessions,     *)
(* reservations, revocation) is the business of WorkExecution.               *)
(***************************************************************************)
EXTENDS WorkStore

CONSTANTS Gates,         \* wake gates the architect uses, of time, event and watch
          WatchTasks,    \* tasks the architect may plan as standing watches
          AskTasks,      \* tasks whose tool asks the user a question
          TimedTasks,    \* tasks that may be held until a time
          OwnerTargets,  \* statuses the owner sets by hand in the work UI
          MaxEpoch,      \* bound on dispatches of one task
          NoTask         \* "no task is being parked"

ASSUME GatesType == Gates \subseteq {"time", "event", "watch"}
ASSUME NoTaskType == NoTask \notin Nodes
ASSUME OwnerTargetsType == OwnerTargets \subseteq Statuses \ {"absent"}
ASSUME MaxEpochType == MaxEpoch \in Nat

VARIABLES wo,       \* the work object
          seen,     \* ready tasks of the state mover's snapshot, not yet handled
          parking   \* the task it has put on hold but not yet given a time

vars == <<wo, seen, parking>>

Init == wo = NewWorkObject /\ seen = {} /\ parking = NoTask

\* Mutant: commits without validate().
CommitUnchecked(w) == wo' = Rollup(w)

\* WorkStore.apply after the handler: rollup, then validate, then commit.
Commit(w) == Valid(Rollup(w)) /\ wo' = Rollup(w)

MoverIdle == UNCHANGED <<seen, parking>>
Write(w)  == Commit(w) /\ MoverIdle

\* The orchestrator's own writes: one pass runs at a time (_run_gate) and its steps in
\* sequence, so none of them falls between the state mover's snapshot and its writes.
MoverQuiet == seen = {} /\ parking = NoTask
InPass(w)  == MoverQuiet /\ Write(w)

-----------------------------------------------------------------------------
(* The architect.  A revision is one batch, fenced by the version it was     *)
(* prepared from; it consumes what asked for it and may end the goal.        *)

Dead == {"abandoned", "failed", "superseded"}
Live == {"proposed", "waiting", "actionable", "dispatched"}

\* stranded_fingerprint: nothing in the work object can move any more.
Stranded(w) ==
  /\ w.work = "active" /\ ~HasPending(w) /\ ~GoalSatisfied(w) /\ Planned(w) # {}
  /\ \A t \in Planned(w) :
       /\ w.status[t] \in {"done", "failed"} => w.judged[t] # NoEpoch
       /\ w.status[t] \in Live =>
            /\ w.status[t] # "dispatched"
            /\ w.wake[t] \notin {"event", "user_reply"}
            /\ \E d \in DepsOf(w, t) : w.status[d] \in Dead

Licensed(w) == HasPending(w) \/ w.asked \/ Stranded(w)

\* set_status(abandoned) on each pruned task and on what its workers left unfinished.
MayPrune(w, P, licensed) ==
  \A t \in P : /\ w.status[t] \notin OutcomeStatuses
               /\ MaySetStatus(w, t, "abandoned", "architect", licensed)
Prune(w, P) ==
  LET below == UNION {Descendants(t) : t \in P}
  IN  [w EXCEPT !.status = [n \in Nodes |->
         IF n \in P \/ (n \in below /\ w.status[n] \notin OutcomeStatuses \cup {"absent"})
         THEN "abandoned" ELSE w.status[n]]]

AddTasks(w, A) == [w EXCEPT !.status = [n \in Nodes |-> IF n \in A THEN "proposed" ELSE w.status[n]]]

\* add_edge refuses a self, duplicate or cyclic dependency.
Reaches(deps, s, d) ==
  LET Below[k \in 0 .. Cardinality(Tasks)] ==
        IF k = 0 THEN {s}
        ELSE LET near == Below[k-1] IN near \cup {u \in Tasks : \E v \in near : <<u, v>> \in deps}
  IN  d \in Below[Cardinality(Tasks)]
MayLink(w, s, d) == /\ {s, d} \subseteq Planned(w) /\ s # d /\ <<s, d>> \notin w.deps
                    /\ ~Reaches(w.deps, s, d)
Link(w, s, d) == [w EXCEPT !.deps = @ \cup {<<s, d>>}]

\* redirect_dependencies: the kept task takes over what its duplicate needs and what needs it;
\* the batch is refused when merging the two closes a cycle.
\* Mutant: merges without looking for a cycle.
MayMergeUnchecked(w, kept) == TRUE
AcyclicNeeds(deps) == \A t \in Tasks : \A d \in Tasks : <<d, t>> \in deps => ~Reaches(deps, d, t)
Keeper(kept, t) == IF t \in DOMAIN kept THEN kept[t] ELSE t
\* Mutant: a duplicate takes its prerequisites and consumers with it.
RedirectDrops(w, kept) ==
  [w EXCEPT !.deps = {e \in @ : e[1] \notin DOMAIN kept /\ e[2] \notin DOMAIN kept}]
Redirect(w, kept) ==
  [w EXCEPT !.deps = {e \in Tasks \X Tasks :
     e[1] # e[2] /\ \E f \in w.deps : e = <<Keeper(kept, f[1]), Keeper(kept, f[2])>>}]
MayMerge(w, kept) == AcyclicNeeds(Redirect(w, kept).deps)

\* A wake gate on a planned task that is not in motion; an event wait may repeat.
MayGate(w, t, g) == /\ w.status[t] \notin EndStatuses \cup {"absent", "dispatched"}
                    /\ g = "time" => t \in TimedTasks
                    /\ g = "watch" => t \in WatchTasks
Gate(w, t, g) == CASE g = "time"  -> Defer(w, t, "time", TRUE)
                   [] g = "event" -> Defer(w, t, "event", FALSE)
                   [] g = "watch" -> OpenWatch(Defer(w, t, "event", FALSE), t)

Consume(w) == [w EXCEPT !.pending = [t \in Tasks |-> FALSE], !.asked = FALSE]

\* Decompose a goal that has no task yet.
ArchitectDecompose(A) ==
  /\ wo.work = "active" /\ Planned(wo) = {} /\ A # {}
  /\ InPass(AddTasks(wo, A))

\* Decompose: a dependency and a gate restated in the same batch are wired before anything runs.
ArchitectDecomposeGated(A, t, g) ==
  /\ wo.work = "active" /\ Planned(wo) = {} /\ t \in A
  /\ LET added == AddTasks(wo, A) IN MayGate(added, t, g) /\ InPass(Gate(added, t, g))

ArchitectDecomposeLinked(A, s, d) ==
  /\ wo.work = "active" /\ Planned(wo) = {} /\ {s, d} \subseteq A
  /\ LET added == AddTasks(wo, A) IN MayLink(added, s, d) /\ InPass(Link(added, s, d))

\* Re-plan: prune, add, link or gate a task, consume the instructions.
ArchitectReplan(P, A) ==
  /\ wo.work = "active" /\ Planned(wo) # {} /\ Licensed(wo)
  /\ A \cap Planned(wo) = {} /\ MayPrune(wo, P, TRUE)
  /\ InPass(Consume(AddTasks(Prune(wo, P), A)))

ArchitectRegate(t, g) ==
  /\ wo.work = "active" /\ Planned(wo) # {} /\ Licensed(wo)
  /\ MayGate(wo, t, g)
  /\ InPass(Consume(Gate(wo, t, g)))

ArchitectRelink(s, d) ==
  /\ wo.work = "active" /\ Planned(wo) # {} /\ Licensed(wo)
  /\ MayLink(wo, s, d)
  /\ InPass(Consume(Link(wo, s, d)))

\* Re-plan: abandon duplicates of tasks that this revision keeps and hand over their edges.
ArchitectMerge(kept) ==
  /\ wo.work = "active" /\ Planned(wo) # {} /\ Licensed(wo)
  /\ \A t \in DOMAIN kept : kept[t] \in Planned(wo) \ DOMAIN kept
                             /\ wo.status[kept[t]] \notin OutcomeStatuses
  /\ MayPrune(wo, DOMAIN kept, TRUE) /\ MayMerge(wo, kept)
  /\ InPass(Consume(Redirect(Prune(wo, DOMAIN kept), kept)))

ArchitectEnd(target) ==
  /\ wo.work = "active" /\ (Planned(wo) = {} \/ Licensed(wo))
  /\ InPass(EndWork(IF Planned(wo) = {} THEN wo ELSE Consume(wo), target))

-----------------------------------------------------------------------------
(* The state mover: promotes or holds the ready tasks of a snapshot it does   *)
(* not fence, and wakes a task whose outside event arrived (fenced).          *)

MoverLook ==
  /\ MoverQuiet
  /\ seen' = {t \in Tasks : wo.status[t] \in {"proposed", "waiting"} /\ IsReady(wo, t)}
  /\ seen' # {}
  /\ UNCHANGED <<wo, parking>>

MoverPromote(t) ==
  /\ t \in seen /\ parking = NoTask
  /\ MaySetStatus(wo, t, "actionable", "state_mover", FALSE)
  /\ Commit(SetStatus(wo, t, "actionable"))
  /\ seen' = seen \ {t} /\ UNCHANGED parking

\* The store refused the promotion: the exception ends the whole pass.
MoverRefused(t) ==
  /\ t \in seen /\ parking = NoTask
  /\ ~(/\ MaySetStatus(wo, t, "actionable", "state_mover", FALSE)
       /\ Valid(Rollup(SetStatus(wo, t, "actionable"))))
  /\ seen' = {} /\ UNCHANGED <<wo, parking>>

\* A hold is two transactions: waiting first, its time second.
MoverHold(t) ==
  /\ t \in seen \cap TimedTasks /\ parking = NoTask
  /\ MaySetStatus(wo, t, "waiting", "state_mover", FALSE)
  /\ Commit(SetStatus(wo, t, "waiting"))
  /\ seen' = seen \ {t} /\ parking' = t

MoverPark(t) ==
  /\ parking = t
  /\ Commit(Defer(wo, t, IF wo.wake[t] = "user_reply" THEN "user_reply" ELSE "time", TRUE))
  /\ parking' = NoTask /\ UNCHANGED seen

\* The pass ends: tasks left as they are, a failed park, or the process stopped.
MoverEnds ==
  /\ seen # {} \/ parking # NoTask
  /\ seen' = {} /\ parking' = NoTask /\ UNCHANGED wo

MoverWake(t) ==
  /\ wo.wake[t] = "event" /\ wo.status[t] \in {"proposed", "waiting"}
  /\ wo.work = "active" /\ ~HasPending(wo) /\ GateClear(wo, t)
  /\ InPass(Defer(wo, t, "none", FALSE))

-----------------------------------------------------------------------------
(* Dispatch, results and judgments.                                          *)

Claim(t) ==
  /\ MayClaim(wo, t) /\ wo.epoch[t] < MaxEpoch
  /\ InPass(SetStatus(wo, t, "dispatched"))

\* The switchboard named no tool: _fail_node without an epoch.
GateReject(t) ==
  /\ wo.status[t] = "actionable"
  /\ InPass(SetStatus(wo, t, "failed"))

\* open_session broke after the claim of epoch e: _fail_node with its epoch.
MayGateFail(t, e) ==
  /\ e > 0 /\ wo.epoch[t] = e
  /\ MaySetStatus(wo, t, "failed", "node_dispatch", FALSE)
  /\ Valid(Rollup(SetStatus(wo, t, "failed")))
GateFail(t, e) == MayGateFail(t, e) /\ InPass(SetStatus(wo, t, "failed"))

\* The ticket tool surfaced the question of attempt e.
BindTicket(t, e) ==
  /\ t \in AskTasks /\ e > 0
  /\ MayBindTicket(wo, t, e)
  /\ Write(Defer(wo, t, "user_reply", FALSE))

\* The session of epoch e, alive or overtaken, reports what its call returned.
RecordResult(t, e, outcome, denial) ==
  /\ e > 0 /\ MayRecord(wo, t, e)
  /\ wo.status[t] \in {"proposed", "actionable"} => e < MaxEpoch
  /\ Write(Record(wo, t, outcome, denial))

\* The sweeper records a timed-out attempt as failed.
SweepStuck(t) ==
  /\ wo.status[t] = "dispatched" /\ MayRecord(wo, t, wo.epoch[t])
  /\ InPass(Record(wo, t, "failed", FALSE))

\* A judgment prepared for epoch e, in the dispatch room or by the tick's recovery.
Judge(t, e, verdict, next) ==
  /\ MayFinalize(wo, t, e, verdict)
  /\ Write(Finalize(wo, t, verdict, next))

WatchEnds(t) == MayEndWatch(wo, t) /\ ~Ended(wo) /\ InPass(EndWatch(wo, t))

-----------------------------------------------------------------------------
(* Workers, the brain, the owner, and the clock.                             *)

Anchor(h) == CHOOSE t \in Tasks : h \in Descendants(t)

\* A worker writes only while its own main task is in flight.
WorkerActive(h) == /\ \E t \in Tasks : h \in Descendants(t)
                   /\ ~Ended(wo) /\ wo.status[Anchor(h)] = "dispatched"

AddHelper(h) ==
  /\ WorkerActive(h) /\ wo.status[h] = "absent" /\ wo.status[Parent[h]] # "absent"
  /\ Write([wo EXCEPT !.status = [@ EXCEPT ![h] = "proposed"]])

\* The planner's checklist moves (start or resume, set aside, finish), and the result of a
\* delegated item, recorded at once.
HelperMoves == {<<"proposed", "dispatched">>, <<"waiting", "dispatched">>,
                <<"proposed", "waiting">>, <<"dispatched", "waiting">>,
                <<"dispatched", "done">>, <<"waiting", "done">>,
                <<"proposed", "done">>, <<"proposed", "failed">>}
MoveHelper(h, s) ==
  /\ WorkerActive(h) /\ <<wo.status[h], s>> \in HelperMoves
  /\ Write(SetStatus(wo, h, s))

BrainReplan == wo.work = "active" /\ ~wo.asked /\ InPass([wo EXCEPT !.asked = TRUE])

\* The brain or the owner ends the work.
Abandon == wo.work # "abandoned" /\ Write(EndWork(wo, "abandoned"))

OwnerSetStatus(n, s) ==
  /\ wo.status[n] # s
  /\ MaySetStatus(wo, n, s, "work_ui", FALSE)
  /\ (n \in Tasks /\ s = "dispatched") => wo.epoch[n] < MaxEpoch
  /\ Write(SetStatus(wo, n, s))

OwnerAddTask(t) == wo.status[t] = "absent" /\ Write(AddTask(wo, t))

TimePasses(t) ==
  /\ wo.held[t] /\ wo' = [wo EXCEPT !.held = [@ EXCEPT ![t] = FALSE]] /\ MoverIdle
WatchExpires(t) ==
  /\ wo.watch[t] = "open" /\ wo' = [wo EXCEPT !.watch = [@ EXCEPT ![t] = "over"]] /\ MoverIdle

-----------------------------------------------------------------------------
Architect ==
  \/ \E A \in SUBSET Tasks :
       \/ ArchitectDecompose(A)
       \/ \E t \in A, g \in Gates : ArchitectDecomposeGated(A, t, g)
       \/ \E s, d \in A : ArchitectDecomposeLinked(A, s, d)
       \/ \E P \in SUBSET Tasks : ArchitectReplan(P, A)
  \/ \E t \in Tasks, g \in Gates : ArchitectRegate(t, g)
  \/ \E s, d \in Tasks : ArchitectRelink(s, d)
  \/ \E D \in SUBSET Tasks : \E kept \in [D -> Tasks] : D # {} /\ ArchitectMerge(kept)
  \/ \E target \in EndedWork : ArchitectEnd(target)

StateMover ==
  \/ MoverLook
  \/ MoverEnds
  \/ \E t \in Tasks : \/ MoverPromote(t) \/ MoverRefused(t)
                      \/ MoverHold(t) \/ MoverPark(t) \/ MoverWake(t)

Dispatch ==
  \E t \in Tasks :
    \/ Claim(t) \/ GateReject(t) \/ SweepStuck(t) \/ WatchEnds(t)
    \/ \E e \in 0 .. MaxEpoch :
         \/ GateFail(t, e) \/ BindTicket(t, e)
         \/ \E outcome \in {"done", "failed"}, denial \in BOOLEAN : RecordResult(t, e, outcome, denial)
         \/ \E verdict \in Verdicts, next \in NextSteps : Judge(t, e, verdict, next)

Others ==
  \/ BrainReplan \/ Abandon
  \/ \E h \in Helpers : AddHelper(h) \/ \E s \in Statuses : MoveHelper(h, s)
  \/ \E n \in Nodes, s \in OwnerTargets : OwnerSetStatus(n, s)
  \/ \E t \in Tasks : OwnerAddTask(t) \/ TimePasses(t) \/ WatchExpires(t)

Next == Architect \/ StateMover \/ Dispatch \/ Others

Spec == Init /\ [][Next]_vars

-----------------------------------------------------------------------------
(* Properties.                                                               *)

\* Every stored field keeps its range.
WorkTyped == wo \in WorkObjects /\ seen \subseteq Tasks /\ parking \in Tasks \cup {NoTask}

\* No judgment is stamped ahead of the dispatches of its task: the result of a later dispatch would
\* pass for judged and nobody would take it up.
JudgedInOrder == \A t \in Tasks : wo.judged[t] <= wo.epoch[t]

\* The state is well typed, and its two counters of a task agree: every stored field keeps its range
\* and the judged dispatch is one that was started.
TypeOK == WorkTyped /\ JudgedInOrder

\* Whatever was interleaved, an ended work object holds nothing the engine could start
\* again (the zombie-wake incident that validate() and repair_terminal_zombies guard).
TerminalInert == Valid(wo)

\* finalize_task judges each dispatch at most once: a judgment only moves forward to the
\* current epoch, and the unmet-attempt counter moves only together with a judgment.
JudgedOnce ==
  [][/\ \A t \in Tasks : wo'.judged[t] # wo.judged[t] =>
          wo'.judged[t] = wo.epoch[t] /\ wo'.judged[t] > wo.judged[t]
     /\ wo'.unmet # wo.unmet => \E t \in Tasks : wo'.judged[t] > wo.judged[t]]_vars

\* The finalizer alone produces closed: a closed task was judged for its last dispatch,
\* or it is a standing watch whose time ran out (end_watch).
ClosedWasJudged ==
  \A t \in Tasks : wo.status[t] = "closed" =>
     \/ wo.judged[t] = wo.epoch[t]
     \/ wo.watch[t] = "over"

\* A work object that nobody ended by hand is done only when every task of its plan was
\* closed (superseded is the owner's edit of a closed one) and no judgment was still asking
\* the architect to change the plan; nothing is added to it later.
CompletionEarned ==
  wo.work = "done" /\ ~wo.ended =>
     /\ \A t \in Planned(wo) : wo.status[t] \in {"closed", "superseded"}
     /\ ~HasPending(wo)

\* A task that starts has its prerequisites closed, its time come and no revision pending,
\* even when it was promoted on an older view of the graph.
StartsClean ==
  [][\A t \in Tasks : wo.status[t] # "dispatched" /\ wo'.status[t] = "dispatched" =>
        /\ wo.work = "active" /\ ~HasPending(wo)
        /\ wo.wake[t] # "event" /\ GateClear(wo, t)]_vars

\* A question out to the user ends by its result, by a failed dispatch, or because its work
\* object ended; nobody closes or abandons it from the side (the in-flight ask fence).
AskEndsByAnswer ==
  [][\A t \in Tasks :
        InFlightAsk(wo, t) /\ wo'.status[t] \in EndStatuses => Ended(wo')]_vars

\* What the workers of a main task had not started stops when the task declares its outcome,
\* and nothing revives it or adds to it: its attempt is fenced off from the graph.
FinishedTaskQuiet ==
  \A t \in Tasks : wo.status[t] \in OutcomeStatuses =>
     \A h \in Descendants(t) : wo.status[h] \notin Startable

\* A denied approval is terminal for the action: the denied result is never reopened.
DeniedNeverRetried ==
  \A t \in Tasks : wo.denied[t] => wo.status[t] \in {"done", "failed", "abandoned"}

\* done means a result was recorded for this very dispatch.
DoneHasResult ==
  \A t \in Tasks : wo.status[t] = "done" => wo.result[t] = wo.epoch[t]

\* The dependencies stay acyclic over any sequence of links and merged duplicates: on a cycle
\* every task would wait for another for ever.
Acyclic == AcyclicNeeds(wo.deps)

\* A revision loses no ordering between two tasks it leaves standing: when a duplicate that
\* stood between them is merged away, the later one still waits for the earlier one.
OrderSurvives ==
  [][\A a, b \in Tasks :
       Reaches(wo.deps, b, a) /\ wo'.status[a] # "abandoned" /\ wo'.status[b] # "abandoned"
         => Reaches(wo'.deps, b, a)]_vars

\* How far the work object is with each task, and with its goal.
PhaseOf(w, t) ==
  CASE w.status[t] = "absent"                             -> "none"
    [] w.status[t] \in {"proposed", "actionable", "waiting"} -> "todo"
    [] w.status[t] = "dispatched"                         -> "doing"
    [] w.status[t] \in {"done", "failed"} -> IF NeedsFinalization(w, t) THEN "told" ELSE "missed"
    [] w.status[t] = "closed"                             -> "met"
    [] OTHER                                              -> "dropped"
GoalOf(w) == CASE w.work = "active" -> "open" [] w.work = "done" -> "achieved" [] OTHER -> "given_up"

Promise == INSTANCE WorkPromise
  WITH goal <- GoalOf(wo), phase <- [t \in Tasks |-> PhaseOf(wo, t)], needs <- wo.deps

\* All the writers together keep the promise a work object is, whatever their interleaving:
\* no task starts early, is judged twice on one report, or moves after it was met, dropped or
\* its goal ended; and only its last met task or somebody's decision ends the goal.
KeepsPromise == Promise!Spec
=============================================================================
