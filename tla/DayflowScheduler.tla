--------------------------- MODULE DayflowScheduler ---------------------------
(***************************************************************************)
(* When Dayflow runs: dayflow_orchestrator/dayflow_scheduler.py, the           *)
(* one-shot jobs it keeps in APScheduler, and the signals that reach it over   *)
(* the event hub.  The planning tick and the wake passes of single nodes are    *)
(* two lanes behind one gate.                                               *)
(*                                                                          *)
(* Time is relative: a job is the time left until it is due, and one unit     *)
(* stands for the debounce (a minute).  The scheduler's own methods take       *)
(* milliseconds, so time passes only while no thread is inside one and no job   *)
(* is due; inside them threads interleave at every lock.  What a pass does is    *)
(* WorkGraph's; here it decides anew when each time-gated node is due.          *)
(***************************************************************************)
EXTENDS Integers, Sequences

CONSTANTS Nodes,       \* time-gated nodes of work objects
          Callers,     \* threads that call in: workers of the hub, chat requests
          Kinds,       \* what they call: poke, and progress (_on_work_progress)
          TickThread, MainThread,
          None,
          Debounce, MinGap, PokeMin, Ceiling,   \* the delays of the source, scaled
          Holds,       \* how far ahead a pass may set a node's wake_at
          WatchEnds    \* how far ahead a standing watch may end

Threads == Callers \cup Nodes \cup {TickThread, MainThread}
Least(a, b)    == IF a < b THEN a ELSE b
Greatest(a, b) == IF a > b THEN a ELSE b

ASSUME DelaysType == /\ {Debounce, MinGap, PokeMin, Ceiling} \subseteq Nat \ {0}
                     /\ Debounce <= MinGap /\ MinGap <= PokeMin /\ PokeMin < Ceiling
ASSUME HoldsType == Holds \subseteq Nat \ {0} /\ WatchEnds \subseteq Nat \ {0}
ASSUME ThreadsDiffer == /\ Nodes \cap Callers = {} /\ TickThread # MainThread
                        /\ {TickThread, MainThread} \cap (Nodes \cup Callers) = {}
ASSUME KindsType == Kinds \subseteq {"poke", "progress"}
ASSUME NoneType == None \notin Nat

VARIABLES started,  \* _started
          able,     \* setup_complete() and there is history
          tick,     \* the planning tick
          queued,   \* _pending_poke_reason and _followup_requested
          since,    \* time since _last_run_finished_utc, up to PokeMin
          job,      \* time left of JOB_ID
          wake,     \* time left of each node's wake job
          due,      \* time left until each node's wake_at; None: it has none
          waker,    \* the wake pass of each node
          proc,     \* what each thread has still to schedule
          news,     \* what no tick has read yet
          scanned,  \* the wakes have been armed since the start
          lost      \* history: a run was moved to a later time, or skipped at a tick's end

vars == <<started, able, tick, queued, since, job, wake, due, waker, proc, news, scanned, lost>>

Calls == {"startup", "poke", "progress", "ceiling", "watch"}
Parts == Calls \cup {"wakes", "wakesLater"}
Quiet == [todo |-> << >>, at |-> "idle", date |-> 0]

\* _running: set before the tick waits for the gate, cleared when its pass is over.
Running  == tick \in {"waiting", "begun", "pass"}
TickBusy == tick # "none" \/ proc[TickThread].todo # << >>

\* _run_gate
GateFree == tick \notin {"begun", "pass"} /\ \A n \in Nodes : waker[n] # "pass"

Init ==
  /\ started = FALSE /\ able \in BOOLEAN
  /\ tick = "none" /\ queued = {} /\ since = PokeMin /\ job = None
  /\ due \in [Nodes -> Holds \cup {None}]
  /\ wake = [n \in Nodes |-> None] /\ waker = [n \in Nodes |-> "none"]
  /\ proc = [p \in Threads |-> Quiet]
  /\ news = "none" /\ scanned = FALSE /\ lost = FALSE

-----------------------------------------------------------------------------
(* Signals.                                                                  *)

\* Something is written that a tick should see, and its event published.
Posted ==
  /\ news = "none"
  /\ news' = "posted"
  /\ UNCHANGED <<started, able, tick, queued, since, job, wake, due, waker, proc, scanned, lost>>

\* The hub's queue was full: the event is dropped with a log line.
HubDrops ==
  /\ news = "posted"
  /\ news' = "deferred"
  /\ UNCHANGED <<started, able, tick, queued, since, job, wake, due, waker, proc, scanned, lost>>

\* poke and _on_work_progress: while a tick runs the signal is kept for its end.  It may come late,
\* when a tick has read what it is about, or on another signal.
Signal(p, kind) ==
  /\ proc[p] = Quiet
  /\ news' = IF started THEN IF news = "none" THEN news ELSE "signalled"
             ELSE IF news = "posted" THEN "deferred" ELSE news
  /\ queued' = IF started /\ Running THEN queued \cup {kind} ELSE queued
  /\ proc' = IF started /\ ~Running THEN [proc EXCEPT ![p].todo = <<kind>>] ELSE proc
  /\ UNCHANGED <<started, able, tick, since, job, wake, due, waker, scanned, lost>>

-----------------------------------------------------------------------------
(* _schedule_tick: the date under the lock, the job that is there outside it,   *)
(* the new job under it again.                                                *)

Delay(kind, watchEnd) ==
  CASE kind = "ceiling" -> Ceiling
    [] kind = "watch"   -> watchEnd
    [] OTHER            -> Debounce

\* A poke is throttled since the last run; everything else keeps the small gap.
Floor(kind) == IF kind = "poke" THEN PokeMin ELSE MinGap

Todo(p)  == Head(proc[p].todo)
Rest(p)  == [proc EXCEPT ![p] = [Quiet EXCEPT !.todo = Tail(proc[p].todo)]]
Doing(p, at) == proc[p].todo # << >> /\ proc[p].at = at /\ Todo(p) \in Calls

\* Mutant: the run comes as soon as the gap allows, which may be long past.
DatesUncapped(p, watchEnd) ==
  /\ Doing(p, "idle")
  /\ proc' = [proc EXCEPT ![p].at = "dated", ![p].date = Floor(Todo(p)) - since]
  /\ UNCHANGED <<started, able, tick, queued, since, job, wake, due, waker, news, scanned, lost>>

Dates(p, watchEnd) ==
  /\ Doing(p, "idle")
  /\ proc' = [proc EXCEPT ![p].at = "dated",
                          ![p].date = Greatest(Delay(Todo(p), watchEnd), Floor(Todo(p)) - since)]
  /\ UNCHANGED <<started, able, tick, queued, since, job, wake, due, waker, news, scanned, lost>>

\* Never push an already scheduled, sooner run later.
Guard(p) ==
  /\ Doing(p, "dated")
  /\ proc' = IF job # None /\ job <= proc[p].date THEN Rest(p) ELSE [proc EXCEPT ![p].at = "adds"]
  /\ UNCHANGED <<started, able, tick, queued, since, job, wake, due, waker, news, scanned, lost>>

\* Mutant: whether the scheduler is still started is not looked at again.
AddsAnyway(p) ==
  /\ Doing(p, "adds")
  /\ job' = proc[p].date
  /\ lost' = (lost \/ (job # None /\ job < proc[p].date))
  /\ proc' = Rest(p)
  /\ UNCHANGED <<started, able, tick, queued, since, wake, due, waker, news, scanned>>

Adds(p) ==
  /\ Doing(p, "adds")
  /\ job' = IF started THEN proc[p].date ELSE job
  /\ lost' = (lost \/ (started /\ job # None /\ job < proc[p].date))
  /\ proc' = Rest(p)
  /\ UNCHANGED <<started, able, tick, queued, since, wake, due, waker, news, scanned>>

\* The job of a node: at its wake_at, or a moment from now when that is past.
ArmedAt(d, least) == IF d = None THEN None ELSE IF d = 0 THEN least ELSE d

\* _arm_work_node_wakes: one job per time-gated node, the others removed.  A scan is short and a
\* pass is a conversation with agents, so no pass begins and ends within it.  The cap of 200 is
\* left out.  The end of a standing watch asks for a planning tick.
ArmWakes(p) ==
  /\ proc[p].todo # << >> /\ Todo(p) \in {"wakes", "wakesLater"}
  /\ wake' = IF started
             THEN [n \in Nodes |-> ArmedAt(due[n], IF Todo(p) = "wakes" THEN 1 ELSE MinGap)]
             ELSE wake
  /\ scanned' = (scanned \/ started)
  /\ \/ proc' = Rest(p)
     \/ started /\ WatchEnds # {} /\ proc' = [proc EXCEPT ![p].todo = <<"watch">> \o Tail(@)]
  /\ UNCHANGED <<started, able, tick, queued, since, job, due, waker, news, lost>>

-----------------------------------------------------------------------------
(* The planning tick (_execute_tick).                                         *)

\* APScheduler runs one instance of a job: a run that comes due while the last one is still inside
\* its function is skipped, and a one-shot job is gone with it.
JobFires ==
  /\ job = 0
  /\ job' = None
  /\ tick' = IF TickBusy THEN tick ELSE "fired"
  /\ lost' = (lost \/ (TickBusy /\ tick = "none"))
  /\ UNCHANGED <<started, able, queued, since, wake, due, waker, proc, news, scanned>>

\* Mutant: as the code was before the skips armed the heartbeat.
TickSkipsDark ==
  /\ tick = "fired"
  /\ tick' = "none"
  /\ news' = IF news = "signalled" THEN "deferred" ELSE news
  /\ UNCHANGED <<started, able, queued, since, job, wake, due, waker, proc, scanned, lost>>

\* Stopped meanwhile; or not set up, no history, or the history could not be read: only the next
\* heartbeat is armed, and what was signalled waits for it.
TickSkips ==
  /\ tick = "fired"
  /\ tick' = "none"
  /\ proc' = IF started THEN [proc EXCEPT ![TickThread].todo = <<"ceiling">>] ELSE proc
  /\ news' = IF news = "signalled" THEN "deferred" ELSE news
  /\ UNCHANGED <<started, able, queued, since, job, wake, due, waker, scanned, lost>>

TickStarts ==
  /\ tick = "fired" /\ started /\ able
  /\ tick' = "waiting" /\ queued' = {}
  /\ UNCHANGED <<started, able, since, job, wake, due, waker, proc, news, scanned, lost>>

\* dayflow_orchestrator_cadence_tick, inside the gate: first the timer that blocks it is read.
TickEnters ==
  /\ tick = "waiting" /\ GateFree /\ started
  /\ tick' = "begun"
  /\ UNCHANGED <<started, able, queued, since, job, wake, due, waker, proc, news, scanned, lost>>

\* run_dayflow_ingestion: the pass reads whatever has been written.
TickReads ==
  /\ tick = "begun"
  /\ tick' = "pass" /\ news' = "none"
  /\ UNCHANGED <<started, able, queued, since, job, wake, due, waker, proc, scanned, lost>>

\* What the end of a tick arms, in its order: the heartbeat, the wakes, then what came meanwhile.
KeptFor(kind) == IF kind \in queued THEN <<kind>> ELSE << >>
AtTheEnd == <<"ceiling", "wakes">> \o KeptFor("progress") \o KeptFor("poke")

TickDone ==
  /\ tick' = "none" /\ queued' = {} /\ since' = 0
  /\ proc' = [proc EXCEPT ![TickThread].todo = AtTheEnd]
  /\ UNCHANGED <<started, able, job, wake, waker, scanned, lost>>

\* A tick that read nothing leaves what it did not keep to the heartbeat.
Unread == IF news = "signalled" /\ queued = {} THEN "deferred" ELSE news

\* Mutant: what was kept is cleared and forgotten.
TickEndsForgets ==
  /\ \/ tick = "pass" /\ due' \in [Nodes -> {None} \cup Holds] /\ UNCHANGED news
     \/ tick = "begun" /\ UNCHANGED due /\ news' = Unread
     \/ tick = "waiting" /\ GateFree /\ ~started /\ UNCHANGED <<due, news>>
  /\ tick' = "none" /\ queued' = {} /\ since' = 0
  /\ proc' = [proc EXCEPT ![TickThread].todo = <<"ceiling", "wakes">>]
  /\ UNCHANGED <<started, able, job, wake, waker, scanned, lost>>

\* The pass is over, whether it failed or not; it leaves every node dispatched, held to a later time,
\* or as it was.  Or it returned before it read anything, since the timer of the master room blocks it,
\* or failed there; or the scheduler was stopped before it began.
TickEnds ==
  /\ \/ tick = "pass" /\ due' \in [Nodes -> {None} \cup Holds \cup {due[n] : n \in Nodes}] /\ UNCHANGED news
     \/ tick = "begun" /\ UNCHANGED due /\ news' = Unread
     \/ tick = "waiting" /\ GateFree /\ ~started /\ UNCHANGED <<due, news>>
  /\ TickDone

-----------------------------------------------------------------------------
(* Wake passes (_fire_work_node).                                             *)

WakeFires(n) ==
  /\ wake[n] = 0
  /\ wake' = [wake EXCEPT ![n] = None]
  /\ waker' = IF started /\ able /\ waker[n] = "none" /\ proc[n] = Quiet
              THEN [waker EXCEPT ![n] = "waiting"] ELSE waker
  /\ UNCHANGED <<started, able, tick, queued, since, job, due, proc, news, scanned, lost>>

\* Mutant: the node is not looked at again inside the gate.
WakeEntersUnchecked(n) ==
  /\ waker[n] = "waiting" /\ GateFree
  /\ waker' = [waker EXCEPT ![n] = "pass"]
  /\ UNCHANGED <<started, able, tick, queued, since, job, wake, due, proc, news, scanned, lost>>

\* Inside the gate the node is looked at again: no longer due, there is no pass.
WakeEnters(n) ==
  /\ waker[n] = "waiting" /\ GateFree
  /\ IF started /\ due[n] = 0
     THEN /\ waker' = [waker EXCEPT ![n] = "pass"]
          /\ UNCHANGED proc
     ELSE /\ waker' = [waker EXCEPT ![n] = "none"]
          /\ proc' = [proc EXCEPT ![n].todo = <<"wakes">>]
  /\ UNCHANGED <<started, able, tick, queued, since, job, wake, due, news, scanned, lost>>

\* Mutant: a wake pass leaves the arming to the tick.
WakeEndsAlone(n, failed) ==
  /\ waker[n] = "pass"
  /\ waker' = [waker EXCEPT ![n] = "none"]
  /\ \E d \in IF failed THEN {due[n]} ELSE {None} \cup Holds : due' = [due EXCEPT ![n] = d]
  /\ UNCHANGED <<started, able, tick, queued, since, job, wake, proc, news, scanned, lost>>

\* The pass dispatched the node or held it to a later time; one that failed left it as it was.
WakeEnds(n, failed) ==
  /\ waker[n] = "pass"
  /\ waker' = [waker EXCEPT ![n] = "none"]
  /\ \E d \in IF failed THEN {due[n]} ELSE {None} \cup Holds : due' = [due EXCEPT ![n] = d]
  /\ proc' = [proc EXCEPT ![n].todo = <<IF failed THEN "wakesLater" ELSE "wakes">>]
  /\ UNCHANGED <<started, able, tick, queued, since, job, wake, news, scanned, lost>>

-----------------------------------------------------------------------------
(* The scheduler starts and stops; time passes.                               *)

Start ==
  /\ ~started /\ proc[MainThread] = Quiet
  /\ started' = TRUE
  /\ proc' = [proc EXCEPT ![MainThread].todo = <<"startup">>]
  /\ UNCHANGED <<able, tick, queued, since, job, wake, due, waker, news, scanned, lost>>

Stop ==
  /\ started /\ proc[MainThread] = Quiet
  /\ started' = FALSE /\ scanned' = FALSE
  /\ job' = None /\ wake' = [n \in Nodes |-> None]
  /\ UNCHANGED <<able, tick, queued, since, due, waker, proc, news, lost>>

SetUp ==
  /\ ~able /\ able' = TRUE
  /\ UNCHANGED <<started, tick, queued, since, job, wake, due, waker, proc, news, scanned, lost>>

Sooner(t) == IF t = None \/ t = 0 THEN t ELSE t - 1

TimePasses ==
  /\ tick # "fired" /\ \A p \in Threads : proc[p] = Quiet
  /\ job # 0 /\ \A n \in Nodes : wake[n] # 0
  /\ GateFree => tick # "waiting" /\ \A n \in Nodes : waker[n] # "waiting"
  /\ since' = Least(since + 1, PokeMin)
  /\ job' = Sooner(job)
  /\ wake' = [n \in Nodes |-> Sooner(wake[n])] /\ due' = [n \in Nodes |-> Sooner(due[n])]
  /\ UNCHANGED <<started, able, tick, queued, waker, proc, news, scanned, lost>>

Scheduling(p) == \/ \E d \in WatchEnds \cup {Ceiling} : Dates(p, d)
                 \/ Guard(p) \/ Adds(p) \/ ArmWakes(p)
Tick  == TickSkips \/ TickStarts \/ TickEnters \/ TickReads \/ TickEnds
Woken(n) == WakeEnters(n) \/ WakeEnds(n, TRUE) \/ WakeEnds(n, FALSE)

Next ==
  \/ Posted \/ HubDrops \/ \E p \in Callers, kind \in Kinds : Signal(p, kind)
  \/ \E p \in Threads : Scheduling(p)
  \/ JobFires \/ Tick
  \/ \E n \in Nodes : WakeFires(n) \/ Woken(n)
  \/ Start \/ Stop \/ SetUp \/ TimePasses

Spec == Init /\ [][Next]_vars

-----------------------------------------------------------------------------
(* Properties.                                                               *)

\* The variables hold what they may hold; the end of a watch may lie beyond the heartbeat.
STypeOK ==
  /\ started \in BOOLEAN /\ able \in BOOLEAN /\ scanned \in BOOLEAN
  /\ tick \in {"none", "fired", "waiting", "begun", "pass"} /\ queued \subseteq {"poke", "progress"}
  /\ since \in 0 .. PokeMin /\ job \in Nat \cup {None}
  /\ wake \in [Nodes -> Nat \cup {None}] /\ due \in [Nodes -> Nat \cup {None}]
  /\ waker \in [Nodes -> {"none", "waiting", "pass"}]
  /\ proc \in [Threads -> [todo : Seq(Parts), at : {"idle", "dated", "adds"}, date : Nat]]
  /\ news \in {"none", "posted", "signalled", "deferred"} /\ lost \in BOOLEAN

RunComing == job # None \/ TickBusy \/ (\E p \in Threads : proc[p].todo # << >>)

\* While the scheduler is started a run is scheduled, or one is on, or some thread is about to
\* schedule one: also when setup is incomplete, the history unreadable, a tick failed or its run was
\* skipped while another was on.
HeartbeatGoesOn == started /\ ~lost => RunComing

\* A signal is answered within the throttle, not at the heartbeat, even when it falls into a tick,
\* between two ticks or on another signal; unless its tick was skipped, blocked by the master room's
\* timer or failed before it read anything (news is then deferred to the heartbeat), or a run got
\* lost by one of two races: Adds over a sooner run that another thread just added, and a run skipped
\* at the end of a tick.
SignalIsPrompt ==
  started /\ news = "signalled" /\ ~lost =>
     \/ job # None /\ job <= PokeMin
     \/ tick \in {"fired", "waiting", "begun"} \/ (Running /\ queued # {})
     \/ \E p \in Threads : \E i \in DOMAIN proc[p].todo :
           proc[p].todo[i] \in {"startup", "poke", "progress"}

\* A wake pass is for a node that is due now, whatever the passes before it in the gate did to it.
WokenNodeIsDue == \A n \in Nodes : waker[n] = "pass" => due[n] = 0

\* Between passes every node that waits for a time has its own wake no later than that time or, after
\* a failed pass, a short gap later: it does not wait for a planning tick.
HeldNodeHasWake ==
  started /\ scanned /\ able /\ ~TickBusy /\ (\A m \in Nodes : waker[m] = "none" /\ proc[m] = Quiet) =>
     \A n \in Nodes : due[n] # None =>
        wake[n] # None /\ wake[n] <= Greatest(due[n], MinGap)

\* A scheduler that was stopped has nothing scheduled, also when a thread was in the middle of it.
StoppedIsStopped == ~started => job = None /\ \A n \in Nodes : wake[n] = None
=============================================================================
