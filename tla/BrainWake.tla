------------------------------ MODULE BrainWake ------------------------------
(***************************************************************************)
(* The brain's inbox and the thread that wakes to read it: brain_inbox.py,  *)
(* gate.py, brain_step.py and brain_wake.py of subconscious/.  Whoever has    *)
(* something to report adds one event and pokes; the wake thread runs one    *)
(* pass at a time: the gate routes what is pending, then the brain decides    *)
(* the matters and applies them to the concern register.                    *)
(*                                                                          *)
(* An event is known by its source_ref.  What the agents answer is           *)
(* nondeterministic, an invalid answer or a failing call included; of a       *)
(* route only whether the event is passed on is kept, so all events passed    *)
(* on together form one matter.                                              *)
(***************************************************************************)
EXTENDS Integers, Sequences, FiniteSets

CONSTANT MaxApplied   \* bound: how often a matter is written to the register for one event

ASSUME MaxAppliedType == MaxApplied \in Nat

VARIABLES inbox,   \* the table brain_events, in order of insertion
          brain    \* the wake thread (_loop) and what it holds in memory

\* A page the gate could not route is passed on as it is (gate_status failed); "settled" is an
\* event that was consumed or concerns nobody, "stuck" one whose matter failed; applied counts the
\* writes of the register its matters made.
EventStates == {"pending", "passed", "settled", "stuck"}

Unread(events) == {i \in DOMAIN events : events[i].state = "pending"}

\* Mutant: a matter that failed is tried again.
UndecidedOrStuck(events) == {i \in DOMAIN events : events[i].state \in {"passed", "stuck"}}

\* pending_events: passed on or unroutable, and no matter has consumed or failed on it.
Undecided(events) == {i \in DOMAIN events : events[i].state = "passed"}

\* add_work_event: INSERT OR IGNORE on the source_ref.
Known(events, ref) == \E i \in DOMAIN events : events[i].ref = ref
WithEvent(events, ref) ==
  IF Known(events, ref) THEN events
  ELSE Append(events, [ref |-> ref, state |-> "pending", applied |-> 0])

Poked(b) == [b EXCEPT !.poked = TRUE]

Stages == {"asleep", "broken", "gate", "routing", "step", "deciding", "recording"}

BrainInit ==
  /\ inbox = << >>
  /\ brain = [at |-> "gate", poked |-> FALSE, page |-> {}]

Mark(S, state) == [i \in DOMAIN inbox |-> IF i \in S THEN [inbox[i] EXCEPT !.state = state] ELSE inbox[i]]

\* A run starts: on a poke, on a time that came due, on the heartbeat.
\* The flag is cleared before anything is read.
Wake == /\ brain.at \in {"asleep", "broken"}
        /\ brain' = [brain EXCEPT !.at = "gate", !.poked = FALSE]
        /\ UNCHANGED inbox

\* Mutant: the flag is cleared after the run instead of before it.
StepReadsThenClears ==
  /\ brain.at = "step"
  /\ brain' = IF Undecided(inbox) = {} THEN [brain EXCEPT !.at = "asleep", !.poked = FALSE]
              ELSE [brain EXCEPT !.at = "deciding", !.page = Undecided(inbox)]
  /\ UNCHANGED inbox

\* run_gate: reads what is pending; nothing there costs nothing.
GateReads ==
  /\ brain.at = "gate"
  /\ brain' = IF Unread(inbox) = {} /\ Undecided(inbox) = {} THEN [brain EXCEPT !.at = "asleep"]
              ELSE IF Unread(inbox) = {} THEN [brain EXCEPT !.at = "step"]
              ELSE [brain EXCEPT !.at = "routing", !.page = Unread(inbox)]
  /\ UNCHANGED inbox

\* record_route, one event and one transaction each.
GateRoutes(i, passed) ==
  /\ brain.at = "routing" /\ i \in brain.page
  /\ inbox' = Mark({i}, IF passed THEN "passed" ELSE "settled")
  /\ brain' = [brain EXCEPT !.page = @ \ {i}, !.at = IF brain.page = {i} THEN "step" ELSE @]

\* record_failure: a page the agent cannot route is passed to the brain as it is.
GateFails ==
  /\ brain.at = "routing"
  /\ inbox' = Mark(brain.page, "passed")
  /\ brain' = [brain EXCEPT !.at = "step", !.page = {}]

\* run_brain_step reads its matters once, in the same run as the gate.
StepReads ==
  /\ brain.at = "step"
  /\ brain' = IF Undecided(inbox) = {} THEN [brain EXCEPT !.at = "asleep"]
              ELSE [brain EXCEPT !.at = "deciding", !.page = Undecided(inbox)]
  /\ UNCHANGED inbox

\* process_matter up to apply_brain_matter, one write of the register under its lock.
MatterApplied ==
  /\ brain.at = "deciding" /\ \A i \in brain.page : inbox[i].applied < MaxApplied
  /\ inbox' = [i \in DOMAIN inbox |->
                 IF i \in brain.page THEN [inbox[i] EXCEPT !.applied = @ + 1] ELSE inbox[i]]
  /\ brain' = [brain EXCEPT !.at = "recording"]

\* _record: the matter, and its events consumed, in one transaction.  The rest of the run
\* (summaries, plans, the day's tasks) leaves the inbox alone; then the thread waits.
MatterRecorded ==
  /\ brain.at = "recording"
  /\ inbox' = Mark(brain.page, "settled")
  /\ brain' = [brain EXCEPT !.at = "asleep", !.page = {}]

\* The answer stays invalid, applying it is refused (a concern closed meanwhile), or what follows
\* the application fails: the matter is recorded failed.
MatterFails ==
  /\ brain.at \in {"deciding", "recording"}
  /\ inbox' = Mark(brain.page, "stuck")
  /\ brain' = [brain EXCEPT !.at = "asleep", !.page = {}]

\* A stage raised, or a write of its own record failed (record_route, record_failure, _record): the
\* run is logged and ends; what it had not recorded is pending again, decided and applied or not.
RunBreaks == /\ brain.at \notin {"asleep", "broken"}
             /\ brain' = [brain EXCEPT !.at = "broken", !.page = {}]
             /\ UNCHANGED inbox

BrainRuns == \/ Wake \/ GateReads \/ GateFails \/ StepReads
             \/ MatterApplied \/ MatterRecorded \/ MatterFails \/ RunBreaks
             \/ \E i \in DOMAIN inbox, passed \in BOOLEAN : GateRoutes(i, passed)

\* The process stops and starts: the first run of the new thread is at its beginning.
BrainRestarts == [brain EXCEPT !.at = "gate", !.poked = FALSE, !.page = {}]

-----------------------------------------------------------------------------
BrainTypeOK ==
  /\ inbox \in Seq([ref : UNION {{inbox[i].ref} : i \in DOMAIN inbox}, state : EventStates, applied : Nat])
  /\ brain \in [at : Stages, poked : BOOLEAN, page : SUBSET (DOMAIN inbox)]
=============================================================================
