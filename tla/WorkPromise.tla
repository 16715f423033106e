----------------------------- MODULE WorkPromise -----------------------------
(***************************************************************************)
(* What a work object promises, without attempts, agents, gates or stores:   *)
(* a goal is open until every task of its plan was met or somebody ends it;   *)
(* a task starts when what it needs was met, reports, and is judged once per   *)
(* report; what was met or dropped stays so; after the end nothing starts,     *)
(* reports or is judged.  WorkGraph implements it (KeepsPromise).              *)
(***************************************************************************)
CONSTANT Tasks

VARIABLES goal,    \* "open", "achieved", "given_up"
          phase,   \* where each task stands
          needs    \* <<prerequisite, dependent>>

Phases == {"none", "todo", "doing", "told", "missed", "met", "dropped"}

Init == goal = "open" /\ phase = [t \in Tasks |-> "none"] /\ needs = {}

Only(t, p) == phase' = [phase EXCEPT ![t] = p]
SameNeeds  == UNCHANGED needs

\* The goal is achieved with the last task of the plan, and not before.
AllMet == (\E t \in Tasks : phase'[t] = "met") /\ \A t \in Tasks : phase'[t] \in {"none", "met"}
Settles == goal' = "open" \/ (goal' = "achieved" /\ AllMet)

\* The plan changes: tasks appear, unmet tasks are dropped, needs are rewritten.
Revise ==
  /\ goal = "open" /\ Settles
  /\ phase' \in [Tasks -> Phases]
  /\ \A t \in Tasks : phase'[t] # phase[t] =>
       \/ phase[t] = "none" /\ phase'[t] = "todo"
       \/ phase[t] \in {"todo", "doing", "told", "missed"} /\ phase'[t] = "dropped"
  /\ needs' \subseteq Tasks \X Tasks

Start(t) ==
  /\ goal = "open" /\ phase[t] = "todo"
  /\ \A d \in Tasks : <<d, t>> \in needs => phase[d] = "met"
  /\ Only(t, "doing") /\ UNCHANGED goal /\ SameNeeds

\* An attempt reports, once.  A task that is not being done can still be reported on, by an
\* attempt that was overtaken or by the gate that found no tool for it.
Report(t) ==
  /\ goal = "open" /\ UNCHANGED goal /\ SameNeeds
  /\ \/ phase[t] \in {"todo", "doing"} /\ Only(t, "told")
     \/ phase[t] = "todo" /\ Only(t, "missed")

\* The report is judged: met, missed, or to be done again.
Judge(t) ==
  /\ goal = "open" /\ phase[t] = "told" /\ Settles /\ SameNeeds
  /\ \E p \in {"met", "missed", "todo"} : Only(t, p)

\* A standing watch whose time is over has done what it was for.
Expire(t) == goal = "open" /\ phase[t] = "todo" /\ Settles /\ Only(t, "met") /\ SameNeeds

\* Somebody ends the work: nothing is left to start.
End ==
  /\ goal = "open" /\ goal' \in {"achieved", "given_up"} /\ SameNeeds
  /\ phase' \in [Tasks -> Phases]
  /\ \A t \in Tasks :
       /\ phase'[t] # phase[t] =>
            phase[t] \in {"todo", "doing", "told", "missed"} /\ phase'[t] = "dropped"
       /\ phase'[t] # "todo"

\* After the end an attempt still running may be dropped, and the end taken back to given up.
AfterEnd ==
  /\ goal # "open" /\ goal' \in {goal, "given_up"} /\ SameNeeds
  /\ phase' \in [Tasks -> Phases]
  /\ \A t \in Tasks : phase'[t] # phase[t] => phase[t] = "doing" /\ phase'[t] = "dropped"

Next == \/ Revise \/ End \/ AfterEnd
        \/ \E t \in Tasks : Start(t) \/ Report(t) \/ Judge(t) \/ Expire(t)

vars == <<goal, phase, needs>>
Spec == Init /\ [][Next]_vars
=============================================================================
