------------------------------ MODULE AskTicket ------------------------------
(***************************************************************************)
(* A task's question to the user: the ticket of create_dayflow_ticket.py and  *)
(* ticket_manager/, the thread that waits for its answer, the user who         *)
(* answers through TicketService, and the questions a restart finds still       *)
(* out (re_arm_inflight_asks).  The ticket is a row of one database, the task    *)
(* it is asked for and the receipt of its call are rows of another.              *)
(*                                                                          *)
(* One work object.  An attempt asks once, so a ticket is known by its task       *)
(* and epoch.  Its choices are the composer's, so the user answers (a choice or    *)
(* words, all alike here) or closes it; a different second answer is a              *)
(* follow-up and changes no state.  Gate, session and judgment are those of           *)
(* WorkExecution, shortened.                                                         *)
(***************************************************************************)
EXTENDS Integers, FiniteSets

CONSTANTS Tasks,
          Linked,      \* tasks that hand over a research page with their question
          MaxEpoch,    \* bound: dispatches of a task
          MaxCrashes   \* bound: restarts of the process

ASSUME LinkedType == Linked \subseteq Tasks
ASSUME AskBounds == MaxEpoch \in Nat \ {0} /\ MaxCrashes \in Nat

VARIABLES node,     \* the tasks
          ticket,   \* table tickets: state, and whether valid_until has passed
          call,     \* work_execution_calls.state
          thread,   \* who waits for the answer
          stamped,  \* answers under way: their time is taken, their transaction is not done
          boot,     \* the start of the process, with the list of tickets it has read
          crashes

vars == <<node, ticket, call, thread, stamped, boot, crashes>>

Asks == Tasks \X (1 .. MaxEpoch)
TicketStates == {"none", "pending", "proposed", "accepted", "expired"}
Live == {"pending", "proposed"}
Results == {"none", "answer", "unreached", "error"}

Composing == {"reading", "superseding", "creating", "binding", "proposing", "linking", "surfacing"}
Places == Composing \cup {"none", "listening", "waiting", "deciding", "expiring", "returned",
                          "recording", "settling", "gone"}
\* The thread of the call itself, one resumed after a restart, the boot thread.
Kinds == {"call", "resumed", "boot"}

NoThread == [at |-> "none", kind |-> "call", heard |-> FALSE, out |-> "none", open |-> {}]

Init ==
  /\ node = [t \in Tasks |-> [status |-> "ready", epoch |-> 0, bound |-> 0, result |-> "none"]]
  /\ ticket = [a \in Asks |-> [state |-> "none", due |-> FALSE]]
  /\ call = [a \in Asks |-> "none"]
  /\ thread = [a \in Asks |-> NoThread]
  /\ stamped = {}
  /\ boot = [at |-> "up", rows |-> [a \in Asks |-> "none"], left |-> {}]
  /\ crashes = 0

Alive(a)      == thread[a].at \notin {"none", "gone"}
Dispatched(a) == node[a[1]].status = "dispatched" /\ node[a[1]].epoch = a[2]

At(a, place)  == thread[a].at = place
Goes(a, rec)  == thread' = [thread EXCEPT ![a] = rec]
To(a, place)  == Goes(a, [thread[a] EXCEPT !.at = place])
Returns(a, out) == Goes(a, [NoThread EXCEPT !.at = "returned", !.kind = thread[a].kind, !.out = out])
Leaves(a)     == Goes(a, [NoThread EXCEPT !.at = "gone"])
\* An expired ticket's window no longer matters.
Moves(a, state) == ticket' = [ticket EXCEPT ![a].state = state, ![a].due = @ \/ state = "expired"]

\* result_for_ticket; "none" while the question is still out.
ResultFor(state, due) ==
  CASE state = "accepted"        -> "answer"
    [] state \in Live /\ ~due    -> "none"
    [] OTHER                     -> "unreached"
Saved(a) == ResultFor(ticket[a].state, ticket[a].due)

-----------------------------------------------------------------------------
(* The attempt: claim, launch and admission of its call; judgment.            *)

\* The claim waits for every thread of a call in this work object, and for uncertain calls.
Dispatch(t) ==
  /\ boot.at = "up"
  /\ node[t].status = "ready" /\ node[t].epoch < MaxEpoch
  /\ \A a \in Asks : /\ call[a] \notin {"in_flight", "unknown"}
                     /\ Alive(a) => thread[a].kind # "call" /\ a[1] # t
  /\ LET a == <<t, node[t].epoch + 1>>
     IN  /\ node' = [node EXCEPT ![t].status = "dispatched", ![t].epoch = @ + 1, ![t].result = "none"]
         /\ call' = [call EXCEPT ![a] = "in_flight"]
         /\ To(a, "reading")
  /\ UNCHANGED <<ticket, stamped, boot, crashes>>

\* The finalizer judges the result: the task is tried again, or is over.
Judge(t) ==
  /\ node[t].status \in {"done", "failed"}
  /\ \E next \in {"ready", "gone"} : node' = [node EXCEPT ![t].status = next]
  /\ UNCHANGED <<ticket, call, thread, stamped, boot, crashes>>

\* Owner or brain give the task in flight up; nobody tells the thread that waits, or the ticket.
GivesUp(t) ==
  /\ node[t].status = "dispatched"
  /\ node' = [node EXCEPT ![t].status = "gone"]
  /\ UNCHANGED <<ticket, call, thread, stamped, boot, crashes>>

Recorded(t, out) ==
  node' = [node EXCEPT ![t].status = IF out = "error" THEN "failed" ELSE "done", ![t].result = out]

\* sweep_stuck_work_nodes, of an attempt without a thread.  (Its limit exceeds every window; here
\* it may come sooner.)
Sweep(t) ==
  /\ boot.at = "up" /\ node[t].status = "dispatched" /\ ~Alive(<<t, node[t].epoch>>)
  /\ Recorded(t, "error")
  /\ UNCHANGED <<ticket, call, thread, stamped, boot, crashes>>

-----------------------------------------------------------------------------
(* The tool, up to the wait.                                                 *)

\* Mutant: only the task's own older questions.
OpenAsksOfTask(a) == {b \in Asks : b[1] = a[1] /\ ticket[b].state \in Live /\ ~ticket[b].due}
\* get_tickets_pending_or_proposed, those of this work object
OpenAsks(a) == {b \in Asks : ticket[b].state \in Live /\ ~ticket[b].due}

SupersedeReads(a) ==
  /\ At(a, "reading")
  /\ Goes(a, [thread[a] EXCEPT !.at = "superseding", !.open = OpenAsks(a)])
  /\ UNCHANGED <<node, ticket, call, stamped, boot, crashes>>

\* mark_expired: what was answered or expired meanwhile stays as it is.
Expires(b) == Moves(b, IF ticket[b].state \in Live THEN "expired" ELSE ticket[b].state)

SupersedeExpires(a, b) ==
  /\ At(a, "superseding") /\ b \in thread[a].open
  /\ Expires(b)
  /\ Goes(a, [thread[a] EXCEPT !.open = @ \ {b}])
  /\ UNCHANGED <<node, call, stamped, boot, crashes>>

Create(a) ==
  /\ At(a, "superseding") /\ thread[a].open = {}
  /\ Moves(a, "pending")
  /\ To(a, "binding")
  /\ UNCHANGED <<node, call, stamped, boot, crashes>>

\* bind_ticket, in the other database; a stale attempt is refused and the tool reports an error.
Bind(a) ==
  /\ At(a, "binding") /\ Dispatched(a)
  /\ node' = [node EXCEPT ![a[1]].bound = a[2]]
  /\ To(a, "proposing")
  /\ UNCHANGED <<ticket, call, stamped, boot, crashes>>

Propose(a) ==
  /\ At(a, "proposing") /\ ticket[a].state = "pending"
  /\ Moves(a, "proposed")
  /\ To(a, IF a[1] \in Linked THEN "linking" ELSE "surfacing")
  /\ UNCHANGED <<node, call, stamped, boot, crashes>>

\* save_ticket merges the object read at its creation, whose state is pending, over the row.
SaveLinks(a) ==
  /\ At(a, "linking")
  /\ Moves(a, "pending")
  /\ To(a, "surfacing")
  /\ UNCHANGED <<node, call, stamped, boot, crashes>>

\* The suggestion is published, record_action written, the listener registered.
Surface(a) ==
  /\ At(a, "surfacing")
  /\ To(a, "listening")
  /\ UNCHANGED <<node, ticket, call, stamped, boot, crashes>>

\* Any step may raise: the composer, a write, a refused binding, a ticket closed before it was
\* proposed.  The ticket stays as it is.
ToolFails(a) ==
  /\ thread[a].at \in Composing
  /\ Returns(a, "error")
  /\ UNCHANGED <<node, ticket, call, stamped, boot, crashes>>

-----------------------------------------------------------------------------
(* _wait_for_ticket_response.                                                *)

\* A resumed session first looks whether its attempt is still the one; then the row is read.
Listens(a) ==
  /\ At(a, "listening")
  /\ IF thread[a].kind = "resumed" /\ ~Dispatched(a) THEN Leaves(a)
     ELSE IF Saved(a) # "none" THEN Returns(a, Saved(a))
     ELSE To(a, "waiting")
  /\ UNCHANGED <<node, ticket, call, stamped, boot, crashes>>

\* Mutant: no timeout.
WakesWhenHeard(a) == thread[a].heard
\* The event came, or the timeout did: at any time.
Wakes(a) == TRUE

WaitEnds(a) ==
  /\ At(a, "waiting") /\ Wakes(a)
  /\ To(a, "deciding")
  /\ UNCHANGED <<node, ticket, call, stamped, boot, crashes>>

\* The row decides; without one the event's word is taken, without an event the ticket expires.
Decides(a) ==
  /\ At(a, "deciding")
  /\ IF Saved(a) # "none" THEN Returns(a, Saved(a))
     ELSE IF thread[a].heard THEN Returns(a, "answer")
     ELSE To(a, "expiring")
  /\ UNCHANGED <<node, ticket, call, stamped, boot, crashes>>

\* Mutant: a refused expiry is not looked at.
TimesOutBlindly(a) ==
  /\ At(a, "expiring")
  /\ Expires(a)
  /\ Returns(a, "unreached")
  /\ UNCHANGED <<node, call, stamped, boot, crashes>>

\* mark_expired, and the row again: an answer that came first refuses the expiry and is the result.
TimesOut(a) ==
  /\ At(a, "expiring")
  /\ Expires(a)
  /\ Returns(a, ResultFor(ticket'[a].state, ticket[a].due))
  /\ UNCHANGED <<node, call, stamped, boot, crashes>>

\* Reading or expiring the row raises: the call reports an error, a resumed session is gone.
WaitFails(a) ==
  /\ thread[a].at \in {"listening", "deciding", "expiring"}
  /\ IF thread[a].kind = "call" THEN Returns(a, "error") ELSE Leaves(a)
  /\ UNCHANGED <<node, ticket, call, stamped, boot, crashes>>

\* The call's receipt is settled; a resumed wait does not believe a timeout without the row.
Returned(a) ==
  /\ At(a, "returned")
  /\ IF thread[a].kind = "call"
       THEN /\ call' = [call EXCEPT ![a] = "settled"]
            /\ To(a, "recording")
       ELSE /\ Goes(a, [thread[a] EXCEPT !.at = "recording",
                         !.out = IF @ = "unreached" /\ Saved(a) # "none" THEN Saved(a) ELSE @])
            /\ UNCHANGED call
  /\ UNCHANGED <<node, ticket, stamped, boot, crashes>>

\* record_tool_result with the attempt's epoch.
Record(a) ==
  /\ At(a, "recording")
  /\ IF Dispatched(a)
       THEN /\ Recorded(a[1], thread[a].out)
            /\ IF thread[a].kind = "call" THEN Leaves(a) ELSE To(a, "settling")
       ELSE Leaves(a) /\ UNCHANGED node
  /\ UNCHANGED <<ticket, call, stamped, boot, crashes>>

\* settle_recovered_ticket: the receipt of the bound ticket's own attempt.
SettleTicket(a) ==
  /\ At(a, "settling") /\ node[a[1]].bound \in {0, a[2]}
  /\ call' = [call EXCEPT ![a] = IF node[a[1]].bound = a[2] /\ @ = "unknown" THEN "settled" ELSE @]
  /\ Leaves(a)
  /\ UNCHANGED <<node, ticket, stamped, boot, crashes>>

\* It raises where the task carries an older attempt's ticket, or the judgment after it raises; in
\* the boot thread nothing catches that, and the other questions are left to the sweep.
SettleFails(a) ==
  /\ At(a, "settling")
  /\ Leaves(a)
  /\ boot' = IF thread[a].kind = "boot" THEN [boot EXCEPT !.left = {}] ELSE boot
  /\ UNCHANGED <<node, ticket, call, stamped, crashes>>

-----------------------------------------------------------------------------
(* The user, and time.                                                      *)

\* record_response takes its time, then waits for the lock.
AnswerBegins(a) ==
  /\ ticket[a].state = "proposed" /\ ~ticket[a].due
  /\ stamped' = stamped \cup {a}
  /\ UNCHANGED <<node, ticket, call, thread, boot, crashes>>

Registered(a) == thread[a].at \in {"listening", "waiting", "deciding"}
\* The hub delivers the event, or drops it.
Heard(a, delivered) ==
  thread' = [thread EXCEPT ![a].heard = @ \/ (delivered /\ Registered(a))]

\* What is proposed becomes accepted; anything else is refused, and the user told so.
AnswerCommits(a, delivered) ==
  /\ a \in stamped
  /\ stamped' = stamped \ {a}
  /\ IF ticket[a].state = "proposed" THEN Moves(a, "accepted") /\ Heard(a, delivered)
     ELSE UNCHANGED <<ticket, thread>>
  /\ UNCHANGED <<node, call, boot, crashes>>

\* The X button, a response too.
Close(a, delivered) ==
  /\ ticket[a].state \in Live
  /\ Moves(a, "expired") /\ Heard(a, delivered)
  /\ UNCHANGED <<node, call, stamped, boot, crashes>>

WindowEnds(a) ==
  /\ ticket[a].state # "none" /\ ~ticket[a].due
  /\ ticket' = [ticket EXCEPT ![a].due = TRUE]
  /\ UNCHANGED <<node, call, thread, stamped, boot, crashes>>

\* _run_ticket_maintenance
Maintain(a) ==
  /\ ticket[a].state \in Live /\ ticket[a].due
  /\ Moves(a, "expired")
  /\ UNCHANGED <<node, call, thread, stamped, boot, crashes>>

-----------------------------------------------------------------------------
(* The process stops and starts.                                            *)

\* Mutant: what was out is not reconciled.
CallsKept == call
\* _execution_reconcile_dead
CallsInDoubt == [a \in Asks |-> IF call[a] = "in_flight" THEN "unknown" ELSE call[a]]

Crash ==
  /\ crashes < MaxCrashes
  /\ crashes' = crashes + 1
  /\ thread' = [a \in Asks |-> IF At(a, "none") THEN NoThread ELSE [NoThread EXCEPT !.at = "gone"]]
  /\ call' = CallsInDoubt
  /\ stamped' = {}
  /\ boot' = [boot EXCEPT !.at = "down", !.left = {}]
  /\ UNCHANGED <<node, ticket>>

\* re_arm_inflight_asks reads every ticket once, before the first tick.
RearmReads ==
  /\ boot.at = "down"
  /\ boot' = [at |-> "arming", rows |-> [a \in Asks |-> ticket[a].state],
              left |-> {a \in Asks : ticket[a].state # "none"}]
  /\ UNCHANGED <<node, ticket, call, thread, stamped, crashes>>

BootBusy == \E a \in Asks : Alive(a) /\ thread[a].kind = "boot"

\* One ticket after the other, as it was read: its outcome is recorded, or its window waited out.
Rearm(a) ==
  /\ boot.at = "arming" /\ a \in boot.left /\ ~BootBusy
  /\ boot' = [boot EXCEPT !.left = @ \ {a}]
  /\ LET out == ResultFor(boot.rows[a], ticket[a].due)
     IN  IF ~Dispatched(a) THEN UNCHANGED thread
         ELSE IF out # "none" THEN Goes(a, [NoThread EXCEPT !.at = "recording", !.kind = "boot", !.out = out])
         ELSE Goes(a, [NoThread EXCEPT !.at = "listening", !.kind = "resumed"])
  /\ UNCHANGED <<node, ticket, call, stamped, crashes>>

Booted ==
  /\ boot.at = "arming" /\ boot.left = {} /\ ~BootBusy
  /\ boot' = [boot EXCEPT !.at = "up", !.rows = [a \in Asks |-> "none"]]
  /\ UNCHANGED <<node, ticket, call, thread, stamped, crashes>>

\* resolve_execution_call
OperatorResolves(a) ==
  /\ call[a] = "unknown"
  /\ call' = [call EXCEPT ![a] = "settled"]
  /\ UNCHANGED <<node, ticket, thread, stamped, boot, crashes>>

-----------------------------------------------------------------------------
Tool(a) ==
  \/ SupersedeReads(a) \/ Create(a) \/ Bind(a) \/ Propose(a) \/ SaveLinks(a) \/ Surface(a)
  \/ ToolFails(a)
  \/ \E b \in Asks : SupersedeExpires(a, b)

Wait(a) ==
  \/ Listens(a) \/ WaitEnds(a) \/ Decides(a) \/ TimesOut(a) \/ WaitFails(a)
  \/ Returned(a) \/ Record(a) \/ SettleTicket(a) \/ SettleFails(a)

User(a) ==
  \/ AnswerBegins(a)
  \/ \E delivered \in BOOLEAN : AnswerCommits(a, delivered) \/ Close(a, delivered)

Boot == RearmReads \/ Booted \/ \E a \in Asks : Rearm(a)

Next ==
  \/ Boot \/ Crash
  \/ \E t \in Tasks : Dispatch(t) \/ Judge(t) \/ GivesUp(t) \/ Sweep(t)
  \/ \E a \in Asks : Tool(a) \/ Wait(a) \/ User(a) \/ WindowEnds(a) \/ Maintain(a) \/ OperatorResolves(a)

Spec == Init /\ [][Next]_vars

\* Threads run and their waits time out; the boot goes through its list and every
\* pass of the scheduler through the sweep.
FairSpec ==
  /\ Spec
  /\ \A a \in Asks : WF_vars(Tool(a) \/ Wait(a))
  /\ \A t \in Tasks : WF_vars(Sweep(t))
  /\ WF_vars(Boot)

-----------------------------------------------------------------------------
(* Properties.                                                               *)

\* Ranges; and a call whose receipt is in flight has a thread that will end it.
ATypeOK ==
  /\ node \in [Tasks -> [status : {"ready", "dispatched", "done", "failed", "gone"},
                         epoch : 0 .. MaxEpoch, bound : 0 .. MaxEpoch, result : Results]]
  /\ ticket \in [Asks -> [state : TicketStates, due : BOOLEAN]]
  /\ thread \in [Asks -> [at : Places, kind : Kinds, heard : BOOLEAN, out : Results, open : SUBSET Asks]]
  /\ stamped \subseteq Asks /\ boot.left \subseteq Asks
  /\ \A a \in Asks : call[a] = "in_flight" => Alive(a) /\ thread[a].kind = "call"

\* The result of an attempt is what became of its own ticket: an answer was given to that very
\* question, and "user not reached" stands beside an answer only where the window had passed when
\* it was decided.  No race of the answer with timeout, closing, supersession or restart changes that.
AnswerDecides ==
  \A t \in Tasks : node[t].epoch > 0 =>
     LET a == <<t, node[t].epoch>>
     IN  /\ node[t].result = "answer" => ticket[a].state = "accepted"
         /\ node[t].result = "unreached" /\ ticket[a].state = "accepted" => ticket[a].due

\* create_dayflow_ticket.py, "ONE LIVE QUESTION PER WORK OBJECT": a new question takes the place of
\* every older one, also of one that a restart is still waiting for.
OneQuestionOut ==
  \A a, b \in Asks :
     ticket[a] = [state |-> "proposed", due |-> FALSE] /\ ticket[b] = ticket[a] => a = b

\* An answered question does not leave its task in flight, though the hub dropped the event or the
\* process died with the answer in the table.
AnswerLands ==
  \A a \in Asks : ticket[a].state = "accepted" /\ Dispatched(a) ~> ~Dispatched(a)

\* create_dayflow_ticket.py of the live states: "Still on screen, still answerable."
LiveAskIsAnswerable ==
  \A a \in Asks : At(a, "waiting") /\ Saved(a) = "none" => ticket[a].state = "proposed"
=============================================================================
