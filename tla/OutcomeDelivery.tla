--------------------------- MODULE OutcomeDelivery ---------------------------
(***************************************************************************)
(* How what became of a work object reaches whoever asked for it: the        *)
(* outboxes of work_objects/concern_outbox.py and belief_outbox.py, filled in  *)
(* the transaction of the change, and their delivery by                      *)
(* subconscious/concern_feedback.py and belief_engine/work_feedback.py to the  *)
(* concern register, the brain's inbox (BrainWake) and the belief catalog.     *)
(*                                                                          *)
(* Two kinds of thread change work and deliver: the tick and the dispatch      *)
(* rooms.  WorkStore.apply takes its timestamp before it waits for the lock     *)
(* (stamp), and delivery reads, writes and acknowledges in transactions of       *)
(* three databases, with a model's call in between for beliefs.  A crash          *)
(* may fall between any two of them.  Work objects are reduced to what they       *)
(* cite and how they ended.                                                      *)
(***************************************************************************)
EXTENDS BrainWake

CONSTANTS Works, Concerns, Beliefs,
          Rooms, Tick,   \* the threads
          Served,        \* work objects whose deliveries do not always fail
          Answers,       \* bound: what the agent answers about a belief
          MaxChanges,    \* bound: transactions that leave a receipt
          MaxCrashes     \* bound: restarts of the process

Threads == Rooms \cup {Tick}
Endings == {"done", "abandoned"}
Actions == {"no_change", "resolve", "revise"}

ASSUME TickType == Tick \notin Rooms
ASSUME ServedType == Served \subseteq Works
ASSUME AnswersType == Answers \subseteq Actions
ASSUME BoundsType == MaxChanges \in Nat /\ MaxCrashes \in Nat

VARIABLES work,      \* work objects: what they cite, their status
          outbox,    \* table work_concern_feedback
          bbox,      \* table work_belief_feedback
          attached,  \* the register: <<concern, work>>
          belief,    \* the catalog
          th,        \* the threads
          clock,     \* utcnow(), and the number of changes and crashes so far
          sent       \* every receipt ever committed

dvars == <<work, outbox, bbox, attached, belief, th, clock, sent>>
vars  == <<inbox, brain, work, outbox, bbox, attached, belief, th, clock, sent>>

-----------------------------------------------------------------------------
(* Receipts.                                                                 *)

\* A receipt is known by the change that left it and its place in that transaction.
Receipt(w, kind, at, txn, pos, refs) ==
  [work |-> w, kind |-> kind, at |-> at, txn |-> txn, pos |-> pos, refs |-> refs]

\* pending_concern_feedback: ORDER BY created_at, id; the id begins with the position.
Before(r, q) == r.at < q.at \/ (r.at = q.at /\ r.pos < q.pos)
First(S)     == CHOOSE r \in S : \A q \in S \ {r} : Before(r, q)

\* Only judgments and endings of work made for a concern are reported.
Reported(r) == r.kind # "attached" /\ r.refs # {}

Delivered(r) ==
  /\ r.kind = "attached" => \A c \in r.refs : <<c, r.work>> \in attached
  /\ Reported(r) => Known(inbox, r)

Idle == [at |-> "idle", stamp |-> 0, scope |-> {}, ended |-> FALSE,
         queue |-> {}, refs |-> {}, plan |-> "no_change"]

Init ==
  /\ BrainInit
  /\ work \in [Works -> {[refs |-> {}, status |-> status] : status \in {"none", "active"}}]
  /\ outbox = {} /\ bbox = {} /\ attached = {} /\ sent = {}
  /\ belief = [b \in Beliefs |-> [status |-> "held", heard |-> {}, decided |-> {}]]
  /\ th = [t \in Threads |-> Idle]
  /\ clock = [now |-> 1, changes |-> 0, crashes |-> 0]

-----------------------------------------------------------------------------
(* Changes of a work object: the timestamp, then the transaction.            *)

TakeStamp(t) ==
  /\ th[t].at = "idle" /\ clock.now <= MaxChanges
  /\ th' = [th EXCEPT ![t].at = "stamped", ![t].stamp = clock.now]
  /\ clock' = [clock EXCEPT !.now = @ + 1]
  /\ UNCHANGED <<inbox, brain, work, outbox, bbox, attached, belief, sent>>

\* The transaction of one change: its receipts are committed with it.
Commit(w, next, rows, b) ==
  /\ work' = [work EXCEPT ![w] = next]
  /\ outbox' = outbox \cup rows /\ sent' = sent \cup rows
  /\ bbox' = bbox \cup b
  /\ clock' = [clock EXCEPT !.changes = @ + 1]
  /\ UNCHANGED <<inbox, brain, attached, belief>>

BeliefRow(w, status, at) ==
  IF Beliefs = {} THEN {} ELSE {Receipt(w, status, at, clock.changes, 0, Beliefs)}

\* After the commit the thread delivers what the work has pending.
Delivers(t, w, ended) ==
  th' = [th EXCEPT ![t] = [Idle EXCEPT !.at = "fetch", !.scope = {w}, !.ended = ended]]

\* The handler refused (a stale judgment, an entry already ended): nothing is committed.
Refused(t) ==
  /\ th[t].at = "stamped"
  /\ th' = [th EXCEPT ![t] = Idle]
  /\ UNCHANGED <<inbox, brain, work, outbox, bbox, attached, belief, clock, sent>>

MayChange(t, w) == th[t].at = "stamped" /\ work[w].status # "abandoned"

Cited(w, c) ==
  Commit(w, [work[w] EXCEPT !.refs = @ \cup {c}, !.status = "active"],
         {Receipt(w, "attached", th[Tick].stamp, clock.changes, 0, {c})}, {})

\* An entry of the brain's list becomes work that cites its concern.
Create(w, c) ==
  /\ MayChange(Tick, w) /\ work[w].status = "none"
  /\ Cited(w, c)
  /\ Delivers(Tick, w, FALSE)

\* The entry is revised to cite another: nothing is delivered now.
Revise(w, c) ==
  /\ MayChange(Tick, w) /\ work[w].status = "active" /\ c \notin work[w].refs
  /\ Cited(w, c)
  /\ th' = [th EXCEPT ![Tick] = Idle]

\* finalize_task; the last judgment completes the work by rollup, in the same transaction.
Judge(t, w, last) ==
  /\ MayChange(t, w) /\ work[w].status = "active"
  /\ LET row(kind, pos) == Receipt(w, kind, th[t].stamp, clock.changes, pos, work[w].refs)
     IN  Commit(w, [work[w] EXCEPT !.status = IF last THEN "done" ELSE @],
                IF last THEN {row("judged", 0), row("done", 1)} ELSE {row("judged", 0)},
                IF last THEN BeliefRow(w, "done", th[t].stamp) ELSE {})
  /\ Delivers(t, w, last)

\* The brain or the architect ends the work.
EndWork(w) ==
  /\ MayChange(Tick, w) /\ work[w].status # "none"
  /\ Commit(w, [work[w] EXCEPT !.status = "abandoned"],
            {Receipt(w, "abandoned", th[Tick].stamp, clock.changes, 0, work[w].refs)},
            BeliefRow(w, "abandoned", th[Tick].stamp))
  /\ Delivers(Tick, w, TRUE)

-----------------------------------------------------------------------------
(* Delivery to the concerns and the brain (recover_pending_concern_feedback).  *)

\* Work prep, the first stage of every pass: everything that is pending.
Prep ==
  /\ th[Tick].at = "idle" /\ outbox \cup bbox # {}
  /\ th' = [th EXCEPT ![Tick] = [Idle EXCEPT !.at = "fetch", !.scope = Works, !.ended = TRUE]]
  /\ UNCHANGED <<inbox, brain, work, outbox, bbox, attached, belief, clock, sent>>

Move(t, rec) == th' = [th EXCEPT ![t] = rec]

\* The receipt at hand: the oldest of the list the thread has read.
Current(t) == First(th[t].queue)

\* pending_concern_feedback, read once.
Fetch(t) ==
  /\ th[t].at = "fetch"
  /\ Move(t, [th[t] EXCEPT !.at = "concerns", !.queue = {r \in outbox : r.work \in th[t].scope}])
  /\ UNCHANGED <<inbox, brain, work, outbox, bbox, attached, belief, clock, sent>>

InHand(t, kinds) == th[t].at = "concerns" /\ th[t].queue # {} /\ Current(t).kind \in kinds

\* attach_work for each reference, each a write of its own under the register lock.
AttachBegins(t) ==
  /\ InHand(t, {"attached"})
  /\ Move(t, [th[t] EXCEPT !.at = "attach", !.refs = Current(t).refs])
  /\ UNCHANGED <<inbox, brain, work, outbox, bbox, attached, belief, clock, sent>>

Attach(t, c) ==
  /\ th[t].at = "attach" /\ c \in th[t].refs
  /\ attached' = attached \cup {<<c, Current(t).work>>}
  /\ Move(t, [th[t] EXCEPT !.refs = @ \ {c}])
  /\ UNCHANGED <<inbox, brain, work, outbox, bbox, belief, clock, sent>>

\* add_work_event: the report enters the inbox, once.
Report(t) ==
  /\ InHand(t, {"judged"} \cup Endings) /\ Reported(Current(t))
  /\ inbox' = WithEvent(inbox, Current(t))
  /\ Move(t, [th[t] EXCEPT !.at = "poke"])
  /\ UNCHANGED <<brain, work, outbox, bbox, attached, belief, clock, sent>>

\* brain_wake.poke once the report is in.
PokeAfter(t) == brain' = IF th[t].at = "poke" THEN Poked(brain) ELSE brain

\* acknowledge_concern_feedback: after the delivery, or at once where there is nobody to tell.
Ack(t) ==
  /\ \/ th[t].at = "poke"
     \/ th[t].at = "attach" /\ th[t].refs = {}
     \/ InHand(t, {"judged"} \cup Endings) /\ ~Reported(Current(t))
  /\ PokeAfter(t)
  /\ outbox' = outbox \ {Current(t)}
  /\ Move(t, [th[t] EXCEPT !.at = "concerns", !.queue = @ \ {Current(t)}, !.refs = {}])
  /\ UNCHANGED <<inbox, work, bbox, attached, belief, clock, sent>>

\* Mutant: only the receipt that failed is left for later.
LeftAfterOne(queue, failed) == queue \ {failed}
\* Mutant: a failure ends the pass, for every work object.
LeftAfterAll(queue, failed) == {}
\* What is left of the list after a failure: the work object's receipts stop, other work goes on.
LeftAfter(queue, failed) == {r \in queue : r.work # failed.work}

DeliveryMayFail(t) == th[t].at \in {"attach", "poke"} \/ InHand(t, {"judged"} \cup Endings)

\* Mutant: a receipt that failed is acknowledged, its error only logged.
FailsAcked(t) ==
  /\ DeliveryMayFail(t)
  /\ PokeAfter(t)
  /\ outbox' = outbox \ {Current(t)}
  /\ Move(t, [th[t] EXCEPT !.at = "concerns", !.queue = LeftAfter(th[t].queue, Current(t)), !.refs = {}])
  /\ UNCHANGED <<inbox, work, bbox, attached, belief, clock, sent>>

\* Any write may fail (a busy database, a full disk), and a reference may name no concern, now or ever.
Fails(t) ==
  /\ DeliveryMayFail(t)
  /\ PokeAfter(t)
  /\ Move(t, [th[t] EXCEPT !.at = "concerns", !.queue = LeftAfter(th[t].queue, Current(t)), !.refs = {}])
  /\ UNCHANGED <<inbox, work, outbox, bbox, attached, belief, clock, sent>>

-----------------------------------------------------------------------------
(* Delivery to the beliefs (recover_pending_belief_feedback), once the list of  *)
(* concern receipts is done and when the work ended.                           *)

BFetch(t) ==
  /\ th[t].at = "concerns" /\ th[t].queue = {}
  /\ LET pending == {r \in bbox : r.work \in th[t].scope}
     IN  Move(t, IF th[t].ended /\ pending # {} THEN [th[t] EXCEPT !.at = "beliefs", !.queue = pending]
                 ELSE Idle)
  /\ UNCHANGED <<inbox, brain, work, outbox, bbox, attached, belief, clock, sent>>

\* has_evidence: a belief that carries this work's row has been told before.
Unheard(r) == {b \in r.refs : r.work \notin belief[b].heard}

\* The agent is asked about the beliefs not told yet.
BAsks(t) ==
  /\ th[t].at = "beliefs" /\ Unheard(Current(t)) # {}
  /\ Move(t, [th[t] EXCEPT !.at = "evidence", !.refs = Unheard(Current(t))])
  /\ UNCHANGED <<inbox, brain, work, outbox, bbox, attached, belief, clock, sent>>

\* _apply, belief by belief, with the agent's answer: the evidence row first, then the belief
\* itself, two transactions.
BEvidence(t, b, action) ==
  /\ th[t].at = "evidence" /\ b \in th[t].refs
  /\ belief' = [belief EXCEPT ![b].heard = @ \cup {Current(t).work}, ![b].decided = @ \cup {action}]
  /\ Move(t, [th[t] EXCEPT !.plan = action,
                           !.at = IF action = "no_change" THEN "evidence" ELSE "apply",
                           !.refs = IF action = "no_change" THEN @ \ {b} ELSE @])
  /\ UNCHANGED <<inbox, brain, work, outbox, bbox, attached, clock, sent>>

BApply(t, b) ==
  /\ th[t].at = "apply" /\ b \in th[t].refs /\ Current(t).work \in belief[b].heard
  /\ belief' = [belief EXCEPT ![b].status = IF th[t].plan = "resolve" THEN "retired"
                                            ELSE IF @ = "held" THEN "revised" ELSE @]
  /\ Move(t, [th[t] EXCEPT !.plan = "no_change", !.refs = @ \ {b}, !.at = "evidence"])
  /\ UNCHANGED <<inbox, brain, work, outbox, bbox, attached, clock, sent>>

\* Mutant: the end of the list is not looked for.
AfterBeliefLoops(t) ==
  [th[t] EXCEPT !.at = "beliefs", !.queue = @ \ {Current(t)}, !.refs = {}, !.plan = "no_change"]
AfterBelief(t) ==
  LET left == th[t].queue \ {Current(t)}
  IN  IF left = {} THEN Idle
      ELSE [th[t] EXCEPT !.at = "beliefs", !.queue = left, !.refs = {}, !.plan = "no_change"]

\* acknowledge_belief_feedback, when every belief has been told
BAck(t) ==
  /\ \/ th[t].at = "beliefs" /\ Unheard(Current(t)) = {}
     \/ th[t].at = "evidence" /\ th[t].refs = {}
  /\ bbox' = bbox \ {Current(t)}
  /\ Move(t, AfterBelief(t))
  /\ UNCHANGED <<inbox, brain, work, outbox, attached, belief, clock, sent>>

\* Mutant: a receipt that failed is acknowledged too.
BFailsAcked(t) ==
  /\ th[t].at \in {"beliefs", "evidence", "apply"}
  /\ bbox' = bbox \ {Current(t)}
  /\ Move(t, AfterBelief(t))
  /\ UNCHANGED <<inbox, brain, work, outbox, attached, belief, clock, sent>>

\* The agent, the embedder or a write failed: the receipt is left for the next pass.
BFails(t) ==
  /\ th[t].at \in {"beliefs", "evidence", "apply"}
  /\ Move(t, AfterBelief(t))
  /\ UNCHANGED <<inbox, brain, work, outbox, bbox, attached, belief, clock, sent>>

-----------------------------------------------------------------------------
\* The process stops anywhere and starts again: threads and flags are lost, databases are not.
Crash ==
  /\ clock.crashes < MaxCrashes
  /\ th' = [t \in Threads |-> Idle] /\ brain' = BrainRestarts
  /\ clock' = [clock EXCEPT !.crashes = @ + 1]
  /\ UNCHANGED <<inbox, work, outbox, bbox, attached, belief, sent>>

Brain == BrainRuns /\ UNCHANGED dvars

Changes ==
  \/ \E t \in Threads : TakeStamp(t) \/ Refused(t)
  \/ \E w \in Works : \/ EndWork(w)
                      \/ \E c \in Concerns : Create(w, c) \/ Revise(w, c)
                      \/ \E t \in Threads, last \in BOOLEAN : Judge(t, w, last)

DeliverStep(t) ==
  \/ Fetch(t) \/ AttachBegins(t) \/ Report(t) \/ Ack(t) \/ Fails(t)
  \/ \E c \in Concerns : Attach(t, c)
  \/ BFetch(t) \/ BAsks(t) \/ BAck(t) \/ BFails(t)
  \/ \E b \in Beliefs : BApply(t, b) \/ \E action \in Answers : BEvidence(t, b, action)

Next == \/ Changes \/ Prep \/ Brain \/ Crash
        \/ \E t \in Threads : DeliverStep(t)

Spec == Init /\ [][Next]_vars

\* What the tick's thread writes for the work w.
TickWrites(w) == \/ Report(Tick) /\ Current(Tick).work = w
             \/ \E c \in Concerns : Attach(Tick, c) /\ Current(Tick).work = w
TickAcks(w) == Ack(Tick) /\ Current(Tick).work = w

\* The tick goes on and every pass begins with work prep; the writes for the work objects in Served
\* may fail any number of times, but not always; those for others may.  Nothing is asked of the rooms:
\* one may hang in the middle of a delivery.
FairSpec ==
  /\ Spec
  /\ WF_vars(Prep \/ Refused(Tick) \/ DeliverStep(Tick))
  /\ \A w \in Served : SF_vars(TickWrites(w)) /\ SF_vars(TickAcks(w))

-----------------------------------------------------------------------------
(* Properties.                                                               *)

\* The tables hold what they may hold, and a thread in the middle of a delivery has one at hand.
DTypeOK ==
  /\ BrainTypeOK
  /\ \A t \in Threads : th[t].queue = {} => th[t].at \in {"idle", "stamped", "fetch", "concerns"}
  /\ work \in [Works -> [refs : SUBSET Concerns, status : Endings \cup {"none", "active"}]]
  /\ outbox \subseteq sent /\ attached \subseteq Concerns \X Works
  /\ belief \in [Beliefs -> [status : {"held", "revised", "retired"}, heard : SUBSET Works,
                             decided : SUBSET Actions]]

\* Whatever fails or crashes between the databases, a committed receipt is either still pending or
\* has done all it was for: every concern it names holds the work, the brain has its report.
NothingLost == \A r \in sent : r \in outbox \/ Delivered(r)

\* Receipts of one transaction keep their order: the brain never reads that work ended before it
\* reads the judgment that ended it, even when the judgment's delivery failed at first.
OneTransactionInOrder ==
  \A i, j \in DOMAIN inbox :
     LET r == inbox[i].ref  q == inbox[j].ref
     IN  r.work = q.work /\ r.txn = q.txn /\ r.pos < q.pos => i < j

\* A report that is waiting is read without the heartbeat: the flag is up, or a run has yet to
\* read it, or is reading it, or its poke is on the way (a run that broke off leaves it to the heartbeat).
NoLostPoke ==
  \A i \in DOMAIN inbox : inbox[i].state = "pending" =>
     \/ brain.poked
     \/ brain.at \in {"gate", "broken"} \/ i \in brain.page
     \/ \E t \in Threads : th[t].at = "poke"

\* What was recorded, decided or failed, stands: no retry, no second delivery of the report after a
\* lost acknowledgement and no restart has the brain write the register for that event again.
Recorded(event) == event.state \in {"settled", "stuck"}
DecidedOnce ==
  [][\A i \in DOMAIN inbox : Recorded(inbox[i]) =>
       \A j \in DOMAIN inbox' : inbox'[j].ref = inbox[i].ref => inbox'[j] = inbox[i]]_vars

\* A work object that ended and whose belief receipts are all acknowledged has told every belief.
BeliefsWereTold ==
  \A w \in Works : work[w].status \in Endings /\ (\A r \in bbox : r.work # w) =>
     \A b \in Beliefs : w \in belief[b].heard

\* Work whose deliveries can succeed has its receipts delivered, whatever fails on the way and though
\* the receipts of other work, older or younger, never can be.
Waiting(n) == \E r \in outbox : r.txn = n /\ r.work \in Served
EveryOutcomeArrives == \A n \in 0 .. MaxChanges - 1 : Waiting(n) ~> ~Waiting(n)

\* belief_outbox.py: "a crash between ""work closed"" and ""belief updated"" leaves a pending row
\* rather than a silent divergence": with no row pending, what the agent decided was carried out.
NoSilentDivergence ==
  bbox = {} => \A b \in Beliefs :
     /\ "resolve" \in belief[b].decided => belief[b].status = "retired"
     /\ "revise" \in belief[b].decided => belief[b].status # "held"
=============================================================================
