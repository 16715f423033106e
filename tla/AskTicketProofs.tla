---------------------------- MODULE AskTicketProofs ----------------------------
(***************************************************************************)
(* Theorems about AskTicket for every set of tasks, any number of attempts    *)
(* and of restarts: one question of a work object is out at a time, and the    *)
(* result of an attempt is what became of its own question.                   *)
(***************************************************************************)
EXTENDS AskTicket, TLAPS

-----------------------------------------------------------------------------
(* The inductive invariant.                                                  *)

NodeRecs   == [status : {"ready", "dispatched", "done", "failed", "gone"},
               epoch : 0 .. MaxEpoch, bound : 0 .. MaxEpoch, result : Results]
TicketRecs == [state : TicketStates, due : BOOLEAN]
ThreadRecs == [at : Places, kind : Kinds, heard : BOOLEAN, out : Results, open : SUBSET Asks]
CallStates == {"none", "in_flight", "unknown", "settled"}
BootRecs   == [at : {"up", "down", "arming"}, rows : [Asks -> TicketStates], left : SUBSET Asks]

AskTyped ==
  /\ node \in [Tasks -> NodeRecs] /\ ticket \in [Asks -> TicketRecs]
  /\ call \in [Asks -> CallStates] /\ thread \in [Asks -> ThreadRecs]
  /\ stamped \subseteq Asks /\ boot \in BootRecs

\* Where a ticket rests: answered or expired.
Over == {"accepted", "expired"}

\* The question is out, or about to be.
Open(a) == ticket[a].state \in Live /\ ~ticket[a].due

\* Where the thread of an attempt has its ticket and no result yet.
Asked == {"binding", "proposing", "linking", "surfacing", "listening", "waiting", "deciding", "expiring"}

\* What holds of one attempt: of its thread, its ticket and its call.
Waits(a) ==
  /\ thread[a].at \in Composing => thread[a].kind = "call"
  /\ thread[a].at \in Composing /\ a[2] = node[a[1]].epoch => node[a[1]].result = "none"
  /\ thread[a].at = "recording" /\ thread[a].kind = "call" => call[a] # "in_flight"
  /\ thread[a].at = "settling" => thread[a].kind # "call"
  /\ thread[a].heard => Registered(a) /\ ticket[a].state \in Over
  /\ thread[a].at \in Asked => ticket[a].state # "none"
  /\ thread[a].at \in {"returned", "recording"} =>
       /\ thread[a].out = "answer" => ticket[a].state = "accepted"
       /\ thread[a].out = "unreached" => ticket[a].due
  /\ call[a] = "in_flight" => Alive(a) /\ thread[a].kind = "call"
  /\ a[2] > node[a[1]].epoch => thread[a] = NoThread /\ ticket[a].state = "none" /\ call[a] = "none"
  /\ ticket[a].state = "expired" => ticket[a].due
  /\ boot.at # "up" /\ Alive(a) => thread[a].kind # "call"
  /\ boot.at = "arming" /\ a \in boot.left =>
       /\ ticket[a].state # "none" /\ boot.rows[a] # "none"
       /\ boot.rows[a] \in Over => ticket[a].state = boot.rows[a]

AllWait == \A a \in Asks : Waits(a)

\* One call of the work object has a thread of its own.
OneCaller == \A a, b \in Asks :
  Alive(a) /\ thread[a].kind = "call" /\ Alive(b) /\ thread[b].kind = "call" => a = b

\* A thread about to ask has every other open question on its list, and none is left when it asks.
Superseded == \A a, b \in Asks : a # b /\ Open(b) =>
  /\ thread[a].at = "superseding" => b \in thread[a].open
  /\ thread[a].at \notin {"binding", "proposing"}

\* A recorded result is what became of the ticket.
Decided == \A t \in Tasks : node[t].epoch > 0 =>
  /\ node[t].result = "answer" => ticket[<<t, node[t].epoch>>].state = "accepted"
  /\ node[t].result = "unreached" => ticket[<<t, node[t].epoch>>].due

AskInv == AskTyped /\ AllWait /\ OneCaller /\ Superseded /\ OneQuestionOut /\ Decided

-----------------------------------------------------------------------------
(* What a step does to the tickets.                                          *)

\* What every step keeps of a ticket: only its own thread, while it asks, opens it or closes it again.
Kept(a) ==
  /\ ticket[a].due => ticket'[a].due
  /\ ticket[a].state # "none" => ticket'[a].state # "none"
  /\ thread[a].at \notin Composing =>
       /\ ticket[a].state \in Over => ticket'[a].state = ticket[a].state
       /\ ticket[a].state = "none" => ticket'[a].state = "none"
  /\ ticket'[a].state = "expired" => ticket'[a].due
  /\ Open(a)' => Open(a) \/ thread[a].at \in {"superseding", "linking", "proposing"}
  /\ Open(a)' /\ ticket'[a].state = "proposed" =>
       thread[a].at = "proposing" \/ (Open(a) /\ ticket[a].state = "proposed")

\* The moves of a ticket there are.
MayMove(a, s) ==
  \/ s = "pending" /\ thread[a].at \in {"superseding", "linking"}
  \/ s = "proposed" /\ thread[a].at = "proposing" /\ ticket[a].state = "pending"
  \/ s = "accepted" /\ ticket[a].state = "proposed"
  \/ s = "expired" /\ ticket[a].state \in Live
  \/ s = ticket[a].state

\* A ticket that nobody touches.
LEMMA SameIsKept ==
  ASSUME AskTyped, AllWait, NEW a \in Asks, ticket'[a] = ticket[a]
  PROVE  Kept(a)
BY DEF AllWait, Waits, Kept, Open

\* A ticket that makes one of the moves there are, is kept, and so are the others.
LEMMA MovesKeep ==
  ASSUME AskTyped, AllWait, NEW a \in Asks, NEW s \in TicketStates, Moves(a, s), MayMove(a, s)
  PROVE  /\ ticket' \in [Asks -> TicketRecs]
         /\ ticket'[a].state = s /\ (s = "expired" => ticket'[a].due)
         /\ \A b \in Asks \ {a} : ticket'[b] = ticket[b]
         /\ \A b \in Asks : Kept(b)
<1> DEFINE rec == [ticket[a] EXCEPT !.state = s, !.due = @ \/ s = "expired"]
<1>1. ticket \in [Asks -> TicketRecs] /\ ticket[a] \in TicketRecs
  BY DEF AskTyped
<1>2. /\ rec \in TicketRecs /\ rec.state = s /\ (s = "expired" => rec.due) /\ (ticket[a].due => rec.due)
      /\ s # "expired" => rec.due = ticket[a].due
  BY <1>1 DEF TicketRecs
<1>3. ticket' = [ticket EXCEPT ![a] = rec]
  BY <1>1 DEF Moves
<1> HIDE DEF rec
<1>4. /\ ticket' \in [Asks -> TicketRecs] /\ ticket'[a] = rec
      /\ \A b \in Asks \ {a} : ticket'[b] = ticket[b]
  BY <1>1, <1>2, <1>3
<1>5. Kept(a)
  <2>1. ticket'[a].state # "none" \/ ticket[a].state = "none"
    BY <1>2, <1>4 DEF MayMove
  <2>2. ASSUME thread[a].at \notin Composing, ticket[a].state \in Over \cup {"none"}
        PROVE  ticket'[a].state = ticket[a].state
    BY <1>2, <1>4, <2>2 DEF MayMove, Composing, Over, Live
  <2>3. Open(a)' => Open(a) \/ thread[a].at \in {"superseding", "linking", "proposing"}
    BY <1>1, <1>2, <1>4 DEF MayMove, Open, Live, TicketRecs
  <2>4. Open(a)' /\ ticket'[a].state = "proposed" =>
          thread[a].at = "proposing" \/ (Open(a) /\ ticket[a].state = "proposed")
    BY <1>1, <1>2, <1>4 DEF MayMove, Open, Live, TicketRecs
  <2> QED
    BY <1>1, <1>2, <1>4, <2>1, <2>2, <2>3, <2>4 DEF Kept
<1> QED
  BY <1>2, <1>4, <1>5, SameIsKept

\* Expiring a ticket is one of its moves.
LEMMA ExpiresKeeps ==
  ASSUME AskTyped, AllWait, NEW a \in Asks, Expires(a)
  PROVE  /\ ticket' \in [Asks -> TicketRecs] /\ \A b \in Asks : Kept(b)
         /\ ticket'[a].state = IF ticket[a].state \in Live THEN "expired" ELSE ticket[a].state
         /\ ticket'[a].state \notin Live
         /\ \A b \in Asks \ {a} : ticket'[b] = ticket[b]
<1> DEFINE s == IF ticket[a].state \in Live THEN "expired" ELSE ticket[a].state
<1>1. s \in TicketStates /\ MayMove(a, s) /\ Moves(a, s) /\ s \notin Live
  BY DEF AskTyped, TicketRecs, TicketStates, MayMove, Expires, Live
<1> HIDE DEF s
<1>2. /\ ticket' \in [Asks -> TicketRecs] /\ (\A b \in Asks : Kept(b)) /\ ticket'[a].state = s
      /\ \A b \in Asks \ {a} : ticket'[b] = ticket[b]
  BY <1>1, MovesKeep
<1> QED
  BY <1>1, <1>2 DEF s

\* Every step keeps every ticket, in this sense.
LEMMA TicketSteps ==
  ASSUME AskTyped, AllWait, [Next]_vars
  PROVE  ticket' \in [Asks -> TicketRecs] /\ \A a \in Asks : Kept(a)
<1> DEFINE G == ticket' \in [Asks -> TicketRecs] /\ \A a \in Asks : Kept(a)
<1>1. ASSUME UNCHANGED ticket PROVE G
  BY <1>1, SameIsKept DEF AskTyped
<1>2. ASSUME NEW a \in Asks, NEW s \in TicketStates, Moves(a, s), MayMove(a, s) PROVE G
  BY <1>2, MovesKeep
<1>3. ASSUME NEW a \in Asks, Expires(a) PROVE G
  BY <1>3, ExpiresKeeps
<1> HIDE DEF G
<1>4. ASSUME NEW a \in Asks, Tool(a) PROVE G
  <2>1. CASE Create(a)
    BY <1>2, <2>1 DEF Create, At, MayMove, TicketStates
  <2>2. CASE Propose(a)
    BY <1>2, <2>2 DEF Propose, At, MayMove, TicketStates
  <2>3. CASE SaveLinks(a)
    BY <1>2, <2>3 DEF SaveLinks, At, MayMove, TicketStates
  <2>4. ASSUME NEW b \in Asks, SupersedeExpires(a, b) PROVE G
    BY <1>3, <2>4 DEF SupersedeExpires
  <2>5. CASE SupersedeReads(a) \/ Bind(a) \/ Surface(a) \/ ToolFails(a)
    BY <1>1, <2>5 DEF SupersedeReads, Bind, Surface, ToolFails
  <2> QED
    BY <1>4, <2>1, <2>2, <2>3, <2>4, <2>5 DEF Tool
<1>5. ASSUME NEW a \in Asks, Wait(a) PROVE G
  <2>1. CASE TimesOut(a)
    BY <1>3, <2>1 DEF TimesOut
  <2>2. CASE ~TimesOut(a)
    BY <1>1, <1>5, <2>2 DEF Wait, Listens, WaitEnds, Decides, WaitFails, Returned, Record, SettleTicket,
       SettleFails
  <2> QED
    BY <2>1, <2>2
<1>6. ASSUME NEW a \in Asks, User(a) PROVE G
  <2>1. CASE AnswerBegins(a)
    BY <1>1, <2>1 DEF AnswerBegins
  <2>2. ASSUME NEW delivered \in BOOLEAN, AnswerCommits(a, delivered) PROVE G
    <3>1. \/ UNCHANGED ticket
          \/ ticket[a].state = "proposed" /\ Moves(a, "accepted")
      BY <2>2 DEF AnswerCommits
    <3> QED
      BY <1>1, <1>2, <3>1 DEF MayMove, TicketStates
  <2>3. ASSUME NEW delivered \in BOOLEAN, Close(a, delivered) PROVE G
    BY <1>2, <2>3 DEF Close, MayMove, TicketStates
  <2> QED
    BY <1>6, <2>1, <2>2, <2>3 DEF User
<1>7. ASSUME NEW a \in Asks, WindowEnds(a) PROVE G
  <2>1. /\ ticket' \in [Asks -> TicketRecs] /\ ticket'[a].due /\ ticket'[a].state = ticket[a].state
        /\ \A b \in Asks \ {a} : ticket'[b] = ticket[b]
    BY <1>7 DEF WindowEnds, AskTyped, TicketRecs
  <2>2. Kept(a)
    BY <2>1 DEF Kept, Open
  <2> QED
    BY <2>1, <2>2, SameIsKept DEF G
<1>8. ASSUME NEW a \in Asks, Maintain(a) PROVE G
  BY <1>2, <1>8 DEF Maintain, MayMove, TicketStates
<1>9. ASSUME NEW a \in Asks, OperatorResolves(a) PROVE G
  BY <1>1, <1>9 DEF OperatorResolves
<1>10. ASSUME NEW t \in Tasks, Dispatch(t) \/ Judge(t) \/ GivesUp(t) \/ Sweep(t) PROVE G
  BY <1>1, <1>10 DEF Dispatch, Judge, GivesUp, Sweep
<1>11. ASSUME Boot PROVE G
  BY <1>1, <1>11 DEF Boot, RearmReads, Booted, Rearm
<1>12. ASSUME Crash \/ UNCHANGED vars PROVE G
  BY <1>1, <1>12 DEF Crash, vars
<1>13. G
  BY <1>4, <1>5, <1>6, <1>7, <1>8, <1>9, <1>10, <1>11, <1>12 DEF Next
<1> QED
  BY <1>13 DEF G

-----------------------------------------------------------------------------
(* Where a step leaves its thread.                                           *)

\* The thread of attempt a, and no other, is left at this place.
Landed(a, at, kind, heard, out, open) ==
  /\ thread' \in [Asks -> ThreadRecs] /\ \A b \in Asks \ {a} : thread'[b] = thread[b]
  /\ thread'[a].at = at /\ thread'[a].kind = kind /\ thread'[a].heard = heard
  /\ thread'[a].out = out /\ thread'[a].open = open

\* A thread goes where its new record says.
LEMMA GoesLands ==
  ASSUME AskTyped, NEW a \in Asks, NEW rec \in ThreadRecs, Goes(a, rec)
  PROVE  Landed(a, rec.at, rec.kind, rec.heard, rec.out, rec.open)
BY DEF AskTyped, Goes, Landed

\* The fields of a thread.
LEMMA ThreadFields ==
  ASSUME AskTyped, NEW a \in Asks
  PROVE  /\ thread[a] \in ThreadRecs
         /\ thread[a].at \in Places /\ thread[a].kind \in Kinds /\ thread[a].heard \in BOOLEAN
         /\ thread[a].out \in Results /\ thread[a].open \in SUBSET Asks
BY DEF AskTyped, ThreadRecs

\* A thread that goes to another place keeps the rest of its record.
LEMMA ToLands ==
  ASSUME AskTyped, NEW a \in Asks, NEW place \in Places, To(a, place)
  PROVE  Landed(a, place, thread[a].kind, thread[a].heard, thread[a].out, thread[a].open)
<1> DEFINE rec == [thread[a] EXCEPT !.at = place]
<1>1. /\ rec \in ThreadRecs /\ rec.at = place /\ rec.kind = thread[a].kind /\ rec.heard = thread[a].heard
      /\ rec.out = thread[a].out /\ rec.open = thread[a].open
  BY ThreadFields DEF ThreadRecs
<1>2. Goes(a, rec)
  BY DEF To
<1> HIDE DEF rec
<1>3. Landed(a, rec.at, rec.kind, rec.heard, rec.out, rec.open)
  BY <1>1, <1>2, GoesLands
<1> QED
  BY <1>1, <1>3

\* A thread that returns a result has it, and nothing else.
LEMMA ReturnsLands ==
  ASSUME AskTyped, NEW a \in Asks, NEW out \in Results, Returns(a, out)
  PROVE  Landed(a, "returned", thread[a].kind, FALSE, out, {})
<1> DEFINE rec == [NoThread EXCEPT !.at = "returned", !.kind = thread[a].kind, !.out = out]
<1>1. /\ rec \in ThreadRecs /\ rec.at = "returned" /\ rec.kind = thread[a].kind /\ rec.heard = FALSE
      /\ rec.out = out /\ rec.open = {}
  BY ThreadFields DEF ThreadRecs, NoThread, Places
<1>2. Goes(a, rec)
  BY DEF Returns
<1> HIDE DEF rec
<1>3. Landed(a, rec.at, rec.kind, rec.heard, rec.out, rec.open)
  BY <1>1, <1>2, GoesLands
<1> QED
  BY <1>1, <1>3

\* A thread that ends leaves nothing.
LEMMA LeavesLands ==
  ASSUME AskTyped, NEW a \in Asks, Leaves(a)
  PROVE  Landed(a, "gone", "call", FALSE, "none", {})
<1> DEFINE rec == [NoThread EXCEPT !.at = "gone"]
<1>1. /\ rec \in ThreadRecs /\ rec.at = "gone" /\ rec.kind = "call" /\ rec.heard = FALSE
      /\ rec.out = "none" /\ rec.open = {}
  BY DEF ThreadRecs, NoThread, Places, Kinds, Results
<1>2. Goes(a, rec)
  BY DEF Leaves
<1> HIDE DEF rec
<1>3. Landed(a, rec.at, rec.kind, rec.heard, rec.out, rec.open)
  BY <1>1, <1>2, GoesLands
<1> QED
  BY <1>1, <1>3

\* The hub's event changes only what the thread has heard.
LEMMA HeardLands ==
  ASSUME AskTyped, NEW a \in Asks, NEW delivered \in BOOLEAN, Heard(a, delivered)
  PROVE  Landed(a, thread[a].at, thread[a].kind, thread[a].heard \/ (delivered /\ Registered(a)),
                thread[a].out, thread[a].open)
<1> DEFINE h == thread[a].heard \/ (delivered /\ Registered(a))
           rec == [thread[a] EXCEPT !.heard = h]
<1>1. h \in BOOLEAN
  BY ThreadFields DEF Registered
<1>2. thread' = [thread EXCEPT ![a].heard = h] /\ thread \in [Asks -> ThreadRecs]
  BY DEF Heard, AskTyped
<1> HIDE DEF h
<1>3. /\ rec \in ThreadRecs /\ rec.at = thread[a].at /\ rec.kind = thread[a].kind /\ rec.heard = h
      /\ rec.out = thread[a].out /\ rec.open = thread[a].open
  BY <1>1, ThreadFields DEF ThreadRecs
<1>4. Goes(a, rec)
  BY <1>2 DEF Goes
<1> HIDE DEF rec
<1>5. Landed(a, rec.at, rec.kind, rec.heard, rec.out, rec.open)
  BY <1>3, <1>4, GoesLands
<1> QED
  BY <1>3, <1>5 DEF h

-----------------------------------------------------------------------------
(* What the steps leave of the other tables.                                 *)

NodeKept(b) ==
  /\ b[2] > node'[b[1]].epoch => b[2] > node[b[1]].epoch
  /\ thread[b].at \in Composing /\ b[2] = node'[b[1]].epoch =>
       b[2] = node[b[1]].epoch /\ node'[b[1]].result = node[b[1]].result

CallKept(b) == call'[b] = call[b] \/ (call'[b] = "settled" /\ (Alive(b) \/ call[b] = "unknown"))

BootKept(b) ==
  /\ boot'.at # "up" => boot.at # "up"
  /\ boot'.at = "arming" /\ b \in boot'.left =>
       boot.at = "arming" /\ b \in boot.left /\ boot'.rows[b] = boot.rows[b]

\* The other tables keep their types, and what the attempts rely on.
OthersCalm ==
  /\ node' \in [Tasks -> NodeRecs] /\ call' \in [Asks -> CallStates] /\ boot' \in BootRecs
  /\ stamped' \subseteq Asks
  /\ \A b \in Asks : NodeKept(b) /\ CallKept(b) /\ BootKept(b)

\* An attempt whose thread does not move.
LEMMA StillWaits ==
  ASSUME AskTyped, NEW b \in Asks, Waits(b), Kept(b), NodeKept(b), CallKept(b), BootKept(b),
         thread'[b] = thread[b]
  PROVE  Waits(b)'
<1>1. thread[b].heard => thread[b].at \notin Composing
  BY DEF Waits, Registered, Composing
<1>2. b[2] > node[b[1]].epoch => thread[b].at \notin Composing
  BY DEF Waits, NoThread, Composing
<1>3. thread[b].at \in {"returned", "recording"} => thread[b].at \notin Composing
  BY DEF Composing
<1>4. boot.at # "up" => thread[b].at \notin Composing
  BY DEF Waits, Alive, Composing
<1>5. thread[b].at \in Composing /\ b[2] = node'[b[1]].epoch => node'[b[1]].result = "none"
  BY DEF Waits, NodeKept
<1>6. thread[b].heard => ticket'[b].state \in Over
  BY <1>1 DEF Waits, Kept
<1>7. thread[b].at \in {"returned", "recording"} =>
        /\ thread[b].out = "answer" => ticket'[b].state = "accepted"
        /\ thread[b].out = "unreached" => ticket'[b].due
  BY <1>3 DEF Waits, Kept, Over
<1>8. b[2] > node'[b[1]].epoch =>
        thread[b] = NoThread /\ ticket'[b].state = "none" /\ call'[b] = "none"
  BY <1>2 DEF Waits, Kept, NodeKept, CallKept, Alive, NoThread
<1>9. boot'.at = "arming" /\ b \in boot'.left =>
        /\ ticket'[b].state # "none" /\ boot'.rows[b] # "none"
        /\ boot'.rows[b] \in Over => ticket'[b].state = boot'.rows[b]
  BY <1>4 DEF Waits, Kept, BootKept
<1>10. /\ call'[b] = "in_flight" => call[b] = "in_flight"
       /\ boot'.at # "up" => boot.at # "up"
       /\ ticket[b].state # "none" => ticket'[b].state # "none"
       /\ ticket'[b].state = "expired" => ticket'[b].due
  BY DEF CallKept, BootKept, Kept
<1> QED
  BY <1>5, <1>6, <1>7, <1>8, <1>9, <1>10 DEF Waits, Alive, Registered

\* An attempt whose thread goes on.
LEMMA OnwardWaits ==
  ASSUME AskTyped, NEW a \in Asks, Waits(a), Kept(a), NodeKept(a), CallKept(a), BootKept(a), Alive(a),
         NEW at, NEW heard, NEW out, NEW open, Landed(a, at, thread[a].kind, heard, out, open),
         at \notin {"none", "gone"},
         at \in Composing => thread[a].at \in Composing,
         at = "recording" /\ thread[a].kind = "call" => call'[a] # "in_flight",
         at = "settling" => thread[a].kind # "call",
         heard => at \in {"listening", "waiting", "deciding"} /\ ticket'[a].state \in Over,
         at \in Asked => ticket'[a].state # "none",
         at \in {"returned", "recording"} => /\ out = "answer" => ticket'[a].state = "accepted"
                                             /\ out = "unreached" => ticket'[a].due
  PROVE  Waits(a)'
<1>1. /\ thread'[a].at = at /\ thread'[a].kind = thread[a].kind /\ thread'[a].heard = heard
      /\ thread'[a].out = out
  BY DEF Landed
<1>2. boot.at # "up" => thread[a].at \notin Composing
  BY DEF Waits
<1>3. at \in Composing /\ a[2] = node'[a[1]].epoch => node'[a[1]].result = "none"
  BY DEF Waits, NodeKept
<1>4. ~(a[2] > node[a[1]].epoch)
  BY DEF Waits, Alive, NoThread
<1>5. boot'.at = "arming" /\ a \in boot'.left =>
        /\ ticket'[a].state # "none" /\ boot'.rows[a] # "none"
        /\ boot'.rows[a] \in Over => ticket'[a].state = boot'.rows[a]
  BY <1>2 DEF Waits, Kept, BootKept
<1>6. /\ call'[a] = "in_flight" => call[a] = "in_flight"
      /\ boot'.at # "up" => boot.at # "up"
      /\ ticket'[a].state = "expired" => ticket'[a].due
  BY DEF CallKept, BootKept, Kept
<1>7. at \in Composing => thread[a].kind = "call"
  BY DEF Waits
<1>8. call'[a] = "in_flight" => thread[a].kind = "call"
  BY <1>6 DEF Waits
<1>9. boot'.at # "up" => thread[a].kind # "call"
  BY <1>6 DEF Waits
<1>10. ~(a[2] > node'[a[1]].epoch)
  BY <1>4 DEF NodeKept
<1> QED
  BY <1>1, <1>3, <1>5, <1>6, <1>7, <1>8, <1>9, <1>10 DEF Waits, Alive, Registered

\* An attempt whose thread ends; the receipt of its call is settled.
LEMMA GoneWaits ==
  ASSUME AskTyped, NEW a \in Asks, Waits(a), Kept(a), NodeKept(a), CallKept(a), BootKept(a), Alive(a),
         Landed(a, "gone", "call", FALSE, "none", {}), thread[a].kind = "call" => call[a] # "in_flight",
         thread[a].at \notin Composing
  PROVE  Waits(a)'
<1>1. thread'[a].at = "gone" /\ thread'[a].heard = FALSE
  BY DEF Landed
<1>2. call'[a] # "in_flight"
  BY DEF CallKept, Waits
<1>3. ~(a[2] > node'[a[1]].epoch)
  BY DEF Waits, Alive, NoThread, NodeKept
<1>4. boot'.at = "arming" /\ a \in boot'.left =>
        /\ ticket'[a].state # "none" /\ boot'.rows[a] # "none"
        /\ boot'.rows[a] \in Over => ticket'[a].state = boot'.rows[a]
  BY DEF Waits, Kept, BootKept
<1>5. ticket'[a].state = "expired" => ticket'[a].due
  BY DEF Kept
<1>6. "gone" \notin Composing \cup Asked
  BY DEF Composing, Asked
<1> QED
  BY <1>1, <1>2, <1>3, <1>4, <1>5, <1>6 DEF Waits, Alive

\* The steps other than a dispatch, a crash and the reading of the tickets after it.
CalmStep ==
  \/ \E a \in Asks : Tool(a) \/ Wait(a) \/ User(a) \/ WindowEnds(a) \/ Maintain(a) \/ OperatorResolves(a)
                     \/ Rearm(a)
  \/ \E t \in Tasks : Judge(t) \/ GivesUp(t) \/ Sweep(t)
  \/ Booted \/ UNCHANGED vars

\* An ask names its task and its attempt.
LEMMA AskParts ==
  ASSUME NEW a \in Asks
  PROVE  a[1] \in Tasks /\ a[2] \in 1 .. MaxEpoch /\ a = <<a[1], a[2]>>
BY DEF Asks

\* A recorded result is of an attempt whose thread asks no more.
LEMMA RecordsKeepNodes ==
  ASSUME AskTyped, NEW t \in Tasks, NEW out \in Results, Recorded(t, out), NEW b \in Asks,
         b = <<t, node[t].epoch>> => thread[b].at \notin Composing
  PROVE  NodeKept(b) /\ node' \in [Tasks -> NodeRecs]
<1>1. node \in [Tasks -> NodeRecs]
  BY DEF AskTyped
<1>2. /\ node' \in [Tasks -> NodeRecs] /\ node'[t].epoch = node[t].epoch
      /\ \A u \in Tasks \ {t} : node'[u] = node[u]
  BY <1>1 DEF Recorded, NodeRecs
<1>3. b[1] \in Tasks /\ b = <<b[1], b[2]>>
  BY AskParts
<1> QED
  BY <1>2, <1>3 DEF NodeKept

\* The results there are.
LEMMA SavedResult ==
  ASSUME NEW state, NEW due
  PROVE  ResultFor(state, due) \in Results
BY DEF ResultFor, Results

\* A calm step leaves the tasks what their attempts rely on.
LEMMA NodesCalm ==
  ASSUME AskTyped, CalmStep
  PROVE  node' \in [Tasks -> NodeRecs] /\ \A b \in Asks : NodeKept(b)
<1> DEFINE G == node' \in [Tasks -> NodeRecs] /\ \A b \in Asks : NodeKept(b)
<1>1. node \in [Tasks -> NodeRecs] /\ \A b \in Asks : b[1] \in Tasks
  BY AskParts DEF AskTyped
<1>2. ASSUME UNCHANGED node PROVE G
  BY <1>1, <1>2 DEF NodeKept
<1>3. ASSUME NEW t \in Tasks, NEW n \in NodeRecs, n.epoch = node[t].epoch, n.result = node[t].result,
             node' = [node EXCEPT ![t] = n]
      PROVE  G
  <2>1. node' \in [Tasks -> NodeRecs] /\ \A u \in Tasks : node'[u].epoch = node[u].epoch
                                                          /\ node'[u].result = node[u].result
    BY <1>1, <1>3
  <2> QED
    BY <1>1, <2>1 DEF NodeKept
<1>4. ASSUME NEW t \in Tasks, Judge(t) \/ GivesUp(t) PROVE G
  <2>1. PICK next \in {"ready", "gone"} : node' = [node EXCEPT ![t].status = next]
    BY <1>4 DEF Judge, GivesUp
  <2>2. [node[t] EXCEPT !.status = next] \in NodeRecs
        /\ [node[t] EXCEPT !.status = next].epoch = node[t].epoch
        /\ [node[t] EXCEPT !.status = next].result = node[t].result
    BY <1>1 DEF NodeRecs
  <2>3. node' = [node EXCEPT ![t] = [node[t] EXCEPT !.status = next]]
    BY <2>1
  <2> QED
    BY <1>3, <2>2, <2>3
<1>5. ASSUME NEW a \in Asks, Bind(a) PROVE G
  <2>1. a[1] \in Tasks /\ a[2] \in 0 .. MaxEpoch
    BY AskParts, AskBounds
  <2>2. /\ [node[a[1]] EXCEPT !.bound = a[2]] \in NodeRecs
        /\ [node[a[1]] EXCEPT !.bound = a[2]].epoch = node[a[1]].epoch
        /\ [node[a[1]] EXCEPT !.bound = a[2]].result = node[a[1]].result
    BY <1>1, <2>1 DEF NodeRecs
  <2>3. node' = [node EXCEPT ![a[1]] = [node[a[1]] EXCEPT !.bound = a[2]]]
    BY <1>5 DEF Bind
  <2> QED
    BY <1>3, <2>1, <2>2, <2>3
<1>6. ASSUME NEW t \in Tasks, Sweep(t) PROVE G
  <2>1. Recorded(t, "error") /\ ~Alive(<<t, node[t].epoch>>)
    BY <1>6 DEF Sweep
  <2>2. \A b \in Asks : b = <<t, node[t].epoch>> => thread[b].at \notin Composing
    BY <2>1 DEF Alive, Composing
  <2>3. "error" \in Results /\ node' \in [Tasks -> NodeRecs]
    BY <1>1, <2>1 DEF Results, Recorded, NodeRecs
  <2> QED
    BY <2>1, <2>2, <2>3, RecordsKeepNodes
<1>7. ASSUME NEW a \in Asks, Record(a) PROVE G
  <2>1. CASE UNCHANGED node
    BY <1>2, <2>1
  <2>2. CASE ~UNCHANGED node
    <3>1. Recorded(a[1], thread[a].out) /\ thread[a].at = "recording" /\ Dispatched(a)
      BY <1>7, <2>2 DEF Record, At
    <3>2. a[1] \in Tasks /\ a = <<a[1], node[a[1]].epoch>>
      BY <3>1, AskParts DEF Dispatched
    <3>3. thread[a].out \in Results /\ thread[a].at \notin Composing
      BY <3>1, ThreadFields DEF Composing
    <3>4. node' \in [Tasks -> NodeRecs]
      BY <1>1, <3>1, <3>2, <3>3 DEF Recorded, NodeRecs
    <3> QED
      BY <3>1, <3>2, <3>3, <3>4, RecordsKeepNodes
  <2> QED
    BY <2>1, <2>2
<1> HIDE DEF G
<1>8. ASSUME NEW a \in Asks, Tool(a) PROVE G
  BY <1>2, <1>5, <1>8 DEF Tool, SupersedeReads, SupersedeExpires, Create, Propose, SaveLinks, Surface,
     ToolFails
<1>9. ASSUME NEW a \in Asks, Wait(a) PROVE G
  BY <1>2, <1>7, <1>9 DEF Wait, Listens, WaitEnds, Decides, TimesOut, WaitFails, Returned, SettleTicket,
     SettleFails
<1>10. ASSUME NEW a \in Asks, User(a) \/ WindowEnds(a) \/ Maintain(a) \/ OperatorResolves(a) \/ Rearm(a)
       PROVE  G
  BY <1>2, <1>10 DEF User, AnswerBegins, AnswerCommits, Close, WindowEnds, Maintain, OperatorResolves, Rearm
<1>11. ASSUME Booted \/ UNCHANGED vars PROVE G
  BY <1>2, <1>11 DEF Booted, vars
<1>12. G
  BY <1>4, <1>6, <1>8, <1>9, <1>10, <1>11 DEF CalmStep
<1> QED
  BY <1>12 DEF G

\* A calm step settles receipts, and starts no call.
LEMMA CallsCalm ==
  ASSUME AskTyped, CalmStep
  PROVE  call' \in [Asks -> CallStates] /\ \A b \in Asks : CallKept(b)
<1> DEFINE G == call' \in [Asks -> CallStates] /\ \A b \in Asks : CallKept(b)
<1>1. call \in [Asks -> CallStates]
  BY DEF AskTyped
<1>2. ASSUME UNCHANGED call PROVE G
  BY <1>1, <1>2 DEF CallKept
<1>3. ASSUME NEW a \in Asks, call' = [call EXCEPT ![a] = "settled"], Alive(a) \/ call[a] = "unknown"
      PROVE  G
  BY <1>1, <1>3 DEF CallKept, CallStates
<1> HIDE DEF G
<1>4. ASSUME NEW a \in Asks, Returned(a) PROVE G
  <2>1. Alive(a)
    BY <1>4 DEF Returned, At, Alive
  <2>2. \/ UNCHANGED call
        \/ call' = [call EXCEPT ![a] = "settled"]
    BY <1>4 DEF Returned
  <2> QED
    BY <1>2, <1>3, <2>1, <2>2
<1>5. ASSUME NEW a \in Asks, SettleTicket(a) PROVE G
  <2>1. CASE node[a[1]].bound = a[2] /\ call[a] = "unknown"
    <3>1. call' = [call EXCEPT ![a] = "settled"]
      BY <1>5, <2>1 DEF SettleTicket
    <3> QED
      BY <1>3, <2>1, <3>1
  <2>2. CASE ~(node[a[1]].bound = a[2] /\ call[a] = "unknown")
    <3>1. call' = [call EXCEPT ![a] = call[a]]
      BY <1>5, <2>2 DEF SettleTicket
    <3>2. UNCHANGED call
      BY <1>1, <3>1
    <3> QED
      BY <1>2, <3>2
  <2> QED
    BY <2>1, <2>2
<1>6. ASSUME NEW a \in Asks, OperatorResolves(a) PROVE G
  BY <1>3, <1>6 DEF OperatorResolves
<1>7. ASSUME NEW a \in Asks, Tool(a) PROVE G
  BY <1>2, <1>7 DEF Tool, SupersedeReads, SupersedeExpires, Create, Bind, Propose, SaveLinks, Surface,
     ToolFails
<1>8. ASSUME NEW a \in Asks, Wait(a) PROVE G
  BY <1>2, <1>4, <1>5, <1>8 DEF Wait, Listens, WaitEnds, Decides, TimesOut, WaitFails, Record, SettleFails
<1>9. ASSUME NEW a \in Asks, User(a) \/ WindowEnds(a) \/ Maintain(a) \/ Rearm(a) PROVE G
  BY <1>2, <1>9 DEF User, AnswerBegins, AnswerCommits, Close, WindowEnds, Maintain, Rearm
<1>10. ASSUME NEW t \in Tasks, Judge(t) \/ GivesUp(t) \/ Sweep(t) PROVE G
  BY <1>2, <1>10 DEF Judge, GivesUp, Sweep
<1>11. ASSUME Booted \/ UNCHANGED vars PROVE G
  BY <1>2, <1>11 DEF Booted, vars
<1>12. G
  BY <1>6, <1>7, <1>8, <1>9, <1>10, <1>11 DEF CalmStep
<1> QED
  BY <1>12 DEF G

\* A calm step may shorten the list of the restart, and end it.
LEMMA BootsCalm ==
  ASSUME AskTyped, CalmStep
  PROVE  /\ boot' \in BootRecs /\ stamped' \subseteq Asks
         /\ \A b \in Asks : BootKept(b)
<1> DEFINE G == boot' \in BootRecs /\ \A b \in Asks : BootKept(b)
<1>1. boot \in BootRecs /\ stamped \subseteq Asks
  BY DEF AskTyped
<1>2. ASSUME UNCHANGED boot PROVE G
  BY <1>1, <1>2 DEF BootKept
<1>3. ASSUME NEW left \in SUBSET boot.left, boot' = [boot EXCEPT !.left = left] PROVE G
  BY <1>1, <1>3 DEF BootKept, BootRecs
<1>4. ASSUME NEW rows \in [Asks -> TicketStates], boot' = [boot EXCEPT !.at = "up", !.rows = rows] PROVE G
  BY <1>1, <1>4 DEF BootKept, BootRecs
<1> HIDE DEF G
<1>5. ASSUME NEW a \in Asks, Rearm(a) PROVE G
  <2>1. boot' = [boot EXCEPT !.left = boot.left \ {a}]
    BY <1>5 DEF Rearm
  <2> QED
    BY <1>3, <2>1
<1>6. ASSUME NEW a \in Asks, SettleFails(a) PROVE G
  <2>1. UNCHANGED boot \/ boot' = [boot EXCEPT !.left = {}]
    BY <1>6 DEF SettleFails
  <2> QED
    BY <1>2, <1>3, <2>1
<1>7. ASSUME Booted PROVE G
  <2>1. boot' = [boot EXCEPT !.at = "up", !.rows = [a \in Asks |-> "none"]]
    BY <1>7 DEF Booted
  <2>2. [a \in Asks |-> "none"] \in [Asks -> TicketStates]
    BY DEF TicketStates
  <2> QED
    BY <1>4, <2>1, <2>2
<1>8. ASSUME NEW a \in Asks, Tool(a) PROVE G
  BY <1>2, <1>8 DEF Tool, SupersedeReads, SupersedeExpires, Create, Bind, Propose, SaveLinks, Surface,
     ToolFails
<1>9. ASSUME NEW a \in Asks, Wait(a) PROVE G
  BY <1>2, <1>6, <1>9 DEF Wait, Listens, WaitEnds, Decides, TimesOut, WaitFails, Returned, Record,
     SettleTicket
<1>10. ASSUME NEW a \in Asks, User(a) \/ WindowEnds(a) \/ Maintain(a) \/ OperatorResolves(a) PROVE G
  BY <1>2, <1>10 DEF User, AnswerBegins, AnswerCommits, Close, WindowEnds, Maintain, OperatorResolves
<1>11. ASSUME NEW t \in Tasks, Judge(t) \/ GivesUp(t) \/ Sweep(t) PROVE G
  BY <1>2, <1>11 DEF Judge, GivesUp, Sweep
<1>12. ASSUME UNCHANGED vars PROVE G
  BY <1>2, <1>12 DEF vars
<1>13. G
  BY <1>5, <1>7, <1>8, <1>9, <1>10, <1>11, <1>12 DEF CalmStep
<1>14. stamped' \subseteq Asks
  <2>1. ASSUME NEW a \in Asks, Tool(a) PROVE stamped' = stamped
    BY <2>1 DEF Tool, SupersedeReads, SupersedeExpires, Create, Bind, Propose, SaveLinks, Surface, ToolFails
  <2>2. ASSUME NEW a \in Asks, Wait(a) PROVE stamped' = stamped
    BY <2>2 DEF Wait, Listens, WaitEnds, Decides, TimesOut, WaitFails, Returned, Record, SettleTicket,
       SettleFails
  <2>3. ASSUME NEW a \in Asks, User(a) PROVE stamped' \subseteq stamped \cup {a}
    BY <2>3 DEF User, AnswerBegins, AnswerCommits, Close
  <2>4. ASSUME NEW a \in Asks, WindowEnds(a) \/ Maintain(a) \/ OperatorResolves(a) \/ Rearm(a)
        PROVE  stamped' = stamped
    BY <2>4 DEF WindowEnds, Maintain, OperatorResolves, Rearm
  <2>5. ASSUME NEW t \in Tasks, Judge(t) \/ GivesUp(t) \/ Sweep(t) PROVE stamped' = stamped
    BY <2>5 DEF Judge, GivesUp, Sweep
  <2>6. ASSUME Booted \/ UNCHANGED vars PROVE stamped' = stamped
    BY <2>6 DEF Booted, vars
  <2> QED
    BY <1>1, <2>1, <2>2, <2>3, <2>4, <2>5, <2>6 DEF CalmStep
<1> QED
  BY <1>13, <1>14 DEF G

\* What a calm step keeps of every attempt.
LEMMA CalmKeeps ==
  ASSUME AskTyped, AllWait, CalmStep, [Next]_vars
  PROVE  OthersCalm /\ ticket' \in [Asks -> TicketRecs] /\ \A b \in Asks : Kept(b)
BY NodesCalm, CallsCalm, BootsCalm, TicketSteps DEF OthersCalm

-----------------------------------------------------------------------------
(* The thread that moves.                                                    *)

\* Thread a moved, none of another attempt did, and it is a call's only if it was.
Turns(a) ==
  /\ thread' \in [Asks -> ThreadRecs] /\ \A b \in Asks \ {a} : thread'[b] = thread[b]
  /\ Waits(a)'
  /\ Alive(a)' /\ thread'[a].kind = "call" => Alive(a) /\ thread[a].kind = "call"

\* Where it asks, it has seen to every other open question.
Asking(a) == \A b \in Asks \ {a} : Open(b)' =>
  /\ thread'[a].at = "superseding" => b \in thread'[a].open
  /\ thread'[a].at \notin {"binding", "proposing"}

\* What the moves of a thread start from.
Calm(a) == AskTyped /\ Waits(a) /\ Kept(a) /\ NodeKept(a) /\ CallKept(a) /\ BootKept(a)

\* A thread that goes on in its attempt.
LEMMA OnwardTurns ==
  ASSUME NEW a \in Asks, Calm(a), Alive(a),
         NEW at, NEW heard, NEW out, NEW open, Landed(a, at, thread[a].kind, heard, out, open),
         at \notin {"none", "gone"},
         at \in Composing => thread[a].at \in Composing,
         at = "recording" /\ thread[a].kind = "call" => call'[a] # "in_flight",
         at = "settling" => thread[a].kind # "call",
         heard => at \in {"listening", "waiting", "deciding"} /\ ticket'[a].state \in Over,
         at \in Asked => ticket'[a].state # "none",
         at \in {"returned", "recording"} => /\ out = "answer" => ticket'[a].state = "accepted"
                                             /\ out = "unreached" => ticket'[a].due
  PROVE  Turns(a)
<1>1. Waits(a)'
  BY OnwardWaits DEF Calm
<1> QED
  BY <1>1 DEF Landed, Turns

\* A thread that ends.
LEMMA GoneTurns ==
  ASSUME NEW a \in Asks, Calm(a), Alive(a), Landed(a, "gone", "call", FALSE, "none", {}),
         thread[a].kind = "call" => call[a] # "in_flight", thread[a].at \notin Composing
  PROVE  Turns(a) /\ Asking(a)
<1>1. Waits(a)'
  BY GoneWaits DEF Calm
<1> QED
  BY <1>1 DEF Landed, Turns, Asking, Alive

\* What a thread in the course of its attempt relies on.
LEMMA AskedFacts ==
  ASSUME NEW a \in Asks, Calm(a)
  PROVE  /\ thread[a].at \in Composing => thread[a].kind = "call" /\ Alive(a) /\ ~thread[a].heard
         /\ thread[a].at \in Asked => ticket'[a].state # "none"
         /\ thread[a].at \in Asked /\ thread[a].heard => ticket[a].state \in Over
         /\ "superseding" \notin Asked
BY DEF Calm, Waits, Kept, Alive, Composing, Asked, Registered

\* The tool's own steps.
LEMMA ToolTurns ==
  ASSUME NEW a \in Asks, Calm(a), Superseded, Tool(a), \A b \in Asks : Kept(b)
  PROVE  Turns(a) /\ Asking(a)
<1> USE AskedFacts
<1>0. /\ AskTyped /\ \A place \in Composing : place \in Places /\ place \notin {"none", "gone"}
      /\ \A place \in Composing : place \notin {"recording", "returned", "settling"}
      /\ {"superseding", "binding", "proposing", "linking", "surfacing"} \subseteq Composing
  BY DEF Calm, Composing, Places
<1>1. ASSUME NEW place \in Composing \ {"superseding"}, thread[a].at \in Composing, To(a, place),
             place \in Asked => ticket'[a].state # "none"
      PROVE  Turns(a) /\ thread'[a].at = place
  <2>1. Landed(a, place, thread[a].kind, thread[a].heard, thread[a].out, thread[a].open)
    BY <1>0, <1>1, ToLands
  <2>2. Turns(a)
    BY <1>0, <1>1, <2>1, OnwardTurns
  <2> QED
    BY <2>1, <2>2 DEF Landed
<1>2. ASSUME NEW open \in SUBSET Asks, thread[a].at \in Composing,
             Goes(a, [thread[a] EXCEPT !.at = "superseding", !.open = open])
      PROVE  Turns(a) /\ thread'[a].at = "superseding" /\ thread'[a].open = open
  <2> DEFINE rec == [thread[a] EXCEPT !.at = "superseding", !.open = open]
  <2>0. /\ thread[a] \in ThreadRecs /\ "superseding" \in Places /\ open \in SUBSET Asks
    BY <1>0, <1>2, ThreadFields
  <2>1. /\ rec \in ThreadRecs /\ rec.at = "superseding" /\ rec.kind = thread[a].kind
        /\ rec.heard = thread[a].heard /\ rec.out = thread[a].out /\ rec.open = open
    BY <2>0 DEF ThreadRecs
  <2>2. Goes(a, rec)
    BY <1>2
  <2> HIDE DEF rec
  <2>3. Landed(a, rec.at, rec.kind, rec.heard, rec.out, rec.open)
    BY <1>0, <2>1, <2>2, GoesLands
  <2>4. Landed(a, "superseding", thread[a].kind, thread[a].heard, thread[a].out, open)
    BY <2>1, <2>3
  <2>5. Turns(a)
    BY <1>0, <1>2, <2>4, OnwardTurns
  <2> QED
    BY <2>4, <2>5 DEF Landed
<1>3. CASE SupersedeReads(a)
  <2>1. /\ thread[a].at \in Composing /\ UNCHANGED ticket
        /\ Goes(a, [thread[a] EXCEPT !.at = "superseding", !.open = OpenAsks(a)])
        /\ OpenAsks(a) \in SUBSET Asks
    BY <1>3 DEF SupersedeReads, At, Composing, OpenAsks
  <2>2. Turns(a) /\ thread'[a].at = "superseding" /\ thread'[a].open = OpenAsks(a)
    BY <1>2, <2>1
  <2> QED
    BY <2>1, <2>2 DEF Asking, Open, OpenAsks
<1>4. ASSUME NEW c \in Asks, SupersedeExpires(a, c) PROVE Turns(a) /\ Asking(a)
  <2> DEFINE rest == thread[a].open \ {c}
  <2>1. thread[a].at = "superseding" /\ Expires(c)
        /\ Goes(a, [thread[a] EXCEPT !.open = rest])
    BY <1>4 DEF SupersedeExpires, At
  <2>2. rest \in SUBSET Asks /\ \A b \in thread[a].open : b # c => b \in rest
    BY <1>0, ThreadFields
  <2> HIDE DEF rest
  <2>3. [thread[a] EXCEPT !.open = rest] = [thread[a] EXCEPT !.at = "superseding", !.open = rest]
    BY <1>0, <2>1, ThreadFields DEF ThreadRecs
  <2>4. Turns(a) /\ thread'[a].at = "superseding" /\ thread'[a].open = rest
    BY <1>0, <1>2, <2>1, <2>2, <2>3
  <2>5. ASSUME NEW b \in Asks \ {a}, Open(b)' PROVE b \in rest
    <3>1. /\ ticket'[c].state \notin Live /\ \A d \in Asks \ {c} : ticket'[d] = ticket[d]
      <4>1. ticket \in [Asks -> TicketRecs]
        BY <1>0 DEF AskTyped
      <4> QED
        BY <2>1, <4>1 DEF Expires, Moves, Live, TicketRecs
    <3>2. b # c /\ Open(b)
      BY <2>5, <3>1 DEF Open
    <3> QED
      BY <2>1, <2>2, <3>2 DEF Superseded
  <2> QED
    BY <2>4, <2>5 DEF Asking
<1>5. CASE Create(a)
  <2>1. /\ thread[a].at = "superseding" /\ thread[a].open = {} /\ To(a, "binding") /\ Moves(a, "pending")
    BY <1>5 DEF Create, At
  <2>2. ticket'[a].state = "pending" /\ \A b \in Asks \ {a} : ticket'[b] = ticket[b]
    <3>1. ticket \in [Asks -> TicketRecs]
      BY <1>0 DEF AskTyped
    <3> QED
      BY <2>1, <3>1 DEF Moves, TicketRecs
  <2>3. Turns(a)
    BY <1>0, <1>1, <2>1, <2>2
  <2>4. \A b \in Asks \ {a} : ~Open(b)'
    BY <2>1, <2>2 DEF Superseded, Open
  <2> QED
    BY <2>3, <2>4 DEF Asking
<1>6. CASE Bind(a)
  <2>1. thread[a].at = "binding" /\ To(a, "proposing") /\ UNCHANGED ticket
    BY <1>6 DEF Bind, At
  <2>2. Turns(a)
    BY <1>0, <1>1, <2>1 DEF Asked
  <2>3. \A b \in Asks \ {a} : ~Open(b)'
    BY <2>1 DEF Superseded, Open
  <2> QED
    BY <2>2, <2>3 DEF Asking
<1>7. ASSUME NEW place \in {"linking", "surfacing"}, thread[a].at \in Composing \cap Asked, To(a, place)
      PROVE  Turns(a) /\ Asking(a)
  <2>1. Turns(a) /\ thread'[a].at = place
    BY <1>0, <1>1, <1>7
  <2> QED
    BY <2>1 DEF Asking
<1>8. CASE Propose(a)
  BY <1>7, <1>8 DEF Propose, At, Composing, Asked
<1>9. CASE SaveLinks(a)
  BY <1>7, <1>9 DEF SaveLinks, At, Composing, Asked
<1>10. CASE Surface(a)
  <2>1. thread[a].at = "surfacing" /\ To(a, "listening") /\ "listening" \in Places
    BY <1>10 DEF Surface, At, Places
  <2>2. Landed(a, "listening", thread[a].kind, thread[a].heard, thread[a].out, thread[a].open)
    BY <1>0, <2>1, ToLands
  <2>3. /\ Alive(a) /\ ~thread[a].heard /\ ticket'[a].state # "none" /\ thread[a].heard \in BOOLEAN
        /\ "listening" \notin Composing \cup {"none", "gone", "recording", "settling", "returned"}
    <3>1. thread[a].at \in Composing \cap Asked /\ "listening" \notin Composing
      BY <2>1 DEF Composing, Asked
    <3> QED
      BY <1>0, <3>1, ThreadFields
  <2>4. Turns(a)
    BY <2>2, <2>3, OnwardTurns
  <2> QED
    BY <2>2, <2>4 DEF Asking, Landed
<1>11. CASE ToolFails(a)
  <2>1. thread[a].at \in Composing /\ Returns(a, "error") /\ "error" \in Results
    BY <1>11 DEF ToolFails, Results
  <2>2. Landed(a, "returned", thread[a].kind, FALSE, "error", {})
    BY <1>0, <2>1, ReturnsLands
  <2>3. /\ Alive(a) /\ "returned" \notin Composing \cup Asked \cup {"none", "gone", "recording", "settling"}
    <3>1. "returned" \notin Composing \cup Asked
      BY DEF Composing, Asked
    <3> QED
      BY <2>1, <3>1
  <2>4. Turns(a)
    BY <2>2, <2>3, OnwardTurns
  <2> QED
    BY <2>2, <2>4 DEF Asking, Landed
<1> QED
  BY <1>3, <1>4, <1>5, <1>6, <1>8, <1>9, <1>10, <1>11 DEF Tool

\* What the row says of a question that was asked, still holds after a step of a thread that waits.
LEMMA SavedFacts ==
  ASSUME NEW a \in Asks, Calm(a), thread[a].at \notin Composing
  PROVE  /\ Saved(a) \in Results /\ Saved(a) # "error"
         /\ Saved(a) = "answer" => ticket'[a].state = "accepted"
         /\ ticket[a].state # "none" /\ Saved(a) = "unreached" => ticket'[a].due
         /\ ticket[a].state \in Over => Saved(a) # "none"
<1>1. ticket[a] \in TicketRecs
  BY DEF Calm, AskTyped
<1>2. ticket[a].state \in TicketStates /\ ticket[a].due \in BOOLEAN
  BY <1>1 DEF TicketRecs
<1>3. Saved(a) = "answer" => ticket[a].state = "accepted"
  BY <1>2 DEF Saved, ResultFor, TicketStates, Live
<1>4. ticket[a].state # "none" /\ Saved(a) = "unreached" => ticket[a].due
  BY <1>2 DEF Saved, ResultFor, TicketStates, Live, Calm, Waits
<1>5. ticket[a].state \in Over => Saved(a) # "none"
  BY <1>2 DEF Saved, ResultFor, TicketStates, Live, Over
<1>6. Saved(a) \in Results /\ Saved(a) # "error"
  BY DEF Saved, ResultFor, Results
<1> QED
  BY <1>3, <1>4, <1>5, <1>6 DEF Calm, Kept, Over

\* A wait that ends with a result.
LEMMA ReturnTurns ==
  ASSUME NEW a \in Asks, Calm(a), Alive(a), NEW out \in Results, Returns(a, out),
         out = "answer" => ticket'[a].state = "accepted", out = "unreached" => ticket'[a].due
  PROVE  Turns(a) /\ Asking(a)
<1>1. Landed(a, "returned", thread[a].kind, FALSE, out, {})
  BY ReturnsLands DEF Calm
<1>2. "returned" \notin Composing \cup Asked \cup {"none", "gone", "recording", "settling"}
  BY DEF Composing, Asked
<1>3. Turns(a)
  BY <1>1, <1>2, OnwardTurns
<1> QED
  BY <1>1, <1>3 DEF Asking, Landed

\* A wait that goes on.
LEMMA PlaceTurns ==
  ASSUME NEW a \in Asks, Calm(a), thread[a].at \in {"listening", "waiting", "deciding"},
         NEW place \in {"waiting", "deciding", "expiring"}, To(a, place),
         thread[a].heard => place # "expiring"
  PROVE  Turns(a) /\ Asking(a)
<1>1. place \in Places /\ place \notin Composing \cup {"none", "gone", "recording", "settling", "returned"}
  BY DEF Composing, Places
<1>2. Landed(a, place, thread[a].kind, thread[a].heard, thread[a].out, thread[a].open)
  BY <1>1, ToLands DEF Calm
<1>3. thread[a].at \in Asked /\ thread[a].at \notin Composing /\ Alive(a)
  BY DEF Asked, Composing, Alive
<1>4. ticket'[a].state # "none" /\ (thread[a].heard => ticket'[a].state \in Over)
  BY <1>3 DEF Calm, Waits, Kept
<1>5. Turns(a)
  BY <1>1, <1>2, <1>3, <1>4, OnwardTurns
<1> QED
  BY <1>1, <1>2, <1>5 DEF Asking, Landed, Composing

\* The steps of a thread that waits for the answer, and of what it does with it.
LEMMA WaitTurns ==
  ASSUME NEW a \in Asks, Calm(a), Wait(a)
  PROVE  Turns(a) /\ Asking(a)
<1>1. ASSUME thread[a].at \in {"listening", "waiting", "deciding", "expiring"}
      PROVE  /\ thread[a].at \in Asked /\ thread[a].at \notin Composing /\ Alive(a)
             /\ ticket[a].state # "none"
             /\ thread[a].heard => ticket[a].state \in Over /\ thread[a].at # "expiring"
  <2>1. thread[a].at \in Asked /\ thread[a].at \notin Composing /\ Alive(a)
    BY <1>1 DEF Asked, Composing, Alive
  <2> QED
    BY <2>1 DEF Calm, Waits, Registered
<1>2. ASSUME thread[a].at \in {"listening", "deciding"}, Saved(a) # "none", Returns(a, Saved(a))
      PROVE  Turns(a) /\ Asking(a)
  BY <1>1, <1>2, SavedFacts, ReturnTurns
<1>3. ASSUME thread[a].at \in {"listening", "deciding", "expiring"}, thread[a].kind # "call", Leaves(a)
      PROVE  Turns(a) /\ Asking(a)
  BY <1>1, <1>3, LeavesLands, GoneTurns DEF Calm
<1>4. CASE Listens(a)
  <2>1. thread[a].at = "listening"
    BY <1>4 DEF Listens, At
  <2>2. \/ thread[a].kind = "resumed" /\ Leaves(a)
        \/ Saved(a) # "none" /\ Returns(a, Saved(a))
        \/ To(a, "waiting")
    BY <1>4 DEF Listens
  <2> QED
    BY <1>2, <1>3, <2>1, <2>2, PlaceTurns
<1>5. CASE WaitEnds(a)
  BY <1>5, PlaceTurns DEF WaitEnds, At
<1>6. CASE Decides(a)
  <2>1. thread[a].at = "deciding"
    BY <1>6 DEF Decides, At
  <2>2. thread[a].heard => Saved(a) # "none"
    BY <1>1, <2>1, SavedFacts
  <2>3. \/ Saved(a) # "none" /\ Returns(a, Saved(a))
        \/ ~thread[a].heard /\ To(a, "expiring")
    BY <1>6, <2>2 DEF Decides
  <2> QED
    BY <1>2, <2>1, <2>3, PlaceTurns
<1>7. CASE TimesOut(a)
  <2> DEFINE out == ResultFor(ticket'[a].state, ticket[a].due)
  <2>1. thread[a].at = "expiring" /\ Expires(a) /\ Returns(a, out)
    BY <1>7 DEF TimesOut, At
  <2>2. ticket'[a].state = IF ticket[a].state \in Live THEN "expired" ELSE ticket[a].state
    BY <2>1 DEF Expires, Moves, Calm, AskTyped, TicketRecs
  <2>3. ticket[a].state \in TicketStates /\ ticket[a].state # "none"
    BY <1>1, <2>1 DEF Calm, AskTyped, TicketRecs
  <2>4. ticket'[a].state \in {"accepted", "expired"}
    BY <2>2, <2>3 DEF TicketStates, Live
  <2>5. /\ out \in Results /\ (out = "answer" => ticket'[a].state = "accepted")
        /\ (out = "unreached" => ticket'[a].due)
    BY <2>4 DEF ResultFor, Results, Live, Calm, Kept
  <2> HIDE DEF out
  <2> QED
    BY <1>1, <2>1, <2>5, ReturnTurns
<1>8. CASE WaitFails(a)
  <2>1. /\ thread[a].at \in {"listening", "deciding", "expiring"}
        /\ \/ Returns(a, "error")
           \/ thread[a].kind # "call" /\ Leaves(a)
    BY <1>8 DEF WaitFails
  <2> QED
    BY <1>1, <1>3, <2>1, ReturnTurns DEF Results
<1>9. ASSUME thread[a].at \in {"returned", "recording", "settling"}
      PROVE  /\ Alive(a) /\ thread[a].at \notin Composing /\ ~thread[a].heard
             /\ thread[a].heard \in BOOLEAN
  BY <1>9, ThreadFields DEF Alive, Composing, Calm, Waits, Registered
<1>10. /\ "recording" \notin Composing \cup Asked \cup {"none", "gone", "settling"}
       /\ "settling" \notin Composing \cup Asked \cup {"none", "gone", "recording", "returned"}
       /\ "recording" \in Places /\ "settling" \in Places
  BY DEF Composing, Asked, Places
<1>11. CASE Returned(a)
  <2>1. thread[a].at = "returned"
    BY <1>11 DEF Returned, At
  <2>2. /\ thread[a].out = "answer" => ticket'[a].state = "accepted"
        /\ thread[a].out = "unreached" => ticket'[a].due
    BY <1>9, <2>1 DEF Calm, Waits, Kept, Over
  <2>3. CASE thread[a].kind = "call"
    <3>1. To(a, "recording") /\ call' = [call EXCEPT ![a] = "settled"]
      BY <1>11, <2>3 DEF Returned
    <3>2. call'[a] # "in_flight"
      BY <3>1 DEF Calm, AskTyped
    <3>3. Landed(a, "recording", thread[a].kind, thread[a].heard, thread[a].out, thread[a].open)
      BY <1>10, <3>1, ToLands DEF Calm
    <3>4. Turns(a)
      BY <1>9, <1>10, <2>1, <2>2, <3>2, <3>3, OnwardTurns
    <3> QED
      BY <3>3, <3>4 DEF Asking, Landed
  <2>4. CASE thread[a].kind # "call"
    <3> DEFINE out == IF thread[a].out = "unreached" /\ Saved(a) # "none" THEN Saved(a) ELSE thread[a].out
               rec == [thread[a] EXCEPT !.at = "recording", !.out = out]
    <3>1. out \in Results /\ (out = "answer" => ticket'[a].state = "accepted")
                          /\ (out = "unreached" => ticket'[a].due)
      BY <1>9, <2>1, <2>2, SavedFacts, ThreadFields DEF Calm
    <3>2. Goes(a, rec)
      BY <1>11, <2>4 DEF Returned
    <3> HIDE DEF out
    <3>3. thread[a] \in ThreadRecs
      BY ThreadFields DEF Calm
    <3>4. /\ rec \in ThreadRecs /\ rec.at = "recording" /\ rec.kind = thread[a].kind
          /\ rec.heard = thread[a].heard /\ rec.out = out /\ rec.open = thread[a].open
      BY <1>10, <3>1, <3>3 DEF ThreadRecs
    <3> HIDE DEF rec
    <3>5. Landed(a, rec.at, rec.kind, rec.heard, rec.out, rec.open)
      BY <3>2, <3>4, GoesLands DEF Calm
    <3>6. Landed(a, "recording", thread[a].kind, thread[a].heard, out, thread[a].open)
      BY <3>4, <3>5
    <3>7. Turns(a)
      BY <1>9, <1>10, <2>1, <2>4, <3>1, <3>6, OnwardTurns
    <3> QED
      BY <3>6, <3>7 DEF Asking, Landed
  <2> QED
    BY <2>3, <2>4
<1>12. CASE Record(a)
  <2>1. thread[a].at = "recording" /\ (thread[a].kind = "call" => call[a] # "in_flight")
    BY <1>12 DEF Record, At, Calm, Waits
  <2>2. CASE Leaves(a)
    BY <1>9, <2>1, <2>2, LeavesLands, GoneTurns DEF Calm
  <2>3. CASE ~Leaves(a)
    <3>1. To(a, "settling") /\ thread[a].kind # "call"
      BY <1>12, <2>3 DEF Record
    <3>2. Landed(a, "settling", thread[a].kind, thread[a].heard, thread[a].out, thread[a].open)
      BY <1>10, <3>1, ToLands DEF Calm
    <3>3. Turns(a)
      BY <1>9, <1>10, <2>1, <3>1, <3>2, OnwardTurns
    <3> QED
      BY <3>2, <3>3 DEF Asking, Landed
  <2> QED
    BY <2>2, <2>3
<1>13. CASE SettleTicket(a) \/ SettleFails(a)
  <2>1. thread[a].at = "settling" /\ Leaves(a) /\ thread[a].kind # "call"
    BY <1>13 DEF SettleTicket, SettleFails, At, Calm, Waits
  <2> QED
    BY <1>9, <2>1, LeavesLands, GoneTurns DEF Calm
<1> QED
  BY <1>4, <1>5, <1>6, <1>7, <1>8, <1>11, <1>12, <1>13 DEF Wait

\* What a calm step leaves of the thread of attempt b.
ThreadCalm(b) ==
  /\ Waits(b)'
  /\ Alive(b)' /\ thread'[b].kind = "call" => Alive(b) /\ thread[b].kind = "call"
  /\ (thread'[b].at = thread[b].at /\ thread'[b].open = thread[b].open) \/ Asking(b)

ThreadsCalm == thread' \in [Asks -> ThreadRecs] /\ \A b \in Asks : ThreadCalm(b)

\* No thread moves.
LEMMA NoneMoves ==
  ASSUME UNCHANGED thread, AskTyped, \A b \in Asks : Calm(b)
  PROVE  ThreadsCalm
<1>1. thread' = thread /\ thread \in [Asks -> ThreadRecs]
  BY DEF AskTyped
<1>2. \A b \in Asks : Waits(b)'
  BY <1>1, StillWaits DEF Calm
<1> QED
  BY <1>1, <1>2 DEF ThreadsCalm, ThreadCalm, Alive

\* One thread moves.
LEMMA OneMoves ==
  ASSUME NEW a \in Asks, Turns(a), \A b \in Asks : Calm(b),
         (thread'[a].at = thread[a].at /\ thread'[a].open = thread[a].open) \/ Asking(a)
  PROVE  ThreadsCalm
<1>1. ASSUME NEW b \in Asks \ {a} PROVE ThreadCalm(b)
  <2>1. thread'[b] = thread[b]
    BY DEF Turns
  <2>2. Waits(b)'
    BY <2>1, StillWaits DEF Calm
  <2> QED
    BY <2>1, <2>2 DEF ThreadCalm, Alive
<1>2. ThreadCalm(a)
  BY DEF Turns, ThreadCalm
<1> QED
  BY <1>1, <1>2 DEF Turns, ThreadsCalm

\* The hub's event reaches a registered thread, or none.
LEMMA HeardTurns ==
  ASSUME NEW a \in Asks, NEW delivered \in BOOLEAN, Heard(a, delivered), ticket'[a].state \in Over,
         AskTyped, \A b \in Asks : Calm(b)
  PROVE  ThreadsCalm
<1>1. CASE delivered /\ Registered(a)
  <2>1. /\ Alive(a) /\ thread[a].at \in {"listening", "waiting", "deciding"}
        /\ thread[a].at \notin Composing \cup {"none", "gone", "recording", "settling", "returned"}
    BY <1>1 DEF Registered, Alive, Composing
  <2>2. ticket'[a].state # "none"
    BY DEF Over
  <2>3. Landed(a, thread[a].at, thread[a].kind, thread[a].heard \/ (delivered /\ Registered(a)),
               thread[a].out, thread[a].open)
    BY HeardLands
  <2>4. Turns(a)
    BY <2>1, <2>2, <2>3, OnwardTurns
  <2> QED
    BY <2>3, <2>4, OneMoves DEF Landed
<1>2. CASE ~(delivered /\ Registered(a))
  <2>1. /\ thread' = [thread EXCEPT ![a].heard = thread[a].heard \/ (delivered /\ Registered(a))]
        /\ thread \in [Asks -> ThreadRecs] /\ thread[a] \in ThreadRecs
    BY ThreadFields DEF Heard, AskTyped
  <2>2. (thread[a].heard \/ (delivered /\ Registered(a))) = thread[a].heard
    BY <1>2, ThreadFields DEF Registered
  <2>3. thread' = [thread EXCEPT ![a].heard = thread[a].heard]
    BY <2>1, <2>2
  <2>4. [thread[a] EXCEPT !.heard = thread[a].heard] = thread[a]
    BY <2>1 DEF ThreadRecs
  <2>5. UNCHANGED thread
    BY <2>1, <2>3, <2>4
  <2> QED
    BY <2>5, NoneMoves
<1> QED
  BY <1>1, <1>2

\* What a restart does with a question it finds out: the row as it was read decides, or a session
\* waits on.
LEMMA RearmTurns ==
  ASSUME NEW a \in Asks, Rearm(a), AskTyped, \A b \in Asks : Calm(b)
  PROVE  ThreadsCalm
<1> DEFINE out == ResultFor(boot.rows[a], ticket[a].due)
<1>0. Calm(a) /\ UNCHANGED <<node, ticket, call>>
  BY DEF Rearm
<1>1. CASE ~Dispatched(a)
  BY <1>1, NoneMoves DEF Rearm
<1>2. ASSUME Dispatched(a), NEW rec \in ThreadRecs, Goes(a, rec), rec.kind # "call", ~rec.heard,
             rec.at \in {"recording", "listening"},
             rec.at = "recording" => /\ rec.out = "answer" => ticket[a].state = "accepted"
                                     /\ rec.out = "unreached" => ticket[a].due
      PROVE  ThreadsCalm
  <2>1. Landed(a, rec.at, rec.kind, rec.heard, rec.out, rec.open)
    BY <1>2, GoesLands
  <2>2. thread'[a].kind # "call" /\ ~thread'[a].heard /\ thread'[a].at = rec.at /\ thread'[a].out = rec.out
    BY <1>2, <2>1 DEF Landed
  <2>3. call'[a] # "in_flight"
    BY <1>0 DEF Calm, Waits, Rearm
  <2>4. ~(a[2] > node'[a[1]].epoch)
    <3>1. a[2] = node[a[1]].epoch /\ a[2] \in Nat
      BY <1>2, AskParts DEF Dispatched
    <3> QED
      BY <1>0, <3>1
  <2>5. a \notin boot'.left
    BY DEF Rearm, AskTyped, BootRecs
  <2>6. rec.at \notin Composing \cup {"settling", "returned"}
    BY <1>2 DEF Composing
  <2>7. ticket'[a].state # "none" /\ (ticket'[a].state = "expired" => ticket'[a].due)
    BY <1>0 DEF Calm, Waits, Rearm
  <2>8. Waits(a)'
    BY <1>0, <1>2, <2>2, <2>3, <2>4, <2>5, <2>6, <2>7 DEF Waits
  <2>9. Turns(a)
    BY <2>1, <2>2, <2>8 DEF Turns, Landed
  <2>10. Asking(a)
    BY <2>2, <2>6, <1>2 DEF Asking
  <2> QED
    BY <2>9, <2>10, OneMoves
<1>3. CASE Dispatched(a) /\ out # "none"
  <2> DEFINE rec == [NoThread EXCEPT !.at = "recording", !.kind = "boot", !.out = out]
  <2>1. Goes(a, rec)
    BY <1>3 DEF Rearm
  <2>2. out \in Results
    BY SavedResult
  <2>3. /\ boot.rows[a] # "none" /\ boot.rows[a] \in TicketStates
        /\ boot.rows[a] \in Over => ticket[a].state = boot.rows[a]
        /\ ticket[a].state = "expired" => ticket[a].due
    BY <1>0 DEF Calm, Waits, Rearm, AskTyped, BootRecs
  <2>4. /\ out = "answer" => ticket[a].state = "accepted"
        /\ out = "unreached" => ticket[a].due
    BY <2>3 DEF ResultFor, TicketStates, Live, Over
  <2> HIDE DEF out
  <2>5. /\ rec \in ThreadRecs /\ rec.at = "recording" /\ rec.kind = "boot" /\ rec.heard = FALSE
        /\ rec.out = out
    BY <2>2 DEF ThreadRecs, NoThread, Places, Kinds
  <2> HIDE DEF rec
  <2> QED
    BY <1>2, <1>3, <2>1, <2>4, <2>5
<1>4. CASE Dispatched(a) /\ out = "none"
  <2> DEFINE rec == [NoThread EXCEPT !.at = "listening", !.kind = "resumed"]
  <2>1. Goes(a, rec)
    BY <1>4 DEF Rearm
  <2>2. rec \in ThreadRecs /\ rec.at = "listening" /\ rec.kind = "resumed" /\ rec.heard = FALSE
    BY DEF ThreadRecs, NoThread, Places, Kinds, Results
  <2> HIDE DEF rec
  <2> QED
    BY <1>2, <1>4, <2>1, <2>2
<1> QED
  BY <1>1, <1>3, <1>4

\* Every calm step.
LEMMA CalmTurns ==
  ASSUME AskTyped, AllWait, Superseded, CalmStep, [Next]_vars
  PROVE  ThreadsCalm
<1>1. \A b \in Asks : Calm(b) /\ Kept(b)
  BY CalmKeeps DEF OthersCalm, Calm, AllWait
<1>2. ASSUME NEW a \in Asks, Tool(a) \/ Wait(a) PROVE ThreadsCalm
  <2>1. Turns(a) /\ Asking(a)
    BY <1>1, <1>2, ToolTurns, WaitTurns
  <2> QED
    BY <1>1, <2>1, OneMoves
<1>3. ASSUME UNCHANGED thread PROVE ThreadsCalm
  BY <1>1, <1>3, NoneMoves
<1>4. ASSUME NEW a \in Asks, NEW delivered \in BOOLEAN, AnswerCommits(a, delivered) PROVE ThreadsCalm
  <2>1. CASE UNCHANGED thread
    BY <1>3, <2>1
  <2>2. CASE ~UNCHANGED thread
    <3>1. Moves(a, "accepted") /\ Heard(a, delivered)
      BY <1>4, <2>2 DEF AnswerCommits
    <3>2. ticket'[a].state \in Over
      BY <3>1 DEF Moves, Over, AskTyped, TicketRecs
    <3> QED
      BY <1>1, <3>1, <3>2, HeardTurns
  <2> QED
    BY <2>1, <2>2
<1>5. ASSUME NEW a \in Asks, NEW delivered \in BOOLEAN, Close(a, delivered) PROVE ThreadsCalm
  <2>1. Moves(a, "expired") /\ Heard(a, delivered)
    BY <1>5 DEF Close
  <2>2. ticket'[a].state \in Over
    BY <2>1 DEF Moves, Over, AskTyped, TicketRecs
  <2> QED
    BY <1>1, <2>1, <2>2, HeardTurns
<1>6. ASSUME NEW a \in Asks, AnswerBegins(a) \/ WindowEnds(a) \/ Maintain(a) \/ OperatorResolves(a)
      PROVE  ThreadsCalm
  BY <1>3, <1>6 DEF AnswerBegins, WindowEnds, Maintain, OperatorResolves
<1>7. ASSUME NEW t \in Tasks, Judge(t) \/ GivesUp(t) \/ Sweep(t) PROVE ThreadsCalm
  BY <1>3, <1>7 DEF Judge, GivesUp, Sweep
<1>8. ASSUME Booted \/ UNCHANGED vars PROVE ThreadsCalm
  BY <1>3, <1>8 DEF Booted, vars
<1>9. ASSUME NEW a \in Asks, Rearm(a) PROVE ThreadsCalm
  BY <1>1, <1>9, RearmTurns
<1> QED
  BY <1>2, <1>4, <1>5, <1>6, <1>7, <1>8, <1>9 DEF CalmStep, User

-----------------------------------------------------------------------------
(* The results of the attempts.                                              *)

\* An attempt's result is recorded by the sweep, as an error, or by the thread of that attempt.
ResultKept(t) ==
  /\ node'[t].epoch = node[t].epoch
  /\ \/ node'[t].result = node[t].result
     \/ node'[t].result = "error"
     \/ \E a \in Asks : /\ a = <<t, node[t].epoch>> /\ thread[a].at = "recording"
                        /\ node'[t].result = thread[a].out

\* Every calm step keeps the results in this sense.
LEMMA ResultsCalm ==
  ASSUME AskTyped, CalmStep
  PROVE  \A t \in Tasks : ResultKept(t)
<1>1. node \in [Tasks -> NodeRecs]
  BY DEF AskTyped
<1> DEFINE G == \A t \in Tasks : ResultKept(t)
<1>2. ASSUME UNCHANGED node PROVE G
  BY <1>2 DEF ResultKept
<1>3. ASSUME NEW t \in Tasks, Judge(t) \/ GivesUp(t) PROVE G
  <2>1. PICK next \in {"ready", "gone"} : node' = [node EXCEPT ![t].status = next]
    BY <1>3 DEF Judge, GivesUp
  <2> QED
    BY <1>1, <2>1 DEF NodeRecs, ResultKept
<1>4. ASSUME NEW a \in Asks, Bind(a) PROVE G
  <2>1. node' = [node EXCEPT ![a[1]].bound = a[2]]
    BY <1>4 DEF Bind
  <2> QED
    BY <1>1, <2>1 DEF NodeRecs, ResultKept
<1>5. ASSUME NEW t \in Tasks, NEW out, Recorded(t, out)
      PROVE  /\ node'[t].epoch = node[t].epoch /\ node'[t].result = out
             /\ \A u \in Tasks \ {t} : ResultKept(u)
  <2>1. node' = [node EXCEPT ![t].status = IF out = "error" THEN "failed" ELSE "done", ![t].result = out]
    BY <1>5 DEF Recorded
  <2>2. \A u \in Tasks \ {t} : node'[u] = node[u]
    BY <1>1, <2>1
  <2> QED
    BY <1>1, <2>1, <2>2 DEF NodeRecs, ResultKept
<1>6. ASSUME NEW t \in Tasks, Sweep(t) PROVE G
  <2>1. Recorded(t, "error")
    BY <1>6 DEF Sweep
  <2> QED
    BY <1>5, <2>1 DEF ResultKept
<1>7. ASSUME NEW a \in Asks, Record(a) PROVE G
  <2>1. CASE UNCHANGED node
    BY <1>2, <2>1
  <2>2. CASE ~UNCHANGED node
    <3>1. Recorded(a[1], thread[a].out) /\ thread[a].at = "recording" /\ Dispatched(a)
      BY <1>7, <2>2 DEF Record, At
    <3>2. a[1] \in Tasks /\ a = <<a[1], node[a[1]].epoch>>
      BY <3>1, AskParts DEF Dispatched
    <3>3. /\ node'[a[1]].epoch = node[a[1]].epoch /\ node'[a[1]].result = thread[a].out
          /\ \A u \in Tasks \ {a[1]} : ResultKept(u)
      BY <1>5, <3>1, <3>2
    <3>4. ResultKept(a[1])
      BY <3>1, <3>2, <3>3 DEF ResultKept
    <3> QED
      BY <3>3, <3>4
  <2> QED
    BY <2>1, <2>2
<1> HIDE DEF G
<1>8. ASSUME NEW a \in Asks, Tool(a) PROVE G
  BY <1>2, <1>4, <1>8 DEF Tool, SupersedeReads, SupersedeExpires, Create, Propose, SaveLinks, Surface,
     ToolFails
<1>9. ASSUME NEW a \in Asks, Wait(a) PROVE G
  BY <1>2, <1>7, <1>9 DEF Wait, Listens, WaitEnds, Decides, TimesOut, WaitFails, Returned, SettleTicket,
     SettleFails
<1>10. ASSUME NEW a \in Asks, User(a) \/ WindowEnds(a) \/ Maintain(a) \/ OperatorResolves(a) \/ Rearm(a)
       PROVE  G
  BY <1>2, <1>10 DEF User, AnswerBegins, AnswerCommits, Close, WindowEnds, Maintain, OperatorResolves, Rearm
<1>11. ASSUME Booted \/ UNCHANGED vars PROVE G
  BY <1>2, <1>11 DEF Booted, vars
<1>12. G
  BY <1>3, <1>6, <1>8, <1>9, <1>10, <1>11 DEF CalmStep
<1> QED
  BY <1>12 DEF G

\* The attempt a task is at is one of its asks.
LEMMA CurrentAsk ==
  ASSUME AskTyped, NEW t \in Tasks, node[t].epoch > 0
  PROVE  <<t, node[t].epoch>> \in Asks
BY AskBounds DEF AskTyped, NodeRecs, Asks

\* What was recorded stays what became of the ticket.
LEMMA CalmDecides ==
  ASSUME AskTyped, AllWait, Decided, CalmStep, [Next]_vars
  PROVE  Decided'
<1> SUFFICES ASSUME NEW t \in Tasks, node'[t].epoch > 0
             PROVE  /\ node'[t].result = "answer" => ticket'[<<t, node'[t].epoch>>].state = "accepted"
                    /\ node'[t].result = "unreached" => ticket'[<<t, node'[t].epoch>>].due
  BY DEF Decided
<1> DEFINE a == <<t, node[t].epoch>>
<1>1. ResultKept(t)
  BY ResultsCalm
<1>2. node'[t].epoch = node[t].epoch /\ node[t].epoch > 0
  BY <1>1 DEF ResultKept
<1>3. a \in Asks /\ a[1] = t /\ a[2] = node[t].epoch
  BY <1>2, CurrentAsk
<1> HIDE DEF a
<1>4. Waits(a) /\ Kept(a)
  BY <1>3, TicketSteps DEF AllWait
<1>5. CASE node'[t].result = node[t].result
  <2>1. node[t].result # "none" => thread[a].at \notin Composing
    BY <1>3, <1>4 DEF Waits
  <2>2. /\ node[t].result = "answer" => ticket[a].state = "accepted"
        /\ node[t].result = "unreached" => ticket[a].due
    BY <1>2 DEF Decided, a
  <2>3. /\ node[t].result = "answer" => ticket'[a].state = "accepted"
        /\ node[t].result = "unreached" => ticket'[a].due
    BY <1>4, <2>1, <2>2 DEF Kept, Over
  <2> QED
    BY <1>2, <1>5, <2>3 DEF a
<1>6. CASE node'[t].result = "error"
  BY <1>6
<1>7. CASE thread[a].at = "recording" /\ node'[t].result = thread[a].out
  <2>1. thread[a].at \notin Composing
    BY <1>7 DEF Composing
  <2>2. /\ thread[a].out = "answer" => ticket'[a].state = "accepted"
        /\ thread[a].out = "unreached" => ticket'[a].due
    BY <1>4, <1>7, <2>1 DEF Waits, Kept, Over
  <2> QED
    BY <1>2, <1>7, <2>2 DEF a
<1> QED
  BY <1>1, <1>5, <1>6, <1>7 DEF ResultKept, a

-----------------------------------------------------------------------------
(* Every step keeps the invariant.                                           *)

\* The calm steps: a question opens only where every other has been closed.
LEMMA CalmInv ==
  ASSUME AskInv, CalmStep, [Next]_vars
  PROVE  AskInv'
<1>1. AskTyped /\ AllWait /\ OneCaller /\ Superseded /\ OneQuestionOut /\ Decided
  BY DEF AskInv
<1>2. OthersCalm /\ ticket' \in [Asks -> TicketRecs] /\ \A b \in Asks : Kept(b)
  BY <1>1, CalmKeeps
<1>3. thread' \in [Asks -> ThreadRecs] /\ \A b \in Asks : ThreadCalm(b)
  BY <1>1, CalmTurns DEF ThreadsCalm
<1>4. AskTyped'
  BY <1>2, <1>3 DEF OthersCalm, AskTyped
<1>5. AllWait'
  BY <1>3 DEF AllWait, ThreadCalm
<1>6. OneCaller'
  BY <1>1, <1>3 DEF OneCaller, ThreadCalm
<1>7. \A b \in Asks : thread[b].at \in Composing => Alive(b) /\ thread[b].kind = "call"
  BY <1>1 DEF AllWait, Waits, Alive, Composing
<1>8. Superseded'
  <2> SUFFICES ASSUME NEW a \in Asks, NEW b \in Asks, a # b, Open(b)'
               PROVE  /\ thread'[a].at = "superseding" => b \in thread'[a].open
                      /\ thread'[a].at \notin {"binding", "proposing"}
    BY DEF Superseded
  <2>1. CASE Asking(a)
    BY <2>1 DEF Asking
  <2>2. CASE thread'[a].at = thread[a].at /\ thread'[a].open = thread[a].open
    <3>1. CASE Open(b)
      BY <1>1, <2>2, <3>1 DEF Superseded
    <3>2. CASE ~Open(b)
      <4>1. thread[b].at \in Composing
        BY <1>2, <3>2 DEF Kept, Composing
      <4>2. thread[a].at \notin Composing
        BY <1>1, <1>7, <4>1 DEF OneCaller
      <4> QED
        BY <2>2, <4>2 DEF Composing
    <3> QED
      BY <3>1, <3>2
  <2> QED
    BY <1>3, <2>1, <2>2 DEF ThreadCalm
<1>9. OneQuestionOut'
  <2> SUFFICES ASSUME NEW a \in Asks, NEW b \in Asks,
                      ticket'[a] = [state |-> "proposed", due |-> FALSE], ticket'[b] = ticket'[a], a # b
               PROVE  FALSE
    BY DEF OneQuestionOut
  <2>1. \A c \in {a, b} : Open(c)' /\ ticket'[c].state = "proposed"
    BY DEF Open, Live
  <2>2. \A c \in {a, b} : thread[c].at = "proposing" \/ (Open(c) /\ ticket[c].state = "proposed")
    BY <1>2, <2>1 DEF Kept
  <2>3. CASE thread[a].at = "proposing"
    <3>1. ~Open(b)
      BY <1>1, <2>3 DEF Superseded
    <3>2. thread[b].at = "proposing"
      BY <2>2, <3>1
    <3> QED
      BY <1>1, <1>7, <2>3, <3>2 DEF OneCaller, Composing
  <2>4. CASE thread[b].at = "proposing"
    <3>1. ~Open(a)
      BY <1>1, <2>4 DEF Superseded
    <3>2. thread[a].at = "proposing"
      BY <2>2, <3>1
    <3> QED
      BY <1>1, <1>7, <2>4, <3>2 DEF OneCaller, Composing
  <2>5. CASE \A c \in {a, b} : Open(c) /\ ticket[c].state = "proposed"
    <3>1. \A c \in {a, b} : ticket[c] = [state |-> "proposed", due |-> FALSE]
      BY <1>1, <2>5 DEF Open, AskTyped, TicketRecs
    <3> QED
      BY <1>1, <3>1 DEF OneQuestionOut
  <2> QED
    BY <2>2, <2>3, <2>4, <2>5
<1>10. Decided'
  BY <1>1, CalmDecides
<1> QED
  BY <1>4, <1>5, <1>6, <1>8, <1>9, <1>10 DEF AskInv

\* The claim of an attempt: it finds no thread of another call.
LEMMA DispatchInv ==
  ASSUME AskInv, NEW t \in Tasks, Dispatch(t)
  PROVE  AskInv'
<1> DEFINE n == [node[t] EXCEPT !.status = "dispatched", !.epoch = node[t].epoch + 1, !.result = "none"]
<1>1. AskTyped /\ AllWait /\ Superseded /\ OneQuestionOut /\ Decided
  BY DEF AskInv
<1>2. /\ node \in [Tasks -> NodeRecs] /\ node[t] \in NodeRecs /\ node[t].epoch \in 0 .. MaxEpoch
      /\ node[t].epoch < MaxEpoch
  BY <1>1 DEF AskTyped, NodeRecs, Dispatch
<1>0. <<t, node[t].epoch + 1>> \in Asks
  BY <1>2, AskBounds DEF Asks
<1> PICK a \in Asks : a = <<t, node[t].epoch + 1>>
  BY <1>0
<1> DEFINE rec == [thread[a] EXCEPT !.at = "reading"]
<1>3. /\ a \in Asks /\ a[1] = t /\ a[2] = node[t].epoch + 1
      /\ \A b \in Asks : b[1] \in Tasks /\ b[2] \in Nat /\ (b[1] = t /\ b[2] = node[t].epoch + 1 => b = a)
  BY <1>2, AskBounds DEF Asks
<1>4. /\ UNCHANGED <<ticket, stamped, boot, crashes>> /\ boot.at = "up"
      /\ node' = [node EXCEPT ![t] = n] /\ call' = [call EXCEPT ![a] = "in_flight"]
      /\ \A b \in Asks : Alive(b) => thread[b].kind # "call"
  BY DEF Dispatch
<1>5. n \in NodeRecs /\ n.epoch = node[t].epoch + 1 /\ n.result = "none"
  <2>1. /\ node[t] \in NodeRecs /\ node[t].epoch + 1 \in 0 .. MaxEpoch
        /\ "none" \in Results /\ "dispatched" \in {"ready", "dispatched", "done", "failed", "gone"}
    BY <1>2, AskBounds DEF Results
  <2> QED
    BY <2>1 DEF NodeRecs
<1>6. Goes(a, rec)
  BY DEF Dispatch, To
<1> HIDE DEF n
<1>7. /\ node' \in [Tasks -> NodeRecs] /\ node'[t] = n /\ \A u \in Tasks \ {t} : node'[u] = node[u]
  BY <1>2, <1>4, <1>5
<1>8. /\ call' \in [Asks -> CallStates] /\ call'[a] = "in_flight"
      /\ \A b \in Asks \ {a} : call'[b] = call[b]
  BY <1>1, <1>3, <1>4 DEF AskTyped, CallStates
<1>9. thread[a] = NoThread /\ ticket[a].state = "none"
  <2>1. a[2] > node[a[1]].epoch
    BY <1>2, <1>3
  <2> QED
    BY <1>1, <1>3, <2>1 DEF AllWait, Waits
<1>10. /\ rec \in ThreadRecs /\ rec.at = "reading" /\ rec.kind = "call" /\ rec.heard = FALSE
  <2>1. /\ thread[a] \in ThreadRecs /\ "reading" \in Places
        /\ thread[a].kind = "call" /\ thread[a].heard = FALSE
    BY <1>1, <1>9, ThreadFields DEF NoThread, Places, Composing
  <2> QED
    BY <2>1 DEF ThreadRecs
<1> HIDE DEF rec
<1>11. /\ thread' \in [Asks -> ThreadRecs] /\ \A b \in Asks \ {a} : thread'[b] = thread[b]
       /\ thread'[a].at = "reading" /\ thread'[a].kind = "call" /\ thread'[a].heard = FALSE
  <2>1. Landed(a, rec.at, rec.kind, rec.heard, rec.out, rec.open)
    BY <1>1, <1>3, <1>6, <1>10, GoesLands
  <2> QED
    BY <1>10, <2>1 DEF Landed
<1>12. AskTyped'
  BY <1>1, <1>4, <1>7, <1>8, <1>11 DEF AskTyped
<1>13. Waits(a)'
  <2>1. ~(a[2] > node'[a[1]].epoch) /\ (a[2] = node'[a[1]].epoch => node'[a[1]].result = "none")
    BY <1>2, <1>3, <1>5, <1>7
  <2>2. "reading" \notin Asked \cup {"none", "gone"}
    BY DEF Asked
  <2>3. ticket'[a].state = "none" /\ boot'.at = "up"
    BY <1>4, <1>9
  <2> QED
    BY <1>11, <2>1, <2>2, <2>3 DEF Waits, Alive
<1>14. ASSUME NEW b \in Asks \ {a} PROVE Waits(b)'
  <2>1. Waits(b) /\ Kept(b)
    BY <1>1, <1>4, SameIsKept DEF AllWait
  <2>2. thread[b].at \notin Composing
    BY <1>4, <2>1 DEF Waits, Alive, Composing
  <2>3. b[2] > node'[b[1]].epoch => b[2] > node[b[1]].epoch
    BY <1>2, <1>3, <1>5, <1>7
  <2>4. NodeKept(b)
    BY <2>2, <2>3 DEF NodeKept
  <2>5. CallKept(b) /\ BootKept(b)
    BY <1>4, <1>8 DEF CallKept, BootKept
  <2> QED
    BY <1>1, <1>11, <2>1, <2>4, <2>5, StillWaits
<1>15. AllWait'
  BY <1>13, <1>14 DEF AllWait
<1>16. \A b \in Asks : Alive(b)' /\ thread'[b].kind = "call" => b = a
  BY <1>4, <1>11 DEF Alive
<1>17. OneCaller'
  BY <1>16 DEF OneCaller
<1>18. Superseded'
  BY <1>1, <1>4, <1>11 DEF Superseded, Open
<1>19. OneQuestionOut'
  BY <1>1, <1>4 DEF OneQuestionOut
<1>20. Decided'
  <2>1. ASSUME NEW u \in Tasks \ {t} PROVE node'[u] = node[u]
    BY <1>7
  <2> QED
    BY <1>1, <1>4, <1>5, <1>7, <2>1 DEF Decided
<1> QED
  BY <1>12, <1>15, <1>17, <1>18, <1>19, <1>20 DEF AskInv

\* The process stops: every thread is gone, and its call in doubt.
LEMMA CrashInv ==
  ASSUME AskInv, Crash
  PROVE  AskInv'
<1>1. AskTyped /\ AllWait /\ OneQuestionOut /\ Decided
  BY DEF AskInv
<1>2. /\ UNCHANGED <<node, ticket>> /\ boot'.at = "down" /\ boot' \in BootRecs /\ stamped' = {}
  BY <1>1 DEF Crash, AskTyped, BootRecs
<1>3. /\ call' \in [Asks -> CallStates]
      /\ \A b \in Asks : call'[b] # "in_flight" /\ (call[b] = "none" => call'[b] = "none")
  BY <1>1 DEF Crash, CallsInDoubt, AskTyped, CallStates
<1>4. NoThread \in ThreadRecs /\ [NoThread EXCEPT !.at = "gone"] \in ThreadRecs
  BY DEF ThreadRecs, NoThread, Places, Kinds, Results
<1>5. /\ thread' \in [Asks -> ThreadRecs]
      /\ \A b \in Asks : thread'[b] = IF At(b, "none") THEN NoThread ELSE [NoThread EXCEPT !.at = "gone"]
  BY <1>4 DEF Crash
<1>6. \A b \in Asks : thread'[b].at \in {"none", "gone"} /\ thread'[b].heard = FALSE
  BY <1>5 DEF NoThread
<1>7. AskTyped'
  BY <1>1, <1>2, <1>3, <1>5 DEF AskTyped
<1>8. ASSUME NEW b \in Asks PROVE Waits(b)'
  <2>1. Waits(b)
    BY <1>1 DEF AllWait
  <2>2. thread'[b].at \notin Composing \cup Asked \cup {"returned", "recording", "settling"}
    BY <1>6 DEF Composing, Asked
  <2>3. b[2] > node'[b[1]].epoch => thread'[b] = NoThread /\ ticket'[b].state = "none" /\ call'[b] = "none"
    BY <1>2, <1>3, <1>5, <2>1 DEF Waits, NoThread, At
  <2>4. ticket'[b].state = "expired" => ticket'[b].due
    BY <1>2, <2>1 DEF Waits
  <2> QED
    BY <1>2, <1>3, <1>6, <2>2, <2>3, <2>4 DEF Waits, Alive
<1>9. OneCaller' /\ Superseded'
  BY <1>6 DEF OneCaller, Superseded, Alive
<1>10. OneQuestionOut' /\ Decided'
  BY <1>1, <1>2 DEF OneQuestionOut, Decided
<1> QED
  BY <1>7, <1>8, <1>9, <1>10 DEF AskInv, AllWait

\* The restart reads the tickets.
LEMMA RearmReadsInv ==
  ASSUME AskInv, RearmReads
  PROVE  AskInv'
<1>1. AskTyped /\ AllWait /\ OneCaller /\ Superseded /\ OneQuestionOut /\ Decided
  BY DEF AskInv
<1>2. /\ UNCHANGED <<node, ticket, call, thread, stamped>> /\ boot.at = "down"
      /\ boot' = [at |-> "arming", rows |-> [a \in Asks |-> ticket[a].state],
                  left |-> {a \in Asks : ticket[a].state # "none"}]
  BY DEF RearmReads
<1>3. [a \in Asks |-> ticket[a].state] \in [Asks -> TicketStates]
  BY <1>1 DEF AskTyped, TicketRecs
<1>4. boot' \in BootRecs
  BY <1>2, <1>3 DEF BootRecs
<1>5. AskTyped'
  BY <1>1, <1>2, <1>4 DEF AskTyped
<1>6. ASSUME NEW b \in Asks PROVE Waits(b)'
  <2>1. Waits(b)
    BY <1>1 DEF AllWait
  <2>2. b \in boot'.left => ticket'[b].state # "none" /\ boot'.rows[b] = ticket'[b].state
    BY <1>2
  <2>3. boot.at # "up"
    BY <1>2
  <2> QED
    BY <1>2, <2>1, <2>2, <2>3 DEF Waits, Alive, Registered
<1>7. OneCaller' /\ Superseded' /\ OneQuestionOut' /\ Decided'
  BY <1>1, <1>2 DEF OneCaller, Superseded, OneQuestionOut, Decided, Alive, Open
<1> QED
  BY <1>5, <1>6, <1>7 DEF AskInv, AllWait

\* The invariant holds when nothing has been asked.
LEMMA AskInvInit == Init => AskInv
<1> SUFFICES ASSUME Init PROVE AskInv
  OBVIOUS
<1>1. /\ \A t \in Tasks : node[t] = [status |-> "ready", epoch |-> 0, bound |-> 0, result |-> "none"]
      /\ \A a \in Asks : /\ ticket[a] = [state |-> "none", due |-> FALSE] /\ call[a] = "none"
                         /\ thread[a] = NoThread /\ a[1] \in Tasks
      /\ boot.at = "up"
  BY AskParts DEF Init
<1>2. AskTyped
  <2>1. [status |-> "ready", epoch |-> 0, bound |-> 0, result |-> "none"] \in NodeRecs
    BY AskBounds DEF NodeRecs, Results
  <2>2. [state |-> "none", due |-> FALSE] \in TicketRecs /\ "none" \in TicketStates /\ "none" \in CallStates
    BY DEF TicketRecs, TicketStates, CallStates
  <2>3. NoThread \in ThreadRecs
    BY DEF ThreadRecs, NoThread, Places, Kinds, Results
  <2>4. [at |-> "up", rows |-> [a \in Asks |-> "none"], left |-> {}] \in BootRecs
    BY <2>2 DEF BootRecs
  <2> QED
    BY <2>1, <2>2, <2>3, <2>4 DEF Init, AskTyped
<1>3. \A a \in Asks : Waits(a)
  <2>1. "none" \notin Composing \cup Asked
    BY DEF Composing, Asked
  <2> QED
    BY <1>1, <2>1 DEF Waits, NoThread, Alive
<1>4. OneCaller /\ Superseded /\ OneQuestionOut /\ Decided
  <2>1. \A a \in Asks : thread[a].at = "none" /\ ticket[a].state = "none"
    BY <1>1 DEF NoThread
  <2>2. OneCaller /\ Superseded /\ OneQuestionOut
    BY <2>1 DEF OneCaller, Superseded, OneQuestionOut, Alive, Open, Live
  <2>3. Decided
    BY <1>1 DEF Decided
  <2> QED
    BY <2>2, <2>3
<1> QED
  BY <1>2, <1>3, <1>4 DEF AskInv, AllWait

\* Every step keeps it.
LEMMA AskInvNext == AskInv /\ [Next]_vars => AskInv'
<1> SUFFICES ASSUME AskInv, [Next]_vars PROVE AskInv'
  OBVIOUS
<1>1. \/ CalmStep
      \/ \E t \in Tasks : Dispatch(t)
      \/ Crash \/ RearmReads
  BY DEF Next, Boot, CalmStep
<1> QED
  BY <1>1, CalmInv, DispatchInv, CrashInv, RearmReadsInv

\* The invariant always holds.
LEMMA AskInvHolds == Spec => []AskInv
BY AskInvInit, AskInvNext, PTL DEF Spec

-----------------------------------------------------------------------------
(* The theorems.                                                             *)

\* Ranges of the tables, and no call's receipt is in flight without the thread that will settle it:
\* the finally of the dispatch, and the reconciliation of what a dead process left.
THEOREM TicketsTypeCorrect == Spec => []ATypeOK
<1>1. AskInv => ATypeOK
  BY DEF AskInv, AskTyped, AllWait, Waits, ATypeOK, NodeRecs, TicketRecs, ThreadRecs, BootRecs
<1> QED
  BY <1>1, AskInvHolds, PTL

\* "ONE LIVE QUESTION PER WORK OBJECT" of create_dayflow_ticket.py, at any number of tasks, attempts
\* and restarts: the list read before the question is written misses nothing that is still open
\* then, for the claim lets no second call ask meanwhile.
THEOREM OneQuestionAtATime == Spec => []OneQuestionOut
<1>1. AskInv => OneQuestionOut
  BY DEF AskInv
<1> QED
  BY <1>1, AskInvHolds, PTL

\* The recorded result of an attempt is what became of its own ticket, whatever raced with the
\* answer: the timeout of _wait_for_ticket_response, the X button, maintenance, a newer question, a
\* restart with its re_arm_inflight_asks.
THEOREM AnswersDecide == Spec => []AnswerDecides
<1>1. AskInv => AnswerDecides
  BY DEF AskInv, Decided, AnswerDecides
<1> QED
  BY <1>1, AskInvHolds, PTL
=============================================================================
