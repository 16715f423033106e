---------------------------- MODULE OutcomeProofs ----------------------------
(***************************************************************************)
(* Theorems about OutcomeDelivery for every set of work objects, concerns,     *)
(* beliefs and rooms, and any number of changes and crashes: what a committed   *)
(* receipt does before it is forgotten, in which order reports are read, and     *)
(* that the brain is woken for them.                                          *)
(***************************************************************************)
EXTENDS OutcomeDelivery, FiniteSetTheorems, SequenceTheorems, TLAPS

-----------------------------------------------------------------------------
(* The first receipt of a list.                                              *)

\* A set of naturals that is not empty has a least member.
LEMMA LeastNatural ==
  ASSUME NEW S \in SUBSET Nat, S # {}
  PROVE  \E m \in S : \A n \in S : m <= n
<1> DEFINE T == {0 .. n : n \in S}
           R == StrictSubsetOrdering(Nat)
<1>1. T \subseteq FiniteSubsetsOf(Nat)
  <2> SUFFICES ASSUME NEW n \in S PROVE 0 .. n \in SUBSET Nat /\ IsFiniteSet(0 .. n)
    BY DEF FiniteSubsetsOf
  <2> QED
    BY FS_Interval
<1>2. IsWellFoundedOn(R, FiniteSubsetsOf(Nat)) /\ T # {}
  BY FS_StrictSubsetOrderingWellFounded
<1> HIDE DEF T, R
<1>3. PICK x \in T : \A y \in T : ~(<<y, x>> \in R)
  BY <1>1, <1>2, WFMin
<1> USE DEF T, R
<1>4. PICK m \in S : x = 0 .. m
  BY <1>3
<1>5. ASSUME NEW n \in S, n < m PROVE FALSE
  <2>1. 0 .. n \subseteq 0 .. m /\ m \in 0 .. m /\ m \notin 0 .. n /\ 0 .. m \subseteq Nat
    BY <1>5
  <2>2. <<0 .. n, 0 .. m>> \in R
    BY <2>1 DEF StrictSubsetOrdering
  <2> QED
    BY <1>3, <1>4, <2>2
<1> QED
  BY <1>5

Kinds == {"attached", "judged"} \cup Endings

\* Rows of the two tables.
Rows  == [work : Works, kind : Kinds, at : Nat, txn : Nat, pos : {0, 1}, refs : SUBSET Concerns]
BRows == [work : Works, kind : Endings, at : Nat, txn : Nat, pos : {0}, refs : {Beliefs}]

\* No two rows of S have both their time and their place in common.
Keyed(S) == \A r, q \in S : r.at = q.at /\ r.pos = q.pos => r = q

\* The first of a list is one of it, and comes before the others.
LEMMA FirstIsLeast ==
  ASSUME NEW S, S \subseteq Rows \/ S \subseteq BRows, Keyed(S), S # {}
  PROVE  First(S) \in S /\ \A q \in S \ {First(S)} : Before(First(S), q)
<1> DEFINE Key(r) == 2 * r.at + r.pos
           keys == {Key(r) : r \in S}
<1>1. \A r \in S : r.at \in Nat /\ r.pos \in {0, 1}
  BY DEF Rows, BRows
<1>2. keys \in SUBSET Nat /\ keys # {}
  BY <1>1
<1>3. PICK m \in keys : \A n \in keys : m <= n
  BY <1>2, LeastNatural
<1>4. PICK r \in S : m = Key(r)
  BY <1>3
<1>5. ASSUME NEW q \in S \ {r} PROVE Before(r, q)
  <2>1. Key(r) <= Key(q)
    BY <1>3, <1>4, <1>5
  <2>2. ~(r.at = q.at /\ r.pos = q.pos)
    BY <1>5 DEF Keyed
  <2> QED
    BY <1>1, <1>5, <2>1, <2>2 DEF Before
<1>6. \E p \in S : \A q \in S \ {p} : Before(p, q)
  BY <1>5
<1> QED
  BY <1>6 DEF First

-----------------------------------------------------------------------------
(* The inbox and the brain's thread.                                         *)

Events == [ref : Rows, state : EventStates, applied : Nat]
Brains == [at : Stages, poked : BOOLEAN, page : SUBSET Nat]

InboxOK == inbox \in Seq(Events) /\ brain \in Brains

\* A run holds a page only while it works on it; what it routes has not been read before, and
\* what it decides has been passed on.
PageOK == /\ brain.page \subseteq DOMAIN inbox
          /\ brain.at \notin {"routing", "deciding", "recording"} => brain.page = {}
          /\ \A i \in brain.page : /\ brain.at = "routing" => inbox[i].state = "pending"
                                   /\ brain.at \in {"deciding", "recording"} => inbox[i].state = "passed"

\* A report is in the inbox once.
OneEach == \A i, j \in DOMAIN inbox : inbox[i].ref = inbox[j].ref => i = j

\* The events stay where they are, and those that are recorded as they are.
RecordedStay == \A i \in DOMAIN inbox : Recorded(inbox[i]) => inbox'[i] = inbox[i]

\* The reports of the inbox stay where they are.
SameReports == DOMAIN inbox' = DOMAIN inbox /\ \A i \in DOMAIN inbox : inbox'[i].ref = inbox[i].ref

\* A rewrite of the events in place.
LEMMA EventsRewritten ==
  ASSUME inbox \in Seq(Events), NEW f, DOMAIN f = DOMAIN inbox,
         f = [i \in DOMAIN inbox |-> f[i]], \A i \in DOMAIN inbox : f[i] \in Events
  PROVE  f \in Seq(Events) /\ Len(f) = Len(inbox)
<1>1. Len(inbox) \in Nat /\ DOMAIN inbox = 1 .. Len(inbox)
  BY LenProperties
<1>2. f \in [1 .. Len(inbox) -> Events]
  BY <1>1
<1> QED
  BY <1>1, <1>2, SeqDef

\* Every step of the brain rewrites events in place, and never their reports.
LEMMA BrainSteps ==
  ASSUME InboxOK, PageOK, BrainRuns
  PROVE  InboxOK' /\ SameReports
<1> USE DEF InboxOK
<1>1. Len(inbox) \in Nat /\ DOMAIN inbox = 1 .. Len(inbox) /\ \A i \in DOMAIN inbox : inbox[i] \in Events
  BY LenProperties
<1>2. ASSUME UNCHANGED inbox PROVE inbox' \in Seq(Events) /\ SameReports
  BY <1>2 DEF SameReports
<1>3. ASSUME NEW S, NEW s \in EventStates, inbox' = Mark(S, s)
      PROVE  inbox' \in Seq(Events) /\ SameReports
  <2>1. \A i \in DOMAIN inbox : /\ Mark(S, s)[i] \in Events
                                /\ Mark(S, s)[i].ref = inbox[i].ref
    BY <1>1 DEF Mark, Events
  <2>2. DOMAIN Mark(S, s) = DOMAIN inbox /\ Mark(S, s) = [i \in DOMAIN inbox |-> Mark(S, s)[i]]
    BY DEF Mark
  <2> QED
    BY <1>3, <2>1, <2>2, EventsRewritten DEF SameReports
<1>4. CASE MatterApplied
  <2> DEFINE f == [i \in DOMAIN inbox |->
                     IF i \in brain.page THEN [inbox[i] EXCEPT !.applied = @ + 1] ELSE inbox[i]]
  <2>1. \A i \in DOMAIN inbox : f[i] \in Events /\ f[i].ref = inbox[i].ref
    BY <1>1 DEF Events
  <2>2. DOMAIN f = DOMAIN inbox /\ f = [i \in DOMAIN inbox |-> f[i]]
    OBVIOUS
  <2>3. inbox' = f
    BY <1>4 DEF MatterApplied
  <2> HIDE DEF f
  <2>4. inbox' \in Seq(Events) /\ SameReports
    BY <2>1, <2>2, <2>3, EventsRewritten DEF SameReports
  <2> QED
    BY <1>4, <2>4 DEF MatterApplied, Brains, Stages
<1>5. DOMAIN inbox \subseteq Nat
  BY <1>1
<1>6. CASE Wake \/ GateReads \/ StepReads \/ RunBreaks
  BY <1>2, <1>5, <1>6 DEF Wake, GateReads, StepReads, RunBreaks, Brains, Stages, Unread, Undecided
<1>7. CASE GateFails \/ MatterRecorded \/ MatterFails
  <2>1. inbox' \in Seq(Events) /\ SameReports
    BY <1>3, <1>7 DEF GateFails, MatterRecorded, MatterFails, EventStates
  <2> QED
    BY <1>7, <2>1 DEF GateFails, MatterRecorded, MatterFails, Brains, Stages
<1>8. ASSUME NEW i \in DOMAIN inbox, NEW passed \in BOOLEAN, GateRoutes(i, passed)
      PROVE  InboxOK' /\ SameReports
  <2>1. inbox' \in Seq(Events) /\ SameReports
    BY <1>3, <1>8 DEF GateRoutes, EventStates
  <2> QED
    BY <1>8, <2>1 DEF GateRoutes, Brains, Stages
<1> QED
  BY <1>4, <1>6, <1>7, <1>8 DEF BrainRuns

\* What a run marks.
LEMMA MarkedEvents ==
  ASSUME inbox \in Seq(Events), NEW S, NEW s, inbox' = Mark(S, s)
  PROVE  /\ DOMAIN inbox' = DOMAIN inbox
         /\ \A i \in DOMAIN inbox : /\ i \notin S => inbox'[i] = inbox[i]
                                    /\ inbox'[i].state = IF i \in S THEN s ELSE inbox[i].state
<1>1. \A i \in DOMAIN inbox : inbox[i] \in Events
  BY LenProperties
<1> QED
  BY <1>1 DEF Mark, Events

\* A run keeps to its page, and off what has been recorded.
LEMMA BrainKeepsPage ==
  ASSUME InboxOK, PageOK, BrainRuns
  PROVE  PageOK' /\ RecordedStay
<1> USE DEF InboxOK, Brains
<1>1. CASE Wake \/ GateReads \/ StepReads \/ RunBreaks
  <2>1. CASE Wake
    BY <2>1 DEF Wake, PageOK, RecordedStay, Recorded
  <2>2. CASE GateReads
    <3>1. inbox' = inbox /\ brain.at = "gate"
      BY <2>2 DEF GateReads
    <3>2. \/ brain'.at \in {"asleep", "step"} /\ brain'.page = brain.page
          \/ brain'.at = "routing" /\ brain'.page = Unread(inbox)
      BY <2>2 DEF GateReads
    <3> QED
      BY <3>1, <3>2 DEF PageOK, RecordedStay, Unread
  <2>3. CASE StepReads
    <3>1. inbox' = inbox /\ brain.at = "step"
      BY <2>3 DEF StepReads
    <3>2. \/ brain'.at = "asleep" /\ brain'.page = brain.page
          \/ brain'.at = "deciding" /\ brain'.page = Undecided(inbox)
      BY <2>3 DEF StepReads
    <3> QED
      BY <3>1, <3>2 DEF PageOK, RecordedStay, Undecided
  <2>4. CASE RunBreaks
    BY <2>4 DEF RunBreaks, PageOK, RecordedStay, Recorded
  <2> QED
    BY <1>1, <2>1, <2>2, <2>3, <2>4
<1>2. ASSUME NEW i \in DOMAIN inbox, NEW passed \in BOOLEAN, GateRoutes(i, passed)
      PROVE  PageOK' /\ RecordedStay
  <2> DEFINE s == IF passed THEN "passed" ELSE "settled"
  <2>1. /\ brain.at = "routing" /\ i \in brain.page /\ inbox' = Mark({i}, s)
        /\ brain'.page = brain.page \ {i}
        /\ brain'.at = (IF brain.page = {i} THEN "step" ELSE "routing")
    BY <1>2 DEF GateRoutes
  <2> HIDE DEF s
  <2>2. /\ DOMAIN inbox' = DOMAIN inbox
        /\ \A j \in DOMAIN inbox : /\ j # i => inbox'[j] = inbox[j]
                                   /\ inbox'[j].state = IF j = i THEN s ELSE inbox[j].state
    <3> DEFINE S == {i}
    <3>1. \A j : j \in S <=> j = i
      OBVIOUS
    <3>2. inbox' = Mark(S, s)
      BY <2>1
    <3> HIDE DEF S
    <3>3. /\ DOMAIN inbox' = DOMAIN inbox
          /\ \A j \in DOMAIN inbox : /\ j \notin S => inbox'[j] = inbox[j]
                                     /\ inbox'[j].state = IF j \in S THEN s ELSE inbox[j].state
      BY <3>2, MarkedEvents
    <3> QED
      BY <3>1, <3>3
  <2> QED
    BY <2>1, <2>2 DEF PageOK, RecordedStay, Recorded
<1>3. CASE GateFails
  <2>1. /\ brain.at = "routing" /\ inbox' = Mark(brain.page, "passed")
        /\ brain'.page = {} /\ brain'.at = "step"
    BY <1>3 DEF GateFails
  <2>2. /\ DOMAIN inbox' = DOMAIN inbox
        /\ \A j \in DOMAIN inbox : /\ j \notin brain.page => inbox'[j] = inbox[j]
                                   /\ inbox'[j].state = IF j \in brain.page THEN "passed" ELSE inbox[j].state
    BY <2>1, MarkedEvents
  <2> QED
    BY <2>1, <2>2 DEF PageOK, RecordedStay, Recorded
<1>4. CASE MatterApplied
  <2>1. /\ brain.at = "deciding" /\ brain'.at = "recording" /\ brain'.page = brain.page
    BY <1>4 DEF MatterApplied
  <2>2. \A i \in DOMAIN inbox : inbox[i] \in Events
    BY LenProperties
  <2>3. /\ DOMAIN inbox' = DOMAIN inbox
        /\ \A i \in DOMAIN inbox :
             /\ inbox'[i].state = inbox[i].state
             /\ i \notin brain.page => inbox'[i] = inbox[i]
    BY <1>4, <2>2 DEF MatterApplied, Events
  <2> QED
    BY <2>1, <2>3 DEF PageOK, RecordedStay, Recorded
<1>5. ASSUME NEW s \in {"settled", "stuck"}, brain.at \in {"deciding", "recording"},
             inbox' = Mark(brain.page, s), brain'.page = {}, brain'.at = "asleep"
      PROVE  PageOK' /\ RecordedStay
  <2>1. /\ DOMAIN inbox' = DOMAIN inbox
        /\ \A j \in DOMAIN inbox : /\ j \notin brain.page => inbox'[j] = inbox[j]
                                   /\ inbox'[j].state = IF j \in brain.page THEN s ELSE inbox[j].state
    BY <1>5, MarkedEvents
  <2> QED
    BY <1>5, <2>1 DEF PageOK, RecordedStay, Recorded
<1>6. CASE MatterRecorded \/ MatterFails
  BY <1>5, <1>6 DEF MatterRecorded, MatterFails
<1> QED
  BY <1>1, <1>2, <1>3, <1>4, <1>6 DEF BrainRuns

\* No run forgets what is pending.
LEMMA BrainKeepsPokes ==
  ASSUME InboxOK, PageOK, NoLostPoke, BrainRuns, UNCHANGED th
  PROVE  NoLostPoke'
<1> USE DEF InboxOK, Brains
<1>1. CASE Wake \/ GateReads \/ StepReads \/ RunBreaks
  BY <1>1 DEF Wake, GateReads, StepReads, RunBreaks, PageOK, NoLostPoke, Unread
<1>2. ASSUME NEW S, NEW s \in EventStates \ {"pending"}, inbox' = Mark(S, s),
             brain.page \subseteq S \cup brain'.page, brain'.poked = brain.poked,
             brain.at \notin {"gate", "broken"}
      PROVE  NoLostPoke'
  <2>1. /\ DOMAIN inbox' = DOMAIN inbox
        /\ \A j \in DOMAIN inbox : inbox'[j].state = IF j \in S THEN s ELSE inbox[j].state
    BY <1>2, MarkedEvents
  <2> QED
    BY <1>2, <2>1 DEF NoLostPoke
<1>3. ASSUME NEW i \in DOMAIN inbox, NEW passed \in BOOLEAN, GateRoutes(i, passed) PROVE NoLostPoke'
  BY <1>2, <1>3 DEF GateRoutes, EventStates
<1>4. CASE GateFails \/ MatterRecorded \/ MatterFails
  BY <1>2, <1>4 DEF GateFails, MatterRecorded, MatterFails, EventStates
<1>5. CASE MatterApplied
  <2>1. \A i \in DOMAIN inbox : inbox[i] \in Events
    BY LenProperties
  <2>2. DOMAIN inbox' = DOMAIN inbox /\ \A i \in DOMAIN inbox : inbox'[i].state = inbox[i].state
    BY <1>5, <2>1 DEF MatterApplied, Events
  <2> QED
    BY <1>5, <2>2 DEF MatterApplied, NoLostPoke
<1> QED
  BY <1>1, <1>3, <1>4, <1>5 DEF BrainRuns

-----------------------------------------------------------------------------
(* A report enters the inbox.                                                *)

\* The reports that are in stay in, the new one is in, and nothing else is.
LEMMA ReportEnters ==
  ASSUME InboxOK, NEW r \in Rows, inbox' = WithEvent(inbox, r)
  PROVE  /\ inbox' \in Seq(Events)
         /\ \/ inbox' = inbox /\ Known(inbox, r)
            \/ /\ ~Known(inbox, r)
               /\ Len(inbox) \in Nat /\ DOMAIN inbox = 1 .. Len(inbox)
               /\ DOMAIN inbox' = 1 .. Len(inbox) + 1
               /\ \A i \in DOMAIN inbox : inbox'[i] = inbox[i]
               /\ inbox'[Len(inbox) + 1] = [ref |-> r, state |-> "pending", applied |-> 0]
         /\ \A q : Known(inbox', q) <=> Known(inbox, q) \/ q = r
<1> USE DEF InboxOK
<1>1. CASE Known(inbox, r)
  BY <1>1 DEF WithEvent
<1>2. CASE ~Known(inbox, r)
  <2> DEFINE e == [ref |-> r, state |-> "pending", applied |-> 0]
             n == Len(inbox)
  <2>1. e \in Events /\ inbox' = Append(inbox, e)
    BY <1>2 DEF Events, EventStates, WithEvent
  <2>2. n \in Nat /\ DOMAIN inbox = 1 .. n
    BY LenProperties
  <2>3. inbox' \in Seq(Events) /\ Len(inbox') = n + 1 /\ inbox'[n + 1] = e
        /\ \A i \in 1 .. n : inbox'[i] = inbox[i]
    BY <2>1, AppendProperties
  <2>4. DOMAIN inbox' = 1 .. n + 1
    BY <2>3, LenProperties
  <2>5. \A q : Known(inbox', q) <=> Known(inbox, q) \/ q = r
    <3>1. \A i : i \in DOMAIN inbox' <=> i \in DOMAIN inbox \/ i = n + 1
      BY <2>2, <2>4
    <3> QED
      BY <2>2, <2>3, <3>1 DEF Known
  <2> QED
    BY <1>2, <2>2, <2>3, <2>4, <2>5
<1> QED
  BY <1>1, <1>2

-----------------------------------------------------------------------------
(* The inductive invariant.                                                  *)

Reading == {"concerns", "attach", "poke"}
Telling == {"beliefs", "evidence", "apply"}

WorkRecs   == [refs : SUBSET Concerns, status : Endings \cup {"none", "active"}]
BeliefRecs == [status : {"held", "revised", "retired"}, heard : SUBSET Works, decided : SUBSET Actions]
ThreadRecs == [at : {"idle", "stamped", "fetch"} \cup Reading \cup Telling, stamp : Nat,
               scope : SUBSET Works, ended : BOOLEAN, queue : SUBSET (Rows \cup BRows),
               refs : SUBSET (Concerns \cup Beliefs), plan : Actions]

Typed ==
  /\ InboxOK
  /\ work \in [Works -> WorkRecs]
  /\ sent \subseteq Rows /\ outbox \subseteq sent /\ bbox \subseteq BRows
  /\ attached \subseteq Concerns \X Works
  /\ belief \in [Beliefs -> BeliefRecs]
  /\ clock \in [now : Nat, changes : Nat, crashes : Nat]
  /\ th \in [Threads -> ThreadRecs]

\* Every change has a time and a number of its own, and all of its receipts carry both.
Stamps ==
  /\ \A r \in sent : r.txn < clock.changes
  /\ \A r \in sent \cup bbox : r.at < clock.now
  /\ Keyed(sent) /\ Keyed(bbox)
  /\ \A r, q \in sent : r.txn = q.txn => r.at = q.at
  /\ \A t \in Threads : th[t].at = "stamped" =>
       th[t].stamp < clock.now /\ \A r \in sent \cup bbox : r.at # th[t].stamp
  /\ \A t, u \in Threads : t # u /\ th[t].at = "stamped" /\ th[u].at = "stamped" =>
       th[t].stamp # th[u].stamp

\* r is to be read before q.
Precedes(r, q) == r.work = q.work /\ r.txn = q.txn /\ r.pos < q.pos /\ Reported(r)

\* What a thread has on its list, and what it has done of the receipt at hand.
Delivering(t) ==
  /\ th[t].at \in {"idle", "stamped", "fetch"} => th[t].queue = {}
  /\ th[t].at \in Reading => th[t].queue \subseteq sent
  /\ th[t].at \in Telling => th[t].queue \subseteq BRows /\ Keyed(th[t].queue)
  /\ th[t].at \in {"attach", "poke"} \cup Telling => th[t].queue # {}
  /\ th[t].at = "attach" =>
       /\ Current(t).kind = "attached"
       /\ \A c \in Current(t).refs \ th[t].refs : <<c, Current(t).work>> \in attached
  /\ th[t].at = "poke" => Current(t).kind # "attached" /\ Known(inbox, Current(t))
  /\ th[t].at \in {"evidence", "apply"} =>
       \A b \in Current(t).refs \ th[t].refs : Current(t).work \in belief[b].heard
  /\ th[t].at \in Reading => \A q \in th[t].queue, r \in sent :
       Precedes(r, q) => r \in th[t].queue \/ Known(inbox, r)

AllDelivering == \A t \in Threads : Delivering(t)

\* The inbox holds receipts only, and none before one that precedes it.
InboxFollows ==
  /\ \A i \in DOMAIN inbox : inbox[i].ref \in sent
  /\ \A r, q \in sent : Precedes(r, q) /\ Known(inbox, q) => Known(inbox, r)

PagesFollow == PageOK /\ NoLostPoke

OutcomeInv ==
  /\ Typed /\ Stamps /\ AllDelivering /\ InboxFollows /\ NothingLost
  /\ OneTransactionInOrder /\ OneEach /\ BeliefsWereTold /\ PagesFollow

-----------------------------------------------------------------------------
(* What the steps do.                                                        *)

\* One thread moves.
Moves(t, rec) == th' = [th EXCEPT ![t] = rec]

\* Only the thread that moves changes its record.
LEMMA Moved ==
  ASSUME th \in [Threads -> ThreadRecs], NEW t \in Threads, NEW rec \in ThreadRecs, Moves(t, rec)
  PROVE  /\ th' \in [Threads -> ThreadRecs] /\ th'[t] = rec
         /\ \A u \in Threads \ {t} : th'[u] = th[u]
BY DEF Moves

\* The thread at rest has nothing in hand.
LEMMA IdleRests == Idle \in ThreadRecs /\ Idle.at = "idle" /\ Idle.queue = {}
BY DEF Idle, ThreadRecs, Actions

\* The thread's first receipt is one of its list.
LEMMA CurrentIsFirst ==
  ASSUME Typed, Stamps, NEW t \in Threads, Delivering(t), th[t].queue # {}
  PROVE  /\ Current(t) \in th[t].queue
         /\ \A q \in th[t].queue \ {Current(t)} : Before(Current(t), q)
         /\ th[t].at \in Reading => Current(t) \in sent /\ Current(t) \in Rows
         /\ th[t].at \in Telling => Current(t) \in BRows
<1>1. th[t] \in ThreadRecs
  BY DEF Typed
<1>2. th[t].at \in Reading \cup Telling
  BY <1>1 DEF ThreadRecs, Delivering
<1>3. CASE th[t].at \in Reading
  <2>1. th[t].queue \subseteq sent /\ th[t].queue \subseteq Rows /\ Keyed(th[t].queue)
    BY <1>3 DEF Delivering, Typed, Stamps, Keyed
  <2>2. th[t].at \notin Telling
    BY <1>3 DEF Reading, Telling
  <2> QED
    BY <2>1, <2>2, FirstIsLeast DEF Current
<1>4. CASE th[t].at \in Telling
  <2>1. th[t].queue \subseteq BRows /\ Keyed(th[t].queue) /\ th[t].at \notin Reading
    BY <1>4 DEF Delivering, Reading, Telling
  <2> QED
    BY <2>1, FirstIsLeast DEF Current
<1> QED
  BY <1>2, <1>3, <1>4

\* The transaction of a change: thread t writes the entry next of w, with the receipts rows and b.
Writes(t, w, next, rows, b, rec) ==
  /\ th[t].at = "stamped" /\ Commit(w, next, rows, b) /\ Moves(t, rec)
  /\ rec \in ThreadRecs /\ rec.at \in {"idle", "fetch"} /\ rec.queue = {}
  /\ next \in WorkRecs /\ rows \subseteq Rows /\ b \subseteq BRows
  /\ \A r \in rows \cup b : r.at = th[t].stamp /\ r.work = w
  /\ \A r \in rows : r.txn = clock.changes
  /\ Keyed(rows) /\ Keyed(b)
  /\ next.status \in Endings => next.status = work[w].status \/ b # {} \/ Beliefs = {}

\* A row of beliefs says how the work ended, to all of them.
LEMMA BeliefRowsAre ==
  ASSUME Typed, NEW w \in Works, NEW s \in Endings, NEW n \in Nat
  PROVE  /\ BeliefRow(w, s, n) \subseteq BRows /\ Keyed(BeliefRow(w, s, n))
         /\ \A r \in BeliefRow(w, s, n) : r.at = n /\ r.work = w
         /\ BeliefRow(w, s, n) # {} \/ Beliefs = {}
<1> DEFINE row == Receipt(w, s, n, clock.changes, 0, Beliefs)
<1>1. clock.changes \in Nat
  BY DEF Typed
<1>2. row \in BRows /\ row.at = n /\ row.work = w
  BY <1>1 DEF Receipt, BRows
<1>3. BeliefRow(w, s, n) = IF Beliefs = {} THEN {} ELSE {row}
  BY DEF BeliefRow
<1> HIDE DEF row
<1> QED
  BY <1>2, <1>3 DEF Keyed

\* What a thread does after the commit.
LEMMA AfterCommit ==
  ASSUME NEW w \in Works, NEW ended \in BOOLEAN
  PROVE  LET rec == [Idle EXCEPT !.at = "fetch", !.scope = {w}, !.ended = ended]
         IN  rec \in ThreadRecs /\ rec.at = "fetch" /\ rec.queue = {}
BY DEF Idle, ThreadRecs, Actions

\* Work that cites a concern leaves one receipt.
LEMMA CitedWrites ==
  ASSUME Typed, NEW w \in Works, NEW c \in Concerns, MayChange(Tick, w), Cited(w, c), NEW rec \in ThreadRecs,
         rec.at \in {"idle", "fetch"}, rec.queue = {}, Moves(Tick, rec)
  PROVE  \E next, rows, b : Writes(Tick, w, next, rows, b, rec)
<1> DEFINE next == [work[w] EXCEPT !.refs = @ \cup {c}, !.status = "active"]
           row  == Receipt(w, "attached", th[Tick].stamp, clock.changes, 0, {c})
<1>1. Tick \in Threads /\ th[Tick] \in ThreadRecs /\ work[w] \in WorkRecs
  BY DEF Threads, Typed
<1>2. next \in WorkRecs /\ next.status = "active"
  BY <1>1 DEF WorkRecs
<1>3. th[Tick].stamp \in Nat /\ clock.changes \in Nat
  BY <1>1 DEF ThreadRecs, Typed
<1>4. row \in Rows /\ row.at = th[Tick].stamp /\ row.work = w /\ row.txn = clock.changes
  BY <1>3 DEF Receipt, Rows, Kinds
<1>5. Commit(w, next, {row}, {}) /\ th[Tick].at = "stamped"
  BY DEF Cited, MayChange
<1> HIDE DEF next, row
<1>6. Keyed({row}) /\ Keyed({}) /\ next.status \notin Endings
  BY <1>2 DEF Keyed, Endings
<1> QED
  BY <1>1, <1>2, <1>4, <1>5, <1>6 DEF Writes

\* The last judgment of a work object writes two receipts, any other one.
LEMMA JudgeWrites ==
  ASSUME Typed, NEW t \in Threads, NEW w \in Works, NEW last \in BOOLEAN, Judge(t, w, last)
  PROVE  \E next, rows, b, rec : Writes(t, w, next, rows, b, rec)
<1> DEFINE row(kind, pos) == Receipt(w, kind, th[t].stamp, clock.changes, pos, work[w].refs)
           next == [work[w] EXCEPT !.status = IF last THEN "done" ELSE @]
           rows == IF last THEN {row("judged", 0), row("done", 1)} ELSE {row("judged", 0)}
           b == IF last THEN BeliefRow(w, "done", th[t].stamp) ELSE {}
           rec == [Idle EXCEPT !.at = "fetch", !.scope = {w}, !.ended = last]
<1>1. th[t] \in ThreadRecs /\ work[w] \in WorkRecs /\ clock.changes \in Nat
  BY DEF Typed
<1>2. th[t].stamp \in Nat /\ work[w].refs \in SUBSET Concerns
  BY <1>1 DEF ThreadRecs, WorkRecs
<1>3. rec \in ThreadRecs /\ rec.at = "fetch" /\ rec.queue = {}
  BY AfterCommit
<1>4. next \in WorkRecs /\ next.status = IF last THEN "done" ELSE work[w].status
  BY <1>1 DEF WorkRecs, Endings
<1>5. ASSUME NEW kind \in {"judged", "done"}, NEW pos \in {0, 1}
      PROVE  /\ row(kind, pos) \in Rows /\ row(kind, pos).at = th[t].stamp /\ row(kind, pos).work = w
             /\ row(kind, pos).txn = clock.changes /\ row(kind, pos).pos = pos
  BY <1>1, <1>2 DEF Receipt, Rows, Kinds, Endings
<1>6. /\ rows \subseteq Rows /\ \A r \in rows : r.at = th[t].stamp /\ r.work = w /\ r.txn = clock.changes
      /\ \A r, q \in rows : r.pos = q.pos => r = q
  <2> DEFINE j == row("judged", 0)
             d == row("done", 1)
  <2>1. /\ j \in Rows /\ j.at = th[t].stamp /\ j.work = w /\ j.txn = clock.changes /\ j.pos = 0
        /\ d \in Rows /\ d.at = th[t].stamp /\ d.work = w /\ d.txn = clock.changes /\ d.pos = 1
    BY <1>5
  <2>2. rows = IF last THEN {j, d} ELSE {j}
    OBVIOUS
  <2> HIDE DEF j, d, rows
  <2> QED
    BY <2>1, <2>2
<1>7. /\ b \subseteq BRows /\ Keyed(b) /\ \A r \in b : r.at = th[t].stamp /\ r.work = w
      /\ last => b # {} \/ Beliefs = {}
  <2>1. CASE last
    BY <1>2, <2>1, BeliefRowsAre DEF Endings
  <2>2. CASE ~last
    BY <2>2 DEF Keyed
  <2> QED
    BY <2>1, <2>2
<1>8. /\ Commit(w, next, rows, b) /\ Moves(t, rec) /\ th[t].at = "stamped"
  BY DEF Judge, Delivers, Moves, MayChange
<1> HIDE DEF row, next, rows, b, rec
<1>9. Keyed(rows)
  BY <1>6 DEF Keyed
<1> QED
  BY <1>3, <1>4, <1>6, <1>7, <1>8, <1>9 DEF Writes

\* Work that ends leaves one receipt, and one for the beliefs.
LEMMA EndWrites ==
  ASSUME Typed, NEW w \in Works, EndWork(w)
  PROVE  \E next, rows, b, rec : Writes(Tick, w, next, rows, b, rec)
<1> DEFINE next == [work[w] EXCEPT !.status = "abandoned"]
           row  == Receipt(w, "abandoned", th[Tick].stamp, clock.changes, 0, work[w].refs)
           b    == BeliefRow(w, "abandoned", th[Tick].stamp)
           rec  == [Idle EXCEPT !.at = "fetch", !.scope = {w}, !.ended = TRUE]
<1>1. th[Tick] \in ThreadRecs /\ work[w] \in WorkRecs /\ clock.changes \in Nat
  BY DEF Typed, Threads
<1>2. th[Tick].stamp \in Nat /\ work[w].refs \in SUBSET Concerns
  BY <1>1 DEF ThreadRecs, WorkRecs
<1>3. rec \in ThreadRecs /\ rec.at = "fetch" /\ rec.queue = {}
  BY AfterCommit
<1>4. next \in WorkRecs
  BY <1>1 DEF WorkRecs, Endings
<1>5. row \in Rows /\ row.at = th[Tick].stamp /\ row.work = w /\ row.txn = clock.changes
  BY <1>1, <1>2 DEF Receipt, Rows, Kinds, Endings
<1>6. /\ b \subseteq BRows /\ Keyed(b) /\ \A r \in b : r.at = th[Tick].stamp /\ r.work = w
      /\ b # {} \/ Beliefs = {}
  BY <1>2, BeliefRowsAre DEF Endings
<1>7. /\ Commit(w, next, {row}, b) /\ Moves(Tick, rec) /\ th[Tick].at = "stamped"
  BY DEF EndWork, Delivers, Moves, MayChange
<1> HIDE DEF row, next, b, rec
<1>8. Keyed({row})
  BY DEF Keyed
<1> QED
  BY <1>3, <1>4, <1>5, <1>6, <1>7, <1>8 DEF Writes

\* A change takes a time, is refused, or writes.
Wrote == \E t \in Threads, w \in Works : \E next, rows, b, rec : Writes(t, w, next, rows, b, rec)

\* A change of the work objects is one write, or takes its time, or is refused.
LEMMA ChangesWrite ==
  ASSUME Typed, Changes
  PROVE  Wrote \/ \E t \in Threads : TakeStamp(t) \/ Refused(t)
<1>1. Tick \in Threads
  BY DEF Threads
<1>2. ASSUME NEW w \in Works, NEW c \in Concerns, Create(w, c) PROVE Wrote
  <2> DEFINE rec == [Idle EXCEPT !.at = "fetch", !.scope = {w}, !.ended = FALSE]
  <2>1. rec \in ThreadRecs /\ rec.at = "fetch" /\ rec.queue = {}
    BY AfterCommit
  <2>2. MayChange(Tick, w) /\ Cited(w, c) /\ Moves(Tick, rec)
    BY <1>2 DEF Create, Delivers, Moves
  <2> HIDE DEF rec
  <2> QED
    BY <1>1, <2>1, <2>2, CitedWrites DEF Wrote
<1>3. ASSUME NEW w \in Works, NEW c \in Concerns, Revise(w, c) PROVE Wrote
  <2>1. MayChange(Tick, w) /\ Cited(w, c) /\ Moves(Tick, Idle)
    BY <1>3 DEF Revise, Moves
  <2> QED
    BY <1>1, <2>1, CitedWrites, IdleRests DEF Wrote
<1> QED
  BY <1>1, <1>2, <1>3, JudgeWrites, EndWrites DEF Changes, Wrote

\* Thread t alone moves: to this point, with this list and these references left.
Goes(t, at, queue, refs) ==
  /\ th' \in [Threads -> ThreadRecs] /\ \A u \in Threads \ {t} : th'[u] = th[u]
  /\ th'[t].at = at /\ th'[t].queue = queue /\ th'[t].refs = refs

Places == {"idle", "stamped", "fetch"} \cup Reading \cup Telling

\* A thread goes where its new record says.
LEMMA RecordGoes ==
  ASSUME Typed, NEW t \in Threads, NEW rec \in ThreadRecs, Moves(t, rec)
  PROVE  Goes(t, rec.at, rec.queue, rec.refs)
BY Moved DEF Typed, Goes

\* A part of a list is a list; other fields stay typed.
LEMMA ListGoes ==
  ASSUME Typed, NEW t \in Threads, NEW at \in Places, NEW queue \in SUBSET (Rows \cup BRows),
         NEW refs \in SUBSET (Concerns \cup Beliefs), NEW plan \in Actions,
         Moves(t, [th[t] EXCEPT !.at = at, !.queue = queue, !.refs = refs, !.plan = plan])
  PROVE  Goes(t, at, queue, refs)
<1> DEFINE rec == [th[t] EXCEPT !.at = at, !.queue = queue, !.refs = refs, !.plan = plan]
<1>1. th[t] \in ThreadRecs
  BY DEF Typed
<1>2. rec \in ThreadRecs /\ rec.at = at /\ rec.queue = queue /\ rec.refs = refs
  BY <1>1 DEF ThreadRecs, Places
<1>3. Moves(t, rec)
  OBVIOUS
<1> HIDE DEF rec
<1> QED
  BY <1>2, <1>3, RecordGoes

\* The fields a step leaves alone may be written down.
LEMMA FieldsKept ==
  ASSUME NEW x \in ThreadRecs
  PROVE  /\ x.at \in Places /\ x.queue \in SUBSET (Rows \cup BRows)
         /\ x.refs \in SUBSET (Concerns \cup Beliefs) /\ x.plan \in Actions
         /\ \A at, queue : [x EXCEPT !.at = at, !.queue = queue]
                             = [x EXCEPT !.at = at, !.queue = queue, !.refs = x.refs, !.plan = x.plan]
         /\ \A at, refs : [x EXCEPT !.at = at, !.refs = refs]
                            = [x EXCEPT !.at = at, !.queue = x.queue, !.refs = refs, !.plan = x.plan]
         /\ \A refs : [x EXCEPT !.refs = refs]
                        = [x EXCEPT !.at = x.at, !.queue = x.queue, !.refs = refs, !.plan = x.plan]
         /\ \A at : [x EXCEPT !.at = at]
                      = [x EXCEPT !.at = at, !.queue = x.queue, !.refs = x.refs, !.plan = x.plan]
         /\ \A at, queue, refs : [x EXCEPT !.at = at, !.queue = queue, !.refs = refs]
                                   = [x EXCEPT !.at = at, !.queue = queue, !.refs = refs, !.plan = x.plan]
         /\ \A plan, at, refs : [x EXCEPT !.plan = plan, !.at = at, !.refs = refs]
                                   = [x EXCEPT !.at = at, !.queue = x.queue, !.refs = refs, !.plan = plan]
         /\ \A plan, at, refs : [x EXCEPT !.plan = plan, !.refs = refs, !.at = at]
                                   = [x EXCEPT !.at = at, !.queue = x.queue, !.refs = refs, !.plan = plan]
BY DEF ThreadRecs, Places

\* _fetch_rows: the queue is what its work objects have in the outbox.
LEMMA FetchGoes ==
  ASSUME Typed, NEW t \in Threads, Fetch(t)
  PROVE  Goes(t, "concerns", {r \in outbox : r.work \in th[t].scope}, th[t].refs)
<1> DEFINE queue == {r \in outbox : r.work \in th[t].scope}
<1>1. th[t] \in ThreadRecs /\ "concerns" \in Places
  BY DEF Typed, Places, Reading
<1>2. queue \in SUBSET (Rows \cup BRows)
  BY DEF Typed
<1>3. Moves(t, [th[t] EXCEPT !.at = "concerns", !.queue = queue])
  BY DEF Fetch, Move, Moves
<1> HIDE DEF queue
<1>4. Moves(t, [th[t] EXCEPT !.at = "concerns", !.queue = queue, !.refs = th[t].refs, !.plan = th[t].plan])
  BY <1>1, <1>3, FieldsKept
<1>5. Goes(t, "concerns", queue, th[t].refs)
  BY <1>1, <1>2, <1>4, FieldsKept, ListGoes
<1> QED
  BY <1>5 DEF queue

\* The concerns of the receipt in hand are to be attached.
LEMMA AttachBeginsGoes ==
  ASSUME Typed, Stamps, NEW t \in Threads, Delivering(t), AttachBegins(t)
  PROVE  Goes(t, "attach", th[t].queue, Current(t).refs)
<1>1. th[t] \in ThreadRecs /\ "attach" \in Places /\ "concerns" \in Reading
  BY DEF Typed, Places, Reading
<1>2. Current(t) \in Rows
  BY <1>1, CurrentIsFirst DEF AttachBegins, InHand
<1>3. Current(t).refs \in SUBSET (Concerns \cup Beliefs)
  BY <1>2 DEF Rows
<1>4. Moves(t, [th[t] EXCEPT !.at = "attach", !.refs = Current(t).refs])
  BY DEF AttachBegins, Move, Moves
<1>5. Moves(t, [th[t] EXCEPT !.at = "attach", !.queue = th[t].queue, !.refs = Current(t).refs,
                             !.plan = th[t].plan])
  BY <1>1, <1>4, FieldsKept
<1> QED
  BY <1>1, <1>3, <1>5, FieldsKept, ListGoes

\* One concern fewer is to be attached.
LEMMA AttachGoes ==
  ASSUME Typed, NEW t \in Threads, NEW c \in Concerns, Attach(t, c)
  PROVE  Goes(t, "attach", th[t].queue, th[t].refs \ {c})
<1> DEFINE refs == th[t].refs \ {c}
<1>1. th[t] \in ThreadRecs /\ th[t].at = "attach"
  BY DEF Typed, Attach
<1>2. refs \in SUBSET (Concerns \cup Beliefs)
  BY <1>1, FieldsKept
<1>3. Moves(t, [th[t] EXCEPT !.refs = refs])
  BY DEF Attach, Move, Moves
<1> HIDE DEF refs
<1>4. Moves(t, [th[t] EXCEPT !.at = th[t].at, !.queue = th[t].queue, !.refs = refs, !.plan = th[t].plan])
  BY <1>1, <1>3, FieldsKept
<1>5. Goes(t, th[t].at, th[t].queue, refs)
  BY <1>1, <1>2, <1>4, FieldsKept, ListGoes
<1> QED
  BY <1>1, <1>5 DEF refs

\* The event is added; the poke comes next.
LEMMA ReportGoes ==
  ASSUME Typed, NEW t \in Threads, Report(t)
  PROVE  Goes(t, "poke", th[t].queue, th[t].refs)
<1>1. th[t] \in ThreadRecs /\ "poke" \in Places
  BY DEF Typed, Places, Reading
<1>2. Moves(t, [th[t] EXCEPT !.at = "poke"])
  BY DEF Report, Move, Moves
<1>3. Moves(t, [th[t] EXCEPT !.at = "poke", !.queue = th[t].queue, !.refs = th[t].refs, !.plan = th[t].plan])
  BY <1>1, <1>2, FieldsKept
<1> QED
  BY <1>1, <1>3, FieldsKept, ListGoes

\* A part of the list is left.
LEMMA RestGoes ==
  ASSUME Typed, NEW t \in Threads, NEW queue \in SUBSET th[t].queue,
         Moves(t, [th[t] EXCEPT !.at = "concerns", !.queue = queue, !.refs = {}])
  PROVE  Goes(t, "concerns", queue, {})
<1>1. th[t] \in ThreadRecs /\ "concerns" \in Places
  BY DEF Typed, Places, Reading
<1>2. queue \in SUBSET (Rows \cup BRows) /\ {} \in SUBSET (Concerns \cup Beliefs)
  BY <1>1, FieldsKept
<1>3. Moves(t, [th[t] EXCEPT !.at = "concerns", !.queue = queue, !.refs = {}, !.plan = th[t].plan])
  BY <1>1, FieldsKept
<1> QED
  BY <1>1, <1>2, <1>3, FieldsKept, ListGoes

\* The receipt in hand leaves the queue.
LEMMA AckGoes ==
  ASSUME Typed, NEW t \in Threads, Ack(t)
  PROVE  Goes(t, "concerns", th[t].queue \ {Current(t)}, {})
<1> DEFINE queue == th[t].queue \ {Current(t)}
<1>1. Moves(t, [th[t] EXCEPT !.at = "concerns", !.queue = queue, !.refs = {}])
  BY DEF Ack, Move, Moves
<1>2. queue \in SUBSET th[t].queue
  OBVIOUS
<1> HIDE DEF queue
<1>3. Goes(t, "concerns", queue, {})
  BY <1>1, <1>2, RestGoes
<1> QED
  BY <1>3 DEF queue

\* After a failure the other receipts of that work object leave the queue too.
LEMMA FailsGoes ==
  ASSUME Typed, NEW t \in Threads, Fails(t)
  PROVE  Goes(t, "concerns", {r \in th[t].queue : r.work # Current(t).work}, {})
<1> DEFINE queue == {r \in th[t].queue : r.work # Current(t).work}
<1>1. Moves(t, [th[t] EXCEPT !.at = "concerns", !.queue = queue, !.refs = {}])
  BY DEF Fails, LeftAfter, Move, Moves
<1>2. queue \in SUBSET th[t].queue
  OBVIOUS
<1> HIDE DEF queue
<1>3. Goes(t, "concerns", queue, {})
  BY <1>1, <1>2, RestGoes
<1> QED
  BY <1>3 DEF queue

\* The thread at rest, or the beliefs' list, which is some of the table.
LEMMA BFetchGoes ==
  ASSUME Typed, NEW t \in Threads, BFetch(t)
  PROVE  \/ Goes(t, "idle", {}, {})
         \/ \E queue \in SUBSET bbox : queue # {} /\ Goes(t, "beliefs", queue, th[t].refs)
<1> DEFINE pending == {r \in bbox : r.work \in th[t].scope}
<1>1. th[t] \in ThreadRecs /\ "beliefs" \in Places
  BY DEF Typed, Places, Telling
<1>2. pending \in SUBSET bbox /\ pending \in SUBSET (Rows \cup BRows)
  BY DEF Typed
<1>3. \/ Moves(t, Idle)
      \/ pending # {} /\ Moves(t, [th[t] EXCEPT !.at = "beliefs", !.queue = pending])
  BY DEF BFetch, Move, Moves
<1> HIDE DEF pending
<1>4. CASE Moves(t, Idle)
  BY <1>4, RecordGoes, IdleRests DEF Idle
<1>5. CASE pending # {} /\ Moves(t, [th[t] EXCEPT !.at = "beliefs", !.queue = pending])
  <2>1. Moves(t, [th[t] EXCEPT !.at = "beliefs", !.queue = pending, !.refs = th[t].refs, !.plan = th[t].plan])
    BY <1>1, <1>5, FieldsKept
  <2>2. Goes(t, "beliefs", pending, th[t].refs)
    BY <1>1, <1>2, <2>1, FieldsKept, ListGoes
  <2> QED
    BY <1>2, <1>5, <2>2
<1> QED
  BY <1>3, <1>4, <1>5

\* The beliefs that have not heard of this outcome are to be asked about.
LEMMA BAsksGoes ==
  ASSUME Typed, Stamps, NEW t \in Threads, Delivering(t), BAsks(t)
  PROVE  Goes(t, "evidence", th[t].queue, Unheard(Current(t)))
<1>1. /\ th[t] \in ThreadRecs /\ th[t].at = "beliefs"
      /\ "evidence" \in Places /\ "beliefs" \in Telling
  BY DEF Typed, Places, Telling, BAsks
<1>2. Current(t) \in BRows
  BY <1>1, CurrentIsFirst DEF Delivering
<1>3. Unheard(Current(t)) \in SUBSET (Concerns \cup Beliefs)
  BY <1>2 DEF BRows, Unheard
<1>4. Moves(t, [th[t] EXCEPT !.at = "evidence", !.refs = Unheard(Current(t))])
  BY DEF BAsks, Move, Moves
<1>5. Moves(t, [th[t] EXCEPT !.at = "evidence", !.queue = th[t].queue, !.refs = Unheard(Current(t)),
                             !.plan = th[t].plan])
  BY <1>1, <1>4, FieldsKept
<1> QED
  BY <1>1, <1>3, <1>5, FieldsKept, ListGoes

\* One belief has its evidence; it is done with, or its change is to be applied.
LEMMA BEvidenceGoes ==
  ASSUME Typed, NEW t \in Threads, NEW b \in Beliefs, NEW action \in Answers, BEvidence(t, b, action)
  PROVE  \E at \in {"evidence", "apply"}, refs \in {th[t].refs, th[t].refs \ {b}} :
           Goes(t, at, th[t].queue, refs)
<1>0. action \in Actions
  BY AnswersType
<1> DEFINE at   == IF action = "no_change" THEN "evidence" ELSE "apply"
           refs == IF action = "no_change" THEN th[t].refs \ {b} ELSE th[t].refs
<1>1. th[t] \in ThreadRecs /\ at \in {"evidence", "apply"} /\ {"evidence", "apply"} \subseteq Places
  BY DEF Typed, Places, Telling
<1>2. refs \in SUBSET (Concerns \cup Beliefs) /\ refs \in {th[t].refs, th[t].refs \ {b}}
  BY <1>0, <1>1, FieldsKept
<1>3. Moves(t, [th[t] EXCEPT !.plan = action, !.at = at, !.refs = refs])
  BY DEF BEvidence, Move, Moves
<1> HIDE DEF at, refs
<1>4. Moves(t, [th[t] EXCEPT !.at = at, !.queue = th[t].queue, !.refs = refs, !.plan = action])
  BY <1>0, <1>1, <1>3, FieldsKept
<1>5. Goes(t, at, th[t].queue, refs)
  BY <1>0, <1>1, <1>2, <1>4, FieldsKept, ListGoes
<1> QED
  BY <1>1, <1>2, <1>5

\* One belief is done with.
LEMMA BApplyGoes ==
  ASSUME Typed, NEW t \in Threads, NEW b \in Beliefs, BApply(t, b)
  PROVE  Goes(t, "evidence", th[t].queue, th[t].refs \ {b})
<1> DEFINE refs == th[t].refs \ {b}
<1>1. th[t] \in ThreadRecs /\ "evidence" \in Places /\ "no_change" \in Actions
  BY DEF Typed, Places, Telling, Actions
<1>2. refs \in SUBSET (Concerns \cup Beliefs)
  BY <1>1, FieldsKept
<1>3. Moves(t, [th[t] EXCEPT !.plan = "no_change", !.refs = refs, !.at = "evidence"])
  BY DEF BApply, Move, Moves
<1> HIDE DEF refs
<1>4. Moves(t, [th[t] EXCEPT !.at = "evidence", !.queue = th[t].queue, !.refs = refs, !.plan = "no_change"])
  BY <1>1, <1>3, FieldsKept
<1>5. Goes(t, "evidence", th[t].queue, refs)
  BY <1>1, <1>2, <1>4, FieldsKept, ListGoes
<1> QED
  BY <1>5 DEF refs

\* After a belief receipt: the next of the list, or rest.
LEMMA AfterBeliefGoes ==
  ASSUME Typed, NEW t \in Threads, Move(t, AfterBelief(t))
  PROVE  \/ Goes(t, "idle", {}, {})
         \/ \E queue \in SUBSET th[t].queue : queue # {} /\ Goes(t, "beliefs", queue, {})
<1> DEFINE left == th[t].queue \ {Current(t)}
<1>1. th[t] \in ThreadRecs /\ "beliefs" \in Places /\ "no_change" \in Actions
  BY DEF Typed, Places, Telling, Actions
<1>2. left \in SUBSET th[t].queue /\ left \in SUBSET (Rows \cup BRows)
  BY <1>1, FieldsKept
<1>3. \/ Moves(t, Idle)
      \/ left # {} /\ Moves(t, [th[t] EXCEPT !.at = "beliefs", !.queue = left, !.refs = {},
                                             !.plan = "no_change"])
  BY DEF Move, AfterBelief, Moves
<1> HIDE DEF left
<1>4. CASE Moves(t, Idle)
  BY <1>4, RecordGoes, IdleRests DEF Idle
<1>5. ASSUME left # {}, Moves(t, [th[t] EXCEPT !.at = "beliefs", !.queue = left, !.refs = {},
                                               !.plan = "no_change"])
      PROVE  Goes(t, "beliefs", left, {})
  BY <1>1, <1>2, <1>5, ListGoes
<1> QED
  BY <1>2, <1>3, <1>4, <1>5

-----------------------------------------------------------------------------
(* Types are kept.                                                           *)

\* The types hold at the start.
LEMMA InitTyped == Init => Typed
<1> SUFFICES ASSUME Init PROVE Typed
  OBVIOUS
<1>1. InboxOK
  <2>1. inbox = << >> /\ << >> \in Seq(Events)
    BY EmptySeq DEF Init, BrainInit
  <2>2. brain \in Brains
    BY DEF Init, BrainInit, Brains, Stages
  <2> QED
    BY <2>1, <2>2 DEF InboxOK
<1>2. work \in [Works -> WorkRecs]
  BY DEF Init, WorkRecs, Endings
<1>3. belief \in [Beliefs -> BeliefRecs]
  BY DEF Init, BeliefRecs
<1>4. th \in [Threads -> ThreadRecs]
  BY IdleRests DEF Init
<1>5. clock \in [now : Nat, changes : Nat, crashes : Nat]
  BY DEF Init
<1> QED
  BY <1>1, <1>2, <1>3, <1>4, <1>5 DEF Typed, Init

\* A change keeps the types.
LEMMA ChangesTyped ==
  ASSUME Typed, Changes
  PROVE  Typed'
<1>1. ASSUME NEW t \in Threads, TakeStamp(t) PROVE Typed'
  <2> DEFINE rec == [th[t] EXCEPT !.at = "stamped", !.stamp = clock.now]
  <2>1. rec \in ThreadRecs
    BY DEF Typed, ThreadRecs
  <2>2. Moves(t, rec)
    BY <1>1 DEF TakeStamp, Moves
  <2> HIDE DEF rec
  <2>3. th' \in [Threads -> ThreadRecs]
    BY <2>1, <2>2, Moved DEF Typed
  <2>4. clock' \in [now : Nat, changes : Nat, crashes : Nat]
    BY <1>1 DEF TakeStamp, Typed
  <2> QED
    BY <1>1, <2>3, <2>4 DEF Typed, TakeStamp, InboxOK
<1>2. ASSUME NEW t \in Threads, Refused(t) PROVE Typed'
  <2>1. th' \in [Threads -> ThreadRecs]
    BY <1>2, IdleRests, Moved DEF Typed, Refused, Moves
  <2> QED
    BY <1>2, <2>1 DEF Typed, Refused, InboxOK
<1>3. ASSUME NEW t \in Threads, NEW w \in Works, NEW next, NEW rows, NEW b, NEW rec,
             Writes(t, w, next, rows, b, rec)
      PROVE  Typed'
  <2>1. th' \in [Threads -> ThreadRecs]
    BY <1>3, Moved DEF Typed, Writes
  <2>2. work' \in [Works -> WorkRecs]
    BY <1>3 DEF Typed, Writes, Commit
  <2>3. clock' \in [now : Nat, changes : Nat, crashes : Nat]
    BY <1>3 DEF Typed, Writes, Commit
  <2>4. sent' \subseteq Rows /\ outbox' \subseteq sent' /\ bbox' \subseteq BRows
    BY <1>3 DEF Typed, Writes, Commit
  <2> QED
    BY <1>3, <2>1, <2>2, <2>3, <2>4 DEF Typed, Writes, Commit, InboxOK
<1> QED
  BY <1>1, <1>2, <1>3, ChangesWrite DEF Wrote

\* What a belief becomes.
LEMMA BeliefsTyped ==
  ASSUME Typed, Stamps, NEW t \in Threads, Delivering(t), NEW b \in Beliefs
  PROVE  /\ \A action \in Answers : BEvidence(t, b, action) => belief' \in [Beliefs -> BeliefRecs]
         /\ BApply(t, b) => belief' \in [Beliefs -> BeliefRecs]
<1>1. ASSUME NEW action \in Answers, BEvidence(t, b, action) PROVE belief' \in [Beliefs -> BeliefRecs]
  <2>1. th[t].at \in Telling /\ th[t].queue # {}
    BY <1>1 DEF BEvidence, Telling, Delivering
  <2>2. Current(t).work \in Works
    BY <2>1, CurrentIsFirst DEF BRows
  <2>3. action \in Actions
    BY AnswersType
  <2> QED
    BY <1>1, <2>2, <2>3 DEF BEvidence, Typed, BeliefRecs
<1>2. ASSUME BApply(t, b) PROVE belief' \in [Beliefs -> BeliefRecs]
  BY <1>2 DEF BApply, Typed, BeliefRecs
<1> QED
  BY <1>1, <1>2

\* A delivery step keeps the types.
LEMMA DeliveryTyped ==
  ASSUME Typed, Stamps, NEW t \in Threads, Delivering(t), DeliverStep(t)
  PROVE  Typed'
<1>1. ASSUME NEW at, NEW queue, NEW refs, Goes(t, at, queue, refs)
      PROVE  th' \in [Threads -> ThreadRecs]
  BY <1>1 DEF Goes
<1>2. CASE Fetch(t)
  BY <1>1, <1>2, FetchGoes DEF Fetch, Typed, InboxOK
<1>3. CASE AttachBegins(t)
  BY <1>1, <1>3, AttachBeginsGoes DEF AttachBegins, Typed, InboxOK
<1>4. CASE Report(t)
  <2>1. Current(t) \in Rows
    BY <1>4, CurrentIsFirst DEF Report, InHand, Reading
  <2>2. inbox' \in Seq(Events)
    BY <1>4, <2>1, ReportEnters DEF Report, Typed
  <2> QED
    BY <1>1, <1>4, <2>2, ReportGoes DEF Report, Typed, InboxOK
<1>5. ASSUME PokeAfter(t) PROVE brain' \in Brains
  BY <1>5 DEF PokeAfter, Poked, Brains, Typed, InboxOK
<1>6. CASE Ack(t)
  BY <1>1, <1>5, <1>6, AckGoes DEF Ack, Typed, InboxOK
<1>7. CASE Fails(t)
  BY <1>1, <1>5, <1>7, FailsGoes DEF Fails, Typed, InboxOK
<1>8. ASSUME NEW c \in Concerns, Attach(t, c) PROVE Typed'
  <2>1. th[t].at \in Reading /\ th[t].queue # {}
    BY <1>8 DEF Attach, Reading, Delivering
  <2>2. Current(t).work \in Works
    BY <2>1, CurrentIsFirst DEF Rows
  <2>3. attached' \subseteq Concerns \X Works
    BY <1>8, <2>2 DEF Attach, Typed
  <2> QED
    BY <1>1, <1>8, <2>3, AttachGoes DEF Attach, Typed, InboxOK
<1>9. CASE BFetch(t)
  BY <1>1, <1>9, BFetchGoes DEF BFetch, Typed, InboxOK
<1>10. CASE BAsks(t)
  BY <1>1, <1>10, BAsksGoes DEF BAsks, Typed, InboxOK
<1>11. CASE BAck(t)
  BY <1>1, <1>11, AfterBeliefGoes DEF BAck, Typed, InboxOK
<1>12. CASE BFails(t)
  BY <1>1, <1>12, AfterBeliefGoes DEF BFails, Typed, InboxOK
<1>13. ASSUME NEW b \in Beliefs, BApply(t, b) PROVE Typed'
  BY <1>1, <1>13, BeliefsTyped, BApplyGoes DEF BApply, Typed, InboxOK
<1>14. ASSUME NEW b \in Beliefs, NEW action \in Answers, BEvidence(t, b, action) PROVE Typed'
  BY <1>1, <1>14, BeliefsTyped, BEvidenceGoes DEF BEvidence, Typed, InboxOK
<1> QED
  BY <1>2, <1>3, <1>4, <1>6, <1>7, <1>8, <1>9, <1>10, <1>11, <1>12, <1>13, <1>14 DEF DeliverStep

\* The inbox after a restart is as it was, and no run has a page.
LEMMA CrashForgets ==
  ASSUME Typed, Crash
  PROVE  /\ InboxOK' /\ SameReports /\ UNCHANGED inbox
         /\ brain'.at = "gate" /\ brain'.page = {}
BY DEF Crash, BrainRestarts, Typed, InboxOK, Brains, Stages, SameReports

\* Every step keeps the types.
LEMMA TypesKept ==
  ASSUME OutcomeInv, [Next]_vars
  PROVE  Typed'
<1> USE DEF OutcomeInv
<1>1. CASE Prep
  <2> DEFINE rec == [Idle EXCEPT !.at = "fetch", !.scope = Works, !.ended = TRUE]
  <2>1. rec \in ThreadRecs /\ Tick \in Threads
    BY DEF Idle, ThreadRecs, Actions, Threads
  <2>2. Moves(Tick, rec)
    BY <1>1 DEF Prep, Moves
  <2> HIDE DEF rec
  <2>3. th' \in [Threads -> ThreadRecs]
    BY <2>1, <2>2, Moved DEF Typed
  <2> QED
    BY <1>1, <2>3 DEF Prep, Typed, InboxOK
<1>2. CASE Brain
  <2>1. InboxOK' /\ UNCHANGED dvars
    BY <1>2, BrainSteps DEF Brain, PagesFollow, Typed
  <2> QED
    BY <2>1 DEF Typed, dvars
<1>3. CASE Crash
  <2>1. th' \in [Threads -> ThreadRecs]
    BY <1>3, IdleRests DEF Crash
  <2>2. clock' \in [now : Nat, changes : Nat, crashes : Nat]
    BY <1>3 DEF Crash, Typed
  <2> QED
    BY <1>3, <2>1, <2>2, CrashForgets DEF Crash, Typed
<1>4. CASE UNCHANGED vars
  BY <1>4 DEF vars, Typed, InboxOK
<1> QED
  BY <1>1, <1>2, <1>3, <1>4, ChangesTyped, DeliveryTyped DEF Next, AllDelivering

-----------------------------------------------------------------------------
(* What only grows, and what a delivery leaves alone.                        *)

\* What was told stays told.
Grows ==
  /\ sent \subseteq sent' /\ attached \subseteq attached'
  /\ \A r \in sent' \ sent : r.txn = clock.changes
  /\ \A r : Known(inbox, r) => Known(inbox', r)
  /\ \A b \in Beliefs : belief[b].heard \subseteq belief'[b].heard

\* A step that writes no receipt and takes no time.
Silent ==
  /\ UNCHANGED <<sent, work>> /\ clock'.now = clock.now /\ clock'.changes = clock.changes
  /\ bbox' \subseteq bbox /\ outbox' \subseteq outbox
  /\ \A u \in Threads : th'[u].at = "stamped" => th'[u] = th[u]

\* Reports that stay in place stay known.
LEMMA SameAreKnown ==
  ASSUME SameReports
  PROVE  \A r : Known(inbox', r) <=> Known(inbox, r)
BY DEF SameReports, Known

\* A thread that goes to deliver is not stamped.
LEMMA GoesUnstamped ==
  ASSUME NEW t \in Threads, NEW at \in Places \ {"stamped"}, NEW queue, NEW refs, Goes(t, at, queue, refs)
  PROVE  \A u \in Threads : th'[u].at = "stamped" => th'[u] = th[u]
BY DEF Goes

\* A delivery step is silent, and forgets nothing that was told.
LEMMA DeliveryGrows ==
  ASSUME Typed, Stamps, NEW t \in Threads, Delivering(t), DeliverStep(t)
  PROVE  Grows /\ Silent
<1> DEFINE Unstamped == \A u \in Threads : th'[u].at = "stamped" => th'[u] = th[u]
<1>1. \A at \in {"idle", "concerns", "attach", "poke", "beliefs", "evidence", "apply"} :
        at \in Places \ {"stamped"}
  BY DEF Places, Reading, Telling
<1>2. ASSUME NEW at \in {"idle", "concerns", "attach", "poke", "beliefs", "evidence", "apply"}, NEW queue,
             NEW refs, Goes(t, at, queue, refs)
      PROVE  Unstamped
  BY <1>1, <1>2, GoesUnstamped
<1> HIDE DEF Unstamped
<1>3. ASSUME UNCHANGED <<inbox, attached, belief, sent, work, clock>>, bbox' \subseteq bbox,
             outbox' \subseteq outbox, Unstamped
      PROVE  Grows /\ Silent
  BY <1>3 DEF Grows, Silent, Unstamped
<1>4. CASE Fetch(t)
  BY <1>2, <1>3, <1>4, FetchGoes DEF Fetch
<1>5. CASE AttachBegins(t)
  BY <1>2, <1>3, <1>5, AttachBeginsGoes DEF AttachBegins
<1>6. CASE Report(t)
  <2>1. Current(t) \in Rows
    BY <1>6, CurrentIsFirst DEF Report, InHand, Reading
  <2>2. \A r : Known(inbox, r) => Known(inbox', r)
    BY <1>6, <2>1, ReportEnters DEF Report, Typed
  <2>3. Unstamped
    BY <1>2, <1>6, ReportGoes
  <2> QED
    BY <1>6, <2>2, <2>3 DEF Report, Grows, Silent, Unstamped
<1>7. CASE Ack(t)
  BY <1>2, <1>3, <1>7, AckGoes DEF Ack
<1>8. CASE Fails(t)
  BY <1>2, <1>3, <1>8, FailsGoes DEF Fails
<1>9. ASSUME NEW c \in Concerns, Attach(t, c) PROVE Grows /\ Silent
  <2>1. Unstamped
    BY <1>2, <1>9, AttachGoes
  <2> QED
    BY <1>9, <2>1 DEF Attach, Grows, Silent, Unstamped
<1>10. CASE BFetch(t)
  BY <1>2, <1>3, <1>10, BFetchGoes DEF BFetch
<1>11. CASE BAsks(t)
  BY <1>2, <1>3, <1>11, BAsksGoes DEF BAsks
<1>12. CASE BAck(t)
  BY <1>2, <1>3, <1>12, AfterBeliefGoes DEF BAck
<1>13. CASE BFails(t)
  BY <1>2, <1>3, <1>13, AfterBeliefGoes DEF BFails
<1>14. ASSUME NEW b \in Beliefs, BApply(t, b) PROVE Grows /\ Silent
  <2>1. Unstamped
    BY <1>2, <1>14, BApplyGoes
  <2>2. \A d \in Beliefs : belief[d].heard \subseteq belief'[d].heard
    BY <1>14 DEF BApply, Typed, BeliefRecs
  <2> QED
    BY <1>14, <2>1, <2>2 DEF BApply, Grows, Silent, Unstamped
<1>15. ASSUME NEW b \in Beliefs, NEW action \in Answers, BEvidence(t, b, action) PROVE Grows /\ Silent
  <2>1. Unstamped
    <3>1. PICK at \in {"evidence", "apply"}, refs \in {th[t].refs, th[t].refs \ {b}} :
            Goes(t, at, th[t].queue, refs)
      BY <1>15, BEvidenceGoes
    <3> QED
      BY <1>2, <3>1
  <2>2. \A d \in Beliefs : belief[d].heard \subseteq belief'[d].heard
    BY <1>15 DEF BEvidence, Typed, BeliefRecs
  <2> QED
    BY <1>15, <2>1, <2>2 DEF BEvidence, Grows, Silent, Unstamped
<1> QED
  BY <1>4, <1>5, <1>6, <1>7, <1>8, <1>9, <1>10, <1>11, <1>12, <1>13, <1>14, <1>15 DEF DeliverStep

\* The steps outside deliveries and changes.
Elsewhere == Prep \/ Brain \/ Crash \/ UNCHANGED vars

\* What happens away from the delivering threads and the work objects tells nothing anew.
LEMMA ElsewhereGrows ==
  ASSUME OutcomeInv, Elsewhere
  PROVE  Grows /\ Silent
<1> USE DEF OutcomeInv
<1>1. CASE Prep
  BY <1>1, IdleRests DEF Prep, Grows, Silent, Typed, Idle
<1>2. CASE Brain
  <2>1. \A r : Known(inbox, r) => Known(inbox', r)
    BY <1>2, BrainSteps, SameAreKnown DEF Brain, PagesFollow, Typed
  <2> QED
    BY <1>2, <2>1 DEF Brain, dvars, Grows, Silent
<1>3. CASE Crash
  <2>1. \A r : Known(inbox, r) => Known(inbox', r)
    BY <1>3, CrashForgets, SameAreKnown
  <2>2. \A u \in Threads : th'[u].at # "stamped"
    BY <1>3, IdleRests DEF Crash
  <2>3. clock'.now = clock.now /\ clock'.changes = clock.changes
    BY <1>3 DEF Crash, Typed
  <2> QED
    BY <1>3, <2>1, <2>2, <2>3 DEF Crash, Grows, Silent
<1>4. CASE UNCHANGED vars
  BY <1>4 DEF vars, Grows, Silent
<1> QED
  BY <1>1, <1>2, <1>3, <1>4 DEF Elsewhere

\* A thread that takes a time, or is refused, tells nobody anything.
LEMMA ChangesGrow ==
  ASSUME Typed, Changes
  PROVE  Grows
<1>1. ASSUME NEW t \in Threads, TakeStamp(t) \/ Refused(t) PROVE Grows
  BY <1>1 DEF TakeStamp, Refused, Grows
<1>2. ASSUME NEW t \in Threads, NEW w \in Works, NEW next, NEW rows, NEW b, NEW rec,
             Writes(t, w, next, rows, b, rec)
      PROVE  Grows
  BY <1>2 DEF Writes, Commit, Grows
<1> QED
  BY <1>1, <1>2, ChangesWrite DEF Wrote

-----------------------------------------------------------------------------
(* Times and numbers.                                                        *)

\* A step that writes no receipt keeps their times and numbers.
LEMMA SilentStamps ==
  ASSUME Stamps, Silent
  PROVE  Stamps'
BY DEF Stamps, Silent, Keyed

\* A time is taken once.
LEMMA TakenOnce ==
  ASSUME Typed, Stamps, NEW t \in Threads, TakeStamp(t)
  PROVE  Stamps'
<1>1. /\ clock.now \in Nat /\ clock'.now = clock.now + 1 /\ clock'.changes = clock.changes
      /\ sent' = sent /\ bbox' = bbox
  BY DEF TakeStamp, Typed
<1>2. /\ th'[t].at = "stamped" /\ th'[t].stamp = clock.now
      /\ \A u \in Threads \ {t} : th'[u] = th[u]
  BY DEF TakeStamp, Typed, ThreadRecs
<1>3. \A r \in sent \cup bbox : r.at \in Nat /\ r.at < clock.now
  BY DEF Typed, Stamps, Rows, BRows
<1>4. \A u \in Threads : th[u].stamp \in Nat
  BY DEF Typed, ThreadRecs
<1>5. /\ \A r \in sent' : r.txn < clock'.changes
      /\ Keyed(sent') /\ Keyed(bbox')
      /\ \A r, q \in sent' : r.txn = q.txn => r.at = q.at
  BY <1>1 DEF Stamps
<1>6. \A r \in sent' \cup bbox' : r.at < clock'.now
  BY <1>1, <1>3
<1>7. ASSUME NEW u \in Threads, th'[u].at = "stamped"
      PROVE  th'[u].stamp < clock'.now /\ \A r \in sent' \cup bbox' : r.at # th'[u].stamp
  <2>1. CASE u = t
    BY <1>1, <1>2, <1>3, <2>1
  <2>2. CASE u # t
    <3>1. th[u].stamp < clock.now /\ \A r \in sent \cup bbox : r.at # th[u].stamp
      BY <1>2, <1>7, <2>2 DEF Stamps
    <3> QED
      BY <1>1, <1>2, <1>4, <2>2, <3>1
  <2> QED
    BY <2>1, <2>2
<1>8. ASSUME NEW u \in Threads, NEW v \in Threads, u # v, th'[u].at = "stamped", th'[v].at = "stamped"
      PROVE  th'[u].stamp # th'[v].stamp
  <2>1. CASE u = t \/ v = t
    BY <1>1, <1>2, <1>4, <1>8, <2>1 DEF Stamps
  <2>2. CASE u # t /\ v # t
    BY <1>2, <1>8, <2>2 DEF Stamps
  <2> QED
    BY <2>1, <2>2
<1> QED
  BY <1>5, <1>6, <1>7, <1>8 DEF Stamps, Keyed

\* The receipts of a change bear the time its thread took, and a number of their own.
LEMMA WrittenStamps ==
  ASSUME Typed, Stamps, NEW t \in Threads, NEW w \in Works, NEW next, NEW rows, NEW b, NEW rec,
         Writes(t, w, next, rows, b, rec)
  PROVE  Stamps'
<1>1. /\ clock.changes \in Nat /\ clock'.now = clock.now /\ clock'.changes = clock.changes + 1
      /\ sent' = sent \cup rows /\ bbox' = bbox \cup b
  BY DEF Writes, Commit, Typed
<1>2. /\ th[t].at = "stamped" /\ th'[t].at # "stamped" /\ \A u \in Threads \ {t} : th'[u] = th[u]
  BY Moved DEF Writes, Typed
<1>3. /\ \A r \in rows \cup b : r.at = th[t].stamp
      /\ \A r \in rows : r.txn = clock.changes
      /\ Keyed(rows) /\ Keyed(b)
  BY DEF Writes
<1>4. /\ \A r \in sent : r.txn \in Nat /\ r.txn < clock.changes
      /\ \A r \in sent \cup bbox : r.at < clock.now /\ r.at # th[t].stamp
      /\ th[t].stamp < clock.now
      /\ Keyed(sent) /\ Keyed(bbox)
  BY <1>2 DEF Typed, Stamps, Rows
<1>5. \A r \in sent' : r.txn < clock'.changes
  BY <1>1, <1>3, <1>4
<1>6. \A r \in sent' \cup bbox' : r.at < clock'.now
  BY <1>1, <1>3, <1>4
<1>7. Keyed(sent') /\ Keyed(bbox')
  BY <1>1, <1>3, <1>4 DEF Keyed
<1>8. \A r, q \in sent' : r.txn = q.txn => r.at = q.at
  BY <1>1, <1>3, <1>4 DEF Stamps
<1>9. ASSUME NEW u \in Threads, th'[u].at = "stamped"
      PROVE  th'[u].stamp < clock'.now /\ \A r \in sent' \cup bbox' : r.at # th'[u].stamp
  <2>1. u # t /\ th[u].at = "stamped" /\ th'[u] = th[u]
    BY <1>2, <1>9
  <2>2. /\ th[u].stamp # th[t].stamp
        /\ th[u].stamp < clock.now /\ \A r \in sent \cup bbox : r.at # th[u].stamp
    BY <1>2, <2>1 DEF Stamps
  <2> QED
    BY <1>1, <1>3, <2>1, <2>2
<1>10. \A u, v \in Threads : u # v /\ th'[u].at = "stamped" /\ th'[v].at = "stamped" =>
         th'[u].stamp # th'[v].stamp
  BY <1>2 DEF Stamps
<1> QED
  BY <1>5, <1>6, <1>7, <1>8, <1>9, <1>10 DEF Stamps, Keyed

\* Every step keeps the times and numbers of the receipts.
LEMMA StampsKept ==
  ASSUME OutcomeInv, [Next]_vars
  PROVE  Stamps'
<1> USE DEF OutcomeInv
<1>1. CASE Elsewhere
  BY <1>1, ElsewhereGrows, SilentStamps
<1>2. ASSUME NEW t \in Threads, DeliverStep(t) PROVE Stamps'
  BY <1>2, DeliveryGrows, SilentStamps DEF AllDelivering
<1>3. CASE Changes
  <2>1. ASSUME NEW t \in Threads, Refused(t) PROVE Silent
    BY <2>1, IdleRests DEF Refused, Silent, Typed
  <2> QED
    BY <1>3, <2>1, ChangesWrite, SilentStamps, TakenOnce, WrittenStamps DEF Wrote
<1> QED
  BY <1>1, <1>2, <1>3 DEF Next, Elsewhere

-----------------------------------------------------------------------------
(* Deliveries.                                                               *)

\* A thread that does not move keeps its place in the delivery.
LEMMA OthersDeliver ==
  ASSUME Typed, Stamps, Grows, NEW t \in Threads, Delivering(t), th'[t] = th[t]
  PROVE  Delivering(t)'
<1>1. Current(t)' = Current(t)
  BY DEF Current
<1>2. ASSUME th[t].at \in Reading, NEW q \in th[t].queue, NEW r \in sent', Precedes(r, q)
      PROVE  r \in th[t].queue \/ Known(inbox', r)
  <2>1. q \in sent /\ q.txn < clock.changes /\ q.txn \in Nat
    BY <1>2 DEF Delivering, Stamps, Typed, Rows
  <2>2. r \in sent
    BY <1>2, <2>1 DEF Grows, Precedes, Typed
  <2> QED
    BY <1>2, <2>2 DEF Delivering, Grows
<1>3. ASSUME th[t].at \in {"evidence", "apply"}, NEW b \in Current(t).refs \ th[t].refs
      PROVE  Current(t).work \in belief'[b].heard
  <2>1. Current(t).work \in belief[b].heard
    BY <1>3 DEF Delivering
  <2>2. b \in Beliefs
    BY <1>3, CurrentIsFirst DEF Telling, BRows, Delivering
  <2> QED
    BY <2>1, <2>2 DEF Grows
<1>4. th[t].at \in Reading => th[t].queue \subseteq sent'
  BY DEF Delivering, Grows
<1>5. th[t].at = "attach" =>
        \A c \in Current(t).refs \ th[t].refs : <<c, Current(t).work>> \in attached'
  BY DEF Delivering, Grows
<1>6. th[t].at = "poke" => Known(inbox', Current(t))
  BY DEF Delivering, Grows
<1> QED
  BY <1>1, <1>2, <1>3, <1>4, <1>5, <1>6 DEF Delivering

\* A thread with an empty list has nothing to keep.
LEMMA RestDelivers ==
  ASSUME NEW t \in Threads, th'[t].at \in {"idle", "stamped", "fetch"}, th'[t].queue = {}
  PROVE  Delivering(t)'
BY DEF Delivering, Reading, Telling

\* A thread reading on through its list keeps what is left of it.
LEMMA ReadsOn ==
  ASSUME Typed, Stamps, Grows, sent' = sent, NEW t \in Threads, Delivering(t), th[t].at \in Reading,
         th'[t].at = "concerns", th'[t].queue \subseteq th[t].queue,
         \A q \in th'[t].queue : \A r \in th[t].queue \ th'[t].queue :
            Precedes(r, q) => Known(inbox', r)
  PROVE  Delivering(t)'
<1>1. th[t].queue \subseteq sent
  BY DEF Delivering
<1>2. ASSUME NEW q \in th'[t].queue, NEW r \in sent, Precedes(r, q)
      PROVE  r \in th'[t].queue \/ Known(inbox', r)
  <2>1. r \in th[t].queue \/ Known(inbox, r)
    BY <1>2 DEF Delivering
  <2> QED
    BY <1>2, <2>1 DEF Grows
<1> QED
  BY <1>1, <1>2 DEF Delivering, Reading, Telling

\* A thread that turns to a receipt at hand keeps its list.
LEMMA KeepsList ==
  ASSUME Typed, Stamps, Grows, sent' = sent, NEW t \in Threads, Delivering(t), th[t].at \in Reading,
         th'[t].at \in Reading, th'[t].queue = th[t].queue
  PROVE  /\ Current(t)' = Current(t) /\ th'[t].queue \subseteq sent'
         /\ \A q \in th'[t].queue, r \in sent' :
              Precedes(r, q) => r \in th'[t].queue \/ Known(inbox', r)
<1>1. ASSUME NEW q \in th'[t].queue, NEW r \in sent', Precedes(r, q)
      PROVE  r \in th'[t].queue \/ Known(inbox', r)
  <2>1. r \in th[t].queue \/ Known(inbox, r)
    BY <1>1 DEF Delivering
  <2> QED
    BY <1>1, <2>1 DEF Grows
<1> QED
  BY <1>1 DEF Delivering, Current

\* The mover among the deliveries to the concerns.
LEMMA ConcernStepsDeliver ==
  ASSUME OutcomeInv, Grows, Silent, NEW t \in Threads, Delivering(t),
         Fetch(t) \/ AttachBegins(t) \/ Report(t) \/ Ack(t) \/ Fails(t) \/ \E c \in Concerns : Attach(t, c)
  PROVE  Delivering(t)'
<1> USE DEF OutcomeInv
<1>0. sent' = sent /\ {"concerns", "attach", "poke"} \subseteq Reading
      /\ {"concerns", "attach", "poke"} \cap ({"idle", "stamped", "fetch"} \cup Telling) = {}
  BY DEF Silent, Reading, Telling
<1>1. CASE Fetch(t)
  <2>1. th'[t].at = "concerns" /\ th'[t].queue = {r \in outbox : r.work \in th[t].scope}
    BY <1>1, FetchGoes DEF Goes
  <2>2. th'[t].queue \subseteq sent'
    BY <1>0, <2>1 DEF Typed
  <2>3. ASSUME NEW q \in th'[t].queue, NEW r \in sent', Precedes(r, q)
        PROVE  r \in th'[t].queue \/ Known(inbox', r)
    <3>1. r \in outbox \/ Delivered(r)
      BY <1>0, <2>3 DEF NothingLost
    <3>2. r.work = q.work /\ Reported(r)
      BY <2>3 DEF Precedes
    <3>3. Known(inbox, r) => Known(inbox', r)
      BY DEF Grows
    <3> QED
      BY <2>1, <3>1, <3>2, <3>3 DEF Delivered
  <2> QED
    BY <1>0, <2>1, <2>2, <2>3 DEF Delivering
<1>2. CASE AttachBegins(t)
  <2>1. th'[t].at = "attach" /\ th'[t].queue = th[t].queue /\ th'[t].refs = Current(t).refs
    BY <1>2, AttachBeginsGoes DEF Goes
  <2>2. th[t].at \in Reading /\ th[t].queue # {} /\ Current(t).kind = "attached"
    BY <1>0, <1>2 DEF AttachBegins, InHand
  <2> HIDE DEF OutcomeInv
  <2>3. /\ Current(t)' = Current(t) /\ th'[t].queue \subseteq sent'
        /\ \A q \in th'[t].queue, r \in sent' : Precedes(r, q) => r \in th'[t].queue \/ Known(inbox', r)
    BY <1>0, <2>1, <2>2, KeepsList DEF OutcomeInv
  <2> QED
    BY <1>0, <2>1, <2>2, <2>3 DEF Delivering
<1>3. CASE Report(t)
  <2>1. th'[t].at = "poke" /\ th'[t].queue = th[t].queue
    BY <1>3, ReportGoes DEF Goes
  <2>2. th[t].at \in Reading /\ th[t].queue # {} /\ Current(t).kind # "attached"
    BY <1>0, <1>3 DEF Report, InHand, Endings
  <2>3. Known(inbox', Current(t))
    <3>1. Current(t) \in Rows
      BY <2>2, CurrentIsFirst
    <3> QED
      BY <1>3, <3>1, ReportEnters DEF Report, Typed
  <2> HIDE DEF OutcomeInv
  <2>4. /\ Current(t)' = Current(t) /\ th'[t].queue \subseteq sent'
        /\ \A q \in th'[t].queue, r \in sent' : Precedes(r, q) => r \in th'[t].queue \/ Known(inbox', r)
    BY <1>0, <2>1, <2>2, KeepsList DEF OutcomeInv
  <2> QED
    BY <1>0, <2>1, <2>2, <2>3, <2>4 DEF Delivering
<1>4. ASSUME NEW c \in Concerns, Attach(t, c) PROVE Delivering(t)'
  <2>1. th'[t].at = "attach" /\ th'[t].queue = th[t].queue /\ th'[t].refs = th[t].refs \ {c}
    BY <1>4, AttachGoes DEF Goes
  <2>2. th[t].at = "attach" /\ attached' = attached \cup {<<c, Current(t).work>>}
    BY <1>4 DEF Attach
  <2>3. th[t].queue # {} /\ Current(t).kind = "attached"
        /\ \A d \in Current(t).refs \ th[t].refs : <<d, Current(t).work>> \in attached
    BY <2>2 DEF Delivering
  <2> HIDE DEF OutcomeInv
  <2>4. /\ Current(t)' = Current(t) /\ th'[t].queue \subseteq sent'
        /\ \A q \in th'[t].queue, r \in sent' : Precedes(r, q) => r \in th'[t].queue \/ Known(inbox', r)
    BY <1>0, <2>1, <2>2, KeepsList DEF OutcomeInv
  <2>5. \A d \in Current(t).refs \ th'[t].refs : <<d, Current(t).work>> \in attached'
    BY <2>1, <2>2, <2>3
  <2> QED
    BY <1>0, <2>1, <2>3, <2>4, <2>5 DEF Delivering
<1>5. CASE Ack(t)
  <2>1. th'[t].at = "concerns" /\ th'[t].queue = th[t].queue \ {Current(t)}
    BY <1>5, AckGoes DEF Goes
  <2>2. th[t].at \in Reading
    BY <1>0, <1>5 DEF Ack, InHand
  <2>3. Reported(Current(t)) => Known(inbox', Current(t))
    BY <1>5 DEF Ack, Delivering, Reported, InHand, Grows
  <2>4. \A q \in th'[t].queue : \A r \in th[t].queue \ th'[t].queue : Precedes(r, q) => Known(inbox', r)
    BY <2>1, <2>3 DEF Precedes
  <2> HIDE DEF OutcomeInv
  <2> QED
    BY <1>0, <2>1, <2>2, <2>4, ReadsOn DEF OutcomeInv
<1>6. CASE Fails(t)
  <2>1. th'[t].at = "concerns" /\ th'[t].queue = {r \in th[t].queue : r.work # Current(t).work}
    BY <1>6, FailsGoes DEF Goes
  <2>2. th[t].at \in Reading
    BY <1>0, <1>6 DEF Fails, DeliveryMayFail, InHand
  <2>3. \A q \in th'[t].queue : \A r \in th[t].queue \ th'[t].queue : Precedes(r, q) => Known(inbox', r)
    BY <2>1 DEF Precedes
  <2> HIDE DEF OutcomeInv
  <2> QED
    BY <1>0, <2>1, <2>2, <2>3, ReadsOn DEF OutcomeInv
<1> QED
  BY <1>1, <1>2, <1>3, <1>4, <1>5, <1>6

\* The mover among the deliveries to the beliefs.
LEMMA BeliefStepsDeliver ==
  ASSUME OutcomeInv, Grows, Silent, NEW t \in Threads, Delivering(t),
         \/ BFetch(t) \/ BAsks(t) \/ BAck(t) \/ BFails(t)
         \/ \E b \in Beliefs : BApply(t, b) \/ \E action \in Answers : BEvidence(t, b, action)
  PROVE  Delivering(t)'
<1> USE DEF OutcomeInv
<1>0. {"beliefs", "evidence", "apply"} \subseteq Telling
      /\ {"beliefs", "evidence", "apply"} \cap ({"idle", "stamped", "fetch"} \cup Reading) = {}
  BY DEF Reading, Telling
<1>1. ASSUME th'[t].at = "beliefs", th'[t].queue # {}, th'[t].queue \subseteq BRows, Keyed(th'[t].queue)
      PROVE  Delivering(t)'
  BY <1>0, <1>1 DEF Delivering
<1>2. CASE Goes(t, "idle", {}, {})
  BY <1>2, RestDelivers DEF Goes
<1>3. CASE BFetch(t)
  <2>1. ASSUME NEW queue \in SUBSET bbox, queue # {}, Goes(t, "beliefs", queue, th[t].refs)
        PROVE  Delivering(t)'
    <3>1. queue \subseteq BRows /\ Keyed(queue)
      BY DEF Typed, Stamps, Keyed
    <3> QED
      BY <1>1, <2>1, <3>1 DEF Goes
  <2> QED
    BY <1>2, <1>3, <2>1, BFetchGoes
<1>4. ASSUME th[t].at \in Telling, th'[t].at \in {"evidence", "apply"}, th'[t].queue = th[t].queue,
             \A b \in Current(t).refs \ th'[t].refs : Current(t).work \in belief'[b].heard
      PROVE  Delivering(t)'
  <2>1. Current(t)' = Current(t)
    BY <1>4 DEF Current
  <2> QED
    BY <1>0, <1>4, <2>1 DEF Delivering
<1>5. CASE BAsks(t)
  <2>1. th'[t].at = "evidence" /\ th'[t].queue = th[t].queue /\ th'[t].refs = Unheard(Current(t))
    BY <1>5, BAsksGoes DEF Goes
  <2>2. th[t].at \in Telling /\ belief' = belief
    BY <1>0, <1>5 DEF BAsks
  <2>3. \A b \in Current(t).refs \ th'[t].refs : Current(t).work \in belief'[b].heard
    BY <2>1, <2>2 DEF Unheard
  <2> QED
    BY <1>4, <2>1, <2>2, <2>3
<1>6. ASSUME NEW b \in Beliefs, BApply(t, b) PROVE Delivering(t)'
  <2>1. th'[t].at = "evidence" /\ th'[t].queue = th[t].queue /\ th'[t].refs = th[t].refs \ {b}
    BY <1>6, BApplyGoes DEF Goes
  <2>2. th[t].at = "apply" /\ Current(t).work \in belief[b].heard
    BY <1>6 DEF BApply
  <2>3. /\ \A d \in Current(t).refs \ th[t].refs : Current(t).work \in belief[d].heard
        /\ Current(t).refs = Beliefs
    BY <1>0, <2>2, CurrentIsFirst DEF Delivering, BRows
  <2>4. \A d \in Current(t).refs \ th'[t].refs : Current(t).work \in belief'[d].heard
    BY <2>1, <2>2, <2>3 DEF Grows
  <2> QED
    BY <1>0, <1>4, <2>1, <2>2, <2>4
<1>7. ASSUME NEW b \in Beliefs, NEW action \in Answers, BEvidence(t, b, action) PROVE Delivering(t)'
  <2>1. PICK at \in {"evidence", "apply"}, refs \in {th[t].refs, th[t].refs \ {b}} :
          Goes(t, at, th[t].queue, refs)
    BY <1>7, BEvidenceGoes
  <2>2. th'[t].at \in {"evidence", "apply"} /\ th'[t].queue = th[t].queue
        /\ th[t].refs \ {b} \subseteq th'[t].refs
    BY <2>1 DEF Goes
  <2>3. th[t].at = "evidence"
    BY <1>7 DEF BEvidence
  <2>4. Current(t).work \in belief'[b].heard
    <3>1. /\ belief \in [Beliefs -> BeliefRecs]
          /\ belief' = [belief EXCEPT ![b].heard = @ \cup {Current(t).work}, ![b].decided = @ \cup {action}]
      BY <1>7 DEF BEvidence, Typed
    <3> HIDE DEF OutcomeInv
    <3> QED
      BY <3>1 DEF BeliefRecs
  <2>5. /\ \A d \in Current(t).refs \ th[t].refs : Current(t).work \in belief[d].heard
        /\ Current(t).refs = Beliefs
    BY <1>0, <2>3, CurrentIsFirst DEF Delivering, BRows
  <2>6. \A d \in Current(t).refs \ th'[t].refs : Current(t).work \in belief'[d].heard
    BY <2>2, <2>4, <2>5 DEF Grows
  <2> QED
    BY <1>0, <1>4, <2>2, <2>3, <2>6
<1>8. CASE BAck(t) \/ BFails(t)
  <2>1. Move(t, AfterBelief(t)) /\ th[t].at \in Telling
    BY <1>0, <1>8 DEF BAck, BFails
  <2>2. th[t].queue \subseteq BRows /\ Keyed(th[t].queue)
    BY <2>1 DEF Delivering
  <2>3. ASSUME NEW queue \in SUBSET th[t].queue, queue # {}, Goes(t, "beliefs", queue, {})
        PROVE  Delivering(t)'
    <3>1. queue \subseteq BRows /\ Keyed(queue)
      BY <2>2 DEF Keyed
    <3> QED
      BY <1>1, <2>3, <3>1 DEF Goes
  <2> QED
    BY <1>2, <2>1, <2>3, AfterBeliefGoes
<1> QED
  BY <1>3, <1>5, <1>6, <1>7, <1>8

\* Every step keeps the deliveries in order.
LEMMA DeliveriesKept ==
  ASSUME OutcomeInv, [Next]_vars
  PROVE  AllDelivering'
<1> SUFFICES ASSUME NEW t \in Threads PROVE Delivering(t)'
  BY DEF AllDelivering
<1>1. Typed /\ Stamps /\ Delivering(t)
  BY DEF OutcomeInv, AllDelivering
<1>2. CASE th'[t] = th[t]
  <2>1. Grows
    BY <1>1, ElsewhereGrows, ChangesGrow, DeliveryGrows DEF Next, Elsewhere, AllDelivering, OutcomeInv
  <2> QED
    BY <1>1, <1>2, <2>1, OthersDeliver
<1>3. ASSUME NEW u \in Threads, DeliverStep(u), th'[t] # th[t] PROVE Delivering(t)'
  <2>1. Delivering(u)
    BY DEF OutcomeInv, AllDelivering
  <2>2. Grows /\ Silent
    BY <1>1, <1>3, <2>1, DeliveryGrows
  <2>3. CASE u = t
    BY <1>1, <1>3, <2>2, <2>3, ConcernStepsDeliver, BeliefStepsDeliver DEF DeliverStep
  <2>4. CASE u # t
    <3>1. ASSUME NEW at, NEW queue, NEW refs, Goes(u, at, queue, refs) PROVE FALSE
      BY <1>3, <2>4, <3>1 DEF Goes
    <3> QED
      BY <1>1, <1>3, <2>1, <3>1, FetchGoes, AttachBeginsGoes, AttachGoes, ReportGoes, AckGoes, FailsGoes,
         BFetchGoes, BAsksGoes, BEvidenceGoes, BApplyGoes, AfterBeliefGoes DEF DeliverStep, BAck, BFails
  <2> QED
    BY <2>3, <2>4
<1>4. CASE Changes /\ th'[t] # th[t]
  <2>1. ASSUME NEW u \in Threads, TakeStamp(u) PROVE Delivering(t)'
    <3>1. u = t /\ th'[t].at = "stamped" /\ th'[t].queue = th[t].queue /\ th[t].at = "idle"
      BY <1>1, <1>4, <2>1 DEF TakeStamp, Typed, ThreadRecs
    <3>2. th[t].queue = {}
      BY <1>1, <3>1 DEF Delivering
    <3> QED
      BY <3>1, <3>2, RestDelivers
  <2>2. ASSUME NEW u \in Threads, Refused(u) PROVE Delivering(t)'
    <3>1. th'[t] = Idle
      BY <1>1, <1>4, <2>2 DEF Refused, Typed
    <3> QED
      BY <3>1, IdleRests, RestDelivers
  <2>3. ASSUME NEW u \in Threads, NEW w \in Works, NEW next, NEW rows, NEW b, NEW rec,
               Writes(u, w, next, rows, b, rec)
        PROVE  Delivering(t)'
    <3>1. th'[t] = rec /\ rec.at \in {"idle", "fetch"} /\ rec.queue = {}
      BY <1>1, <1>4, <2>3, Moved DEF Writes, Typed
    <3> QED
      BY <3>1, RestDelivers
  <2> QED
    BY <1>1, <1>4, <2>1, <2>2, <2>3, ChangesWrite DEF Wrote
<1>5. CASE Elsewhere /\ th'[t] # th[t]
  <2>1. ASSUME Prep PROVE Delivering(t)'
    <3>1. th'[t].at = "fetch" /\ th'[t].queue = {}
      BY <1>1, <1>5, <2>1, IdleRests DEF Prep, Typed, Idle
    <3> QED
      BY <3>1, RestDelivers
  <2>2. ASSUME Crash PROVE Delivering(t)'
    BY <2>2, IdleRests, RestDelivers DEF Crash
  <2> QED
    BY <1>5, <2>1, <2>2 DEF Elsewhere, Brain, dvars, vars
<1> QED
  BY <1>2, <1>3, <1>4, <1>5 DEF Next, Elsewhere

-----------------------------------------------------------------------------
(* Nothing is lost.                                                          *)

\* Every step keeps what was told.
LEMMA StepGrows ==
  ASSUME OutcomeInv, [Next]_vars
  PROVE  Grows
BY ElsewhereGrows, ChangesGrow, DeliveryGrows DEF Next, Elsewhere, AllDelivering, OutcomeInv

\* A receipt is acknowledged when all it was for is done.
LEMMA AckedIsDelivered ==
  ASSUME Typed, Stamps, NEW t \in Threads, Delivering(t), Ack(t)
  PROVE  Delivered(Current(t))
<1>1. CASE th[t].at = "poke"
  BY <1>1 DEF Delivering, Delivered
<1>2. CASE th[t].at = "attach" /\ th[t].refs = {}
  BY <1>2 DEF Delivering, Delivered, Reported
<1>3. CASE InHand(t, {"judged"} \cup Endings) /\ ~Reported(Current(t))
  BY <1>3 DEF InHand, Endings, Delivered
<1> QED
  BY <1>1, <1>2, <1>3 DEF Ack

\* The table loses what is delivered only, and new receipts enter it.
LEMMA OutboxSteps ==
  ASSUME OutcomeInv, [Next]_vars
  PROVE  /\ \A r \in outbox \ outbox' : Delivered(r)
         /\ sent' \ sent \subseteq outbox'
<1>1. CASE Elsewhere
  BY <1>1 DEF Elsewhere, Prep, Brain, Crash, vars, dvars
<1>2. CASE Changes
  <2>1. ASSUME NEW u \in Threads, NEW w \in Works, NEW next, NEW rows, NEW b, NEW rec,
               Writes(u, w, next, rows, b, rec)
        PROVE  outbox \subseteq outbox' /\ sent' \ sent \subseteq outbox'
    BY <2>1 DEF Writes, Commit
  <2>2. ASSUME NEW u \in Threads, TakeStamp(u) \/ Refused(u)
        PROVE  outbox' = outbox /\ sent' = sent
    BY <2>2 DEF TakeStamp, Refused
  <2> QED
    BY <1>2, <2>1, <2>2, ChangesWrite DEF Wrote, OutcomeInv
<1>3. ASSUME NEW t \in Threads, DeliverStep(t)
      PROVE  sent' = sent /\ \A r \in outbox \ outbox' : Delivered(r)
  <2>1. CASE Ack(t)
    BY <2>1, AckedIsDelivered DEF Ack, OutcomeInv, AllDelivering
  <2>2. CASE ~Ack(t)
    BY <1>3, <2>2 DEF DeliverStep, Fetch, AttachBegins, Attach, Report, Fails, BFetch, BAsks, BAck, BFails,
       BApply, BEvidence
  <2> QED
    BY <2>1, <2>2
<1> QED
  BY <1>1, <1>2, <1>3 DEF Next, Elsewhere

\* A receipt leaves the outbox only when it was delivered.
LEMMA NothingLostKept ==
  ASSUME OutcomeInv, [Next]_vars
  PROVE  NothingLost'
<1>1. Grows
  BY StepGrows
<1>2. ASSUME NEW r, Delivered(r) PROVE Delivered(r)'
  BY <1>1, <1>2 DEF Delivered, Grows
<1>3. ASSUME NEW r \in sent' PROVE r \in outbox' \/ Delivered(r)'
  BY <1>2, OutboxSteps DEF OutcomeInv, NothingLost
<1> QED
  BY <1>3 DEF NothingLost

-----------------------------------------------------------------------------
(* The order of the reports.                                                 *)

\* The inbox changes by a run of the brain or by a report.
LEMMA InboxMoves ==
  ASSUME OutcomeInv, [Next]_vars
  PROVE  UNCHANGED inbox \/ BrainRuns \/ \E t \in Threads : Report(t)
<1>1. CASE Elsewhere
  BY <1>1, CrashForgets DEF Elsewhere, Prep, Brain, vars, OutcomeInv
<1>2. CASE Changes
  <2>1. ASSUME NEW t \in Threads, TakeStamp(t) \/ Refused(t) PROVE UNCHANGED inbox
    BY <2>1 DEF TakeStamp, Refused
  <2>2. ASSUME NEW t \in Threads, NEW w \in Works, NEW next, NEW rows, NEW b, NEW rec,
               Writes(t, w, next, rows, b, rec)
        PROVE  UNCHANGED inbox
    BY <2>2 DEF Writes, Commit
  <2> QED
    BY <1>2, <2>1, <2>2, ChangesWrite DEF Wrote, OutcomeInv
<1>3. ASSUME NEW t \in Threads, DeliverStep(t) PROVE UNCHANGED inbox \/ Report(t)
  BY <1>3 DEF DeliverStep, Fetch, AttachBegins, Attach, Ack, Fails, BFetch, BAsks, BAck, BFails,
     BApply, BEvidence
<1> QED
  BY <1>1, <1>2, <1>3 DEF Next, Elsewhere

\* Only a report enters the inbox.
LEMMA InboxSteps ==
  ASSUME OutcomeInv, [Next]_vars
  PROVE  SameReports \/ \E t \in Threads : Report(t)
BY InboxMoves, BrainSteps DEF SameReports, OutcomeInv, Typed, PagesFollow

\* The receipt a thread is about to report precedes no report that is in, and what precedes it is in.
LEMMA ReportInTurn ==
  ASSUME OutcomeInv, NEW t \in Threads, Report(t)
  PROVE  /\ Current(t) \in sent /\ Current(t) \in Rows /\ Reported(Current(t)) /\ sent' = sent
         /\ \A r \in sent : Precedes(r, Current(t)) => Known(inbox, r)
<1>1. th[t].at \in Reading /\ th[t].queue # {} /\ Typed /\ Stamps /\ Delivering(t)
  BY DEF Report, InHand, Reading, OutcomeInv, AllDelivering
<1>2. /\ Current(t) \in th[t].queue /\ Current(t) \in sent /\ Current(t) \in Rows
      /\ \A q \in th[t].queue \ {Current(t)} : Before(Current(t), q)
  BY <1>1, CurrentIsFirst
<1>3. ASSUME NEW r \in sent, Precedes(r, Current(t)) PROVE Known(inbox, r)
  <2>1. r.txn = Current(t).txn /\ r.pos < Current(t).pos
    BY <1>3 DEF Precedes
  <2>2. r.at = Current(t).at
    BY <1>1, <1>2, <2>1 DEF Stamps
  <2>3. r \in Rows
    BY <1>1 DEF Typed
  <2>4. r # Current(t) /\ ~Before(Current(t), r)
    BY <1>2, <2>1, <2>2, <2>3 DEF Rows, Before
  <2>5. r \notin th[t].queue
    BY <1>2, <2>4
  <2> QED
    BY <1>1, <1>2, <1>3, <2>5 DEF Delivering
<1> QED
  BY <1>2, <1>3 DEF Report

\* A report reaches the inbox after those that precede it.
LEMMA InboxFollowsKept ==
  ASSUME OutcomeInv, [Next]_vars
  PROVE  InboxFollows'
<1>1. /\ \A i \in DOMAIN inbox : inbox[i].ref \in sent
      /\ \A r, q \in sent : Precedes(r, q) /\ Known(inbox, q) => Known(inbox, r)
      /\ \A r \in sent : r.txn < clock.changes /\ r.txn \in Nat
      /\ sent \subseteq sent' /\ \A r \in sent' \ sent : r.txn = clock.changes
      /\ \A r : Known(inbox, r) => Known(inbox', r)
  BY StepGrows DEF OutcomeInv, InboxFollows, Typed, Stamps, Rows, Grows
<1>2. CASE SameReports
  <2>1. \A i \in DOMAIN inbox' : inbox'[i].ref \in sent'
    BY <1>1, <1>2 DEF SameReports
  <2>2. \A r : Known(inbox', r) <=> Known(inbox, r)
    BY <1>2, SameAreKnown
  <2>3. ASSUME NEW r \in sent', NEW q \in sent', Precedes(r, q), Known(inbox, q) PROVE Known(inbox, r)
    <3>1. q \in sent /\ r.txn = q.txn
      BY <1>1, <2>3 DEF Known, Precedes
    <3>2. r \in sent
      BY <1>1, <3>1
    <3> QED
      BY <1>1, <2>3, <3>1, <3>2
  <2> QED
    BY <2>1, <2>2, <2>3 DEF InboxFollows
<1>3. ASSUME NEW t \in Threads, Report(t) PROVE InboxFollows'
  <2> DEFINE p == Current(t)
  <2>1. /\ p \in sent /\ p \in Rows /\ sent' = sent
        /\ \A r \in sent : Precedes(r, p) => Known(inbox, r)
    BY <1>3, ReportInTurn
  <2>2. inbox' = WithEvent(inbox, p) /\ InboxOK
    BY <1>3 DEF Report, OutcomeInv, Typed
  <2> HIDE DEF p
  <2>3. \A q : Known(inbox', q) <=> Known(inbox, q) \/ q = p
    BY <2>1, <2>2, ReportEnters
  <2>4. ASSUME NEW i \in DOMAIN inbox' PROVE inbox'[i].ref \in sent'
    <3>1. Known(inbox', inbox'[i].ref)
      BY DEF Known
    <3>2. \A q : Known(inbox, q) => q \in sent
      BY <1>1 DEF Known
    <3> QED
      BY <2>1, <2>3, <3>1, <3>2
  <2>5. ASSUME NEW r \in sent', NEW q \in sent', Precedes(r, q), Known(inbox', q) PROVE Known(inbox', r)
    BY <1>1, <2>1, <2>3, <2>5
  <2> QED
    BY <2>4, <2>5 DEF InboxFollows
<1> QED
  BY <1>2, <1>3, InboxSteps

\* The reports of one transaction enter in their order.
LEMMA OrderKept ==
  ASSUME OutcomeInv, [Next]_vars
  PROVE  OneTransactionInOrder'
<1>1. CASE SameReports
  BY <1>1 DEF OutcomeInv, OneTransactionInOrder, SameReports
<1>2. ASSUME NEW t \in Threads, Report(t) PROVE OneTransactionInOrder'
  <2> DEFINE p == Current(t)
             n == Len(inbox)
  <2>1. /\ p \in sent /\ p \in Rows /\ Reported(p) /\ inbox' = WithEvent(inbox, p) /\ InboxOK
    BY <1>2, ReportInTurn DEF Report, OutcomeInv, Typed
  <2> HIDE DEF p
  <2>2. CASE inbox' = inbox
    BY <2>2 DEF OutcomeInv, OneTransactionInOrder
  <2>3. CASE inbox' # inbox
    <3>1. /\ ~Known(inbox, p) /\ n \in Nat /\ DOMAIN inbox = 1 .. n /\ DOMAIN inbox' = 1 .. n + 1
          /\ \A i \in DOMAIN inbox : inbox'[i] = inbox[i]
          /\ inbox'[n + 1] = [ref |-> p, state |-> "pending", applied |-> 0]
      <4>1. \/ inbox' = inbox /\ Known(inbox, p)
            \/ /\ ~Known(inbox, p)
               /\ Len(inbox) \in Nat /\ DOMAIN inbox = 1 .. Len(inbox)
               /\ DOMAIN inbox' = 1 .. Len(inbox) + 1
               /\ \A i \in DOMAIN inbox : inbox'[i] = inbox[i]
               /\ inbox'[Len(inbox) + 1] = [ref |-> p, state |-> "pending", applied |-> 0]
        BY <2>1, ReportEnters
      <4> QED
        BY <2>3, <4>1
    <3> HIDE DEF n
    <3> SUFFICES ASSUME NEW i \in DOMAIN inbox', NEW j \in DOMAIN inbox',
                        inbox'[i].ref.work = inbox'[j].ref.work, inbox'[i].ref.txn = inbox'[j].ref.txn,
                        inbox'[i].ref.pos < inbox'[j].ref.pos
                 PROVE  i < j
      BY DEF OneTransactionInOrder
    <3>2. CASE i \in DOMAIN inbox /\ j \in DOMAIN inbox
      BY <3>1, <3>2 DEF OutcomeInv, OneTransactionInOrder
    <3>3. CASE i = n + 1 /\ j \in DOMAIN inbox
      <4>1. inbox[j].ref \in sent /\ Known(inbox, inbox[j].ref)
        BY <3>3 DEF OutcomeInv, InboxFollows, Known
      <4>2. Precedes(p, inbox[j].ref)
        BY <2>1, <3>1, <3>3 DEF Precedes
      <4> QED
        BY <2>1, <3>1, <4>1, <4>2 DEF OutcomeInv, InboxFollows
    <3>4. CASE j = n + 1 /\ i \in DOMAIN inbox
      BY <3>1, <3>4
    <3>5. CASE i = n + 1 /\ j = n + 1
      BY <2>1, <3>1, <3>5 DEF Rows
    <3> QED
      BY <3>1, <3>2, <3>3, <3>4, <3>5
  <2> QED
    BY <2>2, <2>3
<1> QED
  BY <1>1, <1>2, InboxSteps

\* A report that is not in yet becomes the last event.
LEMMA LastIsNew ==
  ASSUME InboxOK, NEW p \in Rows, inbox' = WithEvent(inbox, p), inbox' # inbox
  PROVE  /\ ~Known(inbox, p) /\ Len(inbox) \in Nat /\ DOMAIN inbox = 1 .. Len(inbox)
         /\ DOMAIN inbox' = 1 .. Len(inbox) + 1
         /\ \A k \in DOMAIN inbox : inbox'[k] = inbox[k]
         /\ inbox'[Len(inbox) + 1].ref = p
<1>1. \/ inbox' = inbox /\ Known(inbox, p)
      \/ /\ ~Known(inbox, p)
         /\ Len(inbox) \in Nat /\ DOMAIN inbox = 1 .. Len(inbox)
         /\ DOMAIN inbox' = 1 .. Len(inbox) + 1
         /\ \A i \in DOMAIN inbox : inbox'[i] = inbox[i]
         /\ inbox'[Len(inbox) + 1] = [ref |-> p, state |-> "pending", applied |-> 0]
  BY ReportEnters
<1> QED
  BY <1>1

\* A report that is in does not enter again.
LEMMA OneEachKept ==
  ASSUME OutcomeInv, [Next]_vars
  PROVE  OneEach'
<1>1. CASE SameReports
  BY <1>1 DEF OutcomeInv, OneEach, SameReports
<1>2. ASSUME NEW t \in Threads, Report(t) PROVE OneEach'
  <2> DEFINE p == Current(t)
  <2>1. p \in Rows /\ inbox' = WithEvent(inbox, p) /\ InboxOK /\ OneEach
    BY <1>2, ReportInTurn DEF Report, OutcomeInv, Typed
  <2> HIDE DEF p
  <2>3. CASE inbox' = inbox
    BY <2>1, <2>3 DEF OneEach
  <2>4. CASE inbox' # inbox
    <3> DEFINE n == Len(inbox)
    <3>1. /\ ~Known(inbox, p) /\ n \in Nat /\ DOMAIN inbox = 1 .. n /\ DOMAIN inbox' = 1 .. n + 1
          /\ \A i \in DOMAIN inbox : inbox'[i] = inbox[i]
          /\ inbox'[n + 1].ref = p
      BY <2>1, <2>4, LastIsNew
    <3> HIDE DEF n
    <3>2. \A i \in DOMAIN inbox : inbox'[i].ref # p
      BY <3>1 DEF Known
    <3>3. \A i \in DOMAIN inbox' : i \in DOMAIN inbox \/ i = n + 1
      BY <3>1
    <3>4. \A i, j \in DOMAIN inbox : inbox'[i].ref = inbox'[j].ref => i = j
      BY <2>1, <3>1 DEF OneEach
    <3> QED
      BY <3>1, <3>2, <3>3, <3>4 DEF OneEach
  <2> QED
    BY <2>3, <2>4
<1> QED
  BY <1>1, <1>2, InboxSteps

\* An event that is recorded stays as it is, and no other comes for the same report.
LEMMA DecisionsStay ==
  ASSUME OutcomeInv, [Next]_vars, NEW i \in DOMAIN inbox, Recorded(inbox[i]),
         NEW j \in DOMAIN inbox', inbox'[j].ref = inbox[i].ref
  PROVE  inbox'[j] = inbox[i]
<1>1. OneEach /\ InboxOK /\ PageOK
  BY DEF OutcomeInv, Typed, PagesFollow
<1>2. CASE UNCHANGED inbox
  BY <1>1, <1>2 DEF OneEach
<1>3. CASE BrainRuns
  <2>1. RecordedStay /\ SameReports
    BY <1>1, <1>3, BrainKeepsPage, BrainSteps
  <2> QED
    BY <1>1, <2>1 DEF RecordedStay, SameReports, OneEach
<1>4. ASSUME NEW t \in Threads, Report(t) PROVE inbox'[j] = inbox[i]
  <2> DEFINE p == Current(t)
  <2>1. p \in Rows /\ inbox' = WithEvent(inbox, p)
    BY <1>4, ReportInTurn DEF Report
  <2> HIDE DEF p
  <2>3. CASE j \in DOMAIN inbox
    <3>1. inbox'[j] = inbox[j]
      BY <1>1, <2>1, <2>3, LastIsNew
    <3> QED
      BY <1>1, <2>3, <3>1 DEF OneEach
  <2>4. CASE j \notin DOMAIN inbox
    <3>1. /\ ~Known(inbox, p) /\ Len(inbox) \in Nat /\ DOMAIN inbox = 1 .. Len(inbox)
          /\ DOMAIN inbox' = 1 .. Len(inbox) + 1
          /\ inbox'[Len(inbox) + 1].ref = p
      BY <1>1, <2>1, <2>4, LastIsNew
    <3>2. j = Len(inbox) + 1
      BY <2>4, <3>1
    <3> QED
      BY <3>1, <3>2 DEF Known
  <2> QED
    BY <2>3, <2>4
<1> QED
  BY <1>2, <1>3, <1>4, InboxMoves

-----------------------------------------------------------------------------
(* What the beliefs were told.                                               *)

\* Every belief holds the evidence of work w.
Told(w) == \A b \in Beliefs : w \in belief[b].heard

\* A belief receipt is acknowledged when every belief has been told.
LEMMA BAckedIsTold ==
  ASSUME Typed, Stamps, NEW t \in Threads, Delivering(t), BAck(t)
  PROVE  Told(Current(t).work)
<1>1. th[t].at \in Telling /\ th[t].queue # {}
  BY DEF BAck, Telling, Delivering
<1>2. Current(t).refs = Beliefs
  BY <1>1, CurrentIsFirst DEF BRows
<1>3. CASE th[t].at = "beliefs" /\ Unheard(Current(t)) = {}
  BY <1>2, <1>3 DEF Unheard, Told
<1>4. CASE th[t].at = "evidence" /\ th[t].refs = {}
  BY <1>2, <1>4 DEF Delivering, Told
<1> QED
  BY <1>3, <1>4 DEF BAck

\* A receipt to the beliefs leaves its outbox only when every belief was told.
LEMMA BeliefsWereToldKept ==
  ASSUME OutcomeInv, [Next]_vars
  PROVE  BeliefsWereTold'
<1>1. ASSUME NEW w \in Works, Told(w) PROVE Told(w)'
  BY <1>1, StepGrows DEF Told, Grows
<1>2. ASSUME NEW w \in Works, work[w].status \in Endings, \A r \in bbox : r.work # w PROVE Told(w)
  BY <1>2 DEF OutcomeInv, BeliefsWereTold, Told
<1>3. ASSUME Silent, \A r \in bbox \ bbox' : Told(r.work) PROVE BeliefsWereTold'
  <2>1. ASSUME NEW w \in Works, work'[w].status \in Endings, \A r \in bbox' : r.work # w
        PROVE  Told(w)'
    <3>1. work' = work
      BY <1>3 DEF Silent
    <3>2. CASE \E r \in bbox : r.work = w
      BY <1>1, <1>3, <2>1, <3>2
    <3>3. CASE \A r \in bbox : r.work # w
      BY <1>1, <1>2, <2>1, <3>1, <3>3
    <3> QED
      BY <3>2, <3>3
  <2> QED
    BY <2>1 DEF BeliefsWereTold, Told
<1>4. CASE Elsewhere
  <2>1. bbox' = bbox
    BY <1>4 DEF Elsewhere, Prep, Brain, Crash, vars, dvars
  <2> QED
    BY <1>3, <1>4, <2>1, ElsewhereGrows
<1>5. ASSUME NEW t \in Threads, DeliverStep(t) PROVE BeliefsWereTold'
  <2>1. Typed /\ Stamps /\ Delivering(t)
    BY DEF OutcomeInv, AllDelivering
  <2>2. Silent
    BY <1>5, <2>1, DeliveryGrows
  <2>3. CASE BAck(t)
    <3>1. bbox' = bbox \ {Current(t)}
      BY <2>3 DEF BAck
    <3> QED
      BY <1>3, <2>1, <2>2, <2>3, <3>1, BAckedIsTold
  <2>4. CASE ~BAck(t)
    <3>1. bbox' = bbox
      BY <1>5, <2>4 DEF DeliverStep, Fetch, AttachBegins, Attach, Report, Ack, Fails, BFetch, BAsks, BFails,
         BApply, BEvidence
    <3> QED
      BY <1>3, <2>2, <3>1
  <2> QED
    BY <2>3, <2>4
<1>6. ASSUME NEW t \in Threads, TakeStamp(t) \/ Refused(t) PROVE BeliefsWereTold'
  BY <1>6 DEF TakeStamp, Refused, OutcomeInv, BeliefsWereTold
<1>7. ASSUME NEW t \in Threads, NEW w \in Works, NEW next, NEW rows, NEW b, NEW rec,
             Writes(t, w, next, rows, b, rec)
      PROVE  BeliefsWereTold'
  <2>1. /\ work \in [Works -> WorkRecs] /\ work' = [work EXCEPT ![w] = next] /\ bbox' = bbox \cup b
        /\ \A r \in b : r.work = w
        /\ next.status \in Endings => next.status = work[w].status \/ b # {} \/ Beliefs = {}
    BY <1>7 DEF Writes, Commit, OutcomeInv, Typed
  <2>2. ASSUME NEW v \in Works, work'[v].status \in Endings, \A r \in bbox' : r.work # v
        PROVE  Told(v)'
    <3>1. \A r \in bbox : r.work # v
      BY <2>1, <2>2
    <3>2. CASE v # w
      BY <1>1, <1>2, <2>1, <2>2, <3>1, <3>2
    <3>3. CASE v = w
      <4>1. work'[v] = next /\ b = {}
        BY <2>1, <2>2, <3>3
      <4>2. CASE Beliefs = {}
        BY <4>2 DEF Told
      <4>3. CASE next.status = work[w].status
        BY <1>1, <1>2, <2>2, <3>1, <3>3, <4>1, <4>3
      <4> QED
        BY <2>1, <2>2, <4>1, <4>2, <4>3
    <3> QED
      BY <3>2, <3>3
  <2> QED
    BY <2>2 DEF BeliefsWereTold, Told
<1> QED
  BY <1>4, <1>5, <1>6, <1>7, ChangesWrite DEF Next, Elsewhere, Wrote, OutcomeInv

-----------------------------------------------------------------------------
(* The brain's runs and its pokes.                                           *)

\* What stands in the way of a lost poke.
LEMMA PagesStay ==
  ASSUME PageOK, UNCHANGED inbox, brain'.at = brain.at, brain'.page = brain.page
  PROVE  PageOK'
BY DEF PageOK

\* Every step on the way to the inbox, but those that poke or report, leaves the pokes alone.
LEMMA PokesStay ==
  ASSUME PagesFollow, UNCHANGED <<inbox, brain>>, \A u \in Threads : th[u].at = "poke" => th'[u] = th[u]
  PROVE  PagesFollow'
<1>1. NoLostPoke'
  BY DEF PagesFollow, NoLostPoke
<1> QED
  BY <1>1, PagesStay DEF PagesFollow

\* A report is followed by its poke.
LEMMA ReportIsPoked ==
  ASSUME OutcomeInv, NEW t \in Threads, Report(t)
  PROVE  PagesFollow'
<1> DEFINE p == Current(t)
           n == Len(inbox)
<1>1. /\ p \in Rows /\ inbox' = WithEvent(inbox, p) /\ InboxOK /\ brain' = brain /\ PageOK
  BY ReportInTurn DEF Report, OutcomeInv, Typed, PagesFollow
<1>2. \E u \in Threads : th'[u].at = "poke"
  BY ReportGoes DEF Goes, OutcomeInv
<1> HIDE DEF p
<1>3. NoLostPoke'
  BY <1>2 DEF NoLostPoke
<1>4. CASE inbox' = inbox
  BY <1>1, <1>3, <1>4, PagesStay DEF PagesFollow
<1>5. CASE inbox' # inbox
  <2>1. /\ n \in Nat /\ DOMAIN inbox = 1 .. n /\ DOMAIN inbox' = 1 .. n + 1
        /\ \A i \in DOMAIN inbox : inbox'[i] = inbox[i]
        /\ inbox'[n + 1] = [ref |-> p, state |-> "pending", applied |-> 0]
    <3>1. \/ inbox' = inbox /\ Known(inbox, p)
          \/ /\ ~Known(inbox, p)
             /\ Len(inbox) \in Nat /\ DOMAIN inbox = 1 .. Len(inbox)
             /\ DOMAIN inbox' = 1 .. Len(inbox) + 1
             /\ \A i \in DOMAIN inbox : inbox'[i] = inbox[i]
             /\ inbox'[Len(inbox) + 1] = [ref |-> p, state |-> "pending", applied |-> 0]
      BY <1>1, ReportEnters
    <3> QED
      BY <1>5, <3>1
  <2> HIDE DEF n
  <2>2. DOMAIN inbox \subseteq DOMAIN inbox'
    BY <2>1
  <2>3. PageOK'
    BY <1>1, <2>1, <2>2 DEF PageOK
  <2> QED
    BY <1>3, <2>3 DEF PagesFollow
<1> QED
  BY <1>4, <1>5

\* A thread that was to poke pokes as it goes on.
LEMMA PokeOnTheWay ==
  ASSUME OutcomeInv, NEW t \in Threads, Ack(t) \/ Fails(t)
  PROVE  PagesFollow'
<1>1. /\ UNCHANGED inbox /\ brain \in Brains /\ PagesFollow
      /\ brain' = IF th[t].at = "poke" THEN Poked(brain) ELSE brain
  BY DEF Ack, Fails, PokeAfter, OutcomeInv, Typed, InboxOK
<1>2. brain'.at = brain.at /\ brain'.page = brain.page /\ (brain.poked => brain'.poked)
  BY <1>1 DEF Poked, Brains
<1>3. NoLostPoke'
  <2>1. CASE th[t].at = "poke"
    <3>1. brain'.poked
      BY <1>1, <2>1 DEF Poked, Brains
    <3> QED
      BY <3>1 DEF NoLostPoke
  <2>2. CASE th[t].at # "poke"
    <3>1. \A u \in Threads \ {t} : th'[u] = th[u]
      BY AckGoes, FailsGoes DEF Goes, OutcomeInv
    <3> QED
      BY <1>1, <1>2, <2>2, <3>1 DEF NoLostPoke, PagesFollow
  <2> QED
    BY <2>1, <2>2
<1> QED
  BY <1>1, <1>2, <1>3, PagesStay DEF PagesFollow

\* The wake thread keeps to the page it has read.
LEMMA PagesKept ==
  ASSUME OutcomeInv, [Next]_vars
  PROVE  PagesFollow'
<1>1. Typed /\ Stamps /\ PagesFollow /\ AllDelivering
  BY DEF OutcomeInv
<1>2. CASE Brain
  BY <1>1, <1>2, BrainKeepsPage, BrainKeepsPokes DEF Brain, dvars, Typed, PagesFollow
<1>3. CASE Crash
  <2>1. /\ DOMAIN inbox' = DOMAIN inbox
        /\ brain'.at = "gate" /\ brain'.page = {}
    BY <1>1, <1>3, CrashForgets DEF SameReports
  <2> QED
    BY <2>1 DEF PagesFollow, PageOK, NoLostPoke
<1>4. CASE Prep
  BY <1>1, <1>4, PokesStay DEF Prep, Typed
<1>5. CASE UNCHANGED vars
  BY <1>1, <1>5, PokesStay DEF vars
<1>6. ASSUME NEW t \in Threads, TakeStamp(t) \/ Refused(t) PROVE PagesFollow'
  BY <1>1, <1>6, PokesStay DEF TakeStamp, Refused, Typed
<1>7. ASSUME NEW t \in Threads, NEW w \in Works, NEW next, NEW rows, NEW b, NEW rec,
             Writes(t, w, next, rows, b, rec)
      PROVE  PagesFollow'
  <2>1. UNCHANGED <<inbox, brain>> /\ th[t].at = "stamped" /\ \A u \in Threads \ {t} : th'[u] = th[u]
    BY <1>1, <1>7, Moved DEF Writes, Commit, Typed
  <2> QED
    BY <1>1, <2>1, PokesStay
<1>8. ASSUME NEW t \in Threads, DeliverStep(t) PROVE PagesFollow'
  <2>1. CASE Ack(t) \/ Fails(t)
    BY <2>1, PokeOnTheWay
  <2>2. CASE Report(t)
    BY <2>2, ReportIsPoked
  <2>3. ASSUME UNCHANGED <<inbox, brain>>, th[t].at # "poke", NEW rec, Moves(t, rec) PROVE PagesFollow'
    <3>1. \A u \in Threads \ {t} : th'[u] = th[u]
      BY <1>1, <2>3 DEF Moves, Typed
    <3> QED
      BY <1>1, <2>3, <3>1, PokesStay
  <2>4. CASE Fetch(t)
    BY <2>3, <2>4 DEF Fetch, Move, Moves
  <2>5. CASE AttachBegins(t)
    BY <2>3, <2>5 DEF AttachBegins, InHand, Move, Moves
  <2>6. ASSUME NEW c \in Concerns, Attach(t, c) PROVE PagesFollow'
    BY <2>3, <2>6 DEF Attach, Move, Moves
  <2>7. CASE BFetch(t)
    BY <2>3, <2>7 DEF BFetch, Move, Moves
  <2>8. CASE BAsks(t)
    BY <2>3, <2>8 DEF BAsks, Move, Moves
  <2>9. CASE BAck(t) \/ BFails(t)
    BY <2>3, <2>9 DEF BAck, BFails, Move, Moves
  <2>10. ASSUME NEW b \in Beliefs, BApply(t, b) PROVE PagesFollow'
    BY <2>3, <2>10 DEF BApply, Move, Moves
  <2>11. ASSUME NEW b \in Beliefs, NEW action \in Answers, BEvidence(t, b, action) PROVE PagesFollow'
    BY <2>3, <2>11 DEF BEvidence, Move, Moves
  <2> QED
    BY <1>8, <2>1, <2>2, <2>4, <2>5, <2>6, <2>7, <2>8, <2>9, <2>10, <2>11 DEF DeliverStep
<1> QED
  BY <1>1, <1>2, <1>3, <1>4, <1>5, <1>6, <1>7, <1>8, ChangesWrite DEF Next, Wrote

-----------------------------------------------------------------------------
(* The theorems.                                                             *)

\* The invariant holds before anything was reported.
LEMMA InitOutcome == Init => OutcomeInv
<1> SUFFICES ASSUME Init PROVE OutcomeInv
  OBVIOUS
<1>1. Typed
  BY InitTyped
<1>2. /\ inbox = << >> /\ DOMAIN inbox = {}
      /\ sent = {} /\ outbox = {} /\ bbox = {}
      /\ \A t \in Threads : th[t].at = "idle" /\ th[t].queue = {}
  BY IdleRests DEF Init, BrainInit
<1>3. Stamps
  BY <1>2 DEF Stamps, Keyed
<1>4. AllDelivering
  BY <1>2 DEF AllDelivering, Delivering, Reading, Telling
<1>5. InboxFollows /\ NothingLost /\ OneTransactionInOrder /\ OneEach
  BY <1>2 DEF InboxFollows, NothingLost, OneTransactionInOrder, OneEach
<1>6. BeliefsWereTold
  BY DEF Init, BeliefsWereTold, Endings
<1>7. brain.page = {} /\ brain.at = "gate"
  BY DEF Init, BrainInit
<1>8. PagesFollow
  BY <1>2, <1>7 DEF PagesFollow, PageOK, NoLostPoke
<1> QED
  BY <1>1, <1>3, <1>4, <1>5, <1>6, <1>8 DEF OutcomeInv

\* Every step keeps it.
LEMMA StepOutcome == OutcomeInv /\ [Next]_vars => OutcomeInv'
<1> SUFFICES ASSUME OutcomeInv, [Next]_vars PROVE OutcomeInv'
  OBVIOUS
<1> QED
  BY TypesKept, StampsKept, DeliveriesKept, InboxFollowsKept, NothingLostKept, OrderKept, OneEachKept,
     BeliefsWereToldKept, PagesKept DEF OutcomeInv

\* It always holds.
LEMMA OutcomeInvariant == Spec => []OutcomeInv
BY InitOutcome, StepOutcome, PTL DEF Spec

\* The inbox holds events of the reports it holds.
LEMMA InboxTyped ==
  ASSUME OutcomeInv
  PROVE  BrainTypeOK
<1> DEFINE reports == UNION {{inbox[i].ref} : i \in DOMAIN inbox}
           E == [ref : reports, state : EventStates, applied : Nat]
<1>1. inbox \in Seq(Events) /\ brain \in Brains /\ brain.page \subseteq DOMAIN inbox
  BY DEF OutcomeInv, Typed, InboxOK, PagesFollow, PageOK
<1>2. Len(inbox) \in Nat /\ DOMAIN inbox = 1 .. Len(inbox) /\ \A i \in DOMAIN inbox : inbox[i] \in Events
  BY <1>1, LenProperties
<1>3. ASSUME NEW i \in DOMAIN inbox PROVE inbox[i] \in E
  <2>1. inbox[i].ref \in reports
    OBVIOUS
  <2> HIDE DEF reports
  <2> QED
    BY <1>2, <2>1 DEF Events
<1>4. inbox = [i \in 1 .. Len(inbox) |-> inbox[i]]
  BY <1>1, <1>2
<1> HIDE DEF E
<1>5. inbox \in [1 .. Len(inbox) -> E]
  BY <1>2, <1>3, <1>4
<1>6. inbox \in Seq(E)
  BY <1>2, <1>5, SeqDef
<1>7. brain \in [at : Stages, poked : BOOLEAN, page : SUBSET (DOMAIN inbox)]
  BY <1>1 DEF Brains
<1> QED
  BY <1>6, <1>7 DEF BrainTypeOK, E

\* It contains the types that the runs check.
LEMMA DeliveryTypes == OutcomeInv => DTypeOK
<1> SUFFICES ASSUME OutcomeInv PROVE DTypeOK
  OBVIOUS
<1>1. BrainTypeOK
  BY InboxTyped
<1>2. \A t \in Threads : th[t].queue = {} => th[t].at \in {"idle", "stamped", "fetch", "concerns"}
  <2> SUFFICES ASSUME NEW t \in Threads, th[t].queue = {}
               PROVE  th[t].at \in {"idle", "stamped", "fetch", "concerns"}
    OBVIOUS
  <2>1. th[t] \in ThreadRecs /\ Delivering(t)
    BY DEF OutcomeInv, Typed, AllDelivering
  <2> QED
    BY <2>1 DEF ThreadRecs, Delivering, Reading
<1> QED
  BY <1>1, <1>2 DEF OutcomeInv, Typed, DTypeOK, WorkRecs, BeliefRecs

\* The tables, the inbox and the threads hold what they may hold, and a thread in the middle of a
\* delivery has a receipt at hand.
THEOREM OutcomesTypeCorrect == Spec => []DTypeOK
BY OutcomeInvariant, DeliveryTypes, PTL

\* Whatever fails or crashes between the databases, a committed receipt is still pending, or every
\* concern it names holds the work and the brain has its report (concern_outbox.py, concern_feedback.py).
THEOREM NothingIsLost == Spec => []NothingLost
<1>1. OutcomeInv => NothingLost
  BY DEF OutcomeInv
<1> QED
  BY <1>1, OutcomeInvariant, PTL

\* The brain never reads that work ended before the judgment that ended it, though deliveries fail
\* and are taken up again, by several threads at once.
THEOREM ReportsKeepTheirOrder == Spec => []OneTransactionInOrder
<1>1. OutcomeInv => OneTransactionInOrder
  BY DEF OutcomeInv
<1> QED
  BY <1>1, OutcomeInvariant, PTL

\* A report that waits is read without the heartbeat (brain_wake.py: the flag is cleared before
\* anything is read).
THEOREM NoPokeIsLost == Spec => []NoLostPoke
<1>1. OutcomeInv => NoLostPoke
  BY DEF OutcomeInv, PagesFollow
<1> QED
  BY <1>1, OutcomeInvariant, PTL

\* What the brain recorded of an event, decided or failed, stands: whatever fails, is delivered again or
\* restarts, the register is not written for that event again (brain_step.py, brain_inbox.py).
THEOREM DecisionsStand == Spec => DecidedOnce
<1>1. ASSUME OutcomeInv, [Next]_vars
      PROVE  \A i \in DOMAIN inbox : Recorded(inbox[i]) =>
               \A j \in DOMAIN inbox' : inbox'[j].ref = inbox[i].ref => inbox'[j] = inbox[i]
  BY <1>1, DecisionsStay
<1> QED
  BY <1>1, OutcomeInvariant, PTL DEF Spec, DecidedOnce

\* Work that ended and has no belief receipt pending has told every belief (belief_outbox.py,
\* belief_engine/work_feedback.py).
THEOREM BeliefsAreTold == Spec => []BeliefsWereTold
<1>1. OutcomeInv => BeliefsWereTold
  BY DEF OutcomeInv
<1> QED
  BY <1>1, OutcomeInvariant, PTL
=============================================================================
