--------------------------- MODULE SchedulerProofs ---------------------------
(***************************************************************************)
(* Theorems about DayflowScheduler for every number of nodes and of threads  *)
(* that call in, and for every choice of its delays: that a run is always      *)
(* coming, that a signal is answered promptly, that a node's own wake is        *)
(* armed, and that what is stopped has nothing scheduled.                        *)
(***************************************************************************)
EXTENDS DayflowScheduler, TLAPS

-----------------------------------------------------------------------------
(* The inductive invariant.                                                  *)

\* What a list of things to schedule contains.
Has(s, S) == \E i \in DOMAIN s : s[i] \in S

\* Some thread has such a thing to schedule.
Some(S) == \E p \in Threads : Has(proc[p].todo, S)

Scans == {"wakes", "wakesLater"}
Soon  == {"startup", "poke", "progress"}

ProcRecs == [todo : Seq(Parts), at : {"idle", "dated", "adds"}, date : Nat]

Scheduled(p) ==
  /\ proc[p].todo = << >> => proc[p] = Quiet
  /\ proc[p].at # "idle" /\ proc[p].todo # << >> /\ Head(proc[p].todo) \in Soon => proc[p].date <= PokeMin
  /\ Has(proc[p].todo, Scans) => p \in Nodes \cup {TickThread} /\ able

\* A lane schedules when its pass is over, and a node whose wake has been armed again is not at it.
Lanes ==
  /\ tick # "none" => proc[TickThread] = Quiet
  /\ tick \in {"begun", "pass"} => \A n \in Nodes : waker[n] # "pass"
  /\ tick \in {"waiting", "begun", "pass"} => able
  /\ \A n \in Nodes :
       /\ waker[n] # "none" => proc[n] = Quiet /\ able
       /\ proc[n].todo # << >> /\ ~Has(proc[n].todo, Scans) => wake[n] # 0

Stopped == StoppedIsStopped /\ (scanned => started /\ able)

\* A run will come: it is scheduled, or on, or on a thread's list.
Coming == started /\ ~lost =>
  job # None \/ tick # "none" \/ Some(Calls)

\* What came while a pass runs is kept for its end.
PassKeeps == tick = "pass" /\ news = "signalled" => queued # {}

Prompt == started /\ news = "signalled" /\ ~lost =>
  \/ job # None /\ job <= PokeMin
  \/ tick \in {"fired", "waiting", "begun"} \/ (tick = "pass" /\ queued # {})
  \/ Some(Soon)

\* The wakes are about to be armed again.
Rearming == (\E n \in Nodes : waker[n] # "none") \/ Some(Scans)

Armed(n) == due[n] # None => wake[n] # None /\ wake[n] <= Greatest(due[n], MinGap)

HeldArmed == started /\ scanned /\ ~Rearming => \A n \in Nodes : Armed(n)

SchedulerInv ==
  /\ STypeOK /\ (\A p \in Threads : Scheduled(p)) /\ Lanes /\ Stopped /\ WokenNodeIsDue
  /\ Coming /\ PassKeeps /\ Prompt /\ HeldArmed

-----------------------------------------------------------------------------
(* The lists of things to schedule.                                          *)

\* An empty list has nothing, a list of one that one.
LEMMA HasFew ==
  ASSUME NEW x, NEW S
  PROVE  ~Has(<< >>, S) /\ (Has(<<x>>, S) <=> x \in S)
<1>1. DOMAIN <<x>> = {1} /\ <<x>>[1] = x
  OBVIOUS
<1> QED
  BY <1>1 DEF Has

\* A thread at rest has nothing to schedule.
LEMMA QuietHas ==
  ASSUME NEW p, proc[p] = Quiet, NEW S
  PROVE  ~Has(proc[p].todo, S)
<1>1. proc[p].todo = << >>
  BY DEF Quiet
<1> QED
  BY <1>1, HasFew

\* What a list has, its first entry is or the others have.
LEMMA HasParts ==
  ASSUME NEW s \in Seq(Parts), s # << >>, NEW S
  PROVE  /\ Head(s) \in Parts /\ Tail(s) \in Seq(Parts)
         /\ Has(s, S) <=> Head(s) \in S \/ Has(Tail(s), S)
<1>1. /\ Head(s) \in Parts /\ Tail(s) \in Seq(Parts) /\ Len(s) \in Nat \ {0}
      /\ Len(Tail(s)) = Len(s) - 1 /\ Head(s) = s[1]
      /\ \A i \in 1 .. Len(s) - 1 : Tail(s)[i] = s[i + 1]
      /\ DOMAIN s = 1 .. Len(s) /\ DOMAIN Tail(s) = 1 .. Len(s) - 1
  OBVIOUS
<1>2. ASSUME NEW i \in DOMAIN s, s[i] \in S PROVE Head(s) \in S \/ Has(Tail(s), S)
  <2>1. CASE i = 1
    BY <1>1, <1>2, <2>1
  <2>2. CASE i # 1
    <3>1. i - 1 \in DOMAIN Tail(s) /\ Tail(s)[i - 1] = s[i]
      BY <1>1, <2>2
    <3> QED
      BY <1>2, <3>1 DEF Has
  <2> QED
    BY <2>1, <2>2
<1>3. ASSUME NEW i \in DOMAIN Tail(s), Tail(s)[i] \in S PROVE Has(s, S)
  <2>1. i + 1 \in DOMAIN s /\ s[i + 1] = Tail(s)[i]
    BY <1>1
  <2> QED
    BY <1>3, <2>1 DEF Has
<1>4. Head(s) \in S => Has(s, S)
  <2>1. 1 \in DOMAIN s
    BY <1>1
  <2> QED
    BY <1>1, <2>1 DEF Has
<1> QED
  BY <1>1, <1>2, <1>3, <1>4 DEF Has

\* Two lists together have what one of them has.
LEMMA HasBoth ==
  ASSUME NEW s \in Seq(Parts), NEW r \in Seq(Parts), NEW S
  PROVE  s \o r \in Seq(Parts) /\ (Has(s \o r, S) <=> Has(s, S) \/ Has(r, S))
<1>1. /\ s \o r \in Seq(Parts) /\ Len(s \o r) = Len(s) + Len(r) /\ Len(s) \in Nat /\ Len(r) \in Nat
      /\ DOMAIN s = 1 .. Len(s) /\ DOMAIN r = 1 .. Len(r) /\ DOMAIN (s \o r) = 1 .. Len(s) + Len(r)
  OBVIOUS
<1>2. /\ \A i \in 1 .. Len(s) : (s \o r)[i] = s[i]
      /\ \A i \in 1 .. Len(s) + Len(r) : i > Len(s) => (s \o r)[i] = r[i - Len(s)]
  OBVIOUS
<1>3. ASSUME NEW i \in DOMAIN (s \o r), (s \o r)[i] \in S PROVE Has(s, S) \/ Has(r, S)
  <2>1. CASE i <= Len(s)
    BY <1>1, <1>2, <1>3, <2>1 DEF Has
  <2>2. CASE i > Len(s)
    <3>1. i - Len(s) \in DOMAIN r /\ (s \o r)[i] = r[i - Len(s)]
      BY <1>1, <1>2, <2>2
    <3> QED
      BY <1>3, <3>1 DEF Has
  <2> QED
    BY <1>1, <2>1, <2>2
<1>4. ASSUME NEW i \in DOMAIN s, s[i] \in S PROVE Has(s \o r, S)
  BY <1>1, <1>2, <1>4 DEF Has
<1>5. ASSUME NEW i \in DOMAIN r, r[i] \in S PROVE Has(s \o r, S)
  <2>1. i + Len(s) \in DOMAIN (s \o r) /\ (s \o r)[i + Len(s)] = r[i]
    BY <1>1, <1>2
  <2> QED
    BY <1>5, <2>1 DEF Has
<1> QED
  BY <1>1, <1>3, <1>4, <1>5 DEF Has

\* What the end of a tick puts on the list.
LEMMA AtTheEndHas ==
  ASSUME STypeOK
  PROVE  /\ AtTheEnd \in Seq(Parts) /\ AtTheEnd # << >>
         /\ Has(AtTheEnd, Calls) /\ Has(AtTheEnd, Scans)
         /\ queued # {} => Has(AtTheEnd, Soon)
<1>1. \A kind \in {"progress", "poke"} :
        /\ KeptFor(kind) \in Seq(Parts) /\ (kind \in queued => Has(KeptFor(kind), Soon))
  <2> SUFFICES ASSUME NEW kind \in {"progress", "poke"}
               PROVE  KeptFor(kind) \in Seq(Parts) /\ (kind \in queued => Has(KeptFor(kind), Soon))
    OBVIOUS
  <2>1. kind \in Parts /\ kind \in Soon /\ <<kind>> \in Seq(Parts) /\ << >> \in Seq(Parts)
    BY DEF Parts, Calls, Soon
  <2>2. Has(<<kind>>, Soon)
    BY <2>1, HasFew
  <2> QED
    BY <2>1, <2>2 DEF KeptFor
<1>2. /\ <<"ceiling", "wakes">> \in Seq(Parts)
      /\ Has(<<"ceiling", "wakes">>, Calls) /\ Has(<<"ceiling", "wakes">>, Scans)
  <2>1. /\ <<"ceiling", "wakes">> \in Seq(Parts) /\ DOMAIN <<"ceiling", "wakes">> = {1, 2}
        /\ <<"ceiling", "wakes">>[1] = "ceiling" /\ <<"ceiling", "wakes">>[2] = "wakes"
    BY DEF Parts, Calls
  <2> QED
    BY <2>1 DEF Has, Calls, Scans
<1> DEFINE u == <<"ceiling", "wakes">>
           v == KeptFor("progress")
           w == KeptFor("poke")
<1> HIDE DEF u, v, w
<1>3. u \in Seq(Parts) /\ v \in Seq(Parts) /\ w \in Seq(Parts) /\ Has(u, Calls) /\ Has(u, Scans)
  BY <1>1, <1>2 DEF u, v, w
<1>4. u \o v \in Seq(Parts) /\ \A S \in {Calls, Scans, Soon} : Has(u \o v, S) <=> Has(u, S) \/ Has(v, S)
  BY <1>3, HasBoth
<1>5. /\ (u \o v) \o w \in Seq(Parts)
      /\ \A S \in {Calls, Scans, Soon} : Has((u \o v) \o w, S) <=> Has(u \o v, S) \/ Has(w, S)
  BY <1>3, <1>4, HasBoth
<1>6. AtTheEnd = (u \o v) \o w
  BY DEF AtTheEnd, u, v, w
<1>7. queued # {} => Has(v, Soon) \/ Has(w, Soon)
  BY <1>1 DEF STypeOK, v, w
<1>8. Has(AtTheEnd, Calls) /\ Has(AtTheEnd, Scans) /\ (queued # {} => Has(AtTheEnd, Soon))
  BY <1>3, <1>4, <1>5, <1>6, <1>7
<1>9. AtTheEnd # << >>
  BY <1>8, HasFew
<1> QED
  BY <1>5, <1>6, <1>8, <1>9

-----------------------------------------------------------------------------
(* What a step does to the lists.                                            *)

\* The list of thread p becomes s, the others stay.
Puts(p, s) ==
  /\ proc' \in [Threads -> ProcRecs] /\ \A q \in Threads \ {p} : proc'[q] = proc[q]
  /\ proc'[p].todo = s /\ (s = << >> => proc'[p] = Quiet)
  /\ proc'[p].at # "idle" /\ s # << >> /\ Head(s) \in Soon => proc'[p].date <= PokeMin

\* A thread that was at rest has a list.
LEMMA PutsQuiet ==
  ASSUME STypeOK, NEW p \in Threads, proc[p] = Quiet, NEW s \in Seq(Parts), s # << >>,
         proc' = [proc EXCEPT ![p].todo = s]
  PROVE  Puts(p, s)
<1> DEFINE rec == [proc[p] EXCEPT !.todo = s]
<1>1. proc \in [Threads -> ProcRecs] /\ proc[p] \in ProcRecs /\ proc[p].at = "idle"
  BY DEF STypeOK, ProcRecs, Quiet
<1>2. rec \in ProcRecs /\ rec.todo = s /\ rec.at = "idle"
  BY <1>1 DEF ProcRecs
<1>3. proc' = [proc EXCEPT ![p] = rec]
  BY <1>1
<1> HIDE DEF rec
<1> QED
  BY <1>1, <1>2, <1>3 DEF Puts

\* A thread is through with the first entry of its list.
LEMMA PutsRest ==
  ASSUME STypeOK, NEW p \in Threads, proc[p].todo # << >>, proc' = Rest(p)
  PROVE  Puts(p, Tail(proc[p].todo))
<1> DEFINE s == Tail(proc[p].todo)
           rec == [Quiet EXCEPT !.todo = s]
<1>1. proc \in [Threads -> ProcRecs] /\ proc[p] \in ProcRecs /\ proc[p].todo \in Seq(Parts)
  BY DEF STypeOK, ProcRecs
<1>2. s \in Seq(Parts)
  BY <1>1, HasParts
<1>3. proc' = [proc EXCEPT ![p] = rec]
  BY DEF Rest
<1> HIDE DEF s
<1>4. rec \in ProcRecs /\ rec.todo = s /\ rec.at = "idle" /\ (s = << >> => rec = Quiet)
  BY <1>2 DEF ProcRecs, Quiet
<1> HIDE DEF rec
<1>5. Puts(p, s)
  BY <1>1, <1>3, <1>4 DEF Puts
<1> QED
  BY <1>5 DEF s

\* A thread with another record, whose first entry is no prompt call or has its date.
LEMMA PutsRecord ==
  ASSUME STypeOK, NEW p \in Threads, NEW rec \in ProcRecs, proc' = [proc EXCEPT ![p] = rec],
         rec.todo # << >>, rec.at # "idle" /\ Head(rec.todo) \in Soon => rec.date <= PokeMin
  PROVE  Puts(p, rec.todo)
BY DEF STypeOK, ProcRecs, Puts

\* What is on no list stays off, what stays on this one stays on a list.
LEMMA PutsSome ==
  ASSUME NEW p \in Threads, NEW s, Puts(p, s), NEW S
  PROVE  /\ (Has(proc[p].todo, S) => Has(s, S)) => (Some(S) => Some(S)')
         /\ Has(s, S) => Some(S)'
<1>1. proc'[p].todo = s /\ \A q \in Threads \ {p} : proc'[q] = proc[q]
  BY DEF Puts
<1> QED
  BY <1>1 DEF Some

\* The shape of the lists is kept.
LEMMA PutsScheduled ==
  ASSUME \A q \in Threads : Scheduled(q), NEW p \in Threads, NEW s, Puts(p, s), able => able',
         Has(s, Scans) => p \in Nodes \cup {TickThread} /\ able'
  PROVE  \A q \in Threads : Scheduled(q)'
<1>1. ASSUME NEW q \in Threads \ {p} PROVE Scheduled(q)'
  <2>1. proc'[q] = proc[q] /\ Scheduled(q)
    BY DEF Puts
  <2> QED
    BY <2>1 DEF Scheduled
<1>2. Scheduled(p)'
  BY DEF Puts, Scheduled
<1> QED
  BY <1>1, <1>2

-----------------------------------------------------------------------------
(* The parts of the invariant, under a step that changes little.              *)

\* The wakes stay as they are, or are about to be armed again.
LEMMA HeldStays ==
  ASSUME HeldArmed, started' => started, scanned' => scanned, UNCHANGED <<wake, due>>, Rearming => Rearming'
  PROVE  HeldArmed'
BY DEF HeldArmed, Armed

\* No pass begins or ends, and the nodes' lists keep to their wakes.
LEMMA LanesStay ==
  ASSUME SchedulerInv, NEW p \in Threads, NEW s, Puts(p, s), proc[p].todo # << >>,
         UNCHANGED <<tick, waker, able>>,
         \A n \in Nodes : wake'[n] = wake[n] \/ wake'[n] # 0,
         p \in Nodes /\ s # << >> /\ ~Has(s, Scans) => wake'[p] # 0
  PROVE  Lanes'
<1>1. Lanes
  BY DEF SchedulerInv
<1>2. \A q \in Threads : proc[q] = Quiet => proc'[q] = Quiet
  BY DEF Puts, Quiet
<1>3. tick' # "none" => proc'[TickThread] = Quiet
  BY <1>1, <1>2 DEF Lanes, Threads
<1>4. ASSUME NEW n \in Nodes
      PROVE  /\ waker'[n] # "none" => proc'[n] = Quiet /\ able'
             /\ proc'[n].todo # << >> /\ ~Has(proc'[n].todo, Scans) => wake'[n] # 0
  <2>1. n \in Threads
    BY DEF Threads
  <2>2. waker'[n] # "none" => proc'[n] = Quiet /\ able'
    BY <1>1, <1>2, <2>1 DEF Lanes
  <2>3. CASE n = p
    BY <2>2, <2>3 DEF Puts
  <2>4. CASE n # p
    <3>1. proc'[n] = proc[n]
      BY <2>1, <2>4 DEF Puts
    <3> QED
      BY <1>1, <2>2, <3>1 DEF Lanes
  <2> QED
    BY <2>3, <2>4
<1> QED
  BY <1>1, <1>3, <1>4 DEF Lanes

\* A call is taken off the list of thread p: it changed the job, or left a sooner one.
LEMMA CallDone ==
  ASSUME SchedulerInv, NEW p \in Threads, proc[p].todo # << >>, Head(proc[p].todo) \in Calls,
         proc' = Rest(p), job' \in Nat \cup {None},
         UNCHANGED <<started, able, tick, queued, since, wake, due, waker, news, scanned>>,
         (lost => lost') /\ lost' \in BOOLEAN,
         ~started => job' = None,
         started => job' # None,
         started /\ Head(proc[p].todo) \in Soon => job' <= PokeMin,
         started /\ ~lost' /\ job # None /\ job <= PokeMin => job' <= PokeMin
  PROVE  SchedulerInv'
<1> DEFINE s == Tail(proc[p].todo)
<1>1. /\ STypeOK /\ (\A q \in Threads : Scheduled(q)) /\ Lanes /\ Stopped /\ WokenNodeIsDue
      /\ Coming /\ PassKeeps /\ Prompt /\ HeldArmed
  BY DEF SchedulerInv
<1>2. Puts(p, s)
  BY <1>1, PutsRest
<1>3. /\ proc[p].todo \in Seq(Parts) /\ Head(proc[p].todo) \notin Scans
      /\ \A S \in {Calls, Scans, Soon} : Has(proc[p].todo, S) <=> Head(proc[p].todo) \in S \/ Has(s, S)
  <2>1. proc[p].todo \in Seq(Parts)
    BY <1>1 DEF STypeOK
  <2> QED
    BY <2>1, HasParts DEF Calls, Scans
<1> HIDE DEF s
<1>4. STypeOK'
  BY <1>1, <1>2 DEF STypeOK, Puts, ProcRecs
<1>5. \A q \in Threads : Scheduled(q)'
  <2>1. Has(s, Scans) => p \in Nodes \cup {TickThread} /\ able'
    BY <1>1, <1>3 DEF Scheduled
  <2> QED
    BY <1>1, <1>2, <2>1, PutsScheduled
<1>6. Lanes'
  <2>1. p \in Nodes /\ s # << >> /\ ~Has(s, Scans) => wake'[p] # 0
    BY <1>1, <1>3 DEF Lanes
  <2> QED
    BY <1>2, <2>1, LanesStay
<1>7. Stopped' /\ WokenNodeIsDue' /\ PassKeeps'
  BY <1>1 DEF Stopped, StoppedIsStopped, WokenNodeIsDue, PassKeeps
<1>8. Coming'
  BY DEF Coming
<1>9. Prompt'
  <2> SUFFICES ASSUME started, news = "signalled", ~lost',
                      ~(tick \in {"fired", "waiting", "begun"} \/ (tick = "pass" /\ queued # {}))
               PROVE  (job' # None /\ job' <= PokeMin) \/ Some(Soon)'
    BY DEF Prompt
  <2>1. ~lost
    OBVIOUS
  <2>2. CASE job # None /\ job <= PokeMin
    BY <2>2
  <2>3. CASE Some(Soon)
    <3>1. CASE Head(proc[p].todo) \in Soon
      BY <3>1
    <3>2. CASE Head(proc[p].todo) \notin Soon
      BY <1>2, <1>3, <2>3, <3>2, PutsSome
    <3> QED
      BY <3>1, <3>2
  <2> QED
    BY <1>1, <2>1, <2>2, <2>3 DEF Prompt
<1>10. HeldArmed'
  <2>1. Some(Scans) => Some(Scans)'
    BY <1>2, <1>3, PutsSome
  <2>2. Rearming => Rearming'
    BY <2>1 DEF Rearming
  <2> QED
    BY <1>1, <2>2, HeldStays
<1> QED
  BY <1>4, <1>5, <1>6, <1>7, <1>8, <1>9, <1>10 DEF SchedulerInv

\* The first entry of a list gets its date, or its way to the lock is free.
LEMMA CallGoesOn ==
  ASSUME SchedulerInv, NEW p \in Threads, proc[p].todo # << >>, NEW rec \in ProcRecs,
         rec.todo = proc[p].todo, Head(rec.todo) \in Soon => rec.date <= PokeMin,
         proc' = [proc EXCEPT ![p] = rec],
         UNCHANGED <<started, able, tick, queued, since, job, wake, due, waker, news, scanned, lost>>
  PROVE  SchedulerInv'
<1>1. /\ STypeOK /\ (\A q \in Threads : Scheduled(q)) /\ Lanes /\ Stopped /\ WokenNodeIsDue
      /\ Coming /\ PassKeeps /\ Prompt /\ HeldArmed
  BY DEF SchedulerInv
<1>2. Puts(p, proc[p].todo)
  BY <1>1, PutsRecord
<1>3. STypeOK'
  BY <1>1, <1>2 DEF STypeOK, Puts, ProcRecs
<1>4. \A q \in Threads : Scheduled(q)'
  <2>1. Has(proc[p].todo, Scans) => p \in Nodes \cup {TickThread} /\ able'
    BY <1>1 DEF Scheduled
  <2> QED
    BY <1>1, <1>2, <2>1, PutsScheduled
<1>5. Lanes'
  <2>1. p \in Nodes /\ proc[p].todo # << >> /\ ~Has(proc[p].todo, Scans) => wake'[p] # 0
    BY <1>1 DEF Lanes
  <2> QED
    BY <1>2, <2>1, LanesStay
<1>6. \A S \in {Calls, Scans, Soon} : Some(S) => Some(S)'
  BY <1>2, PutsSome
<1>7. Stopped' /\ WokenNodeIsDue' /\ PassKeeps' /\ Coming' /\ Prompt'
  BY <1>1, <1>6 DEF Stopped, StoppedIsStopped, WokenNodeIsDue, PassKeeps, Coming, Prompt
<1>8. HeldArmed'
  <2>1. Rearming => Rearming'
    BY <1>6 DEF Rearming
  <2> QED
    BY <1>1, <2>1, HeldStays
<1> QED
  BY <1>3, <1>4, <1>5, <1>7, <1>8 DEF SchedulerInv

-----------------------------------------------------------------------------
(* The steps of _schedule_tick and of the arming of the wakes.                *)

\* The throttle bounds the date of a prompt call.
LEMMA DatesInv ==
  ASSUME SchedulerInv, NEW p \in Threads, NEW d \in WatchEnds \cup {Ceiling}, Dates(p, d)
  PROVE  SchedulerInv'
<1> DEFINE date == Greatest(Delay(Todo(p), d), Floor(Todo(p)) - since)
           rec == [proc[p] EXCEPT !.at = "dated", !.date = date]
<1>1. proc \in [Threads -> ProcRecs] /\ proc[p] \in ProcRecs /\ since \in 0 .. PokeMin
  BY DEF SchedulerInv, STypeOK, ProcRecs
<1>2. /\ Debounce \in Nat /\ MinGap \in Nat /\ PokeMin \in Nat /\ Ceiling \in Nat /\ d \in Nat
      /\ Debounce <= PokeMin /\ MinGap <= PokeMin
  BY DelaysType, HoldsType
<1>3. Floor(Todo(p)) \in Nat /\ Floor(Todo(p)) <= PokeMin
  BY <1>2 DEF Floor
<1>4. Delay(Todo(p), d) \in Nat /\ (Todo(p) \in Soon => Delay(Todo(p), d) <= PokeMin)
  BY <1>2 DEF Delay, Soon
<1>5. date \in Nat /\ (Todo(p) \in Soon => date <= PokeMin)
  BY <1>1, <1>2, <1>3, <1>4 DEF Greatest
<1>6. proc' = [proc EXCEPT ![p] = rec]
  BY <1>1 DEF Dates
<1> HIDE DEF date
<1>7. rec \in ProcRecs /\ rec.todo = proc[p].todo /\ rec.date = date
  BY <1>1, <1>5 DEF ProcRecs
<1>8. /\ proc[p].todo # << >> /\ Head(rec.todo) = Todo(p)
      /\ UNCHANGED <<started, able, tick, queued, since, job, wake, due, waker, news, scanned, lost>>
  BY <1>7 DEF Dates, Doing, Todo
<1> HIDE DEF rec
<1> QED
  BY <1>5, <1>6, <1>7, <1>8, CallGoesOn

\* A sooner run is left where it is.
LEMMA GuardInv ==
  ASSUME SchedulerInv, NEW p \in Threads, Guard(p)
  PROVE  SchedulerInv'
<1>1. /\ STypeOK /\ Stopped /\ Scheduled(p)
  BY DEF SchedulerInv
<1>2. /\ proc \in [Threads -> ProcRecs] /\ proc[p] \in ProcRecs /\ job \in Nat \cup {None}
      /\ lost \in BOOLEAN /\ PokeMin \in Nat
  BY <1>1, DelaysType DEF STypeOK, ProcRecs
<1>3. /\ proc[p].todo # << >> /\ Head(proc[p].todo) \in Calls
      /\ UNCHANGED <<started, able, tick, queued, since, job, wake, due, waker, news, scanned, lost>>
  BY DEF Guard, Doing, Todo
<1>4. proc[p].date \in Nat /\ (Head(proc[p].todo) \in Soon => proc[p].date <= PokeMin)
  BY <1>1, <1>2, <1>3 DEF ProcRecs, Scheduled, Guard, Doing
<1>5. CASE job # None /\ job <= proc[p].date
  <2>1. proc' = Rest(p)
    BY <1>5 DEF Guard
  <2>2. /\ job' \in Nat \cup {None} /\ job' # None /\ (~started => job' = None)
        /\ Head(proc[p].todo) \in Soon => job' <= PokeMin
        /\ job <= PokeMin => job' <= PokeMin
        /\ (lost => lost') /\ lost' \in BOOLEAN
    BY <1>1, <1>2, <1>3, <1>4, <1>5 DEF Stopped, StoppedIsStopped
  <2> QED
    BY <1>3, <2>1, <2>2, CallDone
<1>6. CASE ~(job # None /\ job <= proc[p].date)
  <2> DEFINE rec == [proc[p] EXCEPT !.at = "adds"]
  <2>1. proc' = [proc EXCEPT ![p] = rec]
    BY <1>2, <1>6 DEF Guard
  <2>2. rec \in ProcRecs /\ rec.todo = proc[p].todo /\ rec.date = proc[p].date
    BY <1>2 DEF ProcRecs
  <2> HIDE DEF rec
  <2> QED
    BY <1>3, <1>4, <2>1, <2>2, CallGoesOn
<1> QED
  BY <1>5, <1>6

\* The new run takes the place of the old one.
LEMMA AddsInv ==
  ASSUME SchedulerInv, NEW p \in Threads, Adds(p)
  PROVE  SchedulerInv'
<1>1. /\ STypeOK /\ Stopped /\ Scheduled(p)
  BY DEF SchedulerInv
<1>2. /\ proc[p] \in ProcRecs /\ job \in Nat \cup {None} /\ started \in BOOLEAN
      /\ lost \in BOOLEAN /\ PokeMin \in Nat
  BY <1>1, DelaysType DEF STypeOK, ProcRecs
<1>3. /\ proc[p].todo # << >> /\ Head(proc[p].todo) \in Calls /\ proc' = Rest(p)
      /\ UNCHANGED <<started, able, tick, queued, since, wake, due, waker, news, scanned>>
  BY DEF Adds, Doing, Todo
<1>4. proc[p].date \in Nat /\ (Head(proc[p].todo) \in Soon => proc[p].date <= PokeMin)
  BY <1>1, <1>2, <1>3 DEF ProcRecs, Scheduled, Adds, Doing
<1>5. /\ job' = IF started THEN proc[p].date ELSE job
      /\ lost' = (lost \/ (started /\ job # None /\ job < proc[p].date))
  BY DEF Adds
<1>6. /\ job' \in Nat \cup {None} /\ (~started => job' = None) /\ (started => job' # None)
      /\ started /\ Head(proc[p].todo) \in Soon => job' <= PokeMin
      /\ (lost => lost') /\ lost' \in BOOLEAN
  BY <1>1, <1>2, <1>4, <1>5, NoneType DEF Stopped, StoppedIsStopped
<1>7. started /\ ~lost' /\ job # None /\ job <= PokeMin => job' <= PokeMin
  <2> SUFFICES ASSUME started, ~lost', job # None, job <= PokeMin
               PROVE  job' <= PokeMin
    OBVIOUS
  <2>1. ~(job < proc[p].date)
    BY <1>5
  <2>2. job' = proc[p].date /\ job \in Nat
    BY <1>2, <1>5
  <2> QED
    BY <1>2, <1>4, <2>1, <2>2
<1> QED
  BY <1>3, <1>6, <1>7, CallDone

\* Every node's wake is armed anew.
LEMMA ArmWakesInv ==
  ASSUME SchedulerInv, NEW p \in Threads, ArmWakes(p)
  PROVE  SchedulerInv'
<1>1. /\ STypeOK /\ (\A q \in Threads : Scheduled(q)) /\ Lanes /\ Stopped /\ WokenNodeIsDue
      /\ Coming /\ PassKeeps /\ Prompt /\ HeldArmed
  BY DEF SchedulerInv
<1> DEFINE least == IF Todo(p) = "wakes" THEN 1 ELSE MinGap
<1>2. /\ proc[p].todo # << >> /\ Head(proc[p].todo) \in Scans
      /\ UNCHANGED <<started, able, tick, queued, since, job, due, waker, news, lost>>
      /\ wake' = IF started THEN [n \in Nodes |-> ArmedAt(due[n], least)] ELSE wake
      /\ scanned' = (scanned \/ started)
  BY DEF ArmWakes, Todo, Scans
<1>3. /\ least \in Nat \ {0} /\ least <= MinGap /\ MinGap \in Nat
  BY DelaysType
<1> HIDE DEF least
<1>4. /\ proc \in [Threads -> ProcRecs] /\ proc[p] \in ProcRecs /\ proc[p].todo \in Seq(Parts)
      /\ due \in [Nodes -> Nat \cup {None}]
  BY <1>1 DEF STypeOK, ProcRecs
<1>5. /\ Tail(proc[p].todo) \in Seq(Parts)
      /\ \A S \in {Calls, Scans, Soon} :
           Has(proc[p].todo, S) <=> Head(proc[p].todo) \in S \/ Has(Tail(proc[p].todo), S)
  BY <1>2, <1>4, HasParts
<1>6. PICK s \in Seq(Parts) :
        /\ Puts(p, s) /\ (Has(s, Scans) <=> Has(Tail(proc[p].todo), Scans))
        /\ \A S \in {Calls, Soon} : Has(Tail(proc[p].todo), S) => Has(s, S)
  <2>1. CASE proc' = Rest(p)
    BY <1>1, <1>2, <1>5, <2>1, PutsRest
  <2>2. CASE proc' = [proc EXCEPT ![p].todo = <<"watch">> \o Tail(@)]
    <3> DEFINE s == <<"watch">> \o Tail(proc[p].todo)
               rec == [proc[p] EXCEPT !.todo = s]
    <3>1. <<"watch">> \in Seq(Parts) /\ ~Has(<<"watch">>, Scans)
      <4>1. "watch" \in Parts /\ "watch" \notin Scans
        BY DEF Parts, Calls, Scans
      <4> QED
        BY <4>1, HasFew
    <3>2. /\ s \in Seq(Parts) /\ (Has(s, Scans) <=> Has(Tail(proc[p].todo), Scans))
          /\ \A S \in {Calls, Soon} : Has(Tail(proc[p].todo), S) => Has(s, S)
      BY <1>5, <3>1, HasBoth
    <3>3. s # << >> /\ Head(s) = "watch"
      BY <1>5
    <3>4. proc' = [proc EXCEPT ![p] = rec]
      BY <1>4, <2>2
    <3> HIDE DEF s
    <3>5. rec \in ProcRecs /\ rec.todo = s
      BY <1>4, <3>2 DEF ProcRecs
    <3> HIDE DEF rec
    <3>6. "watch" \notin Soon
      BY DEF Soon
    <3>7. Puts(p, s)
      BY <1>1, <3>3, <3>4, <3>5, <3>6, PutsRecord
    <3> QED
      BY <3>2, <3>7
  <2> QED
    BY <2>1, <2>2 DEF ArmWakes
<1>7. /\ wake' \in [Nodes -> Nat \cup {None}]
      /\ \A n \in Nodes : /\ wake'[n] # 0
                          /\ IF started THEN wake'[n] = ArmedAt(due[n], least) ELSE wake'[n] = None
  <2>1. CASE started
    BY <1>2, <1>3, <1>4, <2>1, NoneType DEF ArmedAt
  <2>2. CASE ~started
    BY <1>1, <1>2, <2>2, NoneType DEF STypeOK, Stopped, StoppedIsStopped
  <2> QED
    BY <2>1, <2>2
<1>8. STypeOK'
  BY <1>1, <1>2, <1>6, <1>7 DEF STypeOK, Puts, ProcRecs
<1>9. able /\ p \in Nodes \cup {TickThread}
  BY <1>1, <1>2, <1>5 DEF Scheduled
<1>10. \A q \in Threads : Scheduled(q)'
  BY <1>1, <1>2, <1>6, <1>9, PutsScheduled
<1>11. Lanes'
  <2>1. \A n \in Nodes : wake'[n] # 0
    BY <1>7, NoneType
  <2>2. p \in Nodes /\ s # << >> /\ ~Has(s, Scans) => wake'[p] # 0
    BY <2>1
  <2> QED
    BY <1>2, <1>6, <2>1, <2>2, LanesStay
<1>12. \A S \in {Calls, Soon} : Some(S) => Some(S)'
  <2>1. Head(proc[p].todo) \notin Calls /\ Head(proc[p].todo) \notin Soon
    BY <1>2 DEF Calls, Scans, Soon
  <2> QED
    BY <1>5, <1>6, <2>1, PutsSome
<1>13. WokenNodeIsDue' /\ PassKeeps' /\ Coming' /\ Prompt'
  BY <1>1, <1>2, <1>12 DEF WokenNodeIsDue, PassKeeps, Coming, Prompt
<1>14. Stopped'
  BY <1>1, <1>2, <1>7, <1>9 DEF Stopped, StoppedIsStopped, STypeOK
<1>15. HeldArmed'
  <2> SUFFICES ASSUME started, NEW n \in Nodes, due[n] # None
               PROVE  wake'[n] # None /\ wake'[n] <= Greatest(due[n], MinGap)
    BY <1>2 DEF HeldArmed, Armed
  <2>1. wake'[n] = ArmedAt(due[n], least) /\ due[n] \in Nat
    BY <1>4, <1>7
  <2> QED
    BY <1>3, <2>1, NoneType DEF ArmedAt, Greatest
<1> QED
  BY <1>8, <1>10, <1>11, <1>13, <1>14, <1>15 DEF SchedulerInv

-----------------------------------------------------------------------------
(* Signals, and the scheduler's own start and stop.                           *)

\* A signal finds its way onto a list or is kept for the end of the tick.
LEMMA SignalInv ==
  ASSUME SchedulerInv, NEW p \in Callers, NEW kind \in {"poke", "progress"}, Signal(p, kind)
  PROVE  SchedulerInv'
<1>1. /\ STypeOK /\ (\A q \in Threads : Scheduled(q)) /\ Lanes /\ Stopped /\ WokenNodeIsDue
      /\ Coming /\ PassKeeps /\ Prompt /\ HeldArmed
  BY DEF SchedulerInv
<1>2. /\ p \in Threads /\ p \notin Nodes /\ p # TickThread /\ proc[p] = Quiet
      /\ UNCHANGED <<started, able, tick, since, job, wake, due, waker, scanned, lost>>
      /\ news' = IF started THEN IF news = "none" THEN news ELSE "signalled"
                 ELSE IF news = "posted" THEN "deferred" ELSE news
      /\ queued' = IF started /\ Running THEN queued \cup {kind} ELSE queued
  BY ThreadsDiffer DEF Signal, Threads
<1>3. queued \subseteq queued' /\ queued' \subseteq {"poke", "progress"}
  BY <1>1, <1>2 DEF STypeOK
<1>4. Stopped' /\ WokenNodeIsDue'
  BY <1>1, <1>2 DEF Stopped, StoppedIsStopped, WokenNodeIsDue
<1>5. CASE started /\ ~Running
  <2>1. /\ <<kind>> \in Seq(Parts) /\ <<kind>> # << >> /\ Has(<<kind>>, Soon) /\ ~Has(<<kind>>, Scans)
        /\ Has(<<kind>>, Calls)
    <3>1. kind \in Parts /\ kind \in Soon /\ kind \in Calls /\ kind \notin Scans
      BY DEF Parts, Calls, Soon, Scans
    <3> QED
      BY <3>1, HasFew
  <2>2. Puts(p, <<kind>>)
    <3>1. proc' = [proc EXCEPT ![p].todo = <<kind>>]
      BY <1>5 DEF Signal
    <3> QED
      BY <1>1, <1>2, <2>1, <3>1, PutsQuiet
  <2>3. STypeOK'
    BY <1>1, <1>2, <1>3, <2>2 DEF STypeOK, Puts, ProcRecs
  <2>4. \A q \in Threads : Scheduled(q)'
    BY <1>1, <1>2, <2>1, <2>2, PutsScheduled
  <2>5. Lanes'
    <3>1. proc'[TickThread] = proc[TickThread] /\ \A n \in Nodes : proc'[n] = proc[n]
      BY <1>2, <2>2 DEF Puts, Threads
    <3> QED
      BY <1>1, <1>2, <3>1 DEF Lanes
  <2>6. Some(Soon)' /\ Some(Calls)'
    BY <1>2, <2>1, <2>2, PutsSome
  <2>7. Coming' /\ Prompt' /\ PassKeeps'
    BY <1>2, <1>5, <2>6 DEF Coming, Prompt, PassKeeps, Running
  <2>8. ~Has(proc[p].todo, Scans)
    BY <1>2, QuietHas
  <2>9. Some(Scans) => Some(Scans)'
    BY <1>2, <2>2, <2>8, PutsSome
  <2>10. HeldArmed'
    BY <1>1, <1>2, <2>9, HeldStays DEF Rearming
  <2> QED
    BY <1>4, <2>3, <2>4, <2>5, <2>7, <2>10 DEF SchedulerInv
<1>6. CASE ~(started /\ ~Running)
  <2>1. UNCHANGED proc
    BY <1>6 DEF Signal
  <2>2. STypeOK'
    BY <1>1, <1>2, <1>3, <2>1 DEF STypeOK
  <2>3. (\A q \in Threads : Scheduled(q)') /\ Lanes'
    BY <1>1, <1>2, <2>1 DEF Scheduled, Lanes
  <2>4. Coming'
    BY <1>1, <1>2, <2>1 DEF Coming, Some
  <2>5. started => tick \in {"waiting", "begun", "pass"} /\ queued' # {}
    BY <1>2, <1>6 DEF Running
  <2>6. PassKeeps' /\ Prompt'
    BY <1>1, <1>2, <1>3, <2>5 DEF PassKeeps, Prompt
  <2>7. HeldArmed'
    <3>1. Rearming => Rearming'
      BY <1>2, <2>1 DEF Rearming, Some
    <3> QED
      BY <1>1, <1>2, <3>1, HeldStays
  <2> QED
    BY <1>4, <2>2, <2>3, <2>4, <2>6, <2>7 DEF SchedulerInv
<1> QED
  BY <1>5, <1>6

\* Steps that leave the lists and the lanes alone: something is written, an event dropped, setup done,
\* nothing at all.
LEMMA OutsideInv ==
  ASSUME SchedulerInv, Posted \/ HubDrops \/ SetUp \/ UNCHANGED vars
  PROVE  SchedulerInv'
<1>1. /\ STypeOK /\ (\A q \in Threads : Scheduled(q)) /\ Lanes /\ Stopped /\ WokenNodeIsDue
      /\ Coming /\ PassKeeps /\ Prompt /\ HeldArmed
  BY DEF SchedulerInv
<1>2. /\ UNCHANGED <<started, tick, queued, since, job, wake, due, waker, proc, scanned, lost>>
      /\ (able => able') /\ able' \in BOOLEAN
      /\ news' \in {"none", "posted", "signalled", "deferred"} /\ (news' = "signalled" => news = "signalled")
  BY <1>1 DEF Posted, HubDrops, SetUp, vars, STypeOK
<1>3. STypeOK'
  BY <1>1, <1>2 DEF STypeOK
<1>4. (\A q \in Threads : Scheduled(q)') /\ Lanes'
  BY <1>1, <1>2 DEF Scheduled, Lanes
<1>5. Stopped' /\ WokenNodeIsDue' /\ PassKeeps'
  BY <1>1, <1>2 DEF Stopped, StoppedIsStopped, WokenNodeIsDue, PassKeeps
<1>6. Coming' /\ Prompt'
  BY <1>1, <1>2 DEF Coming, Prompt, Some
<1>7. HeldArmed'
  <2>1. Rearming => Rearming'
    BY <1>2 DEF Rearming, Some
  <2> QED
    BY <1>1, <1>2, <2>1, HeldStays
<1> QED
  BY <1>3, <1>4, <1>5, <1>6, <1>7 DEF SchedulerInv

\* The start puts its first run on the list.
LEMMA StartInv ==
  ASSUME SchedulerInv, Start
  PROVE  SchedulerInv'
<1>1. /\ STypeOK /\ (\A q \in Threads : Scheduled(q)) /\ Lanes /\ Stopped /\ WokenNodeIsDue /\ PassKeeps
  BY DEF SchedulerInv
<1>2. /\ MainThread \in Threads /\ MainThread \notin Nodes /\ MainThread # TickThread
      /\ proc[MainThread] = Quiet /\ started' = TRUE /\ started = FALSE
      /\ UNCHANGED <<able, tick, queued, since, job, wake, due, waker, news, scanned, lost>>
      /\ proc' = [proc EXCEPT ![MainThread].todo = <<"startup">>]
  BY <1>1, ThreadsDiffer DEF Start, Threads, STypeOK
<1>3. /\ <<"startup">> \in Seq(Parts) /\ <<"startup">> # << >> /\ Has(<<"startup">>, Soon)
      /\ Has(<<"startup">>, Calls) /\ ~Has(<<"startup">>, Scans)
  <2>1. "startup" \in Parts /\ "startup" \in Soon /\ "startup" \in Calls /\ "startup" \notin Scans
    BY DEF Parts, Calls, Soon, Scans
  <2> QED
    BY <2>1, HasFew
<1>4. Puts(MainThread, <<"startup">>)
  BY <1>1, <1>2, <1>3, PutsQuiet
<1>5. STypeOK'
  BY <1>1, <1>2, <1>4 DEF STypeOK, Puts, ProcRecs
<1>6. \A q \in Threads : Scheduled(q)'
  BY <1>1, <1>2, <1>3, <1>4, PutsScheduled
<1>7. Lanes'
  <2>1. proc'[TickThread] = proc[TickThread] /\ \A n \in Nodes : proc'[n] = proc[n]
    BY <1>2, <1>4 DEF Puts, Threads
  <2> QED
    BY <1>1, <1>2, <2>1 DEF Lanes
<1>8. Some(Soon)' /\ Some(Calls)'
  BY <1>2, <1>3, <1>4, PutsSome
<1>9. Stopped' /\ WokenNodeIsDue' /\ PassKeeps' /\ Coming' /\ Prompt' /\ HeldArmed'
  BY <1>1, <1>2, <1>8 DEF Stopped, StoppedIsStopped, WokenNodeIsDue, PassKeeps, Coming, Prompt, HeldArmed
<1> QED
  BY <1>5, <1>6, <1>7, <1>9 DEF SchedulerInv

\* The stop removes every job.
LEMMA StopInv ==
  ASSUME SchedulerInv, Stop
  PROVE  SchedulerInv'
<1>1. /\ STypeOK /\ (\A q \in Threads : Scheduled(q)) /\ Lanes /\ WokenNodeIsDue /\ PassKeeps
  BY DEF SchedulerInv
<1>2. /\ started' = FALSE /\ scanned' = FALSE /\ job' = None /\ wake' = [n \in Nodes |-> None]
      /\ UNCHANGED <<able, tick, queued, since, due, waker, proc, news, lost>>
  BY DEF Stop
<1>3. STypeOK'
  BY <1>1, <1>2 DEF STypeOK
<1>4. (\A q \in Threads : Scheduled(q)') /\ Lanes'
  BY <1>1, <1>2, NoneType DEF Scheduled, Lanes
<1>5. Stopped' /\ WokenNodeIsDue' /\ PassKeeps' /\ Coming' /\ Prompt' /\ HeldArmed'
  BY <1>1, <1>2 DEF Stopped, StoppedIsStopped, WokenNodeIsDue, PassKeeps, Coming, Prompt, HeldArmed
<1> QED
  BY <1>3, <1>4, <1>5 DEF SchedulerInv

-----------------------------------------------------------------------------
(* The planning tick.                                                         *)

\* Without its job a run is on, or was lost at the end of a tick.
LEMMA JobFiresInv ==
  ASSUME SchedulerInv, JobFires
  PROVE  SchedulerInv'
<1>1. /\ STypeOK /\ (\A q \in Threads : Scheduled(q)) /\ Lanes /\ Stopped /\ WokenNodeIsDue
      /\ Coming /\ PassKeeps /\ Prompt /\ HeldArmed
  BY DEF SchedulerInv
<1>2. /\ job = 0 /\ job' = None
      /\ tick' = IF TickBusy THEN tick ELSE "fired"
      /\ lost' = (lost \/ (TickBusy /\ tick = "none"))
      /\ UNCHANGED <<started, able, queued, since, wake, due, waker, proc, news, scanned>>
  BY DEF JobFires
<1>3. STypeOK'
  BY <1>1, <1>2 DEF STypeOK
<1>4. \A q \in Threads : Scheduled(q)'
  BY <1>1, <1>2 DEF Scheduled
<1>5. ~TickBusy => tick = "none" /\ proc[TickThread] = Quiet
  <2>1. TickThread \in Threads
    BY DEF Threads
  <2> QED
    BY <1>1, <2>1 DEF TickBusy, Scheduled
<1>6. Lanes'
  BY <1>1, <1>2, <1>5 DEF Lanes
<1>7. Stopped' /\ WokenNodeIsDue' /\ PassKeeps'
  BY <1>1, <1>2 DEF Stopped, StoppedIsStopped, WokenNodeIsDue, PassKeeps
<1>8. ~lost' => ~lost /\ tick' # "none" /\ (tick' = tick \/ tick' = "fired")
  BY <1>2
<1>9. Coming'
  BY <1>8 DEF Coming
<1>10. Prompt'
  <2> SUFFICES ASSUME started, news = "signalled", ~lost'
               PROVE  tick' \in {"fired", "waiting", "begun"} \/ (tick' = "pass" /\ queued # {})
    BY <1>2 DEF Prompt
  <2>1. tick' \in {"fired", "waiting", "begun", "pass"}
    BY <1>3, <1>8 DEF STypeOK
  <2> QED
    BY <1>1, <1>8, <2>1 DEF PassKeeps
<1>11. HeldArmed'
  <2>1. Rearming => Rearming'
    BY <1>2 DEF Rearming, Some
  <2> QED
    BY <1>1, <1>2, <2>1, HeldStays
<1> QED
  BY <1>3, <1>4, <1>6, <1>7, <1>9, <1>10, <1>11 DEF SchedulerInv

\* What the tick leaves its thread to schedule.
LEMMA TickLeaves ==
  ASSUME SchedulerInv, NEW s \in Seq(Parts), s # << >>, tick # "none", tick' = "none",
         proc' = [proc EXCEPT ![TickThread].todo = s], Has(s, Scans) => able, able' = able,
         UNCHANGED <<waker, wake>>
  PROVE  /\ Puts(TickThread, s) /\ (\A q \in Threads : Scheduled(q)') /\ Lanes'
         /\ \A S \in {Calls, Scans, Soon} : (Some(S) => Some(S)') /\ (Has(s, S) => Some(S)')
<1>1. STypeOK /\ (\A q \in Threads : Scheduled(q)) /\ Lanes
  BY DEF SchedulerInv
<1>2. TickThread \in Threads /\ TickThread \notin Nodes /\ proc[TickThread] = Quiet
  BY <1>1, ThreadsDiffer DEF Lanes, Threads
<1>3. Puts(TickThread, s)
  BY <1>1, <1>2, PutsQuiet
<1>4. \A q \in Threads : Scheduled(q)'
  BY <1>1, <1>2, <1>3, PutsScheduled
<1>5. Lanes'
  <2>1. \A n \in Nodes : proc'[n] = proc[n]
    BY <1>2, <1>3 DEF Puts, Threads
  <2> QED
    BY <1>1, <2>1 DEF Lanes
<1>6. \A S \in {Calls, Scans, Soon} : ~Has(proc[TickThread].todo, S)
  BY <1>2, QuietHas
<1> QED
  BY <1>2, <1>3, <1>4, <1>5, <1>6, PutsSome

\* A tick that is skipped arms the heartbeat.
LEMMA TickSkipsInv ==
  ASSUME SchedulerInv, TickSkips
  PROVE  SchedulerInv'
<1>1. /\ STypeOK /\ (\A q \in Threads : Scheduled(q)) /\ Lanes /\ Stopped /\ WokenNodeIsDue
      /\ Coming /\ PassKeeps /\ Prompt /\ HeldArmed
  BY DEF SchedulerInv
<1>2. /\ tick = "fired" /\ tick' = "none"
      /\ news' = IF news = "signalled" THEN "deferred" ELSE news
      /\ UNCHANGED <<started, able, queued, since, job, wake, due, waker, scanned, lost>>
      /\ proc' = IF started THEN [proc EXCEPT ![TickThread].todo = <<"ceiling">>] ELSE proc
  BY DEF TickSkips
<1>3. Stopped' /\ WokenNodeIsDue' /\ PassKeeps' /\ Prompt'
  BY <1>1, <1>2 DEF Stopped, StoppedIsStopped, WokenNodeIsDue, PassKeeps, Prompt
<1>4. CASE started
  <2>1. /\ <<"ceiling">> \in Seq(Parts) /\ <<"ceiling">> # << >> /\ Has(<<"ceiling">>, Calls)
        /\ ~Has(<<"ceiling">>, Scans)
    <3>1. "ceiling" \in Parts /\ "ceiling" \in Calls /\ "ceiling" \notin Scans
      BY DEF Parts, Calls, Scans
    <3> QED
      BY <3>1, HasFew
  <2>2. /\ Puts(TickThread, <<"ceiling">>) /\ (\A q \in Threads : Scheduled(q)') /\ Lanes'
        /\ Some(Calls)' /\ (Some(Scans) => Some(Scans)')
    BY <1>2, <1>4, <2>1, TickLeaves
  <2>3. STypeOK'
    BY <1>1, <1>2, <2>2 DEF STypeOK, Puts, ProcRecs
  <2>4. Coming' /\ HeldArmed'
    BY <1>1, <1>2, <2>2, HeldStays DEF Coming, Rearming
  <2> QED
    BY <1>3, <2>2, <2>3, <2>4 DEF SchedulerInv
<1>5. CASE ~started
  <2>1. UNCHANGED proc
    BY <1>2, <1>5
  <2>2. STypeOK'
    BY <1>1, <1>2, <2>1 DEF STypeOK
  <2>3. (\A q \in Threads : Scheduled(q)') /\ Lanes' /\ Coming' /\ HeldArmed'
    BY <1>1, <1>2, <1>5, <2>1 DEF Scheduled, Lanes, Coming, HeldArmed
  <2> QED
    BY <1>3, <2>2, <2>3 DEF SchedulerInv
<1> QED
  BY <1>4, <1>5

\* A tick waits for the gate, enters it, and reads.
LEMMA TickOnInv ==
  ASSUME SchedulerInv, TickStarts \/ TickEnters \/ TickReads
  PROVE  SchedulerInv'
<1>1. /\ STypeOK /\ (\A q \in Threads : Scheduled(q)) /\ Lanes /\ Stopped /\ WokenNodeIsDue
      /\ Coming /\ PassKeeps /\ Prompt /\ HeldArmed
  BY DEF SchedulerInv
<1>2. /\ UNCHANGED <<started, able, since, job, wake, due, waker, proc, scanned, lost>>
      /\ \/ tick = "fired" /\ tick' = "waiting" /\ able /\ queued' = {} /\ news' = news
         \/ /\ tick = "waiting" /\ tick' = "begun" /\ news' = news /\ queued' = queued
            /\ \A n \in Nodes : waker[n] # "pass"
         \/ tick = "begun" /\ tick' = "pass" /\ news' = "none" /\ queued' = queued
  BY DEF TickStarts, TickEnters, TickReads, GateFree
<1>3. STypeOK'
  BY <1>1, <1>2 DEF STypeOK
<1>4. (\A q \in Threads : Scheduled(q)') /\ Lanes'
  BY <1>1, <1>2 DEF Scheduled, Lanes
<1>5. Stopped' /\ WokenNodeIsDue' /\ PassKeeps' /\ Coming' /\ Prompt'
  BY <1>1, <1>2 DEF Stopped, StoppedIsStopped, WokenNodeIsDue, PassKeeps, Coming, Prompt
<1>6. HeldArmed'
  <2>1. Rearming => Rearming'
    BY <1>2 DEF Rearming, Some
  <2> QED
    BY <1>1, <1>2, <2>1, HeldStays
<1> QED
  BY <1>3, <1>4, <1>5, <1>6 DEF SchedulerInv

\* A tick that ends arms the heartbeat and the wakes, and answers what came meanwhile.
LEMMA TickEndsInv ==
  ASSUME SchedulerInv, TickEnds
  PROVE  SchedulerInv'
<1>1. /\ STypeOK /\ (\A q \in Threads : Scheduled(q)) /\ Lanes /\ Stopped /\ WokenNodeIsDue
      /\ Coming /\ PassKeeps /\ Prompt /\ HeldArmed
  BY DEF SchedulerInv
<1>2. /\ tick' = "none" /\ queued' = {} /\ since' = 0
      /\ proc' = [proc EXCEPT ![TickThread].todo = AtTheEnd]
      /\ UNCHANGED <<started, able, job, wake, waker, scanned, lost>>
      /\ \/ tick = "pass" /\ due' \in [Nodes -> {None} \cup Holds \cup {due[n] : n \in Nodes}] /\ UNCHANGED news
         \/ tick = "begun" /\ UNCHANGED due /\ news' = IF news = "signalled" /\ queued = {} THEN "deferred" ELSE news
         \/ tick = "waiting" /\ ~started /\ UNCHANGED <<due, news>>
  BY DEF TickEnds, TickDone, Unread
<1>3. /\ AtTheEnd \in Seq(Parts) /\ AtTheEnd # << >> /\ Has(AtTheEnd, Calls) /\ Has(AtTheEnd, Scans)
      /\ queued # {} => Has(AtTheEnd, Soon)
  BY <1>1, AtTheEndHas
<1>4. able
  BY <1>1, <1>2 DEF Lanes
<1>5. /\ Puts(TickThread, AtTheEnd) /\ (\A q \in Threads : Scheduled(q)') /\ Lanes'
      /\ Some(Calls)' /\ Some(Scans)' /\ (queued # {} => Some(Soon)') /\ (Some(Soon) => Some(Soon)')
  BY <1>2, <1>3, <1>4, TickLeaves
<1>6. due' \in [Nodes -> Nat \cup {None}]
  BY <1>1, <1>2, HoldsType DEF STypeOK
<1>7. STypeOK'
  <2>1. 0 \in 0 .. PokeMin
    BY DelaysType
  <2> QED
    BY <1>1, <1>2, <1>5, <1>6, <2>1 DEF STypeOK, Puts, ProcRecs
<1>8. WokenNodeIsDue'
  BY <1>1, <1>2 DEF Lanes, WokenNodeIsDue
<1>9. Stopped' /\ PassKeeps' /\ Coming' /\ HeldArmed'
  BY <1>1, <1>2, <1>5 DEF Stopped, StoppedIsStopped, PassKeeps, Coming, HeldArmed, Rearming
<1>10. Prompt'
  <2> SUFFICES ASSUME started, news' = "signalled" PROVE Some(Soon)'
    BY <1>2 DEF Prompt
  <2>1. queued # {}
    BY <1>1, <1>2 DEF PassKeeps
  <2> QED
    BY <1>5, <2>1
<1> QED
  BY <1>5, <1>7, <1>8, <1>9, <1>10 DEF SchedulerInv

-----------------------------------------------------------------------------
(* The wake passes.                                                           *)

\* A wake that fires is followed by a pass, or the wakes are armed again anyway.
LEMMA WakeFiresInv ==
  ASSUME SchedulerInv, NEW n \in Nodes, WakeFires(n)
  PROVE  SchedulerInv'
<1>1. /\ STypeOK /\ (\A q \in Threads : Scheduled(q)) /\ Lanes /\ Stopped /\ WokenNodeIsDue
      /\ Coming /\ PassKeeps /\ Prompt /\ HeldArmed
  BY DEF SchedulerInv
<1>2. /\ wake[n] = 0 /\ wake' = [wake EXCEPT ![n] = None]
      /\ waker' = IF started /\ able /\ waker[n] = "none" /\ proc[n] = Quiet
                  THEN [waker EXCEPT ![n] = "waiting"] ELSE waker
      /\ UNCHANGED <<started, able, tick, queued, since, job, due, proc, news, scanned, lost>>
  BY DEF WakeFires
<1>3. /\ wake \in [Nodes -> Nat \cup {None}] /\ wake' \in [Nodes -> Nat \cup {None}] /\ wake'[n] = None
      /\ \A m \in Nodes \ {n} : wake'[m] = wake[m]
  BY <1>1, <1>2 DEF STypeOK
<1>4. /\ waker \in [Nodes -> {"none", "waiting", "pass"}] /\ waker' \in [Nodes -> {"none", "waiting", "pass"}]
      /\ \A m \in Nodes \ {n} : waker'[m] = waker[m]
      /\ waker'[n] = waker[n] \/ (waker'[n] = "waiting" /\ proc[n] = Quiet /\ able)
      /\ started /\ able /\ proc[n] = Quiet => waker'[n] # "none"
  <2> DEFINE Goes == started /\ able /\ waker[n] = "none" /\ proc[n] = Quiet
  <2>1. waker \in [Nodes -> {"none", "waiting", "pass"}]
    BY <1>1 DEF STypeOK
  <2>2. waker' = IF Goes THEN [waker EXCEPT ![n] = "waiting"] ELSE waker
    BY <1>2
  <2>3. /\ Goes => proc[n] = Quiet /\ able
        /\ started /\ able /\ proc[n] = Quiet => Goes \/ waker[n] # "none"
    OBVIOUS
  <2> HIDE DEF Goes
  <2>4. CASE Goes
    BY <2>1, <2>2, <2>3, <2>4
  <2>5. CASE ~Goes
    BY <2>1, <2>2, <2>3, <2>5
  <2> QED
    BY <2>4, <2>5
<1>5. STypeOK'
  BY <1>1, <1>2, <1>3, <1>4 DEF STypeOK
<1>6. \A q \in Threads : Scheduled(q)'
  BY <1>1, <1>2 DEF Scheduled
<1>7. Lanes'
  BY <1>1, <1>2, <1>3, <1>4, NoneType DEF Lanes
<1>8. WokenNodeIsDue'
  BY <1>1, <1>2, <1>4 DEF WokenNodeIsDue
<1>9. Stopped' /\ PassKeeps'
  BY <1>1, <1>2, <1>3 DEF Stopped, StoppedIsStopped, PassKeeps
<1>10. Coming' /\ Prompt'
  BY <1>1, <1>2 DEF Coming, Prompt, Some
<1>11. HeldArmed'
  <2> SUFFICES ASSUME started, scanned, ~Rearming' PROVE FALSE
    BY <1>2 DEF HeldArmed
  <2>1. waker'[n] = "none" /\ \A q \in Threads : ~Has(proc[q].todo, Scans)
    BY <1>2, <1>4 DEF Rearming, Some
  <2>2. n \in Threads /\ able
    BY <1>1 DEF Threads, Stopped
  <2>3. proc[n] # Quiet
    BY <1>4, <2>1, <2>2
  <2>4. proc[n].todo # << >>
    BY <1>1, <2>2, <2>3 DEF Scheduled
  <2> QED
    BY <1>1, <1>2, <2>1, <2>2, <2>4 DEF Lanes
<1> QED
  BY <1>5, <1>6, <1>7, <1>8, <1>9, <1>10, <1>11 DEF SchedulerInv

\* A wake pass begins, for a node that is still due.
LEMMA WakePassInv ==
  ASSUME SchedulerInv, NEW n \in Nodes, waker[n] = "waiting", GateFree, due[n] = 0,
         waker' = [waker EXCEPT ![n] = "pass"],
         UNCHANGED <<started, able, tick, queued, since, job, wake, due, proc, news, scanned, lost>>
  PROVE  SchedulerInv'
<1>1. /\ STypeOK /\ (\A q \in Threads : Scheduled(q)) /\ Lanes /\ Stopped /\ WokenNodeIsDue
      /\ Coming /\ PassKeeps /\ Prompt /\ HeldArmed
  BY DEF SchedulerInv
<1>2. /\ waker' \in [Nodes -> {"none", "waiting", "pass"}] /\ waker'[n] = "pass"
      /\ (\A m \in Nodes \ {n} : waker'[m] = waker[m]) /\ tick \notin {"begun", "pass"}
  BY <1>1 DEF STypeOK, GateFree
<1>3. STypeOK'
  BY <1>1, <1>2 DEF STypeOK
<1>4. (\A q \in Threads : Scheduled(q)') /\ Lanes'
  BY <1>1, <1>2 DEF Scheduled, Lanes
<1>5. WokenNodeIsDue'
  BY <1>1, <1>2 DEF WokenNodeIsDue
<1>6. Stopped' /\ PassKeeps' /\ Coming' /\ Prompt'
  BY <1>1 DEF Stopped, StoppedIsStopped, PassKeeps, Coming, Prompt, Some
<1>7. HeldArmed'
  BY <1>2 DEF HeldArmed, Rearming
<1> QED
  BY <1>3, <1>4, <1>5, <1>6, <1>7 DEF SchedulerInv

\* A wake pass is over: its thread arms the wakes.
LEMMA WakeLeavesInv ==
  ASSUME SchedulerInv, NEW n \in Nodes, waker[n] # "none", NEW part \in Scans, NEW d \in Nat \cup {None},
         waker' = [waker EXCEPT ![n] = "none"], due' = [due EXCEPT ![n] = d],
         proc' = [proc EXCEPT ![n].todo = <<part>>],
         UNCHANGED <<started, able, tick, queued, since, job, wake, news, scanned, lost>>
  PROVE  SchedulerInv'
<1>1. /\ STypeOK /\ (\A q \in Threads : Scheduled(q)) /\ Lanes /\ Stopped /\ WokenNodeIsDue
      /\ Coming /\ PassKeeps /\ Prompt /\ HeldArmed
  BY DEF SchedulerInv
<1>2. n \in Threads /\ n # TickThread /\ proc[n] = Quiet /\ able
  BY <1>1, ThreadsDiffer DEF Lanes, Threads
<1>3. <<part>> \in Seq(Parts) /\ <<part>> # << >> /\ Has(<<part>>, Scans)
  <2>1. part \in Parts
    BY DEF Parts, Scans
  <2> QED
    BY <2>1, HasFew
<1>4. Puts(n, <<part>>)
  BY <1>1, <1>2, <1>3, PutsQuiet
<1>5. /\ waker' \in [Nodes -> {"none", "waiting", "pass"}] /\ waker'[n] = "none"
      /\ \A m \in Nodes \ {n} : waker'[m] = waker[m] /\ due'[m] = due[m]
      /\ due' \in [Nodes -> Nat \cup {None}]
  BY <1>1 DEF STypeOK
<1>6. STypeOK'
  BY <1>1, <1>4, <1>5 DEF STypeOK, Puts, ProcRecs
<1>7. \A q \in Threads : Scheduled(q)'
  BY <1>1, <1>2, <1>4, PutsScheduled
<1>8. Lanes'
  <2>1. /\ proc'[TickThread] = proc[TickThread] /\ \A m \in Nodes \ {n} : proc'[m] = proc[m]
        /\ proc'[n].todo = <<part>>
    BY <1>2, <1>4 DEF Puts, Threads
  <2> QED
    BY <1>1, <1>3, <1>5, <2>1 DEF Lanes
<1>9. WokenNodeIsDue'
  BY <1>1, <1>5 DEF WokenNodeIsDue
<1>10. /\ Some(Scans)' /\ (Some(Calls) => Some(Calls)') /\ (Some(Soon) => Some(Soon)')
  <2>1. ~Has(proc[n].todo, Calls) /\ ~Has(proc[n].todo, Soon)
    BY <1>2, QuietHas
  <2> QED
    BY <1>2, <1>3, <1>4, <2>1, PutsSome
<1>11. Stopped' /\ PassKeeps' /\ Coming' /\ Prompt' /\ HeldArmed'
  BY <1>1, <1>10 DEF Stopped, StoppedIsStopped, PassKeeps, Coming, Prompt, HeldArmed, Rearming
<1> QED
  BY <1>6, <1>7, <1>8, <1>9, <1>11 DEF SchedulerInv

\* The steps of a wake pass.
LEMMA WokenInv ==
  ASSUME SchedulerInv, NEW n \in Nodes, Woken(n)
  PROVE  SchedulerInv'
<1>1. due \in [Nodes -> Nat \cup {None}]
  BY DEF SchedulerInv, STypeOK
<1>2. CASE WakeEnters(n)
  <2>1. waker[n] = "waiting" /\ GateFree
        /\ UNCHANGED <<started, able, tick, queued, since, job, wake, due, news, scanned, lost>>
    BY <1>2 DEF WakeEnters
  <2>2. CASE started /\ due[n] = 0
    BY <1>2, <2>1, <2>2, WakePassInv DEF WakeEnters
  <2>3. CASE ~(started /\ due[n] = 0)
    <3>1. /\ waker' = [waker EXCEPT ![n] = "none"] /\ proc' = [proc EXCEPT ![n].todo = <<"wakes">>]
          /\ due' = [due EXCEPT ![n] = due[n]] /\ due[n] \in Nat \cup {None} /\ "wakes" \in Scans
      BY <1>1, <1>2, <2>1, <2>3 DEF WakeEnters, Scans
    <3> QED
      BY <2>1, <3>1, WakeLeavesInv
  <2> QED
    BY <2>2, <2>3
<1>3. ASSUME NEW failed \in BOOLEAN, WakeEnds(n, failed) PROVE SchedulerInv'
  <2>1. PICK d \in IF failed THEN {due[n]} ELSE {None} \cup Holds : due' = [due EXCEPT ![n] = d]
    BY <1>3 DEF WakeEnds
  <2>2. d \in Nat \cup {None}
    BY <1>1, HoldsType
  <2>3. PICK part \in Scans : proc' = [proc EXCEPT ![n].todo = <<part>>]
    BY <1>3 DEF WakeEnds, Scans
  <2>4. /\ waker[n] # "none" /\ waker' = [waker EXCEPT ![n] = "none"]
        /\ UNCHANGED <<started, able, tick, queued, since, job, wake, news, scanned, lost>>
    BY <1>3 DEF WakeEnds
  <2> QED
    BY <2>1, <2>2, <2>3, <2>4, WakeLeavesInv
<1> QED
  BY <1>2, <1>3 DEF Woken

-----------------------------------------------------------------------------
(* Time, and the start.                                                       *)

\* What is due later is due sooner; the wakes and the nodes' times come closer together.
LEMMA TimePassesInv ==
  ASSUME SchedulerInv, TimePasses
  PROVE  SchedulerInv'
<1>1. /\ STypeOK /\ (\A q \in Threads : Scheduled(q)) /\ Lanes /\ Stopped /\ WokenNodeIsDue
      /\ Coming /\ PassKeeps /\ Prompt /\ HeldArmed
  BY DEF SchedulerInv
<1>2. /\ \A q \in Threads : proc[q] = Quiet
      /\ since' = Least(since + 1, PokeMin) /\ job' = Sooner(job)
      /\ wake' = [n \in Nodes |-> Sooner(wake[n])] /\ due' = [n \in Nodes |-> Sooner(due[n])]
      /\ job # 0 /\ (\A n \in Nodes : wake[n] # 0)
      /\ UNCHANGED <<started, able, tick, queued, waker, proc, news, scanned, lost>>
  BY DEF TimePasses
<1>3. \A t \in Nat \cup {None} :
        /\ Sooner(t) \in Nat \cup {None} /\ (t = None <=> Sooner(t) = None)
        /\ t = 0 => Sooner(t) = 0
        /\ t # None => Sooner(t) <= t
        /\ t # None /\ t # 0 => Sooner(t) = t - 1
  BY NoneType DEF Sooner
<1>4. /\ job \in Nat \cup {None} /\ since \in 0 .. PokeMin
      /\ wake \in [Nodes -> Nat \cup {None}] /\ due \in [Nodes -> Nat \cup {None}]
  BY <1>1 DEF STypeOK
<1>5. STypeOK'
  <2>1. since' \in 0 .. PokeMin
    BY <1>2, <1>4, DelaysType DEF Least
  <2>2. /\ job' \in Nat \cup {None} /\ wake' \in [Nodes -> Nat \cup {None}]
        /\ due' \in [Nodes -> Nat \cup {None}]
    BY <1>2, <1>3, <1>4
  <2> QED
    BY <1>1, <1>2, <2>1, <2>2 DEF STypeOK
<1>6. \A q \in Threads : Scheduled(q)'
  BY <1>1, <1>2 DEF Scheduled
<1>7. Lanes'
  <2>1. \A n \in Nodes : proc[n].todo = << >>
    BY <1>2 DEF Threads, Quiet
  <2> QED
    BY <1>1, <1>2, <2>1 DEF Lanes
<1>8. Stopped' /\ WokenNodeIsDue'
  BY <1>1, <1>2, <1>3, <1>4 DEF Stopped, StoppedIsStopped, WokenNodeIsDue
<1>9. PassKeeps' /\ Coming'
  BY <1>1, <1>2, <1>3, <1>4 DEF PassKeeps, Coming, Some
<1>10. Prompt'
  <2>1. job # None /\ job <= PokeMin => job' # None /\ job' <= PokeMin
    BY <1>2, <1>3, <1>4, NoneType, DelaysType
  <2>2. Some(Soon) => Some(Soon)'
    BY <1>2 DEF Some
  <2> QED
    BY <1>1, <1>2, <2>1, <2>2 DEF Prompt
<1>11. HeldArmed'
  <2> SUFFICES ASSUME started, scanned, ~Rearming', NEW n \in Nodes, due'[n] # None
               PROVE  wake'[n] # None /\ wake'[n] <= Greatest(due'[n], MinGap)
    BY <1>2 DEF HeldArmed, Armed
  <2>1. ~Rearming
    BY <1>2 DEF Rearming, Some
  <2>2. /\ due[n] \in Nat \cup {None} /\ wake[n] \in Nat \cup {None}
        /\ due'[n] = Sooner(due[n]) /\ wake'[n] = Sooner(wake[n]) /\ wake[n] # 0 /\ due[n] # None
    BY <1>2, <1>3, <1>4
  <2>3. wake[n] # None /\ wake[n] <= Greatest(due[n], MinGap)
    BY <1>1, <2>1, <2>2 DEF HeldArmed, Armed
  <2>4. wake'[n] = wake[n] - 1 /\ wake'[n] # None /\ due[n] \in Nat /\ wake[n] \in Nat
    BY <1>3, <2>2, <2>3
  <2>5. due'[n] \in Nat /\ due'[n] >= due[n] - 1
    BY <1>3, <2>2, <2>4, NoneType
  <2> QED
    BY <2>3, <2>4, <2>5, DelaysType DEF Greatest
<1> QED
  BY <1>5, <1>6, <1>7, <1>8, <1>9, <1>10, <1>11 DEF SchedulerInv

\* Before the start nothing is scheduled.
LEMMA SchedulerInvInit == Init => SchedulerInv
<1> SUFFICES ASSUME Init PROVE SchedulerInv
  OBVIOUS
<1>1. \A q \in Threads : proc[q] = Quiet /\ ~Has(proc[q].todo, Scans) /\ proc[q].todo = << >>
  <2>1. \A q \in Threads : proc[q] = Quiet
    BY DEF Init
  <2> QED
    BY <2>1, QuietHas DEF Quiet
<1>2. Quiet \in ProcRecs
  <2>1. << >> \in Seq(Parts)
    OBVIOUS
  <2> QED
    BY <2>1 DEF Quiet, ProcRecs
<1>3. STypeOK
  <2>1. proc \in [Threads -> ProcRecs]
    BY <1>2 DEF Init
  <2>2. since \in 0 .. PokeMin
    BY DelaysType DEF Init
  <2>3. /\ due \in [Nodes -> Nat \cup {None}] /\ wake \in [Nodes -> Nat \cup {None}]
        /\ waker \in [Nodes -> {"none", "waiting", "pass"}]
    BY HoldsType DEF Init
  <2> QED
    BY <2>1, <2>2, <2>3 DEF Init, STypeOK, ProcRecs
<1>4. \A q \in Threads : Scheduled(q)
  BY <1>1 DEF Scheduled
<1>5. Lanes
  <2>1. \A n \in Nodes : n \in Threads
    BY DEF Threads
  <2> QED
    BY <1>1, <2>1 DEF Init, Lanes
<1>6. Stopped /\ WokenNodeIsDue /\ Coming /\ PassKeeps /\ Prompt /\ HeldArmed
  BY DEF Init, Stopped, StoppedIsStopped, WokenNodeIsDue, Coming, PassKeeps, Prompt, HeldArmed
<1> QED
  BY <1>3, <1>4, <1>5, <1>6 DEF SchedulerInv

\* Every step keeps the invariant.
LEMMA SchedulerInvNext == SchedulerInv /\ [Next]_vars => SchedulerInv'
<1> SUFFICES ASSUME SchedulerInv, [Next]_vars PROVE SchedulerInv'
  OBVIOUS
<1>1. ASSUME NEW p \in Threads, Scheduling(p) PROVE SchedulerInv'
  BY <1>1, DatesInv, GuardInv, AddsInv, ArmWakesInv DEF Scheduling
<1>2. ASSUME Tick PROVE SchedulerInv'
  BY <1>2, TickSkipsInv, TickOnInv, TickEndsInv DEF Tick
<1>3. ASSUME NEW n \in Nodes, WakeFires(n) \/ Woken(n) PROVE SchedulerInv'
  BY <1>3, WakeFiresInv, WokenInv
<1>4. ASSUME NEW p \in Callers, NEW kind \in Kinds, Signal(p, kind) PROVE SchedulerInv'
  BY <1>4, KindsType, SignalInv
<1> QED
  BY <1>1, <1>2, <1>3, <1>4, OutsideInv, JobFiresInv, StartInv, StopInv, TimePassesInv DEF Next

\* The invariant always holds.
LEMMA SchedulerInvHolds == Spec => []SchedulerInv
BY SchedulerInvInit, SchedulerInvNext, PTL DEF Spec

-----------------------------------------------------------------------------
(* The theorems.                                                             *)

\* The variables hold what they may hold.
THEOREM SchedulerTypeCorrect == Spec => []STypeOK
<1>1. SchedulerInv => STypeOK
  BY DEF SchedulerInv
<1> QED
  BY <1>1, SchedulerInvHolds, PTL

\* dayflow_scheduler.py never goes dark: every path of _execute_tick that gives up, and every thread
\* that takes an entry off its list, leaves a run behind, but for the two races that lose one.
THEOREM ARunIsComing == Spec => []HeartbeatGoesOn
<1>1. SchedulerInv => HeartbeatGoesOn
  <2> SUFFICES ASSUME SchedulerInv, started, ~lost PROVE RunComing
    BY DEF HeartbeatGoesOn
  <2>1. job # None \/ tick # "none" \/ Some(Calls)
    BY DEF SchedulerInv, Coming
  <2>2. Some(Calls) => \E p \in Threads : proc[p].todo # << >>
    BY HasFew DEF Some
  <2> QED
    BY <2>1, <2>2 DEF RunComing, TickBusy
<1> QED
  BY <1>1, SchedulerInvHolds, PTL

\* poke and _on_work_progress are answered within the throttle, whatever they fall into, but for the
\* two races and for ticks that read nothing: skipped, blocked or failed before ingestion
\* (dayflow_tick.py).
THEOREM SignalsArePrompt == Spec => []SignalIsPrompt
<1>1. SchedulerInv => SignalIsPrompt
  BY DEF SchedulerInv, Prompt, SignalIsPrompt, Some, Has, Soon, Running
<1> QED
  BY <1>1, SchedulerInvHolds, PTL

\* _fire_work_node looks at its node again inside the gate, and nothing changes it there.
THEOREM WakesAreDue == Spec => []WokenNodeIsDue
<1>1. SchedulerInv => WokenNodeIsDue
  BY DEF SchedulerInv
<1> QED
  BY <1>1, SchedulerInvHolds, PTL

\* Whenever the two lanes are at rest, _arm_work_node_wakes has been through since a node's time last
\* changed or its wake last fired.
THEOREM HeldNodesWake == Spec => []HeldNodeHasWake
<1>1. SchedulerInv => HeldNodeHasWake
  <2> SUFFICES ASSUME SchedulerInv, started, scanned, ~TickBusy,
                      \A m \in Nodes : waker[m] = "none" /\ proc[m] = Quiet
               PROVE  \A n \in Nodes : Armed(n)
    BY DEF HeldNodeHasWake, Armed
  <2>1. \A p \in Nodes \cup {TickThread} : ~Has(proc[p].todo, Scans)
    <3>1. proc[TickThread].todo = << >>
      BY DEF TickBusy
    <3>2. ~Has(proc[TickThread].todo, Scans)
      BY <3>1, HasFew
    <3> QED
      BY <3>2, QuietHas
  <2>2. ~Some(Scans)
    BY <2>1 DEF SchedulerInv, Scheduled, Some
  <2> QED
    BY <2>2 DEF SchedulerInv, HeldArmed, Rearming
<1> QED
  BY <1>1, SchedulerInvHolds, PTL

\* stop() clears every job, and _schedule_tick and _arm_work_node_wakes look again under the lock.
THEOREM StopHolds == Spec => []StoppedIsStopped
<1>1. SchedulerInv => StoppedIsStopped
  BY DEF SchedulerInv, Stopped
<1> QED
  BY <1>1, SchedulerInvHolds, PTL
=============================================================================
