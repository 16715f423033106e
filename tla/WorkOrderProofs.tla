---------------------------- MODULE WorkOrderProofs ----------------------------
(***************************************************************************)
(* Theorems about the two graphs of a work object: the parent spine, whose    *)
(* subtrees the cascades stop, and the dependencies, which stay acyclic and    *)
(* lose no ordering when duplicates are merged.  Both are walked by iterating   *)
(* a step as often as there are nodes (Descendants, Reaches); the lemmas show   *)
(* that this many iterations reach the least closed set, so that the theorems   *)
(* can reason about closed sets alone.                                         *)
(***************************************************************************)
EXTENDS WorkGraphProofs, FiniteSetTheorems

-----------------------------------------------------------------------------
(* Induction over the naturals, stated of a set so that every backend can     *)
(* instantiate it.                                                           *)

\* A set of naturals that holds 0 and every successor is all of them: otherwise the interval
\* below the least missing number would have no strict subset among such intervals.
LEMMA SetInduction ==
  ASSUME NEW S \in SUBSET Nat, 0 \in S, \A n \in S : n + 1 \in S
  PROVE  S = Nat
<1> DEFINE T == {0 .. n : n \in Nat \ S}
           R == StrictSubsetOrdering(Nat)
<1>1. SUFFICES ASSUME T # {} PROVE FALSE
  OBVIOUS
<1>2. T \subseteq FiniteSubsetsOf(Nat)
  <2> SUFFICES ASSUME NEW n \in Nat PROVE 0 .. n \in SUBSET Nat /\ IsFiniteSet(0 .. n)
    BY DEF FiniteSubsetsOf
  <2> QED
    BY FS_Interval
<1>3. IsWellFoundedOn(R, FiniteSubsetsOf(Nat))
  BY FS_StrictSubsetOrderingWellFounded
<1> HIDE DEF T, R
<1>4. PICK x \in T : \A y \in T : ~(<<y, x>> \in R)
  BY <1>1, <1>2, <1>3, WFMin
<1> USE DEF T, R
<1>5. PICK n \in Nat \ S : x = 0 .. n
  BY <1>4
<1>6. n # 0 /\ n - 1 \in Nat \ S
  <2>1. n # 0
    OBVIOUS
  <2>2. n - 1 \in Nat /\ (n - 1) + 1 = n
    BY <2>1
  <2> QED
    BY <2>1, <2>2
<1>7. <<0 .. n - 1, 0 .. n>> \in R
  <2>1. 0 .. n - 1 \subseteq 0 .. n /\ n \in 0 .. n /\ n \notin 0 .. n - 1 /\ 0 .. n \subseteq Nat
    BY <1>6
  <2> QED
    BY <2>1 DEF StrictSubsetOrdering
<1> QED
  BY <1>4, <1>5, <1>6, <1>7

-----------------------------------------------------------------------------
(* Climbing a relation E inside a set U from the members of A.               *)

Closed(E, U, X)   == \A u \in U, v \in X : <<u, v>> \in E => u \in X
Above(E, U, X)    == X \cup {u \in U : \E v \in X : <<u, v>> \in E}
\* The least set above A that is closed.
LeastClosed(E, U, A, X) == /\ A \subseteq X /\ X \subseteq U /\ Closed(E, U, X)
                           /\ \A C : A \subseteq C /\ Closed(E, U, C) => X \subseteq C
Climbs(f, N, E, U, A) == f = [k \in 0 .. N |-> IF k = 0 THEN A ELSE Above(E, U, f[k-1])]

\* The recursive function of Descendants and Reaches exists.
LEMMA ClimbExists ==
  ASSUME NEW U, NEW E, NEW A, NEW N \in Nat
  PROVE  \E f : Climbs(f, N, E, U, A)
<1> DEFINE S == {n \in Nat : \E f : Climbs(f, n, E, U, A)}
<1>1. 0 \in S
  <2>1. Climbs([k \in 0 .. 0 |-> A], 0, E, U, A)
    BY DEF Climbs
  <2> QED
    BY <2>1
<1>2. ASSUME NEW n \in S PROVE n + 1 \in S
  <2>1. PICK f : Climbs(f, n, E, U, A)
    OBVIOUS
  <2> DEFINE g == [k \in 0 .. n + 1 |-> IF k = 0 THEN A ELSE Above(E, U, f[k-1])]
  <2>2. \A k \in 0 .. n : g[k] = f[k]
    BY <2>1 DEF Climbs
  <2>3. \A k \in 0 .. n + 1 : k # 0 => k - 1 \in 0 .. n
    OBVIOUS
  <2>4. g = [k \in 0 .. n + 1 |-> IF k = 0 THEN A ELSE Above(E, U, g[k-1])]
    BY <2>2, <2>3
  <2>5. Climbs(g, n + 1, E, U, A)
    BY <2>4 DEF Climbs
  <2> HIDE DEF g
  <2>6. n + 1 \in Nat
    OBVIOUS
  <2> QED
    BY <2>5, <2>6
<1>3. S \in SUBSET Nat
  OBVIOUS
<1>4. S = Nat
  <2> HIDE DEF S
  <2> QED
    BY <1>1, <1>2, <1>3, SetInduction
<1> QED
  BY <1>4

\* What a climb has reached after k steps, and that one step less is contained in it.
LEMMA ClimbSteps ==
  ASSUME NEW U, NEW E, NEW A, NEW N \in Nat, NEW f, Climbs(f, N, E, U, A)
  PROVE  /\ f[0] = A
         /\ \A k \in 0 .. N : k + 1 \in 0 .. N => f[k+1] = Above(E, U, f[k])
<1>1. f = [k \in 0 .. N |-> IF k = 0 THEN A ELSE Above(E, U, f[k-1])]
  BY DEF Climbs
<1>2. f[0] = A
  BY <1>1
<1>3. ASSUME NEW k \in 0 .. N, k + 1 \in 0 .. N PROVE f[k+1] = Above(E, U, f[k])
  <2>1. k + 1 # 0 /\ (k + 1) - 1 = k
    OBVIOUS
  <2> QED
    BY <1>1, <1>3, <2>1
<1> QED
  BY <1>2, <1>3

\* It keeps A and stays inside every closed set around A,
LEMMA ClimbStays ==
  ASSUME NEW U, NEW E, NEW A, NEW N \in Nat, NEW f, Climbs(f, N, E, U, A),
         NEW C, A \subseteq C, Closed(E, U, C)
  PROVE  \A k \in 0 .. N : A \subseteq f[k] /\ f[k] \subseteq C
<1> DEFINE Good(k) == A \subseteq f[k] /\ f[k] \subseteq C
           S == {k \in Nat : k \in 0 .. N => Good(k)}
<1>1. 0 \in S
  BY ClimbSteps
<1>2. ASSUME NEW k \in S, k + 1 \in 0 .. N PROVE Good(k + 1)
  <2>1. k \in 0 .. N
    BY <1>2
  <2>2. Good(k) /\ f[k+1] = Above(E, U, f[k])
    BY <1>2, <2>1, ClimbSteps
  <2> QED
    BY <2>2 DEF Above, Closed
<1> HIDE DEF Good
<1>3. S \in SUBSET Nat /\ \A k \in S : k + 1 \in S
  BY <1>2
<1>4. S = Nat
  <2> HIDE DEF S
  <2> QED
    BY <1>1, <1>3, SetInduction
<1>5. \A k \in 0 .. N : Good(k)
  BY <1>4
<1> QED
  BY <1>5 DEF Good

\* so inside U.
LEMMA ClimbStaysInside ==
  ASSUME NEW U, NEW E, NEW A \in SUBSET U, NEW N \in Nat, NEW f, Climbs(f, N, E, U, A)
  PROVE  \A k \in 0 .. N : A \subseteq f[k] /\ f[k] \subseteq U
<1>1. A \subseteq U /\ Closed(E, U, U)
  BY DEF Closed
<1> QED
  BY <1>1, ClimbStays

\* As long as it has not closed, every step adds an element: after as many steps as U has
\* elements it has closed.
LEMMA ClimbCloses ==
  ASSUME NEW U, IsFiniteSet(U), NEW E, NEW A \in SUBSET U, NEW N, N = Cardinality(U),
         NEW f, Climbs(f, N, E, U, A)
  PROVE  Closed(E, U, f[N])
<1>1. N \in Nat
  BY FS_CardinalityType
<1>2. \A k \in 0 .. N : f[k] \subseteq U /\ IsFiniteSet(f[k]) /\ Cardinality(f[k]) \in Nat
  <2> SUFFICES ASSUME NEW k \in 0 .. N
               PROVE  f[k] \subseteq U /\ IsFiniteSet(f[k]) /\ Cardinality(f[k]) \in Nat
    OBVIOUS
  <2>1. f[k] \in SUBSET U
    <3>1. \A j \in 0 .. N : A \subseteq f[j] /\ f[j] \subseteq U
      BY <1>1, ClimbStaysInside
    <3> QED
      BY <3>1
  <2>2. IsFiniteSet(f[k])
    BY <2>1, FS_Subset
  <2> QED
    BY <2>1, <2>2, FS_CardinalityType
<1> DEFINE Good(k) == Closed(E, U, f[k]) \/ Cardinality(f[k]) >= k
           S == {k \in Nat : k \in 0 .. N => Good(k)}
<1>3. 0 \in S
  BY <1>1, <1>2
<1>4. ASSUME NEW k \in S, k + 1 \in 0 .. N PROVE Good(k + 1)
  <2>1. k \in 0 .. N
    BY <1>1, <1>4
  <2>2. Good(k) /\ f[k+1] = Above(E, U, f[k])
    BY <1>1, <1>4, <2>1, ClimbSteps
  <2>3. CASE Closed(E, U, f[k])
    <3>1. f[k+1] = f[k]
      BY <2>2, <2>3 DEF Above, Closed
    <3> QED
      BY <2>3, <3>1
  <2>4. CASE ~Closed(E, U, f[k])
    <3>1. PICK u \in U : u \notin f[k] /\ u \in f[k+1]
      BY <2>2, <2>4 DEF Closed, Above
    <3>2. f[k] \cup {u} \subseteq f[k+1]
      BY <2>2, <3>1 DEF Above
    <3>3. IsFiniteSet(f[k] \cup {u}) /\ Cardinality(f[k] \cup {u}) = Cardinality(f[k]) + 1
      BY <1>2, <2>1, <3>1, FS_AddElement
    <3>4. Cardinality(f[k] \cup {u}) <= Cardinality(f[k+1])
      BY <1>2, <1>4, <3>2, FS_Subset
    <3>5. Cardinality(f[k]) >= k /\ Cardinality(f[k]) \in Nat /\ Cardinality(f[k+1]) \in Nat
      BY <1>2, <1>4, <2>1, <2>2, <2>4
    <3> QED
      BY <3>3, <3>4, <3>5
  <2> QED
    BY <2>3, <2>4
<1>5. S = Nat
  <2> HIDE DEF Good
  <2>1. S \in SUBSET Nat /\ \A k \in S : k + 1 \in S
    BY <1>4
  <2> HIDE DEF S
  <2> QED
    BY <1>3, <2>1, SetInduction
<1>6. N \in 0 .. N /\ Good(N)
  BY <1>1, <1>5
<1>7. ASSUME Cardinality(f[N]) >= N PROVE Closed(E, U, f[N])
  <2>1. f[N] \subseteq U /\ Cardinality(f[N]) <= N /\ Cardinality(f[N]) \in Nat
    BY <1>2, <1>6, FS_Subset
  <2>2. f[N] = U
    BY <1>1, <1>7, <2>1, FS_Subset
  <2> QED
    BY <2>2 DEF Closed
<1> QED
  BY <1>6, <1>7

\* Iterated as often as the finite set U has elements, the climb is the least closed set
\* around A.
LEMMA ClimbIsLeastClosed ==
  ASSUME NEW U, IsFiniteSet(U), NEW E, NEW A \in SUBSET U, NEW N, N = Cardinality(U),
         NEW f, Climbs(f, N, E, U, A)
  PROVE  LeastClosed(E, U, A, f[N])
<1>1. N \in Nat
  BY FS_CardinalityType
<1>2. \A k \in 0 .. N : A \subseteq f[k] /\ f[k] \subseteq U
  BY <1>1, ClimbStaysInside
<1>3. ASSUME NEW C, A \subseteq C, Closed(E, U, C) PROVE \A k \in 0 .. N : f[k] \subseteq C
  BY <1>1, <1>3, ClimbStays
<1>4. Closed(E, U, f[N])
  BY ClimbCloses
<1>5. N \in 0 .. N
  BY <1>1
<1> QED
  BY <1>2, <1>3, <1>4, <1>5 DEF LeastClosed

-----------------------------------------------------------------------------
(* The parent spine.                                                         *)

Spine == {<<h, Parent[h]>> : h \in Helpers}

\* The subtree below a node: its children, closed under children, and nothing else.
LEMMA DescendantsAreLeast ==
  ASSUME NEW n \in Nodes
  PROVE  /\ Descendants(n) \subseteq Helpers
         /\ \A h \in Helpers : Parent[h] = n \/ Parent[h] \in Descendants(n) => h \in Descendants(n)
         /\ \A C : (\A h \in Helpers : Parent[h] = n \/ Parent[h] \in C => h \in C)
                     => Descendants(n) \subseteq C
<1> DEFINE N == Cardinality(Helpers)
           A == {h \in Helpers : Parent[h] = n}
           Below == CHOOSE f : f = [k \in 0 .. N |->
                      IF k = 0 THEN {h \in Helpers : Parent[h] = n}
                      ELSE f[k-1] \cup {h \in Helpers : Parent[h] \in f[k-1]}]
<1>1. ASSUME NEW X PROVE {h \in Helpers : \E v \in X : <<h, v>> \in Spine} = {h \in Helpers : Parent[h] \in X}
  BY DEF Spine
<1>2. \E f : Climbs(f, N, Spine, Helpers, A)
  BY FiniteNodes, FS_CardinalityType, ClimbExists
<1>3. \A f : Climbs(f, N, Spine, Helpers, A) <=>
               f = [k \in 0 .. N |-> IF k = 0 THEN {h \in Helpers : Parent[h] = n}
                                      ELSE f[k-1] \cup {h \in Helpers : Parent[h] \in f[k-1]}]
  BY <1>1 DEF Climbs, Above
<1>4. Climbs(Below, N, Spine, Helpers, A)
  BY <1>2, <1>3
<1>5. Descendants(n) = Below[N]
  BY DEF Descendants
<1> HIDE DEF Below
<1>6. /\ A \subseteq Descendants(n) /\ Descendants(n) \subseteq Helpers
      /\ Closed(Spine, Helpers, Descendants(n))
      /\ \A C : A \subseteq C /\ Closed(Spine, Helpers, C) => Descendants(n) \subseteq C
  <2>1. LeastClosed(Spine, Helpers, A, Below[N])
    BY <1>4, FiniteNodes, ClimbIsLeastClosed
  <2> QED
    BY <1>5, <2>1 DEF LeastClosed
<1>7. ASSUME NEW C
      PROVE  Closed(Spine, Helpers, C) <=> \A h \in Helpers : Parent[h] \in C => h \in C
  BY DEF Closed, Spine
<1> QED
  BY <1>6, <1>7

\* A helper is below one main task only: each has one parent, and a main task has none.
LEMMA OneTaskAbove ==
  ASSUME NEW t \in Tasks, NEW u \in Tasks, NEW h \in Descendants(t), h \in Descendants(u)
  PROVE  t = u
<1> SUFFICES ASSUME t # u PROVE FALSE
  OBVIOUS
<1> USE DEF Nodes
<1> DEFINE Below == {g \in Descendants(u) : Parent[g] = u \/ Parent[g] \in Descendants(u)}
           Rest  == Descendants(t) \ Descendants(u)
<1>1. Descendants(u) \subseteq Below
  <2>1. \A g \in Helpers : Parent[g] = u \/ Parent[g] \in Below => g \in Below
    BY DescendantsAreLeast
  <2> HIDE DEF Below
  <2> QED
    BY <2>1, DescendantsAreLeast
<1>2. ASSUME NEW g \in Helpers, Parent[g] = t \/ Parent[g] \in Rest PROVE g \in Rest
  <2>1. g \in Descendants(t)
    BY <1>2, DescendantsAreLeast
  <2>2. t \notin Helpers /\ u \notin Helpers /\ Descendants(t) \subseteq Helpers /\ Descendants(u) \subseteq Helpers
    BY DisjointNodes, DescendantsAreLeast
  <2>3. Parent[g] # u /\ Parent[g] \notin Descendants(u)
    BY <1>2, <2>2
  <2> QED
    BY <1>1, <2>1, <2>3
<1> HIDE DEF Rest
<1>3. Descendants(t) \subseteq Rest
  BY <1>2, DescendantsAreLeast
<1> QED
  BY <1>3 DEF Rest

\* So the main task a worker item hangs below is the one whose subtree holds it.
LEMMA AnchorIsTheTaskAbove ==
  ASSUME NEW t \in Tasks, NEW h \in Descendants(t)
  PROVE  Anchor(h) = t
  BY OneTaskAbove DEF Anchor

-----------------------------------------------------------------------------
(* The dependencies.                                                         *)

Reached(deps, s) == {d \in Tasks : Reaches(deps, s, d)}

\* What a task reaches: itself and what it needs, directly or not, and nothing else.
LEMMA ReachesIsLeast ==
  ASSUME NEW deps, NEW s \in Tasks
  PROVE  /\ s \in Reached(deps, s)
         /\ \A u \in Tasks : \A v \in Reached(deps, s) : <<u, v>> \in deps => u \in Reached(deps, s)
         /\ \A C : s \in C /\ (\A u \in Tasks : \A v \in C : <<u, v>> \in deps => u \in C)
                     => Reached(deps, s) \subseteq C
         /\ \A d : Reaches(deps, s, d) <=> d \in Reached(deps, s)
<1> DEFINE N == Cardinality(Tasks)
           Below == CHOOSE f : f = [k \in 0 .. N |->
                      IF k = 0 THEN {s}
                      ELSE LET near == f[k-1]
                           IN  near \cup {u \in Tasks : \E v \in near : <<u, v>> \in deps}]
<1>1. \E f : Climbs(f, N, deps, Tasks, {s})
  BY FiniteNodes, FS_CardinalityType, ClimbExists
<1>2. Climbs(Below, N, deps, Tasks, {s})
  BY <1>1 DEF Climbs, Above
<1>3. \A d : Reaches(deps, s, d) <=> d \in Below[N]
  BY DEF Reaches
<1> HIDE DEF Below
<1>4. /\ {s} \subseteq Below[N] /\ Below[N] \subseteq Tasks /\ Closed(deps, Tasks, Below[N])
      /\ \A C : {s} \subseteq C /\ Closed(deps, Tasks, C) => Below[N] \subseteq C
  <2> DEFINE A == {s}
  <2>1. A \in SUBSET Tasks /\ IsFiniteSet(Tasks) /\ N = Cardinality(Tasks)
    BY FiniteNodes
  <2>2. Climbs(Below, N, deps, Tasks, A)
    BY <1>2
  <2> HIDE DEF A, N
  <2>3. LeastClosed(deps, Tasks, A, Below[N])
    BY <2>1, <2>2, ClimbIsLeastClosed
  <2> QED
    BY <2>3 DEF A, LeastClosed
<1>5. Reached(deps, s) = Below[N]
  BY <1>3, <1>4 DEF Reached
<1> QED
  BY <1>3, <1>4, <1>5 DEF Closed

\* More dependencies reach more.
LEMMA ReachesGrows ==
  ASSUME NEW deps, NEW more, deps \subseteq more, NEW b \in Tasks, NEW a, Reaches(deps, b, a)
  PROVE  Reaches(more, b, a)
<1> DEFINE C == Reached(more, b)
<1>1. b \in C /\ \A u \in Tasks : \A v \in C : <<u, v>> \in deps => u \in C
  BY ReachesIsLeast
<1> HIDE DEF C
<1>2. Reached(deps, b) \subseteq C
  BY <1>1, ReachesIsLeast
<1>3. a \in Reached(deps, b)
  BY ReachesIsLeast
<1> QED
  BY <1>2, <1>3, ReachesIsLeast DEF C

\* What is needed by something that is needed is needed.
LEMMA ReachesIsTransitive ==
  ASSUME NEW deps, NEW a \in Tasks, NEW b \in Reached(deps, a)
  PROVE  Reached(deps, b) \subseteq Reached(deps, a)
<1>1. b \in Tasks
  BY DEF Reached
<1> DEFINE C == Reached(deps, a)
<1>2. b \in C /\ \A u \in Tasks : \A v \in C : <<u, v>> \in deps => u \in C
  BY ReachesIsLeast
<1> HIDE DEF C
<1>3. Reached(deps, b) \subseteq C
  BY <1>1, <1>2, ReachesIsLeast
<1> QED
  BY <1>3 DEF C

\* add_edge: a dependency whose prerequisite does not reach its dependent closes no cycle.
LEMMA LinkClosesNoCycle ==
  ASSUME NEW deps, NEW s \in Tasks, NEW d \in Tasks, AcyclicNeeds(deps), ~Reaches(deps, s, d)
  PROVE  AcyclicNeeds(deps \cup {<<s, d>>})
<1> DEFINE more == deps \cup {<<s, d>>}
           From(a) == Reached(deps, a) \cup {u \in Reached(deps, s) : d \in Reached(deps, a)}
<1>1. d \notin Reached(deps, s)
  BY ReachesIsLeast
<1>2. ASSUME NEW a \in Tasks PROVE Reached(more, a) \subseteq From(a)
  <2>1. a \in From(a)
    BY ReachesIsLeast
  <2>2. ASSUME NEW u \in Tasks, NEW v \in From(a), <<u, v>> \in more PROVE u \in From(a)
    <3>1. CASE <<u, v>> \in deps
      BY <2>2, <3>1, ReachesIsLeast
    <3>2. CASE u = s /\ v = d
      <4>1. d \in Reached(deps, a)
        BY <1>1, <2>2, <3>2
      <4>2. s \in Reached(deps, s)
        BY ReachesIsLeast
      <4> QED
        BY <3>2, <4>1, <4>2
    <3> QED
      BY <2>2, <3>1, <3>2
  <2> HIDE DEF From, more
  <2> QED
    BY <2>1, <2>2, ReachesIsLeast
<1>3. ASSUME NEW p \in Tasks, NEW t \in Tasks, <<p, t>> \in more, Reaches(more, p, t) PROVE FALSE
  <2>1. t \in From(p)
    BY <1>2, <1>3, ReachesIsLeast
  <2>2. CASE <<p, t>> \in deps
    <3>1. t \notin Reached(deps, p)
      BY <2>2, ReachesIsLeast DEF AcyclicNeeds
    <3>2. t \in Reached(deps, s) /\ d \in Reached(deps, p)
      BY <2>1, <3>1
    <3>3. p \in Reached(deps, s)
      BY <2>2, <3>2, ReachesIsLeast
    <3> QED
      BY <1>1, <3>2, <3>3, ReachesIsTransitive
  <2>3. CASE p = s /\ t = d
    BY <1>1, <2>1, <2>3
  <2> QED
    BY <1>3, <2>2, <2>3
<1> QED
  BY <1>3 DEF AcyclicNeeds

\* redirect_dependencies: between two tasks that are kept, a way through a duplicate becomes
\* a way through the task kept for it.
LEMMA RedirectKeepsOrder ==
  ASSUME NEW w \in WorkObjects, NEW D \in SUBSET Tasks, NEW kept \in [D -> Tasks],
         NEW a \in Tasks \ D, NEW b \in Tasks \ D, Reaches(w.deps, b, a)
  PROVE  Reaches(Redirect(w, kept).deps, b, a)
<1> DEFINE moved == Redirect(w, kept).deps
           C == {u \in Tasks : Keeper(kept, u) \in Reached(moved, b)}
<1>1. moved = {e \in Tasks \X Tasks :
                 e[1] # e[2] /\ \E f \in w.deps : e = <<Keeper(kept, f[1]), Keeper(kept, f[2])>>}
  BY DEF Redirect, WorkObjects
<1>2. \A u \in Tasks : Keeper(kept, u) \in Tasks
  BY DEF Keeper
<1>3. Keeper(kept, a) = a /\ Keeper(kept, b) = b
  BY DEF Keeper
<1> HIDE DEF moved
<1>4. b \in C
  BY <1>3, ReachesIsLeast
<1>5. ASSUME NEW u \in Tasks, NEW v \in C, <<u, v>> \in w.deps PROVE u \in C
  <2>1. v \in Tasks /\ Keeper(kept, v) \in Reached(moved, b)
    OBVIOUS
  <2>2. CASE Keeper(kept, u) = Keeper(kept, v)
    BY <2>1, <2>2
  <2>3. CASE Keeper(kept, u) # Keeper(kept, v)
    <3>1. <<Keeper(kept, u), Keeper(kept, v)>> \in moved
      BY <1>1, <1>2, <1>5, <2>1, <2>3
    <3>2. Keeper(kept, u) \in Reached(moved, b)
      BY <1>2, <2>1, <3>1, ReachesIsLeast
    <3> QED
      BY <3>2
  <2> QED
    BY <2>2, <2>3
<1> HIDE DEF C
<1>6. Reached(w.deps, b) \subseteq C
  BY <1>4, <1>5, ReachesIsLeast
<1>7. a \in C
  BY <1>6, ReachesIsLeast
<1> QED
  BY <1>3, <1>7, ReachesIsLeast DEF C, moved
=============================================================================
