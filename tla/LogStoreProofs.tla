--------------------------- MODULE LogStoreProofs ---------------------------
(***************************************************************************)
(* The log store, for any number of jobs and logs and any limits: one writer  *)
(* at a time, no evidence rotated away, nothing younger lost before something *)
(* older, and a finished rotation within both limits.                         *)
(*                                                                           *)
(* The invariant says what an interrupted rotation may leave to the next one: *)
(* generations in the order of their age (Ordered), with what is left of a    *)
(* rolling or an expiry harmless for that order (Rolls, Expires), and counts  *)
(* that agree with the disk for as long as the lock is held (Prunes).  Of     *)
(* these only Ordered is said of a flat log that its own writer rolls beside  *)
(* the rotation; `crossed` names those logs, and nothing else is touched from *)
(* outside the lock (OthersStand).  It needs sums over sets, which come       *)
(* first: no recursion is used, only the existence of the function the        *)
(* community module's fold defines.                                           *)
(***************************************************************************)
EXTENDS LogStore, FiniteSetTheorems, WellFoundedInduction, TLAPS

USE DEF flat

(* Sums.                                                                      *)

(* Induction, as a statement about sets.                                      *)
LEMMA NatSetInduction ==
  ASSUME NEW S, 0 \in S, \A n \in Nat : n \in S => n + 1 \in S
  PROVE  Nat \subseteq S
<1> SUFFICES ASSUME Nat \ S # {} PROVE FALSE
  OBVIOUS
<1> DEFINE R == OpToRel(<, Nat)
<1>1. \A x, y \in Nat : <<x, y>> \in R <=> x < y
  BY DEF OpToRel
<1>2. IsWellFoundedOn(R, Nat)
  BY NatLessThanWellFounded
<1> HIDE DEF R
<1>3. PICK x \in Nat \ S : \A y \in Nat \ S : ~(<<y, x>> \in R)
  BY <1>2, WFMin
<1>4. x # 0 /\ x - 1 \in Nat /\ (x - 1) + 1 = x
  BY <1>3
<1>5. <<x - 1, x>> \in R
  BY <1>1, <1>3, <1>4
<1>6. x - 1 \in S
  BY <1>3, <1>4, <1>5
<1> QED BY <1>3, <1>4, <1>6

(* What holds of a set once it holds of the sets with one member less holds   *)
(* of every finite set.                                                       *)
LEMMA FiniteInduction ==
  ASSUME NEW S, IsFiniteSet(S), NEW P,
         \A T \in SUBSET S : (\A x \in T : T \ {x} \in P) => T \in P
  PROVE  S \in P
<1> SUFFICES ASSUME S \notin P PROVE FALSE
  OBVIOUS
<1> DEFINE R == StrictSubsetOrdering(S)
<1>0. FiniteSubsetsOf(S) = SUBSET S
  BY FS_FiniteSubsetsOfFinite
<1>1. IsWellFoundedOn(R, SUBSET S)
  <2>1. IsWellFoundedOn(StrictSubsetOrdering(S), FiniteSubsetsOf(S))
    BY FS_StrictSubsetOrderingWellFounded
  <2> QED BY <1>0, <2>1
<1>2. \A T, U \in SUBSET S : T \subseteq U /\ T # U => <<T, U>> \in R
  BY DEF StrictSubsetOrdering
<1> DEFINE Bad == {T \in SUBSET S : T \notin P}
<1>3. Bad \subseteq SUBSET S /\ Bad # {}
  OBVIOUS
<1> HIDE DEF R, Bad
<1>4. PICK T \in Bad : \A U \in Bad : ~(<<U, T>> \in R)
  BY <1>1, <1>3, WFMin
<1> USE DEF Bad
<1>5. ASSUME NEW x \in T PROVE T \ {x} \in P
  <2>1. T \ {x} \in SUBSET S /\ T \ {x} # T /\ T \ {x} \subseteq T
    BY <1>4, <1>5
  <2> QED BY <1>2, <1>4, <2>1
<1> QED BY <1>4, <1>5

Pick(s) == CHOOSE x \in s : TRUE
Adds(f, g, D) == g = [s \in D |-> IF s = {} THEN 0 ELSE f[Pick(s)] + g[s \ {Pick(s)}]]

LEMMA PickIn == \A s : s # {} => Pick(s) \in s
BY DEF Pick

LEMMA AdderExists ==
  ASSUME NEW S, IsFiniteSet(S), NEW f
  PROVE  \E g : Adds(f, g, SUBSET S)
<1> DEFINE Level(n) == {u \in SUBSET S : Cardinality(u) <= n}
<1> DEFINE N == {n \in Nat : \E g : Adds(f, g, Level(n))}
<1>f. ASSUME NEW u \in SUBSET S
      PROVE  /\ IsFiniteSet(u) /\ Cardinality(u) \in Nat /\ Cardinality(u) <= Cardinality(S)
             /\ Cardinality(u) = 0 <=> u = {}
             /\ \A x \in u : Cardinality(u \ {x}) = Cardinality(u) - 1
  BY <1>f, FS_Subset, FS_CardinalityType, FS_EmptySet, FS_RemoveElement
<1>1. 0 \in N
  <2> DEFINE g == [s \in {{}} |-> 0]
  <2>1. Level(0) = {{}}
    BY <1>f
  <2>2. Adds(f, g, Level(0))
    BY <2>1 DEF Adds
  <2> QED BY <2>2
<1>2. ASSUME NEW n \in Nat, n \in N PROVE n + 1 \in N
  <2>1. PICK g : Adds(f, g, Level(n))
    BY <1>2
  <2> DEFINE h == [s \in Level(n + 1) |-> IF s = {} THEN 0 ELSE f[Pick(s)] + g[s \ {Pick(s)}]]
  <2>2. ASSUME NEW s \in Level(n + 1), s # {}
        PROVE  s \ {Pick(s)} \in Level(n) /\ h[s \ {Pick(s)}] = g[s \ {Pick(s)}]
    <3> DEFINE u == s \ {Pick(s)}
    <3>1. Pick(s) \in s /\ s \in SUBSET S
      BY <2>2, PickIn
    <3>2. u \in SUBSET S /\ Cardinality(u) = Cardinality(s) - 1 /\ Cardinality(s) \in Nat
      BY <3>1, <1>f
    <3>3. u \in Level(n) /\ u \in Level(n + 1)
      BY <3>2
    <3> HIDE DEF Level, u
    <3>4. g[u] = IF u = {} THEN 0 ELSE f[Pick(u)] + g[u \ {Pick(u)}]
      BY <2>1, <3>3 DEF Adds
    <3>5. h[u] = IF u = {} THEN 0 ELSE f[Pick(u)] + g[u \ {Pick(u)}]
      BY <3>3
    <3> QED BY <3>3, <3>4, <3>5 DEF u
  <2> HIDE DEF Level
  <2>3. h = [s \in Level(n + 1) |-> IF s = {} THEN 0 ELSE f[Pick(s)] + h[s \ {Pick(s)}]]
    BY <2>2
  <2>4. Adds(f, h, Level(n + 1))
    BY <2>3 DEF Adds
  <2> QED BY <2>4
<1>3. Nat \subseteq N
  <2> HIDE DEF N
  <2> QED BY <1>1, <1>2, NatSetInduction
<1>4. Cardinality(S) \in Nat /\ Level(Cardinality(S)) = SUBSET S
  BY <1>f, FS_CardinalityType
<1> QED BY <1>3, <1>4

LEMMA SumIs ==
  ASSUME NEW S, IsFiniteSet(S), NEW f
  PROVE  \E g : Adds(f, g, SUBSET S) /\ SumFunctionOnSet(f, S) = g[S]
<1> DEFINE g == CHOOSE g : g = [s \in SUBSET S |-> IF s = {} THEN 0
                                   ELSE f[CHOOSE x \in s : TRUE] + g[s \ {CHOOSE x \in s : TRUE}]]
<1>1. \E h : h = [s \in SUBSET S |-> IF s = {} THEN 0
                     ELSE f[CHOOSE x \in s : TRUE] + h[s \ {CHOOSE x \in s : TRUE}]]
  <2>1. PICK h : Adds(f, h, SUBSET S)
    BY AdderExists
  <2>2. h = [s \in SUBSET S |-> IF s = {} THEN 0
               ELSE f[CHOOSE x \in s : TRUE] + h[s \ {CHOOSE x \in s : TRUE}]]
    BY <2>1 DEF Adds, Pick
  <2> QED BY <2>2
<1>2. g = [s \in SUBSET S |-> IF s = {} THEN 0
                     ELSE f[CHOOSE x \in s : TRUE] + g[s \ {CHOOSE x \in s : TRUE}]]
  BY <1>1
<1>3. SumFunctionOnSet(f, S) = g[S]
  BY DEF SumFunctionOnSet, FoldFunctionOnSet, MapThenFoldSet
<1>4. Adds(f, g, SUBSET S)
  BY <1>2 DEF Adds, Pick
<1> QED BY <1>3, <1>4

LEMMA AddersAgree ==
  ASSUME NEW S, IsFiniteSet(S), NEW T, S \subseteq T, NEW f, NEW h, \A x \in S : f[x] = h[x],
         NEW a, NEW b, Adds(f, a, SUBSET S), Adds(h, b, SUBSET T)
  PROVE  a[S] = b[S]
<1> DEFINE P == {u \in SUBSET S : a[u] = b[u]}
<1>1. ASSUME NEW u \in SUBSET S, \A x \in u : u \ {x} \in P PROVE u \in P
  <2>1. a[u] = IF u = {} THEN 0 ELSE f[Pick(u)] + a[u \ {Pick(u)}]
    BY DEF Adds
  <2>2. b[u] = IF u = {} THEN 0 ELSE h[Pick(u)] + b[u \ {Pick(u)}]
    BY DEF Adds
  <2>3. u # {} => Pick(u) \in u
    BY PickIn
  <2> QED BY <1>1, <2>1, <2>2, <2>3
<1> HIDE DEF P
<1>2. S \in P
  BY <1>1, FiniteInduction
<1> QED BY <1>2 DEF P

(* A sum depends on the values at its indices only.                           *)
LEMMA SumSame ==
  ASSUME NEW S, IsFiniteSet(S), NEW f, NEW h, \A x \in S : f[x] = h[x]
  PROVE  SumFunctionOnSet(f, S) = SumFunctionOnSet(h, S)
<1>1. PICK a : Adds(f, a, SUBSET S) /\ SumFunctionOnSet(f, S) = a[S]
  BY SumIs
<1>2. PICK b : Adds(h, b, SUBSET S) /\ SumFunctionOnSet(h, S) = b[S]
  BY SumIs
<1>3. a[S] = b[S]
  <2>1. IsFiniteSet(S) /\ S \subseteq S /\ \A x \in S : f[x] = h[x]
    OBVIOUS
  <2> QED BY <1>1, <1>2, <2>1, AddersAgree
<1> QED BY <1>1, <1>2, <1>3

LEMMA SumRec ==
  ASSUME NEW S, IsFiniteSet(S), NEW f
  PROVE  SumFunctionOnSet(f, S) =
           IF S = {} THEN 0 ELSE f[Pick(S)] + SumFunctionOnSet(f, S \ {Pick(S)})
<1>1. PICK g : Adds(f, g, SUBSET S) /\ SumFunctionOnSet(f, S) = g[S]
  BY SumIs
<1> DEFINE T == S \ {Pick(S)}
<1>2. IsFiniteSet(T) /\ T \subseteq S
  BY FS_RemoveElement
<1> HIDE DEF T
<1>3. PICK k : Adds(f, k, SUBSET T) /\ SumFunctionOnSet(f, T) = k[T]
  BY <1>2, SumIs
<1>4. k[T] = g[T]
  <2>1. IsFiniteSet(T) /\ \A x \in T : f[x] = f[x]
    BY <1>2
  <2> QED BY <1>1, <1>2, <1>3, <2>1, AddersAgree
<1>5. g[S] = IF S = {} THEN 0 ELSE f[Pick(S)] + g[T]
  BY <1>1 DEF Adds, T
<1> QED BY <1>1, <1>3, <1>4, <1>5 DEF T

LEMMA SumInt ==
  ASSUME NEW S, IsFiniteSet(S), NEW f, \A x \in S : f[x] \in Int
  PROVE  SumFunctionOnSet(f, S) \in Int
<1> DEFINE P == {u \in SUBSET S : SumFunctionOnSet(f, u) \in Int}
<1>1. ASSUME NEW u \in SUBSET S, \A x \in u : u \ {x} \in P PROVE u \in P
  <2>0. IsFiniteSet(u)
    BY FS_Subset
  <2>1. SumFunctionOnSet(f, u) =
          IF u = {} THEN 0 ELSE f[Pick(u)] + SumFunctionOnSet(f, u \ {Pick(u)})
    BY <2>0, SumRec
  <2> QED BY <1>1, <2>1, PickIn
<1> HIDE DEF P
<1>2. S \in P
  BY <1>1, FiniteInduction
<1> QED BY <1>2 DEF P

LEMMA SumNat ==
  ASSUME NEW S, IsFiniteSet(S), NEW f, \A x \in S : f[x] \in Nat
  PROVE  SumFunctionOnSet(f, S) \in Nat
<1> DEFINE P == {u \in SUBSET S : SumFunctionOnSet(f, u) \in Nat}
<1>1. ASSUME NEW u \in SUBSET S, \A x \in u : u \ {x} \in P PROVE u \in P
  <2>0. IsFiniteSet(u)
    BY FS_Subset
  <2>1. SumFunctionOnSet(f, u) =
          IF u = {} THEN 0 ELSE f[Pick(u)] + SumFunctionOnSet(f, u \ {Pick(u)})
    BY <2>0, SumRec
  <2> QED BY <1>1, <2>1, PickIn
<1> HIDE DEF P
<1>2. S \in P
  BY <1>1, FiniteInduction
<1> QED BY <1>2 DEF P

(* Any member may be taken out first, and a sum of integers is an integer.    *)
LEMMA SumTakes ==
  ASSUME NEW S, IsFiniteSet(S), NEW f, \A x \in S : f[x] \in Int
  PROVE  /\ SumFunctionOnSet(f, S) \in Int
         /\ \A x \in S : SumFunctionOnSet(f, S) = f[x] + SumFunctionOnSet(f, S \ {x})
<1> DEFINE Sum(u) == SumFunctionOnSet(f, u)
           P == {u \in SUBSET S : Sum(u) \in Int /\ \A x \in u : Sum(u) = f[x] + Sum(u \ {x})}
<1>1. ASSUME NEW u \in SUBSET S, \A x \in u : u \ {x} \in P PROVE u \in P
  <2> DEFINE p == Pick(u)
  <2>0. IsFiniteSet(u)
    BY FS_Subset
  <2>1. Sum(u) = IF u = {} THEN 0 ELSE f[p] + Sum(u \ {p})
    BY <2>0, SumRec
  <2>2. CASE u = {}
    BY <2>1, <2>2
  <2>3. CASE u # {}
    <3>1. p \in u
      BY <2>3, PickIn
    <3> HIDE DEF p, Sum
    <3>2. Sum(u \ {p}) \in Int /\ \A x \in u \ {p} : Sum(u \ {p}) = f[x] + Sum((u \ {p}) \ {x})
      BY <1>1, <3>1
    <3>3. Sum(u) = f[p] + Sum(u \ {p}) /\ Sum(u) \in Int
      BY <2>1, <2>3, <3>1, <3>2
    <3>4. ASSUME NEW x \in u, x # p PROVE Sum(u) = f[x] + Sum(u \ {x})
      <4>1. Sum(u \ {p}) = f[x] + Sum((u \ {p}) \ {x})
        BY <3>2, <3>4
      <4>2. Sum(u \ {x}) = f[p] + Sum((u \ {x}) \ {p}) /\ u \ {x} \in P
        BY <1>1, <3>1, <3>4
      <4>3. (u \ {x}) \ {p} = (u \ {p}) \ {x}
        OBVIOUS
      <4>4. Sum((u \ {x}) \ {p}) \in Int
        <5> DEFINE w == (u \ {x}) \ {p}
        <5>1. w \in SUBSET S /\ IsFiniteSet(w)
          BY <2>0, FS_RemoveElement
        <5> QED BY <5>1, SumInt DEF Sum
      <4> QED BY <3>1, <3>3, <3>4, <4>1, <4>2, <4>3, <4>4
    <3> QED BY <3>3, <3>4
  <2> QED BY <2>2, <2>3
<1> HIDE DEF P
<1>2. S \in P
  BY <1>1, FiniteInduction
<1> QED BY <1>2 DEF P

(* A sum does not change when its indices are renamed one to one.             *)
LEMMA SumImage ==
  ASSUME NEW S, IsFiniteSet(S), NEW f, NEW g, NEW F,
         \A x, y \in S : F[x] = F[y] => x = y,
         \A x \in S : g[x] \in Int /\ f[F[x]] = g[x]
  PROVE  /\ IsFiniteSet({F[x] : x \in S})
         /\ SumFunctionOnSet(f, {F[x] : x \in S}) = SumFunctionOnSet(g, S)
<1> DEFINE Img(u) == {F[x] : x \in u}
           P == {u \in SUBSET S : /\ IsFiniteSet(Img(u))
                                  /\ SumFunctionOnSet(f, Img(u)) = SumFunctionOnSet(g, u)}
<1>1. ASSUME NEW u \in SUBSET S, \A x \in u : u \ {x} \in P PROVE u \in P
  <2>1. CASE u = {}
    <3>1. Img(u) = {} /\ IsFiniteSet({})
      BY <2>1, FS_EmptySet
    <3>2. SumFunctionOnSet(f, {}) = 0 /\ SumFunctionOnSet(g, {}) = 0
      BY <3>1, SumRec
    <3> QED BY <2>1, <3>1, <3>2
  <2>2. CASE u # {}
    <3>1. PICK x \in u : TRUE
      BY <2>2
    <3> DEFINE v == u \ {x}
    <3>2. IsFiniteSet(Img(v)) /\ SumFunctionOnSet(f, Img(v)) = SumFunctionOnSet(g, v)
      BY <1>1, <3>1
    <3>3. Img(u) = Img(v) \cup {F[x]} /\ F[x] \notin Img(v)
      BY <3>1
    <3>4. (\A y \in Img(u) : f[y] \in Int) /\ f[F[x]] = g[x] /\ \A y \in u : g[y] \in Int
      BY <3>1
    <3>5. IsFiniteSet(u)
      BY FS_Subset
    <3> DEFINE A == Img(v)
               B == Img(u)
               y == F[x]
    <3> HIDE DEF Img, A, B, y
    <3>a. IsFiniteSet(A) /\ B = A \cup {y} /\ y \notin A
      BY <3>2, <3>3 DEF A, B, y
    <3>6. IsFiniteSet(B) /\ y \in B /\ B \ {y} = A
      <4>1. IsFiniteSet(A \cup {y})
        BY <3>a, FS_AddElement
      <4> QED BY <3>a, <4>1
    <3>7. SumFunctionOnSet(f, B) = f[y] + SumFunctionOnSet(f, A)
      <4>1. \A z \in B : f[z] \in Int
        BY <3>4 DEF B
      <4> QED BY <3>6, <4>1, SumTakes
    <3>8. SumFunctionOnSet(g, u) = g[x] + SumFunctionOnSet(g, v)
      BY <3>1, <3>4, <3>5, SumTakes
    <3>9. IsFiniteSet(Img(u)) /\ SumFunctionOnSet(f, Img(u)) = SumFunctionOnSet(g, u)
      BY <3>2, <3>4, <3>6, <3>7, <3>8 DEF A, B, y
    <3> USE DEF Img
    <3> QED BY <3>9
  <2> QED BY <2>1, <2>2
<1> HIDE DEF P
<1>2. S \in P
  BY <1>1, FiniteInduction
<1> QED BY <1>2 DEF P
-----------------------------------------------------------------------------
(* One writer.                                                                *)

(* A process at work holds the lock, and there is a place for every process.  *)
WriterHolds ==
  /\ DOMAIN pc = Processes
  /\ \A p \in Processes : Writing(p) => lock = p

LEMMA InitHolds == Init => WriterHolds
BY DEF Init, WriterHolds, Writing, RotationSteps

(* One process moves among the places where it writes, or to one where it     *)
(* does not, and the lock stays with whom it was.                             *)
LEMMA StayOrLeave ==
  ASSUME WriterHolds, NEW p \in Processes, NEW step, pc' = [pc EXCEPT ![p] = step],
         lock' = lock, Writing(p) \/ step \in {"idle", "looked", "refused", "ended"}
  PROVE  WriterHolds'
BY DEF WriterHolds, Writing, RotationSteps

(* One process takes a free lock.                                             *)
LEMMA Takes ==
  ASSUME WriterHolds, NEW p \in Processes, NEW step, pc' = [pc EXCEPT ![p] = step],
         lock = Nobody, lock' = p
  PROVE  WriterHolds'
BY ProcessesDistinct DEF WriterHolds, Writing, RotationSteps

(* One process gives back what it may hold.                                   *)
LEMMA Leaves ==
  ASSUME WriterHolds, NEW p \in Processes, NEW step \in {"idle", "ended"}, Leave(p, step)
  PROVE  WriterHolds'
BY DEF WriterHolds, Writing, RotationSteps, Leave, Move

(* Who writes a flat log without the lock touches that log and nothing else.  *)
LEMMA FlatLeaves ==
  ASSUME NEW n, FlatStep(n)
  PROVE  UNCHANGED <<now, lock, dir, listed, pc, rot>>
BY DEF FlatStep, AppendLog, FlatLooks, FlatUnlinks, FlatShifts, FlatMoves, FlatStops, Rolling

(* No step of any process makes a second writer.                              *)
LEMMA StepHolds == WriterHolds /\ [Next]_vars => WriterHolds'
<1> SUFFICES ASSUME WriterHolds, [Next]_vars PROVE WriterHolds'
  OBVIOUS
<1> USE DEF At, Move
<1>1. ASSUME NEW p \in Rotators, RotationStep(p) PROVE WriterHolds'
  <2> p \in Processes
    BY DEF Processes
  <2>1. CASE Roll(p) \/ FileStep(p) \/ Prune(p) \/ Trim(p)
    BY <2>1 DEF Roll, FileStep, Prune, Trim, WriterHolds, Writing
  <2>2. CASE Expire(p)
    <3> Writing(p)
      BY <2>2 DEF Expire, Writing, RotationSteps
    <3> QED BY <2>2, StayOrLeave DEF Expire
  <2>3. CASE Gather(p)
    <3> Writing(p)
      BY <2>3 DEF Gather, Writing, RotationSteps
    <3> QED BY <2>3, StayOrLeave DEF Gather
  <2>4. CASE Rotated(p)
    <3> Writing(p)
      BY <2>4 DEF Rotated, Writing, RotationSteps
    <3> QED BY <2>4, StayOrLeave DEF Rotated
  <2>5. CASE RotationFails(p)
    BY <2>5, Leaves DEF RotationFails, AfterAll
  <2> QED BY <1>1, <2>1, <2>2, <2>3, <2>4, <2>5 DEF RotationStep
<1>2. ASSUME NEW j \in Jobs, WorkerStep(j) PROVE WriterHolds'
  <2> j \in Processes /\ j \in Rotators
    BY DEF Processes, Rotators
  <2>1. CASE Launch(j) \/ GiveUp(j)
    BY <2>1 DEF Launch, GiveUp, WriterHolds, Writing
  <2>2. CASE StartWorker(j)
    <3>1. CASE lock = Nobody
      BY <2>2, <3>1, Takes DEF StartWorker, BeginRotation
    <3>2. CASE lock # Nobody
      BY <2>2, <3>2, StayOrLeave DEF StartWorker
    <3> QED BY <3>1, <3>2
  <2>3. CASE MakeDir(j)
    <3> Writing(j)
      BY <2>3 DEF MakeDir, Writing, RotationSteps
    <3> QED BY <2>3, StayOrLeave DEF MakeDir
  <2>4. CASE WriteMarker(j)
    <3> Writing(j)
      BY <2>4 DEF WriteMarker, Writing
    <3>1. CASE Leave(j, "ended")
      BY <3>1, Leaves
    <3>2. CASE Move(j, "note") /\ UNCHANGED <<lock, listed, rot>>
      BY <3>2, StayOrLeave
    <3> QED BY <2>4, <3>1, <3>2 DEF WriteMarker
  <2>5. CASE FirstRecord(j)
    <3> Writing(j)
      BY <2>5 DEF FirstRecord, Writing
    <3>1. CASE Leave(j, "ended")
      BY <3>1, Leaves
    <3>2. CASE Move(j, "working") /\ UNCHANGED <<lock, listed, rot>>
      BY <3>2, StayOrLeave
    <3> QED BY <2>5, <3>1, <3>2 DEF FirstRecord
  <2>6. CASE EndWorker(j)
    BY <2>6, Leaves DEF EndWorker
  <2> QED BY <1>2, <2>1, <2>2, <2>3, <2>4, <2>5, <2>6 DEF WorkerStep
<1>3. CASE Maintain
  <2> Maintainer \in Processes
    BY DEF Processes, Rotators
  <2> QED BY <1>3, Takes DEF Maintain, BeginRotation
<1>4. CASE MaintainEnds
  <2> Maintainer \in Processes
    BY DEF Processes, Rotators
  <2> QED BY <1>4, Leaves DEF MaintainEnds
<1>5. CASE Recover
  <2> Recoverer \in Processes
    BY DEF Processes
  <2> QED BY <1>5, Takes DEF Recover
<1>6. CASE Retire
  <2> Recoverer \in Processes
    BY DEF Processes
  <2>1. CASE Leave(Recoverer, "idle")
    BY <2>1, Leaves
  <2>2. CASE UNCHANGED <<lock, rot, pc>>
    BY <2>2 DEF WriterHolds, Writing
  <2> QED BY <1>6, <2>1, <2>2 DEF Retire
<1>7. CASE ClearStep
  <2> Clearer \in Processes
    BY DEF Processes
  <2>1. CASE ClearLooks
    BY <2>1, StayOrLeave DEF ClearLooks
  <2>2. CASE ClearLocks
    <3>1. CASE lock = Nobody /\ \A n \in Logs : roller[n] = "idle"
      BY <2>2, <3>1, Takes DEF ClearLocks
    <3>2. CASE ~(lock = Nobody /\ \A n \in Logs : roller[n] = "idle")
      BY <2>2, <3>2, StayOrLeave DEF ClearLocks
    <3> QED BY <3>1, <3>2
  <2>3. CASE Clear
    BY <2>3 DEF Clear, WriterHolds, Writing
  <2>4. CASE ClearEnds
    BY <2>4, Leaves DEF ClearEnds
  <2> QED BY <1>7, <2>1, <2>2, <2>3, <2>4 DEF ClearStep
<1>8. ASSUME NEW n \in Logs, FlatStep(n) PROVE WriterHolds'
  BY <1>8, FlatLeaves DEF WriterHolds, Writing
<1>9. ASSUME NEW p \in Processes, Die(p) PROVE WriterHolds'
  BY <1>9, Leaves DEF Die, AfterAll
<1>10. CASE Tick \/ UNCHANGED vars
  BY <1>10 DEF Tick, vars, WriterHolds, Writing
<1> QED BY <1>1, <1>2, <1>3, <1>4, <1>5, <1>6, <1>7, <1>8, <1>9, <1>10 DEF Next

(* Workers, list, recovery and clear_logs never work on the store together,   *)
(* whatever died or was refused before (persist.go:53, 376).                  *)
THEOREM OneWriterAtATime == Spec => []OneWriter
<1>1. WriterHolds => OneWriter
  BY DEF WriterHolds, OneWriter
<1> QED BY InitHolds, StepHolds, <1>1, PTL DEF Spec

-----------------------------------------------------------------------------
(* The inductive invariant.                                                   *)

Op == [do : {"remove", "move"}, name : Logs, to : Generations \ {0}]
Info == [job : Jobs, mod : 0 .. MaxTime, size : 0 .. MaxSize, active : BOOLEAN]
File == [name : Logs, gen : 1 .. KeepLogs, mod : 0 .. MaxTime, size : 1 .. PerFile + 1]
Rotation == [names : SUBSET Logs, ops : Seq(Op), infos : SUBSET Info, files : SUBSET File,
             cutoff : Int, total : Int, base : Nat, remaining : Int]
Dir == [is : {"none", "bare", "kept", "active"}, size : 0 .. MaxSize, mod : 0 .. MaxTime]
LogFile == [size : 0 .. PerFile + 1, mod : 0 .. MaxTime]
Place == RotationSteps \cup {"idle", "mark", "note", "working", "ended", "refused", "looked",
                             "clearing", "retiring"}

Typed ==
  /\ now \in 0 .. MaxTime
  /\ lock \in Processes \cup {Nobody}
  /\ dir \in [Jobs -> Dir]
  /\ log \in [Logs -> [Generations -> LogFile]]
  /\ listed \in [Jobs -> {"absent", "queued", "running", "ended"}]
  /\ pc \in [Processes -> Place]
  /\ rot \in [Rotators -> Rotation]
  /\ roller \in [Logs -> {"idle", "unlink", "shift", "move"}] /\ crossed \subseteq Logs

(* A worker has no directory before its rotation is over, and no marker in it *)
(* before it writes one.                                                      *)
DirPlaced ==
  \A j \in Jobs : /\ pc[j] \in RotationSteps \cup {"idle", "refused"} => dir[j].is = "none"
                  /\ pc[j] = "mark" => dir[j].is = "bare"

(* A higher generation is older.                                              *)
Ordered ==
  \A n \in Logs :
    /\ \A g \in 0 .. KeepLogs : log[n][g].mod <= now
    /\ \A g, h \in 0 .. KeepLogs :
         g < h /\ IsLog(n, g) /\ IsLog(n, h) => log[n][h].mod <= log[n][g].mod

(* What is left of a rolling: each move follows the removal of what it would  *)
(* overwrite, and each removal but the first one the move from its place.     *)
Chained(ops) ==
  /\ \A i \in 1 .. Len(ops) : ops[i].to <= KeepLogs
  /\ \A i \in 1 .. Len(ops) - 1 :
       ops[i + 1] = [do |-> IF ops[i].do = "remove" THEN "move" ELSE "remove",
                     name |-> ops[i].name,
                     to |-> IF ops[i].do = "remove" THEN ops[i].to ELSE ops[i].to - 1]

Rolls(p) ==
  At(p, "roll") =>
    /\ Chained(rot[p].ops)
    /\ LET op == rot[p].ops[1]
       IN  Len(rot[p].ops) > 0 =>
             \/ op.name \in crossed
             \/ ~IsLog(op.name, op.to) \/ (op.do = "remove" /\ op.to = KeepLogs)

(* Only what has expired goes, and a generation beyond the limit does go,     *)
(* unless the log was rolled by its own writer meanwhile.                     *)
Expires(p) ==
  At(p, "expire") =>
    /\ \A i \in 1 .. Len(rot[p].ops) :
         LET op == rot[p].ops[i]
         IN  /\ op.do = "remove"
             /\ op.name \notin crossed /\ op.to <= KeepLogs /\ IsLog(op.name, op.to)
                  => Expired(log[op.name][op.to].mod)
    /\ \A n \in Logs \ crossed : IsLog(n, KeepLogs + 1) =>
         \E i \in 1 .. Len(rot[p].ops) :
           rot[p].ops[i] = [do |-> "remove", name |-> n, to |-> KeepLogs + 1]

InfoOf(j) == [job |-> j, mod |-> dir[j].mod, size |-> dir[j].size, active |-> dir[j].is = "active"]
FileOf(f) == [name |-> f[1], gen |-> f[2], mod |-> log[f[1]][f[2]].mod,
              size |-> log[f[1]][f[2]].size]

FileSizes == [f \in File |-> f.size]
Uncrossed == {f \in Rolled : f[1] \notin crossed}
CountedFiles(p) == {f \in rot[p].files : f.name \notin crossed}

(* What the rotation has counted is what there is, but for the flat logs that *)
(* their own writers rolled meanwhile.                                        *)
Counts(p) ==
  /\ rot[p].infos \subseteq {InfoOf(j) : j \in Dirs}
  /\ IsFiniteSet(rot[p].files) /\ CountedFiles(p) = {FileOf(f) : f \in Uncrossed}
  /\ rot[p].remaining = Cardinality(Dirs)
  /\ rot[p].total = rot[p].base + SumFunctionOnSet(FileSizes, rot[p].files)
                                + SumFunctionOnSet(DirSizes, Dirs)
  /\ rot[p].cutoff <= now - Retention

(* A directory that was passed over was within all limits, and was not        *)
(* younger than what is still to come.                                        *)
Spared(p) ==
  \A j \in Dirs : dir[j].is # "active" /\ InfoOf(j) \notin rot[p].infos =>
    /\ dir[j].mod >= rot[p].cutoff /\ rot[p].total <= MaxTotal /\ rot[p].remaining <= LogKeep
    /\ \A t \in rot[p].infos : dir[j].mod <= t.mod

Prunes(p) ==
  /\ pc[p] \in {"prune", "rotated"} => Counts(p) /\ Spared(p)
  /\ pc[p] = "rotated" => /\ rot[p].infos = {}
                          /\ rot[p].total <= MaxTotal \/ rot[p].files = {}

StoreInv ==
  /\ Typed /\ WriterHolds /\ DirPlaced /\ Ordered
  /\ \A p \in Rotators : Rolls(p) /\ Expires(p) /\ Prunes(p)

-----------------------------------------------------------------------------
(* Types.                                                                     *)

LEMMA Constants ==
  /\ KeepLogs \in 1 .. 5 /\ KeepLogs \in Nat /\ KeepLogs <= LogKeep
  /\ Generations = 0 .. KeepLogs + 1
  /\ PerFile \in Nat /\ PerFile > 0 /\ MaxTotal \in Nat /\ Retention \in Nat /\ MaxSize \in Nat
  /\ MaxTime \in Nat /\ LogKeep \in Nat
  /\ IsFiniteSet(Jobs) /\ IsFiniteSet(Logs)
BY StoreAssumption DEF KeepLogs, Generations

LEMMA NoRotationTyped == NoRotation \in Rotation
BY DEF NoRotation, Rotation

LEMMA AbsentTyped == Absent \in LogFile /\ NoDir \in Dir
BY Constants DEF Absent, LogFile, NoDir, Dir

(* A rolling removes and moves, from the oldest generation down.              *)
LEMMA RollOpsAre ==
  ASSUME NEW n \in Logs
  PROVE  /\ RollOps(n) \in Seq(Op) /\ Len(RollOps(n)) = 2 * KeepLogs
         /\ RollOps(n)[1] = [do |-> "remove", name |-> n, to |-> KeepLogs]
         /\ Chained(RollOps(n))
<1> USE Constants
<1> DEFINE ops == RollOps(n)
<1>1. /\ DOMAIN ops = 1 .. 2 * KeepLogs
      /\ \A k \in 1 .. 2 * KeepLogs :
           ops[k] = [do |-> IF k % 2 = 1 THEN "remove" ELSE "move", name |-> n,
                     to |-> KeepLogs - (k - 1) \div 2]
  BY DEF RollOps
<1>2. ASSUME NEW k \in 1 .. 2 * KeepLogs PROVE KeepLogs - (k - 1) \div 2 \in 1 .. KeepLogs
  OBVIOUS
<1>3. ASSUME NEW k \in 1 .. 2 * KeepLogs PROVE ops[k] \in Op /\ ops[k].to <= KeepLogs
  <2> DEFINE d == IF k % 2 = 1 THEN "remove" ELSE "move"
             t == KeepLogs - (k - 1) \div 2
  <2>1. ops[k] = [do |-> d, name |-> n, to |-> t]
    BY <1>1
  <2>2. d \in {"remove", "move"} /\ t \in 1 .. KeepLogs
    BY <1>2
  <2> HIDE DEF ops, d, t
  <2> QED BY <2>1, <2>2 DEF Op
<1>4. ops \in Seq(Op) /\ Len(ops) = 2 * KeepLogs
  <2>1. ops = [k \in 1 .. 2 * KeepLogs |-> ops[k]]
    BY DEF RollOps
  <2>2. ops \in [1 .. 2 * KeepLogs -> Op]
    BY <2>1, <1>3
  <2> HIDE DEF ops
  <2> QED BY <2>2
<1>5. ops[1] = [do |-> "remove", name |-> n, to |-> KeepLogs]
  BY <1>1
<1>6. ASSUME NEW k \in 1 .. 2 * KeepLogs - 1
      PROVE  ops[k + 1] = [do |-> IF ops[k].do = "remove" THEN "move" ELSE "remove",
                           name |-> ops[k].name,
                           to |-> IF ops[k].do = "remove" THEN ops[k].to ELSE ops[k].to - 1]
  <2>1. /\ k \in 1 .. 2 * KeepLogs /\ k + 1 \in 1 .. 2 * KeepLogs
        /\ k % 2 = 1 => (k + 1) % 2 = 0 /\ (k + 1 - 1) \div 2 = (k - 1) \div 2
        /\ k % 2 # 1 => (k + 1) % 2 = 1 /\ (k + 1 - 1) \div 2 = (k - 1) \div 2 + 1
        /\ (k - 1) \div 2 \in Int
    OBVIOUS
  <2> DEFINE R(i) == [do |-> IF i % 2 = 1 THEN "remove" ELSE "move", name |-> n,
                      to |-> KeepLogs - (i - 1) \div 2]
  <2>2. ops[k] = R(k) /\ ops[k + 1] = R(k + 1)
    <3>1. \A i \in 1 .. 2 * KeepLogs : ops[i] = R(i)
      BY <1>1
    <3> HIDE DEF ops, R
    <3> QED BY <2>1, <3>1
  <2> HIDE DEF ops
  <2>3. CASE k % 2 = 1
    <3>1. R(k) = [do |-> "remove", name |-> n, to |-> KeepLogs - (k - 1) \div 2]
      BY <2>3
    <3>2. R(k + 1) = [do |-> "move", name |-> n, to |-> KeepLogs - (k - 1) \div 2]
      BY <2>1, <2>3
    <3> HIDE DEF R
    <3> QED BY <2>2, <3>1, <3>2
  <2>4. CASE k % 2 # 1
    <3>1. R(k) = [do |-> "move", name |-> n, to |-> KeepLogs - (k - 1) \div 2]
      BY <2>4
    <3>2. R(k + 1) = [do |-> "remove", name |-> n, to |-> KeepLogs - (k - 1) \div 2 - 1]
      <4>1. KeepLogs - ((k - 1) \div 2 + 1) = KeepLogs - (k - 1) \div 2 - 1
        BY <2>1, Constants
      <4> QED BY <2>1, <2>4, <4>1
    <3> HIDE DEF R
    <3> QED BY <2>2, <3>1, <3>2
  <2> QED BY <2>3, <2>4
<1> HIDE DEF ops
<1>7. Chained(ops)
  BY <1>3, <1>4, <1>6 DEF Chained
<1> QED BY <1>4, <1>5, <1>7 DEF ops

(* Every member of a finite set is in the sequence made of it, and no other.  *)
LEMMA SequenceOfSet ==
  ASSUME NEW S, IsFiniteSet(S)
  PROVE  /\ SetToSeq(S) \in Seq(S)
         /\ \A x \in S : \E i \in 1 .. Len(SetToSeq(S)) : SetToSeq(S)[i] = x
<1> DEFINE s == SetToSeq(S)
           m == Cardinality(S)
<1>1. m \in Nat /\ ExistsBijection(1 .. m, S)
  BY FS_CardinalityType
<1>2. \E f \in [1 .. m -> S] : IsInjective(f)
  BY <1>1 DEF ExistsBijection, Bijection, Injection
<1>3. s \in [1 .. m -> S] /\ IsInjective(s)
  BY <1>2 DEF SetToSeq
<1> HIDE DEF s, m
<1>4. s \in Injection(1 .. m, S)
  BY <1>3 DEF Injection
<1>5. IsFiniteSet(1 .. m) /\ Cardinality(1 .. m) = m
  BY <1>1, FS_Interval
<1>6. s \in Surjection(1 .. m, S)
  BY <1>4, <1>5, FS_Injection DEF m
<1>7. s \in Seq(S) /\ Len(s) = m
  BY <1>1, <1>3
<1> QED BY <1>6, <1>7 DEF Surjection, s

LEMMA SuperfluousFinite ==
  LET ops == {[do |-> "remove", name |-> f[1], to |-> f[2]] : f \in Superfluous}
  IN  IsFiniteSet(ops) /\ ops \subseteq Op
<1> DEFINE ops == {[do |-> "remove", name |-> f[1], to |-> f[2]] : f \in Superfluous}
           F == [f \in Superfluous |-> [do |-> "remove", name |-> f[1], to |-> f[2]]]
<1>0. IsFiniteSet(Generations)
  <2>1. Generations = 0 .. KeepLogs + 1 /\ KeepLogs + 1 \in Int /\ 0 \in Int
    BY Constants
  <2> QED BY <2>1, FS_Interval
<1>1. IsFiniteSet(Generations \ {0})
  BY <1>0, FS_Difference
<1>2. IsFiniteSet(Logs \X (Generations \ {0}))
  BY <1>1, Constants, FS_Product
<1>3. IsFiniteSet(Superfluous)
  BY <1>2, FS_Subset DEF Superfluous
<1>4. F \in Surjection(Superfluous, ops)
  BY DEF Surjection
<1>5. IsFiniteSet(ops)
  <2> HIDE DEF F, ops
  <2> QED BY <1>3, <1>4, FS_Surjection
<1>6. ops \subseteq Op
  BY DEF Superfluous, Op
<1> QED BY <1>5, <1>6

(* One rotation, or one directory, is replaced.                               *)
LEMMA RotationTyped ==
  ASSUME Typed, NEW p \in Rotators, NEW r \in Rotation, rot' = [rot EXCEPT ![p] = r]
  PROVE  rot' \in [Rotators -> Rotation]
BY DEF Typed

LEMMA DirTyped ==
  ASSUME Typed, NEW j \in Jobs, NEW d \in Dir, dir' = [dir EXCEPT ![j] = d]
  PROVE  dir' \in [Jobs -> Dir]
BY DEF Typed

LEMMA LogTyped ==
  ASSUME Typed, NEW n \in Logs, NEW g \in Generations, NEW f \in LogFile,
         log' = [log EXCEPT ![n][g] = f]
  PROVE  log' \in [Logs -> [Generations -> LogFile]]
BY DEF Typed

(* A generation is renamed to the next one, if it is there.                   *)
LEMMA MovesUp ==
  ASSUME Typed, NEW n \in Logs, NEW g \in Generations \ {0}, log' = MovedUp(n, g)
  PROVE  /\ log' \in [Logs -> [Generations -> LogFile]]
         /\ ~IsLog(n, g - 1) => log' = log
         /\ IsLog(n, g - 1) =>
              \A m \in Logs, h \in Generations :
                log'[m][h] = IF m = n /\ h = g - 1 THEN Absent
                             ELSE IF m = n /\ h = g THEN log[m][g - 1] ELSE log[m][h]
<1>1. g \in Generations /\ g - 1 \in Generations /\ g # g - 1
  BY Constants
<1>2. CASE ~IsLog(n, g - 1)
  BY <1>2 DEF MovedUp, Typed
<1>3. CASE IsLog(n, g - 1)
  <2>1. log' = [log EXCEPT ![n][g] = log[n][g - 1], ![n][g - 1] = Absent]
    BY <1>3 DEF MovedUp
  <2>2. \A m \in Logs, h \in Generations :
          log'[m][h] = IF m = n /\ h = g - 1 THEN Absent
                       ELSE IF m = n /\ h = g THEN log[m][g - 1] ELSE log[m][h]
    BY <1>1, <2>1 DEF Typed
  <2>3. log' \in [Logs -> [Generations -> LogFile]]
    BY <1>1, <2>1, AbsentTyped DEF Typed
  <2> QED BY <1>3, <2>2, <2>3
<1> QED BY <1>2, <1>3

LEMMA Moved ==
  ASSUME Typed, NEW p \in Processes, NEW step \in Place, Move(p, step)
  PROVE  pc' \in [Processes -> Place] /\ pc' = [pc EXCEPT ![p] = step]
BY DEF Typed, Move

LEMMA LeaveTyped ==
  ASSUME Typed, NEW p \in Processes, NEW step \in Place, Leave(p, step)
  PROVE  /\ pc' \in [Processes -> Place] /\ rot' \in [Rotators -> Rotation]
         /\ lock' \in Processes \cup {Nobody}
<1>1. rot' \in [Rotators -> Rotation]
  BY NoRotationTyped, RotationTyped DEF Leave, Typed
<1>2. lock' \in Processes \cup {Nobody}
  BY DEF Leave, Typed
<1> QED BY <1>1, <1>2, Moved DEF Leave

LEMMA Places ==
  /\ RotationSteps \subseteq Place
  /\ {"idle", "mark", "note", "working", "ended", "refused", "looked", "clearing",
      "retiring", "roll", "expire", "prune", "rotated"} \subseteq Place
  /\ \A p : AfterAll(p) \in {"ended", "idle"}
BY DEF Place, RotationSteps, AfterAll

LEMMA Kinds == Jobs \subseteq Rotators /\ Maintainer \in Rotators /\ Rotators \subseteq Processes
               /\ Recoverer \in Processes /\ Clearer \in Processes
BY DEF Rotators, Processes

LEMMA RotationParts ==
  ASSUME NEW r
  PROVE  r \in Rotation <=>
           /\ r = [names |-> r.names, ops |-> r.ops, infos |-> r.infos, files |-> r.files,
                   cutoff |-> r.cutoff, total |-> r.total, base |-> r.base,
                   remaining |-> r.remaining]
           /\ r.names \subseteq Logs /\ r.ops \in Seq(Op) /\ r.infos \subseteq Info
           /\ r.files \subseteq File /\ r.cutoff \in Int /\ r.total \in Int /\ r.base \in Nat
           /\ r.remaining \in Int
BY DEF Rotation

LEMMA BeginTyped ==
  ASSUME Typed, NEW p \in Rotators, BeginRotation(p)
  PROVE  pc' \in [Processes -> Place] /\ rot' \in [Rotators -> Rotation]
<1>1. [NoRotation EXCEPT !.names = Logs] \in Rotation
  BY NoRotationTyped DEF Rotation
<1> QED BY <1>1, RotationTyped, Moved, Kinds, Places DEF BeginRotation

LEMMA TailOps ==
  ASSUME NEW ops \in Seq(Op), ops # <<>>
  PROVE  /\ Tail(ops) \in Seq(Op) /\ Len(Tail(ops)) = Len(ops) - 1 /\ Len(ops) > 0
         /\ \A i \in 1 .. Len(Tail(ops)) : Tail(ops)[i] = ops[i + 1]
         /\ Head(ops) = ops[1] /\ ops[1] \in Op
OBVIOUS

(* What a rotation finds, and a sum of sizes.                                 *)
LEMMA SizesTyped ==
  ASSUME Typed
  PROVE  /\ \A j \in Jobs : DirSizes[j] \in Nat
         /\ \A f \in Logs \X Generations : LogSizes[f] \in Nat
<1>1. ASSUME NEW j \in Jobs PROVE DirSizes[j] \in Nat
  <2>1. dir[j] \in Dir
    BY DEF Typed
  <2>2. dir[j].size \in Nat
    BY <2>1, Constants DEF Dir
  <2> QED BY <2>2 DEF DirSizes
<1>2. ASSUME NEW f \in Logs \X Generations PROVE LogSizes[f] \in Nat
  <2>1. log[f[1]][f[2]] \in LogFile
    BY DEF Typed
  <2>2. log[f[1]][f[2]].size \in Nat
    BY <2>1, Constants DEF LogFile
  <2> QED BY <2>2 DEF LogSizes
<1> QED BY <1>1, <1>2

LEMMA SetsFinite ==
  /\ IsFiniteSet(Dirs) /\ Dirs \subseteq Jobs
  /\ IsFiniteSet(Rolled) /\ Rolled \subseteq Logs \X (Generations \ {0})
  /\ IsFiniteSet(Logs \X {0}) /\ IsFiniteSet({f \in Rolled : f[2] <= KeepLogs})
<1>1. IsFiniteSet(Generations)
  <2>1. Generations = 0 .. KeepLogs + 1 /\ KeepLogs + 1 \in Int /\ 0 \in Int
    BY Constants
  <2> QED BY <2>1, FS_Interval
<1>2. IsFiniteSet(Generations \ {0})
  BY <1>1, FS_Difference
<1>3. IsFiniteSet(Logs \X (Generations \ {0}))
  BY <1>2, Constants, FS_Product
<1>4. IsFiniteSet(Rolled) /\ Rolled \subseteq Logs \X (Generations \ {0})
  BY <1>3, FS_Subset DEF Rolled
<1>5. IsFiniteSet({f \in Rolled : f[2] <= KeepLogs})
  <2> DEFINE W == {f \in Rolled : f[2] <= KeepLogs}
  <2>1. W \in SUBSET Rolled
    OBVIOUS
  <2> HIDE DEF W
  <2>2. IsFiniteSet(W)
    BY <1>4, <2>1, FS_Subset
  <2> QED BY <2>2 DEF W
<1>6. IsFiniteSet(Logs \X {0})
  BY Constants, FS_Product, FS_Singleton
<1>7. IsFiniteSet(Dirs) /\ Dirs \subseteq Jobs
  BY Constants, FS_Subset DEF Dirs
<1> QED BY <1>4, <1>5, <1>6, <1>7

LEMMA GatherTyped ==
  ASSUME Typed, NEW p \in Rotators, Gather(p)
  PROVE  rot' \in [Rotators -> Rotation]
<1> DEFINE infos == {[job |-> j, mod |-> dir[j].mod, size |-> dir[j].size,
                      active |-> dir[j].is = "active"] : j \in Dirs}
           there == {f \in Rolled : f[2] <= KeepLogs}
           files == {[name |-> f[1], gen |-> f[2], mod |-> log[f[1]][f[2]].mod,
                      size |-> log[f[1]][f[2]].size] : f \in there}
           base == SumFunctionOnSet(LogSizes, Logs \X {0})
           total == base + SumFunctionOnSet(LogSizes, there) + SumFunctionOnSet(DirSizes, Dirs)
           r == [rot[p] EXCEPT !.infos = infos, !.files = files, !.base = base,
                   !.total = total, !.remaining = Cardinality(Dirs),
                   !.cutoff = now - Retention]
<1>1. infos \subseteq Info
  <2> SUFFICES ASSUME NEW j \in Dirs
               PROVE  [job |-> j, mod |-> dir[j].mod, size |-> dir[j].size,
                       active |-> dir[j].is = "active"] \in Info
    OBVIOUS
  <2>1. j \in Jobs /\ dir[j] \in Dir
    BY SetsFinite DEF Typed
  <2> QED BY <2>1 DEF Dir, Info
<1>2. files \subseteq File
  <2> SUFFICES ASSUME NEW f \in there
               PROVE  [name |-> f[1], gen |-> f[2], mod |-> log[f[1]][f[2]].mod,
                       size |-> log[f[1]][f[2]].size] \in File
    OBVIOUS
  <2>1. f[1] \in Logs /\ f[2] \in 1 .. KeepLogs /\ f[2] \in Generations /\ IsLog(f[1], f[2])
    BY Constants DEF Rolled
  <2>2. log[f[1]][f[2]] \in LogFile
    BY <2>1 DEF Typed
  <2>3. log[f[1]][f[2]].mod \in 0 .. MaxTime /\ log[f[1]][f[2]].size \in 1 .. PerFile + 1
    BY <2>1, <2>2, Constants DEF LogFile, IsLog
  <2> QED BY <2>1, <2>3 DEF File
<1>3. base \in Nat
  <2> DEFINE B == Logs \X {0}
  <2>1. IsFiniteSet(B) /\ \A f \in B : LogSizes[f] \in Nat
    BY SetsFinite, SizesTyped, Constants
  <2> HIDE DEF B
  <2>2. SumFunctionOnSet(LogSizes, B) \in Nat
    BY <2>1, SumNat
  <2> QED BY <2>2 DEF B
<1>4. SumFunctionOnSet(LogSizes, there) \in Int
  <2>1. IsFiniteSet(there) /\ \A f \in there : LogSizes[f] \in Int
    BY SetsFinite, SizesTyped
  <2> HIDE DEF there
  <2> QED BY <2>1, SumInt
<1>5. SumFunctionOnSet(DirSizes, Dirs) \in Int
  <2>1. IsFiniteSet(Dirs) /\ \A j \in Dirs : DirSizes[j] \in Int
    BY SetsFinite, SizesTyped
  <2> QED BY <2>1, SumInt
<1>6. Cardinality(Dirs) \in Int /\ now - Retention \in Int
  BY SetsFinite, FS_CardinalityType, Constants DEF Typed
<1>7. rot' = [rot EXCEPT ![p] = r]
  BY DEF Gather, Typed, Rotation
<1>8. rot[p] \in Rotation
  BY DEF Typed
<1>9. r \in Rotation
  <2> HIDE DEF infos, files, base, there
  <2>1. total \in Int
    BY <1>3, <1>4, <1>5
  <2> HIDE DEF total
  <2> QED BY <1>1, <1>2, <1>3, <1>6, <1>8, <2>1 DEF Rotation
<1> HIDE DEF r
<1> QED BY <1>7, <1>9, RotationTyped

LEMMA RotationStepTyped ==
  ASSUME Typed, NEW p \in Rotators, RotationStep(p)
  PROVE  Typed'
<1> USE Kinds, Places
<1>0. rot[p] \in Rotation /\ p \in Processes
  BY DEF Typed
<1>1. CASE Roll(p)
  <2>1. PICK n \in rot[p].names :
          /\ rot' = [rot EXCEPT ![p].names = @ \ {n},
                                ![p].ops = IF log[n][0].size > PerFile THEN RollOps(n) ELSE <<>>]
          /\ crossed' = crossed \ {n}
    BY <1>1 DEF Roll
  <2> DEFINE ops == IF log[n][0].size > PerFile THEN RollOps(n) ELSE <<>>
             r == [rot[p] EXCEPT !.names = @ \ {n}, !.ops = ops]
  <2>2. ops \in Seq(Op)
    <3>1. n \in Logs
      BY <1>0 DEF Rotation
    <3>2. RollOps(n) \in Seq(Op)
      BY <3>1, RollOpsAre
    <3>3. <<>> \in Seq(Op)
      OBVIOUS
    <3> QED BY <3>2, <3>3
  <2>3. r \in Rotation
    <3> HIDE DEF ops
    <3> QED BY <1>0, <2>2 DEF Rotation
  <2>4. rot' = [rot EXCEPT ![p] = r]
    BY <2>1 DEF Typed
  <2>5. crossed' \subseteq Logs
    BY <2>1 DEF Typed
  <2> HIDE DEF r, ops
  <2>6. rot' \in [Rotators -> Rotation]
    BY <2>3, <2>4, RotationTyped
  <2> QED BY <1>1, <2>5, <2>6 DEF Roll, Typed
<1>2. CASE FileStep(p)
  <2> DEFINE r == [rot[p] EXCEPT !.ops = Tail(@)]
             op == Head(rot[p].ops)
  <2>1. rot[p].ops \in Seq(Op) /\ rot[p].ops # <<>>
    BY <1>0, <1>2 DEF FileStep, Rotation
  <2>2. Tail(rot[p].ops) \in Seq(Op) /\ op \in Op
    BY <2>1, TailOps
  <2>3. r \in Rotation
    BY <1>0, <2>2 DEF Rotation
  <2>4. rot' = [rot EXCEPT ![p] = r]
    BY <1>2 DEF FileStep, Typed
  <2>5. log' \in [Logs -> [Generations -> LogFile]]
    <3> HIDE DEF op
    <3>1. op.name \in Logs /\ op.to \in Generations /\ op.to - 1 \in Generations
      BY <2>2, Constants DEF Op
    <3>2. log' = IF op.do = "remove" THEN [log EXCEPT ![op.name][op.to] = Absent]
                 ELSE MovedUp(op.name, op.to)
      BY <1>2 DEF FileStep, op
    <3>3. CASE op.do = "remove"
      BY <3>1, <3>2, <3>3, AbsentTyped, LogTyped
    <3>4. CASE op.do # "remove"
      <4>1. op.to \in Generations \ {0}
        BY <2>2 DEF Op
      <4> QED BY <3>1, <3>2, <3>4, <4>1, MovesUp
    <3> QED BY <3>3, <3>4
  <2> HIDE DEF r, op
  <2> QED BY <1>2, <2>3, <2>4, <2>5, RotationTyped DEF FileStep, Typed
<1>3. CASE Expire(p)
  <2> DEFINE set == {[do |-> "remove", name |-> f[1], to |-> f[2]] : f \in Superfluous}
             r == [rot[p] EXCEPT !.ops = SetToSeq(set)]
  <2>1. SetToSeq(set) \in Seq(Op)
    <3>1. IsFiniteSet(set) /\ set \subseteq Op
      BY SuperfluousFinite
    <3> HIDE DEF set
    <3>2. SetToSeq(set) \in Seq(set)
      BY <3>1, SequenceOfSet
    <3> QED BY <3>1, <3>2
  <2>2. r \in Rotation
    <3> HIDE DEF set
    <3> QED BY <1>0, <2>1 DEF Rotation
  <2>3. rot' = [rot EXCEPT ![p] = r]
    BY <1>3 DEF Expire, Typed
  <2> HIDE DEF r, set
  <2> QED BY <1>0, <1>3, <2>2, <2>3, RotationTyped, Moved DEF Expire, Typed
<1>4. CASE Gather(p)
  <2>1. rot' \in [Rotators -> Rotation]
    BY <1>4, GatherTyped
  <2>2. pc' \in [Processes -> Place]
    BY <1>4, Moved DEF Gather
  <2>3. UNCHANGED <<now, lock, dir, log, listed, flat>>
    BY <1>4 DEF Gather
  <2> QED BY <2>1, <2>2, <2>3 DEF Typed
<1>5. CASE Prune(p)
  <2>1. PICK t \in Oldest(rot[p].infos) :
          IF Dispensable(rot[p], t)
          THEN /\ dir' = [dir EXCEPT ![t.job] = NoDir]
               /\ rot' = [rot EXCEPT ![p].infos = @ \ {t}, ![p].total = @ - t.size,
                                     ![p].remaining = @ - 1]
          ELSE /\ rot' = [rot EXCEPT ![p].infos = @ \ {t}]
               /\ UNCHANGED dir
    BY <1>5 DEF Prune
  <2>2. t \in Info
    BY <1>0, <2>1 DEF Oldest, Rotation
  <2> DEFINE r == [rot[p] EXCEPT !.infos = @ \ {t}, !.total = @ - t.size, !.remaining = @ - 1]
             q == [rot[p] EXCEPT !.infos = @ \ {t}]
  <2>3. r \in Rotation /\ q \in Rotation
    <3>1. t.size \in Int
      BY <2>2, Constants DEF Info
    <3>2. /\ rot[p].total - t.size \in Int /\ rot[p].remaining - 1 \in Int
          /\ rot[p].infos \ {t} \subseteq Info
      BY <1>0, <3>1 DEF Rotation
    <3> QED BY <1>0, <3>2 DEF Rotation
  <2>4. CASE Dispensable(rot[p], t)
    <3>1. rot' = [rot EXCEPT ![p] = r]
      BY <2>1, <2>4 DEF Typed
    <3>2. t.job \in Jobs /\ dir' = [dir EXCEPT ![t.job] = NoDir]
      BY <2>1, <2>2, <2>4 DEF Info
    <3>3. dir' \in [Jobs -> Dir]
      BY <3>2, AbsentTyped, DirTyped
    <3> HIDE DEF r
    <3>4. rot' \in [Rotators -> Rotation]
      BY <2>3, <3>1, RotationTyped
    <3> QED BY <1>5, <3>3, <3>4 DEF Prune, Typed
  <2>5. CASE ~Dispensable(rot[p], t)
    <3>1. rot' = [rot EXCEPT ![p] = q] /\ UNCHANGED dir
      BY <2>1, <2>5 DEF Typed
    <3> HIDE DEF q
    <3>2. rot' \in [Rotators -> Rotation]
      BY <2>3, <3>1, RotationTyped
    <3> QED BY <1>5, <3>1, <3>2 DEF Prune, Typed
  <2> QED BY <2>4, <2>5
<1>6. CASE Trim(p)
  <2>1. PICK f \in Oldest(rot[p].files) :
          /\ log' = [log EXCEPT ![f.name][f.gen] = Absent]
          /\ rot' = [rot EXCEPT ![p].files = @ \ {f}, ![p].total = @ - f.size]
    BY <1>6 DEF Trim
  <2>2. f \in File
    BY <1>0, <2>1 DEF Oldest, Rotation
  <2> DEFINE r == [rot[p] EXCEPT !.files = @ \ {f}, !.total = @ - f.size]
  <2>3. r \in Rotation
    <3>1. f.size \in Int
      BY <2>2, Constants DEF File
    <3>2. rot[p].total - f.size \in Int /\ rot[p].files \ {f} \subseteq File
      BY <1>0, <3>1 DEF Rotation
    <3> QED BY <1>0, <3>2 DEF Rotation
  <2>4. rot' = [rot EXCEPT ![p] = r]
    BY <2>1 DEF Typed
  <2>5. f.name \in Logs /\ f.gen \in Generations
    BY <2>2, Constants DEF File
  <2>6. log' \in [Logs -> [Generations -> LogFile]]
    BY <2>1, <2>5, AbsentTyped, LogTyped
  <2> HIDE DEF r
  <2>7. rot' \in [Rotators -> Rotation]
    BY <2>3, <2>4, RotationTyped
  <2> QED BY <1>6, <2>6, <2>7 DEF Trim, Typed
<1>7. CASE Rotated(p)
  BY <1>0, <1>7, Moved DEF Rotated, Typed
<1>8. CASE RotationFails(p)
  <2>1. AfterAll(p) \in Place
    OBVIOUS
  <2>2. Leave(p, AfterAll(p))
    BY <1>8 DEF RotationFails
  <2>3. pc' \in [Processes -> Place] /\ rot' \in [Rotators -> Rotation]
        /\ lock' \in Processes \cup {Nobody}
    BY <1>0, <2>1, <2>2, LeaveTyped
  <2>4. listed' \in [Jobs -> {"absent", "queued", "running", "ended"}]
    BY <1>8 DEF RotationFails, Typed
  <2> QED BY <1>8, <2>3, <2>4 DEF RotationFails, Typed
<1> QED BY <1>1, <1>2, <1>3, <1>4, <1>5, <1>6, <1>7, <1>8 DEF RotationStep

LEMMA WorkerStepTyped ==
  ASSUME Typed, NEW j \in Jobs, WorkerStep(j)
  PROVE  Typed'
<1> USE Kinds, Places
<1>0. j \in Rotators /\ j \in Processes /\ dir[j] \in Dir
  BY DEF Typed
<1>1. CASE Launch(j) \/ GiveUp(j)
  BY <1>1 DEF Launch, GiveUp, Typed
<1>2. CASE StartWorker(j)
  <2>1. CASE lock = Nobody
    <3>1. pc' \in [Processes -> Place] /\ rot' \in [Rotators -> Rotation]
      BY <1>0, <1>2, <2>1, BeginTyped DEF StartWorker
    <3>2. lock' = j /\ listed' = [listed EXCEPT ![j] = "running"]
      BY <1>2, <2>1 DEF StartWorker
    <3> QED BY <1>0, <1>2, <3>1, <3>2 DEF StartWorker, Typed
  <2>2. CASE lock # Nobody
    BY <1>0, <1>2, <2>2, Moved DEF StartWorker, Typed
  <2> QED BY <2>1, <2>2
<1>3. CASE MakeDir(j)
  <2>1. [NoDir EXCEPT !.is = "bare"] \in Dir
    BY AbsentTyped DEF Dir, NoDir
  <2>2. dir' \in [Jobs -> Dir]
    BY <1>3, <2>1, DirTyped DEF MakeDir
  <2>3. rot' \in [Rotators -> Rotation]
    BY <1>0, <1>3, NoRotationTyped, RotationTyped DEF MakeDir
  <2> QED BY <1>0, <1>3, <2>2, <2>3, Moved DEF MakeDir, Typed
<1>4. CASE WriteMarker(j)
  <2>1. ASSUME MarkerWritten(j) PROVE dir' \in [Jobs -> Dir]
    <3>1. PICK size \in 1 .. MaxSize :
            dir' = [dir EXCEPT ![j] = [is |-> "active", size |-> size, mod |-> now]]
      BY <2>1 DEF MarkerWritten
    <3>2. [is |-> "active", size |-> size, mod |-> now] \in Dir
      BY Constants DEF Dir, Typed
    <3> QED BY <3>1, <3>2, DirTyped
  <2>2. dir' \in [Jobs -> Dir]
    BY <1>4, <2>1 DEF WriteMarker, Typed
  <2>3. CASE Move(j, "note") /\ UNCHANGED <<lock, listed, rot>>
    BY <1>0, <1>4, <2>2, <2>3, Moved DEF WriteMarker, Typed
  <2>4. CASE Leave(j, "ended") /\ listed' = [listed EXCEPT ![j] = "ended"]
    <3>1. /\ pc' \in [Processes -> Place] /\ rot' \in [Rotators -> Rotation]
          /\ lock' \in Processes \cup {Nobody}
      BY <1>0, <2>4, LeaveTyped
    <3> QED BY <1>0, <1>4, <2>2, <2>4, <3>1 DEF WriteMarker, Typed
  <2> QED BY <1>4, <2>3, <2>4 DEF WriteMarker
<1>5. CASE FirstRecord(j)
  <2>1. CASE Move(j, "working") /\ UNCHANGED <<lock, listed, rot>>
    BY <1>0, <1>5, <2>1, Moved DEF FirstRecord, Typed
  <2>2. CASE Leave(j, "ended") /\ listed' = [listed EXCEPT ![j] = "ended"]
    <3>1. /\ pc' \in [Processes -> Place] /\ rot' \in [Rotators -> Rotation]
          /\ lock' \in Processes \cup {Nobody}
      BY <1>0, <2>2, LeaveTyped
    <3> QED BY <1>0, <1>5, <2>2, <3>1 DEF FirstRecord, Typed
  <2> QED BY <1>5, <2>1, <2>2 DEF FirstRecord
<1>6. CASE EndWorker(j)
  <2>1. /\ pc' \in [Processes -> Place] /\ rot' \in [Rotators -> Rotation]
        /\ lock' \in Processes \cup {Nobody}
    BY <1>0, <1>6, LeaveTyped DEF EndWorker
  <2>2. dir' \in [Jobs -> Dir]
    <3>1. [dir[j] EXCEPT !.is = "kept", !.mod = now] \in Dir
      BY <1>0 DEF Dir, Typed
    <3>2. CASE dir' = [dir EXCEPT ![j].is = "kept", ![j].mod = now]
      <4>1. dir' = [dir EXCEPT ![j] = [dir[j] EXCEPT !.is = "kept", !.mod = now]]
        BY <1>0, <3>2 DEF Typed
      <4> QED BY <3>1, <4>1, DirTyped
    <3>3. CASE UNCHANGED dir
      BY <3>3 DEF Typed
    <3> QED BY <1>6, <3>2, <3>3 DEF EndWorker
  <2> QED BY <1>0, <1>6, <2>1, <2>2 DEF EndWorker, Typed
<1> QED BY <1>1, <1>2, <1>3, <1>4, <1>5, <1>6 DEF WorkerStep

(* What the own writer of a flat log changes: a line appended, or that log    *)
(* rolled by one step and known to be.                                        *)
LEMMA FlatChanges ==
  ASSUME Typed, NEW n \in Logs, FlatStep(n)
  PROVE  /\ roller' \in [Logs -> {"idle", "unlink", "shift", "move"}]
         /\ crossed \subseteq crossed' /\ crossed' \subseteq Logs
         /\ log' \in [Logs -> [Generations -> LogFile]]
         /\ \A m \in Logs \ crossed', g \in Generations :
              g # 0 \/ log'[m][0].size <= log[m][0].size => log'[m][g] = log[m][g]
<1>g. 0 \in Generations /\ 1 \in Generations \ {0} /\ 2 \in Generations \ {0} /\ 2 - 1 = 1
  BY Constants
<1>1. CASE AppendLog(n)
  <2>1. log[n][0] \in LogFile /\ log[n][0].size <= PerFile /\ log[n][0].size \in Int
    BY <1>1, <1>g, Constants DEF AppendLog, Typed, LogFile
  <2>2. [size |-> log[n][0].size + 1, mod |-> now] \in LogFile
    BY <2>1, Constants, SMTT(30) DEF LogFile, Typed
  <2>3. log' = [log EXCEPT ![n][0] = [size |-> log[n][0].size + 1, mod |-> now]]
    BY <1>1, <1>g, <2>1 DEF AppendLog, Typed
  <2>4. log' \in [Logs -> [Generations -> LogFile]]
    BY <1>g, <2>2, <2>3, LogTyped
  <2>5. \A m \in Logs, g \in Generations :
          log'[m][g] = IF m = n /\ g = 0 THEN [size |-> log[n][0].size + 1, mod |-> now]
                       ELSE log[m][g]
    BY <1>g, <2>3 DEF Typed
  <2>6. ~([size |-> log[n][0].size + 1, mod |-> now].size <= log[n][0].size)
    BY <2>1
  <2>7. \A m \in Logs, g \in Generations :
          g # 0 \/ log'[m][0].size <= log[m][0].size => log'[m][g] = log[m][g]
    BY <1>g, <2>5, <2>6
  <2> QED BY <1>1, <2>4, <2>7 DEF AppendLog, Typed
<1>2. ASSUME NEW from, NEW to \in {"idle", "unlink", "shift", "move"}, Rolling(n, from, to),
             log' \in [Logs -> [Generations -> LogFile]],
             \A m \in Logs, g \in Generations : m # n => log'[m][g] = log[m][g]
      PROVE  /\ roller' \in [Logs -> {"idle", "unlink", "shift", "move"}]
             /\ crossed \subseteq crossed' /\ crossed' \subseteq Logs
             /\ \A m \in Logs \ crossed', g \in Generations : log'[m][g] = log[m][g]
  BY <1>2 DEF Rolling, Typed
<1>3. CASE FlatLooks(n)
  BY <1>2, <1>3 DEF FlatLooks, Typed
<1>4. CASE FlatUnlinks(n)
  <2>1. log' \in [Logs -> [Generations -> LogFile]]
    BY <1>4, <1>g, AbsentTyped, LogTyped DEF FlatUnlinks
  <2>2. \A m \in Logs, g \in Generations : m # n => log'[m][g] = log[m][g]
    BY <1>4 DEF FlatUnlinks, Typed
  <2> QED BY <1>2, <1>4, <2>1, <2>2 DEF FlatUnlinks
<1>5. CASE FlatShifts(n)
  <2>1. log' = MovedUp(n, 2)
    BY <1>5 DEF FlatShifts
  <2> QED BY <1>2, <1>5, <1>g, <2>1, MovesUp DEF FlatShifts
<1>6. CASE FlatMoves(n)
  <2>1. log' = MovedUp(n, 1)
    BY <1>6 DEF FlatMoves
  <2> QED BY <1>2, <1>6, <1>g, <2>1, MovesUp DEF FlatMoves
<1>7. CASE FlatStops(n)
  BY <1>2, <1>7 DEF FlatStops, Typed
<1> QED BY <1>1, <1>2, <1>3, <1>4, <1>5, <1>6, <1>7 DEF FlatStep

LEMMA TypedStep == Typed /\ [Next]_vars => Typed'
<1> SUFFICES ASSUME Typed, [Next]_vars PROVE Typed'
  OBVIOUS
<1> USE Kinds, Places
<1>1. CASE \E p \in Rotators : RotationStep(p)
  BY <1>1, RotationStepTyped
<1>2. CASE \E j \in Jobs : WorkerStep(j)
  BY <1>2, WorkerStepTyped
<1>3. CASE Maintain
  BY <1>3, BeginTyped DEF Maintain, Typed
<1>4. CASE MaintainEnds
  BY <1>4, LeaveTyped DEF MaintainEnds, Typed
<1>5. CASE Recover
  BY <1>5, Moved DEF Recover, Typed
<1>6. CASE Retire
  <2>1. CASE Leave(Recoverer, "idle") /\ UNCHANGED <<dir, listed>>
    BY <1>6, <2>1, LeaveTyped DEF Retire, Typed
  <2>2. ASSUME NEW j \in Jobs, dir' = [dir EXCEPT ![j].is = "kept", ![j].mod = now],
               listed' = [listed EXCEPT ![j] = "ended"], UNCHANGED <<lock, rot, pc>>
        PROVE  Typed'
    <3>1. dir[j] \in Dir
      BY DEF Typed
    <3>2. [dir[j] EXCEPT !.is = "kept", !.mod = now] \in Dir
      BY <3>1 DEF Dir, Typed
    <3>3. dir' = [dir EXCEPT ![j] = [dir[j] EXCEPT !.is = "kept", !.mod = now]]
      BY <2>2, <3>1 DEF Typed
    <3>4. dir' \in [Jobs -> Dir]
      BY <3>2, <3>3, DirTyped
    <3> QED BY <1>6, <2>2, <3>4 DEF Retire, Typed
  <2> QED BY <1>6, <2>1, <2>2 DEF Retire
<1>7. CASE ClearStep
  <2>1. CASE ClearLooks
    BY <2>1, Moved DEF ClearLooks, Typed
  <2>2. CASE ClearLocks
    BY <2>2, Moved DEF ClearLocks, Typed
  <2>3. CASE Clear
    <3>1. ASSUME NEW j \in Jobs, dir' = [dir EXCEPT ![j] = NoDir], UNCHANGED log PROVE Typed'
      BY <2>3, <3>1, AbsentTyped, DirTyped DEF Clear, Typed
    <3>2. ASSUME NEW n \in Logs, NEW g \in Generations, log' = [log EXCEPT ![n][g] = Absent],
                 UNCHANGED dir
          PROVE  Typed'
      BY <2>3, <3>2, AbsentTyped, LogTyped DEF Clear, Typed
    <3> QED BY <2>3, <3>1, <3>2 DEF Clear
  <2>4. CASE ClearEnds
    BY <2>4, LeaveTyped DEF ClearEnds, Typed
  <2> QED BY <1>7, <2>1, <2>2, <2>3, <2>4 DEF ClearStep
<1>8. ASSUME NEW n \in Logs, FlatStep(n) PROVE Typed'
  BY <1>8, FlatLeaves, FlatChanges DEF Typed
<1>9. ASSUME NEW p \in Processes, Die(p) PROVE Typed'
  <2>1. AfterAll(p) \in Place
    OBVIOUS
  <2>2. /\ pc' \in [Processes -> Place] /\ rot' \in [Rotators -> Rotation]
        /\ lock' \in Processes \cup {Nobody}
    BY <1>9, <2>1, LeaveTyped DEF Die
  <2> QED BY <1>9, <2>2 DEF Die, Typed
<1>10. CASE Tick
  BY <1>10, Constants DEF Tick, Typed
<1>11. CASE UNCHANGED vars
  BY <1>11 DEF vars, Typed
<1> QED BY <1>1, <1>2, <1>3, <1>4, <1>5, <1>6, <1>7, <1>8, <1>9, <1>10, <1>11 DEF Next

LEMMA TypedInit == Init => Typed
<1> SUFFICES ASSUME Init PROVE Typed
  OBVIOUS
<1>1. dir \in [Jobs -> Dir] /\ rot \in [Rotators -> Rotation] /\ now \in 0 .. MaxTime
  BY AbsentTyped, NoRotationTyped, Constants DEF Init
<1>2. log \in [Logs -> [Generations -> LogFile]]
  <2>1. [size |-> PerFile + 1, mod |-> 0] \in LogFile
    BY Constants DEF LogFile
  <2> QED BY <2>1, AbsentTyped DEF Init
<1>3. pc \in [Processes -> Place]
  BY Places DEF Init
<1> QED BY <1>1, <1>2, <1>3 DEF Init, Typed

-----------------------------------------------------------------------------
(* What the others can do while one process rotates.                          *)

Stands(p) ==
  /\ rot'[p] = rot[p] /\ pc'[p] = pc[p] /\ dir' = dir /\ now <= now'
  /\ crossed \subseteq crossed'
  /\ \A n \in Logs \ crossed', g \in Generations \ {0} : log'[n][g] = log[n][g]

Begun(p) == pc'[p] = "roll" /\ rot'[p] = [NoRotation EXCEPT !.names = Logs]

LEMMA Alone ==
  ASSUME WriterHolds, NEW p \in Processes, NEW q \in Processes, Writing(p), Writing(q)
  PROVE  p = q /\ lock = p /\ lock # Nobody
BY ProcessesDistinct DEF WriterHolds

LEMMA LeaveElsewhere ==
  ASSUME Typed, NEW q \in Processes, NEW step, Leave(q, step), NEW p \in Rotators
  PROVE  IF p = q THEN pc'[p] = step ELSE pc'[p] = pc[p] /\ rot'[p] = rot[p]
BY Kinds DEF Leave, Move, Typed

LEMMA MoveElsewhere ==
  ASSUME Typed, NEW q \in Processes, NEW step, Move(q, step), NEW p \in Rotators
  PROVE  pc'[p] = IF p = q THEN step ELSE pc[p]
BY Kinds DEF Move, Typed

(* Only the process at work, and the own writers of the flat logs, change     *)
(* what a rotation has seen.                                                  *)
LEMMA OthersStand ==
  ASSUME Typed, WriterHolds, [Next]_vars, NEW p \in Rotators,
         pc[p] \in RotationSteps, pc'[p] \in RotationSteps
  PROVE  RotationStep(p) \/ Stands(p)
<1> USE Kinds DEF At
<1>0. Writing(p) /\ lock # Nobody /\ \A q \in Processes : Writing(q) => q = p
  BY Alone DEF Writing
<1>n. now \in Int
  BY Constants DEF Typed
<1>a. /\ pc[p] \notin {"idle", "mark", "note", "working", "retiring", "clearing", "looked"}
      /\ pc'[p] \notin {"idle", "ended", "refused", "mark"}
  BY DEF RotationSteps
<1>1. ASSUME NEW q \in Rotators, RotationStep(q) PROVE RotationStep(p)
  <2>1. Writing(q)
    BY <1>1 DEF RotationStep, Roll, FileStep, Expire, Gather, Prune, Trim, Rotated,
                RotationFails, Writing, RotationSteps
  <2> QED BY <1>0, <1>1, <2>1
<1>2. ASSUME NEW j \in Jobs, WorkerStep(j) PROVE Stands(p)
  <2>1. CASE Launch(j) \/ GiveUp(j)
    BY <1>n, <2>1 DEF Launch, GiveUp, Stands
  <2>2. CASE StartWorker(j)
    BY <1>0, <1>a, <1>n, <2>2, MoveElsewhere DEF StartWorker, Stands
  <2>3. CASE MakeDir(j)
    <3>1. Writing(j)
      BY <2>3 DEF MakeDir, Writing, RotationSteps
    <3>2. j = p
      BY <1>0, <3>1
    <3> QED BY <1>a, <2>3, <3>2, MoveElsewhere DEF MakeDir
  <2>4. CASE WriteMarker(j)
    BY <1>0, <1>a, <2>4 DEF WriteMarker, Writing
  <2>5. CASE FirstRecord(j)
    BY <1>0, <1>a, <2>5 DEF FirstRecord, Writing
  <2>6. CASE EndWorker(j)
    BY <1>0, <1>a, <2>6 DEF EndWorker, Writing
  <2> QED BY <1>2, <2>1, <2>2, <2>3, <2>4, <2>5, <2>6 DEF WorkerStep
<1>3. CASE Maintain \/ Recover
  BY <1>0, <1>3 DEF Maintain, Recover
<1>4. CASE MaintainEnds
  <2>1. Writing(Maintainer)
    BY <1>4 DEF MaintainEnds, Writing, RotationSteps
  <2>2. Maintainer = p
    BY <1>0, <2>1
  <2> QED BY <1>4, <1>a, <2>2, LeaveElsewhere DEF MaintainEnds
<1>5. CASE Retire
  BY <1>0, <1>5, <1>a DEF Retire, Writing
<1>6. CASE ClearStep
  <2>1. CASE ClearLooks
    BY <1>a, <1>n, <2>1, MoveElsewhere DEF ClearLooks, Stands
  <2>2. CASE ClearLocks
    BY <1>0, <1>a, <1>n, <2>2, MoveElsewhere DEF ClearLocks, Stands
  <2>3. CASE Clear
    BY <1>0, <1>a, <2>3 DEF Clear, Writing
  <2>4. CASE ClearEnds
    BY <1>0, <1>a, <2>4 DEF ClearEnds, Writing
  <2> QED BY <1>6, <2>1, <2>2, <2>3, <2>4 DEF ClearStep
<1>7. ASSUME NEW n \in Logs, FlatStep(n) PROVE Stands(p)
  BY <1>7, <1>n, FlatLeaves, FlatChanges DEF Stands
<1>8. ASSUME NEW q \in Processes, Die(q) PROVE Stands(p)
  <2>1. AfterAll(q) \in {"ended", "idle"} /\ Leave(q, AfterAll(q))
    BY <1>8, Places DEF Die
  <2>2. q # p
    BY <1>a, <2>1, LeaveElsewhere
  <2>3. rot'[p] = rot[p] /\ pc'[p] = pc[p]
    BY <2>1, <2>2, LeaveElsewhere
  <2> QED BY <1>8, <1>n, <2>3 DEF Die, Stands
<1>9. CASE Tick
  BY <1>9, <1>n DEF Tick, Stands
<1>10. CASE UNCHANGED vars
  BY <1>10, <1>n DEF vars, Stands
<1> QED BY <1>1, <1>2, <1>3, <1>4, <1>5, <1>6, <1>7, <1>8, <1>9, <1>10 DEF Next

(* A rotation begins with its list of names and nothing else.                 *)
LEMMA Begins ==
  ASSUME Typed, [Next]_vars, NEW p \in Rotators,
         pc[p] \notin RotationSteps, pc'[p] \in RotationSteps
  PROVE  Begun(p)
<1> USE Kinds DEF At
<1>a. pc'[p] # pc[p] /\ pc'[p] \notin {"idle", "ended", "refused", "mark", "note", "working"}
  BY DEF RotationSteps
<1>b. ASSUME NEW q \in Rotators, BeginRotation(q), q = p PROVE Begun(p)
  BY <1>b, MoveElsewhere DEF BeginRotation, Begun, Typed
<1>1. ASSUME NEW q \in Rotators, RotationStep(q) PROVE FALSE
  <2>1. pc[q] \in RotationSteps
    BY <1>1 DEF RotationStep, Roll, FileStep, Expire, Gather, Prune, Trim, Rotated,
                RotationFails, RotationSteps
  <2>2. q # p
    BY <2>1
  <2>3. CASE Roll(q) \/ FileStep(q) \/ Prune(q) \/ Trim(q)
    BY <1>a, <2>3 DEF Roll, FileStep, Prune, Trim
  <2>4. CASE Expire(q) \/ Gather(q) \/ Rotated(q)
    BY <1>a, <2>2, <2>4, MoveElsewhere DEF Expire, Gather, Rotated
  <2>5. CASE RotationFails(q)
    BY <1>a, <2>2, <2>5, LeaveElsewhere DEF RotationFails
  <2> QED BY <1>1, <2>3, <2>4, <2>5 DEF RotationStep
<1>2. ASSUME NEW j \in Jobs, WorkerStep(j) PROVE Begun(p)
  <2>1. CASE Launch(j) \/ GiveUp(j)
    BY <1>a, <2>1 DEF Launch, GiveUp
  <2>2. CASE StartWorker(j)
    <3>1. CASE lock = Nobody
      <4>1. BeginRotation(j)
        BY <2>2, <3>1 DEF StartWorker
      <4>2. j = p
        BY <1>a, <4>1, MoveElsewhere DEF BeginRotation
      <4> QED BY <1>b, <4>1, <4>2
    <3>2. CASE lock # Nobody
      BY <1>a, <2>2, <3>2, MoveElsewhere DEF StartWorker
    <3> QED BY <3>1, <3>2
  <2>3. CASE MakeDir(j) \/ WriteMarker(j)
    BY <1>a, <2>3, MoveElsewhere, LeaveElsewhere DEF MakeDir, WriteMarker
  <2>4. CASE FirstRecord(j)
    BY <1>a, <2>4, MoveElsewhere, LeaveElsewhere DEF FirstRecord
  <2>5. CASE EndWorker(j)
    BY <1>a, <2>5, LeaveElsewhere DEF EndWorker
  <2> QED BY <1>2, <2>1, <2>2, <2>3, <2>4, <2>5 DEF WorkerStep
<1>3. CASE Maintain
  <2>1. BeginRotation(Maintainer)
    BY <1>3 DEF Maintain
  <2>2. Maintainer = p
    BY <1>a, <2>1, MoveElsewhere DEF BeginRotation
  <2> QED BY <1>b, <2>1, <2>2
<1>4. CASE MaintainEnds
  BY <1>4, <1>a, LeaveElsewhere DEF MaintainEnds
<1>d. p # Recoverer /\ p # Clearer
  BY ProcessesDistinct DEF Rotators
<1>5. CASE Recover \/ ClearLooks \/ ClearLocks
  BY <1>5, <1>a, <1>d, MoveElsewhere DEF Recover, ClearLooks, ClearLocks
<1>6. CASE Retire
  BY <1>6, <1>a, <1>d, LeaveElsewhere DEF Retire
<1>7. CASE Clear
  BY <1>7, <1>a DEF Clear
<1>8. CASE ClearEnds
  BY <1>8, <1>a, <1>d, LeaveElsewhere DEF ClearEnds
<1>9. ASSUME NEW n \in Logs, FlatStep(n) PROVE FALSE
  BY <1>9, <1>a, FlatLeaves
<1>10. ASSUME NEW q \in Processes, Die(q) PROVE FALSE
  <2>1. AfterAll(q) \in {"ended", "idle"} /\ Leave(q, AfterAll(q))
    BY <1>10, Places DEF Die
  <2> QED BY <1>a, <2>1, LeaveElsewhere
<1>11. CASE Tick \/ UNCHANGED vars
  BY <1>11, <1>a DEF Tick, vars
<1> QED BY <1>1, <1>2, <1>3, <1>4, <1>5, <1>6, <1>7, <1>8, <1>9, <1>10, <1>11 DEF Next, ClearStep

-----------------------------------------------------------------------------
(* The parts of the invariant that speak of all jobs and all logs.            *)

LEMMA LeavesBehind ==
  ASSUME Typed, NEW q \in Processes, Leave(q, AfterAll(q)), NEW j \in Jobs
  PROVE  IF j = q THEN pc'[j] = "ended" ELSE pc'[j] = pc[j]
BY Kinds DEF Leave, Move, Typed, AfterAll

(* One worker's directory and place change, or only its place.                *)
LEMMA OnePlaced ==
  ASSUME Typed, DirPlaced, NEW j \in Jobs, NEW step, pc' = [pc EXCEPT ![j] = step],
         \A k \in Jobs : k # j => dir'[k] = dir[k],
         step \in RotationSteps \cup {"idle", "refused"} => dir'[j].is = "none",
         step = "mark" => dir'[j].is = "bare"
  PROVE  DirPlaced'
BY Kinds DEF DirPlaced, Typed

LEMMA StillPlaced ==
  ASSUME DirPlaced, dir' = dir,
         \A j \in Jobs : \/ pc'[j] = pc[j]
                         \/ pc'[j] \in {"ended", "working", "note"}
                         \/ pc'[j] \in RotationSteps \cup {"idle", "refused"}
                            /\ pc[j] \in RotationSteps \cup {"idle", "refused"}
  PROVE  DirPlaced'
BY DEF DirPlaced, RotationSteps

LEMMA PlacedRotation ==
  ASSUME Typed, WriterHolds, DirPlaced, NEW p \in Rotators, RotationStep(p)
  PROVE  DirPlaced'
<1> USE Kinds DEF At
<1>1. CASE Roll(p) \/ FileStep(p) \/ Trim(p)
  BY <1>1 DEF Roll, FileStep, Trim, DirPlaced
<1>2. CASE Expire(p) \/ Gather(p) \/ Rotated(p)
  <2>1. PICK step \in RotationSteps : pc' = [pc EXCEPT ![p] = step]
    BY <1>2 DEF Expire, Gather, Rotated, Move, RotationSteps
  <2>2. pc[p] \in RotationSteps /\ dir' = dir
    BY <1>2 DEF Expire, Gather, Rotated, RotationSteps
  <2>3. \A j \in Jobs : pc'[j] = IF j = p THEN step ELSE pc[j]
    BY <2>1 DEF Typed
  <2> QED BY <2>1, <2>2, <2>3, StillPlaced
<1>3. CASE Prune(p)
  <2>1. PICK t \in rot[p].infos : dir' = dir \/ dir' = [dir EXCEPT ![t.job] = NoDir]
    BY <1>3 DEF Prune, Oldest
  <2>2. \A j \in Jobs : dir'[j] = dir[j] \/ dir'[j] = NoDir
    BY <2>1 DEF Typed
  <2>3. ASSUME NEW j \in Jobs, pc[j] = "mark" PROVE dir'[j] = dir[j]
    <3>1. FALSE
      BY <1>3, <2>3, Alone DEF Prune, Writing, RotationSteps
    <3> QED BY <3>1
  <2> QED BY <1>3, <2>2, <2>3 DEF Prune, DirPlaced, NoDir
<1>4. CASE RotationFails(p)
  <2>1. dir' = dir /\ Leave(p, AfterAll(p))
    BY <1>4 DEF RotationFails
  <2> QED BY <2>1, LeavesBehind, StillPlaced
<1> QED BY <1>1, <1>2, <1>3, <1>4 DEF RotationStep

LEMMA PlacedWorker ==
  ASSUME Typed, DirPlaced, NEW j \in Jobs, WorkerStep(j)
  PROVE  DirPlaced'
<1> USE Kinds DEF At
<1>1. CASE Launch(j) \/ GiveUp(j)
  BY <1>1 DEF Launch, GiveUp, DirPlaced
<1>2. CASE StartWorker(j)
  <2>1. PICK step \in {"roll", "refused"} : pc' = [pc EXCEPT ![j] = step]
    BY <1>2 DEF StartWorker, BeginRotation, Move
  <2>2. pc[j] = "idle" /\ dir' = dir
    BY <1>2 DEF StartWorker
  <2>3. \A k \in Jobs : pc'[k] = IF k = j THEN step ELSE pc[k]
    BY <2>1 DEF Typed
  <2> QED BY <2>1, <2>2, <2>3, StillPlaced DEF RotationSteps
<1>3. CASE MakeDir(j)
  <2>1. pc' = [pc EXCEPT ![j] = "mark"] /\ dir' = [dir EXCEPT ![j] = [NoDir EXCEPT !.is = "bare"]]
    BY <1>3 DEF MakeDir, Move
  <2>2. dir'[j].is = "bare" /\ \A k \in Jobs : k # j => dir'[k] = dir[k]
    BY <2>1 DEF Typed, NoDir
  <2> QED BY <2>1, <2>2, OnePlaced DEF RotationSteps
<1>4. CASE WriteMarker(j)
  <2>1. \E step \in {"note", "ended"} : pc' = [pc EXCEPT ![j] = step]
    BY <1>4 DEF WriteMarker, Leave, Move
  <2>2. \A k \in Jobs : k # j => dir'[k] = dir[k]
    BY <1>4 DEF WriteMarker, MarkerWritten, Typed
  <2> QED BY <2>1, <2>2, OnePlaced DEF RotationSteps
<1>5. CASE FirstRecord(j)
  <2>1. dir' = dir /\ \A k \in Jobs : k # j => pc'[k] = pc[k]
    BY <1>5 DEF FirstRecord, Leave, Move, Typed
  <2>2. pc'[j] \in {"ended", "working"}
    BY <1>5 DEF FirstRecord, Leave, Move, Typed
  <2> QED BY <2>1, <2>2, StillPlaced
<1>6. CASE EndWorker(j)
  <2>1. pc' = [pc EXCEPT ![j] = "ended"] /\ \A k \in Jobs : k # j => dir'[k] = dir[k]
    BY <1>6 DEF EndWorker, Leave, Move, Typed
  <2> QED BY <2>1, OnePlaced DEF RotationSteps
<1> QED BY <1>1, <1>2, <1>3, <1>4, <1>5, <1>6 DEF WorkerStep

LEMMA PlacedStep ==
  ASSUME Typed, WriterHolds, DirPlaced, [Next]_vars
  PROVE  DirPlaced'
<1> USE Kinds DEF At
<1>k. \A j \in Jobs : j # Maintainer /\ j # Recoverer /\ j # Clearer
  BY ProcessesDistinct DEF Rotators
<1>1. CASE \E p \in Rotators : RotationStep(p)
  BY <1>1, PlacedRotation
<1>2. CASE \E j \in Jobs : WorkerStep(j)
  BY <1>2, PlacedWorker
<1>3. CASE Maintain \/ Recover \/ ClearLooks \/ ClearLocks
  <2>1. dir' = dir /\ \A j \in Jobs : pc'[j] = pc[j]
    BY <1>3, <1>k DEF Maintain, BeginRotation, Recover, ClearLooks, ClearLocks, Move, Typed
  <2> QED BY <2>1, StillPlaced
<1>4. CASE MaintainEnds \/ ClearEnds
  <2>1. dir' = dir /\ \A j \in Jobs : pc'[j] = pc[j]
    BY <1>4, <1>k DEF MaintainEnds, ClearEnds, Leave, Move, Typed
  <2> QED BY <2>1, StillPlaced
<1>5. CASE Retire
  <2>1. CASE Leave(Recoverer, "idle") /\ UNCHANGED <<dir, listed>>
    <3>1. dir' = dir /\ \A j \in Jobs : pc'[j] = pc[j]
      BY <1>k, <2>1 DEF Leave, Move, Typed
    <3> QED BY <3>1, StillPlaced
  <2>2. ASSUME NEW j \in Jobs, dir[j].is = "active",
               dir' = [dir EXCEPT ![j].is = "kept", ![j].mod = now], pc' = pc
        PROVE  DirPlaced'
    <3>1. \A k \in Jobs : k # j => dir'[k] = dir[k]
      BY <2>2 DEF Typed
    <3>2. pc[j] \notin RotationSteps \cup {"idle", "refused", "mark"}
      BY <2>2 DEF DirPlaced
    <3> QED BY <2>2, <3>1, <3>2 DEF DirPlaced
  <2> QED BY <1>5, <2>1, <2>2 DEF Retire
<1>6. CASE Clear
  <2>1. dir' = dir \/ \E j \in Jobs : dir' = [dir EXCEPT ![j] = NoDir]
    BY <1>6 DEF Clear
  <2>2. \A j \in Jobs : dir'[j] = dir[j] \/ dir'[j] = NoDir
    BY <2>1 DEF Typed
  <2>3. ASSUME NEW j \in Jobs, pc[j] = "mark" PROVE FALSE
    BY <1>6, <2>3, Alone DEF Clear, Writing
  <2> QED BY <1>6, <2>2, <2>3 DEF Clear, DirPlaced, NoDir
<1>7. CASE \E n \in Logs : FlatStep(n)
  BY <1>7, FlatLeaves DEF DirPlaced
<1>8. ASSUME NEW q \in Processes, Die(q) PROVE DirPlaced'
  <2>1. dir' = dir /\ Leave(q, AfterAll(q))
    BY <1>8 DEF Die
  <2> QED BY <2>1, LeavesBehind, StillPlaced
<1>9. CASE Tick \/ UNCHANGED vars
  BY <1>9 DEF Tick, vars, DirPlaced
<1> QED BY <1>1, <1>2, <1>3, <1>4, <1>5, <1>6, <1>7, <1>8, <1>9 DEF Next, ClearStep

(* A file that goes leaves the order as it is, and so does one that moves one *)
(* place up, and a line appended now.                                         *)
LEMMA OrderedWithout ==
  ASSUME Typed, Ordered, NEW n \in Logs, NEW g \in Generations,
         log' = [log EXCEPT ![n][g] = Absent], now' = now
  PROVE  Ordered'
<1>1. \A m \in Logs, h \in Generations : log'[m][h] = IF m = n /\ h = g THEN Absent ELSE log[m][h]
  BY DEF Typed
<1>2. \A m \in Logs, h \in 0 .. KeepLogs : log[m][h] \in LogFile /\ h \in Generations
  BY Constants DEF Typed
<1>3. Absent.size = 0 /\ Absent.mod = 0 /\ now \in Nat
  BY Constants DEF Absent, Typed
<1>4. ASSUME NEW m \in Logs, NEW h \in 0 .. KeepLogs
      PROVE  h \in Generations /\ (log'[m][h] = log[m][h] \/ log'[m][h] = Absent)
  BY <1>1, <1>2
<1>5. ASSUME NEW m \in Logs, NEW h \in 0 .. KeepLogs PROVE log'[m][h].mod <= now'
  BY <1>3, <1>4 DEF Ordered
<1>6. ASSUME NEW m \in Logs, NEW h \in 0 .. KeepLogs, NEW k \in 0 .. KeepLogs, h < k,
             log'[m][h].size > 0, log'[m][k].size > 0
      PROVE  log'[m][k].mod <= log'[m][h].mod
  <2>1. log'[m][h] = log[m][h] /\ log'[m][k] = log[m][k]
    BY <1>3, <1>4, <1>6
  <2> QED BY <1>6, <2>1 DEF Ordered, IsLog
<1> QED BY <1>5, <1>6 DEF Ordered, IsLog

LEMMA OrderedMoved ==
  ASSUME Typed, Ordered, NEW n \in Logs, NEW g \in Generations \ {0}, now' = now,
         \A m \in Logs, h \in Generations :
           log'[m][h] = IF m = n /\ h = g - 1 THEN Absent
                        ELSE IF m = n /\ h = g THEN log[m][g - 1] ELSE log[m][h]
  PROVE  Ordered'
<1>0. g - 1 \in 0 .. KeepLogs /\ g \in 1 .. KeepLogs + 1 /\ g \in Int
      /\ KeepLogs \in Nat /\ 0 .. KeepLogs \subseteq Generations
  BY Constants
<1>3. Absent.size = 0 /\ Absent.mod = 0 /\ now \in Nat
  BY Constants DEF Absent, Typed
<1>4. ASSUME NEW m \in Logs, NEW h \in 0 .. KeepLogs
      PROVE  /\ m = n /\ h = g - 1 => log'[m][h] = Absent
             /\ m = n /\ h = g => log'[m][h] = log[m][g - 1]
             /\ m # n \/ h \notin {g, g - 1} => log'[m][h] = log[m][h]
  <2>1. h \in Generations /\ g # g - 1
    BY <1>0
  <2> QED BY <2>1
<1>5. ASSUME NEW m \in Logs, NEW h \in 0 .. KeepLogs PROVE log'[m][h].mod <= now'
  <2>1. \/ log'[m][h] = Absent \/ log'[m][h] = log[m][h] \/ log'[m][h] = log[m][g - 1]
    BY <1>4
  <2> QED BY <1>0, <1>3, <2>1 DEF Ordered
<1>6. ASSUME NEW m \in Logs, NEW h \in 0 .. KeepLogs, NEW k \in 0 .. KeepLogs, h < k,
             log'[m][h].size > 0, log'[m][k].size > 0
      PROVE  log'[m][k].mod <= log'[m][h].mod
  <2> DEFINE From(x) == IF m = n /\ x = g THEN g - 1 ELSE x
  <2>1. ASSUME NEW x \in 0 .. KeepLogs, log'[m][x].size > 0
        PROVE  log'[m][x] = log[m][From(x)] /\ ~(m = n /\ x = g - 1)
    BY <1>3, <1>4, <2>1
  <2>2. From(h) \in 0 .. KeepLogs /\ From(k) \in 0 .. KeepLogs /\ From(h) < From(k)
    BY <1>0, <1>6, <2>1
  <2>3. log'[m][h] = log[m][From(h)] /\ log'[m][k] = log[m][From(k)]
    BY <1>6, <2>1
  <2> HIDE DEF From
  <2> QED BY <1>6, <2>2, <2>3 DEF Ordered, IsLog
<1> QED BY <1>5, <1>6 DEF Ordered, IsLog

LEMMA OrderedMovedUp ==
  ASSUME Typed, Ordered, NEW n \in Logs, NEW g \in Generations \ {0}, now' = now,
         log' = MovedUp(n, g)
  PROVE  Ordered'
<1>1. CASE ~IsLog(n, g - 1)
  <2>1. log' = log
    BY <1>1, MovesUp
  <2> QED BY <2>1 DEF Ordered, IsLog
<1>2. CASE IsLog(n, g - 1)
  BY <1>2, MovesUp, OrderedMoved
<1> QED BY <1>1, <1>2

LEMMA OrderedRotation ==
  ASSUME Typed, Ordered, NEW p \in Rotators, RotationStep(p)
  PROVE  Ordered'
<1> USE Kinds DEF At
<1>0. rot[p] \in Rotation
  BY DEF Typed
<1>1. CASE FileStep(p)
  <2>1. rot[p].ops \in Seq(Op) /\ rot[p].ops # <<>>
    BY <1>0, <1>1 DEF FileStep, Rotation
  <2> DEFINE op == rot[p].ops[1]
  <2>2. op \in Op /\ op = Head(rot[p].ops) /\ 1 \in 1 .. Len(rot[p].ops)
    BY <2>1, TailOps
  <2>4. log' = IF op.do = "remove" THEN [log EXCEPT ![op.name][op.to] = Absent]
               ELSE MovedUp(op.name, op.to)
    BY <1>1, <2>2 DEF FileStep
  <2>5. now' = now
    BY <1>1 DEF FileStep
  <2>6. op.name \in Logs /\ op.to \in Generations \ {0}
    BY <2>2 DEF Op
  <2> HIDE DEF op
  <2> QED BY <2>4, <2>5, <2>6, OrderedWithout, OrderedMovedUp
<1>2. CASE Trim(p)
  <2>1. PICK f \in rot[p].files : log' = [log EXCEPT ![f.name][f.gen] = Absent]
    BY <1>2 DEF Trim, Oldest
  <2>2. f \in File
    BY <1>0, <2>1 DEF Rotation
  <2>3. f.name \in Logs /\ f.gen \in Generations
    BY <2>2, Constants DEF File
  <2> QED BY <1>2, <2>1, <2>3, OrderedWithout DEF Trim
<1>3. CASE Roll(p) \/ Expire(p) \/ Gather(p) \/ Prune(p) \/ Rotated(p) \/ RotationFails(p)
  BY <1>3 DEF Roll, Expire, Gather, Prune, Rotated, RotationFails, Ordered, IsLog
<1> QED BY <1>1, <1>2, <1>3 DEF RotationStep

LEMMA OrderedFlat ==
  ASSUME Typed, Ordered, NEW n \in Logs, FlatStep(n)
  PROVE  Ordered'
<1>g. 0 \in Generations /\ 1 \in Generations \ {0} /\ 2 \in Generations \ {0}
  BY Constants
<1>n. now' = now /\ now \in Int
  BY FlatLeaves, Constants DEF Typed
<1>1. CASE AppendLog(n)
  <2>1. \A m \in Logs, h \in Generations :
          log'[m][h] = IF m = n /\ h = 0 THEN [size |-> log[n][0].size + 1, mod |-> now]
                       ELSE log[m][h]
    BY <1>1, <1>g DEF AppendLog, Typed
  <2>2. \A m \in Logs, h \in 0 .. KeepLogs : log[m][h] \in LogFile /\ h \in Generations
    BY Constants DEF Typed
  <2> QED BY <1>n, <2>1, <2>2 DEF Ordered, IsLog
<1>2. CASE FlatLooks(n) \/ FlatStops(n)
  BY <1>2, <1>n DEF FlatLooks, FlatStops, Ordered, IsLog
<1>3. CASE FlatUnlinks(n)
  BY <1>3, <1>g, <1>n, OrderedWithout DEF FlatUnlinks
<1>4. CASE FlatShifts(n)
  BY <1>4, <1>g, <1>n, OrderedMovedUp DEF FlatShifts
<1>5. CASE FlatMoves(n)
  BY <1>5, <1>g, <1>n, OrderedMovedUp DEF FlatMoves
<1> QED BY <1>1, <1>2, <1>3, <1>4, <1>5 DEF FlatStep

LEMMA OrderedStep ==
  ASSUME Typed, Ordered, [Next]_vars
  PROVE  Ordered'
<1>1. CASE \E p \in Rotators : RotationStep(p)
  BY <1>1, OrderedRotation
<1>2. ASSUME NEW n \in Logs, FlatStep(n) PROVE Ordered'
  BY <1>2, OrderedFlat
<1>3. CASE ClearStep
  <2>1. ASSUME NEW n \in Logs, NEW g \in Generations, log' = [log EXCEPT ![n][g] = Absent]
        PROVE  Ordered'
    BY <1>3, <2>1, OrderedWithout DEF ClearStep, ClearLooks, ClearLocks, Clear, ClearEnds
  <2>2. CASE UNCHANGED log
    BY <1>3, <2>2 DEF ClearStep, ClearLooks, ClearLocks, Clear, ClearEnds, Ordered, IsLog
  <2> QED BY <1>3, <2>1, <2>2 DEF ClearStep, ClearLooks, ClearLocks, Clear, ClearEnds
<1>4. CASE Tick
  <2>1. \A m \in Logs, h \in 0 .. KeepLogs : log[m][h] \in LogFile
    BY Constants DEF Typed
  <2>2. now' = now + 1 /\ now \in Int /\ log' = log
    BY <1>4, Constants DEF Tick, Typed
  <2>3. \A m \in Logs, h \in 0 .. KeepLogs : log[m][h].mod \in Int
    BY <2>1, Constants DEF LogFile
  <2> QED BY <2>2, <2>3 DEF Ordered, IsLog
<1>5. CASE \/ \E j \in Jobs : WorkerStep(j)
           \/ Maintain \/ MaintainEnds \/ Recover \/ Retire
           \/ \E p \in Processes : Die(p)
           \/ UNCHANGED vars
  <2>1. log' = log /\ now' = now
    BY <1>5 DEF WorkerStep, Launch, GiveUp, StartWorker, MakeDir, WriteMarker, FirstRecord,
                EndWorker, Maintain, MaintainEnds, Recover, Retire, Die, vars
  <2> QED BY <2>1 DEF Ordered, IsLog
<1> QED BY <1>1, <1>2, <1>3, <1>4, <1>5 DEF Next

-----------------------------------------------------------------------------
(* The parts that speak of one rotation.                                      *)

LEMMA StepPlace ==
  ASSUME Typed, NEW p \in Rotators, RotationStep(p)
  PROVE  /\ pc[p] \in RotationSteps
         /\ pc'[p] = "roll" => pc[p] = "roll" /\ (Roll(p) \/ FileStep(p))
         /\ pc'[p] = "expire" => Expire(p) \/ (pc[p] = "expire" /\ FileStep(p))
         /\ pc'[p] = "prune" => Gather(p) \/ Prune(p) \/ Trim(p)
         /\ pc'[p] = "rotated" => Rotated(p)
<1> USE Kinds DEF At
<1>1. CASE Roll(p)
  BY <1>1 DEF Roll, RotationSteps
<1>2. CASE FileStep(p)
  BY <1>2 DEF FileStep, RotationSteps
<1>3. CASE Expire(p)
  BY <1>3, MoveElsewhere DEF Expire, RotationSteps
<1>4. CASE Gather(p)
  <2>1. pc[p] = "expire" /\ Move(p, "prune")
    BY <1>4 DEF Gather
  <2> QED BY <1>4, <2>1, MoveElsewhere DEF RotationSteps
<1>5. CASE Prune(p)
  BY <1>5 DEF Prune, RotationSteps
<1>6. CASE Trim(p)
  BY <1>6 DEF Trim, RotationSteps
<1>7. CASE Rotated(p)
  BY <1>7, MoveElsewhere DEF Rotated, RotationSteps
<1>8. CASE RotationFails(p)
  <2>1. pc'[p] = AfterAll(p) /\ AfterAll(p) \in {"ended", "idle"}
    BY <1>8, LeaveElsewhere, Places DEF RotationFails
  <2> QED BY <1>8, <2>1 DEF RotationFails
<1> QED BY <1>1, <1>2, <1>3, <1>4, <1>5, <1>6, <1>7, <1>8 DEF RotationStep

LEMMA ChainedTail ==
  ASSUME NEW ops \in Seq(Op), ops # <<>>, Chained(ops)
  PROVE  Chained(Tail(ops))
<1>1. /\ Len(Tail(ops)) = Len(ops) - 1 /\ Len(ops) \in Nat /\ Len(ops) > 0
      /\ \A i \in 1 .. Len(Tail(ops)) : Tail(ops)[i] = ops[i + 1]
  BY TailOps
<1>2. ASSUME NEW i \in 1 .. Len(Tail(ops)) PROVE Tail(ops)[i].to <= KeepLogs
  BY <1>1 DEF Chained
<1>3. ASSUME NEW i \in 1 .. Len(Tail(ops)) - 1
      PROVE  Tail(ops)[i + 1] = [do |-> IF Tail(ops)[i].do = "remove" THEN "move" ELSE "remove",
                                 name |-> Tail(ops)[i].name,
                                 to |-> IF Tail(ops)[i].do = "remove" THEN Tail(ops)[i].to
                                        ELSE Tail(ops)[i].to - 1]
  <2>1. Tail(ops)[i] = ops[i + 1] /\ Tail(ops)[i + 1] = ops[(i + 1) + 1]
    BY <1>1
  <2>2. i + 1 \in 1 .. Len(ops) - 1
    BY <1>1
  <2> QED BY <2>1, <2>2 DEF Chained
<1> QED BY <1>2, <1>3 DEF Chained

LEMMA RollsStep ==
  ASSUME Typed, NEW p \in Rotators, Rolls(p),
         (RotationStep(p) /\ UNCHANGED now) \/ Stands(p) \/ Begun(p)
  PROVE  Rolls(p)'
<1> USE Kinds DEF At
<1>0. rot[p] \in Rotation
  BY DEF Typed
<1>1. CASE Begun(p)
  BY <1>1 DEF Begun, Rolls, NoRotation, Chained
<1>2. CASE Stands(p)
  <2>1. SUFFICES ASSUME pc[p] = "roll" PROVE Rolls(p)'
    BY <1>2 DEF Rolls, Stands
  <2> DEFINE op == rot[p].ops[1]
  <2>2. Len(rot[p].ops) > 0 => op \in Op
    BY <1>0 DEF Rotation
  <2>3. Len(rot[p].ops) > 0 /\ op.name \notin crossed' => log'[op.name][op.to] = log[op.name][op.to]
    BY <1>2, <2>2 DEF Stands, Op
  <2>4. Chained(rot[p].ops) /\ rot'[p] = rot[p]
    BY <1>2, <2>1 DEF Rolls, Stands
  <2>6. crossed \subseteq crossed'
    BY <1>2 DEF Stands
  <2> HIDE DEF op
  <2>5. Len(rot[p].ops) > 0 =>
          \/ op.name \in crossed'
          \/ ~(log'[op.name][op.to].size > 0) \/ (op.do = "remove" /\ op.to = KeepLogs)
    BY <2>1, <2>3, <2>6 DEF Rolls, IsLog, op
  <2> QED BY <2>4, <2>5 DEF Rolls, IsLog, op
<1>3. CASE RotationStep(p)
  <2>1. SUFFICES ASSUME pc'[p] = "roll" PROVE Rolls(p)'
    BY DEF Rolls
  <2>2. pc[p] = "roll" /\ (Roll(p) \/ FileStep(p))
    BY <1>3, <2>1, StepPlace
  <2>3. CASE Roll(p)
    <3>1. PICK n \in rot[p].names :
            rot' = [rot EXCEPT ![p].names = @ \ {n},
                               ![p].ops = IF log[n][0].size > PerFile THEN RollOps(n) ELSE <<>>]
      BY <2>3 DEF Roll
    <3>2. n \in Logs /\ rot'[p].ops = IF log[n][0].size > PerFile THEN RollOps(n) ELSE <<>>
      BY <1>0, <3>1 DEF Typed, Rotation
    <3>3. Chained(RollOps(n)) /\ RollOps(n)[1] = [do |-> "remove", name |-> n, to |-> KeepLogs]
      BY <3>2, RollOpsAre
    <3>4. CASE log[n][0].size > PerFile
      BY <3>2, <3>3, <3>4 DEF Rolls
    <3>5. CASE ~(log[n][0].size > PerFile)
      BY <3>2, <3>5 DEF Rolls, Chained
    <3> QED BY <3>4, <3>5
  <2>4. CASE FileStep(p)
    <3> DEFINE ops == rot[p].ops
               op == ops[1]
    <3>1. ops \in Seq(Op) /\ ops # <<>> /\ rot'[p].ops = Tail(ops)
      BY <1>0, <2>4 DEF FileStep, Typed, Rotation
    <3>2. /\ Len(Tail(ops)) = Len(ops) - 1 /\ Len(ops) \in Nat /\ Len(ops) > 0
          /\ \A i \in 1 .. Len(Tail(ops)) : Tail(ops)[i] = ops[i + 1]
          /\ op = Head(ops) /\ op \in Op
      BY <3>1, TailOps
    <3>3. Chained(ops)
      BY <2>2 DEF Rolls
    <3>4. Chained(Tail(ops))
      BY <3>1, <3>3, ChainedTail
    <3>5. log' = IF op.do = "remove" THEN [log EXCEPT ![op.name][op.to] = Absent]
                 ELSE MovedUp(op.name, op.to)
      BY <2>4, <3>2 DEF FileStep
    <3>6. /\ op.name \in Logs /\ op.to \in Generations \ {0} /\ op.do \in {"remove", "move"}
          /\ op.to - 1 \in Generations
      <4>1. op \in Op
        BY <3>2
      <4> HIDE DEF op
      <4>2. op.name \in Logs /\ op.to \in Generations \ {0} /\ op.do \in {"remove", "move"}
        BY <4>1 DEF Op
      <4>3. \A g \in Generations \ {0} : g - 1 \in Generations
        BY Constants
      <4> QED BY <4>2, <4>3
    <3>7. op.do = "remove" => log'[op.name][op.to].size = 0
      BY <3>5, <3>6 DEF Typed, Absent
    <3>8. op.do = "move" => ~(log'[op.name][op.to - 1].size > 0)
      <4> HIDE DEF op
      <4>1. CASE op.do = "move" /\ IsLog(op.name, op.to - 1)
        <5>1. log'[op.name][op.to - 1] = Absent
          BY <3>5, <3>6, <4>1, MovesUp
        <5> QED BY <5>1 DEF Absent
      <4>2. CASE op.do = "move" /\ ~IsLog(op.name, op.to - 1)
        BY <3>5, <3>6, <4>2, MovesUp DEF IsLog
      <4> QED BY <4>1, <4>2
    <3>9. ASSUME Len(Tail(ops)) > 0
          PROVE  ~(log'[Tail(ops)[1].name][Tail(ops)[1].to].size > 0)
      <4>1. Tail(ops)[1] = ops[2] /\ 1 \in 1 .. Len(ops) - 1
        BY <3>2, <3>9
      <4>2. ops[1 + 1] = [do |-> IF op.do = "remove" THEN "move" ELSE "remove", name |-> op.name,
                      to |-> IF op.do = "remove" THEN op.to ELSE op.to - 1]
        BY <3>3, <4>1 DEF Chained
      <4> HIDE DEF ops, op
      <4> QED BY <3>6, <3>7, <3>8, <4>1, <4>2
    <3> HIDE DEF ops
    <3> QED BY <3>1, <3>4, <3>9 DEF Rolls, IsLog
  <2> QED BY <2>2, <2>3, <2>4
<1> QED BY <1>1, <1>2, <1>3

LEMMA StillLess == \A a, b, c, r \in Int : a < b - r /\ b <= c => a < c - r
OBVIOUS

LEMMA ExpiresStep ==
  ASSUME Typed, Typed', NEW p \in Rotators, Expires(p),
         (RotationStep(p) /\ UNCHANGED now) \/ Stands(p) \/ Begun(p)
  PROVE  Expires(p)'
<1> USE Kinds DEF At
<1>0. rot[p] \in Rotation /\ now \in Int /\ now' \in Int
  BY Constants DEF Typed
<1>1. CASE Begun(p)
  BY <1>1 DEF Begun, Expires
<1>t. \A i \in 1 .. Len(rot[p].ops) : rot[p].ops[i] \in Op
  BY <1>0 DEF Rotation
<1>g. KeepLogs + 1 \in Generations \ {0}
  BY Constants
<1>2. CASE Stands(p)
  <2>1. SUFFICES ASSUME pc[p] = "expire" PROVE Expires(p)'
    BY <1>2 DEF Expires, Stands
  <2>2. rot'[p] = rot[p] /\ pc'[p] = "expire" /\ now <= now' /\ now' \in Int
    BY <1>2, <2>1, <1>0 DEF Stands
  <2>3. ASSUME NEW n \in Logs \ crossed', NEW g \in Generations \ {0} PROVE log'[n][g] = log[n][g]
    BY <1>2 DEF Stands
  <2>x. crossed \subseteq crossed'
    BY <1>2 DEF Stands
  <2>4. ASSUME NEW n \in Logs, NEW g \in Generations \ {0} PROVE log[n][g].mod \in Int
    BY Constants, SMTT(30) DEF Typed, LogFile
  <2>5. ASSUME NEW i \in 1 .. Len(rot[p].ops)
        PROVE  LET op == rot[p].ops[i]
               IN  /\ op.do = "remove"
                   /\ op.name \notin crossed' /\ op.to <= KeepLogs /\ log'[op.name][op.to].size > 0
                        => log'[op.name][op.to].mod < now' - Retention
    <3> DEFINE op == rot[p].ops[i]
    <3>1. op.name \in Logs /\ op.to \in Generations \ {0}
      BY <1>t DEF Op
    <3>2. /\ op.do = "remove"
          /\ op.name \notin crossed /\ op.to <= KeepLogs /\ IsLog(op.name, op.to)
               => Expired(log[op.name][op.to].mod)
      BY <2>1 DEF Expires
    <3>3. /\ op.name \notin crossed' => log'[op.name][op.to] = log[op.name][op.to]
          /\ log[op.name][op.to].mod \in Int
      BY <2>3, <2>4, <3>1
    <3> HIDE DEF op
    <3>4. op.name \notin crossed' /\ op.to <= KeepLogs /\ log'[op.name][op.to].size > 0
            => log'[op.name][op.to].mod < now' - Retention
      <4> SUFFICES ASSUME op.name \notin crossed', op.to <= KeepLogs,
                          log'[op.name][op.to].size > 0
                   PROVE  log'[op.name][op.to].mod < now' - Retention
        OBVIOUS
      <4>1. log[op.name][op.to].mod < now - Retention
        BY <2>x, <3>2, <3>3 DEF Expired, IsLog
      <4>2. log'[op.name][op.to].mod = log[op.name][op.to].mod
        BY <3>3
      <4>3. log[op.name][op.to].mod < now' - Retention
        <5>1. log[op.name][op.to].mod \in Int /\ now \in Int /\ now' \in Int /\ Retention \in Int
          BY <1>0, <3>3, Constants
        <5> QED BY <2>2, <4>1, <5>1, StillLess, Zenon
      <4> QED BY <4>2, <4>3
    <3> QED BY <3>2, <3>4 DEF op
  <2>6. ASSUME NEW n \in Logs \ crossed', log'[n][KeepLogs + 1].size > 0
        PROVE  \E i \in 1 .. Len(rot[p].ops) :
                 rot[p].ops[i] = [do |-> "remove", name |-> n, to |-> KeepLogs + 1]
    <3>1. IsLog(n, KeepLogs + 1) /\ n \notin crossed
      BY <1>g, <2>3, <2>6, <2>x DEF IsLog
    <3> QED BY <2>1, <2>6, <3>1 DEF Expires
  <2> QED BY <2>2, <2>5, <2>6 DEF Expires, IsLog, Expired
<1>3. CASE RotationStep(p) /\ UNCHANGED now
  <2>1. SUFFICES ASSUME pc'[p] = "expire" PROVE Expires(p)'
    BY DEF Expires
  <2>2. Expire(p) \/ (pc[p] = "expire" /\ FileStep(p))
    BY <1>3, <2>1, StepPlace
  <2>3. CASE Expire(p)
    <3> DEFINE set == {[do |-> "remove", name |-> f[1], to |-> f[2]] : f \in Superfluous}
               ops == SetToSeq(set)
    <3>1. rot'[p].ops = ops /\ log' = log
      BY <2>3 DEF Expire, Typed, Rotation
    <3>2. IsFiniteSet(set)
      BY SuperfluousFinite
    <3>3. ops \in Seq(set) /\ \A x \in set : \E i \in 1 .. Len(ops) : ops[i] = x
      <4> HIDE DEF set
      <4> QED BY <3>2, SequenceOfSet
    <3>4. ASSUME NEW i \in 1 .. Len(ops)
          PROVE  /\ ops[i].do = "remove"
                 /\ ops[i].to <= KeepLogs /\ IsLog(ops[i].name, ops[i].to)
                      => Expired(log[ops[i].name][ops[i].to].mod)
      <4>1. ops[i] \in set
        <5> HIDE DEF set, ops
        <5> QED BY <3>3
      <4>2. PICK f \in Superfluous : ops[i] = [do |-> "remove", name |-> f[1], to |-> f[2]]
        <5> HIDE DEF ops
        <5> QED BY <4>1
      <4>3. f[2] > KeepLogs \/ Expired(log[f[1]][f[2]].mod)
        BY DEF Superfluous
      <4>4. f[2] \in Int /\ KeepLogs \in Int
        BY Constants DEF Superfluous
      <4> HIDE DEF ops, set
      <4> QED BY <4>2, <4>3, <4>4
    <3>5. ASSUME NEW n \in Logs, IsLog(n, KeepLogs + 1)
          PROVE  \E i \in 1 .. Len(ops) :
                   ops[i] = [do |-> "remove", name |-> n, to |-> KeepLogs + 1]
      <4>1. <<n, KeepLogs + 1>> \in Superfluous
        BY <1>g, <3>5, Constants DEF Superfluous
      <4>2. [do |-> "remove", name |-> n, to |-> KeepLogs + 1] \in set
        BY <4>1
      <4> HIDE DEF set, ops
      <4> QED BY <3>3, <4>2
    <3> HIDE DEF ops
    <3> QED BY <1>3, <3>1, <3>4, <3>5 DEF Expires, IsLog, Expired
  <2>4. CASE pc[p] = "expire" /\ FileStep(p)
    <3> DEFINE ops == rot[p].ops
               op == ops[1]
    <3>1. ops \in Seq(Op) /\ ops # <<>> /\ rot'[p].ops = Tail(ops)
      BY <1>0, <2>4 DEF FileStep, Typed, Rotation
    <3>2. /\ Len(Tail(ops)) = Len(ops) - 1 /\ Len(ops) \in Nat /\ Len(ops) > 0
          /\ \A i \in 1 .. Len(Tail(ops)) : Tail(ops)[i] = ops[i + 1]
          /\ op = Head(ops) /\ op \in Op /\ 1 \in 1 .. Len(ops)
      BY <3>1, TailOps
    <3>3. op.do = "remove" /\ op.name \in Logs /\ op.to \in Generations
      BY <2>4, <3>2 DEF Expires, Op
    <3>4. log' = [log EXCEPT ![op.name][op.to] = Absent]
      BY <2>4, <3>2, <3>3 DEF FileStep
    <3>5. ASSUME NEW n \in Logs, NEW g \in Generations, log'[n][g].size > 0
          PROVE  log'[n][g] = log[n][g] /\ ~(n = op.name /\ g = op.to)
      <4> HIDE DEF op
      <4> QED BY <3>3, <3>4, <3>5 DEF Typed, Absent
    <3> HIDE DEF op
    <3>6. ASSUME NEW i \in 1 .. Len(Tail(ops))
          PROVE  LET o == Tail(ops)[i]
                 IN  /\ o.do = "remove"
                     /\ o.name \notin crossed' /\ o.to <= KeepLogs /\ log'[o.name][o.to].size > 0
                          => log'[o.name][o.to].mod < now' - Retention
      <4> DEFINE o == ops[i + 1]
      <4>1. Tail(ops)[i] = o /\ i + 1 \in 1 .. Len(ops)
        BY <3>2
      <4>2. o.name \in Logs /\ o.to \in Generations
        BY <4>1, <1>t DEF Op
      <4>3. /\ o.do = "remove"
            /\ o.name \notin crossed /\ o.to <= KeepLogs /\ IsLog(o.name, o.to)
                 => Expired(log[o.name][o.to].mod)
        BY <2>4, <4>1 DEF Expires
      <4> HIDE DEF o
      <4>4. log'[o.name][o.to].size > 0 => log'[o.name][o.to] = log[o.name][o.to]
        BY <3>5, <4>2
      <4>5. crossed' = crossed
        BY <2>4 DEF FileStep
      <4> QED BY <1>3, <4>1, <4>3, <4>4, <4>5 DEF IsLog, Expired
    <3>7. ASSUME NEW n \in Logs \ crossed', log'[n][KeepLogs + 1].size > 0
          PROVE  \E i \in 1 .. Len(Tail(ops)) :
                   Tail(ops)[i] = [do |-> "remove", name |-> n, to |-> KeepLogs + 1]
      <4>1. log'[n][KeepLogs + 1] = log[n][KeepLogs + 1] /\ ~(n = op.name /\ KeepLogs + 1 = op.to)
        BY <1>g, <3>5, <3>7
      <4>0. n \notin crossed
        BY <2>4, <3>7 DEF FileStep
      <4>2. PICK i \in 1 .. Len(ops) : ops[i] = [do |-> "remove", name |-> n, to |-> KeepLogs + 1]
        BY <2>4, <3>7, <4>0, <4>1 DEF Expires, IsLog
      <4>3. i # 1
        BY <4>1, <4>2 DEF op
      <4>4. i - 1 \in 1 .. Len(Tail(ops)) /\ Tail(ops)[i - 1] = ops[(i - 1) + 1] /\ (i - 1) + 1 = i
        BY <3>2, <4>3
      <4> QED BY <4>2, <4>4
    <3> HIDE DEF ops
    <3> QED BY <3>1, <3>6, <3>7 DEF Expires, IsLog, Expired
  <2> QED BY <2>2, <2>3, <2>4
<1> QED BY <1>1, <1>2, <1>3

(* What a rotation counted of the files, as a number.                         *)
LEMMA FileSumTyped ==
  ASSUME NEW A, IsFiniteSet(A), A \subseteq File
  PROVE  SumFunctionOnSet(FileSizes, A) \in Nat
<1>1. \A f \in A : FileSizes[f] \in Nat
  BY Constants DEF FileSizes, File
<1> QED BY <1>1, SumNat

(* The files it counted are there as long as neither they nor the logs known  *)
(* to be rolled change.                                                       *)
LEMMA FilesAsBefore ==
  ASSUME NEW p \in Rotators, CountedFiles(p) = {FileOf(f) : f \in Uncrossed},
         rot'[p].files = rot[p].files, crossed \subseteq crossed',
         \A n \in Logs \ crossed', g \in Generations \ {0} : log'[n][g] = log[n][g]
  PROVE  CountedFiles(p)' = {FileOf(f) : f \in Uncrossed}'
<1>1. ASSUME NEW f \in Logs \X (Generations \ {0}), f[1] \notin crossed'
      PROVE  /\ f \in Uncrossed' <=> f \in Uncrossed
             /\ FileOf(f)' = FileOf(f) /\ FileOf(f).name = f[1]
  <2>1. log'[f[1]][f[2]] = log[f[1]][f[2]] /\ f[1] \notin crossed
    BY <1>1
  <2> QED BY <1>1, <2>1 DEF Uncrossed, Rolled, IsLog, FileOf
<1>2. Uncrossed \subseteq Logs \X (Generations \ {0}) /\ Uncrossed' \subseteq Logs \X (Generations \ {0})
  BY DEF Uncrossed, Rolled
<1>3. ASSUME NEW r \in CountedFiles(p)' PROVE r \in {FileOf(f) : f \in Uncrossed}'
  <2>1. r \in CountedFiles(p) /\ r.name \notin crossed'
    BY <1>3 DEF CountedFiles
  <2>2. PICK f \in Uncrossed : r = FileOf(f)
    BY <2>1
  <2>3. f[1] \notin crossed'
    BY <2>1, <2>2 DEF FileOf
  <2> QED BY <1>1, <1>2, <2>2, <2>3
<1>4. ASSUME NEW r \in {FileOf(f) : f \in Uncrossed}' PROVE r \in CountedFiles(p)'
  <2>1. PICK f \in Uncrossed' : r = FileOf(f)'
    BY <1>4
  <2>2. f[1] \notin crossed'
    BY DEF Uncrossed
  <2>3. f \in Uncrossed /\ r = FileOf(f) /\ r.name = f[1]
    BY <1>1, <1>2, <2>1, <2>2
  <2>4. r \in CountedFiles(p)
    BY <2>3
  <2> QED BY <2>2, <2>3, <2>4 DEF CountedFiles
<1> QED BY <1>3, <1>4

LEMMA PrunesStands ==
  ASSUME Typed, Typed', NEW p \in Rotators, Prunes(p), Stands(p)
  PROVE  Prunes(p)'
<1>1. SUFFICES ASSUME pc[p] \in {"prune", "rotated"} PROVE Prunes(p)'
  BY DEF Prunes, Stands
<1>2. /\ rot'[p] = rot[p] /\ pc'[p] = pc[p] /\ dir' = dir /\ now <= now'
      /\ Dirs' = Dirs /\ DirSizes' = DirSizes /\ \A j \in Jobs : InfoOf(j)' = InfoOf(j)
  BY DEF Stands, Dirs, DirSizes, InfoOf
<1>6. Counts(p) /\ Spared(p)
  BY <1>1 DEF Prunes
<1>7. Counts(p)'
  <2>2. rot[p].cutoff <= now' - Retention
    <3>1. rot[p].cutoff \in Int /\ now \in Int /\ now' \in Int /\ Retention \in Int
      BY Constants DEF Typed, Rotation
    <3> QED BY <1>2, <1>6, <3>1 DEF Counts
  <2>3. CountedFiles(p)' = {FileOf(f) : f \in Uncrossed}'
    BY <1>2, <1>6, FilesAsBefore DEF Counts, Stands
  <2>4. {InfoOf(j) : j \in Dirs}' = {InfoOf(j) : j \in Dirs}
    BY <1>2 DEF Dirs
  <2> QED BY <1>2, <1>6, <2>2, <2>3, <2>4 DEF Counts
<1>8. Spared(p)'
  BY <1>2, <1>6 DEF Spared, Dirs
<1> QED BY <1>1, <1>2, <1>7, <1>8 DEF Prunes

LEMMA FilesGathered ==
  ASSUME Typed, NEW A, A \subseteq Rolled, \A f \in A : f[2] <= KeepLogs
  PROVE  /\ IsFiniteSet({FileOf(f) : f \in A}) /\ {FileOf(f) : f \in A} \subseteq File
         /\ SumFunctionOnSet(FileSizes, {FileOf(f) : f \in A}) = SumFunctionOnSet(LogSizes, A)
<1> DEFINE F == [f \in A |-> FileOf(f)]
<1>1. ASSUME NEW f \in A
      PROVE  /\ f \in Logs \X Generations /\ FileOf(f) \in File
             /\ FileOf(f).size = LogSizes[f] /\ LogSizes[f] \in Int
             /\ f = <<FileOf(f).name, FileOf(f).gen>>
  <2>1. /\ f[1] \in Logs /\ f[2] \in 1 .. KeepLogs /\ f[2] \in Generations /\ IsLog(f[1], f[2])
        /\ f \in Logs \X Generations /\ f = <<f[1], f[2]>>
    BY Constants DEF Rolled
  <2>2. log[f[1]][f[2]] \in LogFile
    BY <2>1 DEF Typed
  <2>3. log[f[1]][f[2]].mod \in 0 .. MaxTime /\ log[f[1]][f[2]].size \in 1 .. PerFile + 1
    BY <2>1, <2>2, Constants DEF LogFile, IsLog
  <2>4. FileOf(f) \in File
    BY <2>1, <2>3 DEF File, FileOf
  <2> QED BY <2>1, <2>4, SizesTyped DEF FileOf, LogSizes
<1>2. IsFiniteSet(A)
  BY SetsFinite, FS_Subset
<1>3. \A x, y \in A : F[x] = F[y] => x = y
  BY <1>1
<1>4. \A x \in A : LogSizes[x] \in Int /\ FileSizes[F[x]] = LogSizes[x]
  BY <1>1 DEF FileSizes
<1>5. {F[x] : x \in A} = {FileOf(f) : f \in A}
  OBVIOUS
<1> HIDE DEF F
<1>6. /\ IsFiniteSet({F[x] : x \in A})
      /\ SumFunctionOnSet(FileSizes, {F[x] : x \in A}) = SumFunctionOnSet(LogSizes, A)
  BY <1>2, <1>3, <1>4, SumImage
<1> QED BY <1>1, <1>5, <1>6

LEMMA PrunesGather ==
  ASSUME Typed, Typed', NEW p \in Rotators, Expires(p), Gather(p)
  PROVE  Prunes(p)'
<1> USE Kinds DEF At
<1> DEFINE there == {f \in Rolled : f[2] <= KeepLogs}
<1>1. \A n \in Logs \ crossed : ~IsLog(n, KeepLogs + 1)
  <2>1. pc[p] = "expire" /\ rot[p].ops = <<>>
    BY DEF Gather
  <2> QED BY <2>1 DEF Expires
<1>2. {f \in there : f[1] \notin crossed} = Uncrossed
  <2> SUFFICES ASSUME NEW f \in Uncrossed PROVE f \in there
    BY DEF Uncrossed
  <2>1. f[1] \in Logs /\ f[2] \in 1 .. KeepLogs + 1 /\ IsLog(f[1], f[2]) /\ KeepLogs \in Int
    BY Constants DEF Uncrossed, Rolled
  <2>2. f[2] # KeepLogs + 1
    BY <1>1, <2>1 DEF Uncrossed
  <2> QED BY <2>1, <2>2 DEF Uncrossed
<1>3. UNCHANGED <<now, lock, dir, log, listed, flat>> /\ pc'[p] = "prune"
  BY MoveElsewhere DEF Gather
<1>4. /\ rot'[p].infos = {InfoOf(j) : j \in Dirs}
      /\ rot'[p].files = {FileOf(f) : f \in there}
      /\ rot'[p].total = rot'[p].base + SumFunctionOnSet(LogSizes, there)
                                      + SumFunctionOnSet(DirSizes, Dirs)
      /\ rot'[p].remaining = Cardinality(Dirs)
      /\ rot'[p].cutoff = now - Retention
  <2> DEFINE infos == {[job |-> j, mod |-> dir[j].mod, size |-> dir[j].size,
                        active |-> dir[j].is = "active"] : j \in Dirs}
             files == {[name |-> f[1], gen |-> f[2], mod |-> log[f[1]][f[2]].mod,
                        size |-> log[f[1]][f[2]].size] : f \in there}
             base == SumFunctionOnSet(LogSizes, Logs \X {0})
             total == base + SumFunctionOnSet(LogSizes, there) + SumFunctionOnSet(DirSizes, Dirs)
             r == [rot[p] EXCEPT !.infos = infos, !.files = files, !.base = base,
                     !.total = total, !.remaining = Cardinality(Dirs),
                     !.cutoff = now - Retention]
  <2>1. rot' = [rot EXCEPT ![p] = r]
    BY DEF Gather, Typed, Rotation
  <2>2. infos = {InfoOf(j) : j \in Dirs} /\ files = {FileOf(f) : f \in there}
    BY DEF InfoOf, FileOf
  <2>3. rot[p] \in Rotation /\ DOMAIN rot = Rotators
    BY DEF Typed
  <2> DEFINE inc == SumFunctionOnSet(LogSizes, there)
             all == SumFunctionOnSet(DirSizes, Dirs)
  <2>4. total = base + inc + all
    OBVIOUS
  <2> HIDE DEF infos, files, base, total, inc, all
  <2>5. /\ r.infos = infos /\ r.files = files /\ r.total = total /\ r.base = base
        /\ r.remaining = Cardinality(Dirs) /\ r.cutoff = now - Retention
    BY <2>3 DEF Rotation
  <2>6. rot'[p] = r
    BY <2>1, <2>3
  <2> QED BY <2>2, <2>4, <2>5, <2>6 DEF inc, all
<1>5. /\ Dirs' = Dirs /\ DirSizes' = DirSizes /\ Uncrossed' = Uncrossed
      /\ {InfoOf(j) : j \in Dirs}' = {InfoOf(j) : j \in Dirs}
      /\ {FileOf(f) : f \in Uncrossed}' = {FileOf(f) : f \in Uncrossed}
      /\ \A j \in Jobs : InfoOf(j)' = InfoOf(j)
  BY <1>3 DEF Dirs, DirSizes, Uncrossed, Rolled, IsLog, InfoOf, FileOf
<1>7. there \subseteq Rolled /\ \A f \in there : f[2] <= KeepLogs
  OBVIOUS
<1>8. CountedFiles(p)' = {FileOf(f) : f \in Uncrossed}
  <2>1. CountedFiles(p)' = {r \in {FileOf(f) : f \in there} : r.name \notin crossed}
    BY <1>3, <1>4 DEF CountedFiles
  <2>2. \A f \in there : FileOf(f).name = f[1]
    BY DEF FileOf
  <2> HIDE DEF there
  <2> QED BY <1>2, <2>1, <2>2
<1> HIDE DEF there
<1>6. Counts(p)'
  <2>2. now' = now /\ rot'[p].cutoff <= now' - Retention
    <3>1. now - Retention \in Int
      BY Constants DEF Typed
    <3> QED BY <1>3, <1>4, <3>1
  <2>3. /\ IsFiniteSet(rot'[p].files)
        /\ SumFunctionOnSet(FileSizes, rot'[p].files) = SumFunctionOnSet(LogSizes, there)
    BY <1>4, <1>7, FilesGathered
  <2> QED BY <1>4, <1>5, <1>8, <2>2, <2>3 DEF Counts
<1>9. Spared(p)'
  BY <1>4, <1>5 DEF Spared, Dirs
<1> QED BY <1>3, <1>6, <1>9 DEF Prunes

LEMMA PrunesTrim ==
  ASSUME Typed, Typed', NEW p \in Rotators, Prunes(p), Trim(p)
  PROVE  Prunes(p)'
<1> USE Kinds DEF At
<1>0. pc[p] = "prune" /\ Counts(p) /\ Spared(p) /\ rot[p] \in Rotation
  BY DEF Trim, Prunes, Typed
<1>1. PICK f \in Oldest(rot[p].files) :
        /\ log' = [log EXCEPT ![f.name][f.gen] = Absent]
        /\ rot' = [rot EXCEPT ![p].files = @ \ {f}, ![p].total = @ - f.size]
  BY DEF Trim
<1>2. /\ rot'[p].files = rot[p].files \ {f} /\ rot'[p].total = rot[p].total - f.size
      /\ rot'[p].infos = rot[p].infos /\ rot'[p].remaining = rot[p].remaining
      /\ rot'[p].base = rot[p].base /\ rot'[p].cutoff = rot[p].cutoff
  BY <1>1 DEF Typed, Rotation
<1>3. f \in rot[p].files /\ f \in File /\ rot[p].files \subseteq File
  BY <1>0, <1>1 DEF Oldest, Rotation
<1>4. f.name \in Logs /\ f.gen \in Generations \ {0} /\ f.size \in Nat
  BY <1>3, Constants DEF File
<1>5. ASSUME NEW n \in Logs, NEW h \in Generations
      PROVE  log'[n][h] = IF n = f.name /\ h = f.gen THEN Absent ELSE log[n][h]
  BY <1>1, <1>4 DEF Typed
<1>6. crossed' = crossed
  BY DEF Trim
<1>7. ASSUME NEW h \in Logs \X (Generations \ {0}), h[1] \notin crossed
      PROVE  /\ h \in Uncrossed' <=> h \in Uncrossed /\ h # <<f.name, f.gen>>
             /\ h # <<f.name, f.gen>> => FileOf(h)' = FileOf(h)
             /\ FileOf(h).name = h[1] /\ FileOf(h).gen = h[2]
  <2>1. h[1] \in Logs /\ h[2] \in Generations /\ (h = <<f.name, f.gen>> <=> h[1] = f.name /\ h[2] = f.gen)
    BY <1>7
  <2>2. log'[h[1]][h[2]] = IF h = <<f.name, f.gen>> THEN Absent ELSE log[h[1]][h[2]]
    BY <1>5, <2>1
  <2>3. ~(Absent.size > 0)
    BY DEF Absent
  <2>4. h \in Uncrossed' <=> log'[h[1]][h[2]].size > 0
    BY <1>6, <1>7 DEF Uncrossed, Rolled, IsLog
  <2>5. h \in Uncrossed <=> log[h[1]][h[2]].size > 0
    BY <1>7 DEF Uncrossed, Rolled, IsLog
  <2> QED BY <2>2, <2>3, <2>4, <2>5 DEF FileOf
<1>8. Uncrossed \subseteq Logs \X (Generations \ {0}) /\ Uncrossed' \subseteq Logs \X (Generations \ {0})
      /\ (\A h \in Uncrossed : h[1] \notin crossed) /\ \A h \in Uncrossed' : h[1] \notin crossed
  BY <1>6 DEF Uncrossed, Rolled
<1>9. CountedFiles(p)' = {FileOf(h) : h \in Uncrossed}'
  <2>0. CountedFiles(p)' = CountedFiles(p) \ {f} /\ CountedFiles(p) = {FileOf(h) : h \in Uncrossed}
    BY <1>0, <1>2, <1>6 DEF CountedFiles, Counts
  <2>f. f.name \notin crossed => f \in CountedFiles(p)
    BY <1>3 DEF CountedFiles
  <2>1. ASSUME NEW r \in CountedFiles(p)' PROVE r \in {FileOf(h) : h \in Uncrossed}'
    <3>1. PICK h \in Uncrossed : r = FileOf(h)
      BY <2>0, <2>1
    <3>2. h # <<f.name, f.gen>>
      <4>1. SUFFICES ASSUME h = <<f.name, f.gen>> PROVE FALSE
        OBVIOUS
      <4>2. f \in CountedFiles(p)
        BY <1>8, <2>f, <4>1
      <4>3. PICK k \in Uncrossed : f = FileOf(k)
        BY <2>0, <4>2
      <4>4. k = h
        BY <4>1, <4>3, <1>7, <1>8
      <4> QED BY <2>0, <2>1, <3>1, <4>3, <4>4
    <3>3. h \in Uncrossed' /\ FileOf(h)' = FileOf(h)
      BY <1>7, <1>8, <3>2
    <3> QED BY <3>1, <3>3
  <2>2. ASSUME NEW r \in {FileOf(h) : h \in Uncrossed}' PROVE r \in CountedFiles(p)'
    <3>1. PICK h \in Uncrossed' : r = FileOf(h)'
      BY <2>2
    <3>2. h \in Uncrossed /\ h # <<f.name, f.gen>> /\ r = FileOf(h) /\ r.name = h[1] /\ r.gen = h[2]
      BY <1>7, <1>8, <3>1
    <3>3. r # f
      BY <1>8, <3>2
    <3> QED BY <2>0, <3>2, <3>3
  <2> QED BY <2>1, <2>2
<1>10. /\ IsFiniteSet(rot'[p].files)
       /\ SumFunctionOnSet(FileSizes, rot[p].files)
            = f.size + SumFunctionOnSet(FileSizes, rot'[p].files)
       /\ SumFunctionOnSet(FileSizes, rot'[p].files) \in Int
       /\ SumFunctionOnSet(DirSizes, Dirs) \in Int /\ rot[p].base \in Int /\ rot[p].total \in Int
  <2> DEFINE A == rot[p].files
  <2>1. IsFiniteSet(A) /\ IsFiniteSet(A \ {f}) /\ A \ {f} \subseteq File
    BY <1>0, <1>3, FS_RemoveElement DEF Counts
  <2>2. \A h \in A : FileSizes[h] \in Int
    BY <1>3, Constants DEF FileSizes, File
  <2>3. FileSizes[f] = f.size
    BY <1>3 DEF FileSizes
  <2> HIDE DEF A
  <2>4. SumFunctionOnSet(FileSizes, A) = f.size + SumFunctionOnSet(FileSizes, A \ {f})
    BY <1>3, <2>1, <2>2, <2>3, SumTakes DEF A
  <2>5. SumFunctionOnSet(FileSizes, A \ {f}) \in Int
    BY <2>1, FileSumTyped
  <2>6. SumFunctionOnSet(DirSizes, Dirs) \in Int
    BY SizesTyped, SetsFinite, SumInt
  <2>7. rot[p].base \in Int /\ rot[p].total \in Int
    BY <1>0 DEF Rotation
  <2> QED BY <1>2, <2>1, <2>4, <2>5, <2>6, <2>7 DEF A
<1>11. /\ dir' = dir /\ now' = now /\ pc'[p] = "prune" /\ Dirs' = Dirs /\ DirSizes' = DirSizes
       /\ {InfoOf(j) : j \in Dirs}' = {InfoOf(j) : j \in Dirs}
       /\ \A j \in Jobs : InfoOf(j)' = InfoOf(j)
  BY <1>0 DEF Trim, Dirs, DirSizes, InfoOf
<1>12. Counts(p)'
  <2>2. rot'[p].total = rot'[p].base + SumFunctionOnSet(FileSizes, rot'[p].files)
                                     + SumFunctionOnSet(DirSizes, Dirs)
    <3>1. rot[p].total = rot[p].base + SumFunctionOnSet(FileSizes, rot[p].files)
                                     + SumFunctionOnSet(DirSizes, Dirs)
      BY <1>0 DEF Counts
    <3> QED BY <1>2, <1>4, <1>10, <3>1
  <2> QED BY <1>0, <1>2, <1>9, <1>10, <1>11, <2>2 DEF Counts
<1>13. Spared(p)'
  <2>1. rot[p].total <= MaxTotal => rot'[p].total <= MaxTotal
    BY <1>2, <1>4, <1>10, Constants
  <2> QED BY <1>0, <1>2, <1>11, <2>1 DEF Spared, Dirs
<1> QED BY <1>11, <1>12, <1>13 DEF Prunes

LEMMA LessStill == \A a, b \in Int, s \in Nat : a <= b => a - s <= b
OBVIOUS

(* An entry of the list is passed over.                                       *)
LEMMA PrunesPass ==
  ASSUME Typed, NEW p \in Rotators, Prunes(p), pc[p] = "prune",
         NEW t \in Oldest(rot[p].infos), ~Dispensable(rot[p], t),
         rot' = [rot EXCEPT ![p].infos = @ \ {t}], UNCHANGED <<now, dir, log, pc, flat>>
  PROVE  Prunes(p)'
<1>0. Counts(p) /\ Spared(p) /\ rot[p] \in Rotation
  BY DEF Prunes, Typed
<1>1. /\ rot'[p].infos = rot[p].infos \ {t}
      /\ rot'[p].total = rot[p].total /\ rot'[p].files = rot[p].files
      /\ rot'[p].remaining = rot[p].remaining
      /\ rot'[p].base = rot[p].base /\ rot'[p].cutoff = rot[p].cutoff
  BY DEF Typed, Rotation
<1>2. /\ dir' = dir /\ log' = log /\ now' = now /\ pc'[p] = "prune" /\ Dirs' = Dirs
      /\ DirSizes' = DirSizes
      /\ {InfoOf(j) : j \in Dirs}' = {InfoOf(j) : j \in Dirs}
      /\ \A j \in Jobs : InfoOf(j)' = InfoOf(j)
  BY DEF Dirs, DirSizes, InfoOf
<1>f. CountedFiles(p)' = {FileOf(f) : f \in Uncrossed}'
  BY <1>0, <1>1, FilesAsBefore DEF Counts
<1>3. Counts(p)'
  BY <1>0, <1>1, <1>2, <1>f DEF Counts
<1>4. ASSUME NEW j \in Dirs, dir[j].is # "active", InfoOf(j) \notin rot[p].infos \ {t}
      PROVE  /\ dir[j].mod >= rot[p].cutoff /\ rot[p].total <= MaxTotal /\ rot[p].remaining <= LogKeep
             /\ \A u \in rot[p].infos \ {t} : dir[j].mod <= u.mod
  <2>1. CASE InfoOf(j) \notin rot[p].infos
    BY <1>0, <1>4, <2>1 DEF Spared
  <2>2. CASE InfoOf(j) = t
    <3>1. t.mod = dir[j].mod /\ ~t.active
      BY <1>4, <2>2 DEF InfoOf
    <3>2. \A u \in rot[p].infos : t.mod <= u.mod
      BY DEF Oldest
    <3>3. rot[p].cutoff \in Int /\ rot[p].total \in Int /\ rot[p].remaining \in Int /\ t.mod \in Int
      BY <1>0, Constants, SMTT(30) DEF Rotation, Oldest, Info
    <3>4. /\ ~(t.mod < rot[p].cutoff) /\ ~(rot[p].total > MaxTotal)
          /\ ~(rot[p].remaining > LogKeep)
      BY <3>1 DEF Dispensable
    <3>5. /\ t.mod >= rot[p].cutoff /\ rot[p].total <= MaxTotal /\ rot[p].remaining <= LogKeep
      BY <3>3, <3>4, Constants, SMTT(30)
    <3> QED BY <3>1, <3>2, <3>5
  <2> QED BY <1>4, <2>1, <2>2
<1>5. Spared(p)'
  BY <1>1, <1>2, <1>4 DEF Spared, Dirs
<1> QED BY <1>2, <1>3, <1>5 DEF Prunes

(* A directory is removed.                                                    *)
LEMMA PrunesRemove ==
  ASSUME Typed, Typed', NEW p \in Rotators, Prunes(p), pc[p] = "prune",
         NEW t \in Oldest(rot[p].infos),
         rot' = [rot EXCEPT ![p].infos = @ \ {t}, ![p].total = @ - t.size,
                            ![p].remaining = @ - 1],
         dir' = [dir EXCEPT ![t.job] = NoDir], UNCHANGED <<now, log, pc, flat>>
  PROVE  Prunes(p)'
<1>0. Counts(p) /\ Spared(p) /\ rot[p] \in Rotation
  BY DEF Prunes, Typed
<1>1. /\ rot'[p].infos = rot[p].infos \ {t}
      /\ rot'[p].total = rot[p].total - t.size /\ rot'[p].files = rot[p].files
      /\ rot'[p].remaining = rot[p].remaining - 1
      /\ rot'[p].base = rot[p].base /\ rot'[p].cutoff = rot[p].cutoff
  BY DEF Typed, Rotation
<1>2. PICK k \in Dirs : t = InfoOf(k)
  BY <1>0 DEF Counts, Oldest
<1>3. k \in Jobs /\ t.job = k /\ t.size = dir[k].size /\ dir[k].is # "none"
  BY <1>2 DEF InfoOf, Dirs
<1>4. \A j \in Jobs : dir'[j] = IF j = k THEN NoDir ELSE dir[j]
  BY <1>3 DEF Typed
<1>5. Dirs' = Dirs \ {k} /\ Dirs \subseteq Jobs
  BY <1>3, <1>4 DEF Dirs, NoDir
<1>6. \A j \in Dirs \ {k} : InfoOf(j)' = InfoOf(j) /\ InfoOf(j) # t
  BY <1>2, <1>4, <1>5 DEF InfoOf
<1>7. Cardinality(Dirs') = Cardinality(Dirs) - 1
  BY <1>2, <1>5, SetsFinite, FS_RemoveElement
<1>8. SumFunctionOnSet(DirSizes, Dirs) = t.size + SumFunctionOnSet(DirSizes', Dirs')
  <2>1. \A j \in Dirs : DirSizes[j] \in Int
    BY SizesTyped, <1>5
  <2>2. SumFunctionOnSet(DirSizes, Dirs) = DirSizes[k] + SumFunctionOnSet(DirSizes, Dirs \ {k})
    BY <2>1, SetsFinite, SumTakes
  <2>3. SumFunctionOnSet(DirSizes', Dirs \ {k}) = SumFunctionOnSet(DirSizes, Dirs \ {k})
    <3> DEFINE A == Dirs \ {k}
    <3>1. IsFiniteSet(A)
      BY SetsFinite, FS_RemoveElement
    <3>2. \A j \in A : DirSizes'[j] = DirSizes[j]
      BY <1>4, <1>5 DEF DirSizes
    <3> HIDE DEF A
    <3>3. SumFunctionOnSet(DirSizes', A) = SumFunctionOnSet(DirSizes, A)
      BY <3>1, <3>2, SumSame
    <3> QED BY <3>3 DEF A
  <2>4. DirSizes[k] = t.size
    BY <1>3 DEF DirSizes
  <2> QED BY <1>5, <2>2, <2>3, <2>4
<1>9. /\ t.size \in Nat /\ rot[p].total \in Int /\ rot[p].base \in Int
      /\ rot[p].remaining \in Int
      /\ SumFunctionOnSet(DirSizes', Dirs') \in Int
      /\ SumFunctionOnSet(FileSizes, rot[p].files) \in Int
  <2>1. t.size \in Nat
    BY <1>0, Constants DEF Rotation, Oldest, Info
  <2>2. \A j \in Dirs \ {k} : DirSizes'[j] \in Int
    <3> SUFFICES ASSUME NEW j \in Dirs \ {k} PROVE DirSizes'[j] \in Int
      OBVIOUS
    <3>1. j \in Jobs /\ DirSizes'[j] = dir[j].size
      BY <1>4, <1>5 DEF DirSizes
    <3> QED BY <3>1, Constants DEF Typed, Dir
  <2>3. IsFiniteSet(Dirs \ {k})
    BY SetsFinite, FS_RemoveElement
  <2>4. SumFunctionOnSet(DirSizes', Dirs \ {k}) \in Int
    BY <2>2, <2>3, SumInt
  <2>5. SumFunctionOnSet(FileSizes, rot[p].files) \in Int
    <3>1. IsFiniteSet(rot[p].files) /\ rot[p].files \subseteq File
      BY <1>0 DEF Counts, Rotation
    <3>2. SumFunctionOnSet(FileSizes, rot[p].files) \in Nat
      BY <3>1, FileSumTyped
    <3> QED BY <3>2
  <2> QED BY <1>0, <1>5, <2>1, <2>4, <2>5 DEF Rotation
<1>10. /\ log' = log /\ now' = now /\ pc'[p] = "prune"
       /\ CountedFiles(p)' = {FileOf(f) : f \in Uncrossed}'
  BY <1>0, <1>1, FilesAsBefore DEF Counts
<1>11. Counts(p)'
  <2>1. rot'[p].infos \subseteq {InfoOf(j) : j \in Dirs}'
    <3> SUFFICES ASSUME NEW u \in rot[p].infos, u # t
                 PROVE  u \in {InfoOf(j) : j \in Dirs}'
      BY <1>1
    <3>1. PICK j \in Dirs : u = InfoOf(j)
      BY <1>0 DEF Counts
    <3>2. j # k
      BY <1>2, <3>1
    <3>3. u = InfoOf(j)' /\ j \in Dirs'
      BY <1>5, <1>6, <3>1, <3>2
    <3> QED BY <3>3
  <2>2. rot'[p].total = rot'[p].base + SumFunctionOnSet(FileSizes, rot'[p].files)
                                     + SumFunctionOnSet(DirSizes', Dirs')
    BY <1>0, <1>1, <1>8, <1>9 DEF Counts
  <2>3. rot'[p].remaining = Cardinality(Dirs')
    BY <1>0, <1>1, <1>7 DEF Counts
  <2> QED BY <1>0, <1>1, <1>10, <2>1, <2>2, <2>3 DEF Counts
<1>12. Spared(p)'
  <2>1. rot[p].total <= MaxTotal => rot'[p].total <= MaxTotal
    <3>0. rot[p].total \in Int /\ MaxTotal \in Int /\ t.size \in Nat
      BY <1>9, Constants
    <3>1. rot[p].total <= MaxTotal => rot[p].total - t.size <= MaxTotal
      BY <3>0, LessStill, Zenon
    <3> QED BY <1>1, <3>1
  <2>2. rot[p].remaining <= LogKeep => rot'[p].remaining <= LogKeep
    <3>0. rot[p].remaining \in Int /\ LogKeep \in Int /\ 1 \in Nat
      BY <1>9, Constants
    <3>1. rot[p].remaining <= LogKeep => rot[p].remaining - 1 <= LogKeep
      BY <3>0, LessStill, Zenon
    <3> QED BY <1>1, <3>1
  <2>3. ASSUME NEW j \in Dirs \ {k}, dir[j].is # "active", InfoOf(j) \notin rot[p].infos \ {t}
        PROVE  /\ dir[j].mod >= rot[p].cutoff
               /\ rot'[p].total <= MaxTotal /\ rot'[p].remaining <= LogKeep
               /\ \A u \in rot[p].infos \ {t} : dir[j].mod <= u.mod
    <3>1. InfoOf(j) \notin rot[p].infos
      BY <1>6, <2>3
    <3> QED BY <1>0, <2>1, <2>2, <2>3, <3>1 DEF Spared
  <2>4. \A j \in Dirs \ {k} : dir'[j] = dir[j] /\ InfoOf(j)' = InfoOf(j)
    BY <1>4, <1>5, <1>6
  <2> QED BY <1>1, <1>5, <2>3, <2>4, ZenonT(60) DEF Spared
<1> QED BY <1>10, <1>11, <1>12 DEF Prunes

LEMMA PrunesStep ==
  ASSUME Typed, Typed', NEW p \in Rotators, Prunes(p), Expires(p),
         RotationStep(p) \/ Stands(p) \/ Begun(p)
  PROVE  Prunes(p)'
<1> USE Kinds DEF At
<1>1. CASE Begun(p)
  BY <1>1 DEF Begun, Prunes
<1>2. CASE Stands(p)
  BY <1>2, PrunesStands
<1>3. CASE RotationStep(p)
  <2>1. CASE pc'[p] = "prune"
    <3>1. CASE Gather(p)
      BY <3>1, PrunesGather
    <3>2. CASE Trim(p)
      BY <3>2, PrunesTrim
    <3>3. CASE Prune(p)
      <4>1. pc[p] = "prune" /\ UNCHANGED <<now, log, pc, flat>>
        BY <3>3 DEF Prune
      <4>2. PICK t \in Oldest(rot[p].infos) :
              IF Dispensable(rot[p], t)
              THEN /\ dir' = [dir EXCEPT ![t.job] = NoDir]
                   /\ rot' = [rot EXCEPT ![p].infos = @ \ {t}, ![p].total = @ - t.size,
                                         ![p].remaining = @ - 1]
              ELSE /\ rot' = [rot EXCEPT ![p].infos = @ \ {t}]
                   /\ UNCHANGED dir
        BY <3>3 DEF Prune
      <4>3. CASE Dispensable(rot[p], t)
        BY <4>1, <4>2, <4>3, PrunesRemove
      <4>4. CASE ~Dispensable(rot[p], t)
        BY <4>1, <4>2, <4>4, PrunesPass
      <4> QED BY <4>3, <4>4
    <3> QED BY <1>3, <2>1, <3>1, <3>2, <3>3, StepPlace
  <2>2. CASE pc'[p] = "rotated"
    <3>1. Rotated(p)
      BY <1>3, <2>2, StepPlace
    <3>2. /\ pc[p] = "prune" /\ rot[p].infos = {} /\ (rot[p].total <= MaxTotal \/ rot[p].files = {})
          /\ UNCHANGED <<now, dir, log, rot, flat>>
      BY <3>1 DEF Rotated
    <3>3. Counts(p) /\ Spared(p)
      BY <3>2 DEF Prunes
    <3>4. CountedFiles(p)' = {FileOf(f) : f \in Uncrossed}'
      BY <3>2, <3>3, FilesAsBefore DEF Counts
    <3>5. /\ Dirs' = Dirs /\ DirSizes' = DirSizes /\ \A j \in Jobs : InfoOf(j)' = InfoOf(j)
          /\ {InfoOf(j) : j \in Dirs}' = {InfoOf(j) : j \in Dirs}
      BY <3>2 DEF Dirs, DirSizes, InfoOf
    <3>6. Counts(p)' /\ Spared(p)'
      BY <3>2, <3>3, <3>4, <3>5 DEF Counts, Spared, Dirs
    <3> QED BY <2>2, <3>2, <3>6 DEF Prunes
  <2> QED BY <2>1, <2>2 DEF Prunes
<1> QED BY <1>1, <1>2, <1>3

(* The invariant holds of the first states, and every step keeps it.          *)
LEMMA StoreInit == Init => StoreInv
<1> SUFFICES ASSUME Init PROVE StoreInv
  OBVIOUS
<1>1. Typed /\ WriterHolds
  BY TypedInit, InitHolds
<1>2. DirPlaced
  BY Kinds DEF Init, DirPlaced, NoDir
<1>3. Ordered
  <2>1. \A n \in Logs, g \in 0 .. KeepLogs : log[n][g] = Absent
    BY Constants DEF Init
  <2> QED BY <2>1 DEF Init, Ordered, IsLog, Absent
<1>4. ASSUME NEW p \in Rotators PROVE Rolls(p) /\ Expires(p) /\ Prunes(p)
  BY Kinds DEF Init, Rolls, Expires, Prunes, At
<1> QED BY <1>1, <1>2, <1>3, <1>4 DEF StoreInv

LEMMA StoreStep == StoreInv /\ [Next]_vars => StoreInv'
<1> SUFFICES ASSUME StoreInv, [Next]_vars PROVE StoreInv'
  OBVIOUS
<1>0. /\ Typed /\ WriterHolds /\ DirPlaced /\ Ordered
      /\ \A p \in Rotators : Rolls(p) /\ Expires(p) /\ Prunes(p)
  BY DEF StoreInv
<1>1. Typed' /\ WriterHolds' /\ DirPlaced' /\ Ordered'
  BY <1>0, TypedStep, StepHolds, PlacedStep, OrderedStep
<1>2. ASSUME NEW p \in Rotators PROVE Rolls(p)' /\ Expires(p)' /\ Prunes(p)'
  <2>1. CASE pc'[p] \notin RotationSteps
    BY <2>1 DEF Rolls, Expires, Prunes, At, RotationSteps
  <2>2. CASE pc'[p] \in RotationSteps
    <3>1. (RotationStep(p) /\ UNCHANGED now) \/ Stands(p) \/ Begun(p)
      <4>1. RotationStep(p) => UNCHANGED now
        BY DEF RotationStep, Roll, FileStep, Expire, Gather, Prune, Trim, Rotated, RotationFails
      <4> QED BY <1>0, <2>2, <4>1, OthersStand, Begins
    <3>2. Rolls(p) /\ Expires(p) /\ Prunes(p)
      BY <1>0
    <3> QED BY <1>0, <1>1, <3>1, <3>2, RollsStep, ExpiresStep, PrunesStep
  <2> QED BY <2>1, <2>2
<1> QED BY <1>1, <1>2 DEF StoreInv

-----------------------------------------------------------------------------
(* The theorems.                                                              *)

(* A rotation that has counted nothing yet has no counts.                     *)
Reset == \A p \in Rotators : pc[p] \notin {"prune", "rotated"} =>
           rot[p].total = 0 /\ rot[p].remaining = 0

LEMMA ResetStep ==
  ASSUME Typed, Reset, [Next]_vars
  PROVE  Reset'
<1> USE Kinds DEF At
<1>z. NoRotation.total = 0 /\ NoRotation.remaining = 0
      /\ [NoRotation EXCEPT !.names = Logs].total = 0
      /\ [NoRotation EXCEPT !.names = Logs].remaining = 0
  BY DEF NoRotation
<1>l. ASSUME NEW q \in Processes, NEW step, Leave(q, step) PROVE Reset'
  <2>1. \A p \in Rotators : IF p = q THEN rot'[p] = NoRotation
                            ELSE rot'[p] = rot[p] /\ pc'[p] = pc[p]
    BY <1>l DEF Leave, Move, Typed
  <2> QED BY <1>z, <2>1 DEF Reset
<1>b. ASSUME NEW q \in Rotators, BeginRotation(q) PROVE Reset'
  <2>1. \A p \in Rotators : IF p = q THEN rot'[p] = [NoRotation EXCEPT !.names = Logs]
                            ELSE rot'[p] = rot[p] /\ pc'[p] = pc[p]
    BY <1>b DEF BeginRotation, Move, Typed
  <2> QED BY <1>z, <2>1 DEF Reset
<1>m. ASSUME NEW q \in Processes, NEW step, Move(q, step), rot' = rot,
             pc[q] \notin {"prune", "rotated"} \/ step \in {"prune", "rotated"}
      PROVE  Reset'
  <2>1. \A p \in Rotators : rot'[p] = rot[p] /\ pc'[p] = IF p = q THEN step ELSE pc[p]
    BY <1>m DEF Move, Typed
  <2> QED BY <1>m, <2>1 DEF Reset
<1>u. ASSUME pc' = pc, rot' = rot PROVE Reset'
  BY <1>u DEF Reset
<1>1. ASSUME NEW q \in Rotators, RotationStep(q) PROVE Reset'
  <2>0. rot[q] \in Rotation
    BY DEF Typed
  <2>1. CASE Roll(q) \/ FileStep(q) \/ Expire(q)
    <3>0. /\ pc[q] \in {"roll", "expire"}
          /\ \A p \in Rotators : p # q => pc'[p] = pc[p]
      BY <2>1 DEF Roll, FileStep, Expire, Move, Typed
    <3>1. CASE Roll(q)
      <4>1. PICK names, ops : rot' = [rot EXCEPT ![q].names = names, ![q].ops = ops]
        BY <3>1, Zenon DEF Roll
      <4> DEFINE r == [rot[q] EXCEPT !.names = names, !.ops = ops]
      <4>2. rot' = [rot EXCEPT ![q] = r]
        BY <4>1 DEF Typed
      <4>3. r.total = rot[q].total /\ r.remaining = rot[q].remaining
        BY <2>0 DEF Rotation
      <4> HIDE DEF r
      <4> QED BY <3>0, <4>2, <4>3 DEF Typed, Reset
    <3>2. CASE FileStep(q) \/ Expire(q)
      <4>1. \E ops : rot' = [rot EXCEPT ![q].ops = ops]
        BY <3>2, Zenon DEF FileStep, Expire
      <4>2. PICK ops : rot' = [rot EXCEPT ![q].ops = ops]
        BY <4>1
      <4> DEFINE r == [rot[q] EXCEPT !.ops = ops]
      <4>3. rot' = [rot EXCEPT ![q] = r]
        BY <4>2 DEF Typed
      <4>4. r.total = rot[q].total /\ r.remaining = rot[q].remaining
        BY <2>0 DEF Rotation
      <4> HIDE DEF r
      <4> QED BY <3>0, <4>3, <4>4 DEF Typed, Reset
    <3> QED BY <2>1, <3>1, <3>2
  <2>2. CASE Gather(q)
    <3>1. pc'[q] = "prune" /\ \A p \in Rotators : p # q => rot'[p] = rot[p] /\ pc'[p] = pc[p]
      BY <2>2 DEF Gather, Move, Typed
    <3> QED BY <3>1 DEF Reset
  <2>3. CASE Prune(q) \/ Trim(q)
    <3>1. pc'[q] = "prune" /\ \A p \in Rotators : p # q => rot'[p] = rot[p] /\ pc'[p] = pc[p]
      BY <2>3 DEF Prune, Trim, Typed
    <3> QED BY <3>1 DEF Reset
  <2>4. CASE Rotated(q)
    BY <1>m, <2>4 DEF Rotated
  <2>5. CASE RotationFails(q)
    BY <1>l, <2>5 DEF RotationFails
  <2> QED BY <1>1, <2>1, <2>2, <2>3, <2>4, <2>5 DEF RotationStep
<1>2. ASSUME NEW j \in Jobs, WorkerStep(j) PROVE Reset'
  <2>1. CASE Launch(j) \/ GiveUp(j)
    BY <1>u, <2>1 DEF Launch, GiveUp
  <2>2. CASE StartWorker(j)
    BY <1>b, <1>m, <2>2 DEF StartWorker
  <2>3. CASE MakeDir(j)
    <3>1. rot'[j] = NoRotation /\ \A p \in Rotators : p # j => rot'[p] = rot[p] /\ pc'[p] = pc[p]
      BY <2>3 DEF MakeDir, Move, Typed
    <3> QED BY <1>z, <3>1 DEF Reset
  <2>4. CASE WriteMarker(j)
    BY <1>l, <1>m, <2>4 DEF WriteMarker
  <2>5. CASE FirstRecord(j)
    BY <1>l, <1>m, <2>5 DEF FirstRecord
  <2>6. CASE EndWorker(j)
    BY <1>l, <2>6 DEF EndWorker
  <2> QED BY <1>2, <2>1, <2>2, <2>3, <2>4, <2>5, <2>6 DEF WorkerStep
<1>3. CASE Maintain
  BY <1>3, <1>b DEF Maintain
<1>4. CASE MaintainEnds
  BY <1>4, <1>l DEF MaintainEnds
<1>5. CASE Recover \/ ClearLooks \/ ClearLocks
  BY <1>5, <1>m DEF Recover, ClearLooks, ClearLocks
<1>6. CASE Retire
  BY <1>6, <1>l, <1>u DEF Retire
<1>7. CASE Clear
  BY <1>7, <1>u DEF Clear
<1>8. CASE ClearEnds
  BY <1>8, <1>l DEF ClearEnds
<1>9. CASE \E n \in Logs : FlatStep(n)
  BY <1>9, <1>u, FlatLeaves
<1>10. ASSUME NEW q \in Processes, Die(q) PROVE Reset'
  BY <1>10, <1>l DEF Die
<1>11. CASE Tick \/ UNCHANGED vars
  BY <1>11, <1>u DEF Tick, vars
<1> QED BY <1>1, <1>2, <1>3, <1>4, <1>5, <1>6, <1>7, <1>8, <1>9, <1>10, <1>11 DEF Next, ClearStep

(* The state keeps its types, the counts of a rotation among them: it never   *)
(* counts more directories than there are jobs, nor takes off more bytes than *)
(* it had counted (persist.go:340-366).                                       *)
THEOREM StoreTypes == Spec => []TypeOK
<1>1. Init => Reset
  BY Kinds DEF Init, Reset, NoRotation
<1>2. StoreInv /\ Reset => TypeOK
  <2> SUFFICES ASSUME StoreInv, Reset PROVE TypeOK
    OBVIOUS
  <2>1. Typed
    BY DEF StoreInv
  <2>2. ASSUME NEW p \in Rotators
        PROVE  rot[p].remaining \in 0 .. Cardinality(Jobs) /\ rot[p].total >= 0
    <3>0. Cardinality(Jobs) \in Nat
      BY Constants, FS_CardinalityType
    <3>1. CASE pc[p] \notin {"prune", "rotated"}
      BY <3>0, <3>1 DEF Reset
    <3>2. CASE pc[p] \in {"prune", "rotated"}
      <4>1. Counts(p)
        BY <3>2 DEF StoreInv, Prunes
      <4>2. Cardinality(Dirs) \in Nat /\ Cardinality(Dirs) <= Cardinality(Jobs)
        BY Constants, SetsFinite, FS_Subset, FS_CardinalityType
      <4>3. SumFunctionOnSet(FileSizes, rot[p].files) \in Nat
        <5>1. IsFiniteSet(rot[p].files) /\ rot[p].files \subseteq File
          BY <2>1, <4>1 DEF Counts, Typed, Rotation
        <5> QED BY <5>1, FileSumTyped
      <4>4. SumFunctionOnSet(DirSizes, Dirs) \in Nat
        <5>1. \A j \in Dirs : DirSizes[j] \in Nat
          BY <2>1, SizesTyped, SetsFinite
        <5> QED BY <5>1, SetsFinite, SumNat
      <4>5. rot[p].base \in Nat
        BY <2>1 DEF Typed, Rotation
      <4>6. rot[p].remaining \in 0 .. Cardinality(Jobs)
        BY <3>0, <4>1, <4>2 DEF Counts
      <4>7. rot[p].total >= 0
        BY <4>1, <4>3, <4>4, <4>5 DEF Counts
      <4> QED BY <4>6, <4>7
    <3> QED BY <3>1, <3>2
  <2>3. /\ \A j \in Jobs : dir[j] \in Dir
        /\ \A n \in Logs, g \in Generations : log[n][g] \in LogFile
    BY <2>1 DEF Typed
  <2>4. pc \in [Processes -> RotationSteps \cup {"idle", "mark", "note", "working",
                                              "ended", "refused", "looked", "clearing",
                                              "retiring"}]
    BY <2>1 DEF Typed, Place
  <2> QED BY <2>1, <2>2, <2>3, <2>4 DEF TypeOK, Typed, Dir, LogFile
<1>3. StoreInv /\ Reset /\ [Next]_vars => Reset'
  BY ResetStep DEF StoreInv
<1> QED BY StoreInit, StoreStep, <1>1, <1>2, <1>3, PTL DEF Spec

(* A rotation by whomever, interrupted and repeated at will, takes no         *)
(* directory with an active.json (persist.go:341, 376).                       *)
THEOREM EvidenceIsKept == Spec => EvidenceKept
<1> USE Kinds DEF At
<1>1. ASSUME StoreInv, [Next]_vars, NEW j \in Jobs, dir[j].is = "active", dir'[j].is # "active"
      PROVE  pc[j] = "working" \/ pc[Recoverer] = "retiring" \/ pc[Clearer] = "clearing"
  <2>0. Typed /\ DirPlaced
    BY <1>1 DEF StoreInv
  <2>1. ASSUME NEW p \in Rotators, RotationStep(p) PROVE FALSE
    <3>1. dir' # dir
      BY <1>1
    <3>2. Prune(p)
      BY <2>1, <3>1 DEF RotationStep, Roll, FileStep, Expire, Gather, Trim, Rotated, RotationFails
    <3>3. rot[p].infos \subseteq {InfoOf(i) : i \in Dirs}
      BY <1>1, <3>2 DEF Prune, StoreInv, Prunes, Counts
    <3>4. PICK t \in rot[p].infos : ~t.active /\ dir' = [dir EXCEPT ![t.job] = NoDir]
      BY <3>1, <3>2 DEF Prune, Oldest, Dispensable
    <3>5. PICK i \in Dirs : t = InfoOf(i)
      BY <3>3
    <3>6. i \in Jobs /\ dir[i].is # "active" /\ dir' = [dir EXCEPT ![i] = NoDir]
      BY <3>4, <3>5 DEF InfoOf, Dirs
    <3>7. i # j
      BY <1>1, <3>6
    <3> QED BY <1>1, <2>0, <3>6, <3>7 DEF Typed
  <2>2. ASSUME NEW k \in Jobs, WorkerStep(k) PROVE pc[j] = "working"
    <3>1. CASE MakeDir(k)
      <4>1. j = k
        BY <1>1, <2>0, <3>1 DEF MakeDir, Typed
      <4>2. dir[j].is = "none"
        BY <2>0, <3>1, <4>1 DEF MakeDir, DirPlaced, RotationSteps
      <4> QED BY <1>1, <4>2
    <3>2. CASE WriteMarker(k)
      <4>1. dir'[k].is = "active" \/ dir'[k] = dir[k]
        BY <2>0, <3>2 DEF WriteMarker, MarkerWritten, Typed
      <4>2. \A i \in Jobs : i # k => dir'[i] = dir[i]
        BY <2>0, <3>2 DEF WriteMarker, MarkerWritten, Typed
      <4> QED BY <1>1, <4>1, <4>2
    <3>3. CASE EndWorker(k)
      <4>1. \A i \in Jobs : i # k => dir'[i] = dir[i]
        BY <2>0, <3>3 DEF EndWorker, Typed
      <4> QED BY <1>1, <3>3, <4>1 DEF EndWorker
    <3>4. CASE Launch(k) \/ GiveUp(k) \/ StartWorker(k) \/ FirstRecord(k)
      BY <1>1, <3>4 DEF Launch, GiveUp, StartWorker, FirstRecord
    <3> QED BY <2>2, <3>1, <3>2, <3>3, <3>4 DEF WorkerStep
  <2>3. CASE Maintain \/ MaintainEnds \/ Recover
    BY <1>1, <2>3 DEF Maintain, MaintainEnds, Recover
  <2>4. CASE Retire
    BY <2>4 DEF Retire
  <2>5. CASE ClearStep
    BY <1>1, <2>5 DEF ClearStep, ClearLooks, ClearLocks, Clear, ClearEnds
  <2>6. CASE (\E n \in Logs : FlatStep(n)) \/ (\E p \in Processes : Die(p)) \/ Tick \/ UNCHANGED vars
    BY <1>1, <2>6, FlatLeaves DEF Die, Tick, vars
  <2> QED BY <1>1, <2>1, <2>2, <2>3, <2>4, <2>5, <2>6 DEF Next
<1>2. StoreInv /\ [Next]_vars =>
        [\A j \in Jobs : dir[j].is = "active" /\ dir'[j].is # "active"
           => At(j, "working") \/ At(Recoverer, "retiring") \/ At(Clearer, "clearing")]_vars
  BY <1>1
<1> QED BY StoreInit, StoreStep, <1>2, PTL DEF Spec, EvidenceKept

(* A rotation that came to its end is within the limit of transactions and,   *)
(* as long as no flat log was rolled by another hand meanwhile, within that   *)
(* of bytes, or has left nothing it may remove (persist.go:344-368), whatever *)
(* was interrupted before.                                                    *)
THEOREM StoreIsBounded == Spec => []StoreBounded
<1>1. StoreInv => StoreBounded
  <2> SUFFICES ASSUME StoreInv, NEW p \in Rotators, pc[p] = "rotated"
               PROVE  LET mayGo == {j \in Dirs : dir[j].is # "active"}
                      IN  /\ Cardinality(Dirs) <= LogKeep \/ mayGo = {}
                          /\ \/ crossed # {}
                             \/ rot[p].base + SumFunctionOnSet(DirSizes, Dirs)
                                  + SumFunctionOnSet(LogSizes, Rolled) <= MaxTotal
                             \/ mayGo = {} /\ Rolled = {}
    BY DEF StoreBounded, At
  <2> DEFINE mayGo == {j \in Dirs : dir[j].is # "active"}
  <2>1. /\ Typed /\ Counts(p) /\ Spared(p) /\ rot[p].infos = {}
        /\ rot[p].total <= MaxTotal \/ rot[p].files = {}
    BY DEF StoreInv, Prunes
  <2>2. mayGo # {} => rot[p].total <= MaxTotal /\ rot[p].remaining <= LogKeep
    BY <2>1 DEF Spared
  <2>3. rot[p].remaining = Cardinality(Dirs)
    BY <2>1 DEF Counts
  <2>4. ASSUME crossed = {}
        PROVE  \/ rot[p].base + SumFunctionOnSet(DirSizes, Dirs)
                    + SumFunctionOnSet(LogSizes, Rolled) <= MaxTotal
               \/ mayGo = {} /\ Rolled = {}
    <3>1. rot[p].files = {FileOf(f) : f \in Rolled} /\ rot[p].files \subseteq File
      <4>1. Uncrossed = Rolled /\ CountedFiles(p) = rot[p].files
        BY <2>4 DEF Uncrossed, CountedFiles
      <4> QED BY <2>1, <4>1 DEF Counts, Typed, Rotation
    <3>2. \A f \in Rolled : f[2] <= KeepLogs
      <4> SUFFICES ASSUME NEW f \in Rolled PROVE f[2] <= KeepLogs
        OBVIOUS
      <4>1. FileOf(f) \in File
        BY <3>1
      <4>2. FileOf(f).gen = f[2] /\ FileOf(f).gen \in 1 .. KeepLogs
        BY <4>1 DEF FileOf, File
      <4> QED BY <4>2, Constants
    <3>3. SumFunctionOnSet(FileSizes, rot[p].files) = SumFunctionOnSet(LogSizes, Rolled)
      BY <2>1, <3>1, <3>2, FilesGathered
    <3>4. SumFunctionOnSet(LogSizes, Rolled) \in Int
      <4>1. \A f \in Rolled : LogSizes[f] \in Int
        BY <2>1, SizesTyped, SetsFinite
      <4> QED BY <4>1, SetsFinite, SumInt
    <3>5. SumFunctionOnSet(DirSizes, Dirs) \in Int
      <4>1. \A j \in Dirs : DirSizes[j] \in Int
        BY <2>1, SizesTyped, SetsFinite
      <4> QED BY <4>1, SetsFinite, SumInt
    <3>6. rot[p].base \in Int
      BY <2>1 DEF Typed, Rotation
    <3>7. rot[p].total = rot[p].base + SumFunctionOnSet(LogSizes, Rolled)
                                     + SumFunctionOnSet(DirSizes, Dirs)
      BY <2>1, <3>3 DEF Counts
    <3>8. rot[p].total = rot[p].base + SumFunctionOnSet(DirSizes, Dirs)
                                     + SumFunctionOnSet(LogSizes, Rolled)
      BY <3>4, <3>5, <3>6, <3>7
    <3>9. rot[p].files = {} => Rolled = {}
      BY <3>1
    <3> HIDE DEF mayGo
    <3> QED BY <2>1, <2>2, <3>8, <3>9
  <2> HIDE DEF mayGo
  <2>5. Cardinality(Dirs) <= LogKeep \/ mayGo = {}
    BY <2>2, <2>3
  <2> QED BY <2>4, <2>5 DEF mayGo
<1> QED BY StoreInit, StoreStep, <1>1, PTL DEF Spec

(* What a step loses of a flat log that is not expired is not younger than    *)
(* what stays.                                                                *)
LEMMA LogLoses ==
  ASSUME StoreInv, [Next]_vars, pc[Clearer] # "clearing",
         NEW n \in Logs \ crossed', log'[n][0].size <= log[n][0].size,
         NEW g \in 0 .. KeepLogs, log[n][g].size > 0,
         \A h \in 0 .. KeepLogs : log'[n][h].size > 0 => log'[n][h].mod # log[n][g].mod
  PROVE  \/ Expired(log[n][g].mod)
         \/ \A h \in 0 .. KeepLogs : log'[n][h].size > 0 => log[n][g].mod <= log'[n][h].mod
<1> USE Kinds DEF At
<1>0. Typed /\ Ordered
  BY DEF StoreInv
<1>1. KeepLogs \in Nat /\ 0 .. KeepLogs \subseteq Generations
  BY Constants DEF Generations
<1>2. \A h \in Generations : /\ log[n][h].size \in Int /\ log[n][h].mod \in Int
                             /\ ~(Absent.size > 0)
  BY <1>0 DEF Typed, LogFile, Absent
<1>3. log'[n][g] # log[n][g]
  OBVIOUS
<1>4. ASSUME NEW m \in Logs, NEW to \in Generations, log' = [log EXCEPT ![m][to] = Absent]
      PROVE  /\ m = n /\ g = to
             /\ \A h \in 0 .. KeepLogs : log'[n][h].size > 0 => h # to /\ log'[n][h] = log[n][h]
  <2>1. \A l \in Logs, h \in Generations :
          log'[l][h] = IF l = m /\ h = to THEN Absent ELSE log[l][h]
    BY <1>0, <1>4 DEF Typed
  <2> QED BY <1>1, <1>2, <1>3, <2>1
<1>x. ASSUME NEW p \in Rotators, FileStep(p) \/ Trim(p) PROVE n \notin crossed
  BY <1>x DEF FileStep, Trim
<1>5. ASSUME NEW p \in Rotators, FileStep(p), pc[p] = "roll"
      PROVE  \A h \in 0 .. KeepLogs : log'[n][h].size > 0 => log[n][g].mod <= log'[n][h].mod
  <2> DEFINE op == rot[p].ops[1]
  <2>1. op = Head(rot[p].ops) /\ op \in Op /\ Len(rot[p].ops) > 0
    BY <1>0, <1>5, TailOps DEF Typed, Rotation, FileStep
  <2>2. /\ op.to <= KeepLogs
        /\ op.name = n =>
             ~(log[op.name][op.to].size > 0) \/ (op.do = "remove" /\ op.to = KeepLogs)
    <3>1. 1 \in 1 .. Len(rot[p].ops)
      <4>1. Len(rot[p].ops) \in Nat
        BY <1>0 DEF Typed, Rotation
      <4> QED BY <2>1, <4>1
    <3>2. /\ Chained(rot[p].ops)
          /\ \/ op.name \in crossed
             \/ ~IsLog(op.name, op.to) \/ (op.do = "remove" /\ op.to = KeepLogs)
      BY <1>5, <2>1 DEF StoreInv, Rolls
    <3>3. op.to <= KeepLogs
      BY <3>1, <3>2 DEF Chained
    <3>4. n \notin crossed
      BY <1>5, <1>x
    <3> QED BY <3>2, <3>3, <3>4 DEF IsLog
  <2>3. log' = IF op.do = "remove" THEN [log EXCEPT ![op.name][op.to] = Absent]
               ELSE MovedUp(op.name, op.to)
    BY <1>5, <2>1 DEF FileStep
  <2> HIDE DEF op
  <2>4. op.name \in Logs /\ op.to \in Generations \ {0} /\ op.to \in 1 .. KeepLogs
        /\ op.to - 1 \in Generations /\ op.to - 1 \in 0 .. KeepLogs /\ op.do \in {"remove", "move"}
    <3>1. op.name \in Logs /\ op.to \in Generations \ {0} /\ op.do \in {"remove", "move"}
      BY <2>1 DEF Op
    <3>2. Generations = 0 .. KeepLogs + 1 /\ op.to <= KeepLogs
      BY <2>2, Constants
    <3> QED BY <1>1, <3>1, <3>2
  <2>5. CASE op.do = "remove"
    <3>1. /\ op.name = n /\ g = op.to
          /\ \A h \in 0 .. KeepLogs : log'[n][h].size > 0 => h # op.to /\ log'[n][h] = log[n][h]
      BY <1>4, <2>3, <2>4, <2>5
    <3>2. g = KeepLogs
      BY <2>2, <3>1
    <3> QED BY <1>0, <1>1, <3>1, <3>2 DEF Ordered, IsLog
  <2>6. CASE op.do = "move"
    <3>1. log' = MovedUp(op.name, op.to) /\ log' # log
      BY <1>3, <2>3, <2>6
    <3>2. \A l \in Logs, h \in Generations :
            log'[l][h] = IF l = op.name /\ h = op.to - 1 THEN Absent
                         ELSE IF l = op.name /\ h = op.to THEN log[l][op.to - 1]
                         ELSE log[l][h]
      BY <1>0, <2>4, <3>1, MovesUp
    <3>3. g # op.to \/ op.name # n
      BY <2>2, <2>6
    <3>4. op.name = n /\ g = op.to - 1
      BY <1>1, <1>3, <3>2, <3>3
    <3>5. log'[n][op.to] = log[n][g] /\ op.to \in 0 .. KeepLogs
      BY <1>1, <2>4, <3>2, <3>4
    <3> QED BY <3>5
  <2> QED BY <2>4, <2>5, <2>6
<1>6. ASSUME NEW p \in Rotators, FileStep(p), pc[p] = "expire"
      PROVE  Expired(log[n][g].mod)
  <2> DEFINE op == rot[p].ops[1]
  <2>1. op = Head(rot[p].ops) /\ op \in Op /\ Len(rot[p].ops) > 0
    BY <1>0, <1>6, TailOps DEF Typed, Rotation, FileStep
  <2>2. Len(rot[p].ops) \in Nat
    BY <1>0 DEF Typed, Rotation
  <2>3. /\ op.do = "remove"
        /\ op.name \notin crossed /\ op.to <= KeepLogs /\ log[op.name][op.to].size > 0
             => Expired(log[op.name][op.to].mod)
    <3>1. 1 \in 1 .. Len(rot[p].ops)
      BY <2>1, <2>2
    <3> QED BY <1>6, <3>1 DEF StoreInv, Expires, IsLog
  <2>4. log' = [log EXCEPT ![op.name][op.to] = Absent]
    BY <1>6, <2>1, <2>3 DEF FileStep
  <2>5. op.name \in Logs /\ op.to \in Generations
    BY <2>1 DEF Op, Generations
  <2> HIDE DEF op
  <2>6. op.name = n /\ g = op.to
    BY <1>4, <2>4, <2>5
  <2>7. n \notin crossed
    BY <1>6, <1>x
  <2> QED BY <2>3, <2>6, <2>7
<1>7. ASSUME NEW p \in Rotators, Trim(p)
      PROVE  \A h \in 0 .. KeepLogs : log'[n][h].size > 0 => log[n][g].mod <= log'[n][h].mod
  <2>x. n \notin crossed
    BY <1>7, <1>x
  <2>1. CountedFiles(p) = {FileOf(f) : f \in Uncrossed} /\ rot[p].files \subseteq File
    BY <1>0, <1>7 DEF Trim, StoreInv, Prunes, Counts, Typed, Rotation
  <2>2. PICK t \in Oldest(rot[p].files) : log' = [log EXCEPT ![t.name][t.gen] = Absent]
    BY <1>7 DEF Trim
  <2>3. t \in rot[p].files /\ \A u \in rot[p].files : t.mod <= u.mod
    BY <2>2 DEF Oldest
  <2>4. /\ t.name = n /\ g = t.gen
        /\ \A h \in 0 .. KeepLogs : log'[n][h].size > 0 => h # g /\ log'[n][h] = log[n][h]
    <3>1. t.name \in Logs /\ t.gen \in Generations
      BY <2>1, <2>3, Constants DEF File
    <3> QED BY <1>4, <2>2, <3>1
  <2>5. t.mod = log[n][g].mod /\ g \in Generations \ {0}
    <3>1. t \in CountedFiles(p)
      BY <2>x, <2>3, <2>4 DEF CountedFiles
    <3>2. PICK f \in Uncrossed : t = FileOf(f)
      BY <2>1, <3>1
    <3> QED BY <2>4, <3>2 DEF FileOf, Uncrossed, Rolled
  <2>6. g # 0 /\ \A h \in 0 .. KeepLogs : log'[n][h].size > 0 => h # g /\ log'[n][h] = log[n][h]
    BY <2>4, <2>5
  <2>7. ASSUME NEW h \in 0 .. KeepLogs, log'[n][h].size > 0
        PROVE  log[n][g].mod <= log[n][h].mod
    <3>1. log[n][h].size > 0
      BY <2>6, <2>7
    <3>2. CASE h = 0
      <4>1. 0 < g /\ 0 \in 0 .. KeepLogs
        BY <1>1, <2>6
      <4> QED BY <1>0, <3>1, <3>2, <4>1 DEF Ordered, IsLog
    <3>3. CASE h # 0
      <4>1. h \in Generations \ {0}
        BY <1>1, <3>3
      <4>2. <<n, h>> \in Uncrossed
        BY <2>x, <3>1, <4>1 DEF Uncrossed, Rolled, IsLog
      <4>3. FileOf(<<n, h>>).mod = log[n][h].mod
        BY DEF FileOf
      <4>4. FileOf(<<n, h>>) \in rot[p].files
        BY <2>1, <4>2 DEF CountedFiles
      <4> QED BY <2>3, <2>5, <2>6, <4>3, <4>4
    <3> QED BY <3>2, <3>3
  <2> QED BY <2>6, <2>7
<1>8. ASSUME NEW m \in Logs, FlatStep(m) PROVE FALSE
  BY <1>0, <1>1, <1>3, <1>8, FlatChanges
<1>9. ASSUME NEW p \in Rotators, RotationStep(p)
      PROVE  FileStep(p) \/ Trim(p)
  BY <1>3, <1>9 DEF RotationStep, Roll, Expire, Gather, Prune, Rotated, RotationFails
<1>10. (\E p \in Rotators : RotationStep(p)) \/ (\E m \in Logs : FlatStep(m))
  <2>1. log' # log
    BY <1>3
  <2>2. ASSUME NEW j \in Jobs, WorkerStep(j) PROVE FALSE
    BY <2>1, <2>2 DEF WorkerStep, Launch, GiveUp, StartWorker, MakeDir, WriteMarker, FirstRecord, EndWorker
  <2>3. ~(Maintain \/ MaintainEnds \/ Recover \/ Retire \/ ClearStep \/ Tick \/ UNCHANGED vars)
    BY <2>1 DEF Maintain, MaintainEnds, Recover, Retire, ClearStep, ClearLooks, ClearLocks,
                Clear, ClearEnds, Tick, vars
  <2>4. ~(\E p \in Processes : Die(p))
    BY <2>1 DEF Die
  <2> QED BY <2>2, <2>3, <2>4 DEF Next
<1>11. ASSUME NEW p \in Rotators, RotationStep(p)
       PROVE  \/ Expired(log[n][g].mod)
              \/ \A h \in 0 .. KeepLogs : log'[n][h].size > 0 => log[n][g].mod <= log'[n][h].mod
  <2>1. CASE FileStep(p)
    <3>1. pc[p] = "roll" \/ pc[p] = "expire"
      BY <2>1 DEF FileStep
    <3> QED BY <1>5, <1>6, <2>1, <3>1
  <2>2. CASE Trim(p)
    BY <1>7, <2>2
  <2> QED BY <1>9, <1>11, <2>1, <2>2
<1> QED BY <1>8, <1>10, <1>11

(* A directory that goes is not younger than one that stays.                  *)
LEMMA DirGoes ==
  ASSUME StoreInv, [Next]_vars, pc[Clearer] # "clearing",
         NEW j \in Jobs, NEW k \in Jobs, dir[j].is # "none", dir'[j].is = "none",
         dir'[k].is \in {"kept", "bare"}, dir[k] = dir'[k]
  PROVE  dir[j].mod <= dir[k].mod
<1> USE Kinds DEF At
<1>0. Typed
  BY DEF StoreInv
<1>1. \A i \in Jobs : dir[i].mod \in Int /\ dir[i].size \in Int
  BY <1>0 DEF Typed, Dir
<1>2. ASSUME NEW p \in Rotators, Prune(p) PROVE dir[j].mod <= dir[k].mod
  <2>0. /\ rot[p].cutoff \in Int /\ rot[p].total \in Int /\ rot[p].remaining \in Int
        /\ LogKeep \in Int /\ MaxTotal \in Int
    <3>1. rot[p] \in Rotation
      BY <1>0 DEF Typed
    <3> QED BY <3>1, StoreAssumption DEF Rotation
  <2>1. rot[p].infos \subseteq {InfoOf(i) : i \in Dirs} /\ Spared(p)
    BY <1>2 DEF Prune, StoreInv, Prunes, Counts
  <2>2. PICK t \in Oldest(rot[p].infos) :
          Dispensable(rot[p], t) /\ dir' = [dir EXCEPT ![t.job] = NoDir]
    <3>1. dir' # dir
      OBVIOUS
    <3> QED BY <1>2, <3>1 DEF Prune
  <2>3. t \in rot[p].infos /\ \A u \in rot[p].infos : t.mod <= u.mod
    BY <2>2 DEF Oldest
  <2>4. PICK i \in Dirs : t = InfoOf(i)
    BY <2>1, <2>3
  <2>5. i \in Jobs /\ t.job = i /\ t.mod = dir[i].mod
    BY <2>4 DEF InfoOf, Dirs
  <2>6. i = j
    BY <1>0, <2>2, <2>5 DEF Typed
  <2>7. k \in Dirs /\ dir[k].is # "active"
    BY DEF Dirs
  <2>8. CASE InfoOf(k) \in rot[p].infos
    BY <2>3, <2>5, <2>6, <2>8 DEF InfoOf
  <2>9. CASE InfoOf(k) \notin rot[p].infos
    <3>1. dir[k].mod >= rot[p].cutoff /\ rot[p].total <= MaxTotal /\ rot[p].remaining <= LogKeep
      BY <2>1, <2>7, <2>9 DEF Spared
    <3>2. t.mod < rot[p].cutoff
      BY <2>0, <2>2, <3>1 DEF Dispensable
    <3> QED BY <1>1, <2>0, <2>5, <2>6, <3>1, <3>2
  <2> QED BY <2>8, <2>9
<1>3. ASSUME NEW p \in Rotators, RotationStep(p) PROVE dir[j].mod <= dir[k].mod
  <2>1. Prune(p)
    BY <1>3 DEF RotationStep, Roll, FileStep, Expire, Gather, Trim, Rotated, RotationFails
  <2> QED BY <1>2, <2>1
<1>4. ASSUME NEW i \in Jobs, WorkerStep(i) PROVE FALSE
  <2>1. CASE MakeDir(i)
    BY <1>0, <2>1 DEF MakeDir, Typed
  <2>2. CASE WriteMarker(i)
    BY <1>0, <2>2 DEF WriteMarker, MarkerWritten, Typed
  <2>3. CASE EndWorker(i)
    <3>1. \A l \in Jobs : dir'[l].is = dir[l].is \/ dir'[l].is = "kept"
      BY <1>0, <2>3 DEF EndWorker, Typed, Dir
    <3> QED BY <3>1
  <2>4. CASE Launch(i) \/ GiveUp(i) \/ StartWorker(i) \/ FirstRecord(i)
    BY <2>4 DEF Launch, GiveUp, StartWorker, FirstRecord
  <2> QED BY <1>4, <2>1, <2>2, <2>3, <2>4 DEF WorkerStep
<1>5. CASE Retire
  <2>1. PICK i \in Jobs : dir' = [dir EXCEPT ![i].is = "kept", ![i].mod = now]
    <3>1. dir' # dir
      OBVIOUS
    <3> QED BY <1>5, <3>1 DEF Retire
  <2> DEFINE d == [dir[i] EXCEPT !.is = "kept", !.mod = now]
  <2>2. dir' = [dir EXCEPT ![i] = d]
    BY <1>0, <2>1 DEF Typed
  <2>3. d.is = "kept"
    BY <1>0 DEF Typed, Dir
  <2> HIDE DEF d
  <2> QED BY <1>0, <2>2, <2>3 DEF Typed
<1>6. CASE Maintain \/ MaintainEnds \/ Recover \/ ClearStep
  BY <1>6 DEF Maintain, MaintainEnds, Recover, ClearStep, ClearLooks, ClearLocks, Clear, ClearEnds
<1>7. CASE (\E n \in Logs : FlatStep(n)) \/ (\E p \in Processes : Die(p)) \/ Tick \/ UNCHANGED vars
  BY <1>7, FlatLeaves DEF Die, Tick, vars
<1> QED BY <1>3, <1>4, <1>5, <1>6, <1>7 DEF Next

(* Younger logs never go before older ones (persist.go:345-357, 405-415),     *)
(* neither directories nor the generations of a flat log that its own writer  *)
(* did not roll since the rotation looked at it, in whatever order deaths,    *)
(* failures and repetitions put the renames and removals.                     *)
THEOREM OldestGoFirst == Spec => OldestFirst
<1>1. ASSUME StoreInv, [Next]_vars, pc[Clearer] # "clearing",
             NEW n \in Logs \ crossed', log'[n][0].size <= log[n][0].size,
             NEW lost \in GenerationTimes(n) \ GenerationTimes(n)'
      PROVE  Expired(lost) \/ \A m \in GenerationTimes(n)' : lost <= m
  <2>1. PICK g \in 0 .. KeepLogs : log[n][g].size > 0 /\ lost = log[n][g].mod
    BY <1>1 DEF GenerationTimes, IsLog
  <2>2. \A m : m \in GenerationTimes(n)' <=>
          \E h \in 0 .. KeepLogs : log'[n][h].size > 0 /\ m = log'[n][h].mod
    BY DEF GenerationTimes, IsLog
  <2>3. \A h \in 0 .. KeepLogs : log'[n][h].size > 0 => log'[n][h].mod # log[n][g].mod
    BY <1>1, <2>1, <2>2
  <2>4. \/ Expired(log[n][g].mod)
        \/ \A h \in 0 .. KeepLogs : log'[n][h].size > 0 => log[n][g].mod <= log'[n][h].mod
    BY <1>1, <2>1, <2>3, LogLoses
  <2> QED BY <2>1, <2>2, <2>4
<1>2. StoreInv /\ [Next]_vars =>
        [pc[Clearer] # "clearing" =>
           /\ \A n \in Logs \ crossed' : log'[n][0].size <= log[n][0].size =>
                \A lost \in GenerationTimes(n) \ GenerationTimes(n)' :
                   Expired(lost) \/ \A m \in GenerationTimes(n)' : lost <= m
           /\ \A j, k \in Jobs :
                /\ dir[j].is # "none" /\ dir'[j].is = "none" /\ dir'[k].is \in {"kept", "bare"}
                /\ dir[k] = dir'[k]
                => dir[j].mod <= dir[k].mod]_vars
  BY <1>1, DirGoes
<1> QED BY StoreInit, StoreStep, <1>2, PTL DEF Spec, OldestFirst
=============================================================================
