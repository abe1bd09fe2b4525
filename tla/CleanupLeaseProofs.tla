--------------------------- MODULE CleanupLeaseProofs ---------------------------
(***************************************************************************)
(* The workers and the clock for any number of workers and tasks and any   *)
(* durations: the lease of a batch, where the batch fits in the greatest   *)
(* duration, and the types and the backoff whether it does or not.         *)
(***************************************************************************)
EXTENDS CleanupLease, Inductions, FiniteSetTheorems, TLAPS

(* A batch that takes all its time, of whatever one claim can find, ends   *)
(* before the greatest duration; the product of the configuration need not. *)
BatchFits ==
    \A S \in SUBSET Task, size \in BatchSizes :
        Cardinality(S) <= size => OperationTimeout * Cardinality(S) <= MaxDuration

--------------------------------------------------------------------------------
(* The inductive invariant. *)

Operating == {"remove", "complete", "retry"}

Steps == Operating \cup {"begin", "claim", "batch", "pause", "returned"}

TableKinds ==
    /\ tasks \subseteq Task /\ disturbed \in [Worker -> SUBSET Task]
    /\ DOMAIN wait = Task
    /\ attempts \in [Task -> Nat]

WorkerKinds ==
    /\ step \in [Worker -> Steps]
    /\ claimed \in [Worker -> [Task -> Nat]]
    /\ current \in [Worker -> Task \cup {NoTask}]
    /\ timer \in [Worker -> Nat]
    /\ age \in [Worker -> Nat]

Kinds == TableKinds /\ WorkerKinds

(* A worker deals with a task it holds, and holds tasks only in a batch. *)
WorkInv ==
    \A w \in Worker : /\ step[w] \in Operating => current[w] \in Held(w)
                      /\ step[w] \notin Operating => current[w] = NoTask
                      /\ Held(w) # {} => step[w] \in Operating \cup {"batch"}

(* The time a worker needs for what it holds. *)
Remaining(w) == IF step[w] = "batch" THEN OperationTimeout * Cardinality(Held(w))
                ELSE timer[w] + OperationTimeout * (Cardinality(Held(w)) - 1)

(* A lease that was not cut short lasts as long as its worker needs it. *)
LeaseInv ==
    \A w \in Worker : \A k \in (Held(w) \cap tasks) \ disturbed[w] :
        wait[k] \in Nat /\ Remaining(w) <= wait[k]

Inv == Kinds /\ WorkInv /\ LeaseInv /\ SharedTaskIsExplained

--------------------------------------------------------------------------------
(* Durations and numbers of tasks. *)

(* Nothing wraps around that fits. *)
LEMMA FitsWidth ==
    ASSUME NEW x \in Nat, x <= MaxDuration
    PROVE  Wrap(x) = x
  <1> DEFINE m == 2 * (MaxDuration + 1)
             y == x + MaxDuration + 1
  <1>1. MaxDuration \in Nat /\ m \in Nat /\ m > 0 /\ y \in 0..(m - 1)
    BY LeaseAssumption
  <1>2. y % m = y
    <2> HIDE DEF m, y
    <2> QED
      BY <1>1, Z3
  <1> QED
    BY <1>1, <1>2 DEF Wrap

(* More operations take more time. *)
LEMMA MoreTakesLonger ==
    ASSUME NEW m \in Nat, NEW n \in Nat, m <= n
    PROVE  /\ OperationTimeout * m \in Nat
           /\ OperationTimeout * m <= OperationTimeout * n
  <1>1. OperationTimeout \in Nat
    BY LeaseAssumption
  <1>2. n - m \in Nat /\ OperationTimeout * n = OperationTimeout * m + OperationTimeout * (n - m)
    BY <1>1, SMTT(30)
  <1>3. OperationTimeout * m \in Nat /\ OperationTimeout * (n - m) \in Nat
    BY <1>1, <1>2
  <1> QED
    BY <1>2, <1>3

(* The lease is a duration, and as long as any part of a batch that fits:  *)
(* it is the product, or the greatest duration where that is less.         *)
LEMMA LeaseCoversBatch ==
    ASSUME NEW size \in BatchSizes
    PROVE  /\ LeaseDuration(size) \in 0..MaxDuration
           /\ \A n \in Nat : n <= size /\ OperationTimeout * n <= MaxDuration
                               => OperationTimeout * n <= LeaseDuration(size)
  <1> DEFINE x == OperationTimeout * size
             q == MaxDuration \div OperationTimeout
  <1>1. OperationTimeout \in Nat /\ OperationTimeout >= 1 /\ size \in Nat /\ MaxDuration \in Nat
    BY LeaseAssumption
  <1>2. CASE size <= q
    <2>1. q \in Nat /\ OperationTimeout * q <= MaxDuration
      BY <1>1, SMTT(30)
    <2>2. x \in Nat /\ x <= OperationTimeout * q /\ OperationTimeout * q \in Nat
      BY <1>1, <1>2, <2>1, MoreTakesLonger
    <2>3. x <= MaxDuration
      <3> DEFINE y == OperationTimeout * q
      <3>1. y \in Nat /\ x <= y /\ y <= MaxDuration
        BY <2>1, <2>2
      <3> HIDE DEF x, y, q
      <3> QED
        BY <1>1, <2>2, <3>1
    <2>4. LeaseDuration(size) = x
      BY <1>2, <2>2, <2>3, FitsWidth DEF LeaseDuration
    <2>5. \A n \in Nat : n <= size => OperationTimeout * n <= x
      BY <1>1, MoreTakesLonger
    <2> HIDE DEF x, q
    <2> QED
      BY <1>1, <2>2, <2>3, <2>4, <2>5
  <1>3. CASE ~(size <= q)
    BY <1>1, <1>3 DEF LeaseDuration
  <1> QED
    BY <1>2, <1>3

(* One operation more takes the time of one operation. *)
LEMMA OneMore ==
    ASSUME NEW n \in Nat, n >= 1
    PROVE  /\ OperationTimeout * n = OperationTimeout + OperationTimeout * (n - 1)
           /\ OperationTimeout * (n - 1) \in Nat
           /\ n >= 2 => OperationTimeout * (n - 1) >= 1
  <1>1. OperationTimeout \in Nat /\ OperationTimeout >= 1
    BY LeaseAssumption
  <1>2. n - 1 \in Nat
    OBVIOUS
  <1>3. OperationTimeout * (n - 1) \in Nat
    BY <1>1, <1>2
  <1>4. n >= 2 => OperationTimeout * 1 <= OperationTimeout * (n - 1)
    BY <1>2, MoreTakesLonger
  <1> QED
    BY <1>1, <1>3, <1>4, SMTT(30)

(* What a worker holds can be counted. *)
LEMMA HeldIsFinite ==
    ASSUME NEW w
    PROVE  /\ IsFiniteSet(Held(w)) /\ Cardinality(Held(w)) \in Nat
           /\ \A k \in Held(w) :
                 /\ Cardinality(Held(w)) >= 1
                 /\ Cardinality(Held(w) \ {k}) = Cardinality(Held(w)) - 1
                 /\ Cardinality(Held(w)) = 1 => Held(w) = {k}
  <1>1. Held(w) \subseteq Task /\ IsFiniteSet(Task)
    BY LeaseAssumption DEF Held
  <1>2. IsFiniteSet(Held(w)) /\ Cardinality(Held(w)) \in Nat
    BY <1>1, FS_Subset, FS_CardinalityType
  <1>3. ASSUME NEW k \in Held(w)
        PROVE  /\ Cardinality(Held(w)) >= 1
               /\ Cardinality(Held(w) \ {k}) = Cardinality(Held(w)) - 1
               /\ Cardinality(Held(w)) = 1 => Held(w) = {k}
    <2>1. /\ IsFiniteSet(Held(w) \ {k})
          /\ Cardinality(Held(w) \ {k}) = Cardinality(Held(w)) - 1
      BY <1>2, <1>3, FS_RemoveElement
    <2>2. Cardinality(Held(w) \ {k}) \in Nat
      BY <2>1, FS_CardinalityType
    <2>3. Cardinality(Held(w)) = 1 => Held(w) \ {k} = {}
      BY <2>1, FS_EmptySet
    <2> QED
      BY <1>2, <1>3, <2>1, <2>2, <2>3
  <1> QED
    BY <1>2, <1>3

(* The time a worker needs is a number; it is out of time only for its     *)
(* last task.                                                              *)
LEMMA OutOfTime ==
    ASSUME Inv, NEW w \in Worker, NEW k \in Held(w)
    PROVE  /\ Remaining(w) \in Nat
           /\ Remaining(w) = 0 => current[w] = k /\ timer[w] = 0
  <1> DEFINE n == Cardinality(Held(w))
  <1>1. n \in Nat /\ n >= 1
    BY HeldIsFinite
  <1>2. /\ OperationTimeout * n = OperationTimeout + OperationTimeout * (n - 1)
        /\ OperationTimeout * (n - 1) \in Nat
        /\ n >= 2 => OperationTimeout * (n - 1) >= 1
    BY <1>1, OneMore
  <1>3. timer[w] \in Nat /\ OperationTimeout \in Nat /\ OperationTimeout >= 1
    BY LeaseAssumption DEF Inv, Kinds, WorkerKinds
  <1>4. CASE step[w] = "batch"
    <2> DEFINE z == OperationTimeout * (n - 1)
    <2>1. Remaining(w) = OperationTimeout + z /\ z \in Nat
      BY <1>2, <1>4 DEF Remaining
    <2> HIDE DEF z, n
    <2> QED
      BY <1>3, <2>1
  <1>5. CASE step[w] # "batch"
    <2> DEFINE z == OperationTimeout * (n - 1)
    <2>1. Remaining(w) = timer[w] + z /\ z \in Nat /\ (n >= 2 => z >= 1)
      BY <1>2, <1>5 DEF Remaining
    <2>2. current[w] \in Held(w)
      BY <1>5 DEF Inv, WorkInv
    <2>3. Remaining(w) \in Nat /\ (Remaining(w) = 0 => timer[w] = 0 /\ n = 1)
      <3> HIDE DEF z, n
      <3> QED
        BY <1>1, <1>3, <2>1
    <2>4. n = 1 => current[w] = k
      BY <2>2, HeldIsFinite
    <2> QED
      BY <2>3, <2>4
  <1> QED
    BY <1>4, <1>5

--------------------------------------------------------------------------------
(* The backoff. *)

(* A wrapped number is a number. *)
LEMMA WrapType ==
    ASSUME NEW x \in Int
    PROVE  Wrap(x) \in Int
  <1> DEFINE m == 2 * (MaxDuration + 1)
             y == x + MaxDuration + 1
  <1>1. MaxDuration \in Nat /\ m \in Int /\ m > 0 /\ y \in Int
    BY LeaseAssumption
  <1>2. y % m \in Int
    <2> HIDE DEF m, y
    <2> QED
      BY <1>1
  <1> QED
    BY <1>1, <1>2 DEF Wrap

(* The powers of two, by what their recursion says. *)
LEMMA PowersOfTwo ==
    /\ PowerOfTwo[0] = 1
    /\ \A n \in Nat : PowerOfTwo[n + 1] = 2 * PowerOfTwo[n]
    /\ \A n \in Nat : PowerOfTwo[n] \in Nat /\ PowerOfTwo[n] >= 1
  <1> DEFINE V == Nat
             turn == [p \in Nat \X V |-> 2 * p[2]]
             Powers(g) == [n \in Nat |-> IF n = 0 THEN 1 ELSE 2 * g[n - 1]]
  <1>1. PICK f : IsNatRecursion(f, V, 1, turn)
    <2>1. 1 \in V /\ IsNatStep(turn, V)
      BY DEF IsNatStep
    <2> HIDE DEF V, turn
    <2> QED
      BY <2>1, NatRecursionExists
  <1>2. f \in [Nat -> V] /\ f[0] = 1
    BY <1>1 DEF IsNatRecursion
  <1>3. ASSUME NEW n \in Nat, n # 0 PROVE f[n] = 2 * f[n - 1]
    <2>1. n - 1 \in Nat
      BY <1>3
    <2>2. << n, f[n - 1] >> \in Nat \X V
      BY <1>2, <2>1
    <2>3. f[n] = turn[<< n, f[n - 1] >>]
      <3> HIDE DEF turn
      <3> QED
        BY <1>1, <1>3 DEF IsNatRecursion
    <2> QED
      BY <2>2, <2>3
  <1>4. f = Powers(f)
    <2> HIDE DEF V
    <2> QED
      BY <1>2, <1>3
  <1>5. PowerOfTwo = Powers(PowerOfTwo)
    <2>1. PowerOfTwo = CHOOSE g : g = Powers(g)
      BY DEF PowerOfTwo
    <2> HIDE DEF Powers
    <2> QED
      BY <1>4, <2>1
  <1>6. PowerOfTwo[0] = 1 /\ \A n \in Nat : n # 0 => PowerOfTwo[n] = 2 * PowerOfTwo[n - 1]
    <2> DEFINE g == PowerOfTwo
    <2>1. g = Powers(g)
      BY <1>5
    <2> HIDE DEF g
    <2>2. \A n \in Nat : g[n] = Powers(g)[n]
      BY <2>1
    <2>3. g[0] = 1 /\ \A n \in Nat : n # 0 => g[n] = 2 * g[n - 1]
      BY <2>2
    <2> QED
      BY <2>3 DEF g
  <1>7. \A n \in Nat : PowerOfTwo[n + 1] = 2 * PowerOfTwo[n]
    <2>1. \A n \in Nat : n + 1 \in Nat /\ n + 1 # 0 /\ (n + 1) - 1 = n
      OBVIOUS
    <2> QED
      BY <1>6, <2>1
  <1>8. \A n \in Nat : PowerOfTwo[n] \in Nat /\ PowerOfTwo[n] >= 1
    <2> DEFINE Good == {n \in Nat : PowerOfTwo[n] \in Nat /\ PowerOfTwo[n] >= 1}
    <2>1. 0 \in Good
      BY <1>6
    <2>2. ASSUME NEW n \in Nat, n \in Good PROVE n + 1 \in Good
      BY <1>7, <2>2
    <2>3. Nat \subseteq Good
      <3> HIDE DEF Good
      <3> QED
        BY <2>1, <2>2, Induction
    <2> QED
      BY <2>3
  <1> QED
    BY <1>6, <1>7, <1>8

(* The delays, by what their recursion says. *)
LEMMA Delays ==
    /\ Delay[1] = InitialBackoff
    /\ \A n \in Nat : n >= 1 =>
          Delay[n + 1] = IF Delay[n] < MaxBackoff THEN Doubled(Delay[n]) ELSE Delay[n]
  <1> DEFINE V == Int
             After(n, d) == IF n <= 1 THEN InitialBackoff
                            ELSE IF d < MaxBackoff THEN Doubled(d) ELSE d
             turn == [p \in Nat \X V |-> After(p[1], p[2])]
             Body(g) == [n \in Nat |-> IF n <= 1 THEN InitialBackoff
                                        ELSE IF g[n - 1] < MaxBackoff THEN Doubled(g[n - 1])
                                        ELSE g[n - 1]]
  <1>1. InitialBackoff \in V /\ \A n \in Nat, d \in V : After(n, d) \in V
    BY LeaseAssumption, WrapType DEF Doubled
  <1>2. PICK f : IsNatRecursion(f, V, InitialBackoff, turn)
    <2>1. IsNatStep(turn, V)
      <3> HIDE DEF V, After
      <3> QED
        BY <1>1 DEF IsNatStep
    <2> HIDE DEF V, turn
    <2> QED
      BY <1>1, <2>1, NatRecursionExists
  <1>3. f \in [Nat -> V] /\ f[0] = InitialBackoff
    BY <1>2 DEF IsNatRecursion
  <1>4. ASSUME NEW n \in Nat, n # 0 PROVE f[n] = After(n, f[n - 1])
    <2>1. n - 1 \in Nat
      BY <1>4
    <2>2. << n, f[n - 1] >> \in Nat \X V
      BY <1>3, <2>1
    <2>3. f[n] = turn[<< n, f[n - 1] >>]
      <3> HIDE DEF turn
      <3> QED
        BY <1>2, <1>4 DEF IsNatRecursion
    <2> HIDE DEF After
    <2> QED
      BY <2>2, <2>3
  <1>5. f = Body(f)
    <2>1. \A n \in Nat : n = 0 => n <= 1
      OBVIOUS
    <2> HIDE DEF V
    <2> QED
      BY <1>3, <1>4, <2>1
  <1>6. Delay = Body(Delay)
    <2>1. Delay = CHOOSE g : g = Body(g)
      BY DEF Delay
    <2> HIDE DEF Body
    <2> QED
      BY <1>5, <2>1
  <1>7. \A n \in Nat : Delay[n] = After(n, Delay[n - 1])
    <2> DEFINE g == Delay
    <2>1. g = Body(g)
      BY <1>6
    <2> HIDE DEF g
    <2>2. \A n \in Nat : g[n] = Body(g)[n]
      BY <2>1
    <2>3. \A n \in Nat : g[n] = After(n, g[n - 1])
      BY <2>2
    <2> QED
      BY <2>3 DEF g
  <1>8. \A n \in Nat : n >= 1 => n + 1 \in Nat /\ ~(n + 1 <= 1) /\ (n + 1) - 1 = n
    OBVIOUS
  <1> QED
    BY <1>7, <1>8

(* The loop stops doubling in time: no delay wraps around, none exceeds the *)
(* greatest, and until then each is twice the one before.                   *)
LEMMA DelayDoubles ==
    ASSUME NEW n \in Nat
    PROVE  Delay[n + 1] = AtMost(InitialBackoff * PowerOfTwo[n], MaxBackoff)
  <1> DEFINE Doubles == {m \in Nat : Delay[m + 1] = AtMost(InitialBackoff * PowerOfTwo[m], MaxBackoff)}
  <1>1. /\ InitialBackoff \in Nat /\ InitialBackoff >= 1 /\ InitialBackoff <= MaxBackoff
        /\ MaxBackoff \in Nat /\ MaxBackoff <= MaxDuration /\ MaxDuration \in Nat
    BY LeaseAssumption
  <1>2. 0 \in Doubles
    <2>1. Delay[0 + 1] = InitialBackoff /\ InitialBackoff * PowerOfTwo[0] = InitialBackoff
      BY <1>1, Delays, PowersOfTwo
    <2> QED
      BY <1>1, <2>1 DEF AtMost
  <1>3. ASSUME NEW m \in Nat, m \in Doubles PROVE m + 1 \in Doubles
    <2> DEFINE p == PowerOfTwo[m]
               x == InitialBackoff * p
               d == Delay[m + 1]
    <2>1. p \in Nat /\ PowerOfTwo[m + 1] = 2 * p
      BY PowersOfTwo
    <2>2. x \in Nat /\ InitialBackoff * PowerOfTwo[m + 1] = 2 * x
      <3> HIDE DEF p
      <3> QED
        BY <1>1, <2>1
    <2>3. d = AtMost(x, MaxBackoff)
      BY <1>3
    <2>4. Delay[(m + 1) + 1] = IF d < MaxBackoff THEN Doubled(d) ELSE d
      BY Delays
    <2> HIDE DEF x, d
    <2>5. CASE ~(x < MaxBackoff)
      BY <1>1, <2>2, <2>3, <2>4, <2>5 DEF AtMost
    <2>6. CASE x < MaxBackoff
      <3>1. d = x /\ Delay[(m + 1) + 1] = Doubled(x)
        BY <2>3, <2>4, <2>6 DEF AtMost
      <3>2. MaxBackoff \div 2 \in Nat /\ 2 * (MaxBackoff \div 2) <= MaxBackoff
            /\ MaxBackoff < 2 * (MaxBackoff \div 2) + 2
        BY <1>1
      <3>3. CASE x > MaxBackoff \div 2
        BY <1>1, <2>2, <3>1, <3>2, <3>3 DEF AtMost, Doubled
      <3>4. CASE ~(x > MaxBackoff \div 2)
        <4>1. x * 2 \in Nat /\ x * 2 <= MaxBackoff /\ x * 2 = 2 * x
          BY <1>1, <2>2, <3>2, <3>4
        <4>2. Wrap(x * 2) = x * 2
          BY <1>1, <4>1, FitsWidth
        <4> QED
          BY <1>1, <2>2, <3>1, <3>4, <4>1, <4>2 DEF AtMost, Doubled
      <3> QED
        BY <3>3, <3>4
    <2> QED
      BY <2>5, <2>6
  <1>4. Nat \subseteq Doubles
    <2> HIDE DEF Doubles
    <2> QED
      BY <1>2, <1>3, Induction
  <1> QED
    BY <1>4

(* The delay that a worker uses, and that it is a duration. *)
LEMMA BackoffDoubles ==
    ASSUME NEW n \in Nat, n >= 1
    PROVE  /\ Backoff(n) = AtMost(InitialBackoff * PowerOfTwo[n - 1], MaxBackoff)
           /\ Backoff(n) \in 0..MaxDuration
  <1> DEFINE x == InitialBackoff * PowerOfTwo[n - 1]
  <1>1. n - 1 \in Nat /\ (n - 1) + 1 = n
    OBVIOUS
  <1>2. Delay[n] = AtMost(x, MaxBackoff)
    BY <1>1, DelayDoubles
  <1>3. MaxBackoff \in Nat /\ MaxBackoff <= MaxDuration /\ MaxDuration \in Nat /\ x \in Nat
    <2>1. PowerOfTwo[n - 1] \in Nat /\ InitialBackoff \in Nat
      BY <1>1, PowersOfTwo, LeaseAssumption
    <2> QED
      BY <2>1, LeaseAssumption
  <1> HIDE DEF x
  <1>4. AtMost(AtMost(x, MaxBackoff), MaxBackoff) = AtMost(x, MaxBackoff)
        /\ AtMost(x, MaxBackoff) \in 0..MaxDuration
    BY <1>3 DEF AtMost
  <1> QED
    BY <1>2, <1>4 DEF Backoff, x

--------------------------------------------------------------------------------
(* Steps of one worker. *)

(* The other workers stand still. *)
OthersWait(w) == \A v \in Worker \ {w} :
    /\ step'[v] = step[v] /\ claimed'[v] = claimed[v]
    /\ current'[v] = current[v] /\ timer'[v] = timer[v]

(* The worker is done with its task, or with everything. *)
Leaves(w) ==
    /\ OthersWait(w)
    /\ \/ Held(w)' = {} /\ step'[w] \in Steps \ Operating
       \/ /\ step[w] \in Operating /\ step'[w] = "batch"
          /\ Held(w)' = Held(w) \ {current[w]}
    /\ current'[w] = NoTask

(* It puts off no task that somebody holds undisturbed. *)
LetsGo(w) ==
    /\ Leaves(w)
    /\ tasks' \subseteq tasks /\ \A v \in Worker : disturbed[v] \subseteq disturbed'[v]
    /\ \A v \in Worker : \A k \in (Held(v)' \cap tasks') \ disturbed'[v] : wait'[k] = wait[k]

(* Letting go leaves the invariant as it is. *)
LEMMA LettingGo ==
    ASSUME Inv, Kinds', NEW w \in Worker, LetsGo(w)
    PROVE  Inv'
  <1>1. \A v \in Worker \ {w} : Held(v)' = Held(v)
    BY DEF LetsGo, Leaves, OthersWait, Held
  <1>2. Held(w)' \subseteq Held(w)
    BY DEF LetsGo, Leaves
  <1>3. step[w] \in Operating => current[w] \in Held(w)
    BY DEF Inv, WorkInv
  <1>4. WorkInv'
    <2> SUFFICES ASSUME NEW v \in Worker
                 PROVE  /\ step'[v] \in Operating => current'[v] \in Held(v)'
                        /\ step'[v] \notin Operating => current'[v] = NoTask
                        /\ Held(v)' # {} => step'[v] \in Operating \cup {"batch"}
      BY DEF WorkInv
    <2>1. CASE v = w
      BY <2>1 DEF LetsGo, Leaves, Operating
    <2>2. CASE v # w
      BY <1>1, <2>2 DEF LetsGo, Leaves, OthersWait, Inv, WorkInv
    <2> QED
      BY <2>1, <2>2
  <1>5. LeaseInv'
    <2> SUFFICES ASSUME NEW v \in Worker, NEW k \in (Held(v)' \cap tasks') \ disturbed'[v]
                 PROVE  wait'[k] \in Nat /\ Remaining(v)' <= wait'[k]
      BY DEF LeaseInv
    <2>1. k \in Held(v) /\ k \in tasks /\ k \notin disturbed[v] /\ wait'[k] = wait[k]
      BY <1>1, <1>2 DEF LetsGo, Leaves
    <2>2. wait[k] \in Nat /\ Remaining(v) <= wait[k]
      BY <2>1 DEF Inv, LeaseInv
    <2>3. CASE v # w
      <3>1. Remaining(v)' = Remaining(v)
        BY <1>1, <2>3 DEF LetsGo, Leaves, OthersWait, Remaining
      <3> QED
        BY <2>1, <2>2, <3>1
    <2>4. CASE v = w
      <3>1. /\ step[w] \in Operating /\ step'[w] = "batch" /\ step[w] # "batch"
            /\ Held(w)' = Held(w) \ {current[w]} /\ current[w] \in Held(w)
        BY <1>3, <2>4 DEF LetsGo, Leaves, Operating
      <3>2. Remaining(w)' = OperationTimeout * (Cardinality(Held(w)) - 1)
        BY <3>1, HeldIsFinite DEF Remaining
      <3>3. Remaining(w) = timer[w] + OperationTimeout * (Cardinality(Held(w)) - 1)
        BY <3>1 DEF Remaining
      <3>4. timer[w] \in Nat /\ OperationTimeout * (Cardinality(Held(w)) - 1) \in Nat
        BY <3>1, HeldIsFinite, OneMore DEF Inv, Kinds, WorkerKinds
      <3>5. Remaining(w)' <= Remaining(w) /\ Remaining(w)' \in Nat /\ Remaining(w) \in Nat
        BY <3>2, <3>3, <3>4
      <3> QED
        BY <2>1, <2>2, <2>4, <3>5
    <2> QED
      BY <2>3, <2>4
  <1>6. SharedTaskIsExplained'
    <2> SUFFICES ASSUME NEW u \in Worker, NEW v \in Worker, NEW k \in Held(u)' \cap Held(v)',
                        u # v, k \notin disturbed'[u] \cup disturbed'[v]
                 PROVE  \E x \in {u, v} : current'[x] = k /\ timer'[x] = 0
      BY DEF SharedTaskIsExplained
    <2>1. k \in Held(u) \cap Held(v) /\ k \notin disturbed[u] \cup disturbed[v]
      BY <1>1, <1>2 DEF LetsGo, Leaves
    <2>2. PICK x \in {u, v} : current[x] = k /\ timer[x] = 0
      BY <2>1 DEF Inv, SharedTaskIsExplained
    <2>3. x # w
      <3> SUFFICES ASSUME x = w PROVE FALSE
        OBVIOUS
      <3>1. k \in Held(w)' /\ current[w] = k
        BY <2>2
      <3>2. Held(w)' = {} \/ Held(w)' = Held(w) \ {current[w]}
        BY DEF LetsGo, Leaves
      <3> QED
        BY <3>1, <3>2
    <2> QED
      BY <2>2, <2>3 DEF LetsGo, Leaves, OthersWait
  <1> QED
    BY <1>4, <1>5, <1>6 DEF Inv

(* After its task a worker goes on, pauses or begins again. *)
LEMMA NextTaskLeaves ==
    ASSUME Inv, NEW w \in Worker, NEW from \in Operating, NEW e, NextTask(w, from, e)
    PROVE  Leaves(w) /\ WorkerKinds'
  <1> DEFINE k == current[w]
  <1>1. WorkerKinds /\ PollInterval \in Nat
    BY LeaseAssumption DEF Inv, Kinds
  <1>2. step[w] = from /\ from \notin {"batch", "pause", "begin"}
    BY DEF NextTask, WorkTo, Operating
  <1>3. k \in Held(w) /\ k \in Task
    BY <1>2 DEF Inv, WorkInv, Held
  <1>4. claimed' = [claimed EXCEPT ![w][k] = 0]
    BY DEF NextTask, Forget
  <1>5. Held(w)' = Held(w) \ {k}
    BY <1>1, <1>3, <1>4 DEF Held, WorkerKinds
  <1>6. current' = [current EXCEPT ![w] = NoTask] /\ age' = [age EXCEPT ![w] = 0]
    BY DEF NextTask, Forget
  <1>7. \/ Held(w) # {k} /\ step' = [step EXCEPT ![w] = "batch"] /\ timer' = [timer EXCEPT ![w] = 0]
        \/ /\ Held(w) = {k} /\ step' = [step EXCEPT ![w] = "pause"]
           /\ timer' = [timer EXCEPT ![w] = PollInterval]
        \/ /\ Held(w) = {k} /\ step' = [step EXCEPT ![w] = "begin"]
           /\ timer' = [timer EXCEPT ![w] = 0]
    BY DEF NextTask, WorkTo, Pause
  <1>8. WorkerKinds'
    <2>1. claimed' \in [Worker -> [Task -> Nat]]
      <3> DEFINE f == [claimed[w] EXCEPT ![k] = 0]
      <3>1. claimed[w] \in [Task -> Nat] /\ claimed \in [Worker -> [Task -> Nat]]
        BY <1>1 DEF WorkerKinds
      <3>2. f \in [Task -> Nat]
        BY <3>1
      <3>3. claimed' = [claimed EXCEPT ![w] = f]
        BY <1>4
      <3> HIDE DEF f
      <3> QED
        BY <3>1, <3>2, <3>3
    <2>2. step' \in [Worker -> Steps] /\ timer' \in [Worker -> Nat]
      <3>1. \E to \in Steps : step' = [step EXCEPT ![w] = to]
        BY <1>7 DEF Steps
      <3>2. \E n \in Nat : timer' = [timer EXCEPT ![w] = n]
        BY <1>1, <1>7
      <3> QED
        BY <1>1, <3>1, <3>2 DEF WorkerKinds
    <2>3. current' \in [Worker -> Task \cup {NoTask}] /\ age' \in [Worker -> Nat]
      BY <1>1, <1>6 DEF WorkerKinds
    <2> QED
      BY <2>1, <2>2, <2>3 DEF WorkerKinds
  <1>9. OthersWait(w) /\ current'[w] = NoTask
    BY <1>1, <1>4, <1>6, <1>7 DEF OthersWait, WorkerKinds
  <1>10. step'[w] = "batch" \/ (Held(w) = {k} /\ step'[w] \in {"pause", "begin"})
    BY <1>1, <1>7 DEF WorkerKinds
  <1> QED
    BY <1>2, <1>5, <1>8, <1>9, <1>10 DEF Leaves, Steps, Operating

(* A worker whose context is cancelled drops its batch. *)
LEMMA ReturnLeaves ==
    ASSUME Inv, NEW w \in Worker, NEW from, Return(w, from)
    PROVE  Leaves(w) /\ WorkerKinds'
  <1>1. WorkerKinds
    BY DEF Inv, Kinds
  <1>2. WorkerKinds'
    BY <1>1 DEF Return, WorkTo, WorkerKinds, Steps, Nobody
  <1>3. OthersWait(w) /\ current'[w] = NoTask /\ step'[w] = "returned" /\ claimed'[w] = Nobody
    BY <1>1 DEF Return, WorkTo, WorkerKinds, OthersWait
  <1>4. Held(w)' = {}
    BY <1>3 DEF Held, Nobody
  <1> QED
    BY <1>2, <1>3, <1>4 DEF Leaves, Steps, Operating

(* An instance that starts again holds nothing. *)
LEMMA StartAgainLeaves ==
    ASSUME Inv, NEW w \in Worker, StartAgain(w)
    PROVE  Leaves(w) /\ WorkerKinds'
  <1>1. WorkerKinds
    BY DEF Inv, Kinds
  <1>2. WorkerKinds'
    BY <1>1 DEF StartAgain, WorkerKinds, Steps, Nobody
  <1>3. OthersWait(w) /\ current'[w] = NoTask /\ step'[w] = "begin" /\ claimed'[w] = Nobody
    BY <1>1 DEF StartAgain, WorkerKinds, OthersWait
  <1>4. Held(w)' = {}
    BY <1>3 DEF Held, Nobody
  <1> QED
    BY <1>2, <1>3, <1>4 DEF Leaves, Steps, Operating

(* While the tables stand still, leaving is letting go. *)
LEMMA LeavingQuietly ==
    ASSUME Inv, NEW w \in Worker, Leaves(w), WorkerKinds', UNCHANGED << outbox, disturbed >>
    PROVE  Inv'
  <1>1. Kinds' /\ LetsGo(w)
    BY DEF Inv, Kinds, TableKinds, LetsGo, outbox
  <1> QED
    BY <1>1, LettingGo

--------------------------------------------------------------------------------
(* The invariant holds at first and every step keeps it. *)

(* Nobody holds anything. *)
LEMMA InitInv == Init => Inv
  <1> SUFFICES ASSUME Init PROVE Inv
    OBVIOUS
  <1>1. \A w \in Worker : Held(w) = {} /\ step[w] = "begin" /\ current[w] = NoTask
    BY DEF Init, Held, Nobody
  <1>2. Kinds
    BY DEF Init, Nobody, Kinds, TableKinds, WorkerKinds, Steps
  <1> QED
    BY <1>1, <1>2 DEF Inv, WorkInv, LeaseInv, SharedTaskIsExplained, Operating

(* Time passes for leases and operations alike, unless the lease is cut    *)
(* short.                                                                  *)
LEMMA TickInv == ASSUME Inv, Tick PROVE Inv'
  <1>1. Kinds /\ OperationTimeout \in Nat
    BY LeaseAssumption DEF Inv
  <1>2. /\ step' = step /\ claimed' = claimed /\ current' = current /\ tasks' = tasks
        /\ \A w : Held(w)' = Held(w)
    BY DEF Tick, batch, Held
  <1>3. /\ \A k \in Task : wait'[k] = LeftOf(wait[k], 1)
        /\ \A w \in Worker : timer'[w] = LeftOf(timer[w], 1)
        /\ \A w \in Worker : disturbed[w] \subseteq disturbed'[w]
    BY DEF Tick
  <1>4. \A w \in Worker : Delayed(w) => Held(w) \subseteq disturbed'[w]
    BY DEF Tick
  <1>5. Kinds'
    <2>1. TableKinds'
      BY <1>1, <1>2 DEF Tick, Kinds, TableKinds, Held
    <2>2. timer' \in [Worker -> Nat] /\ age' \in [Worker -> Nat]
      BY <1>1, LeaseAssumption DEF Tick, Kinds, WorkerKinds, LeftOf, AtMost
    <2> QED
      BY <1>1, <1>2, <2>1, <2>2 DEF Kinds, WorkerKinds
  <1>6. WorkInv'
    BY <1>2 DEF Inv, WorkInv
  <1>7. LeaseInv'
    <2> SUFFICES ASSUME NEW w \in Worker, NEW k \in (Held(w) \cap tasks) \ disturbed'[w]
                 PROVE  wait'[k] \in Nat /\ Remaining(w)' <= wait'[k]
      BY <1>2 DEF LeaseInv
    <2>1. k \in Task /\ k \notin disturbed[w] /\ ~Delayed(w) /\ step[w] \in Operating
      BY <1>3, <1>4 DEF Held, Inv, WorkInv, Delayed
    <2>2. timer[w] \in Nat /\ timer[w] > 0 /\ step[w] # "batch"
      BY <1>1, <2>1 DEF Tick, MayLetTimePass, Statement, Delayed, Operating, Kinds, WorkerKinds
    <2> DEFINE z == OperationTimeout * (Cardinality(Held(w)) - 1)
    <2>3. z \in Nat
      BY HeldIsFinite, OneMore
    <2>4. Remaining(w) = timer[w] + z /\ Remaining(w)' = timer'[w] + z
      BY <1>2, <2>2 DEF Remaining
    <2>5. wait[k] \in Nat /\ Remaining(w) <= wait[k]
      BY <2>1 DEF Inv, LeaseInv
    <2>6. wait'[k] = LeftOf(wait[k], 1) /\ timer'[w] = LeftOf(timer[w], 1)
      BY <1>3, <2>1
    <2> HIDE DEF z
    <2> QED
      BY <2>2, <2>3, <2>4, <2>5, <2>6 DEF LeftOf
  <1>8. SharedTaskIsExplained'
    <2> SUFFICES ASSUME NEW u \in Worker, NEW v \in Worker, NEW k \in Held(u) \cap Held(v),
                        u # v, k \notin disturbed'[u] \cup disturbed'[v]
                 PROVE  \E x \in {u, v} : current[x] = k /\ timer'[x] = 0
      BY <1>2 DEF SharedTaskIsExplained
    <2>1. PICK x \in {u, v} : current[x] = k /\ timer[x] = 0
      BY <1>3 DEF Inv, SharedTaskIsExplained
    <2> QED
      BY <1>3, <2>1 DEF LeftOf
  <1> QED
    BY <1>5, <1>6, <1>7, <1>8 DEF Inv

(* A worker that changes neither what it holds nor whether it is in a      *)
(* batch.                                                                  *)
LEMMA KeepsBatch ==
    ASSUME Inv, NEW w \in Worker, WorkerKinds', UNCHANGED << outbox, claimed, current, timer, disturbed >>,
           \A v \in Worker \ {w} : step'[v] = step[v],
           \/ step[w] \in Operating /\ step'[w] \in Operating
           \/ step[w] \notin Operating \cup {"batch"} /\ step'[w] \notin Operating \cup {"batch"}
           \/ step'[w] = step[w]
    PROVE  Inv'
  <1>1. /\ tasks' = tasks /\ disturbed' = disturbed /\ current' = current /\ timer' = timer
        /\ wait' = wait /\ \A v : Held(v)' = Held(v)
    BY DEF outbox, Held
  <1>2. \A v \in Worker : /\ step'[v] \in Operating <=> step[v] \in Operating
                          /\ step'[v] = "batch" <=> step[v] = "batch"
    BY DEF Operating
  <1>3. \A v \in Worker : Remaining(v)' = Remaining(v)
    BY <1>1, <1>2 DEF Remaining
  <1>4. Kinds'
    BY DEF Inv, Kinds, TableKinds, outbox
  <1>5. WorkInv'
    BY <1>1, <1>2 DEF Inv, WorkInv
  <1>6. LeaseInv'
    BY <1>1, <1>3 DEF Inv, LeaseInv
  <1>7. SharedTaskIsExplained'
    BY <1>1 DEF Inv, SharedTaskIsExplained
  <1> QED
    BY <1>4, <1>5, <1>6, <1>7 DEF Inv

(* A lease leaves every undisturbed holder the time it needs: those it     *)
(* takes a task from are out of time.                                      *)
LEMMA LeaseInTime ==
    ASSUME Inv, NEW w \in Worker, NEW S \in SUBSET Due, NEW size \in BatchSizes,
           Lease(w, S, size)
    PROVE  /\ tasks' = tasks /\ DOMAIN wait' = Task /\ attempts' \in [Task -> Nat]
           /\ \A v \in Worker : \A k \in (Held(v) \cap tasks) \ disturbed[v] :
                 wait'[k] \in Nat /\ Remaining(v) <= wait'[k]
  <1>1. /\ tasks' = tasks
        /\ attempts' = [k \in Task |-> IF k \in S THEN AtMost(attempts[k] + 1, MaxAttempts)
                                       ELSE attempts[k]]
        /\ wait' = [k \in Task |-> IF k \in S THEN LeftOf(LeaseDuration(size), age[w]) ELSE wait[k]]
    BY DEF Lease
  <1>2. LeftOf(LeaseDuration(size), age[w]) \in Nat
    BY LeaseCoversBatch, LeaseAssumption DEF LeftOf, Inv, Kinds, WorkerKinds
  <1>3. attempts' \in [Task -> Nat]
    BY <1>1, LeaseAssumption DEF AtMost, Inv, Kinds, TableKinds
  <1>4. ASSUME NEW v \in Worker, NEW k \in (Held(v) \cap tasks) \ disturbed[v]
        PROVE  wait'[k] \in Nat /\ Remaining(v) <= wait'[k]
    <2>1. k \in Task /\ wait[k] \in Nat /\ Remaining(v) <= wait[k]
      BY DEF Inv, LeaseInv, Held
    <2>2. Remaining(v) \in Nat
      BY OutOfTime
    <2>3. k \in S => wait[k] = 0
      BY DEF Due
    <2> QED
      BY <1>1, <1>2, <2>1, <2>2, <2>3
  <1> QED
    BY <1>1, <1>3, <1>4

(* A claim takes only what nobody holds, or holds out of time.             *)
LEMMA ClaimInv ==
    ASSUME Inv, BatchFits, NEW w \in Worker, NEW S \in SUBSET Due, NEW size \in BatchSizes,
           Claim(w, S, size)
    PROVE  Inv'
  <1>1. WorkerKinds /\ NoTask \notin Task /\ PollInterval \in Nat
    BY LeaseAssumption DEF Inv, Kinds
  <1>2. step[w] = "claim" /\ Held(w) = {} /\ current[w] = NoTask
    BY DEF Claim, WorkTo, Inv, WorkInv, Operating
  <1>3. current' = current /\ age' = [age EXCEPT ![w] = 0]
    BY DEF Claim, batch
  <1>4. CASE /\ WorkTo(w, "claim", "batch") /\ Lease(w, S, size)
             /\ claimed' = [claimed EXCEPT ![w] = [k \in Task |-> IF k \in S THEN attempts'[k] ELSE 0]]
             /\ disturbed' = [disturbed EXCEPT ![w] = IF age[w] > 0 THEN S ELSE {}]
             /\ UNCHANGED timer
    <2>1. step' = [step EXCEPT ![w] = "batch"]
      BY <1>4 DEF WorkTo
    <2>2. /\ tasks' = tasks /\ DOMAIN wait' = Task /\ attempts' \in [Task -> Nat]
          /\ \A v \in Worker : \A k \in (Held(v) \cap tasks) \ disturbed[v] :
                wait'[k] \in Nat /\ Remaining(v) <= wait'[k]
      BY <1>4, LeaseInTime
    <2>0. /\ disturbed'[w] = IF age[w] > 0 THEN S ELSE {}
          /\ \A v \in Worker \ {w} : disturbed'[v] = disturbed[v]
      BY <1>4 DEF Inv, Kinds, TableKinds
    <2>3. \A k \in S : k \in Task /\ k \in tasks /\ wait[k] = 0 /\ attempts'[k] > 0
      BY <1>4, LeaseAssumption DEF Lease, AtMost, Due, Inv, Kinds, TableKinds
    <2>4. Held(w)' = S /\ \A v \in Worker \ {w} : Held(v)' = Held(v)
      BY <1>1, <1>4, <2>3 DEF Held, WorkerKinds
    <2>5. Kinds'
      <3>1. TableKinds'
        BY <1>4, <2>2, <2>3 DEF Inv, Kinds, TableKinds
      <3>2. claimed' \in [Worker -> [Task -> Nat]]
        BY <1>1, <1>4, <2>2 DEF WorkerKinds
      <3> QED
        BY <1>1, <1>3, <1>4, <2>1, <3>1, <3>2 DEF Kinds, WorkerKinds, Steps
    <2>6. WorkInv'
      BY <1>1, <1>2, <1>3, <2>1, <2>4 DEF Inv, WorkInv, WorkerKinds, Operating
    <2>7. LeaseInv'
      <3> SUFFICES ASSUME NEW v \in Worker, NEW k \in (Held(v)' \cap tasks) \ disturbed'[v]
                   PROVE  wait'[k] \in Nat /\ Remaining(v)' <= wait'[k]
        BY <2>2 DEF LeaseInv
      <3>1. CASE v = w
        <4>1. age[w] = 0 /\ k \in S /\ k \in Task
          BY <1>1, <2>0, <2>3, <2>4, <3>1 DEF WorkerKinds
        <4>2. wait'[k] = LeaseDuration(size) /\ LeaseDuration(size) \in Nat
          BY <1>4, <4>1, LeaseCoversBatch, LeaseAssumption DEF Lease, LeftOf
        <4>3. Remaining(w)' = OperationTimeout * Cardinality(S)
          BY <1>1, <2>1, <2>4 DEF Remaining, WorkerKinds
        <4>4. Cardinality(S) \in Nat /\ Cardinality(S) <= size /\ size \in Nat
          <5>1. S \subseteq Task /\ IsFiniteSet(Task)
            BY <2>3, LeaseAssumption
          <5>2. IsFiniteSet(S)
            BY <5>1, FS_Subset
          <5>3. size \in Nat
            BY LeaseAssumption
          <5> QED
            BY <5>2, <5>3, FS_CardinalityType DEF Claim, Claimable
        <4>5. OperationTimeout * Cardinality(S) <= MaxDuration
          BY <2>3, <4>4 DEF BatchFits
        <4> QED
          BY <3>1, <4>2, <4>3, <4>4, <4>5, LeaseCoversBatch
      <3>2. CASE v # w
        <4>1. Remaining(v)' = Remaining(v)
          BY <1>1, <1>4, <2>1, <2>4, <3>2 DEF Remaining, WorkerKinds
        <4> QED
          BY <2>0, <2>2, <2>4, <3>2, <4>1
      <3> QED
        BY <3>1, <3>2
    <2>8. SharedTaskIsExplained'
      <3>1. ASSUME NEW u \in Worker \ {w}, NEW k \in Held(u), k \in S, k \notin disturbed'[u]
            PROVE  current[u] = k /\ timer[u] = 0
        <4>1. k \in tasks /\ wait[k] = 0 /\ k \notin disturbed[u]
          BY <2>0, <2>3, <3>1
        <4>2. Remaining(u) <= 0
          BY <4>1 DEF Inv, LeaseInv
        <4> QED
          BY <4>2, OutOfTime
      <3> SUFFICES ASSUME NEW u \in Worker, NEW v \in Worker, NEW k \in Held(u)' \cap Held(v)',
                          u # v, k \notin disturbed'[u] \cup disturbed'[v]
                   PROVE  \E x \in {u, v} : current[x] = k /\ timer[x] = 0
        BY <1>3, <1>4 DEF SharedTaskIsExplained
      <3>2. CASE u = w
        BY <2>4, <3>1, <3>2
      <3>3. CASE v = w
        BY <2>4, <3>1, <3>3
      <3>4. CASE u # w /\ v # w
        BY <2>0, <2>4, <3>4 DEF Inv, SharedTaskIsExplained
      <3> QED
        BY <3>2, <3>3, <3>4
    <2> QED
      BY <2>5, <2>6, <2>7, <2>8 DEF Inv
  <1>5. CASE /\ WorkTo(w, "claim", "pause") /\ Pause(w) /\ UNCHANGED << claimed, disturbed >>
             /\ Lease(w, S, size) \/ UNCHANGED outbox
    <2>1. step' = [step EXCEPT ![w] = "pause"] /\ timer' = [timer EXCEPT ![w] = PollInterval]
      BY <1>5 DEF WorkTo, Pause
    <2>2. /\ TableKinds' /\ tasks' = tasks
          /\ \A v \in Worker : \A k \in (Held(v) \cap tasks) \ disturbed[v] :
                wait'[k] \in Nat /\ Remaining(v) <= wait'[k]
      <3>1. CASE Lease(w, S, size)
        BY <1>5, <3>1, LeaseInTime DEF Inv, Kinds, TableKinds
      <3>2. CASE UNCHANGED outbox
        BY <1>5, <3>2 DEF outbox, Inv, Kinds, TableKinds, LeaseInv
      <3> QED
        BY <1>5, <3>1, <3>2
    <2>3. \A v : Held(v)' = Held(v)
      BY <1>5 DEF Held
    <2>4. Kinds'
      BY <1>1, <1>3, <1>5, <2>1, <2>2 DEF Kinds, WorkerKinds, Steps
    <2>5. WorkInv'
      BY <1>1, <1>2, <1>3, <2>1, <2>3 DEF Inv, WorkInv, WorkerKinds, Operating
    <2>6. LeaseInv'
      <3> SUFFICES ASSUME NEW v \in Worker, NEW k \in (Held(v) \cap tasks) \ disturbed[v]
                   PROVE  wait'[k] \in Nat /\ Remaining(v)' <= wait'[k]
        BY <1>5, <2>2, <2>3 DEF LeaseInv
      <3>1. v # w
        BY <1>2
      <3>2. Remaining(v)' = Remaining(v)
        BY <1>1, <2>1, <2>3, <3>1 DEF Remaining, WorkerKinds
      <3> QED
        BY <2>2, <3>2
    <2>7. SharedTaskIsExplained'
      <3> SUFFICES ASSUME NEW u \in Worker, NEW v \in Worker, NEW k \in Held(u) \cap Held(v),
                          u # v, k \notin disturbed'[u] \cup disturbed'[v]
                   PROVE  \E x \in {u, v} : current[x] = k /\ timer'[x] = 0
        BY <1>3, <2>3 DEF SharedTaskIsExplained
      <3>1. u # w /\ v # w /\ k \notin disturbed[u] \cup disturbed[v]
        BY <1>2, <1>5
      <3> QED
        BY <1>1, <2>1, <3>1 DEF Inv, SharedTaskIsExplained, WorkerKinds
    <2> QED
      BY <2>4, <2>5, <2>6, <2>7 DEF Inv
  <1> QED
    BY <1>4, <1>5 DEF Claim, batch

(* The time of one operation begins for the next task. *)
LEMMA StartTaskInv ==
    ASSUME Inv, NEW w \in Worker, NEW k \in Task, StartTask(w, k)
    PROVE  Inv'
  <1>1. WorkerKinds /\ OperationTimeout \in Nat /\ NoTask \notin Task
    BY LeaseAssumption DEF Inv, Kinds
  <1>2. /\ k \in Held(w) /\ step[w] = "batch" /\ step' = [step EXCEPT ![w] = "remove"]
        /\ current' = [current EXCEPT ![w] = k] /\ timer' = [timer EXCEPT ![w] = OperationTimeout]
    BY DEF StartTask, WorkTo
  <1>3. /\ tasks' = tasks /\ wait' = wait /\ attempts' = attempts /\ disturbed' = disturbed
        /\ claimed' = claimed /\ age' = age /\ \A v : Held(v)' = Held(v)
    BY DEF StartTask, outbox, Held
  <1>4. current[w] = NoTask
    BY <1>2 DEF Inv, WorkInv, Operating
  <1>5. Kinds'
    BY <1>1, <1>2, <1>3 DEF Inv, Kinds, TableKinds, WorkerKinds, Steps, Operating
  <1>6. WorkInv'
    BY <1>1, <1>2, <1>3 DEF Inv, WorkInv, WorkerKinds, Operating
  <1>7. \A v \in Worker : Held(v) # {} => Remaining(v)' = Remaining(v)
    <2> SUFFICES ASSUME NEW v \in Worker, Held(v) # {} PROVE Remaining(v)' = Remaining(v)
      OBVIOUS
    <2>1. CASE v = w
      <3> DEFINE n == Cardinality(Held(w))
      <3>1. n \in Nat /\ n >= 1
        BY <1>2, HeldIsFinite
      <3>2. Remaining(w)' = OperationTimeout + OperationTimeout * (n - 1)
        BY <1>1, <1>2, <1>3 DEF Remaining, WorkerKinds
      <3>3. Remaining(w) = OperationTimeout * n
        BY <1>2 DEF Remaining
      <3> QED
        BY <2>1, <3>1, <3>2, <3>3, OneMore
    <2>2. CASE v # w
      BY <1>1, <1>2, <1>3, <2>2 DEF Remaining, WorkerKinds
    <2> QED
      BY <2>1, <2>2
  <1>8. LeaseInv'
    BY <1>3, <1>7 DEF Inv, LeaseInv
  <1>9. SharedTaskIsExplained'
    <2> SUFFICES ASSUME NEW u \in Worker, NEW v \in Worker, NEW j \in Held(u) \cap Held(v),
                        u # v, j \notin disturbed[u] \cup disturbed[v]
                 PROVE  \E x \in {u, v} : current'[x] = j /\ timer'[x] = 0
      BY <1>3 DEF SharedTaskIsExplained
    <2>1. PICK x \in {u, v} : current[x] = j /\ timer[x] = 0
      BY DEF Inv, SharedTaskIsExplained
    <2>2. x # w
      BY <1>1, <1>4, <2>1 DEF Held
    <2> QED
      BY <1>1, <1>2, <2>1, <2>2 DEF WorkerKinds
  <1> QED
    BY <1>5, <1>6, <1>8, <1>9 DEF Inv

(* An error ends the batch or the task. *)
LEMMA ErrorLeaves ==
    ASSUME Inv, NEW w \in Worker, NEW from \in Operating, Error(w, from)
    PROVE  Leaves(w) /\ WorkerKinds'
  BY ReturnLeaves, NextTaskLeaves DEF Error

(* The removal ends: the task is in hand until the table has been told. *)
LEMMA RemoveEndsInv ==
    ASSUME Inv, NEW w \in Worker, RemoveEnds(w)
    PROVE  Inv'
  <1>1. WorkerKinds /\ UNCHANGED << outbox, disturbed >>
    BY DEF Inv, Kinds, RemoveEnds
  <1>2. CASE /\ \/ WorkTo(w, "remove", "complete") /\ UNCHANGED age
                \/ WorkTo(w, "remove", "retry") /\ ReadClock(w)
             /\ UNCHANGED << batch, timer >>
    <2>1. /\ step[w] = "remove" /\ \E to \in {"complete", "retry"} : step' = [step EXCEPT ![w] = to]
          /\ claimed' = claimed /\ current' = current /\ timer' = timer
      BY <1>2 DEF WorkTo, batch
    <2>2. age' \in [Worker -> Nat]
      BY <1>1, <1>2, LeaseAssumption DEF ReadClock, WorkerKinds
    <2>3. WorkerKinds'
      BY <1>1, <2>1, <2>2 DEF WorkerKinds, Steps, Operating
    <2>4. step'[w] \in Operating /\ step[w] \in Operating
          /\ \A v \in Worker \ {w} : step'[v] = step[v]
      BY <1>1, <2>1 DEF WorkerKinds, Operating
    <2> QED
      BY <1>1, <2>1, <2>3, <2>4, KeepsBatch
  <1>3. CASE Error(w, "remove")
    BY <1>1, <1>3, ErrorLeaves, LeavingQuietly DEF Operating
  <1> QED
    BY <1>2, <1>3 DEF RemoveEnds

(* A task that is completed is gone for everybody. *)
LEMMA CompleteTaskInv ==
    ASSUME Inv, NEW w \in Worker, CompleteTask(w)
    PROVE  Inv'
  <1>1. Leaves(w) /\ WorkerKinds'
    BY ErrorLeaves, NextTaskLeaves DEF CompleteTask, Operating
  <1>2. CASE Complete(w)
    <2>1. TableKinds'
      BY <1>2 DEF Complete, Inv, Kinds, TableKinds
    <2>2. LetsGo(w)
      BY <1>1, <1>2 DEF LetsGo, Complete, Inv, Kinds, TableKinds, Held
    <2> QED
      BY <1>1, <2>1, <2>2, LettingGo DEF Kinds
  <1>3. CASE UNCHANGED << outbox, disturbed >>
    BY <1>1, <1>3, LeavingQuietly
  <1> QED
    BY <1>2, <1>3 DEF CompleteTask

(* A task is put off that nobody else holds, or it is disturbed. *)
LEMMA RetryTaskInv ==
    ASSUME Inv, NEW w \in Worker, RetryTask(w)
    PROVE  Inv'
  <1>1. Leaves(w) /\ WorkerKinds'
    BY ErrorLeaves, NextTaskLeaves DEF RetryTask, Operating
  <1>2. CASE PutOff(w)
    <2> DEFINE k == current[w]
    <2>1. step[w] \in Operating /\ k \in Held(w)
      BY DEF RetryTask, NextTask, Error, Return, WorkTo, Operating, Inv, WorkInv
    <2>2. /\ tasks' = tasks /\ attempts' = attempts
          /\ \A v \in Worker : disturbed[v] \subseteq disturbed'[v]
          /\ \A v \in Worker \ {w} : k \in Held(v) \cap tasks => k \in disturbed'[v]
          /\ \A j \in Task : j # k => wait'[j] = wait[j]
          /\ DOMAIN wait' = DOMAIN wait
      BY <1>2 DEF PutOff
    <2>7. disturbed' \in [Worker -> SUBSET Task]
      BY <1>2, <2>1 DEF PutOff, Held, Inv, Kinds, TableKinds
    <2>3. TableKinds'
      BY <2>2, <2>7 DEF Inv, Kinds, TableKinds
    <2>4. k \notin Held(w)'
      BY <1>1, <2>1 DEF Leaves
    <2>5. \A v \in Worker \ {w} : Held(v)' = Held(v)
      BY <1>1 DEF Leaves, OthersWait, Held
    <2>6. LetsGo(w)
      BY <1>1, <2>2, <2>4, <2>5 DEF LetsGo, Held
    <2> QED
      BY <1>1, <2>3, <2>6, LettingGo DEF Kinds
  <1>3. CASE UNCHANGED << outbox, disturbed >>
    BY <1>1, <1>3, LeavingQuietly
  <1> QED
    BY <1>2, <1>3 DEF RetryTask

(* Every step keeps the invariant. *)
LEMMA NextInv == ASSUME BatchFits PROVE Inv /\ [Next]_vars => Inv'
  <1> SUFFICES ASSUME Inv, [Next]_vars PROVE Inv'
    OBVIOUS
  <1>1. CASE Tick
    BY <1>1, TickInv
  <1>2. ASSUME NEW w \in Worker, BeginBatch(w) PROVE Inv'
    <2>1. WorkerKinds
      BY DEF Inv, Kinds
    <2>2. age' \in [Worker -> Nat]
      BY <1>2, <2>1, LeaseAssumption DEF BeginBatch, ReadClock, WorkerKinds
    <2>3. /\ WorkerKinds' /\ step[w] = "begin" /\ step'[w] = "claim"
          /\ \A v \in Worker \ {w} : step'[v] = step[v]
      BY <1>2, <2>1, <2>2 DEF BeginBatch, WorkTo, batch, WorkerKinds, Steps
    <2> QED
      BY <1>2, <2>3, KeepsBatch DEF BeginBatch, batch, Operating
  <1>3. ASSUME NEW w \in Worker, NEW S \in SUBSET Due, NEW size \in BatchSizes, Claim(w, S, size)
        PROVE Inv'
    BY <1>3, ClaimInv
  <1>4. ASSUME NEW w \in Worker, NEW k \in Task, StartTask(w, k) PROVE Inv'
    BY <1>4, StartTaskInv
  <1>5. ASSUME NEW w \in Worker, RemoveEnds(w) PROVE Inv'
    BY <1>5, RemoveEndsInv
  <1>6. ASSUME NEW w \in Worker, CompleteTask(w) PROVE Inv'
    BY <1>6, CompleteTaskInv
  <1>7. ASSUME NEW w \in Worker, RetryTask(w) PROVE Inv'
    BY <1>7, RetryTaskInv
  <1>8. ASSUME NEW w \in Worker, EndPause(w) PROVE Inv'
    <2>1. WorkerKinds
      BY DEF Inv, Kinds
    <2>2. /\ WorkerKinds' /\ step[w] = "pause" /\ step'[w] = "begin"
          /\ \A v \in Worker \ {w} : step'[v] = step[v]
      BY <1>8, <2>1 DEF EndPause, WorkTo, batch, clocks, WorkerKinds, Steps
    <2> QED
      BY <1>8, <2>2, KeepsBatch DEF EndPause, batch, clocks, Operating
  <1>9. ASSUME NEW w \in Worker, ReturnAtOnce(w) PROVE Inv'
    BY <1>9, ReturnLeaves, LeavingQuietly DEF ReturnAtOnce
  <1>10. ASSUME NEW w \in Worker, Stop(w) PROVE Inv'
    <2>1. WorkerKinds'
      BY <1>10 DEF Stop, batch, clocks, Inv, Kinds, WorkerKinds
    <2> QED
      BY <1>10, <2>1, KeepsBatch DEF Stop, batch, clocks
  <1>11. ASSUME NEW w \in Worker, Restart(w) \/ Crash(w) PROVE Inv'
    <2>1. StartAgain(w) /\ UNCHANGED << outbox, disturbed >>
      BY <1>11 DEF Restart, Crash, StartAgain
    <2> QED
      BY <2>1, StartAgainLeaves, LeavingQuietly
  <1>12. CASE UNCHANGED vars
    <2>1. /\ UNCHANGED << tasks, wait, attempts, step, claimed, current, timer, age, disturbed >>
          /\ \A w : Held(w)' = Held(w) /\ Remaining(w)' = Remaining(w)
      BY <1>12 DEF vars, outbox, batch, clocks, Held, Remaining
    <2>2. Kinds' /\ WorkInv'
      BY <2>1 DEF Inv, Kinds, TableKinds, WorkerKinds, WorkInv
    <2>3. LeaseInv' /\ SharedTaskIsExplained'
      BY <2>1 DEF Inv, LeaseInv, SharedTaskIsExplained
    <2> QED
      BY <2>2, <2>3 DEF Inv
  <1> QED
    BY <1>1, <1>2, <1>3, <1>4, <1>5, <1>6, <1>7, <1>8, <1>9, <1>10, <1>11, <1>12 DEF Next, WorkNext

--------------------------------------------------------------------------------
(* Types.  They hold whether a batch fits or not. *)

(* A worker that is not dealing with a task has none in hand. *)
EmptyHanded == \A w \in Worker : step[w] \notin Operating => current[w] = NoTask

TableTypes ==
    /\ tasks \subseteq Task
    /\ wait \in [Task -> Duration]
    /\ attempts \in [Task -> 0..MaxAttempts]
    /\ disturbed \in [Worker -> SUBSET Task]

WorkerTypes ==
    /\ step \in [Worker -> Steps]
    /\ claimed \in [Worker -> [Task -> 0..MaxAttempts]]
    /\ current \in [Worker -> Task \cup {NoTask}]
    /\ \A w \in Worker : current[w] # NoTask => claimed[w][current[w]] > 0
    /\ timer \in [Worker -> Duration]
    /\ age \in [Worker -> Nat]
    /\ failed \in [Worker -> BOOLEAN]

LifeTypes ==
    /\ stopped \in [Worker -> BOOLEAN]
    /\ stops \in 0..MaxStops

TypeInv == TableTypes /\ WorkerTypes /\ LifeTypes /\ EmptyHanded

(* What is left of a duration is one. *)
LEMMA LeftOfIsDuration ==
    ASSUME NEW x \in Int, x <= MaxDuration, NEW n \in Nat
    PROVE  LeftOf(x, n) \in Duration
  BY LeaseAssumption DEF LeftOf, Duration

(* The types hold at first. *)
LEMMA InitTypes == Init => TypeInv
  <1> SUFFICES ASSUME Init PROVE TypeInv
    OBVIOUS
  <1>1. 0 \in Duration /\ 0 \in 0..MaxAttempts /\ 0 \in 0..MaxStops
    BY LeaseAssumption DEF Duration
  <1> QED
    BY <1>1 DEF Init, Nobody, TypeInv, TableTypes, WorkerTypes, LifeTypes, EmptyHanded, Steps

(* Time passes: timers and waits stay durations. *)
LEMMA TickTypes ==
    ASSUME TypeInv, Tick
    PROVE  TypeInv'
  <1>1. TableTypes /\ WorkerTypes /\ LifeTypes /\ EmptyHanded /\ MaxDuration \in Nat
    BY LeaseAssumption DEF TypeInv
  <1>2. /\ tasks' = tasks /\ attempts' = attempts /\ step' = step /\ claimed' = claimed
        /\ current' = current /\ failed' = failed /\ stopped' = stopped /\ stops' = stops
    BY DEF Tick, batch, life
  <1>3. wait' \in [Task -> Duration]
    <2>1. ASSUME NEW k \in Task PROVE LeftOf(wait[k], 1) \in Duration
      <3>1. wait[k] \in Int /\ wait[k] <= MaxDuration
        BY <1>1 DEF TableTypes, Duration
      <3> QED
        BY <3>1, LeftOfIsDuration
    <2> QED
      BY <2>1 DEF Tick
  <1>4. timer' \in [Worker -> Duration]
    <2>1. ASSUME NEW w \in Worker PROVE LeftOf(timer[w], 1) \in Duration
      <3>1. timer[w] \in Int /\ timer[w] <= MaxDuration
        BY <1>1 DEF WorkerTypes, Duration
      <3> QED
        BY <3>1, LeftOfIsDuration
    <2> QED
      BY <2>1 DEF Tick
  <1>5. age' \in [Worker -> Nat]
    <2>1. \A w \in Worker : AtMost(age[w] + 1, MaxDuration) \in Nat
      BY <1>1 DEF WorkerTypes, AtMost
    <2> QED
      BY <2>1 DEF Tick
  <1>6. disturbed' \in [Worker -> SUBSET Task]
    BY <1>1 DEF Tick, TableTypes, Held
  <1>7. TableTypes'
    BY <1>1, <1>2, <1>3, <1>6 DEF TableTypes
  <1>8. WorkerTypes'
    BY <1>1, <1>2, <1>4, <1>5 DEF WorkerTypes
  <1>9. LifeTypes' /\ EmptyHanded'
    BY <1>1, <1>2 DEF LifeTypes, EmptyHanded
  <1> QED
    BY <1>7, <1>8, <1>9 DEF TypeInv

(* A step from one point of an iteration to the next. *)
LEMMA StepTypes ==
    ASSUME TypeInv, NEW w \in Worker, NEW from, NEW to \in Steps, WorkTo(w, from, to)
    PROVE  /\ step[w] = from /\ step' \in [Worker -> Steps] /\ LifeTypes'
           /\ step'[w] = to /\ \A v \in Worker \ {w} : step'[v] = step[v]
  BY DEF TypeInv, WorkerTypes, LifeTypes, WorkTo, life

(* A clock that is behind has an age. *)
LEMMA ClockTypes ==
    ASSUME TypeInv, NEW w \in Worker, ReadClock(w)
    PROVE  age' \in [Worker -> Nat]
  BY LeaseAssumption DEF TypeInv, WorkerTypes, ReadClock

(* A lease is a duration, and every task in it has been attempted. *)
LEMMA LeaseTypes ==
    ASSUME TypeInv, NEW w \in Worker, NEW S \in SUBSET Task, NEW size \in BatchSizes,
           Lease(w, S, size)
    PROVE  /\ tasks' \subseteq Task /\ wait' \in [Task -> Duration]
           /\ attempts' \in [Task -> 0..MaxAttempts] /\ \A k \in S : attempts'[k] > 0
  <1>1. TableTypes /\ age[w] \in Nat /\ MaxAttempts \in Nat /\ MaxAttempts >= 1
    BY LeaseAssumption DEF TypeInv, WorkerTypes
  <1>2. \A k \in Task : AtMost(attempts[k] + 1, MaxAttempts) \in 1..MaxAttempts
    BY <1>1 DEF TableTypes, AtMost
  <1>3. attempts' \in [Task -> 0..MaxAttempts] /\ \A k \in S : attempts'[k] > 0
    BY <1>1, <1>2 DEF Lease, TableTypes
  <1>4. LeftOf(LeaseDuration(size), age[w]) \in Duration
    BY <1>1, LeaseCoversBatch, LeftOfIsDuration, LeaseAssumption
  <1>5. wait' \in [Task -> Duration]
    BY <1>1, <1>4 DEF Lease, TableTypes
  <1> QED
    BY <1>1, <1>3, <1>5 DEF Lease, TableTypes

(* A claim starts a batch or a pause. *)
LEMMA ClaimTypes ==
    ASSUME TypeInv, NEW w \in Worker, NEW S \in SUBSET Due, NEW size \in BatchSizes,
           Claim(w, S, size)
    PROVE  TypeInv'
  <1>1. TableTypes /\ WorkerTypes /\ EmptyHanded /\ S \subseteq Task /\ PollInterval \in Duration
    BY LeaseAssumption DEF TypeInv, TableTypes, Due, Duration
  <1>2. age' \in [Worker -> Nat]
    BY <1>1 DEF Claim, WorkerTypes
  <1>3. step[w] = "claim"
    BY DEF Claim, WorkTo
  <1>4. current[w] = NoTask
    BY <1>1, <1>3 DEF EmptyHanded, Operating
  <1>5. CASE /\ WorkTo(w, "claim", "batch")
             /\ Lease(w, S, size)
             /\ claimed' = [claimed EXCEPT ![w] = [k \in Task |-> IF k \in S THEN attempts'[k] ELSE 0]]
             /\ disturbed' = [disturbed EXCEPT ![w] = IF age[w] > 0 THEN S ELSE {}]
             /\ UNCHANGED << timer, current, failed >>
    <2>1. step' \in [Worker -> Steps] /\ LifeTypes' /\ \A v \in Worker \ {w} : step'[v] = step[v]
      BY <1>5, StepTypes DEF Steps
    <2>2. TableTypes'
      BY <1>1, <1>5, LeaseTypes DEF TableTypes
    <2>3. 0 \in 0..MaxAttempts
      BY LeaseAssumption
    <2>4. claimed' \in [Worker -> [Task -> 0..MaxAttempts]]
      BY <1>1, <1>5, <2>2, <2>3 DEF WorkerTypes, TableTypes
    <2>5. \A v \in Worker : current[v] # NoTask => claimed'[v][current[v]] > 0
      BY <1>1, <1>4, <1>5 DEF WorkerTypes
    <2>6. WorkerTypes'
      BY <1>1, <1>2, <1>5, <2>1, <2>4, <2>5 DEF WorkerTypes
    <2>7. EmptyHanded'
      BY <1>1, <1>4, <1>5, <2>1 DEF EmptyHanded
    <2> QED
      BY <2>1, <2>2, <2>6, <2>7 DEF TypeInv
  <1>6. CASE /\ WorkTo(w, "claim", "pause")
             /\ Pause(w)
             /\ Lease(w, S, size) \/ UNCHANGED outbox
             /\ UNCHANGED << batch, disturbed >>
    <2>1. step' \in [Worker -> Steps] /\ LifeTypes' /\ \A v \in Worker \ {w} : step'[v] = step[v]
      BY <1>6, StepTypes DEF Steps
    <2>2. TableTypes'
      <3>1. CASE Lease(w, S, size)
        BY <1>1, <1>6, <3>1, LeaseTypes DEF TableTypes
      <3>2. CASE UNCHANGED outbox
        BY <1>1, <1>6, <3>2 DEF TableTypes, outbox
      <3> QED
        BY <1>6, <3>1, <3>2
    <2>3. timer' \in [Worker -> Duration]
      BY <1>1, <1>6 DEF Pause, WorkerTypes
    <2>4. WorkerTypes'
      BY <1>1, <1>2, <1>6, <2>1, <2>3 DEF WorkerTypes, batch
    <2>5. EmptyHanded'
      BY <1>1, <1>4, <1>6, <2>1 DEF EmptyHanded, batch
    <2> QED
      BY <2>1, <2>2, <2>4, <2>5 DEF TypeInv
  <1> QED
    BY <1>5, <1>6 DEF Claim

(* After its task the worker has none in hand. *)
LEMMA NextTaskTypes ==
    ASSUME TypeInv, NEW w \in Worker, NEW from, NEW e \in BOOLEAN, NextTask(w, from, e)
    PROVE  WorkerTypes' /\ LifeTypes' /\ EmptyHanded'
  <1>1. WorkerTypes /\ LifeTypes /\ EmptyHanded /\ PollInterval \in Duration
        /\ 0 \in Duration /\ 0 \in 0..MaxAttempts
    BY LeaseAssumption DEF TypeInv, Duration
  <1>2. /\ claimed' = [claimed EXCEPT ![w][current[w]] = 0]
        /\ current' = [current EXCEPT ![w] = NoTask] /\ age' = [age EXCEPT ![w] = 0]
        /\ failed' \in [Worker -> BOOLEAN]
    BY <1>1 DEF NextTask, Forget, WorkerTypes
  <1>3. PICK to \in {"batch", "pause", "begin"} :
            WorkTo(w, from, to) /\ timer' \in [Worker -> Duration]
    BY <1>1 DEF NextTask, Pause, WorkerTypes
  <1>4. /\ step' \in [Worker -> Steps] /\ LifeTypes' /\ \A v \in Worker \ {w} : step'[v] = step[v]
    BY <1>3, StepTypes DEF Steps
  <1>5. claimed' \in [Worker -> [Task -> 0..MaxAttempts]]
    <2> DEFINE f == [claimed[w] EXCEPT ![current[w]] = 0]
    <2>1. claimed[w] \in [Task -> 0..MaxAttempts] /\ claimed \in [Worker -> [Task -> 0..MaxAttempts]]
      BY <1>1 DEF WorkerTypes
    <2>2. f \in [Task -> 0..MaxAttempts] /\ claimed' = [claimed EXCEPT ![w] = f]
      BY <1>1, <1>2, <2>1
    <2> HIDE DEF f
    <2> QED
      BY <2>1, <2>2
  <1>6. current' \in [Worker -> Task \cup {NoTask}] /\ age' \in [Worker -> Nat]
        /\ current'[w] = NoTask /\ \A v \in Worker \ {w} : current'[v] = current[v]
    BY <1>1, <1>2 DEF WorkerTypes
  <1>7. \A v \in Worker : current'[v] # NoTask => claimed'[v][current'[v]] > 0
    <2>1. \A v \in Worker \ {w} : claimed'[v] = claimed[v]
      BY <1>1, <1>2 DEF WorkerTypes
    <2> QED
      BY <1>1, <1>6, <2>1 DEF WorkerTypes
  <1>8. WorkerTypes'
    BY <1>2, <1>3, <1>4, <1>5, <1>6, <1>7 DEF WorkerTypes
  <1>9. EmptyHanded'
    BY <1>1, <1>4, <1>6 DEF EmptyHanded
  <1> QED
    BY <1>4, <1>8, <1>9

(* The worker forgets everything. *)
Drops(w) ==
    /\ claimed' = [claimed EXCEPT ![w] = Nobody]
    /\ current' = [current EXCEPT ![w] = NoTask]
    /\ failed' = [failed EXCEPT ![w] = FALSE]
    /\ timer' = [timer EXCEPT ![w] = 0]
    /\ age' = [age EXCEPT ![w] = 0]

(* Nor when it has forgotten its batch. *)
LEMMA DropsTypes ==
    ASSUME TypeInv, NEW w \in Worker, Drops(w), NEW to \in Steps, step' = [step EXCEPT ![w] = to]
    PROVE  WorkerTypes' /\ EmptyHanded'
  <1>1. WorkerTypes /\ EmptyHanded /\ 0 \in Duration /\ 0 \in 0..MaxAttempts
    BY LeaseAssumption DEF TypeInv, Duration
  <1>2. Nobody \in [Task -> 0..MaxAttempts]
    BY <1>1 DEF Nobody
  <1>3. claimed' \in [Worker -> [Task -> 0..MaxAttempts]]
    <2> DEFINE V == [Task -> 0..MaxAttempts]
    <2>1. claimed \in [Worker -> V] /\ Nobody \in V
      BY <1>1, <1>2 DEF WorkerTypes
    <2> HIDE DEF V
    <2>2. claimed' \in [Worker -> V]
      BY <2>1 DEF Drops
    <2> QED
      BY <2>2 DEF V
  <1>4. current'[w] = NoTask /\ \A v \in Worker \ {w} : /\ current'[v] = current[v]
                                                         /\ claimed'[v] = claimed[v]
                                                         /\ step'[v] = step[v]
    BY <1>1 DEF Drops, WorkerTypes
  <1>5. \A v \in Worker : current'[v] # NoTask => claimed'[v][current'[v]] > 0
    BY <1>1, <1>4 DEF WorkerTypes
  <1>6. WorkerTypes'
    BY <1>1, <1>3, <1>5 DEF Drops, WorkerTypes
  <1>7. EmptyHanded'
    BY <1>1, <1>4 DEF EmptyHanded
  <1> QED
    BY <1>6, <1>7

(* It forgets the batch when it returns, *)
LEMMA ReturnTypes ==
    ASSUME TypeInv, NEW w \in Worker, NEW from, Return(w, from)
    PROVE  WorkerTypes' /\ LifeTypes' /\ EmptyHanded'
  <1>1. Drops(w) /\ step' = [step EXCEPT ![w] = "returned"] /\ LifeTypes'
    BY DEF Return, Drops, WorkTo, life, TypeInv, LifeTypes
  <1> QED
    BY <1>1, DropsTypes DEF Steps

(* when it starts again, *)
LEMMA StartAgainTypes ==
    ASSUME TypeInv, NEW w \in Worker, StartAgain(w), stops' \in 0..MaxStops
    PROVE  TypeInv'
  <1>1. Drops(w) /\ step' = [step EXCEPT ![w] = "begin"] /\ LifeTypes'
    BY DEF StartAgain, Drops, TypeInv, LifeTypes
  <1>2. TableTypes'
    BY DEF StartAgain, outbox, TypeInv, TableTypes
  <1> QED
    BY <1>1, <1>2, DropsTypes DEF Steps, TypeInv

(* and with an error if it has been stopped. *)
LEMMA ErrorTypes ==
    ASSUME TypeInv, NEW w \in Worker, NEW from, Error(w, from)
    PROVE  WorkerTypes' /\ LifeTypes' /\ EmptyHanded'
  BY ReturnTypes, NextTaskTypes DEF Error

(* What a task is put off by is a duration: the backoff for the attempts   *)
(* that the worker has claimed, less the age of its clock.                 *)
LEMMA PutOffTypes ==
    ASSUME TypeInv, NEW w \in Worker, PutOff(w)
    PROVE  /\ TableTypes'
           /\ current[w] \in tasks =>
                 /\ claimed[w][current[w]] \in Nat /\ claimed[w][current[w]] >= 1
                 /\ wait'[current[w]] = LeftOf(Backoff(claimed[w][current[w]]), age[w])
           /\ current[w] \notin tasks => wait' = wait
  <1> DEFINE k == current[w]
             n == claimed[w][k]
  <1>1. TableTypes /\ WorkerTypes
    BY DEF TypeInv
  <1>2. ASSUME k \in tasks PROVE k \in Task /\ n \in Nat /\ n >= 1 /\ age[w] \in Nat
    <2>1. k \in Task /\ k # NoTask
      BY <1>1, <1>2, LeaseAssumption DEF TableTypes
    <2>2. n > 0 /\ n \in 0..MaxAttempts
      BY <1>1, <2>1 DEF WorkerTypes
    <2> QED
      BY <1>1, <2>1, <2>2, LeaseAssumption DEF WorkerTypes
  <1>3. CASE k \in tasks
    <2>1. Backoff(n) \in 0..MaxDuration
      BY <1>2, <1>3, BackoffDoubles
    <2>2. LeftOf(Backoff(n), age[w]) \in Duration
      BY <1>2, <1>3, <2>1, LeftOfIsDuration
    <2>3. wait' = [wait EXCEPT ![k] = LeftOf(Backoff(n), age[w])]
      BY <1>3 DEF PutOff
    <2> HIDE DEF n
    <2>4. TableTypes'
      BY <1>1, <1>2, <1>3, <2>2, <2>3 DEF PutOff, TableTypes
    <2>5. wait'[k] = LeftOf(Backoff(n), age[w])
      BY <1>1, <1>2, <1>3, <2>3 DEF TableTypes
    <2> QED
      BY <1>2, <1>3, <2>4, <2>5 DEF n
  <1>4. CASE k \notin tasks
    <2>1. wait' = wait /\ tasks' = tasks /\ attempts' = attempts
      BY <1>4 DEF PutOff
    <2>2. disturbed' \in [Worker -> SUBSET Task]
      BY <1>1 DEF PutOff, TableTypes, Held
    <2> QED
      BY <1>1, <1>4, <2>1, <2>2 DEF TableTypes
  <1> QED
    BY <1>3, <1>4

(* Every step keeps the types. *)
LEMMA NextTypes == TypeInv /\ [Next]_vars => TypeInv'
  <1> SUFFICES ASSUME TypeInv, [Next]_vars PROVE TypeInv'
    OBVIOUS
  <1>0. TableTypes /\ WorkerTypes /\ LifeTypes /\ EmptyHanded /\ OperationTimeout \in Duration
        /\ NoTask \notin Task /\ 0 \in Duration /\ 0 \in 0..MaxAttempts
    BY LeaseAssumption DEF TypeInv, Duration
  <1>a. UNCHANGED << outbox, disturbed >> => TableTypes'
    BY <1>0 DEF TableTypes, outbox
  <1>1. CASE Tick
    BY <1>1, TickTypes
  <1>2. ASSUME NEW w \in Worker, BeginBatch(w) PROVE TypeInv'
    <2>1. /\ step[w] = "begin" /\ step' \in [Worker -> Steps] /\ LifeTypes'
          /\ step'[w] = "claim" /\ \A v \in Worker \ {w} : step'[v] = step[v]
      BY <1>2, StepTypes DEF BeginBatch, Steps
    <2>2. age' \in [Worker -> Nat]
      BY <1>2, ClockTypes DEF BeginBatch
    <2>3. WorkerTypes' /\ EmptyHanded'
      BY <1>0, <1>2, <2>1, <2>2 DEF BeginBatch, batch, WorkerTypes, EmptyHanded, Operating
    <2> QED
      BY <1>2, <1>a, <2>1, <2>3 DEF BeginBatch, TypeInv
  <1>3. ASSUME NEW w \in Worker, NEW S \in SUBSET Due, NEW size \in BatchSizes, Claim(w, S, size)
        PROVE TypeInv'
    BY <1>3, ClaimTypes
  <1>4. ASSUME NEW w \in Worker, NEW k \in Task, StartTask(w, k) PROVE TypeInv'
    <2>1. /\ step' \in [Worker -> Steps] /\ LifeTypes'
          /\ step'[w] = "remove" /\ \A v \in Worker \ {w} : step'[v] = step[v]
      BY <1>4, StepTypes DEF StartTask, Steps, Operating
    <2>2. current' = [current EXCEPT ![w] = k] /\ claimed[w][k] > 0
      BY <1>4 DEF StartTask, Held
    <2>3. WorkerTypes' /\ EmptyHanded'
      BY <1>0, <1>4, <2>1, <2>2 DEF StartTask, WorkerTypes, EmptyHanded, Operating
    <2> QED
      BY <1>4, <1>a, <2>1, <2>3 DEF StartTask, TypeInv
  <1>5. ASSUME NEW w \in Worker, RemoveEnds(w) PROVE TypeInv'
    <2>1. TableTypes'
      BY <1>5, <1>a DEF RemoveEnds
    <2>2. CASE Error(w, "remove")
      BY <2>1, <2>2, ErrorTypes DEF TypeInv
    <2>3. CASE /\ \/ WorkTo(w, "remove", "complete") /\ UNCHANGED age
                  \/ WorkTo(w, "remove", "retry") /\ ReadClock(w)
               /\ UNCHANGED << batch, timer >>
      <3>1. /\ step[w] = "remove" /\ step' \in [Worker -> Steps] /\ LifeTypes'
            /\ step'[w] \in Operating /\ \A v \in Worker \ {w} : step'[v] = step[v]
        BY <2>3, StepTypes DEF Steps, Operating
      <3>2. age' \in [Worker -> Nat]
        BY <1>0, <2>3, ClockTypes DEF WorkerTypes
      <3>3. WorkerTypes' /\ EmptyHanded'
        BY <1>0, <2>3, <3>1, <3>2 DEF batch, WorkerTypes, EmptyHanded
      <3> QED
        BY <2>1, <3>1, <3>3 DEF TypeInv
    <2> QED
      BY <1>5, <2>2, <2>3 DEF RemoveEnds
  <1>6. ASSUME NEW w \in Worker, CompleteTask(w) PROVE TypeInv'
    <2>1. WorkerTypes' /\ LifeTypes' /\ EmptyHanded'
      BY <1>6, ErrorTypes, NextTaskTypes DEF CompleteTask
    <2>2. TableTypes'
      <3>1. CASE Complete(w)
        BY <1>0, <3>1 DEF Complete, TableTypes
      <3>2. CASE UNCHANGED << outbox, disturbed >>
        BY <1>a, <3>2
      <3> QED
        BY <1>6, <3>1, <3>2 DEF CompleteTask
    <2> QED
      BY <2>1, <2>2 DEF TypeInv
  <1>7. ASSUME NEW w \in Worker, RetryTask(w) PROVE TypeInv'
    <2>1. WorkerTypes' /\ LifeTypes' /\ EmptyHanded'
      BY <1>7, ErrorTypes, NextTaskTypes DEF RetryTask
    <2>2. TableTypes'
      <3>1. CASE PutOff(w)
        BY <3>1, PutOffTypes
      <3>2. CASE UNCHANGED << outbox, disturbed >>
        BY <1>a, <3>2
      <3> QED
        BY <1>7, <3>1, <3>2 DEF RetryTask
    <2> QED
      BY <2>1, <2>2 DEF TypeInv
  <1>8. ASSUME NEW w \in Worker, EndPause(w) PROVE TypeInv'
    <2>1. /\ step[w] = "pause" /\ step' \in [Worker -> Steps] /\ LifeTypes'
          /\ step'[w] = "begin" /\ \A v \in Worker \ {w} : step'[v] = step[v]
      BY <1>8, StepTypes DEF EndPause, Steps
    <2>2. WorkerTypes' /\ EmptyHanded'
      BY <1>0, <1>8, <2>1 DEF EndPause, batch, clocks, WorkerTypes, EmptyHanded, Operating
    <2> QED
      BY <1>8, <1>a, <2>1, <2>2 DEF EndPause, TypeInv
  <1>9. ASSUME NEW w \in Worker, ReturnAtOnce(w) PROVE TypeInv'
    BY <1>9, <1>a, ReturnTypes DEF ReturnAtOnce, TypeInv
  <1>10. ASSUME NEW w \in Worker, Stop(w) PROVE TypeInv'
    <2>1. LifeTypes'
      BY <1>0, <1>10, LeaseAssumption DEF Stop, LifeTypes
    <2>2. WorkerTypes' /\ EmptyHanded'
      BY <1>0, <1>10 DEF Stop, batch, clocks, WorkerTypes, EmptyHanded
    <2> QED
      BY <1>10, <1>a, <2>1, <2>2 DEF Stop, TypeInv
  <1>11. ASSUME NEW w \in Worker, Restart(w) \/ Crash(w) PROVE TypeInv'
    <2>1. stops' \in 0..MaxStops
      BY <1>0, <1>11, LeaseAssumption DEF Restart, Crash, LifeTypes
    <2> QED
      BY <1>11, <2>1, StartAgainTypes DEF Restart, Crash
  <1>12. CASE UNCHANGED vars
    BY <1>0, <1>12 DEF vars, outbox, batch, clocks, life, TypeInv, TableTypes, WorkerTypes,
                       LifeTypes, EmptyHanded
  <1> QED
    BY <1>1, <1>2, <1>3, <1>4, <1>5, <1>6, <1>7, <1>8, <1>9, <1>10, <1>11, <1>12 DEF Next, WorkNext

--------------------------------------------------------------------------------
(* The backoff of a retry. *)

(* RetriesBackOff for one worker. *)
RetryBacksOff(w) ==
    LET k == current[w]
        delay == AtMost(InitialBackoff * PowerOfTwo[claimed[w][k] - 1], MaxBackoff)
    IN  step[w] = "retry" /\ step'[w] # "retry" /\ wait'[k] # wait[k]
            => wait'[k] = LeftOf(delay, age[w])

(* Only a step of the worker itself takes it away from a retry. *)
LEMMA StepOfAnother ==
    ASSUME TypeInv, NEW v \in Worker, NEW w \in Worker, v # w, WorkNext(v) \/ Stop(v) \/ Restart(v) \/ Crash(v)
    PROVE  step'[w] = step[w]
  <1>1. step \in [Worker -> Steps]
    BY DEF TypeInv, WorkerTypes
  <1>2. \A from, to : WorkTo(v, from, to) => step'[w] = step[w]
    BY <1>1 DEF WorkTo
  <1>3. \A from : Return(v, from) => step'[w] = step[w]
    BY <1>2 DEF Return
  <1>4. \A from, e : NextTask(v, from, e) => step'[w] = step[w]
    BY <1>2 DEF NextTask
  <1>5. \A from : Error(v, from) => step'[w] = step[w]
    BY <1>3, <1>4 DEF Error
  <1>6. StartAgain(v) => step'[w] = step[w]
    BY <1>1 DEF StartAgain
  <1> QED
    BY <1>2, <1>3, <1>4, <1>5, <1>6 DEF WorkNext, BeginBatch, Claim, StartTask, RemoveEnds, CompleteTask,
        RetryTask, EndPause, ReturnAtOnce, Stop, Restart, Crash

(* A step that ends a retry and moves its task moves it by the backoff. *)
LEMMA RetryStep ==
    ASSUME TypeInv, [Next]_vars, NEW w \in Worker
    PROVE  RetryBacksOff(w)
  <1> DEFINE k == current[w]
             n == claimed[w][k]
  <1> SUFFICES ASSUME step[w] = "retry", step'[w] # "retry", wait'[k] # wait[k]
               PROVE  wait'[k] = LeftOf(AtMost(InitialBackoff * PowerOfTwo[n - 1], MaxBackoff), age[w])
    BY DEF RetryBacksOff
  <1>1. PICK v \in Worker : WorkNext(v) \/ Stop(v) \/ Restart(v) \/ Crash(v)
    BY DEF Next, Tick, vars
  <1>2. v = w
    BY <1>1, StepOfAnother
  <1>3. CASE RetryTask(w)
    <2>1. PutOff(w)
      BY <1>3 DEF RetryTask, outbox
    <2>2. n \in Nat /\ n >= 1 /\ wait'[k] = LeftOf(Backoff(n), age[w])
      BY <2>1, PutOffTypes
    <2> QED
      BY <2>2, BackoffDoubles
  <1>4. ~RetryTask(w) => wait' = wait
    <2>1. WorkNext(w) /\ ~RetryTask(w) => RemoveEnds(w) \/ ReturnAtOnce(w)
      BY DEF WorkNext, BeginBatch, Claim, StartTask, CompleteTask, EndPause, WorkTo, NextTask, Error, Return
    <2> QED
      BY <1>1, <1>2, <2>1 DEF RemoveEnds, ReturnAtOnce, Stop, Restart, Crash, StartAgain, outbox
  <1> QED
    BY <1>3, <1>4

--------------------------------------------------------------------------------
(* The theorems. *)

(* The inductive invariant holds throughout every execution. *)
THEOREM Invariance == ASSUME BatchFits PROVE Spec => []Inv
  <1>1. Inv /\ [Next]_vars => Inv'
    BY NextInv
  <1> QED
    BY <1>1, InitInv, PTL DEF Spec

(* Where a batch fits in the greatest duration, its lease covers it,       *)
(* whether the lease is a product or had to saturate: two workers are at   *)
(* one task only if the lease of one of them was cut short or overwritten, *)
(* or at the moment when an operation is out of time.                      *)
THEOREM SharedTasksAreExplained == ASSUME BatchFits PROVE Spec => []SharedTaskIsExplained
  <1>1. Spec => []Inv
    BY Invariance
  <1> QED
    BY <1>1, PTL DEF Inv

(* A worker whose lease was not cut short has it for as long as it needs.  *)
THEOREM LeasesLast == ASSUME BatchFits PROVE Spec => []LeaseInv
  <1>1. Spec => []Inv
    BY Invariance
  <1> QED
    BY <1>1, PTL DEF Inv

(* The types with what keeps them: no batch has to fit for that. *)
THEOREM TypeInvariance == Spec => []TypeInv
  <1> QED
    BY InitTypes, NextTypes, PTL DEF Spec

(* Timers and waits are durations whatever the width: nothing that wraps   *)
(* around gets into the table, and a worker has in hand only what it holds. *)
THEOREM TypeCorrectness == Spec => []TypeOK
  <1>1. TypeInv => TypeOK
    BY DEF TypeInv, TableTypes, WorkerTypes, LifeTypes, TypeOK, Steps, Operating
  <1> QED
    BY <1>1, TypeInvariance, PTL

(* A failed task is put off by the first delay, doubled for every failure   *)
(* before it but never beyond the greatest, less what the clock of its     *)
(* worker was behind; no number of attempts makes the doubling wrap around. *)
THEOREM TasksBackOff == Spec => RetriesBackOff
  <1>1. TypeInv /\ [Next]_vars => [\A w \in Worker : RetryBacksOff(w)]_vars
    BY RetryStep
  <1>2. [][\A w \in Worker : RetryBacksOff(w)]_vars <=> RetriesBackOff
    BY DEF RetriesBackOff, RetryBacksOff
  <1> QED
    BY <1>1, <1>2, TypeInvariance, PTL DEF Spec
================================================================================
