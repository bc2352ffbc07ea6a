----------------------------- MODULE SJFProofs ------------------------------
(***************************************************************************)
(* Theorems about heap.c and SJF.c for every number of jobs and all times  *)
(* needed.  The two loops of the heap are recursive functions; what they   *)
(* compute is proved by taking the least slot for which it would be wrong, *)
(* because every nonempty set of natural numbers has a least element.      *)
(***************************************************************************)
EXTENDS SJF, SchedFifoProofs, WellFoundedInduction

Less == {ss \in Nat \X Nat : ss[1] < ss[2]}

(* There is no infinite descent in the natural numbers.                     *)
LEMMA LessWellFounded == IsWellFoundedOn(Less, Nat)
BY NatLessThanWellFounded, Zenon DEF OpToRel, Less

(* What proofs by induction rest on: a nonempty set of natural numbers has  *)
(* a least element.                                                         *)
LEMMA Least ==
  ASSUME NEW S, S \subseteq Nat, S # {}
  PROVE  \E x \in S : \A y \in S : x <= y
<1>1. PICK x \in S : \A y \in S : ~(<<y, x>> \in Less)
  BY LessWellFounded, WFMin
<1>2. ASSUME NEW y \in S PROVE x <= y
  <2>1. <<y, x>> \in Nat \X Nat /\ ~(<<y, x>> \in Less)
    BY <1>1
  <2>2. ~(<<y, x>>[1] < <<y, x>>[2])
    BY <2>1 DEF Less
  <2> QED BY <2>2
<1> QED
  BY <1>2

-----------------------------------------------------------------------------
(* The order of the heap *)

(* heap_element_lt compares by remaining_time and breaks ties by pid: a     *)
(* strict total order on the jobs.                                          *)
LEMMA ShorterOrder ==
  ASSUME NEW rem \in [Child -> Nat], NEW p \in Child, NEW q \in Child, NEW r \in Child
  PROVE  /\ Shorter(rem, p, q) => ~Shorter(rem, q, p)
         /\ ~Shorter(rem, q, p) /\ ~Shorter(rem, r, q) => ~Shorter(rem, r, p)
         /\ ~Shorter(rem, q, p) /\ p # q => Shorter(rem, p, q)
         /\ ~Shorter(rem, p, p)
<1>1. /\ p \in Int /\ q \in Int /\ r \in Int
      /\ rem[p] \in Nat /\ rem[q] \in Nat /\ rem[r] \in Nat
  BY NumProcessAssumption DEF Child
<1> QED
  BY <1>1 DEF Shorter

(* The tree in the array: a slot is one of the two children of its parent.  *)
LEMMA ParentFacts ==
  ASSUME NEW j \in Nat, j > 0
  PROVE  /\ parent(j) \in Nat
         /\ parent(j) < j
         /\ \A i \in Nat : parent(j) = i <=> (j = lchild(i) \/ j = rchild(i))
BY DEF parent, lchild, rchild

-----------------------------------------------------------------------------
(* The n slots in use hold jobs. *)
Full(a, n) == a \in Array /\ \A i \in 0 .. n - 1 : a[i] \in Child

(* The same jobs are in the n slots of b as in those of a, none of them     *)
(* twice if none was.                                                       *)
Rearranged(a, b, n) ==
  /\ Full(b, n)
  /\ {b[i] : i \in 0 .. n - 1} = {a[i] : i \in 0 .. n - 1}
  /\ (\A i, j \in 0 .. n - 1 : a[i] = a[j] => i = j) =>
       \A i, j \in 0 .. n - 1 : b[i] = b[j] => i = j

Ordered(rem, a, n) == \A j \in 1 .. n - 1 : ~heap_element_lt(rem, a, j, parent(j))

(* heap_swap exchanges two slots and loses no job (heap.c:30-34).           *)
LEMMA SwapFacts ==
  ASSUME NEW n \in 0 .. num_process, NEW a, Full(a, n), NEW i \in 0 .. n - 1, NEW j \in 0 .. n - 1
  PROVE  /\ \A k \in Child : heap_swap(a, i, j)[k] = IF k = j THEN a[i] ELSE IF k = i THEN a[j] ELSE a[k]
         /\ Rearranged(a, heap_swap(a, i, j), n)
<1> DEFINE b == heap_swap(a, i, j)
<1>1. a \in [Child -> Child \cup {NULL}] /\ i \in Child /\ j \in Child /\ \A k \in 0 .. n - 1 : k \in Child
  BY NumProcessAssumption DEF Full, Array, Child
<1>2. b \in [Child -> Child \cup {NULL}] /\ \A k \in Child : b[k] = IF k = j THEN a[i] ELSE IF k = i THEN a[j] ELSE a[k]
  BY <1>1 DEF heap_swap
<1> HIDE DEF b
<1>3. Full(b, n)
  BY <1>1, <1>2 DEF Full, Array
<1>4. ASSUME NEW k \in 0 .. n - 1 PROVE \E m \in 0 .. n - 1 : b[m] = a[k]
  <2>1. CASE k = i
    BY <1>1, <1>2, <2>1
  <2>2. CASE k = j
    BY <1>1, <1>2, <2>2
  <2>3. CASE k # i /\ k # j
    BY <1>1, <1>2, <2>3
  <2> QED BY <2>1, <2>2, <2>3
<1>5. ASSUME NEW k \in 0 .. n - 1 PROVE \E m \in 0 .. n - 1 : b[k] = a[m]
  BY <1>1, <1>2
<1>6. {b[k] : k \in 0 .. n - 1} = {a[k] : k \in 0 .. n - 1}
  BY <1>4, <1>5
<1>7. ASSUME \A k, m \in 0 .. n - 1 : a[k] = a[m] => k = m
      PROVE  \A k, m \in 0 .. n - 1 : b[k] = b[m] => k = m
  BY <1>1, <1>2, <1>7
<1> QED
  BY <1>2, <1>3, <1>6, <1>7 DEF Rearranged, b

(* Rearranging twice is rearranging.                                        *)
LEMMA RearrangedTwice ==
  ASSUME NEW n, NEW a, NEW b, NEW c, Rearranged(a, b, n), Rearranged(b, c, n)
  PROVE  Rearranged(a, c, n)
BY DEF Rearranged

-----------------------------------------------------------------------------
(* upheap *)

(* One iteration of its loop, up being what the others do. *)
UpLoop(rem, up, i) ==
  [a \in Array |-> IF i > 0 /\ heap_element_lt(rem, a, i, parent(i))
                   THEN up[parent(i)][heap_swap(a, parent(i), i)]
                   ELSE a]

(* A swap of two slots of the array gives an array.                         *)
LEMMA SwapArray ==
  ASSUME NEW a \in Array, NEW i \in Child, NEW j \in Child
  PROVE  heap_swap(a, i, j) \in Array
BY DEF heap_swap, Array

(* The loop of upheap ends: its slot gets smaller with every iteration, so  *)
(* the recursive function exists.                                           *)
LEMMA UpExists ==
  ASSUME NEW rem
  PROVE  \E up : up = [i \in Child |-> UpLoop(rem, up, i)]
<1> DEFINE Good(k, f) == f \in [0 .. k - 1 -> [Array -> Array]] /\ \A i \in 0 .. k - 1 : f[i] = UpLoop(rem, f, i)
           Bad == {k \in 0 .. num_process : ~\E f : Good(k, f)}
<1>1. Bad = {}
  <2> SUFFICES ASSUME Bad # {} PROVE FALSE
    OBVIOUS
  <2>1. Bad \subseteq Nat
    BY NumProcessAssumption
  <2>2. PICK k \in Bad : \A m \in Bad : k <= m
    <3> HIDE DEF Bad
    <3> QED BY <2>1, Least
  <2>3. k # 0
    <3>1. Good(0, [i \in 0 .. 0 - 1 |-> [a \in Array |-> a]])
      OBVIOUS
    <3> QED BY <3>1
  <2>4. k - 1 \in 0 .. num_process /\ k - 1 \notin Bad /\ k \in Nat \ {0}
    BY <2>2, <2>3, NumProcessAssumption
  <2>5. PICK g : Good(k - 1, g)
    BY <2>4
  <2> DEFINE f == [i \in 0 .. k - 1 |-> IF i < k - 1 THEN g[i] ELSE UpLoop(rem, g, k - 1)]
  <2>6. ASSUME NEW i \in 0 .. k - 1 PROVE UpLoop(rem, f, i) = UpLoop(rem, g, i)
    <3>1. i > 0 => f[parent(i)] = g[parent(i)]
      <4> SUFFICES ASSUME i > 0 PROVE f[parent(i)] = g[parent(i)]
        OBVIOUS
      <4>1. parent(i) \in 0 .. k - 1 /\ parent(i) < k - 1
        BY <2>4, ParentFacts
      <4> QED BY <4>1
    <3> HIDE DEF f
    <3> QED BY <3>1 DEF UpLoop
  <2>7. UpLoop(rem, g, k - 1) \in [Array -> Array]
    <3>1. ASSUME NEW a \in Array, k - 1 > 0 PROVE g[parent(k - 1)][heap_swap(a, parent(k - 1), k - 1)] \in Array
      <4>1. parent(k - 1) \in 0 .. k - 1 - 1
        BY <2>4, <3>1, ParentFacts
      <4>2. parent(k - 1) \in Child /\ k - 1 \in Child
        BY <2>2, <2>4, <4>1, NumProcessAssumption DEF Child
      <4> QED BY <2>5, <4>1, <4>2, SwapArray
    <3> QED BY <3>1 DEF UpLoop
  <2>8. f \in [0 .. k - 1 -> [Array -> Array]]
    BY <2>4, <2>5, <2>7
  <2>9. ASSUME NEW i \in 0 .. k - 1 PROVE f[i] = UpLoop(rem, g, i)
    <3>1. CASE i < k - 1
      <4>1. i \in 0 .. k - 1 - 1
        BY <2>4, <3>1
      <4> QED BY <2>5, <3>1, <4>1
    <3>2. CASE ~(i < k - 1)
      <4>1. i = k - 1
        BY <2>4, <3>2
      <4> QED BY <4>1
    <3> QED BY <3>1, <3>2
  <2>10. Good(k, f)
    BY <2>6, <2>8, <2>9
  <2> QED BY <2>10
<1>2. PICK up : Good(num_process, up)
  <2>1. num_process \in 0 .. num_process
    BY NumProcessAssumption
  <2> HIDE DEF Good
  <2> QED BY <1>1, <2>1
<1>3. up = [i \in 0 .. num_process - 1 |-> up[i]]
  BY <1>2
<1>4. up = [i \in Child |-> UpLoop(rem, up, i)]
  BY <1>2, <1>3 DEF Child
<1> QED
  BY <1>4

LoopsUp(rem, up) ==
  \A i \in Child, a \in Array :
    /\ upheap(rem, a, i) = up[i][a]
    /\ up[i][a] = IF i > 0 /\ heap_element_lt(rem, a, i, parent(i))
                  THEN up[parent(i)][heap_swap(a, parent(i), i)]
                  ELSE a

(* upheap is that function.                                                 *)
LEMMA UpheapLoops == ASSUME NEW rem PROVE \E up : LoopsUp(rem, up)
<1> DEFINE up == CHOOSE f : f = [i \in Child |-> UpLoop(rem, f, i)]
<1>1. up = [i \in Child |-> UpLoop(rem, up, i)]
  BY UpExists
<1>2. \A i \in Child, a \in Array : upheap(rem, a, i) = up[i][a]
  BY DEF upheap, UpLoop
<1> HIDE DEF up
<1>3. \A i \in Child, a \in Array : up[i][a] = UpLoop(rem, up, i)[a]
  BY <1>1
<1> QED
  BY <1>2, <1>3 DEF UpLoop, LoopsUp

(* The loop invariant of upheap at slot i: the array is a heap except that  *)
(* the job at i may be too far down, and its children are not shorter than  *)
(* its parent.                                                              *)
UpOrdered(rem, a, n, i) ==
  \A j \in 1 .. n - 1 :
    /\ j # i => ~Shorter(rem, a[j], a[parent(j)])
    /\ i > 0 /\ parent(j) = i => ~Shorter(rem, a[j], a[parent(i)])

(* An iteration keeps it.                                                   *)
LEMMA UpStep ==
  ASSUME NEW rem \in [Child -> Nat], NEW n \in 0 .. num_process, NEW a, Full(a, n),
         NEW i \in 0 .. n - 1, UpOrdered(rem, a, n, i), i > 0, heap_element_lt(rem, a, i, parent(i))
  PROVE  /\ parent(i) \in 0 .. n - 1
         /\ Rearranged(a, heap_swap(a, parent(i), i), n)
         /\ UpOrdered(rem, heap_swap(a, parent(i), i), n, parent(i))
<1> DEFINE p == parent(i)
           b == heap_swap(a, p, i)
<1>1. p \in 0 .. n - 1 /\ p < i /\ \A k \in 0 .. n - 1 : k \in Child /\ a[k] \in Child
  BY ParentFacts, NumProcessAssumption DEF Full, Child
<1>2. /\ \A k \in Child : b[k] = IF k = i THEN a[p] ELSE IF k = p THEN a[i] ELSE a[k]
      /\ Rearranged(a, b, n)
  BY <1>1, SwapFacts
<1>3. Shorter(rem, a[i], a[p])
  BY DEF heap_element_lt
<1>4. ASSUME NEW j \in 1 .. n - 1 PROVE parent(j) \in 0 .. n - 1 /\ parent(j) < j
  BY ParentFacts
<1> HIDE DEF b, p
<1>5. ASSUME NEW j \in 1 .. n - 1, j # p PROVE ~Shorter(rem, b[j], b[parent(j)])
  <2>1. /\ b[j] = IF j = i THEN a[p] ELSE a[j]
        /\ b[parent(j)] = IF parent(j) = i THEN a[p] ELSE IF parent(j) = p THEN a[i] ELSE a[parent(j)]
    BY <1>1, <1>2, <1>4, <1>5
  <2>2. CASE j = i
    <3>1. parent(j) = p /\ parent(j) # i
      BY <1>1, <2>2 DEF p
    <3>2. b[j] = a[p] /\ b[parent(j)] = a[i]
      BY <2>1, <2>2, <3>1
    <3> QED BY <1>1, <1>3, <3>2, ShorterOrder
  <2>3. CASE j # i /\ parent(j) = i
    BY <2>1, <2>3 DEF UpOrdered, p
  <2>4. CASE j # i /\ parent(j) = p
    <3>1. b[j] = a[j] /\ b[parent(j)] = a[i]
      BY <1>1, <2>1, <2>4
    <3>2. ~Shorter(rem, a[j], a[p])
      BY <2>4 DEF UpOrdered
    <3>3. ~Shorter(rem, a[p], a[i])
      BY <1>1, <1>3, ShorterOrder
    <3> QED BY <1>1, <3>1, <3>2, <3>3, ShorterOrder
  <2>5. CASE j # i /\ parent(j) # i /\ parent(j) # p
    BY <2>1, <2>5 DEF UpOrdered
  <2> QED BY <2>2, <2>3, <2>4, <2>5
<1>6. ASSUME NEW j \in 1 .. n - 1, p > 0, parent(j) = p PROVE ~Shorter(rem, b[j], b[parent(p)])
  <2>1. p \in 1 .. n - 1 /\ parent(p) \in 0 .. n - 1 /\ parent(p) < p
    BY <1>1, <1>6, ParentFacts
  <2>2. b[parent(p)] = a[parent(p)] /\ ~Shorter(rem, a[p], a[parent(p)])
    BY <1>1, <1>2, <2>1 DEF UpOrdered
  <2>3. CASE j = i
    BY <1>1, <1>2, <2>2, <2>3
  <2>4. CASE j # i
    <3>1. b[j] = a[j] /\ ~Shorter(rem, a[j], a[p])
      BY <1>1, <1>2, <1>4, <1>6, <2>4 DEF UpOrdered
    <3> QED BY <1>1, <2>1, <2>2, <3>1, ShorterOrder
  <2> QED BY <2>3, <2>4
<1>7. UpOrdered(rem, b, n, p)
  BY <1>5, <1>6 DEF UpOrdered
<1> QED
  BY <1>1, <1>2, <1>7 DEF b, p

(* upheap makes the array a heap of the same jobs (heap.c:36-43).           *)
LEMMA UpheapCorrect ==
  ASSUME NEW rem \in [Child -> Nat], NEW n \in 0 .. num_process, NEW a, Full(a, n),
         NEW i \in 0 .. n - 1, UpOrdered(rem, a, n, i)
  PROVE  Rearranged(a, upheap(rem, a, i), n) /\ Ordered(rem, upheap(rem, a, i), n)
<1>1. PICK up : LoopsUp(rem, up)
  BY UpheapLoops
<1> DEFINE Right(k, b) == Rearranged(b, up[k][b], n) /\ Ordered(rem, up[k][b], n)
           Wrong == {k \in 0 .. n - 1 : \E b : Full(b, n) /\ UpOrdered(rem, b, n, k) /\ ~Right(k, b)}
<1>2. Wrong = {}
  <2> SUFFICES ASSUME Wrong # {} PROVE FALSE
    OBVIOUS
  <2>1. PICK k \in Wrong : \A m \in Wrong : k <= m
    <3>1. Wrong \subseteq Nat
      OBVIOUS
    <3> HIDE DEF Wrong
    <3> QED BY <3>1, Least
  <2>2. PICK b : Full(b, n) /\ UpOrdered(rem, b, n, k) /\ ~Right(k, b)
    OBVIOUS
  <2>3. k \in 0 .. n - 1 /\ k \in Child /\ b \in Array
    BY <2>2, NumProcessAssumption DEF Child, Full
  <2>4. CASE k > 0 /\ heap_element_lt(rem, b, k, parent(k))
    <3> DEFINE c == heap_swap(b, parent(k), k)
    <3>1. parent(k) \in 0 .. n - 1 /\ Rearranged(b, c, n) /\ UpOrdered(rem, c, n, parent(k))
      BY <2>2, <2>3, <2>4, UpStep
    <3>2. parent(k) < k
      BY <2>3, <2>4, ParentFacts
    <3>3. up[k][b] = up[parent(k)][c]
      BY <1>1, <2>3, <2>4 DEF LoopsUp
    <3> HIDE DEF c
    <3>4. parent(k) \notin Wrong
      BY <2>1, <2>3, <3>1, <3>2
    <3>5. Right(parent(k), c)
      BY <3>1, <3>4 DEF Rearranged
    <3>6. Right(k, b)
      BY <3>1, <3>3, <3>5, RearrangedTwice
    <3> QED BY <2>2, <3>6
  <2>5. CASE ~(k > 0 /\ heap_element_lt(rem, b, k, parent(k)))
    <3>1. up[k][b] = b
      BY <1>1, <2>3, <2>5 DEF LoopsUp
    <3>2. Ordered(rem, b, n)
      BY <2>2, <2>3, <2>5 DEF Ordered, UpOrdered, heap_element_lt
    <3>3. Rearranged(b, b, n)
      BY <2>2 DEF Rearranged
    <3> QED BY <2>2, <3>1, <3>2, <3>3
  <2> QED BY <2>4, <2>5
<1>3. Right(i, a)
  BY <1>2
<1>4. upheap(rem, a, i) = up[i][a]
  BY <1>1, NumProcessAssumption DEF LoopsUp, Child, Full
<1> QED
  BY <1>3, <1>4

-----------------------------------------------------------------------------
(* downheap *)

(* The slot of the job that is moved up, if it is not slot i itself, is a   *)
(* child of i below n (heap.c:58-64).                                       *)
LEMMA MinIdxRange ==
  ASSUME NEW rem, NEW a, NEW n \in 0 .. num_process, NEW i \in Child,
         lchild(i) < n, minIdx(rem, a, n, i) # i
  PROVE  /\ minIdx(rem, a, n, i) \in {lchild(i), rchild(i)}
         /\ minIdx(rem, a, n, i) \in 1 .. n - 1
         /\ minIdx(rem, a, n, i) \in Child
         /\ i < minIdx(rem, a, n, i)
BY NumProcessAssumption DEF minIdx, lchild, rchild, Child

(* One iteration of its loop, down being what the others do. *)
DownLoop(rem, n, down, i) ==
  [a \in Array |-> IF lchild(i) < n /\ minIdx(rem, a, n, i) # i
                   THEN down[minIdx(rem, a, n, i)][heap_swap(a, i, minIdx(rem, a, n, i))]
                   ELSE a]

(* The loop of downheap ends: its slot gets larger with every iteration.    *)
LEMMA DownExists ==
  ASSUME NEW rem, NEW n \in 0 .. num_process
  PROVE  \E down : down = [i \in Child |-> DownLoop(rem, n, down, i)]
<1> DEFINE Slots(k) == num_process - k .. num_process - 1
           Good(k, f) == f \in [Slots(k) -> [Array -> Array]] /\ \A i \in Slots(k) : f[i] = DownLoop(rem, n, f, i)
           Bad == {k \in 0 .. num_process : ~\E f : Good(k, f)}
<1>1. Bad = {}
  <2> SUFFICES ASSUME Bad # {} PROVE FALSE
    OBVIOUS
  <2>1. Bad \subseteq Nat
    BY NumProcessAssumption
  <2>2. PICK k \in Bad : \A m \in Bad : k <= m
    <3> HIDE DEF Bad
    <3> QED BY <2>1, Least
  <2>3. k # 0
    <3>1. Good(0, [i \in Slots(0) |-> [a \in Array |-> a]])
      BY NumProcessAssumption
    <3> QED BY <3>1
  <2>4. k - 1 \in 0 .. num_process /\ k - 1 \notin Bad /\ k \in Nat \ {0} /\ k <= num_process
    <3> HIDE DEF Good
    <3>1. k \in 0 .. num_process /\ k - 1 \in 0 .. num_process /\ k \in Nat \ {0} /\ k <= num_process
      BY <2>3, NumProcessAssumption
    <3> HIDE DEF Bad
    <3> QED BY <2>2, <3>1
  <2>5. PICK g : Good(k - 1, g)
    <3> HIDE DEF Good
    <3> QED BY <2>4
  <2> DEFINE s == num_process - k
             f == [i \in Slots(k) |-> IF i = s THEN DownLoop(rem, n, g, s) ELSE g[i]]
  <2>6. /\ s \in Child /\ s \in Slots(k) /\ Slots(k) \subseteq Child
        /\ \A i \in Slots(k) : i # s => i \in Slots(k - 1)
        /\ \A i \in Slots(k), m \in Child : i < m => m \in Slots(k - 1) /\ m \in Slots(k) /\ m # s
    <3>1. s \in Int /\ 0 <= s /\ s <= num_process - 1 /\ num_process \in Nat
      BY <2>4, NumProcessAssumption
    <3>2. Slots(k) = s .. num_process - 1 /\ Slots(k - 1) = s + 1 .. num_process - 1
      BY <2>4, NumProcessAssumption
    <3> HIDE DEF s, Slots
    <3> QED BY <3>1, <3>2 DEF Child
  <2> HIDE DEF Slots, s
  <2>7. ASSUME NEW i \in Slots(k) PROVE DownLoop(rem, n, f, i) = DownLoop(rem, n, g, i)
    <3>1. ASSUME NEW m \in Child, i < m PROVE f[m] = g[m]
      BY <2>6, <3>1
    <3>2. ASSUME NEW a \in Array, lchild(i) < n, minIdx(rem, a, n, i) # i
          PROVE  f[minIdx(rem, a, n, i)] = g[minIdx(rem, a, n, i)]
      BY <2>6, <3>1, <3>2, MinIdxRange
    <3> HIDE DEF f
    <3> QED BY <3>2 DEF DownLoop
  <2>8. DownLoop(rem, n, g, s) \in [Array -> Array]
    <3>1. ASSUME NEW a \in Array, lchild(s) < n, minIdx(rem, a, n, s) # s
          PROVE  g[minIdx(rem, a, n, s)][heap_swap(a, s, minIdx(rem, a, n, s))] \in Array
      <4>1. minIdx(rem, a, n, s) \in Child /\ s < minIdx(rem, a, n, s)
        BY <2>6, <3>1, MinIdxRange
      <4>2. minIdx(rem, a, n, s) \in Slots(k - 1)
        BY <2>6, <4>1
      <4> QED BY <2>5, <2>6, <4>1, <4>2, SwapArray
    <3> QED BY <3>1 DEF DownLoop
  <2>9. f \in [Slots(k) -> [Array -> Array]]
    BY <2>5, <2>6, <2>8
  <2>10. ASSUME NEW i \in Slots(k) PROVE f[i] = DownLoop(rem, n, g, i)
    <3>1. CASE i = s
      BY <3>1
    <3>2. CASE i # s
      BY <2>5, <2>6, <3>2
    <3> QED BY <3>1, <3>2
  <2>11. Good(k, f)
    BY <2>7, <2>9, <2>10
  <2> QED BY <2>11
<1>2. PICK down : Good(num_process, down)
  <2>1. num_process \in 0 .. num_process
    BY NumProcessAssumption
  <2> HIDE DEF Good
  <2> QED BY <1>1, <2>1
<1>3. Slots(num_process) = Child
  BY NumProcessAssumption DEF Child
<1>4. down = [i \in Child |-> down[i]]
  BY <1>2, <1>3
<1>5. down = [i \in Child |-> DownLoop(rem, n, down, i)]
  BY <1>2, <1>3, <1>4
<1> QED
  BY <1>5

LoopsDown(rem, n, down) ==
  \A i \in Child, a \in Array :
    /\ downheap(rem, a, n, i) = down[i][a]
    /\ down[i][a] = IF lchild(i) < n /\ minIdx(rem, a, n, i) # i
                    THEN down[minIdx(rem, a, n, i)][heap_swap(a, i, minIdx(rem, a, n, i))]
                    ELSE a

(* downheap is that function.                                               *)
LEMMA DownheapLoops ==
  ASSUME NEW rem, NEW n \in 0 .. num_process
  PROVE  \E down : LoopsDown(rem, n, down)
<1> DEFINE down == CHOOSE f : f = [i \in Child |-> DownLoop(rem, n, f, i)]
<1>1. down = [i \in Child |-> DownLoop(rem, n, down, i)]
  BY DownExists
<1>2. \A i \in Child, a \in Array : downheap(rem, a, n, i) = down[i][a]
  BY DEF downheap, DownLoop
<1> HIDE DEF down
<1>3. \A i \in Child, a \in Array : down[i][a] = DownLoop(rem, n, down, i)[a]
  BY <1>1
<1> QED
  BY <1>2, <1>3 DEF DownLoop, LoopsDown

(* The loop invariant of downheap at slot i: the array is a heap except     *)
(* that the job at i may be too far up, and its children are not shorter    *)
(* than its parent.                                                         *)
DownOrdered(rem, a, n, i) ==
  \A j \in 1 .. n - 1 :
    /\ parent(j) # i => ~Shorter(rem, a[j], a[parent(j)])
    /\ i > 0 /\ parent(j) = i => ~Shorter(rem, a[j], a[parent(i)])

(* The job at minIdx is the shortest of slot i and its children.            *)
LEMMA MinIdxLeast ==
  ASSUME NEW rem \in [Child -> Nat], NEW n \in 0 .. num_process, NEW a, Full(a, n),
         NEW i \in 0 .. n - 1, lchild(i) < n
  PROVE  /\ \A j \in 1 .. n - 1 : parent(j) = i => ~Shorter(rem, a[j], a[minIdx(rem, a, n, i)])
         /\ minIdx(rem, a, n, i) # i => Shorter(rem, a[minIdx(rem, a, n, i)], a[i])
<1> DEFINE m == minIdx(rem, a, n, i)
           l == lchild(i)
           r == rchild(i)
<1>1. /\ i \in Nat /\ l \in 0 .. n - 1 /\ r \in Nat /\ i # l /\ i # r
      /\ r < n => r \in 0 .. n - 1
      /\ \A k \in 0 .. n - 1 : a[k] \in Child
  BY DEF Full, lchild, rchild
<1>2. m = LET x == IF Shorter(rem, a[l], a[i]) THEN l ELSE i
          IN  IF r < n /\ Shorter(rem, a[r], a[x]) THEN r ELSE x
  BY DEF minIdx, heap_element_lt
<1>3. ASSUME NEW j \in 1 .. n - 1, parent(j) = i PROVE j = l \/ (j = r /\ r < n)
  BY <1>1, <1>3, ParentFacts
<1> HIDE DEF m, l, r
<1>4. ~Shorter(rem, a[l], a[m]) /\ (r < n => ~Shorter(rem, a[r], a[m])) /\ (m # i => Shorter(rem, a[m], a[i]))
  <2>1. CASE Shorter(rem, a[l], a[i]) /\ r < n /\ Shorter(rem, a[r], a[l])
    <3>1. m = r /\ a[r] \in Child /\ a[l] \in Child /\ a[i] \in Child
      BY <1>1, <1>2, <2>1
    <3>2. ~Shorter(rem, a[l], a[r]) /\ ~Shorter(rem, a[i], a[l]) /\ ~Shorter(rem, a[r], a[r])
      BY <2>1, <3>1, ShorterOrder
    <3>3. ~Shorter(rem, a[i], a[r])
      BY <3>1, <3>2, ShorterOrder
    <3>4. a[r] # a[i]
      BY <2>1, <3>1, <3>2
    <3> QED BY <3>1, <3>2, <3>3, <3>4, ShorterOrder
  <2>2. CASE Shorter(rem, a[l], a[i]) /\ ~(r < n /\ Shorter(rem, a[r], a[l]))
    <3>1. m = l /\ a[l] \in Child
      BY <1>1, <1>2, <2>2
    <3> QED BY <2>2, <3>1, ShorterOrder
  <2>3. CASE ~Shorter(rem, a[l], a[i]) /\ r < n /\ Shorter(rem, a[r], a[i])
    <3>1. m = r /\ a[r] \in Child /\ a[l] \in Child /\ a[i] \in Child
      BY <1>1, <1>2, <2>3
    <3>2. ~Shorter(rem, a[i], a[r]) /\ ~Shorter(rem, a[r], a[r])
      BY <2>3, <3>1, ShorterOrder
    <3>3. ~Shorter(rem, a[l], a[r])
      BY <2>3, <3>1, <3>2, ShorterOrder
    <3> QED BY <2>3, <3>1, <3>2, <3>3
  <2>4. CASE ~Shorter(rem, a[l], a[i]) /\ ~(r < n /\ Shorter(rem, a[r], a[i]))
    <3>1. m = i
      BY <1>1, <1>2, <2>4
    <3> QED BY <2>4, <3>1
  <2> QED BY <2>1, <2>2, <2>3, <2>4
<1> QED
  BY <1>3, <1>4 DEF m

(* An iteration keeps it.                                                   *)
LEMMA DownStep ==
  ASSUME NEW rem \in [Child -> Nat], NEW n \in 0 .. num_process, NEW a, Full(a, n),
         NEW i \in 0 .. n - 1, DownOrdered(rem, a, n, i), lchild(i) < n, minIdx(rem, a, n, i) # i
  PROVE  /\ Rearranged(a, heap_swap(a, i, minIdx(rem, a, n, i)), n)
         /\ DownOrdered(rem, heap_swap(a, i, minIdx(rem, a, n, i)), n, minIdx(rem, a, n, i))
<1> DEFINE m == minIdx(rem, a, n, i)
           b == heap_swap(a, i, m)
<1>1. \A k \in 0 .. n - 1 : k \in Child /\ k \in Nat /\ a[k] \in Child
  BY NumProcessAssumption DEF Full, Child
<1>2. m \in 1 .. n - 1 /\ m \in 0 .. n - 1 /\ i < m /\ parent(m) = i
  <2>1. m \in {lchild(i), rchild(i)} /\ m \in 1 .. n - 1 /\ i < m
    BY <1>1, MinIdxRange
  <2> QED BY <1>1, <2>1, ParentFacts
<1>3. /\ \A k \in Child : b[k] = IF k = m THEN a[i] ELSE IF k = i THEN a[m] ELSE a[k]
      /\ Rearranged(a, b, n)
  BY <1>2, SwapFacts
<1>4. /\ \A j \in 1 .. n - 1 : parent(j) = i => ~Shorter(rem, a[j], a[m])
      /\ Shorter(rem, a[m], a[i])
  BY MinIdxLeast
<1>5. ASSUME NEW j \in 1 .. n - 1
      PROVE  parent(j) \in 0 .. n - 1 /\ parent(j) < j /\ j \in Child /\ parent(j) \in Child
  BY <1>1, ParentFacts
<1> HIDE DEF b, m
<1>6. ASSUME NEW j \in 1 .. n - 1, parent(j) # m PROVE ~Shorter(rem, b[j], b[parent(j)])
  <2>1. CASE j = m
    <3>1. b[j] = a[i] /\ b[parent(j)] = a[m]
      BY <1>1, <1>2, <1>3, <2>1
    <3> QED BY <1>1, <1>2, <1>4, <3>1, ShorterOrder
  <2>2. CASE j # m /\ parent(j) = i
    <3>1. b[j] = a[j] /\ b[parent(j)] = a[m]
      BY <1>2, <1>3, <1>5, <2>2
    <3> QED BY <1>4, <2>2, <3>1
  <2>3. CASE j # m /\ j = i
    <3>1. b[j] = a[m] /\ b[parent(j)] = a[parent(i)]
      BY <1>2, <1>3, <1>5, <1>6, <2>3
    <3> QED BY <1>2, <2>3, <3>1 DEF DownOrdered
  <2>4. CASE j # m /\ j # i /\ parent(j) # i
    <3>1. b[j] = a[j] /\ b[parent(j)] = a[parent(j)]
      BY <1>3, <1>5, <1>6, <2>4
    <3> QED BY <2>4, <3>1 DEF DownOrdered
  <2> QED BY <2>1, <2>2, <2>3, <2>4
<1>7. ASSUME NEW j \in 1 .. n - 1, parent(j) = m PROVE ~Shorter(rem, b[j], b[parent(m)])
  <2>1. j # m /\ j # i /\ parent(j) # i
    BY <1>2, <1>5, <1>7
  <2>2. b[j] = a[j] /\ b[parent(m)] = a[m]
    BY <1>1, <1>2, <1>3, <1>5, <2>1
  <2> QED BY <1>7, <2>1, <2>2 DEF DownOrdered
<1>8. DownOrdered(rem, b, n, m)
  BY <1>6, <1>7 DEF DownOrdered
<1> QED
  BY <1>3, <1>8 DEF b, m

(* downheap makes the array a heap of the same jobs (heap.c:56-71).         *)
LEMMA DownheapCorrect ==
  ASSUME NEW rem \in [Child -> Nat], NEW n \in 0 .. num_process, NEW a, Full(a, n),
         NEW i \in 0 .. n - 1, DownOrdered(rem, a, n, i)
  PROVE  Rearranged(a, downheap(rem, a, n, i), n) /\ Ordered(rem, downheap(rem, a, n, i), n)
<1>1. PICK down : LoopsDown(rem, n, down)
  BY DownheapLoops
<1> DEFINE Right(k, b) == Rearranged(b, down[k][b], n) /\ Ordered(rem, down[k][b], n)
           Wrong == {d \in 1 .. n : \E b : Full(b, n) /\ DownOrdered(rem, b, n, n - d) /\ ~Right(n - d, b)}
<1>2. Wrong = {}
  <2> SUFFICES ASSUME Wrong # {} PROVE FALSE
    OBVIOUS
  <2>1. PICK d \in Wrong : \A e \in Wrong : d <= e
    <3>1. Wrong \subseteq Nat
      OBVIOUS
    <3> HIDE DEF Wrong
    <3> QED BY <3>1, Least
  <2> DEFINE k == n - d
  <2>2. PICK b : Full(b, n) /\ DownOrdered(rem, b, n, k) /\ ~Right(k, b)
    OBVIOUS
  <2>3. k \in 0 .. n - 1 /\ k \in Child /\ b \in Array /\ d = n - k
    BY <2>2, NumProcessAssumption DEF Child, Full
  <2> HIDE DEF k
  <2>4. CASE lchild(k) < n /\ minIdx(rem, b, n, k) # k
    <3> DEFINE m == minIdx(rem, b, n, k)
               c == heap_swap(b, k, m)
    <3>1. Rearranged(b, c, n) /\ DownOrdered(rem, c, n, m)
      BY <2>2, <2>3, <2>4, DownStep
    <3>2. k < m /\ m \in 1 .. n - 1
      BY <2>3, <2>4, MinIdxRange
    <3>3. down[k][b] = down[m][c]
      BY <1>1, <2>3, <2>4 DEF LoopsDown
    <3> HIDE DEF c, m
    <3>4. n - m \in 1 .. n /\ n - m \notin Wrong /\ n - (n - m) = m
      <4>1. n - m \in 1 .. n /\ ~(d <= n - m) /\ n - (n - m) = m
        BY <2>3, <3>2
      <4> HIDE DEF Wrong
      <4> QED BY <2>1, <4>1
    <3>5. Full(c, n)
      BY <3>1 DEF Rearranged
    <3>6. Right(m, c)
      BY <3>1, <3>4, <3>5
    <3>7. Right(k, b)
      BY <3>1, <3>3, <3>6, RearrangedTwice
    <3> QED BY <2>2, <3>7
  <2>5. CASE ~(lchild(k) < n /\ minIdx(rem, b, n, k) # k)
    <3>1. down[k][b] = b
      BY <1>1, <2>3, <2>5 DEF LoopsDown
    <3>2. ASSUME NEW j \in 1 .. n - 1 PROVE ~Shorter(rem, b[j], b[parent(j)])
      <4>1. CASE parent(j) # k
        BY <2>2, <4>1 DEF DownOrdered
      <4>2. CASE parent(j) = k
        <5>1. lchild(k) < n
          BY <2>3, <4>2, ParentFacts DEF lchild, rchild
        <5> QED BY <2>2, <2>3, <2>5, <4>2, <5>1, MinIdxLeast
      <4> QED BY <4>1, <4>2
    <3>3. Ordered(rem, b, n)
      BY <3>2 DEF Ordered, heap_element_lt
    <3>4. Rearranged(b, b, n)
      BY <2>2 DEF Rearranged
    <3> QED BY <2>2, <3>1, <3>3, <3>4
  <2> QED BY <2>4, <2>5
<1>3. Right(i, a)
  <2>1. n - i \in 1 .. n /\ n - (n - i) = i
    OBVIOUS
  <2> QED BY <1>2, <2>1
<1>4. downheap(rem, a, n, i) = down[i][a]
  BY <1>1, NumProcessAssumption DEF LoopsDown, Child, Full
<1> QED
  BY <1>3, <1>4

-----------------------------------------------------------------------------
(* The operations on a heap *)

(* A heap of different jobs. *)
IsHeap(rem, h) ==
  /\ h \in [pq : Array, heap_size : 0 .. num_process]
  /\ Full(h.pq, h.heap_size)
  /\ Ordered(rem, h.pq, h.heap_size)
  /\ \A i, j \in 0 .. h.heap_size - 1 : h.pq[i] = h.pq[j] => i = j

(* The jobs in a heap.                                                      *)
LEMMA ContentsFacts ==
  ASSUME NEW h, h.heap_size \in 0 .. num_process
  PROVE  Contents(h) = {h.pq[i] : i \in 0 .. h.heap_size - 1}
<1>1. {j \in Child : j < h.heap_size} = 0 .. h.heap_size - 1
  BY NumProcessAssumption DEF Child
<1> QED
  BY <1>1 DEF Contents

(* heap_top is the shortest job of the heap, the oldest one of equals:      *)
(* otherwise take the first slot whose job is shorter, and its parent is    *)
(* such a slot as well.                                                     *)
LEMMA TopIsShortest ==
  ASSUME NEW rem \in [Child -> Nat], NEW h, IsHeap(rem, h), h.heap_size > 0
  PROVE  /\ heap_top(h) \in Contents(h)
         /\ \A q \in Contents(h) \ {heap_top(h)} : Shorter(rem, heap_top(h), q)
<1> DEFINE n == h.heap_size
           a == h.pq
           Wrong == {i \in 0 .. n - 1 : Shorter(rem, a[i], a[0])}
<1>1. n \in Nat /\ n > 0 /\ \A i \in 0 .. n - 1 : a[i] \in Child
  BY DEF IsHeap, Full
<1>2. Wrong = {}
  <2> SUFFICES ASSUME Wrong # {} PROVE FALSE
    OBVIOUS
  <2>1. PICK i \in Wrong : \A j \in Wrong : i <= j
    <3>1. Wrong \subseteq Nat
      OBVIOUS
    <3> HIDE DEF Wrong
    <3> QED BY <3>1, Least
  <2>2. i \in 0 .. n - 1 /\ Shorter(rem, a[i], a[0])
    OBVIOUS
  <2>3. i # 0
    BY <1>1, <2>2, ShorterOrder
  <2>4. parent(i) \in 0 .. n - 1 /\ parent(i) < i
    BY <1>1, <2>2, <2>3, ParentFacts
  <2>5. ~Shorter(rem, a[i], a[parent(i)])
    BY <1>1, <2>2, <2>3 DEF IsHeap, Ordered, heap_element_lt
  <2>6. ~Shorter(rem, a[parent(i)], a[0])
    BY <2>1, <2>2, <2>4
  <2> QED BY <1>1, <2>2, <2>4, <2>5, <2>6, ShorterOrder
<1>3. Contents(h) = {a[i] : i \in 0 .. n - 1}
  BY ContentsFacts DEF IsHeap
<1>4. heap_top(h) = a[0]
  BY DEF heap_top
<1>5. ASSUME NEW i \in 0 .. n - 1, a[i] # a[0] PROVE Shorter(rem, a[0], a[i])
  BY <1>1, <1>2, <1>5, ShorterOrder
<1> HIDE DEF a, n
<1> QED
  BY <1>1, <1>3, <1>4, <1>5

(* heap_insert adds its job and no other (heap.c:45-50).                    *)
LEMMA InsertCorrect ==
  ASSUME NEW rem \in [Child -> Nat], NEW h, IsHeap(rem, h), h.heap_size < num_process,
         NEW p \in Child, p \notin Contents(h)
  PROVE  /\ IsHeap(rem, heap_insert(rem, h, p))
         /\ Contents(heap_insert(rem, h, p)) = Contents(h) \cup {p}
         /\ heap_insert(rem, h, p).heap_size = h.heap_size + 1
<1> DEFINE n == h.heap_size
           a == [h.pq EXCEPT ![n] = p]
           b == upheap(rem, a, n)
           g == heap_insert(rem, h, p)
<1>1. /\ n \in Nat /\ n < num_process /\ h.pq \in [Child -> Child \cup {NULL}] /\ n \in Child
      /\ \A i \in 0 .. n - 1 : i \in Child /\ h.pq[i] \in Child
  BY NumProcessAssumption DEF IsHeap, Full, Child, Array
<1>0. h.heap_size = n
  OBVIOUS
<1> HIDE DEF n
<1>2. /\ a \in Array /\ a[n] = p
      /\ \A i \in 0 .. n - 1 : a[i] = h.pq[i]
  BY <1>1 DEF Array
<1>3. g = [pq |-> b, heap_size |-> n + 1]
  BY <1>0 DEF heap_insert
<1>4. n + 1 \in 0 .. num_process /\ n \in 0 .. (n + 1) - 1 /\ 0 .. (n + 1) - 1 = (0 .. n - 1) \cup {n}
  BY <1>1, NumProcessAssumption
<1>5. Contents(h) = {h.pq[i] : i \in 0 .. n - 1}
  BY <1>0, ContentsFacts DEF IsHeap
<1> HIDE DEF a
<1>6. Full(a, n + 1)
  BY <1>1, <1>2, <1>4 DEF Full
<1>7. UpOrdered(rem, a, n + 1, n)
  <2> SUFFICES ASSUME NEW j \in 1 .. (n + 1) - 1
               PROVE  /\ j # n => ~Shorter(rem, a[j], a[parent(j)])
                      /\ parent(j) # n
    BY DEF UpOrdered
  <2>1. parent(j) < j /\ parent(j) \in Nat
    BY <1>1, ParentFacts
  <2>2. ASSUME j # n PROVE ~Shorter(rem, a[j], a[parent(j)])
    <3>1. j \in 1 .. n - 1 /\ j \in 0 .. n - 1 /\ parent(j) \in 0 .. n - 1
      BY <1>1, <2>1, <2>2
    <3> QED BY <1>0, <1>2, <3>1 DEF IsHeap, Ordered, heap_element_lt
  <2> QED BY <1>1, <2>1, <2>2
<1>8. Rearranged(a, b, n + 1) /\ Ordered(rem, b, n + 1)
  BY <1>4, <1>6, <1>7, UpheapCorrect
<1>9. ASSUME NEW i \in 0 .. (n + 1) - 1, NEW j \in 0 .. (n + 1) - 1, a[i] = a[j] PROVE i = j
  <2>1. \A k \in 0 .. n - 1 : a[k] # p
    BY <1>2, <1>5
  <2> QED BY <1>0, <1>2, <1>4, <1>9, <2>1 DEF IsHeap
<1>10. {a[i] : i \in 0 .. (n + 1) - 1} = Contents(h) \cup {p}
  BY <1>2, <1>4, <1>5
<1> HIDE DEF b, g
<1>11. \A i, j \in 0 .. (n + 1) - 1 : b[i] = b[j] => i = j
  BY <1>8, <1>9 DEF Rearranged
<1>12. Full(b, n + 1) /\ b \in Array
  BY <1>8 DEF Rearranged, Full
<1>13. g.pq = b /\ g.heap_size = n + 1 /\ g \in [pq : Array, heap_size : 0 .. num_process]
  BY <1>3, <1>4, <1>12
<1>14. IsHeap(rem, g)
  BY <1>8, <1>11, <1>12, <1>13 DEF IsHeap
<1>15. Contents(g) = {b[i] : i \in 0 .. (n + 1) - 1}
  BY <1>4, <1>13, ContentsFacts
<1> QED
  BY <1>0, <1>8, <1>10, <1>13, <1>14, <1>15 DEF g, Rearranged

(* heap_pop takes the top away and nothing else (heap.c:73-77).             *)
LEMMA PopCorrect ==
  ASSUME NEW rem \in [Child -> Nat], NEW h, IsHeap(rem, h), h.heap_size > 0
  PROVE  /\ IsHeap(rem, heap_pop(rem, h))
         /\ Contents(heap_pop(rem, h)) = Contents(h) \ {heap_top(h)}
         /\ heap_pop(rem, h).heap_size = h.heap_size - 1
<1> DEFINE n == h.heap_size - 1
           a == heap_swap(h.pq, n, 0)
           b == downheap(rem, a, n, 0)
           g == heap_pop(rem, h)
<1>1. /\ n \in Nat /\ n < num_process /\ h.heap_size = n + 1 /\ n + 1 \in 0 .. num_process
      /\ n \in 0 .. (n + 1) - 1 /\ 0 \in 0 .. (n + 1) - 1 /\ n \in 0 .. num_process
      /\ \A i \in 0 .. (n + 1) - 1 : i \in Child /\ h.pq[i] \in Child
      /\ Full(h.pq, n + 1)
  BY NumProcessAssumption DEF IsHeap, Full, Child
<1> HIDE DEF n
<1>2. /\ \A k \in Child : a[k] = IF k = 0 THEN h.pq[n] ELSE IF k = n THEN h.pq[0] ELSE h.pq[k]
      /\ Rearranged(h.pq, a, n + 1)
  BY <1>1, SwapFacts
<1>3. g = [pq |-> b, heap_size |-> n]
  BY DEF heap_pop, n
<1>4. Contents(h) = {h.pq[i] : i \in 0 .. (n + 1) - 1} /\ heap_top(h) = h.pq[0]
  BY <1>1, ContentsFacts DEF heap_top
<1>5. \A i, j \in 0 .. (n + 1) - 1 : h.pq[i] = h.pq[j] => i = j
  BY <1>1 DEF IsHeap
<1> HIDE DEF a, g
<1>6. Full(a, n) /\ a[n] = h.pq[0]
  BY <1>1, <1>2 DEF Full, Rearranged
<1>7. \A i, j \in 0 .. (n + 1) - 1 : a[i] = a[j] => i = j
  BY <1>2, <1>5 DEF Rearranged
<1>8. {a[i] : i \in 0 .. n - 1} = Contents(h) \ {heap_top(h)}
  <2>1. 0 .. (n + 1) - 1 = (0 .. n - 1) \cup {n} /\ n \notin 0 .. n - 1
    BY <1>1
  <2>2. {a[i] : i \in 0 .. (n + 1) - 1} = Contents(h)
    BY <1>2, <1>4 DEF Rearranged
  <2>3. \A i \in 0 .. n - 1 : a[i] # a[n]
    BY <1>7, <2>1
  <2> QED BY <1>4, <1>6, <2>1, <2>2, <2>3
<1>9. Rearranged(a, b, n) /\ Ordered(rem, b, n)
  <2>1. CASE n = 0
    <3>1. 0 \in Child /\ a \in Array /\ ~(lchild(0) < n)
      BY <1>1, <1>6, <2>1 DEF Full, lchild
    <3>2. PICK down : LoopsDown(rem, n, down)
      BY <1>1, DownheapLoops
    <3>3. b = a
      BY <3>1, <3>2 DEF LoopsDown
    <3> QED BY <1>6, <2>1, <3>3 DEF Rearranged, Ordered
  <2>2. CASE n > 0
    <3>1. DownOrdered(rem, a, n, 0)
      <4> SUFFICES ASSUME NEW j \in 1 .. n - 1, parent(j) # 0
                   PROVE  ~Shorter(rem, a[j], a[parent(j)])
        BY DEF DownOrdered
      <4>1. parent(j) \in 1 .. n - 1 /\ j \in 1 .. (n + 1) - 1 /\ parent(j) \in Child /\ j \in Child /\ j # n /\ j # 0 /\ parent(j) # n
        BY <1>1, ParentFacts
      <4>2. a[j] = h.pq[j] /\ a[parent(j)] = h.pq[parent(j)]
        BY <1>2, <4>1
      <4> QED BY <1>1, <4>1, <4>2 DEF IsHeap, Ordered, heap_element_lt
    <3>2. 0 \in 0 .. n - 1
      BY <1>1, <2>2
    <3> QED BY <1>1, <1>6, <3>1, <3>2, DownheapCorrect
  <2> QED BY <1>1, <2>1, <2>2
<1> HIDE DEF b
<1>10. \A i, j \in 0 .. n - 1 : b[i] = b[j] => i = j
  <2>1. \A i, j \in 0 .. n - 1 : a[i] = a[j] => i = j
    BY <1>1, <1>7
  <2> QED BY <1>9, <2>1 DEF Rearranged
<1>11. Full(b, n) /\ b \in Array
  BY <1>9 DEF Rearranged, Full
<1>12. g.pq = b /\ g.heap_size = n /\ g \in [pq : Array, heap_size : 0 .. num_process]
  BY <1>1, <1>3, <1>11
<1>13. IsHeap(rem, g)
  BY <1>9, <1>10, <1>11, <1>12 DEF IsHeap
<1>14. Contents(g) = {b[i] : i \in 0 .. n - 1}
  BY <1>1, <1>12, ContentsFacts
<1> QED
  BY <1>8, <1>9, <1>12, <1>13, <1>14 DEF g, n, Rearranged


-----------------------------------------------------------------------------
(* SJF.c on top of the heap, whatever the priorities of the children are. *)

HeapFacts ==
  /\ remaining_time \in [Child -> Nat]
  /\ IsHeap(remaining_time, inactive_heap)
  /\ Contents(inactive_heap) \subseteq 0 .. arrival_ptr - 1
  /\ active_process \in 0 .. arrival_ptr - 1 \/ active_process = NULL
  /\ active_process \notin Contents(inactive_heap)
  /\ arrival_ptr \in 0 .. num_process
  /\ inactive_heap.heap_size + (IF active_process = NULL THEN 0 ELSE 1) <= arrival_ptr

(* The parts of the invariant that are about the heap say just that.        *)
LEMMA HeapInv == HeapFacts <=> HeapSound
<1> DEFINE h == inactive_heap
           n == inactive_heap.heap_size
<1>1. ASSUME h \in [pq : Array, heap_size : 0 .. num_process]
      PROVE  /\ Full(h.pq, n) <=> SlotsOK
             /\ Ordered(remaining_time, h.pq, n) <=> HeapOrdered(remaining_time, h)
             /\ (\A i, j \in 0 .. n - 1 : h.pq[i] = h.pq[j] => i = j) <=>
                  \A i, j \in Child : i < j /\ j < n => h.pq[i] # h.pq[j]
  <2>1. /\ h.pq \in Array /\ n \in 0 .. num_process /\ num_process \in Nat
        /\ \A i : i \in 0 .. n - 1 <=> i \in Child /\ i < n
        /\ \A i : i \in 1 .. n - 1 <=> i \in Child /\ 0 < i /\ i < n
        /\ \A i \in Child : i \in Int
    BY <1>1, NumProcessAssumption DEF Child
  <2> HIDE DEF h, n
  <2>2. Full(h.pq, n) <=> \A i \in Child : i < n => h.pq[i] \in Child
    BY <2>1 DEF Full
  <2>3. Ordered(remaining_time, h.pq, n) <=>
          \A i \in Child : 0 < i /\ i < n => ~heap_element_lt(remaining_time, h.pq, i, parent(i))
    BY <2>1 DEF Ordered
  <2>4. (\A i, j \in 0 .. n - 1 : h.pq[i] = h.pq[j] => i = j) <=>
          \A i, j \in Child : i < j /\ j < n => h.pq[i] # h.pq[j]
    <3>1. ASSUME \A i, j \in 0 .. n - 1 : h.pq[i] = h.pq[j] => i = j,
                 NEW i \in Child, NEW j \in Child, i < j, j < n
          PROVE  h.pq[i] # h.pq[j]
      <4>1. i \in 0 .. n - 1 /\ j \in 0 .. n - 1 /\ i # j
        BY <2>1, <3>1 DEF Child
      <4> QED BY <3>1, <4>1
    <3>2. ASSUME \A i, j \in Child : i < j /\ j < n => h.pq[i] # h.pq[j],
                 NEW i \in 0 .. n - 1, NEW j \in 0 .. n - 1, h.pq[i] = h.pq[j]
          PROVE  i = j
      <4>1. i \in Child /\ j \in Child /\ i < n /\ j < n
        BY <2>1
      <4>2. ~(i < j) /\ ~(j < i)
        BY <3>2, <4>1
      <4> QED BY <2>1, <4>1, <4>2
    <3> QED BY <3>1, <3>2
  <2> QED BY <2>2, <2>3, <2>4 DEF SlotsOK, HeapOrdered, h, n
<1>2. IsHeap(remaining_time, h) =>
        h \in [pq : Array, heap_size : 0 .. num_process]
  BY DEF IsHeap
<1>3. CASE ~(h \in [pq : Array, heap_size : 0 .. num_process])
  BY <1>2, <1>3 DEF HeapFacts, HeapSound, HeapTypes
<1>4. CASE h \in [pq : Array, heap_size : 0 .. num_process]
  <2>1. IsHeap(remaining_time, h) <=> SlotsOK /\ HeapOrdered(remaining_time, h) /\
          \A i, j \in Child : i < j /\ j < n => h.pq[i] # h.pq[j]
    BY <1>1, <1>4 DEF IsHeap
  <2>2. ASSUME arrival_ptr \in 0 .. num_process
        PROVE  (active_process \in 0 .. arrival_ptr - 1 \/ active_process = NULL) <=>
               active_process \in Child \cup {NULL} /\ active_process < arrival_ptr
    BY <2>2, NumProcessAssumption DEF Child, NULL
  <2> QED BY <1>4, <2>1, <2>2 DEF HeapFacts, HeapSound, HeapTypes, HeapSafe, Room
<1> QED BY <1>3, <1>4

(* An arrival adds its job to the heap, for which there is room             *)
(* (SJF.c:12-15).                                                           *)
LEMMA AddHeap ==
  ASSUME HeapFacts, arrival_ptr < num_process, add_process_SJF(arrival_ptr),
         arrival_ptr' = arrival_ptr + 1, UNCHANGED remaining_time
  PROVE  /\ HeapFacts'
         /\ Contents(inactive_heap)' = Contents(inactive_heap) \cup {arrival_ptr}
         /\ inactive_heap'.heap_size = inactive_heap.heap_size + 1
         /\ arrival_ptr \notin Contents(inactive_heap) \cup Active
         /\ arrival_ptr \in Child
<1>1. /\ arrival_ptr \in Child /\ arrival_ptr \in Nat
      /\ inactive_heap.heap_size \in Nat /\ inactive_heap.heap_size < num_process
      /\ arrival_ptr \notin Contents(inactive_heap)
      /\ arrival_ptr # active_process
  BY NumProcessAssumption DEF HeapFacts, Child, NULL, IsHeap
<1>2. inactive_heap' = heap_insert(remaining_time, inactive_heap, arrival_ptr) /\ UNCHANGED active_process
  BY DEF add_process_SJF
<1>3. /\ IsHeap(remaining_time, inactive_heap')
      /\ Contents(inactive_heap') = Contents(inactive_heap) \cup {arrival_ptr}
      /\ inactive_heap'.heap_size = inactive_heap.heap_size + 1
  BY <1>1, <1>2, InsertCorrect DEF HeapFacts
<1>4. 0 .. (arrival_ptr + 1) - 1 = (0 .. arrival_ptr - 1) \cup {arrival_ptr}
  BY <1>1
<1>5. /\ Contents(inactive_heap') \subseteq 0 .. arrival_ptr' - 1
      /\ active_process' \in 0 .. arrival_ptr' - 1 \/ active_process' = NULL
      /\ active_process' \notin Contents(inactive_heap')
  BY <1>1, <1>2, <1>3, <1>4 DEF HeapFacts
<1>6. /\ arrival_ptr' \in 0 .. num_process
      /\ inactive_heap'.heap_size + (IF active_process' = NULL THEN 0 ELSE 1) <= arrival_ptr'
  <2> DEFINE a == IF active_process = NULL THEN 0 ELSE 1
  <2>1. /\ a \in Nat /\ inactive_heap.heap_size + a <= arrival_ptr
        /\ (IF active_process' = NULL THEN 0 ELSE 1) = a /\ num_process \in Nat
    BY <1>2, NumProcessAssumption DEF HeapFacts
  <2> HIDE DEF a
  <2> QED BY <1>1, <1>3, <2>1
<1>7. HeapFacts'
  BY <1>3, <1>5, <1>6 DEF HeapFacts
<1> QED
  BY <1>1, <1>3, <1>7 DEF Active

(* The end of the active job leaves the heap alone (SJF.c:17-20).           *)
LEMMA RemoveHeap ==
  ASSUME HeapFacts, remove_current_process_SJF, UNCHANGED <<remaining_time, arrival_ptr>>
  PROVE  HeapFacts'
<1>1. inactive_heap.heap_size \in Int /\ arrival_ptr \in Int
  BY DEF HeapFacts, IsHeap
<1>2. /\ inactive_heap' = inactive_heap /\ active_process' = NULL
      /\ remaining_time' = remaining_time /\ arrival_ptr' = arrival_ptr
  BY DEF remove_current_process_SJF
<1>3. NULL \notin Contents(inactive_heap)
  BY DEF HeapFacts, NULL
<1> QED
  BY <1>1, <1>2, <1>3 DEF HeapFacts

(* With no job active, the shortest one is taken out of the heap            *)
(* (SJF.c:22-28).                                                           *)
LEMMA SwitchHeap ==
  ASSUME HeapFacts, ~context_switch_SJF_stale, context_switch_SJF,
         UNCHANGED <<remaining_time, arrival_ptr>>
  PROVE  /\ HeapFacts'
         /\ active_process' # NULL
         /\ active_process # NULL => UNCHANGED <<inactive_heap, active_process, sched>>
         /\ active_process = NULL =>
              /\ active_process' = heap_top(inactive_heap)
              /\ active_process' \in Contents(inactive_heap)
              /\ active_process' \in Child
              /\ \A q \in Contents(inactive_heap) \ {active_process'} :
                   Shorter(remaining_time, active_process', q)
              /\ Contents(inactive_heap)' = Contents(inactive_heap) \ {active_process'}
              /\ inactive_heap'.heap_size = inactive_heap.heap_size - 1
              /\ inactive_heap.heap_size > 0
              /\ sched' = resume_process(sched, active_process')
<1>1. CASE active_process # NULL
  <2>1. UNCHANGED <<inactive_heap, active_process, sched, remaining_time, arrival_ptr>>
    BY <1>1 DEF context_switch_SJF, sjfvars
  <2> QED BY <1>1, <2>1 DEF HeapFacts
<1>2. CASE active_process = NULL
  <2>1. /\ active_process' = heap_top(inactive_heap)
        /\ inactive_heap' = heap_pop(remaining_time, inactive_heap)
        /\ sched' = resume_process(sched, active_process')
        /\ remaining_time' = remaining_time /\ arrival_ptr' = arrival_ptr
    BY <1>2 DEF context_switch_SJF
  <2>2. inactive_heap.heap_size > 0 /\ inactive_heap.heap_size \in Nat /\ arrival_ptr \in Nat
    BY <1>2, NumProcessAssumption DEF context_switch_SJF_stale, heap_empty, HeapFacts, IsHeap
  <2>3. /\ heap_top(inactive_heap) \in Contents(inactive_heap)
        /\ \A q \in Contents(inactive_heap) \ {heap_top(inactive_heap)} :
             Shorter(remaining_time, heap_top(inactive_heap), q)
    BY <2>2, TopIsShortest DEF HeapFacts
  <2>4. /\ IsHeap(remaining_time, inactive_heap')
        /\ Contents(inactive_heap') = Contents(inactive_heap) \ {heap_top(inactive_heap)}
        /\ inactive_heap'.heap_size = inactive_heap.heap_size - 1
    BY <2>1, <2>2, PopCorrect DEF HeapFacts
  <2>5. /\ active_process' \in 0 .. arrival_ptr - 1 /\ active_process' # NULL
        /\ active_process' \in Child
    BY <2>1, <2>3, NumProcessAssumption DEF HeapFacts, NULL, Child
  <2>6. inactive_heap'.heap_size + 1 <= arrival_ptr
    BY <1>2, <2>2, <2>4 DEF HeapFacts
  <2>7. HeapFacts'
    <3>1. /\ Contents(inactive_heap') \subseteq 0 .. arrival_ptr - 1
          /\ active_process' \notin Contents(inactive_heap')
      BY <2>1, <2>4 DEF HeapFacts
    <3> QED BY <2>1, <2>4, <2>5, <2>6, <3>1 DEF HeapFacts
  <2> QED BY <1>2, <2>1, <2>2, <2>3, <2>4, <2>5, <2>7
<1> QED
  BY <1>1, <1>2

-----------------------------------------------------------------------------
(* The invariant: the heap, the types, and the priorities *)

(* The invariant with the heap read that way.                               *)
LEMMA InvParts == Inv <=> HeapFacts /\ SchedTypes /\ ActiveResumed /\ OwedSwitch
BY HeapInv DEF Inv

(* The same of the state after a step.                                      *)
LEMMA InvPartsAfter == (HeapFacts /\ SchedTypes /\ ActiveResumed /\ OwedSwitch)' => Inv'
BY InvParts, PTL

(* The jobs there are.                                                      *)
LEMMA PoolType ==
  ASSUME HeapFacts
  PROVE  /\ Contents(inactive_heap) \subseteq Child
         /\ Active \subseteq Child
         /\ active_process \in Child \cup {NULL}
<1>1. 0 .. arrival_ptr - 1 \subseteq Child
  BY NumProcessAssumption DEF HeapFacts, Child
<1> QED
  BY <1>1 DEF HeapFacts, Active

(* set_strategy_SJF, with no child forked.                                  *)
LEMMA InitInv == Init => Inv
<1> SUFFICES ASSUME Init PROVE Inv
  OBVIOUS
<1>1. /\ inactive_heap = heap_init /\ active_process = NULL /\ arrival_ptr = 0
      /\ sched = NoChildren /\ phase = "running" /\ remaining_time \in [Child -> Nat]
  BY TimesNeededAssumption DEF Init, set_strategy_SJF
<1>2. /\ inactive_heap.heap_size = 0 /\ inactive_heap.pq = [i \in Child |-> NULL]
      /\ inactive_heap \in [pq : Array, heap_size : 0 .. num_process]
  BY <1>1, NumProcessAssumption DEF heap_init, Array
<1>3. Contents(inactive_heap) = {}
  BY <1>2, NumProcessAssumption DEF Contents, Child
<1>4. HeapFacts
  <2>1. IsHeap(remaining_time, inactive_heap)
    BY <1>2 DEF IsHeap, Full, Ordered
  <2> QED BY <1>1, <1>2, <1>3, <2>1, NumProcessAssumption DEF HeapFacts
<1>5. SchedTypes
  BY <1>1 DEF SchedTypes, NoChildren, PRIO_MIN, PRIO_MAX
<1>6. ActiveResumed /\ OwedSwitch
  BY <1>1, <1>2, <1>3 DEF ActiveResumed, OwedSwitch, Active, heap_empty
<1> QED BY <1>4, <1>5, <1>6, InvParts

(* The priorities of a child that is forked and suspended.                  *)
LEMMA AddedPriority ==
  ASSUME NEW p \in Child, sched.prio \in [Child -> PRIO_MIN .. PRIO_MAX],
         sched' = suspend_process(fork(sched, p), p)
  PROVE  sched'.prio = [sched.prio EXCEPT ![p] = PRIO_MIN]
<1>1. /\ sched'.prio = [fork(sched, p).prio EXCEPT ![p] = PRIO_MIN]
      /\ fork(sched, p).prio = [sched.prio EXCEPT ![p] = PRIO_MAX]
  BY PriorityOfCalls
<1> QED BY <1>1

(* main.c:61-78 with SJF.c:12-15.                                           *)
LEMMA AddInv == Inv /\ Add => Inv'
<1> SUFFICES ASSUME Inv, Add PROVE Inv'
  OBVIOUS
<1>1. HeapFacts /\ SchedTypes /\ ActiveResumed
  BY InvParts
<1>2. /\ HeapFacts'
      /\ Contents(inactive_heap)' = Contents(inactive_heap) \cup {arrival_ptr}
      /\ arrival_ptr \notin Contents(inactive_heap) \cup Active
      /\ arrival_ptr \in Child
  BY <1>1, AddHeap DEF Add
<1>3. active_process' = active_process /\ Active' = Active /\ phase' = "arrived"
  BY DEF Add, add_process_SJF, Active
<1>4. sched'.prio = [sched.prio EXCEPT ![arrival_ptr] = PRIO_MIN]
  BY <1>1, <1>2, AddedPriority DEF Add, SchedTypes
<1>5. SchedTypes'
  BY <1>1, <1>2, <1>3, <1>4, PriorityType DEF SchedTypes
<1>6. ActiveResumed'
  <2>1. PRIO_MIN # PRIO_RUN
    BY DEF PRIO_MIN, PRIO_RUN, PRIO_MAX
  <2>2. Contents(inactive_heap) \cup Active \subseteq Child
    BY <1>1, PoolType
  <2> QED BY <1>1, <1>2, <1>3, <1>4, <2>1, <2>2 DEF ActiveResumed, SchedTypes
<1>7. OwedSwitch'
  BY <1>3 DEF OwedSwitch
<1> QED
  BY <1>2, <1>5, <1>6, <1>7, InvPartsAfter

(* main.c:152-164 with SJF.c:17-20.                                         *)
LEMMA RemoveInv == Inv /\ Remove => Inv'
<1> SUFFICES ASSUME Inv, Remove PROVE Inv'
  OBVIOUS
<1>1. HeapFacts /\ SchedTypes /\ ActiveResumed
  BY InvParts
<1>2. HeapFacts'
  BY <1>1, RemoveHeap DEF Remove
<1>3. /\ inactive_heap' = inactive_heap /\ sched' = sched /\ phase' = "switching"
      /\ active_process # NULL /\ active_process' = NULL
  BY DEF Remove, remove_current_process_SJF
<1>4. Active' = {} /\ active_process \notin Contents(inactive_heap) /\ Active = {active_process}
  BY <1>1, <1>3 DEF Active, HeapFacts
<1>5. SchedTypes' /\ OwedSwitch' /\ ActiveResumed'
  BY <1>1, <1>3, <1>4 DEF SchedTypes, OwedSwitch, ActiveResumed
<1> QED
  BY <1>2, <1>5, InvPartsAfter

(* main.c:173-180 with SJF.c:22-28.                                         *)
LEMMA SwitchInv == Inv /\ Switch => Inv'
<1> SUFFICES ASSUME Inv, Switch PROVE Inv'
  OBVIOUS
<1>1. HeapFacts /\ SchedTypes /\ ActiveResumed
  BY InvParts
<1>2. HeapFacts' /\ active_process' # NULL
  BY <1>1, SwitchHeap DEF Switch
<1>3. phase' = "running"
  BY DEF Switch
<1>4. OwedSwitch'
  BY <1>2 DEF OwedSwitch
<1>5. SchedTypes' /\ ActiveResumed'
  <2>1. CASE active_process # NULL
    <3>1. UNCHANGED <<inactive_heap, active_process, sched>>
      BY <1>1, <2>1, SwitchHeap DEF Switch
    <3> QED BY <1>1, <1>3, <3>1 DEF SchedTypes, ActiveResumed, Active
  <2>2. CASE active_process = NULL
    <3>1. /\ active_process' \in Contents(inactive_heap) /\ active_process' \in Child
          /\ Contents(inactive_heap)' = Contents(inactive_heap) \ {active_process'}
          /\ sched' = resume_process(sched, active_process')
      BY <1>1, <2>2, SwitchHeap DEF Switch
    <3>2. sched'.prio = [sched.prio EXCEPT ![active_process'] = PRIO_RUN]
      BY <3>1, PriorityOfCalls
    <3>3. SchedTypes'
      BY <1>1, <1>3, <3>1, <3>2, PriorityType DEF SchedTypes
    <3>4. Active' = {active_process'} /\ Active = {}
      BY <1>2, <2>2 DEF Active
    <3>5. Contents(inactive_heap) \subseteq Child
      BY <1>1, PoolType
    <3>6. ActiveResumed'
      BY <1>1, <3>1, <3>2, <3>4, <3>5 DEF ActiveResumed, SchedTypes
    <3> QED BY <3>3, <3>6
  <2> QED BY <2>1, <2>2
<1> QED
  BY <1>2, <1>4, <1>5, InvPartsAfter

(* The exit of a child changes no priority, and SJF.c does not see it yet.  *)
LEMMA ExitInv == ASSUME Inv, NEW p \in Child, Exit(p) PROVE Inv'
<1>1. HeapFacts /\ SchedTypes /\ ActiveResumed /\ OwedSwitch
  BY InvParts
<1>2. /\ remaining_time' = remaining_time /\ inactive_heap' = inactive_heap
      /\ active_process' = active_process /\ arrival_ptr' = arrival_ptr
      /\ phase' = phase /\ sched'.prio = sched.prio
  BY PriorityOfCalls DEF Exit, sjfvars
<1>3. HeapFacts' /\ SchedTypes' /\ ActiveResumed' /\ OwedSwitch'
  BY <1>1, <1>2 DEF HeapFacts, SchedTypes, ActiveResumed, OwedSwitch, Active
<1> QED
  BY <1>3, InvPartsAfter

(* Every step of the component keeps the invariant.                         *)
LEMMA NextInv == Inv /\ [Next]_vars => Inv'
<1> SUFFICES ASSUME Inv, [Next]_vars PROVE Inv'
  OBVIOUS
<1>1. CASE UNCHANGED vars
  <2>1. HeapFacts /\ SchedTypes /\ ActiveResumed /\ OwedSwitch
    BY InvParts
  <2>2. /\ remaining_time' = remaining_time /\ inactive_heap' = inactive_heap
        /\ active_process' = active_process /\ arrival_ptr' = arrival_ptr
        /\ phase' = phase /\ sched' = sched
    BY <1>1 DEF vars, sjfvars
  <2>3. HeapFacts' /\ SchedTypes' /\ ActiveResumed' /\ OwedSwitch'
    BY <2>1, <2>2 DEF HeapFacts, SchedTypes, ActiveResumed, OwedSwitch, Active
  <2> QED BY <2>3, InvPartsAfter
<1> QED
  BY <1>1, AddInv, RemoveInv, SwitchInv, ExitInv DEF Next

(* SJF.c keeps its invariant, for every number of processes and whatever    *)
(* time they need: types, a heap, room in it for every arrival, one job     *)
(* resumed and a switch owed while one waits for a free CPU.                *)
THEOREM Invariance == Spec => []Inv
<1> QED
  BY InitInv, NextInv, PTL DEF Spec

(* heap.c as SJF.c uses it: no sequence of heap_insert and heap_pop loses a *)
(* job, duplicates one or breaks the order of the heap.                     *)
THEOREM HeapStaysSafe == Spec => []HeapSafe
<1>1. Inv => HeapSafe
  BY DEF Inv, HeapSound
<1> QED
  BY <1>1, Invariance, PTL

-----------------------------------------------------------------------------
(* SJF.c implements the set from which the shortest job is taken *)

(* A call that changes neither SJF.c's data nor a priority is no step of    *)
(* the specifications SJF.c implements.                                     *)
LEMMA StutterRefines ==
  ASSUME UNCHANGED <<remaining_time, sjfvars>>, sched'.prio = sched.prio
  PROVE  UNCHANGED SJ!vars /\ (phase' = phase => UNCHANGED J!vars)
<1>1. /\ remaining_time' = remaining_time /\ inactive_heap' = inactive_heap
      /\ active_process' = active_process /\ Active' = Active
  BY DEF sjfvars, Active
<1> QED BY <1>1 DEF SJ!vars, J!vars

(* Every step is a step of ShortestJob or a stutter.                        *)
LEMMA StepRefines == Inv /\ [Next]_vars => [SJ!Next]_(SJ!vars)
<1> SUFFICES ASSUME Inv, [Next]_vars PROVE [SJ!Next]_(SJ!vars)
  OBVIOUS
<1>0. HeapFacts
  BY InvParts
<1>1. CASE Add
  <2>1. /\ Contents(inactive_heap)' = Contents(inactive_heap) \cup {arrival_ptr}
        /\ arrival_ptr \notin Contents(inactive_heap) \cup Active
        /\ arrival_ptr \in Child
    BY <1>0, <1>1, AddHeap DEF Add
  <2>2. Active' = Active /\ remaining_time' = remaining_time
    BY <1>1 DEF Add, add_process_SJF, Active
  <2>3. SJ!Arrive(arrival_ptr)
    BY <2>1, <2>2 DEF SJ!Arrive
  <2> QED BY <2>1, <2>3 DEF SJ!Next
<1>2. CASE Remove
  <2>1. /\ inactive_heap' = inactive_heap /\ remaining_time' = remaining_time
        /\ active_process # NULL /\ active_process' = NULL
    BY <1>2 DEF Remove, remove_current_process_SJF
  <2>2. SJ!End
    BY <2>1 DEF SJ!End, Active
  <2> QED BY <2>2 DEF SJ!Next
<1>3. CASE Switch
  <2>1. CASE active_process # NULL
    <3>1. UNCHANGED <<inactive_heap, active_process, sched, remaining_time>>
      BY <1>0, <1>3, <2>1, SwitchHeap DEF Switch
    <3> QED BY <3>1, StutterRefines DEF sjfvars
  <2>2. CASE active_process = NULL
    <3>1. /\ active_process' \in Contents(inactive_heap) /\ active_process' \in Child
          /\ active_process' # NULL
          /\ \A q \in Contents(inactive_heap) \ {active_process'} :
               Shorter(remaining_time, active_process', q)
          /\ Contents(inactive_heap)' = Contents(inactive_heap) \ {active_process'}
      BY <1>0, <1>3, <2>2, SwitchHeap DEF Switch
    <3>2. Active = {} /\ Active' = {active_process'} /\ remaining_time' = remaining_time
      BY <1>3, <2>2, <3>1 DEF Active, Switch
    <3>3. SJ!Dispatch(active_process')
      BY <3>1, <3>2 DEF SJ!Dispatch, SJ!Before, Shorter
    <3> QED BY <3>1, <3>3 DEF SJ!Next
  <2> QED BY <2>1, <2>2
<1>4. ASSUME NEW p \in Child, Exit(p) PROVE UNCHANGED SJ!vars
  BY <1>4, PriorityOfCalls, StutterRefines DEF Exit
<1>5. CASE UNCHANGED vars
  BY <1>5, StutterRefines DEF vars
<1> QED
  BY <1>1, <1>2, <1>3, <1>4, <1>5 DEF Next

(* The empty heap is the empty set.                                         *)
LEMMA InitRefines == Init => SJ!Init /\ J!Init
<1> SUFFICES ASSUME Init PROVE SJ!Init /\ J!Init
  OBVIOUS
<1>1. /\ inactive_heap = heap_init /\ active_process = NULL /\ remaining_time \in [Child -> Nat]
  BY TimesNeededAssumption DEF Init, set_strategy_SJF
<1>2. Contents(inactive_heap) = {}
  BY <1>1 DEF Contents, Child, heap_init
<1>3. Contents(inactive_heap) \cup Active = {} /\ Active = {}
  BY <1>1, <1>2 DEF Active
<1>4. J!Init
  <2>1. {p \in Contents(inactive_heap) \cup Active : sched.prio[p] = PRIO_RUN} = {}
    BY <1>3
  <2>2. (phase # "running") = FALSE
    BY DEF Init
  <2> QED BY <1>3, <2>1, <2>2, Zenon DEF J!Init
<1> QED BY <1>1, <1>2, <1>3, <1>4 DEF SJ!Init

(* SJF.c implements non-preemptive shortest job first, for every number of  *)
(* processes: see ImplementsShortestJob.                                    *)
THEOREM Refinement == Spec => ImplementsShortestJob
<1>1. Spec => SJ!Init
  BY InitRefines DEF Spec
<1>2. Spec => [][SJ!Next]_(SJ!vars)
  BY Invariance, StepRefines, PTL DEF Spec
<1> QED
  BY <1>1, <1>2 DEF ImplementsShortestJob, SJ!Spec

-----------------------------------------------------------------------------
(* and keeps the interface of scheduler.h *)

Resumed == {p \in Contents(inactive_heap) \cup Active : sched.prio[p] = PRIO_RUN}

(* The job that has been resumed is the active one.                         *)
LEMMA ResumedIsActive == Inv => Resumed = Active
BY DEF Inv, ActiveResumed, Resumed

(* The same of the state after a step.                                      *)
LEMMA ResumedAfter == Inv' => (Resumed = Active)'
BY ResumedIsActive, PTL

(* Every step is a step of JobScheduler or a stutter.                       *)
LEMMA StepKeeps == Inv /\ Inv' /\ [Next]_vars => [J!Next]_(J!vars)
<1> SUFFICES ASSUME Inv, Inv', [Next]_vars PROVE [J!Next]_(J!vars)
  OBVIOUS
<1>0. HeapFacts /\ Resumed = Active /\ Resumed' = Active'
  BY InvParts, ResumedIsActive, ResumedAfter
<1>1. CASE Add
  <2>1. /\ Contents(inactive_heap)' = Contents(inactive_heap) \cup {arrival_ptr}
        /\ arrival_ptr \notin Contents(inactive_heap) \cup Active
        /\ arrival_ptr \in Child
    BY <1>0, <1>1, AddHeap DEF Add
  <2>2. Active' = Active
    BY <1>1 DEF Add, add_process_SJF, Active
  <2>3. Resumed' = Resumed
    BY <1>0, <2>2
  <2>4. J!add_process(arrival_ptr)
    BY <1>1, <2>1, <2>2, <2>3 DEF J!add_process, Resumed, Add
  <2> QED BY <2>1, <2>4 DEF J!Next
<1>2. CASE Remove
  <2>1. /\ inactive_heap' = inactive_heap
        /\ active_process # NULL /\ active_process' = NULL
    BY <1>2 DEF Remove, remove_current_process_SJF
  <2>2. Active = {active_process} /\ Active' = {} /\ active_process \notin Contents(inactive_heap)
    BY <1>0, <2>1 DEF Active, HeapFacts
  <2>3. Resumed = {active_process} /\ Resumed' = {}
    BY <1>0, <2>2
  <2>4. /\ active_process \in Contents(inactive_heap) \cup Active
        /\ Contents(inactive_heap)' \cup Active' = (Contents(inactive_heap) \cup Active) \ {active_process}
    BY <2>1, <2>2
  <2>5. J!remove_current_process
    BY <1>2, <2>3, <2>4 DEF J!remove_current_process, Resumed, Remove
  <2> QED BY <2>5 DEF J!Next
<1>3. CASE Switch
  <2>1. CASE active_process # NULL
    <3>1. UNCHANGED <<inactive_heap, active_process, sched, remaining_time>>
      BY <1>0, <1>3, <2>1, SwitchHeap DEF Switch
    <3>2. Active = {active_process} /\ Active' = Active
      BY <2>1, <3>1 DEF Active
    <3>3. Resumed' = {active_process} /\ active_process \in Contents(inactive_heap) \cup Active
      BY <1>0, <3>2
    <3>4. Contents(inactive_heap)' \cup Active' = Contents(inactive_heap) \cup Active
      BY <3>1, <3>2
    <3>5. J!context_switch
      BY <1>3, <3>3, <3>4 DEF J!context_switch, Resumed, Switch
    <3> QED BY <3>5 DEF J!Next
  <2>2. CASE active_process = NULL
    <3>1. /\ active_process' \in Contents(inactive_heap)
          /\ active_process' # NULL
          /\ Contents(inactive_heap)' = Contents(inactive_heap) \ {active_process'}
      BY <1>0, <1>3, <2>2, SwitchHeap DEF Switch
    <3>2. Active = {} /\ Active' = {active_process'}
      BY <2>2, <3>1 DEF Active
    <3>3. Resumed' = {active_process'}
      BY <1>0, <3>2
    <3>4. /\ Contents(inactive_heap)' \cup Active' = Contents(inactive_heap) \cup Active
          /\ active_process' \in Contents(inactive_heap) \cup Active
          /\ Contents(inactive_heap) \cup Active # {}
      BY <3>1, <3>2
    <3>5. J!context_switch
      BY <1>3, <3>3, <3>4 DEF J!context_switch, Resumed, Switch
    <3> QED BY <3>5 DEF J!Next
  <2> QED BY <2>1, <2>2
<1>4. ASSUME NEW p \in Child, Exit(p) PROVE UNCHANGED J!vars
  BY <1>4, PriorityOfCalls, StutterRefines DEF Exit
<1>5. CASE UNCHANGED vars
  BY <1>5, StutterRefines DEF vars
<1> QED
  BY <1>1, <1>2, <1>3, <1>4, <1>5 DEF Next

(* SJF.c does what scheduler.h asks of a job scheduler: see KeepsInterface. *)
THEOREM InterfaceKept == Spec => KeepsInterface
<1>1. Spec => J!Init
  BY InitRefines DEF Spec
<1>2. Spec => [][J!Next]_(J!vars)
  BY Invariance, StepKeeps, PTL DEF Spec
<1> QED
  BY <1>1, <1>2 DEF KeepsInterface, J!Spec
=============================================================================
