--------------------------- MODULE SchedFifoProofs ---------------------------
(***************************************************************************)
(* What the calls of sched_setscheduler, fork and exit do to the run list  *)
(* of module SchedFifo, for every number of children.                      *)
(***************************************************************************)
EXTENDS SchedFifo, FiniteSetTheorems, TLAPS

Elements(q) == {q[i] : i \in DOMAIN q}

(* Where p is in the list, if it is. *)
LEMMA WithoutAt ==
  ASSUME NEW q \in Seq(Child), NEW k \in 1 .. Len(q),
         \A i \in 1 .. Len(q) : q[i] = q[k] => i = k
  PROVE  Without(q, q[k]) = [i \in 1 .. Len(q) - 1 |-> IF i < k THEN q[i] ELSE q[i + 1]]
<1>1. (CHOOSE i \in DOMAIN q : q[i] = q[k]) = k
  OBVIOUS
<1> QED
  BY <1>1 DEF Without

(* A list p is not in is left as it is.                                     *)
LEMMA WithoutAbsent ==
  ASSUME NEW q \in Seq(Child), NEW p, p \notin Elements(q)
  PROVE  Without(q, p) = q
BY DEF Without, Elements

(* Leaving the list keeps its order and all the others. *)
LEMMA WithoutFacts ==
  ASSUME NEW q \in Seq(Child), NEW p, Distinct(q)
  PROVE  /\ Without(q, p) \in Seq(Child)
         /\ Distinct(Without(q, p))
         /\ Elements(Without(q, p)) = Elements(q) \ {p}
         /\ Increasing(q) => Increasing(Without(q, p))
<1>1. CASE p \notin Elements(q)
  BY <1>1, WithoutAbsent
<1>2. CASE p \in Elements(q)
  <2>1. PICK k \in 1 .. Len(q) : p = q[k]
    BY <1>2 DEF Elements
  <2> DEFINE w == [i \in 1 .. Len(q) - 1 |-> IF i < k THEN q[i] ELSE q[i + 1]]
  <2>2. Without(q, p) = w
    <3>1. \A i \in 1 .. Len(q) : q[i] = q[k] => i = k
      BY <2>1 DEF Distinct
    <3>2. Without(q, q[k]) = w
      BY <2>1, <3>1, WithoutAt, Zenon
    <3> QED BY <2>1, <3>2, Zenon
  <2>3. Len(q) \in Nat /\ DOMAIN q = 1 .. Len(q) /\ Len(q) - 1 \in Nat
    BY <2>1
  <2>4. w \in Seq(Child) /\ Len(w) = Len(q) - 1 /\ DOMAIN w = 1 .. Len(q) - 1
    <3>1. w \in [1 .. Len(q) - 1 -> Child]
      BY <2>3
    <3> QED BY <2>3, <3>1
  <2>5. \A i \in 1 .. Len(q) - 1 : w[i] = IF i < k THEN q[i] ELSE q[i + 1]
    OBVIOUS
  <2> HIDE DEF w
  <2>6. Distinct(w)
    <3> SUFFICES ASSUME NEW i \in DOMAIN w, NEW j \in DOMAIN w, w[i] = w[j]
                 PROVE  i = j
      BY DEF Distinct
    <3> DEFINE a == IF i < k THEN i ELSE i + 1
               b == IF j < k THEN j ELSE j + 1
    <3>1. a \in DOMAIN q /\ b \in DOMAIN q /\ q[a] = q[b]
      BY <2>3, <2>4, <2>5
    <3>2. a = b
      BY <3>1 DEF Distinct
    <3> QED BY <2>4, <3>2
  <2>7. Increasing(q) => Increasing(w)
    <3> SUFFICES ASSUME Increasing(q), NEW i \in DOMAIN w, NEW j \in DOMAIN w, i < j
                 PROVE  w[i] < w[j]
      BY DEF Increasing
    <3> DEFINE a == IF i < k THEN i ELSE i + 1
               b == IF j < k THEN j ELSE j + 1
    <3>1. a \in DOMAIN q /\ b \in DOMAIN q /\ a < b /\ w[i] = q[a] /\ w[j] = q[b]
      BY <2>3, <2>4, <2>5
    <3> QED BY <3>1 DEF Increasing
  <2>8. Elements(w) = Elements(q) \ {p}
    <3>1. ASSUME NEW x \in Elements(w) PROVE x \in Elements(q) \ {p}
      <4>1. PICK i \in DOMAIN w : x = w[i]
        BY DEF Elements
      <4> DEFINE a == IF i < k THEN i ELSE i + 1
      <4>2. a \in DOMAIN q /\ a # k /\ x = q[a]
        BY <4>1, <2>3, <2>4, <2>5
      <4> HIDE DEF a
      <4> QED BY <4>2, <2>1, <2>3 DEF Elements, Distinct
    <3>2. ASSUME NEW x \in Elements(q) \ {p} PROVE x \in Elements(w)
      <4>1. PICK i \in DOMAIN q : x = q[i]
        BY DEF Elements
      <4> DEFINE a == IF i < k THEN i ELSE i - 1
      <4>2. i # k
        BY <4>1, <2>1
      <4>3. a \in DOMAIN w /\ w[a] = x
        BY <4>1, <4>2, <2>3, <2>4, <2>5
      <4> HIDE DEF a
      <4> QED BY <4>3 DEF Elements
    <3> QED BY <3>1, <3>2
  <2> QED BY <2>2, <2>4, <2>6, <2>7, <2>8
<1> QED BY <1>1, <1>2

(* A child that enters at the tail, or at the head. *)
LEMMA EnterFacts ==
  ASSUME NEW q \in Seq(Child), NEW p \in Child, Distinct(q), p \notin Elements(q)
  PROVE  /\ Append(q, p) \in Seq(Child) /\ <<p>> \o q \in Seq(Child)
         /\ Distinct(Append(q, p)) /\ Distinct(<<p>> \o q)
         /\ Elements(Append(q, p)) = Elements(q) \cup {p}
         /\ Elements(<<p>> \o q) = Elements(q) \cup {p}
         /\ Without(Append(q, p), p) = q
         /\ Without(<<p>> \o q, p) = q
         /\ Increasing(q) /\ (\A x \in Elements(q) : x < p) => Increasing(Append(q, p))
<1> DEFINE n == Len(q)
           a == Append(q, p)
           b == <<p>> \o q
<1>1. n \in Nat /\ DOMAIN q = 1 .. n /\ \A i \in 1 .. n : q[i] \in Child /\ q[i] # p
  BY DEF Elements
<1>2. /\ a \in Seq(Child) /\ Len(a) = n + 1 /\ DOMAIN a = 1 .. n + 1
      /\ a[n + 1] = p /\ \A i \in 1 .. n : a[i] = q[i]
  OBVIOUS
<1>3. /\ b \in Seq(Child) /\ Len(b) = n + 1 /\ DOMAIN b = 1 .. n + 1
      /\ b[1] = p /\ \A i \in 2 .. n + 1 : b[i] = q[i - 1]
  BY <1>1
<1>4. Distinct(a) /\ Distinct(b)
  <2> HIDE DEF a, b, n
  <2>1. Distinct(a)
    BY <1>1, <1>2 DEF Distinct
  <2>2. \A i, j \in 1 .. n : q[i] = q[j] => i = j
    BY <1>1 DEF Distinct
  <2>3. ASSUME NEW i \in 1 .. n + 1, NEW j \in 1 .. n + 1, b[i] = b[j]
        PROVE  i = j
    <3>1. i # 1 => i - 1 \in 1 .. n /\ b[i] = q[i - 1]
      BY <1>1, <1>3
    <3>2. j # 1 => j - 1 \in 1 .. n /\ b[j] = q[j - 1]
      BY <1>1, <1>3
    <3>3. CASE i = 1 \/ j = 1
      BY <3>1, <3>2, <3>3, <2>3, <1>1, <1>3
    <3>4. CASE i # 1 /\ j # 1
      BY <3>1, <3>2, <3>4, <2>2, <2>3
    <3> QED BY <3>3, <3>4
  <2> QED BY <2>1, <2>3, <1>3 DEF Distinct
<1>5. Elements(a) = Elements(q) \cup {p}
  <2> HIDE DEF a, b, n
  <2> QED BY <1>1, <1>2 DEF Elements
<1>6. Elements(b) = Elements(q) \cup {p}
  <2> HIDE DEF a, b, n
  <2>1. \A i \in 1 .. n : i + 1 \in DOMAIN b /\ b[i + 1] = q[i]
    BY <1>1, <1>3
  <2>2. ASSUME NEW i \in DOMAIN b PROVE b[i] \in Elements(q) \cup {p}
    <3>1. i # 1 => i - 1 \in DOMAIN q /\ b[i] = q[i - 1]
      BY <1>1, <1>3
    <3> QED BY <3>1, <1>3 DEF Elements
  <2>3. Elements(q) \subseteq Elements(b)
    BY <1>1, <2>1 DEF Elements
  <2>4. p \in Elements(b)
    BY <1>1, <1>3 DEF Elements
  <2>5. Elements(b) \subseteq Elements(q) \cup {p}
    BY <2>2 DEF Elements
  <2> QED BY <2>3, <2>4, <2>5
<1>7. Without(a, p) = q
  <2>1. Without(a, a[n + 1]) = [i \in 1 .. Len(a) - 1 |-> IF i < n + 1 THEN a[i] ELSE a[i + 1]]
    <3> HIDE DEF a, b, n
    <3> QED BY <1>1, <1>2, WithoutAt
  <2> QED BY <2>1, <1>1, <1>2
<1>8. Without(b, p) = q
  <2>1. Without(b, b[1]) = [i \in 1 .. Len(b) - 1 |-> IF i < 1 THEN b[i] ELSE b[i + 1]]
    <3> HIDE DEF a, b, n
    <3> QED BY <1>1, <1>3, WithoutAt
  <2>2. Without(b, p) = [i \in 1 .. n |-> q[i]]
    <3> HIDE DEF a, b, n
    <3> QED BY <2>1, <1>1, <1>3
  <2> QED BY <2>2, <1>1
<1>9. Increasing(q) /\ (\A x \in Elements(q) : x < p) => Increasing(a)
  <2> HIDE DEF a, b, n
  <2> QED BY <1>1, <1>2 DEF Increasing, Elements
<1> QED BY <1>2, <1>3, <1>4, <1>5, <1>6, <1>7, <1>8, <1>9

(* A child the kernel has in its list once, whatever is done to its priority. *)
LEMMA SetPriorityFacts ==
  ASSUME NEW s \in Kernel, NEW p \in Child, NEW v \in {PRIO_MIN, PRIO_RUN, PRIO_MAX}, Distinct(s.rq)
  PROVE  /\ set_priority(s, p, v) \in Kernel
         /\ Distinct(set_priority(s, p, v).rq)
         /\ Queued(set_priority(s, p, v)) = Queued(s)
         /\ set_priority(s, p, v).prio = [s.prio EXCEPT ![p] = v]
<1> DEFINE t == set_priority(s, p, v)
<1>1. s.prio \in [Child -> PRIO_MIN .. PRIO_MAX] /\ s.rq \in Seq(Child) /\ Queued(s) = Elements(s.rq)
  BY DEF Kernel, Queued, Elements
<1>2. t.prio = [s.prio EXCEPT ![p] = v]
  BY DEF set_priority
<1>3. v \in PRIO_MIN .. PRIO_MAX /\ s.prio[p] \in PRIO_MIN .. PRIO_MAX
  BY <1>1 DEF PRIO_MIN, PRIO_MAX, PRIO_RUN
<1>4. \/ t.rq = s.rq
      \/ p \in Queued(s) /\ t.rq = <<p>> \o Without(s.rq, p)
      \/ p \in Queued(s) /\ t.rq = Append(Without(s.rq, p), p)
  <2>1. \/ p \notin Queued(s) \/ v = s.prio[p]
        \/ p \in Queued(s) /\ v < s.prio[p]
        \/ p \in Queued(s) /\ v > s.prio[p]
    <3>1. v \in Int /\ s.prio[p] \in Int
      BY <1>3 DEF PRIO_MIN, PRIO_MAX
    <3>2. v = s.prio[p] \/ v < s.prio[p] \/ v > s.prio[p]
      BY <3>1
    <3> QED BY <3>2, Zenon
  <2>2. t.rq = CASE p \notin Queued(s) \/ v = s.prio[p] -> s.rq
                 [] p \in Queued(s) /\ v < s.prio[p]    -> <<p>> \o Without(s.rq, p)
                 [] p \in Queued(s) /\ v > s.prio[p]    -> Append(Without(s.rq, p), p)
    BY Zenon DEF set_priority
  <2> QED BY <2>1, <2>2, Zenon
<1>5. \E a, b : t = [prio |-> a, rq |-> b]
  BY Zenon DEF set_priority
<1> HIDE DEF t
<1> DEFINE w == Without(s.rq, p)
<1>6. w \in Seq(Child) /\ Distinct(w) /\ Elements(w) = Elements(s.rq) \ {p}
  BY <1>1, WithoutFacts
<1> HIDE DEF w
<1>7. t.rq \in Seq(Child) /\ Distinct(t.rq) /\ Elements(t.rq) = Elements(s.rq)
  <2>1. CASE t.rq = s.rq
    BY <2>1, <1>1
  <2>2. /\ Append(w, p) \in Seq(Child) /\ <<p>> \o w \in Seq(Child)
        /\ Distinct(Append(w, p)) /\ Distinct(<<p>> \o w)
        /\ Elements(Append(w, p)) = Elements(w) \cup {p}
        /\ Elements(<<p>> \o w) = Elements(w) \cup {p}
    <3>1. p \notin Elements(w)
      BY <1>6
    <3> QED BY <3>1, <1>6, EnterFacts, Zenon
  <2>3. CASE p \in Queued(s) /\ t.rq = <<p>> \o w
    BY <2>2, <2>3, <1>1, <1>6, Zenon
  <2>4. CASE p \in Queued(s) /\ t.rq = Append(w, p)
    BY <2>2, <2>4, <1>1, <1>6, Zenon
  <2> QED BY <1>4, <2>1, <2>3, <2>4 DEF w
<1>8. t \in Kernel
  <2>1. t.prio \in [Child -> PRIO_MIN .. PRIO_MAX]
    BY <1>1, <1>2, <1>3
  <2> QED BY <2>1, <1>5, <1>7 DEF Kernel
<1> QED BY <1>1, <1>2, <1>7, <1>8 DEF t, Queued, Elements

(* add_process, kernel side: the child is suspended at the head of the list. *)
LEMMA ForkSuspend ==
  ASSUME NEW s \in Kernel, NEW p \in Child, Distinct(s.rq), p \notin Queued(s)
  PROVE  suspend_process(fork(s, p), p) =
           [prio |-> [s.prio EXCEPT ![p] = PRIO_MIN], rq |-> <<p>> \o s.rq]
<1>1. s.prio \in [Child -> PRIO_MIN .. PRIO_MAX] /\ s.rq \in Seq(Child) /\ Queued(s) = Elements(s.rq)
  BY DEF Kernel, Queued, Elements
<1> DEFINE f == fork(s, p)
<1>2. f.prio = [s.prio EXCEPT ![p] = PRIO_MAX] /\ f.rq = Append(s.rq, p)
  BY DEF fork
<1> HIDE DEF f
<1>3. f.prio[p] = PRIO_MAX /\ p \in Queued(f)
  <2>1. Queued(f) = Elements(Append(s.rq, p))
    BY <1>2 DEF Queued, Elements
  <2>2. p \in Elements(Append(s.rq, p))
    <3>1. p \notin Elements(s.rq)
      BY <1>1
    <3>2. Elements(Append(s.rq, p)) = Elements(s.rq) \cup {p}
      BY <1>1, <3>1, EnterFacts, Zenon
    <3> QED BY <3>2, Zenon
  <2>3. f.prio[p] = PRIO_MAX
    BY <1>1, <1>2
  <2> QED BY <2>1, <2>2, <2>3
<1>4. set_priority(f, p, PRIO_MIN).rq = <<p>> \o Without(f.rq, p)
  BY <1>3 DEF set_priority, PRIO_MIN, PRIO_MAX
<1>5. Without(f.rq, p) = s.rq
  <2>1. p \notin Elements(s.rq)
    BY <1>1
  <2>2. Without(Append(s.rq, p), p) = s.rq
    BY <1>1, <2>1, EnterFacts, Zenon
  <2> QED BY <1>2, <2>2
<1>6. [f.prio EXCEPT ![p] = PRIO_MIN] = [s.prio EXCEPT ![p] = PRIO_MIN]
  BY <1>1, <1>2
<1>7. \E a, b : set_priority(f, p, PRIO_MIN) = [prio |-> a, rq |-> b]
  BY Zenon DEF set_priority
<1>8. set_priority(f, p, PRIO_MIN).prio = [f.prio EXCEPT ![p] = PRIO_MIN]
  BY DEF set_priority
<1> QED BY <1>4, <1>5, <1>6, <1>7, <1>8 DEF suspend_process, f

(* The child that gets a single CPU, and the ones that get none. *)
LEMMA OnCPUFacts ==
  ASSUME NEW s \in Kernel
  PROVE  /\ OnCPU(s) = {s.rq[k] : k \in {k \in DOMAIN s.rq : \A i \in DOMAIN s.rq : ~Ahead(s, i, k)}}
         /\ OnCPUs(s, 0) = {}
<1>1. s.rq \in Seq(Child)
  BY DEF Kernel
<1>2. IsFiniteSet(DOMAIN s.rq)
  <2>1. DOMAIN s.rq = 1 .. Len(s.rq) /\ Len(s.rq) \in Nat
    BY <1>1
  <2> QED BY <2>1, FS_Interval
<1>3. ASSUME NEW k \in DOMAIN s.rq
      PROVE  LET A == {i \in DOMAIN s.rq : Ahead(s, i, k)}
             IN  /\ Cardinality(A) \in Nat
                 /\ Cardinality(A) = 0 <=> \A i \in DOMAIN s.rq : ~Ahead(s, i, k)
  <2> DEFINE A == {i \in DOMAIN s.rq : Ahead(s, i, k)}
  <2>1. IsFiniteSet(A)
    BY <1>2, FS_Subset
  <2>2. A = {} <=> \A i \in DOMAIN s.rq : ~Ahead(s, i, k)
    OBVIOUS
  <2>3. Cardinality(A) \in Nat /\ (Cardinality(A) = 0 <=> A = {})
    BY <2>1, FS_CardinalityType, FS_EmptySet
  <2> QED BY <2>2, <2>3
<1>4. \A k \in DOMAIN s.rq :
        LET c == Cardinality({i \in DOMAIN s.rq : Ahead(s, i, k)})
        IN  (c < 1 <=> \A i \in DOMAIN s.rq : ~Ahead(s, i, k)) /\ ~(c < 0)
  <2> TAKE k \in DOMAIN s.rq
  <2> DEFINE c == Cardinality({i \in DOMAIN s.rq : Ahead(s, i, k)})
  <2>1. c \in Nat /\ (c = 0 <=> \A i \in DOMAIN s.rq : ~Ahead(s, i, k))
    BY <1>3
  <2> HIDE DEF c
  <2>2. (c < 1 <=> c = 0) /\ ~(c < 0)
    BY <2>1
  <2> QED BY <2>1, <2>2 DEF c
<1> QED BY <1>4 DEF OnCPU, OnCPUs

(* A state with one more child in the list, at either end.                  *)
LEMMA EnterKernel ==
  ASSUME NEW s \in Kernel, NEW p \in Child, NEW v \in {PRIO_MIN, PRIO_RUN, PRIO_MAX},
         Distinct(s.rq), p \notin Queued(s), NEW t,
         \/ t = [prio |-> [s.prio EXCEPT ![p] = v], rq |-> Append(s.rq, p)]
         \/ t = [prio |-> [s.prio EXCEPT ![p] = v], rq |-> <<p>> \o s.rq]
  PROVE  /\ t \in Kernel
         /\ Distinct(t.rq)
         /\ Queued(t) = Queued(s) \cup {p}
<1>1. s.prio \in [Child -> PRIO_MIN .. PRIO_MAX] /\ s.rq \in Seq(Child) /\ Queued(s) = Elements(s.rq)
  BY DEF Kernel, Queued, Elements
<1>2. /\ Append(s.rq, p) \in Seq(Child) /\ <<p>> \o s.rq \in Seq(Child)
      /\ Distinct(Append(s.rq, p)) /\ Distinct(<<p>> \o s.rq)
      /\ Elements(Append(s.rq, p)) = Elements(s.rq) \cup {p}
      /\ Elements(<<p>> \o s.rq) = Elements(s.rq) \cup {p}
  <2>1. p \notin Elements(s.rq)
    BY <1>1
  <2> QED BY <1>1, <2>1, EnterFacts, Zenon
<1>3. v \in PRIO_MIN .. PRIO_MAX
  BY DEF PRIO_MIN, PRIO_RUN, PRIO_MAX
<1>4. [s.prio EXCEPT ![p] = v] \in [Child -> PRIO_MIN .. PRIO_MAX]
  BY <1>1, <1>3
<1>5. t.rq = Append(s.rq, p) \/ t.rq = <<p>> \o s.rq
  OBVIOUS
<1>6. t.rq \in Seq(Child) /\ Distinct(t.rq) /\ Elements(t.rq) = Elements(s.rq) \cup {p}
  BY <1>2, <1>5, Zenon
<1>7. t \in Kernel
  <2> DEFINE f == [s.prio EXCEPT ![p] = v]
  <2>1. f \in [Child -> PRIO_MIN .. PRIO_MAX]
    BY <1>4
  <2>2. \E q : t = [prio |-> f, rq |-> q]
    OBVIOUS
  <2> HIDE DEF f
  <2> QED BY <2>1, <2>2, <1>6 DEF Kernel
<1> QED BY <1>1, <1>6, <1>7 DEF Queued, Elements

(* scheduler_exit leaves an empty list.                                     *)
LEMMA EmptyKernel ==
  ASSUME NEW s \in Kernel, NEW t, t = [s EXCEPT !.rq = <<>>]
  PROVE  t \in Kernel /\ Distinct(t.rq) /\ Queued(t) = {} /\ Increasing(t.rq)
<1>1. s.prio \in [Child -> PRIO_MIN .. PRIO_MAX] /\ s.rq \in Seq(Child)
  BY DEF Kernel
<1>2. t = [prio |-> s.prio, rq |-> <<>>]
  BY DEF Kernel
<1>3. t \in Kernel
  <2>1. <<>> \in Seq(Child)
    OBVIOUS
  <2> QED BY <1>1, <1>2, <2>1 DEF Kernel
<1>4. t.rq = <<>> /\ DOMAIN t.rq = {}
  BY <1>2
<1> QED BY <1>3, <1>4 DEF Distinct, Queued, Increasing

(* add_process of FIFO, kernel side: the child enters at the tail.          *)
LEMMA ForkResume ==
  ASSUME NEW s \in Kernel, NEW p \in Child, Distinct(s.rq), p \notin Queued(s)
  PROVE  resume_process(suspend_process(fork(s, p), p), p) =
           [prio |-> [s.prio EXCEPT ![p] = PRIO_RUN], rq |-> Append(s.rq, p)]
<1>1. s.prio \in [Child -> PRIO_MIN .. PRIO_MAX] /\ s.rq \in Seq(Child) /\ Queued(s) = Elements(s.rq)
  BY DEF Kernel, Queued, Elements
<1> DEFINE f == suspend_process(fork(s, p), p)
<1>2. f.prio = [s.prio EXCEPT ![p] = PRIO_MIN] /\ f.rq = <<p>> \o s.rq
  BY ForkSuspend
<1> HIDE DEF f
<1>3. f.prio[p] = PRIO_MIN /\ p \in Queued(f) /\ Without(f.rq, p) = s.rq
  <2>1. Queued(f) = Elements(<<p>> \o s.rq)
    BY <1>2 DEF Queued, Elements
  <2>2. p \in Elements(<<p>> \o s.rq) /\ Without(<<p>> \o s.rq, p) = s.rq
    <3>1. p \notin Elements(s.rq)
      BY <1>1
    <3>2. Elements(<<p>> \o s.rq) = Elements(s.rq) \cup {p} /\ Without(<<p>> \o s.rq, p) = s.rq
      BY <1>1, <3>1, EnterFacts, Zenon
    <3> QED BY <3>2, Zenon
  <2>3. f.prio[p] = PRIO_MIN
    BY <1>1, <1>2
  <2> QED BY <1>2, <2>1, <2>2, <2>3
<1>4. set_priority(f, p, PRIO_RUN).rq = Append(Without(f.rq, p), p)
  BY <1>3 DEF set_priority, PRIO_MIN, PRIO_RUN, PRIO_MAX
<1>5. [f.prio EXCEPT ![p] = PRIO_RUN] = [s.prio EXCEPT ![p] = PRIO_RUN]
  BY <1>1, <1>2
<1>6. \E a, b : set_priority(f, p, PRIO_RUN) = [prio |-> a, rq |-> b]
  BY Zenon DEF set_priority
<1>7. set_priority(f, p, PRIO_RUN).prio = [f.prio EXCEPT ![p] = PRIO_RUN]
  BY DEF set_priority
<1> QED BY <1>3, <1>4, <1>5, <1>6, <1>7 DEF resume_process, f

(* A child that leaves the list leaves the others where they are.           *)
LEMMA ExitFacts ==
  ASSUME NEW s \in Kernel, NEW p \in Child, Distinct(s.rq)
  PROVE  /\ exit(s, p) \in Kernel
         /\ Distinct(exit(s, p).rq)
         /\ Queued(exit(s, p)) = Queued(s) \ {p}
         /\ exit(s, p).prio = s.prio
         /\ Increasing(s.rq) => Increasing(exit(s, p).rq)
<1>1. s.prio \in [Child -> PRIO_MIN .. PRIO_MAX] /\ s.rq \in Seq(Child)
  BY DEF Kernel
<1> DEFINE w == Without(s.rq, p)
<1>2. /\ w \in Seq(Child) /\ Distinct(w) /\ Elements(w) = Elements(s.rq) \ {p}
      /\ Increasing(s.rq) => Increasing(w)
  BY <1>1, WithoutFacts
<1> HIDE DEF w
<1>3. exit(s, p) = [prio |-> s.prio, rq |-> w]
  BY DEF exit, w
<1>4. exit(s, p) \in Kernel
  BY <1>1, <1>2, <1>3 DEF Kernel
<1>5. exit(s, p).rq = w /\ exit(s, p).prio = s.prio
  BY <1>3
<1>6. Queued(exit(s, p)) = Elements(w) /\ Queued(s) = Elements(s.rq)
  BY <1>5 DEF Queued, Elements
<1> QED BY <1>2, <1>4, <1>5, <1>6, Zenon

(* Nothing moves when the priority is the one the child has.                *)
LEMMA SamePriority ==
  ASSUME NEW s \in Kernel, NEW p \in Child, NEW v, s.prio[p] = v
  PROVE  set_priority(s, p, v) = s
<1>1. s.prio \in [Child -> PRIO_MIN .. PRIO_MAX] /\ \E a, b : s = [prio |-> a, rq |-> b]
  BY DEF Kernel
<1>2. [s.prio EXCEPT ![p] = v] = s.prio
  BY <1>1
<1>3. set_priority(s, p, v).rq = s.rq /\ set_priority(s, p, v).prio = s.prio
  <2>1. s.prio[p] \in PRIO_MIN .. PRIO_MAX
    BY <1>1
  <2>2. ~(v < s.prio[p]) /\ ~(v > s.prio[p])
    BY <2>1 DEF PRIO_MIN, PRIO_MAX
  <2> QED BY <1>2, <2>2 DEF set_priority
<1>4. \E a, b : set_priority(s, p, v) = [prio |-> a, rq |-> b]
  BY Zenon DEF set_priority
<1>5. s = [prio |-> s.prio, rq |-> s.rq]
  BY <1>1
<1>6. set_priority(s, p, v) = [prio |-> set_priority(s, p, v).prio, rq |-> set_priority(s, p, v).rq]
  BY <1>4
<1> QED BY <1>3, <1>5, <1>6, Zenon

(* Among equals the CPU is with the head of the list.                       *)
LEMMA HeadRuns ==
  ASSUME NEW s \in Kernel, NEW v \in Int, \A p \in Queued(s) : s.prio[p] = v
  PROVE  OnCPU(s) = IF s.rq = <<>> THEN {} ELSE {s.rq[1]}
<1>1. s.rq \in Seq(Child)
  BY DEF Kernel
<1>2. Len(s.rq) \in Nat /\ DOMAIN s.rq = 1 .. Len(s.rq) /\ (s.rq = <<>> <=> Len(s.rq) = 0)
  BY <1>1
<1>3. \A i, j \in DOMAIN s.rq : Ahead(s, i, j) <=> i < j
  <2>1. \A i \in DOMAIN s.rq : s.prio[s.rq[i]] = v
    BY DEF Queued
  <2> QED BY <2>1 DEF Ahead
<1>4. \A k \in DOMAIN s.rq : (\A i \in DOMAIN s.rq : ~Ahead(s, i, k)) <=> k = 1
  BY <1>2, <1>3
<1>5. OnCPU(s) = {s.rq[k] : k \in {k \in DOMAIN s.rq : k = 1}}
  BY <1>4, OnCPUFacts
<1> QED BY <1>2, <1>5

(* One child above all the others has the CPU.                              *)
LEMMA HighestRuns ==
  ASSUME NEW s \in Kernel, NEW c \in Queued(s), Distinct(s.rq),
         \A p \in Queued(s) \ {c} : s.prio[p] < s.prio[c]
  PROVE  OnCPU(s) = {c}
<1>1. s.rq \in Seq(Child) /\ s.prio \in [Child -> PRIO_MIN .. PRIO_MAX]
  BY DEF Kernel
<1>2. Len(s.rq) \in Nat /\ DOMAIN s.rq = 1 .. Len(s.rq)
  BY <1>1
<1>3. PICK k \in DOMAIN s.rq : c = s.rq[k]
  BY DEF Queued
<1>4. \A i \in DOMAIN s.rq : s.rq[i] \in Queued(s) /\ s.prio[s.rq[i]] \in Int
  <2>1. \A i \in DOMAIN s.rq : s.rq[i] \in Child
    BY <1>1
  <2>2. \A i \in DOMAIN s.rq : s.prio[s.rq[i]] \in PRIO_MIN .. PRIO_MAX
    BY <1>1, <2>1
  <2>3. \A i \in DOMAIN s.rq : s.prio[s.rq[i]] \in Int
    BY <2>2 DEF PRIO_MIN, PRIO_MAX
  <2> QED BY <2>3 DEF Queued
<1>5. \A i \in DOMAIN s.rq \ {k} : s.prio[s.rq[i]] < s.prio[s.rq[k]]
  BY <1>3, <1>4 DEF Distinct
<1>6. \A j \in DOMAIN s.rq : (\A i \in DOMAIN s.rq : ~Ahead(s, i, j)) <=> j = k
  <2>1. \A i \in DOMAIN s.rq : ~Ahead(s, i, k)
    BY <1>2, <1>4, <1>5 DEF Ahead
  <2>2. \A j \in DOMAIN s.rq \ {k} : Ahead(s, k, j)
    BY <1>2, <1>4, <1>5 DEF Ahead
  <2> QED BY <2>1, <2>2
<1>7. OnCPU(s) = {s.rq[j] : j \in {j \in DOMAIN s.rq : j = k}}
  BY <1>6, OnCPUFacts
<1>8. {j \in DOMAIN s.rq : j = k} = {k}
  OBVIOUS
<1> QED BY <1>3, <1>7, <1>8, Zenon

(* What the kernel calls do to the priorities (scheduler.h:98-119): a call *)
(* changes the priority of the child it names and of no other.             *)
LEMMA PriorityOfCalls ==
  ASSUME NEW s, NEW p
  PROVE  /\ suspend_process(s, p).prio = [s.prio EXCEPT ![p] = PRIO_MIN]
         /\ resume_process(s, p).prio = [s.prio EXCEPT ![p] = PRIO_RUN]
         /\ fork(s, p).prio = [s.prio EXCEPT ![p] = PRIO_MAX]
         /\ exit(s, p).prio = s.prio
  BY DEF suspend_process, resume_process, set_priority, fork, exit

(* One call keeps the priorities in the range of SCHED_FIFO.               *)
LEMMA PriorityType ==
  ASSUME NEW f \in [Child -> PRIO_MIN .. PRIO_MAX], NEW p \in Child,
         NEW v \in {PRIO_MIN, PRIO_RUN}
  PROVE  [f EXCEPT ![p] = v] \in [Child -> PRIO_MIN .. PRIO_MAX]
  BY DEF PRIO_MIN, PRIO_MAX, PRIO_RUN
=============================================================================
