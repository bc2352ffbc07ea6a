-------------------------------- MODULE Heap --------------------------------
(***************************************************************************)
(* heap.c: a binary heap of jobs in an array, the job with the least       *)
(* remaining_time on top.  A heap is a record h: h.pq is the array         *)
(* heap_init allocates, h.heap_size the number of its slots in use.  The   *)
(* array holds pointers to ProcessInfo; `rem` is what the remaining_time   *)
(* fields they point to hold at the time of the call.  Forks happen in the *)
(* order of the indices, so comparing pids is comparing indices.           *)
(***************************************************************************)
EXTENDS SchedFifo

Array == [Child -> Child \cup {NULL}]

heap_init == [pq |-> [i \in Child |-> NULL], heap_size |-> 0]

(* The order of the heap, on jobs and on slots of an array. *)
Shorter(rem, p, q) == rem[p] < rem[q] \/ (rem[p] = rem[q] /\ p < q)

heap_element_lt(rem, a, lhs, rhs) == Shorter(rem, a[lhs], a[rhs])

lchild(i) == i * 2 + 1
rchild(i) == i * 2 + 2
parent(i) == (i - 1) \div 2

heap_swap(a, i, j) == [a EXCEPT ![i] = a[j], ![j] = a[i]]

(* The while loops of upheap and downheap, one application per iteration:   *)
(* up[i][a] is the array a when the loop has gone on from slot i.           *)
upheap(rem, pq, childIdx) ==
  LET up[i \in Child] == [a \in Array |->
        IF i > 0 /\ heap_element_lt(rem, a, i, parent(i))
        THEN up[parent(i)][heap_swap(a, parent(i), i)]
        ELSE a]
  IN  up[childIdx][pq]

(* The smallest of slot i, its left child and (if below n) its right child. *)
minIdx(rem, a, n, i) ==
  LET l == IF heap_element_lt(rem, a, lchild(i), i) THEN lchild(i) ELSE i
  IN  IF rchild(i) < n /\ heap_element_lt(rem, a, rchild(i), l)
      THEN rchild(i) ELSE l

downheap(rem, pq, n, parentIdx) ==
  LET down[i \in Child] == [a \in Array |->
        IF lchild(i) < n /\ minIdx(rem, a, n, i) # i
        THEN down[minIdx(rem, a, n, i)][heap_swap(a, i, minIdx(rem, a, n, i))]
        ELSE a]
  IN  down[parentIdx][pq]

(* Mutant: heap_size is not incremented. *)
heap_insert_uncounted(rem, h, p) ==
  [pq        |-> upheap(rem, [h.pq EXCEPT ![h.heap_size] = p], h.heap_size),
   heap_size |-> h.heap_size]

heap_insert(rem, h, p) ==
  [pq        |-> upheap(rem, [h.pq EXCEPT ![h.heap_size] = p], h.heap_size),
   heap_size |-> h.heap_size + 1]

heap_top(h) == h.pq[0]

(* Mutant: the slot moved to the top stays there. *)
heap_pop_unordered(rem, h) ==
  LET n == h.heap_size - 1
  IN  [pq |-> heap_swap(h.pq, n, 0), heap_size |-> n]

(* Defined for a heap that is not empty: the C code does not test it. *)
heap_pop(rem, h) ==
  LET n == h.heap_size - 1
  IN  [pq |-> downheap(rem, heap_swap(h.pq, n, 0), n, 0), heap_size |-> n]

heap_empty(h) == h.heap_size = 0

-----------------------------------------------------------------------------
(* What a heap stands for, and what makes it one. *)
Contents(h) == {h.pq[i] : i \in {j \in Child : j < h.heap_size}}

HeapOrdered(rem, h) ==
  \A i \in Child :
    0 < i /\ i < h.heap_size => ~heap_element_lt(rem, h.pq, i, parent(i))
=============================================================================
