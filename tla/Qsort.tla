------------------------------- MODULE Qsort -------------------------------
(***************************************************************************)
(* qsort of src/kernel/libc.c, the heap sort behind the C library calls of *)
(* the vendored code.  One call runs from "call" to "done", one comparison *)
(* of sift_down at a time, on memory that goes on behind the array: the    *)
(* cells from count to Window - 1 belong to a neighbour.  What an access   *)
(* behind the window would find is not modelled; the call ends as "stray". *)
(***************************************************************************)
EXTENDS Integers, FiniteSets

CONSTANTS
  MaxCount, \* arrays of at most this many elements (a bound)
  Window,   \* how many cells of memory are modelled (a bound)
  Values,   \* what compare tells apart
  SizeMax   \* SIZE_MAX: size_t arithmetic wraps above it

ASSUME QsortAssumption ==
  /\ MaxCount \in Nat /\ Window \in Nat /\ MaxCount <= Window
  /\ SizeMax \in Nat /\ 2 * Window < SizeMax
  /\ Values \subseteq Int

VARIABLES
  mem,     \* the cells
  count,   \* the argument
  phase,   \* where qsort is: "call", "build", "extract", "done" or "stray"
  pos,     \* its loop variable: start while building, end while extracting
  sifting, \* whether it is inside sift_down,
  root,    \*   and that one's root
  end,     \*   and end
  given    \* history: mem when qsort was called

vars == <<mem, count, phase, pos, sifting, root, end, given>>

Cells == 0 .. (Window - 1)
Array == 0 .. (count - 1)

-----------------------------------------------------------------------------

swap_elements(a, b) == [mem EXCEPT ![a] = mem[b], ![b] = mem[a]]

Init ==
  /\ count \in 0 .. MaxCount
  /\ \E neighbour \in Values :
       mem \in {m \in [Cells -> Values] : \A c \in Cells \ Array : m[c] = neighbour}
  /\ given = mem
  /\ phase = "call" /\ pos = 0
  /\ sifting = FALSE /\ root = 0 /\ end = 0

Call ==
  /\ phase = "call"
  /\ IF count < 2 THEN phase' = "done" /\ pos' = pos
                  ELSE phase' = "build" /\ pos' = count \div 2
  /\ UNCHANGED <<mem, count, sifting, root, end, given>>

SiftFrom(start, last) == sifting' = TRUE /\ root' = start /\ end' = last

(* The body of the loop that builds the heap, up to its sift_down. *)
Build ==
  /\ phase = "build" /\ ~sifting
  /\ pos # 0
  /\ SiftFrom(pos - 1, count - 1)
  /\ UNCHANGED <<mem, count, phase, pos, given>>

Built ==
  /\ phase = "build" /\ ~sifting
  /\ pos = 0
  /\ phase' = "extract" /\ pos' = count - 1
  /\ UNCHANGED <<mem, count, sifting, root, end, given>>

(* The body of the loop that extracts the maxima, up to its sift_down. *)
Extract ==
  /\ phase = "extract" /\ ~sifting
  /\ pos # 0
  /\ mem' = swap_elements(0, pos)
  /\ SiftFrom(0, pos - 1)
  /\ UNCHANGED <<count, phase, pos, given>>

Extracted ==
  /\ phase = "extract" /\ ~sifting
  /\ pos = 0
  /\ phase' = "done"
  /\ UNCHANGED <<mem, count, pos, sifting, root, end, given>>

(* Mutant: the loop variable stays. *)
SameAgain ==
  /\ sifting' = FALSE
  /\ UNCHANGED <<mem, count, phase, pos, root, end, given>>

(* sift_down returns, and the loop of qsort goes on. *)
SiftReturns ==
  /\ sifting' = FALSE
  /\ pos' = pos - 1
  /\ UNCHANGED <<mem, count, phase, root, end, given>>

(* (end - 1) / 2 in size_t: with end = 0 the difference is SIZE_MAX. *)
LastParent == ((end - 1) % (SizeMax + 1)) \div 2

LeftChild == 2 * root + 1

(* The highest cell that the pass of sift_down reads. *)
Reach == IF LeftChild < end THEN LeftChild + 1 ELSE LeftChild

(* Mutant: the right child is not looked at when it is the last element. *)
LeftmostChild ==
  IF LeftChild + 1 < end /\ mem[LeftChild] < mem[LeftChild + 1]
  THEN LeftChild + 1 ELSE LeftChild

(* Mutant: the right child is looked at where there is none. *)
ChildPastEnd ==
  IF LeftChild <= end /\ mem[LeftChild] < mem[LeftChild + 1]
  THEN LeftChild + 1 ELSE LeftChild

LargerChild ==
  IF LeftChild < end /\ mem[LeftChild] < mem[LeftChild + 1]
  THEN LeftChild + 1 ELSE LeftChild

(* One pass of the loop of sift_down. *)
SiftDown ==
  /\ sifting /\ phase # "stray"
  /\ \/ root > LastParent /\ SiftReturns
     \/ /\ root <= LastParent /\ Reach \in Cells
        /\ \/ mem[root] >= mem[LargerChild] /\ SiftReturns
           \/ /\ mem[root] < mem[LargerChild]
              /\ mem' = swap_elements(root, LargerChild)
              /\ root' = LargerChild
              /\ UNCHANGED <<count, phase, pos, sifting, end, given>>
     \/ /\ root <= LastParent /\ Reach \notin Cells
        /\ phase' = "stray"
        /\ UNCHANGED <<mem, count, pos, sifting, root, end, given>>

Next == Call \/ Build \/ Built \/ Extract \/ Extracted \/ SiftDown

Spec == Init /\ [][Next]_vars /\ WF_vars(Next)

-----------------------------------------------------------------------------

(* The sift of a heap of one element, the last call qsort makes. *)
LastSift ==
  \/ phase \in {"done", "stray"}
  \/ phase = "extract" /\ pos = 0
  \/ phase = "extract" /\ sifting /\ end = 0

BeforeLastSift == count < 2 \/ ~LastSift

Parent(i) == (i - 1) \div 2

(***************************************************************************)
(* The heap order holds wherever the algorithm relies on it: from the      *)
(* subtree that is next to be sifted on while building, from the top while *)
(* extracting, and, in the course of a sift, everywhere but between root   *)
(* and its children, whose values are not above root's parent either.      *)
(* What is extracted is in order, and nothing left in the heap is above it.*)
(***************************************************************************)
HeapOrdered ==
  LET first == IF phase # "build" THEN 0 ELSE IF sifting THEN pos - 1 ELSE pos
      last == IF sifting THEN end ELSE IF phase = "build" THEN count - 1 ELSE pos
  IN
  phase \in {"build", "extract"} /\ BeforeLastSift =>
    /\ \A i \in 1 .. last :
         /\ Parent(i) >= first /\ (sifting => Parent(i) # root) => mem[Parent(i)] >= mem[i]
         /\ sifting /\ Parent(i) = root /\ root > first => mem[Parent(root)] >= mem[i]
    /\ phase = "extract" =>
         \A i, j \in Array : i < j /\ j > last => mem[i] <= mem[j]

(* mem holds, in the array, what it held when qsort was called, in any     *)
(* order, and behind the array it is untouched.                            *)
Permuted ==
  /\ \A c \in Cells \ Array : mem[c] = given[c]
  /\ \A v \in Values : Cardinality({i \in Array : mem[i] = v})
                         = Cardinality({i \in Array : given[i] = v})

Sorted == \A i, j \in Array : i < j => mem[i] <= mem[j]

(***************************************************************************)
(* Up to the last call of sift_down nothing is lost, no neighbour is       *)
(* written, and when that call is made the array is sorted: all there is   *)
(* to do is to return.                                                     *)
(***************************************************************************)
SortsBeforeLastSift ==
  /\ BeforeLastSift => Permuted
  /\ sifting /\ phase = "extract" /\ end = 0 /\ root = 0 => Permuted /\ Sorted

(* Every call ends, if only by running out of the window. *)
Returns == (phase = "call") ~> (phase \in {"done", "stray"})

(***************************************************************************)
(* What stdlib.h declares the function as, the C library's qsort: when it  *)
(* returns the array is sorted.                                            *)
(***************************************************************************)
ReturnsSorted == phase = "done" => Permuted /\ Sorted
=============================================================================
