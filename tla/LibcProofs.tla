----------------------------- MODULE LibcProofs -----------------------------
(***************************************************************************)
(* Proofs about src/kernel/libc.c, for memories, texts, formats and arrays *)
(* of every size.  Part one: the memory and string functions (Strings).    *)
(* Part two: vsnprintf (Format).  Part three: the heap sort (Qsort).  All  *)
(* are about Libc, where a behaviour calls one of the three.               *)
(***************************************************************************)
EXTENDS Libc, SequenceTheorems, Induction

-----------------------------------------------------------------------------
(* Part one: memory and strings.                                           *)

(* Every set of numbers below a bound that is not empty has a largest one. *)
LEMMA GreatestElement ==
  ASSUME NEW n \in Nat, NEW s, s \subseteq 0 .. n, s # {}
  PROVE  \E x \in s : \A y \in s : x >= y
  <1> DEFINE t == {n - y : y \in s}
  <1>1. t \subseteq Nat
    BY SMT
  <1>a. t # {}
    BY Zenon
  <1>2. PICK k \in t : \A l \in t : k <= l
    BY <1>1, <1>a, LeastElement
  <1>3. PICK x \in s : k = n - x
    BY <1>2
  <1>4. \A y \in s : n - x <= n - y
    BY <1>2, <1>3
  <1>5. x \in Int /\ \A y \in s : y \in Int
    OBVIOUS
  <1>6. \A y \in s : x >= y
    BY <1>4, <1>5
  <1> QED  BY <1>6

-----------------------------------------------------------------------------
(* Memory that is written byte by byte.                                    *)

(* What a memory is: a byte at each address. *)
Memory == [Addresses -> Bytes]

(* The memory m with a text written at a. *)
Written(m, a, text) ==
  [x \in Addresses |-> IF x \in a .. (a + Len(text) - 1) THEN text[x - a + 1] ELSE m[x]]

(* A pass of the loop of CopyEach. *)
OneCopied(m, output, input, order, i) ==
  [m EXCEPT ![output + order[i]] = m[input + order[i]]]

(* The function by which CopyEach is defined, on sets of such passes. *)
Copies(f, m, output, input, order, S) ==
  f = [s \in SUBSET S |->
         IF s = {} THEN m
         ELSE OneCopied(f[s \ {Max(s)}], output, input, order, Max(s))]

(* CopyEach is that function, on all its passes. *)
LEMMA CopyIsFold ==
  ASSUME NEW m, NEW output, NEW input, NEW order
  PROVE  CopyEach(m, output, input, order) =
           (CHOOSE f : Copies(f, m, output, input, order, DOMAIN order))[DOMAIN order]
  BY DEF CopyEach, FoldLeft, MapThenFoldSet, Copies, OneCopied

(* The largest of a set of passes. *)
LEMMA LastPass ==
  ASSUME NEW n \in Nat, NEW s \in SUBSET (1 .. n), s # {}
  PROVE  Max(s) \in s /\ \A i \in s \ {Max(s)} : i < Max(s)
  <1>1. \E x \in s : \A y \in s : x >= y
    <2>1. s \subseteq 0 .. n
      OBVIOUS
    <2> QED  BY <2>1, GreatestElement
  <1>2. Max(s) \in s /\ \A y \in s : Max(s) >= y
    BY <1>1, Zenon DEF Max
  <1> DEFINE z == Max(s)
  <1> HIDE DEF z
  <1>3. z \in s /\ z \in Int /\ \A y \in s : z >= y /\ y \in Int
    <2>1. z \in s /\ \A y \in s : z >= y
      BY <1>2, Zenon DEF z
    <2>2. \A y \in s : y \in Int
      OBVIOUS
    <2> QED  BY <2>1, <2>2
  <1>4. \A i \in s \ {z} : i < z
    BY <1>3
  <1> QED  BY <1>3, <1>4 DEF z

(* The order of a loop over n bytes: what it writes it does not read later. *)
Orderly(order, n, output, input) ==
  /\ DOMAIN order = 1 .. n
  /\ \A i \in 1 .. n :
       order[i] \in Nat /\ output + order[i] \in Addresses /\ input + order[i] \in Addresses
  /\ \A i, j \in 1 .. n : i < j => output + order[i] # input + order[j]

(* The memory after the passes of a set. *)
Copied(m, output, input, order, s) ==
  [x \in Addresses |->
     IF \E i \in s : x = output + order[i] THEN m[x - output + input] ELSE m[x]]

(* One pass more. *)
LEMMA CopiedOneMore ==
  ASSUME NEW m \in Memory, NEW n \in Nat, NEW output \in Nat, NEW input \in Nat, NEW order,
         Orderly(order, n, output, input), NEW s \in SUBSET (1 .. n), s # {}
  PROVE  Copied(m, output, input, order, s) =
           OneCopied(Copied(m, output, input, order, s \ {Max(s)}), output, input, order, Max(s))
  <1> DEFINE z == Max(s)
             t == s \ {z}
             c == Copied(m, output, input, order, t)
             d == Copied(m, output, input, order, s)
  <1>1. z \in s /\ \A i \in t : i < z
    BY LastPass
  <1> HIDE DEF z
  <1> DEFINE o == output + order[z]
             p == input + order[z]
  <1>2. o \in Addresses /\ p \in Addresses /\ order[z] \in Nat
    BY <1>1 DEF Orderly
  <1>3. \A i \in t : output + order[i] # p
    BY <1>1 DEF Orderly
  <1>4. c[p] = m[p]
    BY <1>2, <1>3 DEF Copied
  <1>5. o - output + input = p
    BY <1>2
  <1> SUFFICES d = [c EXCEPT ![o] = c[p]]
    BY DEF z, OneCopied
  <1>6. DOMAIN c = Addresses /\ c = [x \in Addresses |-> c[x]]
    BY DEF Copied
  <1>7. ASSUME NEW x \in Addresses
        PROVE  d[x] = [c EXCEPT ![o] = c[p]][x]
    <2>1. CASE x = o
      <3>1. d[x] = m[x - output + input]
        BY <1>1, <2>1 DEF Copied
      <3> QED  BY <1>4, <1>5, <1>6, <2>1, <3>1
    <2>2. CASE x # o
      <3>1. (\E i \in s : x = output + order[i]) <=> (\E i \in t : x = output + order[i])
        BY <1>1, <2>2
      <3>2. d[x] = c[x]
        BY <3>1 DEF Copied
      <3> QED  BY <1>6, <2>2, <3>2
    <2> QED  BY <2>1, <2>2
  <1>8. d = [x \in Addresses |-> d[x]]
    BY DEF Copied
  <1> HIDE DEF c, d
  <1> QED  BY <1>6, <1>7, <1>8

(* A loop that does not overwrite what it still reads copies what was there. *)
LEMMA CopyEachIs ==
  ASSUME NEW m \in Memory, NEW n \in Nat, NEW output \in Nat, NEW input \in Nat, NEW order,
         Orderly(order, n, output, input)
  PROVE  CopyEach(m, output, input, order) = Copied(m, output, input, order, 1 .. n)
  <1> DEFINE S == 1 .. n
             F(f) == Copies(f, m, output, input, order, S)
             g == [s \in SUBSET S |-> Copied(m, output, input, order, s)]
             f == CHOOSE h : F(h)
  <1>1. F(g)
    <2>1. ASSUME NEW s \in SUBSET S
          PROVE  g[s] = IF s = {} THEN m
                        ELSE OneCopied(g[s \ {Max(s)}], output, input, order, Max(s))
      <3>1. CASE s = {}
        BY <3>1 DEF Copied, Memory
      <3>2. CASE s # {}
        <4>1. /\ g[s] = Copied(m, output, input, order, s)
              /\ g[s \ {Max(s)}] = Copied(m, output, input, order, s \ {Max(s)})
          OBVIOUS
        <4>2. Copied(m, output, input, order, s) =
                OneCopied(Copied(m, output, input, order, s \ {Max(s)}), output, input, order, Max(s))
          BY <3>2, CopiedOneMore
        <4> HIDE DEF g
        <4> QED  BY <3>2, <4>1, <4>2, Zenon
      <3> QED  BY <3>1, <3>2
    <2> HIDE DEF S
    <2>2. g = [s \in SUBSET S |-> g[s]]
      OBVIOUS
    <2> HIDE DEF g
    <2> QED  BY <2>1, <2>2, Zenon DEF Copies
  <1>2. F(f)
    BY <1>1
  <1> HIDE DEF f
  <1> DEFINE C == {s \in SUBSET S : f[s] = g[s]}
  <1>3. ASSUME NEW s \in SUBSET S, \A t \in SUBSET s : t # s => t \in C
        PROVE  s \in C
    <2>1. CASE s = {}
      BY <1>1, <1>2, <2>1 DEF Copies
    <2>2. CASE s # {}
      <3>1. Max(s) \in s
        BY <2>2, LastPass
      <3>2. f[s \ {Max(s)}] = g[s \ {Max(s)}]
        BY <1>3, <3>1
      <3> HIDE DEF g, S
      <3>3. /\ f[s] = OneCopied(f[s \ {Max(s)}], output, input, order, Max(s))
            /\ g[s] = OneCopied(g[s \ {Max(s)}], output, input, order, Max(s))
        BY <1>1, <1>2, <2>2, Zenon DEF Copies
      <3> QED  BY <3>2, <3>3
    <2> QED  BY <2>1, <2>2
  <1>4. IsFiniteSet(S)
    BY FS_Interval
  <1> HIDE DEF C
  <1>5. S \in C
    <2>1. \A s \in SUBSET S : s \in C
      <3> HIDE DEF S
      <3> QED  BY <1>3, <1>4, SubsetInduction
    <2> QED  BY <2>1
  <1>6. f[S] = Copied(m, output, input, order, S)
    BY <1>5 DEF C
  <1>7. DOMAIN order = S
    BY DEF Orderly
  <1> QED  BY <1>6, <1>7, CopyIsFold DEF f

(* A pass of the loop of memset, and the function that is its fold. *)
OneFilled(m, output, value, order, i) == [m EXCEPT ![output + order[i]] = value]

(* Of one pass, the function by which memset is defined. *)
Fills(f, m, output, value, order, S) ==
  f = [s \in SUBSET S |->
         IF s = {} THEN m ELSE OneFilled(f[s \ {Max(s)}], output, value, order, Max(s))]

(* memset is that function, on all its passes. *)
LEMMA FillIsFold ==
  ASSUME NEW m, NEW output, NEW value, NEW limit
  PROVE  memset(m, output, value, limit) =
           (CHOOSE f : Fills(f, m, output, value % 256, Upward(limit), DOMAIN Upward(limit)))
             [DOMAIN Upward(limit)]
  BY DEF memset, FoldLeft, MapThenFoldSet, Fills, OneFilled

(* What a set of its passes writes. *)
Filled(m, output, value, order, s) ==
  [x \in Addresses |-> IF \E i \in s : x = output + order[i] THEN value ELSE m[x]]

(* Its passes write inside the memory. *)
Inside(order, n, output) == \A i \in 1 .. n : output + order[i] \in Addresses

(* The last pass of a set writes what the set writes and the rest did not. *)
LEMMA FilledOneMore ==
  ASSUME NEW m, NEW n \in Nat, NEW output \in Nat, NEW value, NEW order,
         Inside(order, n, output), NEW s \in SUBSET (1 .. n), s # {}
  PROVE  Filled(m, output, value, order, s) =
           OneFilled(Filled(m, output, value, order, s \ {Max(s)}), output, value, order, Max(s))
  <1> DEFINE z == Max(s)
             t == s \ {z}
             c == Filled(m, output, value, order, t)
             d == Filled(m, output, value, order, s)
  <1>1. z \in s
    BY LastPass
  <1> HIDE DEF z
  <1> DEFINE o == output + order[z]
  <1>2. o \in Addresses
    BY <1>1 DEF Inside
  <1> SUFFICES d = [c EXCEPT ![o] = value]
    BY DEF z, OneFilled
  <1>3. c = [x \in Addresses |-> c[x]] /\ d = [x \in Addresses |-> d[x]]
    BY DEF Filled
  <1>4. ASSUME NEW x \in Addresses
        PROVE  d[x] = IF x = o THEN value ELSE c[x]
    BY <1>1 DEF Filled
  <1> HIDE DEF c, d
  <1> QED  BY <1>2, <1>3, <1>4

(* What memset writes. *)
LEMMA MemsetIs ==
  ASSUME NEW m \in Memory, NEW a \in Nat, NEW value \in 0 .. 255, NEW n \in Nat,
         a + n <= Size
  PROVE  memset(m, a, value, n) = Written(m, a, [i \in 1 .. n |-> value])
  <1> DEFINE S == 1 .. n
             order == Upward(n)
             F(f) == Fills(f, m, a, value, order, S)
             g == [s \in SUBSET S |-> Filled(m, a, value, order, s)]
             f == CHOOSE h : F(h)
  <1>1. /\ Size \in Nat /\ a \in Nat /\ n \in Nat /\ DOMAIN order = S
        /\ \A i \in 1 .. n : a + order[i] \in Addresses /\ order[i] = i - 1
    BY StringsAssumption DEF Addresses, Upward
  <1> HIDE DEF order
  <1>2. F(g)
    <2>1. ASSUME NEW s \in SUBSET S
          PROVE  g[s] = IF s = {} THEN m
                        ELSE OneFilled(g[s \ {Max(s)}], a, value, order, Max(s))
      <3>1. CASE s = {}
        BY <3>1 DEF Filled, Memory
      <3>2. CASE s # {}
        <4>1. /\ g[s] = Filled(m, a, value, order, s)
              /\ g[s \ {Max(s)}] = Filled(m, a, value, order, s \ {Max(s)})
          OBVIOUS
        <4>2. Filled(m, a, value, order, s) =
                OneFilled(Filled(m, a, value, order, s \ {Max(s)}), a, value, order, Max(s))
          <5>1. a \in Nat /\ n \in Nat /\ s \in SUBSET (1 .. n) /\ Inside(order, n, a)
            BY <1>1 DEF Inside
          <5> QED  BY <3>2, <5>1, FilledOneMore
        <4> HIDE DEF g
        <4> QED  BY <3>2, <4>1, <4>2, Zenon
      <3> QED  BY <3>1, <3>2
    <2> HIDE DEF S
    <2>2. g = [s \in SUBSET S |-> g[s]]
      OBVIOUS
    <2> HIDE DEF g
    <2> QED  BY <2>1, <2>2, Zenon DEF Fills
  <1>3. F(f)
    BY <1>2
  <1> HIDE DEF f
  <1> DEFINE C == {s \in SUBSET S : f[s] = g[s]}
  <1>4. ASSUME NEW s \in SUBSET S, \A t \in SUBSET s : t # s => t \in C
        PROVE  s \in C
    <2>1. CASE s = {}
      BY <1>2, <1>3, <2>1 DEF Fills
    <2>2. CASE s # {}
      <3>1. Max(s) \in s
        BY <1>1, <2>2, LastPass
      <3>2. f[s \ {Max(s)}] = g[s \ {Max(s)}]
        BY <1>4, <3>1
      <3> HIDE DEF g, S
      <3>3. /\ f[s] = OneFilled(f[s \ {Max(s)}], a, value, order, Max(s))
            /\ g[s] = OneFilled(g[s \ {Max(s)}], a, value, order, Max(s))
        BY <1>2, <1>3, <2>2, Zenon DEF Fills
      <3> QED  BY <3>2, <3>3
    <2> QED  BY <2>1, <2>2
  <1>5. S \in C
    <2>1. IsFiniteSet(S)
      BY <1>1, FS_Interval
    <2> HIDE DEF C
    <2>2. \A s \in SUBSET S : s \in C
      <3> HIDE DEF S
      <3> QED  BY <1>4, <2>1, SubsetInduction
    <2> QED  BY <2>2
  <1>6. f[S] = Filled(m, a, value, order, S)
    BY <1>5 DEF C
  <1>7. value % 256 = value
    OBVIOUS
  <1>8. memset(m, a, value, n) = f[S]
    BY <1>1, <1>7, FillIsFold DEF f, order
  <1> DEFINE text == [i \in 1 .. n |-> value]
  <1>9. Len(text) = n /\ \A x \in a .. (a + n - 1) : text[x - a + 1] = value
    BY <1>1
  <1> HIDE DEF text
  <1>10. ASSUME NEW x \in Addresses
         PROVE  (\E i \in S : x = a + order[i]) <=> x \in a .. (a + n - 1)
    <2>1. x \in Nat
      BY <1>1 DEF Addresses
    <2>2. x \in a .. (a + n - 1) => x - a + 1 \in S /\ x = a + order[x - a + 1]
      BY <1>1, <2>1
    <2> QED  BY <1>1, <2>1, <2>2
  <1>11. Filled(m, a, value, order, S) = Written(m, a, text)
    BY <1>9, <1>10 DEF Filled, Written
  <1> QED  BY <1>6, <1>8, <1>11 DEF text

(* The memory with n of its bytes, from b on, copied to a. *)
LEMMA PartIs ==
  ASSUME NEW m, NEW b, NEW n \in Nat
  PROVE  /\ Len(Part(m, b, n)) = n
         /\ \A i \in 1 .. n : Part(m, b, n)[i] = m[b + i - 1]
  BY DEF Part

(* If the passes are those of a loop over n bytes, they write those bytes. *)
LEMMA CopiedIsWritten ==
  ASSUME NEW m \in Memory, NEW a \in Addresses, NEW b \in Addresses, NEW n \in Nat,
         a + n <= Size, b + n <= Size, NEW order,
         \A x \in Addresses : (\E i \in 1 .. n : x = a + order[i]) <=> x \in a .. (a + n - 1)
  PROVE  Copied(m, a, b, order, 1 .. n) = Written(m, a, Part(m, b, n))
  <1>1. Size \in Nat /\ a \in Nat /\ b \in Nat
    BY StringsAssumption DEF Addresses
  <1>2. Len(Part(m, b, n)) = n
    BY PartIs
  <1>3. ASSUME NEW x \in Addresses, x \in a .. (a + n - 1)
        PROVE  Part(m, b, n)[x - a + 1] = m[x - a + b]
    <2>1. x - a + 1 \in 1 .. n /\ b + (x - a + 1) - 1 = x - a + b
      BY <1>1, <1>3
    <2> QED  BY <2>1, PartIs
  <1> QED  BY <1>2, <1>3 DEF Copied, Written

(* Upwards or downwards, the loop takes all n bytes. *)
LEMMA LoopsTakeAll ==
  ASSUME NEW a \in Nat, NEW n \in Nat, NEW x \in Nat
  PROVE  /\ (\E i \in 1 .. n : x = a + Upward(n)[i]) <=> x \in a .. (a + n - 1)
         /\ (\E i \in 1 .. n : x = a + Downward(n)[i]) <=> x \in a .. (a + n - 1)
  <1>1. x \in a .. (a + n - 1) => x - a + 1 \in 1 .. n /\ a + n - x \in 1 .. n
    OBVIOUS
  <1>2. \A i \in 1 .. n : Upward(n)[i] = i - 1 /\ Downward(n)[i] = n - i
    BY DEF Upward, Downward
  <1>3. \A i \in 1 .. n : a + (i - 1) \in a .. (a + n - 1) /\ a + (n - i) \in a .. (a + n - 1)
    OBVIOUS
  <1>4. x \in a .. (a + n - 1) =>
          /\ x = a + Upward(n)[x - a + 1]
          /\ x = a + Downward(n)[a + n - x]
    BY <1>1, <1>2
  <1> QED  BY <1>1, <1>2, <1>3, <1>4

(* memcpy, and memmove towards lower addresses: upwards. *)
LEMMA CopyUpward ==
  ASSUME NEW m \in Memory, NEW a \in Addresses, NEW b \in Addresses, NEW n \in Nat,
         a + n <= Size, b + n <= Size, a < b \/ Apart(a, n, b, n)
  PROVE  CopyEach(m, a, b, Upward(n)) = Written(m, a, Part(m, b, n))
  <1>1. Size \in Nat /\ a \in Nat /\ b \in Nat /\ Addresses \subseteq Nat
    BY StringsAssumption DEF Addresses
  <1>2. DOMAIN Upward(n) = 1 .. n /\ \A i \in 1 .. n : Upward(n)[i] = i - 1
    BY DEF Upward
  <1>3. Orderly(Upward(n), n, a, b)
    BY <1>1, <1>2 DEF Orderly, Addresses, Apart
  <1>4. \A x \in Addresses : (\E i \in 1 .. n : x = a + Upward(n)[i]) <=> x \in a .. (a + n - 1)
    BY <1>1, LoopsTakeAll
  <1> DEFINE order == Upward(n)
  <1> HIDE DEF order
  <1>5. CopyEach(m, a, b, order) = Copied(m, a, b, order, 1 .. n)
    BY <1>1, <1>3, CopyEachIs DEF order
  <1>6. Copied(m, a, b, order, 1 .. n) = Written(m, a, Part(m, b, n))
    BY <1>4, CopiedIsWritten DEF order
  <1> QED  BY <1>5, <1>6 DEF order

(* memmove towards higher addresses: downwards. *)
LEMMA CopyDownward ==
  ASSUME NEW m \in Memory, NEW a \in Addresses, NEW b \in Addresses, NEW n \in Nat,
         a + n <= Size, b + n <= Size, a > b
  PROVE  CopyEach(m, a, b, Downward(n)) = Written(m, a, Part(m, b, n))
  <1>1. Size \in Nat /\ a \in Nat /\ b \in Nat /\ Addresses \subseteq Nat
    BY StringsAssumption DEF Addresses
  <1>2. DOMAIN Downward(n) = 1 .. n /\ \A i \in 1 .. n : Downward(n)[i] = n - i
    BY DEF Downward
  <1>3. Orderly(Downward(n), n, a, b)
    BY <1>1, <1>2 DEF Orderly, Addresses
  <1>4. \A x \in Addresses : (\E i \in 1 .. n : x = a + Downward(n)[i]) <=> x \in a .. (a + n - 1)
    BY <1>1, LoopsTakeAll
  <1> DEFINE order == Downward(n)
  <1> HIDE DEF order
  <1>5. CopyEach(m, a, b, order) = Copied(m, a, b, order, 1 .. n)
    BY <1>1, <1>3, CopyEachIs DEF order
  <1>6. Copied(m, a, b, order, 1 .. n) = Written(m, a, Part(m, b, n))
    BY <1>4, CopiedIsWritten DEF order
  <1> QED  BY <1>5, <1>6 DEF order

(* memmove copies what was there, however the areas overlap. *)
LEMMA MemmoveIs ==
  ASSUME NEW m \in Memory, NEW a \in Addresses, NEW b \in Addresses, NEW n \in Nat,
         a + n <= Size, b + n <= Size
  PROVE  memmove(m, a, b, n) = Written(m, a, Part(m, b, n))
  <1>1. Size \in Nat /\ a \in Nat /\ b \in Nat /\ Addresses \subseteq Nat
    BY StringsAssumption DEF Addresses
  <1>2. CASE a < b
    <2>1. memmove(m, a, b, n) = CopyEach(m, a, b, Upward(n))
      BY <1>1, <1>2 DEF memmove
    <2> QED  BY <1>2, <2>1, CopyUpward
  <1>3. CASE a > b
    <2>1. memmove(m, a, b, n) = CopyEach(m, a, b, Downward(n))
      BY <1>1, <1>3 DEF memmove
    <2> QED  BY <1>3, <2>1, CopyDownward
  <1>4. CASE a = b
    <2>1. memmove(m, a, b, n) = m
      BY <1>1, <1>4 DEF memmove
    <2>2. ASSUME NEW x \in Addresses, x \in a .. (a + n - 1)
          PROVE  Part(m, b, n)[x - a + 1] = m[x]
      <3>1. x - a + 1 \in 1 .. n /\ b + (x - a + 1) - 1 = x
        BY <1>1, <1>4, <2>2
      <3> QED  BY <3>1, PartIs
    <2>3. Len(Part(m, b, n)) = n
      BY PartIs
    <2>4. m = [x \in Addresses |-> m[x]]
      BY DEF Memory
    <2> QED  BY <2>1, <2>2, <2>3, <2>4 DEF Written
  <1> QED  BY <1>1, <1>2, <1>3, <1>4

-----------------------------------------------------------------------------
(* Texts and how long they are.                                            *)

(* Induction downwards from a largest number. *)
LEMMA DownwardInduction ==
  ASSUME NEW k \in Nat, NEW C, \A i \in 0 .. k : (i + 1 \in 0 .. k => i + 1 \in C) => i \in C
  PROVE  \A i \in 0 .. k : i \in C
  <1> DEFINE D == {n \in Nat : n <= k => k - n \in C}
  <1>1. ASSUME NEW n \in Nat, \A j \in Nat : j < n => j \in D
        PROVE  n \in D
    <2> SUFFICES ASSUME n <= k PROVE k - n \in C
      OBVIOUS
    <2> DEFINE i == k - n
    <2>1. i \in 0 .. k
      OBVIOUS
    <2>2. i + 1 \in 0 .. k => i + 1 \in C
      <3> SUFFICES ASSUME i + 1 \in 0 .. k PROVE i + 1 \in C
        OBVIOUS
      <3>1. n - 1 \in Nat /\ n - 1 < n /\ n - 1 <= k /\ k - (n - 1) = i + 1
        OBVIOUS
      <3>2. n - 1 \in D
        BY <1>1, <3>1
      <3> QED  BY <3>1, <3>2
    <2> HIDE DEF i
    <2>3. i \in C
      BY <2>1, <2>2
    <2> QED  BY <2>3 DEF i
  <1> HIDE DEF D
  <1>2. \A n \in Nat : n \in D
    BY <1>1, NumberInduction
  <1>3. ASSUME NEW i \in 0 .. k
        PROVE  i \in C
    <2>1. k - i \in Nat /\ k - i <= k /\ k - (k - i) = i
      OBVIOUS
    <2>2. k - i \in D
      BY <1>2, <2>1
    <2> QED  BY <2>1, <2>2 DEF D
  <1> QED  BY <1>3

(* The first number from i on that is in a set. *)
LEMMA FirstNumber ==
  ASSUME NEW S, NEW i \in Nat, NEW k \in Nat, \E e \in i .. k : e \in S
  PROVE  \E e \in i .. k : e \in S /\ \A j \in i .. (e - 1) : j \notin S
  <1> DEFINE T == {e \in i .. k : e \in S}
  <1>1. T # {} /\ T \subseteq Nat
    OBVIOUS
  <1>2. PICK e \in T : \A y \in T : e <= y
    BY <1>1, LeastElement
  <1>3. ASSUME NEW j \in i .. (e - 1)
        PROVE  j \notin S
    <2>1. j \in i .. k /\ ~(e <= j)
      OBVIOUS
    <2> QED  BY <1>2, <2>1
  <1> QED  BY <1>2, <1>3

(* Where the walk along a text ends, or its zero lies. *)
Walks(m, a, e) ==
  e \in Addresses /\ e >= a /\ Ends(m, e) /\ \A i \in a .. (e - 1) : ~Ends(m, i)

(* Where the text at a has its zero. *)
Terminates(m, a, e) ==
  e \in Addresses /\ e >= a /\ m[e] = 0 /\ \A i \in a .. (e - 1) : m[i] # 0

(* Every walk ends. *)
LEMMA WalkEnds ==
  ASSUME NEW m, NEW a \in Addresses
  PROVE  \E e : Walks(m, a, e)
  <1> DEFINE S == {i \in Addresses : Ends(m, i)}
  <1>1. Size - 1 \in Nat /\ a \in Nat /\ \E e \in a .. (Size - 1) : e \in S
    <2>1. Size - 1 \in Nat /\ a \in Nat /\ Size - 1 \in a .. (Size - 1) /\ Size - 1 \in S
      BY StringsAssumption DEF Addresses, Ends
    <2> QED  BY <2>1
  <1>2. PICK e \in a .. (Size - 1) : e \in S /\ \A i \in a .. (e - 1) : i \notin S
    <2> HIDE DEF S
    <2> QED  BY <1>1, FirstNumber
  <1>3. \A i \in a .. (e - 1) : i \in Addresses
    BY StringsAssumption DEF Addresses
  <1>4. Walks(m, a, e)
    BY <1>2, <1>3 DEF Walks
  <1> QED  BY <1>4

(* Every string has its zero. *)
LEMMA TextTerminates ==
  ASSUME NEW m, NEW a \in Addresses, IsString(m, a)
  PROVE  \E e : Terminates(m, a, e)
  <1> DEFINE S == {i \in Addresses : m[i] = 0}
  <1>1. Size - 1 \in Nat /\ a \in Nat /\ \E e \in a .. (Size - 1) : e \in S
    BY StringsAssumption DEF Addresses, IsString
  <1>2. PICK e \in a .. (Size - 1) : e \in S /\ \A i \in a .. (e - 1) : i \notin S
    <2> HIDE DEF S
    <2> QED  BY <1>1, FirstNumber
  <1>3. \A i \in a .. (e - 1) : i \in Addresses
    BY StringsAssumption DEF Addresses
  <1>4. Terminates(m, a, e)
    BY <1>2, <1>3 DEF Terminates
  <1> QED  BY <1>4

(* A walk that does not end goes on with the next address. *)
LEMMA WalkGoesOn ==
  ASSUME NEW m, NEW x \in Addresses, NEW y, y = x + 1, NEW e, ~Ends(m, x),
         y \in Addresses => Walks(m, y, e)
  PROVE  y \in Addresses /\ Walks(m, x, e) /\ e > x
  <1>1. Size \in Nat /\ x \in Nat /\ y \in Addresses
    BY StringsAssumption DEF Addresses, Ends
  <1>2. e \in Addresses /\ e \in Nat /\ e >= y /\ Ends(m, e) /\ \A i \in y .. (e - 1) : ~Ends(m, i)
    BY <1>1 DEF Walks, Addresses
  <1>3. \A i \in x .. (e - 1) : ~Ends(m, i)
    <2> TAKE i \in x .. (e - 1)
    <2>1. i = x \/ i \in y .. (e - 1)
      BY <1>1, <1>2
    <2> QED  BY <1>2, <2>1
  <1> QED  BY <1>1, <1>2, <1>3 DEF Walks

(* There is one such place, and the walk ends there. *)
LEMMA OneEnd ==
  ASSUME NEW m, NEW a \in Addresses, NEW e, NEW f, Walks(m, a, e),
         Walks(m, a, f) \/ Terminates(m, a, f)
  PROVE  e = f
  <1>1. Size \in Nat /\ a \in Nat /\ e \in Nat /\ f \in Nat /\ e <= Size - 1
    BY StringsAssumption DEF Walks, Terminates, Addresses
  <1>2. CASE e < f
    <2>1. e \in a .. (f - 1) /\ e # Size - 1
      BY <1>1, <1>2 DEF Walks, Terminates, Addresses
    <2>2. f <= Size - 1 /\ e < Size - 1 /\ Size \in Int /\ e \in Int
      BY <1>1, <1>2 DEF Walks, Terminates, Addresses
    <2>3. m[e] = 0
      <3>1. Ends(m, e)
        BY DEF Walks
      <3> QED  BY <2>2, <3>1 DEF Ends
    <2>4. ~Ends(m, e) \/ m[e] # 0
      BY <2>1 DEF Walks, Terminates
    <2> QED  BY <2>3, <2>4 DEF Ends
  <1>3. CASE f < e
    <2>1. f \in a .. (e - 1)
      BY <1>1, <1>3 DEF Walks, Terminates
    <2> QED  BY <2>1 DEF Walks, Terminates, Ends
  <1> QED  BY <1>1, <1>2, <1>3

(* The text is what lies before its zero. *)
LEMMA TextIs ==
  ASSUME NEW m, NEW a \in Addresses, NEW e, Terminates(m, a, e)
  PROVE  /\ Text(m, a) = Part(m, a, e - a) /\ e - a \in Nat
         /\ Len(Text(m, a)) = e - a
         /\ \A i \in 1 .. (e - a) : Text(m, a)[i] = m[a + i - 1]
  <1>1. Size \in Nat /\ a \in Nat /\ e \in Nat /\ e - a \in Nat /\ e \in a .. (Size - 1)
    BY StringsAssumption DEF Terminates, Addresses
  <1> DEFINE Is(x) == m[x] = 0 /\ \A i \in a .. (x - 1) : m[i] # 0
             last == CHOOSE x \in a .. (Size - 1) : Is(x)
  <1>2. Is(e)
    BY DEF Terminates
  <1>3. last \in a .. (Size - 1) /\ Is(last)
    <2> HIDE DEF Is
    <2> QED  BY <1>1, <1>2
  <1>4. last = e
    <2>1. ~(last < e)
      BY <1>1, <1>2, <1>3
    <2>2. ~(e < last)
      BY <1>1, <1>2, <1>3
    <2> HIDE DEF last
    <2> QED  BY <1>1, <1>3, <2>1, <2>2
  <1>5. Text(m, a) = Part(m, a, last - a)
    BY DEF Text, Part
  <1> HIDE DEF last
  <1>6. Text(m, a) = Part(m, a, e - a)
    BY <1>4, <1>5
  <1> QED  BY <1>1, <1>6, PartIs

(* strlen counts what lies before the zero. *)
LEMMA StrlenIs ==
  ASSUME NEW m, NEW a \in Addresses, NEW e, Terminates(m, a, e)
  PROVE  strlen(m, a) = e - a
  <1> DEFINE E(x) == CHOOSE y : Walks(m, x, y)
             F(h) == h = [x \in Addresses |-> IF Ends(m, x) THEN 0 ELSE 1 + h[x + 1]]
             g == [x \in Addresses |-> E(x) - x]
             f == CHOOSE h : F(h)
  <1>1. Size \in Nat /\ Addresses \subseteq Nat
    BY StringsAssumption DEF Addresses
  <1>2. \A x \in Addresses : Walks(m, x, E(x))
    BY WalkEnds
  <1> HIDE DEF E
  <1>3. ASSUME NEW x \in Addresses
        PROVE  g[x] = IF Ends(m, x) THEN 0 ELSE 1 + g[x + 1]
    <2>1. CASE Ends(m, x)
      <3>1. Walks(m, x, x)
        BY <1>1, <2>1 DEF Walks
      <3>2. E(x) = x
        BY <1>2, <3>1, OneEnd
      <3> QED  BY <1>1, <2>1, <3>2
    <2>2. CASE ~Ends(m, x)
      <3>1. x + 1 \in Addresses
        BY <1>1, <2>2 DEF Ends, Addresses
      <3> DEFINE y == x + 1
      <3>2. Walks(m, x, E(x + 1))
        <4>1. y \in Addresses /\ Walks(m, y, E(y)) /\ y = x + 1
          BY <1>2, <3>1
        <4> HIDE DEF y
        <4>2. Walks(m, x, E(y))
          BY <2>2, <4>1, WalkGoesOn
        <4> QED  BY <4>1, <4>2
      <3>3. E(x) = E(x + 1)
        BY <1>2, <3>2, OneEnd
      <3>4. E(x + 1) \in Nat
        BY <1>1, <1>2, <3>1 DEF Walks
      <3> QED  BY <1>1, <2>2, <3>1, <3>3, <3>4
    <2> QED  BY <2>1, <2>2
  <1>4. F(g)
    <2>1. g = [x \in Addresses |-> g[x]]
      OBVIOUS
    <2> HIDE DEF g
    <2> QED  BY <1>3, <2>1
  <1>5. F(f)
    BY <1>4
  <1> HIDE DEF f, g
  <1> DEFINE C == {x \in Addresses : f[x] = g[x]}
  <1>6. ASSUME NEW x \in Addresses, x + 1 \in Addresses => x + 1 \in C
        PROVE  x \in C
    <2>1. f[x] = IF Ends(m, x) THEN 0 ELSE 1 + f[x + 1]
      BY <1>5
    <2>2. ~Ends(m, x) => x + 1 \in Addresses
      BY <1>1 DEF Ends, Addresses
    <2> QED  BY <1>3, <1>6, <2>1, <2>2
  <1> HIDE DEF C
  <1>7. a \in C
    <2>1. Size - 1 \in Nat /\ \A x \in 0 .. (Size - 1) : (x + 1 \in 0 .. (Size - 1) => x + 1 \in C) => x \in C
      BY <1>1, <1>6, StringsAssumption DEF Addresses
    <2>2. \A x \in 0 .. (Size - 1) : x \in C
      BY <2>1, DownwardInduction
    <2> QED  BY <2>2 DEF Addresses
  <1>8. strlen(m, a) = f[a]
    BY DEF strlen, f
  <1>9. E(a) = e
    BY <1>2, OneEnd
  <1> QED  BY <1>7, <1>8, <1>9 DEF C, g

-----------------------------------------------------------------------------
(* The calls that write texts.                                             *)

(* With a zero behind it, a text is what lies up to its zero. *)
LEMMA TextAndZero ==
  ASSUME NEW m \in Memory, NEW a \in Addresses, NEW e, Terminates(m, a, e)
  PROVE  Text(m, a) \o <<0>> = Part(m, a, e - a + 1)
  <1> DEFINE n == e - a
             s == Text(m, a)
             t == s \o <<0>>
             p == Part(m, a, n + 1)
  <1>1. /\ s = Part(m, a, n) /\ n \in Nat /\ Len(s) = n
        /\ \A i \in 1 .. n : s[i] = m[a + i - 1]
    BY TextIs
  <1>2. /\ Size \in Nat /\ a \in Nat /\ e \in Nat /\ e <= Size - 1 /\ m[e] = 0
    BY StringsAssumption DEF Terminates, Addresses
  <1>3. \A i \in 1 .. (n + 1) : m[a + i - 1] \in Bytes
    BY <1>2 DEF Memory, Addresses
  <1>4. s \in Seq(Bytes) /\ p \in Seq(Bytes) /\ <<0>> \in Seq(Bytes)
    BY <1>1, <1>3, StringsAssumption DEF Part
  <1>5. Len(p) = n + 1 /\ \A i \in 1 .. (n + 1) : p[i] = m[a + i - 1]
    BY <1>1 DEF Part
  <1> HIDE DEF n, s, p
  <1>6. /\ t \in Seq(Bytes) /\ Len(t) = n + 1
        /\ \A i \in 1 .. (n + 1) : t[i] = IF i <= n THEN s[i] ELSE <<0>>[i - n]
    BY <1>1, <1>4, ConcatProperties
  <1>7. a + (n + 1) - 1 = e
    BY <1>2 DEF n
  <1> HIDE DEF t
  <1>8. ASSUME NEW i \in 1 .. (n + 1)
        PROVE  t[i] = p[i]
    <2>1. CASE i <= n
      BY <1>1, <1>5, <1>6, <2>1
    <2>2. CASE i = n + 1
      <3>1. t[i] = <<0>>[1]
        BY <1>1, <1>6, <2>2
      <3> QED  BY <1>2, <1>5, <1>7, <2>2, <3>1
    <2> QED  BY <1>1, <2>1, <2>2
  <1>9. t = p
    BY <1>1, <1>4, <1>5, <1>6, <1>8, SeqEqual
  <1> QED  BY <1>9 DEF s, t, p, n

(* strcpy writes the text and its zero. *)
LEMMA StrcpyIs ==
  ASSUME NEW m \in Memory, NEW a \in Addresses, NEW b \in Addresses, NEW e, Terminates(m, b, e),
         Fits(a, e - b + 1), Apart(a, e - b + 1, b, e - b + 1)
  PROVE  strcpy(m, a, b) = Written(m, a, Text(m, b) \o <<0>>)
  <1> DEFINE n == e - b + 1
  <1>1. strlen(m, b) + 1 = n
    BY StrlenIs
  <1>2. n \in Nat /\ b + n <= Size /\ a + n <= Size
    BY StringsAssumption DEF Terminates, Addresses, Fits
  <1>3. Text(m, b) \o <<0>> = Part(m, b, n)
    BY TextAndZero
  <1>4. strcpy(m, a, b) = CopyEach(m, a, b, Upward(n))
    BY <1>1 DEF strcpy
  <1>5. Apart(a, n, b, n)
    OBVIOUS
  <1> HIDE DEF n
  <1>6. CopyEach(m, a, b, Upward(n)) = Written(m, a, Part(m, b, n))
    BY <1>2, <1>5, CopyUpward
  <1> QED  BY <1>3, <1>4, <1>6

(* To write a text where there is a text's zero is to write both. *)
LEMMA WrittenBehind ==
  ASSUME NEW m \in Memory, NEW a \in Addresses, NEW c \in Addresses, Terminates(m, a, c),
         NEW t \in Seq(Bytes)
  PROVE  Written(m, c, t) = Written(m, a, Text(m, a) \o t)
  <1> DEFINE s == Text(m, a)
             n == c - a
             k == Len(t)
             u == s \o t
  <1>1. /\ s = Part(m, a, n) /\ n \in Nat /\ Len(s) = n
        /\ \A i \in 1 .. n : s[i] = m[a + i - 1]
    BY TextIs
  <1>2. /\ Size \in Nat /\ a \in Nat /\ c \in Nat /\ c <= Size - 1 /\ k \in Nat
    BY StringsAssumption, LenProperties DEF Addresses
  <1>3. \A i \in 1 .. n : m[a + i - 1] \in Bytes
    BY <1>2 DEF Memory, Addresses
  <1>4. s \in Seq(Bytes)
    BY <1>1, <1>3 DEF Part
  <1> HIDE DEF s
  <1>5. /\ Len(u) = n + k
        /\ \A i \in 1 .. (n + k) : u[i] = IF i <= n THEN s[i] ELSE t[i - n]
    BY <1>1, <1>4, ConcatProperties
  <1>6. c = a + n
    BY <1>2
  <1> HIDE DEF u, n, k
  <1>7. ASSUME NEW x \in Addresses
        PROVE  (IF x \in c .. (c + k - 1) THEN t[x - c + 1] ELSE m[x])
                 = IF x \in a .. (a + (n + k) - 1) THEN u[x - a + 1] ELSE m[x]
    <2>1. x \in Nat
      BY DEF Addresses
    <2>2. CASE x < a \/ x >= a + n + k
      BY <1>1, <1>2, <1>6, <2>1, <2>2
    <2>3. CASE x >= a /\ x < a + n
      <3>1. x - a + 1 \in 1 .. n /\ x - a + 1 \in 1 .. (n + k) /\ a + (x - a + 1) - 1 = x
        BY <1>1, <1>2, <2>1, <2>3
      <3>2. u[x - a + 1] = m[x]
        BY <1>1, <1>5, <3>1
      <3> QED  BY <1>1, <1>2, <1>6, <2>1, <2>3, <3>2
    <2>4. CASE x >= a + n /\ x < a + n + k
      <3>1. x - a + 1 \in 1 .. (n + k) /\ ~(x - a + 1 <= n) /\ x - a + 1 - n = x - c + 1
        BY <1>1, <1>2, <1>6, <2>1, <2>4
      <3>2. u[x - a + 1] = t[x - c + 1]
        <4> DEFINE i == x - a + 1
        <4>1. i \in 1 .. (n + k) /\ ~(i <= n) /\ i - n = x - c + 1
          BY <1>1, <1>2, <1>6, <2>1, <2>4
        <4> HIDE DEF i
        <4>2. u[i] = t[x - c + 1]
          BY <1>5, <4>1
        <4> QED  BY <4>2 DEF i
      <3> QED  BY <1>1, <1>2, <1>6, <2>1, <2>4, <3>2
    <2> QED  BY <1>1, <1>2, <2>1, <2>2, <2>3, <2>4
  <1>8. /\ Written(m, c, t) = [x \in Addresses |-> IF x \in c .. (c + k - 1) THEN t[x - c + 1] ELSE m[x]]
        /\ Written(m, a, u) =
             [x \in Addresses |-> IF x \in a .. (a + (n + k) - 1) THEN u[x - a + 1] ELSE m[x]]
    BY <1>5 DEF Written, k
  <1>9. Written(m, c, t) = Written(m, a, u)
    BY <1>7, <1>8
  <1> QED  BY <1>9 DEF u, s

(* What lies in the memory is bytes. *)
LEMMA PartIsBytes ==
  ASSUME NEW m \in Memory, NEW a \in Nat, NEW n \in Nat, a + n <= Size
  PROVE  Part(m, a, n) \in Seq(Bytes)
  <1>1. \A i \in 1 .. n : m[a + i - 1] \in Bytes
    BY StringsAssumption DEF Memory, Addresses
  <1> QED  BY <1>1 DEF Part

(* strcat writes the text behind the one that is there. *)
LEMMA StrcatIs ==
  ASSUME NEW m \in Memory, NEW a \in Addresses, NEW b \in Addresses,
         NEW c, Terminates(m, a, c), NEW e, Terminates(m, b, e),
         Fits(a, c - a + (e - b + 1)), Apart(a, c - a + (e - b + 1), b, e - b + 1)
  PROVE  /\ strcat(m, a, b) = Written(m, c, Text(m, b) \o <<0>>)
         /\ strcat(m, a, b) = Written(m, a, Text(m, a) \o Text(m, b) \o <<0>>)
  <1>1. Size \in Nat /\ a \in Nat /\ b \in Nat /\ c \in Nat /\ e \in Nat /\ c \in Addresses
        /\ c >= a /\ e >= b /\ e <= Size - 1
    BY StringsAssumption DEF Terminates, Addresses
  <1>2. strlen(m, a) = c - a
    BY StrlenIs
  <1>3. strcat(m, a, b) = strcpy(m, c, b)
    BY <1>1, <1>2 DEF strcat
  <1>4. Fits(c, e - b + 1) /\ Apart(c, e - b + 1, b, e - b + 1)
    BY <1>1 DEF Fits, Apart
  <1>5. strcpy(m, c, b) = Written(m, c, Text(m, b) \o <<0>>)
    BY <1>1, <1>4, StrcpyIs
  <1> DEFINE t == Text(m, b) \o <<0>>
             n == e - b
             k == n + 1
             j == c - a
  <1>6. /\ Text(m, b) = Part(m, b, n) /\ t = Part(m, b, k) /\ Text(m, a) = Part(m, a, j)
    BY TextIs, TextAndZero
  <1>7. /\ n \in Nat /\ b + n <= Size /\ k \in Nat /\ b + k <= Size
        /\ j \in Nat /\ a + j <= Size
    BY <1>1 DEF Addresses
  <1> HIDE DEF n, k, j
  <1>8. Text(m, b) \in Seq(Bytes) /\ t \in Seq(Bytes) /\ Text(m, a) \in Seq(Bytes)
    BY <1>1, <1>6, <1>7, PartIsBytes
  <1>9. <<0>> \in Seq(Bytes)
    BY StringsAssumption
  <1>10. Text(m, a) \o t = Text(m, a) \o Text(m, b) \o <<0>>
    BY <1>8, <1>9, ConcatAssociative
  <1> HIDE DEF t
  <1>11. Written(m, c, t) = Written(m, a, Text(m, a) \o t)
    BY <1>1, <1>8, WrittenBehind
  <1> QED  BY <1>3, <1>5, <1>10, <1>11 DEF t

(* Bytes are written into a memory of bytes. *)
LEMMA WrittenIsMemory ==
  ASSUME NEW m \in Memory, NEW a \in Nat, NEW t \in Seq(Bytes)
  PROVE  Written(m, a, t) \in Memory
  <1>1. Len(t) \in Nat /\ \A i \in 1 .. Len(t) : t[i] \in Bytes
    BY LenProperties, ElementOfSeq
  <1>2. ASSUME NEW x \in Addresses, x \in a .. (a + Len(t) - 1)
        PROVE  t[x - a + 1] \in Bytes
    <2>1. x - a + 1 \in 1 .. Len(t)
      BY <1>1, <1>2
    <2> QED  BY <1>1, <2>1
  <1> QED  BY <1>2 DEF Written, Memory

(* strncpy writes the text as far as it fits, and zeros behind it. *)
LEMMA StrncpyIs ==
  ASSUME NEW m \in Memory, NEW a \in Addresses, NEW b \in Addresses, NEW n \in Nat,
         NEW e, Terminates(m, b, e), Fits(a, n), Apart(a, n, b, e - b + 1)
  PROVE  /\ strncpy(m, a, b, n) = Written(m, a, Padded(Text(m, b), n))
         /\ Padded(Text(m, b), n) \in Seq(Bytes)
  <1> DEFINE Is(i) == /\ i = n \/ m[b + i] = 0
                      /\ \A j \in 0 .. (i - 1) : m[b + j] # 0
             copied == CHOOSE i \in 0 .. n : Is(i)
             l == e - b
             k == IF l < n THEN l ELSE n
             text == Text(m, b)
             one == Written(m, a, Part(m, b, k))
             p == Padded(text, n)
  <1>1. /\ Size \in Nat /\ a \in Nat /\ b \in Nat /\ e \in Nat /\ e <= Size - 1 /\ e >= b
        /\ a + n <= Size /\ m[e] = 0 /\ \A i \in b .. (e - 1) : m[i] # 0
    BY StringsAssumption DEF Terminates, Addresses, Fits
  <1>2. l \in Nat /\ k \in Nat /\ k <= n /\ b + k <= Size /\ a + k <= Size /\ b + l = e
    BY <1>1
  <1>3. Is(k)
    <2>1. k = n \/ m[b + k] = 0
      BY <1>1, <1>2
    <2>2. ASSUME NEW j \in 0 .. (k - 1)
          PROVE  m[b + j] # 0
      BY <1>1, <1>2
    <2> QED  BY <2>1, <2>2
  <1>4. copied \in 0 .. n /\ Is(copied)
    <2>1. k \in 0 .. n
      BY <1>2
    <2> HIDE DEF Is, k
    <2> QED  BY <1>3, <2>1
  <1>5. strncpy(m, a, b, n) =
          memset(CopyEach(m, a, b, Upward(copied)), a + copied, 0, n - copied)
    BY DEF strncpy
  <1>6. copied = k
    <2> HIDE DEF copied
    <2>1. ~(copied < k)
      <3> SUFFICES ASSUME copied < k PROVE FALSE
        OBVIOUS
      <3>1. copied # n /\ copied \in 0 .. (k - 1)
        BY <1>2, <1>4
      <3> QED  BY <1>3, <1>4, <3>1
    <2>2. ~(k < copied)
      <3> SUFFICES ASSUME k < copied PROVE FALSE
        OBVIOUS
      <3>1. k # n /\ k \in 0 .. (copied - 1)
        BY <1>2, <1>4
      <3> QED  BY <1>3, <1>4, <3>1
    <2> HIDE DEF k
    <2> QED  BY <1>2, <1>4, <2>1, <2>2
  <1> HIDE DEF copied, Is
  <1>7. /\ text = Part(m, b, l) /\ Len(text) = l
        /\ \A i \in 1 .. l : text[i] = m[b + i - 1]
    BY TextIs
  <1>8. Apart(a, k, b, k)
    BY <1>1, <1>2 DEF Apart
  <1> HIDE DEF k, l
  <1>9. CopyEach(m, a, b, Upward(k)) = one
    BY <1>2, <1>8, CopyUpward
  <1>10. one \in Memory
    BY <1>1, <1>2, PartIsBytes, WrittenIsMemory
  <1>11. Part(m, b, k) \in Seq(Bytes) /\ Len(Part(m, b, k)) = k
         /\ \A i \in 1 .. k : Part(m, b, k)[i] = m[b + i - 1]
    <2>1. Part(m, b, k) \in Seq(Bytes)
      BY <1>1, <1>2, PartIsBytes
    <2> QED  BY <1>2, <2>1, PartIs
  <1> DEFINE c == a + k
             r == n - k
             zeros == [i \in 1 .. r |-> 0]
  <1>12. c \in Nat /\ r \in Nat /\ c + r <= Size /\ c + r = a + n
    BY <1>1, <1>2
  <1> HIDE DEF c, r
  <1>13. memset(one, c, 0, r) = Written(one, c, zeros)
    <2> HIDE DEF one, zeros
    <2>1. 0 \in 0 .. 255
      OBVIOUS
    <2>2. memset(one, c, 0, r) = Written(one, c, [i \in 1 .. r |-> 0])
      BY <1>10, <1>12, <2>1, MemsetIs
    <2> QED  BY <2>2 DEF zeros
  <1>14. Len(zeros) = r /\ \A i \in 1 .. r : zeros[i] = 0
    BY <1>12
  <1> HIDE DEF zeros
  <1>15. /\ Len(p) = n
         /\ \A i \in 1 .. n : p[i] = IF i <= l THEN text[i] ELSE 0
    BY <1>7 DEF Padded
  <1>16. p \in Seq(Bytes)
    <2>1. \A i \in 1 .. n : (IF i <= Len(text) THEN text[i] ELSE 0) \in Bytes
      <3> TAKE i \in 1 .. n
      <3>1. CASE i <= l
        <4>1. i \in 1 .. l /\ b + i - 1 \in Addresses
          BY <1>1, <1>2, <3>1 DEF Addresses
        <4> QED  BY <1>7, <4>1 DEF Memory
      <3>2. CASE ~(i <= l)
        BY <1>7, <3>2, StringsAssumption
      <3> QED  BY <3>1, <3>2
    <2> QED  BY <2>1 DEF Padded
  <1> HIDE DEF text, p
  <1>17. ASSUME NEW x \in Addresses
         PROVE  (IF x \in c .. (c + r - 1) THEN zeros[x - c + 1] ELSE one[x])
                  = IF x \in a .. (a + n - 1) THEN p[x - a + 1] ELSE m[x]
    <2>1. x \in Nat
      BY DEF Addresses
    <2>2. one[x] = IF x \in a .. (a + k - 1) THEN Part(m, b, k)[x - a + 1] ELSE m[x]
      BY <1>11 DEF Written
    <2> HIDE DEF one
    <2>3. CASE x < a \/ x >= a + n
      <3>1. ~(x \in a .. (a + k - 1)) /\ ~(x \in a .. (a + n - 1)) /\ ~(x \in c .. (c + r - 1))
        BY <1>1, <1>2, <1>12, <2>1, <2>3 DEF c
      <3> QED  BY <2>2, <3>1
    <2>4. CASE x >= a /\ x < c
      <3> DEFINE i == x - a + 1
      <3>1. i \in 1 .. k /\ i \in 1 .. n /\ i <= l /\ i \in 1 .. l
        BY <1>1, <1>2, <2>1, <2>4 DEF c, k
      <3> HIDE DEF i
      <3>2. Part(m, b, k)[i] = m[b + i - 1] /\ p[i] = m[b + i - 1]
        BY <1>7, <1>11, <1>15, <3>1
      <3>3. x \in a .. (a + k - 1) /\ x \in a .. (a + n - 1) /\ ~(x \in c .. (c + r - 1))
        BY <1>1, <1>2, <1>12, <2>1, <2>4 DEF c
      <3> QED  BY <2>2, <3>2, <3>3 DEF i
    <2>5. CASE x >= c /\ x < a + n
      <3> DEFINE i == x - a + 1
                 j == x - c + 1
      <3>1. i \in 1 .. n /\ ~(i <= l) /\ j \in 1 .. r
        BY <1>1, <1>2, <1>12, <2>1, <2>5 DEF c, k, r
      <3> HIDE DEF i, j
      <3>2. p[i] = 0 /\ zeros[j] = 0
        BY <1>14, <1>15, <3>1
      <3>3. x \in a .. (a + n - 1) /\ x \in c .. (c + r - 1)
        BY <1>1, <1>2, <1>12, <2>1, <2>5 DEF c
      <3> QED  BY <3>2, <3>3 DEF i, j
    <2> QED  BY <1>1, <1>12, <2>1, <2>3, <2>4, <2>5
  <1>18. Written(one, c, zeros) = Written(m, a, p)
    <2>1. /\ Written(one, c, zeros) =
               [x \in Addresses |-> IF x \in c .. (c + r - 1) THEN zeros[x - c + 1] ELSE one[x]]
          /\ Written(m, a, p) =
               [x \in Addresses |-> IF x \in a .. (a + n - 1) THEN p[x - a + 1] ELSE m[x]]
      BY <1>14, <1>15 DEF Written
    <2> QED  BY <1>17, <2>1
  <1> QED  BY <1>5, <1>6, <1>9, <1>13, <1>16, <1>18 DEF c, r, p, text

-----------------------------------------------------------------------------
(* The calls that compare.                                                 *)

(* What the comparisons see of a byte. *)
Seen(m, x, fold) == IF fold THEN ascii_lower(m[x]) ELSE m[x]

(* Where their walk ends. *)
Stops(m, left, right, limit, text, fold, i) ==
  \/ i = limit
  \/ Seen(m, left + i, fold) # Seen(m, right + i, fold)
  \/ text /\ Seen(m, left + i, fold) = 0

(* It ends at k, and what it returns is what it sees there. *)
StopsAt(m, left, right, limit, text, fold, k) ==
  /\ Stops(m, left, right, limit, text, fold, k)
  /\ \A j \in 0 .. (k - 1) : ~Stops(m, left, right, limit, text, fold, j)
  /\ Compared(m, left, right, limit, text, fold) =
       IF k = limit THEN 0 ELSE Order(Seen(m, left + k, fold), Seen(m, right + k, fold))

(* What counts is the first place where it ends. *)
LEMMA ComparedIs ==
  ASSUME NEW m, NEW left, NEW right, NEW limit \in Nat, NEW text \in BOOLEAN, NEW fold \in BOOLEAN
  PROVE  \E k \in 0 .. limit : StopsAt(m, left, right, limit, text, fold, k)
  <1> DEFINE A(i) == Seen(m, left + i, fold)
             B(i) == Seen(m, right + i, fold)
             T == {i \in 0 .. limit : Stops(m, left, right, limit, text, fold, i)}
             First(i, e) == e \in i .. limit /\ e \in T /\ \A j \in i .. (e - 1) : j \notin T
             E(i) == CHOOSE e : First(i, e)
             V(e) == IF e = limit THEN 0 ELSE Order(A(e), B(e))
             R(h, i) == IF i = limit THEN 0
                        ELSE IF A(i) # B(i) THEN Order(A(i), B(i))
                        ELSE IF text /\ A(i) = 0 THEN 0 ELSE h[i + 1]
             F(h) == h = [i \in 0 .. limit |-> R(h, i)]
             g == [i \in 0 .. limit |-> V(E(i))]
             f == CHOOSE h : F(h)
  <1>1. \A i \in 0 .. limit : i \in T <=> (i = limit \/ A(i) # B(i) \/ (text /\ A(i) = 0))
    BY DEF Stops
  <1>2. Compared(m, left, right, limit, text, fold) = f[0]
    BY Zenon DEF Compared, Seen
  <1> HIDE DEF A, B, T
  <1>3. ASSUME NEW i \in 0 .. limit
        PROVE  First(i, E(i))
    <2>1. limit \in i .. limit /\ limit \in T
      BY <1>1
    <2>2. i \in Nat /\ \E e \in i .. limit : e \in T
      BY <2>1
    <2>3. PICK e \in i .. limit : e \in T /\ \A j \in i .. (e - 1) : j \notin T
      BY <2>2, FirstNumber
    <2>5. First(i, e)
      BY <2>3
    <2> HIDE DEF First
    <2> QED  BY <2>5
  <1>4. ASSUME NEW i \in 0 .. limit, NEW d, NEW e, First(i, d), First(i, e)
        PROVE  d = e
    <2>1. ~(d < e) /\ ~(e < d)
      BY <1>4
    <2> QED  BY <1>4, <2>1
  <1> HIDE DEF E
  <1>5. ASSUME NEW i \in 0 .. limit
        PROVE  V(E(i)) = IF i \in T THEN V(i) ELSE V(E(i + 1))
    <2>1. CASE i \in T
      <3>1. First(i, i)
        BY <2>1
      <3>2. E(i) = i
        <4> HIDE DEF First
        <4> QED  BY <1>3, <1>4, <3>1
      <3> QED  BY <2>1, <3>2
    <2>2. CASE i \notin T
      <3> DEFINE n == i + 1
      <3>1. n \in 0 .. limit
        BY <1>1, <2>2
      <3>2. First(n, E(n))
        BY <1>3, <3>1
      <3>3. First(i, E(n))
        <4>1. \A j \in i .. (E(n) - 1) : j = i \/ j \in n .. (E(n) - 1)
          BY <3>2
        <4> QED  BY <2>2, <3>2, <4>1
      <3>4. E(i) = E(n)
        <4> HIDE DEF First, n
        <4> QED  BY <1>3, <1>4, <3>3
      <3> QED  BY <2>2, <3>4
    <2> QED  BY <2>1, <2>2
  <1>6. ASSUME NEW i \in 0 .. limit
        PROVE  g[i] = R(g, i)
    <2>1. g[i] = IF i \in T THEN V(i) ELSE V(E(i + 1))
      BY <1>5
    <2>2. CASE i \in T
      <3>1. \A x : Order(x, x) = 0
        BY DEF Order
      <3> HIDE DEF g
      <3> QED  BY <1>1, <2>1, <2>2, <3>1
    <2>3. CASE i \notin T
      <3>1. i + 1 \in 0 .. limit
        BY <1>1, <2>3
      <3>2. g[i + 1] = V(E(i + 1))
        BY <3>1
      <3> HIDE DEF g, V
      <3> QED  BY <1>1, <2>1, <2>3, <3>2
    <2> QED  BY <2>2, <2>3
  <1>7. F(g)
    <2>1. g = [i \in 0 .. limit |-> g[i]]
      OBVIOUS
    <2> HIDE DEF g, R
    <2> QED  BY <1>6, <2>1
  <1>8. F(f)
    <2> HIDE DEF F, g
    <2> QED  BY <1>7
  <1> HIDE DEF f, g
  <1> DEFINE C == {i \in 0 .. limit : f[i] = g[i]}
  <1>9. ASSUME NEW i \in 0 .. limit, i + 1 \in 0 .. limit => i + 1 \in C
        PROVE  i \in C
    <2>1. f[i] = R(f, i)
      <3> HIDE DEF R
      <3> QED  BY <1>8
    <2>2. i # limit => i + 1 \in 0 .. limit
      OBVIOUS
    <2> QED  BY <1>6, <1>9, <2>1, <2>2
  <1>10. 0 \in C
    <2> HIDE DEF C
    <2>1. \A i \in 0 .. limit : i \in C
      BY <1>9, DownwardInduction
    <2> QED  BY <2>1
  <1>11. First(0, E(0)) /\ f[0] = V(E(0))
    BY <1>3, <1>10 DEF g
  <1>12. StopsAt(m, left, right, limit, text, fold, E(0))
    BY <1>2, <1>11 DEF T, A, B, StopsAt
  <1> QED  BY <1>11, <1>12

(* Two sequences agree on their first k elements. *)
Agree(s, t, k) == \A i \in 1 .. k : s[i] = t[i]

(* The order of two sequences that agree on their first k elements. *)
LEMMA OrderedIs ==
  ASSUME NEW s \in Seq(Nat), NEW t \in Seq(Nat), NEW k \in Nat, k <= Len(s), k <= Len(t),
         Agree(s, t, k)
  PROVE  /\ k = Len(s) /\ k = Len(t) => Ordered(s, t) = 0
         /\ k = Len(s) /\ k < Len(t) => Ordered(s, t) = -1
         /\ k < Len(s) /\ k = Len(t) => Ordered(s, t) = 1
         /\ k < Len(s) /\ k < Len(t) /\ s[k + 1] # t[k + 1] =>
              Ordered(s, t) = Order(s[k + 1], t[k + 1])
  <1> DEFINE x == s[k + 1]
             y == t[k + 1]
  <1> USE DEF Agree
  <1>1. /\ Len(s) \in Nat /\ Len(t) \in Nat
        /\ \A i \in 1 .. Len(s) : s[i] \in Nat
        /\ \A i \in 1 .. Len(t) : t[i] \in Nat
    BY LenProperties, ElementOfSeq
  <1>2. ASSUME k = Len(s), k = Len(t) PROVE Ordered(s, t) = 0
    <2>1. s = t
      BY <1>2, SeqEqual
    <2> QED  BY <2>1 DEF Ordered
  <1>3. ASSUME k = Len(s), k < Len(t) PROVE Ordered(s, t) = -1
    <2>1. s # t
      BY <1>1, <1>3
    <2>2. Precedes(s, t)
      <3>1. k + 1 \in 1 .. Len(t) /\ k + 1 <= Len(s) + 1 /\ k + 1 > Len(s)
            /\ \A j \in 1 .. (k + 1 - 1) : s[j] = t[j]
        BY <1>1, <1>3
      <3> QED  BY <3>1 DEF Precedes
    <2> QED  BY <2>1, <2>2 DEF Ordered
  <1>4. ASSUME k < Len(s), k = Len(t) PROVE Ordered(s, t) = 1
    <2>1. s # t
      BY <1>1, <1>4
    <2>2. ~Precedes(s, t)
      <3>1. \A i \in 1 .. Len(t) : ~(i > Len(s)) /\ ~(s[i] < t[i])
        BY <1>1, <1>4
      <3> QED  BY <3>1 DEF Precedes
    <2> QED  BY <2>1, <2>2 DEF Ordered
  <1>5. ASSUME k < Len(s), k < Len(t), x # y PROVE Ordered(s, t) = Order(x, y)
    <2>1. s # t
      BY <1>5
    <2>2. x \in Nat /\ y \in Nat
      BY <1>1, <1>5
    <2>3. Precedes(s, t) <=> x < y
      <3>1. ASSUME x < y PROVE Precedes(s, t)
        <4>1. k + 1 \in 1 .. Len(t) /\ k + 1 <= Len(s) + 1 /\ s[k + 1] < t[k + 1]
              /\ \A j \in 1 .. (k + 1 - 1) : s[j] = t[j]
          BY <1>1, <1>5, <3>1
        <4> QED  BY <4>1 DEF Precedes
      <3>2. ASSUME ~(x < y), NEW i \in 1 .. Len(t), i <= Len(s) + 1,
                   \A j \in 1 .. (i - 1) : s[j] = t[j],
                   i > Len(s) \/ s[i] < t[i]
            PROVE  FALSE
        <4>1. CASE i <= k
          <5>1. s[i] = t[i] /\ t[i] \in Nat /\ ~(i > Len(s))
            BY <1>1, <1>5, <4>1
          <5> QED  BY <3>2, <5>1
        <4>2. CASE i = k + 1
          BY <1>1, <1>5, <3>2, <4>2
        <4>3. CASE i > k + 1
          <5>1. k + 1 \in 1 .. (i - 1)
            BY <4>3
          <5> QED  BY <1>5, <3>2, <5>1
        <4> QED  BY <4>1, <4>2, <4>3
      <3> QED  BY <3>1, <3>2 DEF Precedes
    <2> HIDE DEF x, y
    <2> QED  BY <1>5, <2>1, <2>2, <2>3 DEF Ordered, Order
  <1> QED  BY <1>2, <1>3, <1>4, <1>5

(* Bytes, in lower case or as they are. *)
LEMMA SeenIs ==
  ASSUME NEW m \in Memory, NEW x \in Addresses, NEW fold \in BOOLEAN
  PROVE  /\ Seen(m, x, fold) \in Nat
         /\ Seen(m, x, fold) = 0 <=> m[x] = 0
  <1>1. m[x] \in 0 .. 255
    BY StringsAssumption DEF Memory
  <1> QED  BY <1>1 DEF Seen, ascii_lower

(* s shows n bytes of the memory, from a on. *)
Shows(s, m, a, n, fold) ==
  /\ Len(s) = n
  /\ \A i \in 1 .. n : s[i] = Seen(m, a + i - 1, fold)
  /\ s \in Seq(Nat)

(* How much of two texts of p and q bytes counts if no more than n does; of  *)
(* the second, more than counts may be shown if the first ends before.       *)
Counts(k, l, p, q, n) ==
  /\ k = IF p < n THEN p ELSE n
  /\ \/ l = IF q < n THEN q ELSE n
     \/ l = q /\ p < n

(* s and t show two texts, as far as they limit. *)
ShowTexts(m, a, b, n, fold, s, t) ==
  \E e, f \in Addresses, k, l \in Nat :
    /\ Terminates(m, a, e) /\ Terminates(m, b, f)
    /\ Counts(k, l, e - a, f - b, n)
    /\ Shows(s, m, a, k, fold) /\ Shows(t, m, b, l, fold)

(* The comparison has the order of two sequences. *)
ComparesAs(m, a, b, n, fold, s, t) == Compared(m, a, b, n, TRUE, fold) = Ordered(s, t)

(* Two texts compare as what is shown of them: all, or as much as counts. *)
LEMMA TextsCompare ==
  ASSUME NEW m \in Memory, NEW a \in Addresses, NEW b \in Addresses, NEW limit \in Nat,
         NEW fold \in BOOLEAN, NEW s, NEW t, ShowTexts(m, a, b, limit, fold, s, t)
  PROVE  ComparesAs(m, a, b, limit, fold, s, t)
  <1> SUFFICES Compared(m, a, b, limit, TRUE, fold) = Ordered(s, t)
    BY DEF ComparesAs
  <1> PICK e, f \in Addresses, k, l \in Nat :
        /\ Terminates(m, a, e) /\ Terminates(m, b, f)
        /\ Counts(k, l, e - a, f - b, limit)
        /\ Shows(s, m, a, k, fold) /\ Shows(t, m, b, l, fold)
    BY DEF ShowTexts
  <1> DEFINE p == e - a
             q == f - b
  <1> DEFINE A(i) == Seen(m, a + i, fold)
             B(i) == Seen(m, b + i, fold)
  <1>0. PICK n \in 0 .. limit : StopsAt(m, a, b, limit, TRUE, fold, n)
    <2>1. TRUE \in BOOLEAN
      OBVIOUS
    <2> QED  BY <2>1, ComparedIs
  <1>1. /\ Stops(m, a, b, limit, TRUE, fold, n)
        /\ \A j \in 0 .. (n - 1) : ~Stops(m, a, b, limit, TRUE, fold, j)
        /\ Compared(m, a, b, limit, TRUE, fold) = IF n = limit THEN 0 ELSE Order(A(n), B(n))
    BY <1>0 DEF StopsAt
  <1>2. /\ Size \in Nat /\ a \in Nat /\ b \in Nat /\ e \in Nat /\ f \in Nat
        /\ e <= Size - 1 /\ f <= Size - 1 /\ p \in Nat /\ q \in Nat
        /\ a + p = e /\ b + q = f
    BY StringsAssumption DEF Terminates, Addresses
  <1>3. /\ \A i \in 0 .. p : A(i) \in Nat /\ (A(i) = 0 <=> i = p)
        /\ \A i \in 0 .. q : B(i) \in Nat /\ (B(i) = 0 <=> i = q)
    <2>1. ASSUME NEW i \in 0 .. p PROVE A(i) \in Nat /\ (A(i) = 0 <=> i = p)
      <3>1. a + i \in Addresses /\ (i # p => a + i \in a .. (e - 1))
        BY <1>2 DEF Addresses
      <3>2. m[a + i] = 0 <=> i = p
        BY <1>2, <3>1 DEF Terminates
      <3> QED  BY <3>1, <3>2, SeenIs
    <2>2. ASSUME NEW i \in 0 .. q PROVE B(i) \in Nat /\ (B(i) = 0 <=> i = q)
      <3>1. b + i \in Addresses /\ (i # q => b + i \in b .. (f - 1))
        BY <1>2 DEF Addresses
      <3>2. m[b + i] = 0 <=> i = q
        BY <1>2, <3>1 DEF Terminates
      <3> QED  BY <3>1, <3>2, SeenIs
    <2> QED  BY <2>1, <2>2
  <1>4. /\ \A j \in 0 .. (n - 1) : A(j) = B(j) /\ A(j) # 0
        /\ n = limit \/ A(n) # B(n) \/ A(n) = 0
    BY <1>1 DEF Stops
  <1>5. /\ s \in Seq(Nat) /\ Len(s) = k /\ \A i \in 1 .. k : s[i] = A(i - 1)
        /\ t \in Seq(Nat) /\ Len(t) = l /\ \A i \in 1 .. l : t[i] = B(i - 1)
    <2>1. \A i \in Nat : a + i - 1 = a + (i - 1) /\ b + i - 1 = b + (i - 1)
      BY <1>2
    <2> QED  BY <2>1 DEF Shows
  <1>6. n <= p /\ n <= q
    <2>1. ~(p < n)
      <3> SUFFICES ASSUME p < n PROVE FALSE
        OBVIOUS
      <3>1. p \in 0 .. (n - 1) /\ p \in 0 .. p
        BY <1>2
      <3> HIDE DEF A, B
      <3> QED  BY <1>3, <1>4, <3>1
    <2>2. ~(q < n)
      <3> SUFFICES ASSUME q < n PROVE FALSE
        OBVIOUS
      <3>1. q \in 0 .. (n - 1) /\ q \in 0 .. q
        BY <1>2
      <3> HIDE DEF A, B
      <3> QED  BY <1>3, <1>4, <3>1
    <2> QED  BY <1>2, <2>1, <2>2
  <1>7. k = IF p < limit THEN p ELSE limit
    BY DEF Counts
  <1>8. \/ l = IF q < limit THEN q ELSE limit
        \/ l = q /\ p < limit
    BY DEF Counts
  <1> HIDE DEF A, B
  <1>9. n \in Nat /\ n <= k /\ n <= l
    BY <1>2, <1>6, <1>7, <1>8
  <1>10. Agree(s, t, n)
    <2> SUFFICES ASSUME NEW i \in 1 .. n PROVE s[i] = t[i]
      BY DEF Agree
    <2>1. i \in 1 .. k /\ i \in 1 .. l /\ i - 1 \in 0 .. (n - 1)
      BY <1>9
    <2> QED  BY <1>4, <1>5, <2>1
  <1>11. /\ n = k /\ n = l => Ordered(s, t) = 0
         /\ n = k /\ n < l => Ordered(s, t) = -1
         /\ n < k /\ n = l => Ordered(s, t) = 1
         /\ n < k /\ n < l /\ s[n + 1] # t[n + 1] => Ordered(s, t) = Order(s[n + 1], t[n + 1])
    BY <1>5, <1>9, <1>10, OrderedIs
  <1>12. n \in 0 .. p /\ n \in 0 .. q
    BY <1>2, <1>6, <1>9
  <1>13. CASE n = limit
    <2>1. n = k /\ n = l
      BY <1>2, <1>6, <1>7, <1>8, <1>9, <1>13
    <2> QED  BY <1>1, <1>11, <1>13, <2>1
  <1>14. CASE n # limit /\ n = p /\ n = q
    <2>1. A(n) = 0 /\ B(n) = 0
      BY <1>3, <1>12, <1>14
    <2>2. n = k /\ n = l
      BY <1>2, <1>7, <1>8, <1>9, <1>14
    <2> QED  BY <1>1, <1>11, <1>14, <2>1, <2>2 DEF Order
  <1>15. CASE n # limit /\ n = p /\ n # q
    <2>1. A(n) = 0 /\ B(n) \in Nat /\ B(n) # 0
      BY <1>3, <1>12, <1>15
    <2>2. n = k /\ n < l
      BY <1>2, <1>6, <1>7, <1>8, <1>9, <1>15
    <2>3. Order(A(n), B(n)) = -1
      BY <2>1 DEF Order
    <2> QED  BY <1>1, <1>11, <1>15, <2>2, <2>3
  <1>16. CASE n # limit /\ n # p /\ n = q
    <2>1. B(n) = 0 /\ A(n) \in Nat /\ A(n) # 0
      BY <1>3, <1>12, <1>16
    <2>2. n < k /\ n = l
      BY <1>2, <1>6, <1>7, <1>8, <1>9, <1>16
    <2>3. Order(A(n), B(n)) = 1
      BY <2>1 DEF Order
    <2> QED  BY <1>1, <1>11, <1>16, <2>2, <2>3
  <1>17. CASE n # limit /\ n # p /\ n # q
    <2>1. A(n) # 0 /\ A(n) # B(n)
      BY <1>3, <1>4, <1>12, <1>17
    <2>2. n < k /\ n < l
      BY <1>2, <1>6, <1>7, <1>8, <1>9, <1>17
    <2> DEFINE y == n + 1
    <2>3. y \in 1 .. k /\ y \in 1 .. l /\ y - 1 = n
      BY <1>9, <2>2
    <2> HIDE DEF y
    <2>4. s[y] = A(y - 1) /\ t[y] = B(y - 1)
      BY <1>5, <2>3
    <2>5. s[n + 1] = A(n) /\ t[n + 1] = B(n)
      BY <2>3, <2>4 DEF y
    <2> QED  BY <1>1, <1>11, <1>17, <2>1, <2>2, <2>5
  <1> QED  BY <1>13, <1>14, <1>15, <1>16, <1>17

(* Two areas of the memory compare as their bytes. *)
LEMMA AreasCompare ==
  ASSUME NEW m \in Memory, NEW a \in Addresses, NEW b \in Addresses, NEW limit \in Nat,
         Fits(a, limit), Fits(b, limit)
  PROVE  memcmp(m, a, b, limit) = Ordered(Part(m, a, limit), Part(m, b, limit))
  <1> DEFINE s == Part(m, a, limit)
             t == Part(m, b, limit)
  <1>0. PICK n \in 0 .. limit : StopsAt(m, a, b, limit, FALSE, FALSE, n)
    <2>1. FALSE \in BOOLEAN
      OBVIOUS
    <2> QED  BY <2>1, ComparedIs
  <1>1. /\ Stops(m, a, b, limit, FALSE, FALSE, n)
        /\ \A j \in 0 .. (n - 1) : ~Stops(m, a, b, limit, FALSE, FALSE, j)
        /\ Compared(m, a, b, limit, FALSE, FALSE) =
             IF n = limit THEN 0 ELSE Order(Seen(m, a + n, FALSE), Seen(m, b + n, FALSE))
    BY <1>0 DEF StopsAt
  <1>2. \A x : Seen(m, x, FALSE) = m[x]
    BY DEF Seen
  <1>3. /\ n = limit \/ m[a + n] # m[b + n]
        /\ \A j \in 0 .. (n - 1) : m[a + j] = m[b + j]
    BY <1>1, <1>2 DEF Stops
  <1>4. a \in Nat /\ b \in Nat /\ a + limit <= Size /\ b + limit <= Size
    BY DEF Addresses, Fits
  <1>5. s \in Seq(Bytes) /\ t \in Seq(Bytes) /\ Bytes \subseteq Nat
    BY <1>4, PartIsBytes, StringsAssumption
  <1>6. s \in Seq(Nat) /\ t \in Seq(Nat)
    BY <1>5, SeqMonotonic
  <1>7. /\ Len(s) = limit /\ Len(t) = limit
        /\ \A i \in 1 .. limit : s[i] = m[a + i - 1] /\ t[i] = m[b + i - 1]
    BY PartIs
  <1> HIDE DEF s, t
  <1>8. Agree(s, t, n)
    <2> SUFFICES ASSUME NEW i \in 1 .. n PROVE s[i] = t[i]
      BY DEF Agree
    <2>1. i \in 1 .. limit /\ i - 1 \in 0 .. (n - 1) /\ a + i - 1 = a + (i - 1) /\ b + i - 1 = b + (i - 1)
      BY <1>4
    <2> QED  BY <1>3, <1>7, <2>1
  <1>9. /\ n = limit => Ordered(s, t) = 0
        /\ n < limit /\ s[n + 1] # t[n + 1] => Ordered(s, t) = Order(s[n + 1], t[n + 1])
    <2>1. n \in Nat /\ n <= Len(s) /\ n <= Len(t)
      BY <1>7
    <2>2. /\ n = Len(s) /\ n = Len(t) => Ordered(s, t) = 0
          /\ n < Len(s) /\ n < Len(t) /\ s[n + 1] # t[n + 1] =>
               Ordered(s, t) = Order(s[n + 1], t[n + 1])
      BY <1>6, <1>8, <2>1, OrderedIs
    <2> QED  BY <1>7, <2>2
  <1>10. n # limit => s[n + 1] = m[a + n] /\ t[n + 1] = m[b + n]
    <2> HAVE n # limit
    <2>1. n + 1 \in 1 .. limit /\ a + (n + 1) - 1 = a + n /\ b + (n + 1) - 1 = b + n
      BY <1>4
    <2> QED  BY <1>7, <2>1
  <1>11. Compared(m, a, b, limit, FALSE, FALSE) = Ordered(s, t)
    <2>1. CASE n = limit
      BY <1>1, <1>9, <2>1
    <2>2. CASE n # limit
      <3>1. n < limit
        BY <2>2
      <3>2. s[n + 1] = m[a + n] /\ t[n + 1] = m[b + n] /\ m[a + n] # m[b + n]
        BY <1>3, <1>10, <2>2
      <3> QED  BY <1>1, <1>2, <1>9, <2>2, <3>1, <3>2
    <2> QED  BY <2>1, <2>2
  <1> QED  BY <1>11 DEF memcmp, s, t

(* A text, or its first n bytes, shows the memory where it lies. *)
LEMMA TextShows ==
  ASSUME NEW m \in Memory, NEW a \in Addresses, NEW e, Terminates(m, a, e), NEW n \in Nat, NEW k,
         k = IF e - a < n THEN e - a ELSE n
  PROVE  /\ k \in Nat
         /\ Shows(Shortened(Text(m, a), n), m, a, k, FALSE)
         /\ Shows(Lowered(Shortened(Text(m, a), n)), m, a, k, TRUE)
  <1> DEFINE s == Text(m, a)
             t == Shortened(s, n)
             l == Lowered(t)
  <1>1. /\ Len(s) = e - a /\ e - a \in Nat
        /\ \A i \in 1 .. (e - a) : s[i] = m[a + i - 1]
    BY TextIs
  <1>2. k \in Nat /\ k <= e - a /\ k <= n /\ t = SubSeq(s, 1, k)
    BY <1>1 DEF Shortened
  <1>3. \A i \in 1 .. k : a + i - 1 \in Addresses
    BY <1>1, <1>2, StringsAssumption DEF Terminates, Addresses
  <1> HIDE DEF s
  <1>4. \A i \in 1 .. k : s[i] \in Nat
    <2> TAKE i \in 1 .. k
    <2>1. s[i] = m[a + i - 1] /\ a + i - 1 \in Addresses
      BY <1>1, <1>2, <1>3
    <2>2. m[a + i - 1] \in Bytes
      BY <2>1 DEF Memory
    <2>3. m[a + i - 1] \in 0 .. 255
      BY <2>2, StringsAssumption
    <2> QED  BY <2>1, <2>3
  <1>5. /\ t \in Seq(Nat) /\ Len(t) = k
        /\ \A i \in 1 .. k : t[i] = s[i]
    <2>1. 1 \in Int /\ k \in Int
      BY <1>2
    <2>2. /\ SubSeq(s, 1, k) \in Seq(Nat) /\ Len(SubSeq(s, 1, k)) = IF 1 <= k THEN k - 1 + 1 ELSE 0
          /\ \A i \in 1 .. (k - 1 + 1) : SubSeq(s, 1, k)[i] = s[1 + i - 1]
      BY <1>4, <2>1, SubSeqProperties
    <2> HIDE DEF t
    <2> QED  BY <1>2, <2>2
  <1> HIDE DEF t
  <1>6. \A i \in 1 .. k : t[i] = m[a + i - 1]
    BY <1>1, <1>2, <1>5
  <1>7. Shows(t, m, a, k, FALSE)
    BY <1>5, <1>6 DEF Shows, Seen
  <1>8. l = [i \in 1 .. k |-> ascii_lower(t[i])]
    BY <1>5 DEF Lowered
  <1>9. \A i \in 1 .. k : ascii_lower(t[i]) \in Nat
    <2> TAKE i \in 1 .. k
    <2>1. t[i] \in Nat
      BY <1>4, <1>5
    <2> QED  BY <2>1 DEF ascii_lower
  <1>10. l \in Seq(Nat) /\ Len(l) = k /\ \A i \in 1 .. k : l[i] = ascii_lower(m[a + i - 1])
    <2> DEFINE f(i) == ascii_lower(t[i])
    <2>1. l = [i \in 1 .. k |-> f(i)] /\ \A i \in 1 .. k : f(i) \in Nat
      BY <1>8, <1>9
    <2>2. \A i \in 1 .. k : f(i) = ascii_lower(m[a + i - 1])
      BY <1>6
    <2> HIDE DEF l, f
    <2>3. l \in [1 .. k -> Nat] /\ \A i \in 1 .. k : l[i] = f(i)
      BY <2>1, Zenon
    <2>4. l \in Seq(Nat) /\ Len(l) = k
      BY <1>2, <2>3
    <2> QED  BY <2>2, <2>3, <2>4, Zenon
  <1>11. Shows(l, m, a, k, TRUE)
    <2> HIDE DEF l
    <2> QED  BY <1>10 DEF Shows, Seen
  <1> QED  BY <1>2, <1>7, <1>11 DEF t, l, s

(* A text is its own beginning of as many bytes. *)
LEMMA WholeText ==
  ASSUME NEW m \in Memory, NEW a \in Addresses, NEW e, Terminates(m, a, e)
  PROVE  Shortened(Text(m, a), e - a) = Text(m, a)
  <1>1. Text(m, a) = Part(m, a, e - a) /\ Len(Text(m, a)) = e - a /\ e - a \in Nat
    BY TextIs
  <1>2. a \in Nat /\ a + (e - a) <= Size
    BY StringsAssumption DEF Terminates, Addresses
  <1>3. Text(m, a) \in Seq(Bytes)
    BY <1>1, <1>2, PartIsBytes
  <1>4. Shortened(Text(m, a), e - a) = SubSeq(Text(m, a), 1, Len(Text(m, a)))
    BY <1>1 DEF Shortened
  <1> QED  BY <1>3, <1>4, SubSeqFull

(* The calls that compare texts return the order of what counts of them. *)
LEMMA PartsCompare ==
  ASSUME NEW m \in Memory, NEW a \in Addresses, NEW b \in Addresses, NEW n \in Nat,
         NEW e, Terminates(m, a, e), NEW f, Terminates(m, b, f)
  PROVE  /\ strncmp(m, a, b, n) = Ordered(Shortened(Text(m, a), n), Shortened(Text(m, b), n))
         /\ strncasecmp(m, a, b, n) =
              Ordered(Lowered(Shortened(Text(m, a), n)), Lowered(Shortened(Text(m, b), n)))
  <1> DEFINE k == IF e - a < n THEN e - a ELSE n
             l == IF f - b < n THEN f - b ELSE n
             s == Shortened(Text(m, a), n)
             t == Shortened(Text(m, b), n)
             u == Lowered(s)
             v == Lowered(t)
  <1>1. k \in Nat /\ Shows(s, m, a, k, FALSE) /\ Shows(u, m, a, k, TRUE)
    BY TextShows
  <1>2. l \in Nat /\ Shows(t, m, b, l, FALSE) /\ Shows(v, m, b, l, TRUE)
    BY TextShows
  <1>3. TRUE \in BOOLEAN /\ FALSE \in BOOLEAN
    OBVIOUS
  <1>6. /\ Counts(k, l, e - a, f - b, n)
        /\ Terminates(m, a, e) /\ Terminates(m, b, f) /\ e \in Addresses /\ f \in Addresses
    BY DEF Counts, Terminates
  <1> HIDE DEF s, t, u, v, k, l
  <1>4. ShowTexts(m, a, b, n, FALSE, s, t) /\ ShowTexts(m, a, b, n, TRUE, u, v)
    BY <1>1, <1>2, <1>6 DEF ShowTexts
  <1>5. /\ Compared(m, a, b, n, TRUE, FALSE) = Ordered(s, t)
        /\ Compared(m, a, b, n, TRUE, TRUE) = Ordered(u, v)
    <2>1. ComparesAs(m, a, b, n, FALSE, s, t) /\ ComparesAs(m, a, b, n, TRUE, u, v)
      BY <1>3, <1>4, TextsCompare
    <2> QED  BY <2>1 DEF ComparesAs
  <1> QED  BY <1>5 DEF strncmp, strncasecmp, s, t, u, v

(* So do those without a limit. *)
LEMMA WholesCompare ==
  ASSUME NEW m \in Memory, NEW a \in Addresses, NEW b \in Addresses,
         NEW e, Terminates(m, a, e), NEW f, Terminates(m, b, f)
  PROVE  /\ strcmp(m, a, b) = Ordered(Text(m, a), Text(m, b))
         /\ strcasecmp(m, a, b) = Ordered(Lowered(Text(m, a)), Lowered(Text(m, b)))
  <1> DEFINE n == strlen(m, a) + 1
             k == e - a
             l == f - b
             s == Text(m, a)
             t == Text(m, b)
             u == Lowered(s)
             v == Lowered(t)
  <1>1. k \in Nat /\ l \in Nat
    BY TextIs
  <1>2. n = k + 1 /\ n \in Nat
    BY <1>1, StrlenIs
  <1>3. Shows(s, m, a, k, FALSE) /\ Shows(u, m, a, k, TRUE)
    <2>1. /\ Shows(Shortened(Text(m, a), k), m, a, k, FALSE)
          /\ Shows(Lowered(Shortened(Text(m, a), k)), m, a, k, TRUE)
      BY <1>1, TextShows
    <2> QED  BY <2>1, WholeText
  <1>4. Shows(t, m, b, l, FALSE) /\ Shows(v, m, b, l, TRUE)
    <2>1. /\ Shows(Shortened(Text(m, b), l), m, b, l, FALSE)
          /\ Shows(Lowered(Shortened(Text(m, b), l)), m, b, l, TRUE)
      BY <1>1, TextShows
    <2> QED  BY <2>1, WholeText
  <1>5. TRUE \in BOOLEAN /\ FALSE \in BOOLEAN
    OBVIOUS
  <1>6. /\ Counts(k, l, e - a, f - b, n)
        /\ Terminates(m, a, e) /\ Terminates(m, b, f) /\ e \in Addresses /\ f \in Addresses
    BY <1>1, <1>2 DEF Counts, Terminates
  <1> HIDE DEF s, t, u, v, n, k, l
  <1>7. ShowTexts(m, a, b, n, FALSE, s, t) /\ ShowTexts(m, a, b, n, TRUE, u, v)
    BY <1>1, <1>3, <1>4, <1>6 DEF ShowTexts
  <1>8. /\ Compared(m, a, b, n, TRUE, FALSE) = Ordered(s, t)
        /\ Compared(m, a, b, n, TRUE, TRUE) = Ordered(u, v)
    <2>1. ComparesAs(m, a, b, n, FALSE, s, t) /\ ComparesAs(m, a, b, n, TRUE, u, v)
      BY <1>2, <1>5, <1>7, TextsCompare
    <2> QED  BY <2>1 DEF ComparesAs
  <1> QED  BY <1>8 DEF strcmp, strcasecmp, strncmp, strncasecmp, s, t, u, v, n

-----------------------------------------------------------------------------
(* The calls that search.                                                  *)

(* A walk over the numbers up to k that ends at the first one that is in T, *)
(* and returns its V.                                                      *)
Scans(h, k, T, V) == h = [i \in 0 .. k |-> IF i \in T THEN V[i] ELSE h[i + 1]]

(* The first number of T from i on is e. *)
FirstIn(T, i, k, e) == e \in i .. k /\ e \in T /\ \A j \in i .. (e - 1) : j \notin T

(* A walk that is not over at i goes on at i + 1. *)
LEMMA FirstGoesOn ==
  ASSUME NEW T, NEW k \in Nat, NEW i \in 0 .. k, i \notin T, NEW y, y = i + 1, NEW e, FirstIn(T, y, k, e)
  PROVE  FirstIn(T, i, k, e)
  <1>1. \A j \in i .. (e - 1) : j = i \/ j \in y .. (e - 1)
    BY DEF FirstIn
  <1> QED  BY <1>1 DEF FirstIn

(* There is only one first number. *)
LEMMA OneFirst ==
  ASSUME NEW T, NEW k \in Nat, NEW i \in 0 .. k, NEW d, FirstIn(T, i, k, d), NEW e, FirstIn(T, i, k, e)
  PROVE  d = e
  <1>1. ~(d < e) /\ ~(e < d)
    BY DEF FirstIn
  <1> QED  BY <1>1 DEF FirstIn

(* There is such a walk, *)
LEMMA ScanExists ==
  ASSUME NEW k \in Nat, NEW T, k \in T, NEW V
  PROVE  \E h : Scans(h, k, T, V)
  <1> DEFINE E(i) == CHOOSE e : FirstIn(T, i, k, e)
             g == [i \in 0 .. k |-> V[E(i)]]
             R(h, i) == IF i \in T THEN V[i] ELSE h[i + 1]
  <1>1. ASSUME NEW i \in 0 .. k
        PROVE  FirstIn(T, i, k, E(i))
    <2>1. i \in Nat /\ \E e \in i .. k : e \in T
      OBVIOUS
    <2>2. PICK e \in i .. k : e \in T /\ \A j \in i .. (e - 1) : j \notin T
      BY <2>1, FirstNumber
    <2>3. FirstIn(T, i, k, e)
      BY <2>2 DEF FirstIn
    <2> QED  BY <2>3
  <1> HIDE DEF E
  <1>2. ASSUME NEW i \in 0 .. k
        PROVE  g[i] = R(g, i)
    <2>1. CASE i \in T
      <3>1. FirstIn(T, i, k, i)
        BY <2>1 DEF FirstIn
      <3>2. E(i) = i
        BY <1>1, <3>1, OneFirst
      <3> QED  BY <2>1, <3>2
    <2>2. CASE i \notin T
      <3> DEFINE y == i + 1
      <3>1. y \in 0 .. k
        BY <2>2
      <3> HIDE DEF y
      <3>2. FirstIn(T, y, k, E(y)) /\ g[y] = V[E(y)]
        BY <1>1, <3>1
      <3>3. FirstIn(T, i, k, E(y))
        BY <2>2, <3>2, FirstGoesOn DEF y
      <3>4. E(i) = E(y)
        BY <1>1, <3>3, OneFirst
      <3>5. g[i] = g[y]
        BY <3>2, <3>4
      <3> HIDE DEF g
      <3> QED  BY <2>2, <3>5 DEF y
    <2> QED  BY <2>1, <2>2
  <1>3. g = [i \in 0 .. k |-> R(g, i)]
    <2>1. g = [i \in 0 .. k |-> g[i]]
      OBVIOUS
    <2> HIDE DEF g, R
    <2> QED  BY <1>2, <2>1
  <1> HIDE DEF g
  <1> QED  BY <1>3 DEF Scans

(* and it returns what it says. *)
LEMMA ScanIs ==
  ASSUME NEW k \in Nat, NEW T, k \in T, NEW V, NEW h, Scans(h, k, T, V)
  PROVE  \A i \in 0 .. k : \E e : FirstIn(T, i, k, e) /\ h[i] = V[e]
  <1> DEFINE C == {i \in 0 .. k : \E e : FirstIn(T, i, k, e) /\ h[i] = V[e]}
  <1>1. ASSUME NEW i \in 0 .. k, i + 1 \in 0 .. k => i + 1 \in C
        PROVE  i \in C
    <2>1. CASE i \in T
      <3>1. FirstIn(T, i, k, i) /\ h[i] = V[i]
        BY <2>1 DEF FirstIn, Scans
      <3> QED  BY <3>1
    <2>2. CASE i \notin T
      <3> DEFINE y == i + 1
      <3>1. y \in 0 .. k /\ y \in C
        BY <1>1, <2>2
      <3>2. h[i] = h[y]
        BY <2>2 DEF Scans
      <3> HIDE DEF y
      <3>3. PICK e : FirstIn(T, y, k, e) /\ h[y] = V[e]
        BY <3>1
      <3>4. FirstIn(T, i, k, e)
        BY <2>2, <3>3, FirstGoesOn DEF y
      <3> QED  BY <3>2, <3>3, <3>4
    <2> QED  BY <2>1, <2>2
  <1>2. \A i \in 0 .. k : i \in C
    <2> HIDE DEF C
    <2> QED  BY <1>1, DownwardInduction
  <1> QED  BY <1>2

(* Where a sequence holds another one. *)
Places(s, what) ==
  {i \in 1 .. (Len(s) - Len(what) + 1) : SubSeq(s, i, i + Len(what) - 1) = what}

(* What is found is the first, or the last, of these places. *)
LEMMA FoundIs ==
  ASSUME NEW s, NEW a, NEW what, Places(s, what) \subseteq Int
  PROVE  /\ Places(s, what) = {} =>
              Found(s, a, what, Least) = NULL /\ Found(s, a, what, Greatest) = NULL
         /\ \A i \in Places(s, what) :
              /\ (\A j \in Places(s, what) : i <= j) => Found(s, a, what, Least) = a + i - 1
              /\ (\A j \in Places(s, what) : i >= j) => Found(s, a, what, Greatest) = a + i - 1
  <1> DEFINE P == Places(s, what)
  <1>1. /\ Found(s, a, what, Least) = IF P = {} THEN NULL ELSE a + Least(P) - 1
        /\ Found(s, a, what, Greatest) = IF P = {} THEN NULL ELSE a + Greatest(P) - 1
    BY DEF Found, Places
  <1> HIDE DEF P
  <1>2. ASSUME NEW i \in P, \A j \in P : i <= j
        PROVE  Least(P) = i
    <2>1. Least(P) \in P /\ \A j \in P : Least(P) <= j
      BY <1>2 DEF Least
    <2> QED  BY <1>2, <2>1 DEF P
  <1>3. ASSUME NEW i \in P, \A j \in P : i >= j
        PROVE  Greatest(P) = i
    <2>1. Greatest(P) \in P /\ \A j \in P : Greatest(P) >= j
      BY <1>3 DEF Greatest
    <2> QED  BY <1>3, <2>1 DEF P
  <1> QED  BY <1>1, <1>2, <1>3 DEF P

(* The places of a byte. *)
LEMMA BytePlaces ==
  ASSUME NEW s \in Seq(Bytes), NEW c
  PROVE  Places(s, <<c>>) = {i \in 1 .. Len(s) : s[i] = c}
  <1>1. Len(<<c>>) = 1 /\ Len(s) \in Nat
    BY LenProperties
  <1>2. ASSUME NEW i \in 1 .. Len(s)
        PROVE  SubSeq(s, i, i) = <<c>> <=> s[i] = c
    <2>1. SubSeq(s, i, i) = <<s[i]>>
      <3> DEFINE t == SubSeq(s, i, i)
      <3>1. i \in Int /\ \A j \in i .. i : s[j] \in Bytes
        BY ElementOfSeq, <1>1
      <3>2. t \in Seq(Bytes) /\ Len(t) = 1 /\ t[1] = s[i]
        <4>1. /\ t \in Seq(Bytes) /\ Len(t) = IF i <= i THEN i - i + 1 ELSE 0
              /\ \A j \in 1 .. (i - i + 1) : t[j] = s[i + j - 1]
          BY <3>1, SubSeqProperties
        <4> HIDE DEF t
        <4> QED  BY <4>1
      <3>3. <<s[i]>> \in Seq(Bytes) /\ Len(<<s[i]>>) = 1 /\ <<s[i]>>[1] = s[i]
        BY <3>1
      <3> HIDE DEF t
      <3>4. \A j \in 1 .. Len(t) : t[j] = <<s[i]>>[j]
        BY <3>2, <3>3
      <3>5. t = <<s[i]>>
        BY <3>2, <3>3, <3>4, SeqEqual
      <3> QED  BY <3>5 DEF t
    <2> QED  BY <2>1
  <1>3. Len(s) - Len(<<c>>) + 1 = Len(s) /\ \A i \in Nat : i + Len(<<c>>) - 1 = i
    BY <1>1
  <1> QED  BY <1>2, <1>3 DEF Places

(* memchr finds the first place of its byte. *)
LEMMA MemchrIs ==
  ASSUME NEW m \in Memory, NEW a \in Addresses, NEW value \in Bytes, NEW n \in Nat, Fits(a, n)
  PROVE  memchr(m, a, value, n) = Found(Part(m, a, n), a, <<value>>, Least)
  <1> DEFINE T == {i \in 0 .. n : i = n \/ m[a + i] = value}
             V == [i \in 0 .. n |-> IF i = n THEN NULL ELSE a + i]
             F(h) == h = [i \in 0 .. n |-> IF i = n THEN NULL
                                           ELSE IF m[a + i] = value % 256 THEN a + i ELSE h[i + 1]]
             f == CHOOSE h : F(h)
             s == Part(m, a, n)
             P == Places(s, <<value>>)
  <1>1. a \in Nat /\ a + n <= Size /\ value % 256 = value
    <2>1. value \in 0 .. 255
      BY StringsAssumption
    <2> QED  BY <2>1 DEF Addresses, Fits
  <1>2. \A h : F(h) <=> Scans(h, n, T, V)
    <2> TAKE h
    <2>1. \A i \in 0 .. n : (IF i = n THEN NULL ELSE IF m[a + i] = value % 256 THEN a + i ELSE h[i + 1])
                          = IF i \in T THEN V[i] ELSE h[i + 1]
      BY <1>1
    <2> HIDE DEF T, V
    <2> QED  BY <2>1 DEF Scans
  <1>3. n \in T
    OBVIOUS
  <1>4. F(f)
    <2>1. \E h : F(h)
      <3> HIDE DEF T, V, F
      <3> QED  BY <1>2, <1>3, ScanExists
    <2> HIDE DEF F
    <2> QED  BY <2>1
  <1>5. PICK e : FirstIn(T, 0, n, e) /\ f[0] = V[e]
    <2>1. Scans(f, n, T, V) /\ 0 \in 0 .. n
      <3> HIDE DEF F, f
      <3> QED  BY <1>2, <1>4
    <2> HIDE DEF T, V, f, F
    <2> QED  BY <1>3, <2>1, ScanIs
  <1>6. memchr(m, a, value, n) = f[0]
    BY DEF memchr
  <1> HIDE DEF f, F
  <1>7. /\ e \in 0 .. n /\ (e = n \/ m[a + e] = value)
        /\ \A j \in 0 .. (e - 1) : m[a + j] # value
        /\ f[0] = IF e = n THEN NULL ELSE a + e
    BY <1>5 DEF FirstIn
  <1>8. s \in Seq(Bytes) /\ Len(s) = n /\ \A i \in 1 .. n : s[i] = m[a + i - 1]
    BY <1>1, PartIs, PartIsBytes
  <1> HIDE DEF s
  <1>9. P = {i \in 1 .. n : s[i] = value}
    BY <1>8, BytePlaces
  <1>10. \A j \in P : j - 1 >= e /\ j \in 1 .. n
    <2> TAKE j \in P
    <2>1. j \in 1 .. n /\ j - 1 \in Nat /\ m[a + (j - 1)] = value
      <3>1. j \in 1 .. n /\ s[j] = value /\ a + j - 1 = a + (j - 1)
        BY <1>1, <1>9
      <3> QED  BY <1>8, <3>1
    <2> QED  BY <1>7, <2>1
  <1> HIDE DEF P
  <1>11. P \subseteq Int
    BY <1>10
  <1>12. CASE e = n
    <2>1. P = {}
      BY <1>10, <1>12
    <2> QED  BY <1>6, <1>7, <1>11, <1>12, <2>1, FoundIs DEF P, s
  <1>13. CASE e # n
    <2> DEFINE p == e + 1
    <2>1. p \in 1 .. n /\ a + p - 1 = a + e
      BY <1>1, <1>7, <1>13
    <2>2. \A j \in P : p <= j
      BY <1>7, <1>10
    <2> HIDE DEF p
    <2>3. s[p] = value
      BY <1>7, <1>8, <1>13, <2>1
    <2>4. p \in P
      BY <1>9, <2>1, <2>3
    <2>5. Found(s, a, <<value>>, Least) = a + p - 1
      BY <1>11, <2>2, <2>4, FoundIs DEF P
    <2> QED  BY <1>6, <1>7, <1>13, <2>1, <2>5 DEF s
  <1> QED  BY <1>12, <1>13

(* strchr finds the first place of its byte, which may be the zero. *)
LEMMA StrchrIs ==
  ASSUME NEW m \in Memory, NEW a \in Addresses, NEW value \in Bytes, NEW e, Terminates(m, a, e)
  PROVE  strchr(m, a, value) = Found(Text(m, a) \o <<0>>, a, <<value>>, Least)
  <1> DEFINE k == Size - 1
             n == e - a + 1
             T == {x \in Addresses : m[x] = value \/ Ends(m, x)}
             V == [x \in Addresses |-> IF m[x] = value THEN x ELSE NULL]
             F(h) == h = [x \in Addresses |-> IF m[x] = value THEN x
                                              ELSE IF Ends(m, x) THEN NULL ELSE h[x + 1]]
             f == CHOOSE h : F(h)
             s == Part(m, a, n)
             P == Places(s, <<value>>)
  <1>1. /\ Size \in Nat /\ k \in Nat /\ Addresses = 0 .. k /\ a \in Nat /\ e \in a .. k /\ n \in Nat
        /\ m[e] = 0 /\ a + n <= Size /\ a \in 0 .. k
        /\ \A i \in a .. (e - 1) : m[i] # 0 /\ i \in Addresses
    BY StringsAssumption DEF Terminates, Addresses
  <1>2. \A h : F(h) <=> Scans(h, k, T, V)
    <2> TAKE h
    <2>1. \A x \in Addresses : (IF m[x] = value THEN x ELSE IF Ends(m, x) THEN NULL ELSE h[x + 1])
                             = IF x \in T THEN V[x] ELSE h[x + 1]
      OBVIOUS
    <2> HIDE DEF T, V, k
    <2> QED  BY <1>1, <2>1 DEF Scans
  <1>3. k \in T
    BY <1>1 DEF Ends
  <1>4. F(f)
    <2>1. \E h : F(h)
      <3> HIDE DEF T, V, F, k
      <3> QED  BY <1>1, <1>2, <1>3, ScanExists
    <2> HIDE DEF F
    <2> QED  BY <2>1
  <1>5. PICK y : FirstIn(T, a, k, y) /\ f[a] = V[y]
    <2>1. Scans(f, k, T, V)
      <3> HIDE DEF F, f
      <3> QED  BY <1>2, <1>4
    <2> HIDE DEF T, V, f, F, k
    <2> QED  BY <1>1, <1>3, <2>1, ScanIs
  <1>6. strchr(m, a, value) = f[a]
    BY DEF strchr
  <1> HIDE DEF f, F
  <1>7. /\ y \in a .. k /\ (m[y] = value \/ Ends(m, y))
        /\ \A j \in a .. (y - 1) : m[j] # value /\ ~Ends(m, j)
        /\ f[a] = IF m[y] = value THEN y ELSE NULL
    <2>1. y \in a .. k /\ y \in T /\ \A j \in a .. (y - 1) : j \notin T
      BY <1>5 DEF FirstIn
    <2>2. \A j \in a .. (y - 1) : j \in Addresses
      BY <1>1, <2>1
    <2> QED  BY <1>1, <1>5, <2>1, <2>2
  <1>8. y <= e /\ (Ends(m, y) => y = e)
    <2>1. Ends(m, e) /\ ~(e < y)
      BY <1>1, <1>7 DEF Ends
    <2>2. Ends(m, y) => y >= k \/ m[y] = 0
      BY DEF Ends
    <2> QED  BY <1>1, <1>7, <2>1, <2>2
  <1>9. Text(m, a) \o <<0>> = s
    BY TextAndZero
  <1> HIDE DEF n
  <1>10. s \in Seq(Bytes) /\ Len(s) = n /\ \A i \in 1 .. n : s[i] = m[a + i - 1]
    <2>1. m \in Memory /\ a \in Nat /\ n \in Nat /\ a + n <= Size
      BY <1>1
    <2>2. Part(m, a, n) \in Seq(Bytes)
      BY <2>1, PartIsBytes
    <2>3. Len(s) = n /\ \A i \in 1 .. n : s[i] = m[a + i - 1]
      BY <2>1, PartIs
    <2> QED  BY <2>2, <2>3
  <1> HIDE DEF s
  <1>11. P = {i \in 1 .. n : s[i] = value}
    BY <1>10, BytePlaces
  <1>12. \A j \in P : j \in 1 .. n /\ m[a + j - 1] = value /\ a + j - 1 >= y
    <2> TAKE j \in P
    <2>1. j \in 1 .. n /\ m[a + j - 1] = value
      BY <1>10, <1>11
    <2>2. a + j - 1 >= a /\ a + j - 1 \in Int
      BY <1>1, <2>1
    <2> QED  BY <1>1, <1>7, <2>1, <2>2
  <1> HIDE DEF P
  <1>13. P \subseteq Int
    BY <1>12
  <1>14. CASE m[y] # value
    <2>1. y = e
      BY <1>7, <1>8, <1>14
    <2>2. \A j \in P : FALSE
      <3> TAKE j \in P
      <3>1. a + j - 1 = y
        BY <1>1, <1>12, <2>1 DEF n
      <3> QED  BY <1>12, <1>14, <3>1
    <2>3. P = {}
      BY <2>2
    <2> QED  BY <1>6, <1>7, <1>9, <1>13, <1>14, <2>3, FoundIs DEF P
  <1>15. CASE m[y] = value
    <2> DEFINE p == y - a + 1
    <2>1. p \in 1 .. n /\ a + p - 1 = y
      BY <1>1, <1>7, <1>8 DEF n
    <2>2. \A j \in P : p <= j
      BY <1>1, <1>7, <1>12
    <2> HIDE DEF p
    <2>3. s[p] = value
      BY <1>10, <1>15, <2>1
    <2>4. p \in P
      BY <1>11, <2>1, <2>3
    <2>5. Found(s, a, <<value>>, Least) = a + p - 1
      BY <1>13, <2>2, <2>4, FoundIs DEF P
    <2> QED  BY <1>6, <1>7, <1>9, <1>15, <2>1, <2>5
  <1> QED  BY <1>14, <1>15

(* A pass of the loop of strrchr, and the function that is its fold. *)
OneSeen(m, text, value, order, i, last) ==
  IF m[text + order[i]] = value THEN text + order[i] ELSE last

(* On sets of such passes. *)
Seeks(f, m, text, value, order, S) ==
  f = [s \in SUBSET S |->
         IF s = {} THEN NULL ELSE OneSeen(m, text, value, order, Max(s), f[s \ {Max(s)}])]

(* strrchr is that function, on all its passes. *)
LEMMA SeekIsFold ==
  ASSUME NEW m, NEW text, NEW value
  PROVE  strrchr(m, text, value) =
           (CHOOSE f : Seeks(f, m, text, value, Upward(strlen(m, text) + 1),
                             DOMAIN Upward(strlen(m, text) + 1)))
             [DOMAIN Upward(strlen(m, text) + 1)]
  BY DEF strrchr, FoldLeft, MapThenFoldSet, Seeks, OneSeen

(* The passes that see the byte, and the address that the last of them saw. *)
Hits(m, text, value, order, s) == {i \in s : m[text + order[i]] = value}

(* The address they return. *)
LastSeen(m, text, value, order, s) ==
  IF Hits(m, text, value, order, s) = {} THEN NULL
  ELSE text + order[Max(Hits(m, text, value, order, s))]

(* Some of n passes. *)
SomeOf(s, n) == s \in SUBSET (1 .. n) /\ s # {}

(* The last pass of a set sees the byte or leaves what the rest saw. *)
LEMMA SeenOneMore ==
  ASSUME NEW m, NEW n \in Nat, NEW text, NEW value, NEW order, NEW s, SomeOf(s, n)
  PROVE  LastSeen(m, text, value, order, s) =
           OneSeen(m, text, value, order, Max(s), LastSeen(m, text, value, order, s \ {Max(s)}))
  <1> DEFINE z == Max(s)
             h == Hits(m, text, value, order, s)
             g == Hits(m, text, value, order, s \ {z})
  <1>1. z \in s /\ (\A i \in s \ {z} : i < z) /\ s \in SUBSET (1 .. n)
    BY LastPass DEF SomeOf
  <1> HIDE DEF z
  <1>2. CASE m[text + order[z]] = value
    <2>1. z \in h /\ h # {} /\ h \in SUBSET (1 .. n) /\ \A i \in h : i = z \/ i < z
      BY <1>1, <1>2 DEF Hits
    <2>2. Max(h) \in h /\ \A i \in h \ {Max(h)} : i < Max(h)
      <3> HIDE DEF h
      <3> QED  BY <2>1, LastPass
    <2> DEFINE y == Max(h)
    <2> HIDE DEF h, y
    <2>3. y = z
      <3>1. y \in h /\ \A i \in h \ {y} : i < y
        BY <2>2 DEF y
      <3>2. y \in Int /\ z \in Int
        BY <2>1, <3>1
      <3>3. ~(y < z) /\ (y = z \/ y < z)
        BY <2>1, <3>1, <3>2
      <3> QED  BY <3>3
    <2>4. LastSeen(m, text, value, order, s) = text + order[z]
      BY <2>1, <2>3 DEF LastSeen, h, y
    <2> QED  BY <1>2, <2>4 DEF OneSeen, z
  <1>3. CASE m[text + order[z]] # value
    <2>1. h = g
      BY <1>3 DEF Hits
    <2>2. LastSeen(m, text, value, order, s) = LastSeen(m, text, value, order, s \ {z})
      BY <2>1 DEF LastSeen
    <2> QED  BY <1>3, <2>2 DEF OneSeen, z
  <1> QED  BY <1>2, <1>3

(* What the loop of strrchr returns. *)
LEMMA SoughtIs ==
  ASSUME NEW m, NEW text, NEW value, NEW n \in Nat, n = strlen(m, text) + 1
  PROVE  strrchr(m, text, value) = LastSeen(m, text, value, Upward(n), 1 .. n)
  <1> DEFINE S == 1 .. n
             order == Upward(n)
             F(f) == Seeks(f, m, text, value, order, S)
             g == [s \in SUBSET S |-> LastSeen(m, text, value, order, s)]
             f == CHOOSE h : F(h)
  <1>1. DOMAIN order = S
    BY DEF Upward
  <1> HIDE DEF order
  <1>2. F(g)
    <2>1. ASSUME NEW s \in SUBSET S
          PROVE  g[s] = IF s = {} THEN NULL
                        ELSE OneSeen(m, text, value, order, Max(s), g[s \ {Max(s)}])
      <3>1. CASE s = {}
        BY <3>1 DEF LastSeen, Hits
      <3>2. CASE s # {}
        <4>1. /\ g[s] = LastSeen(m, text, value, order, s)
              /\ g[s \ {Max(s)}] = LastSeen(m, text, value, order, s \ {Max(s)})
          OBVIOUS
        <4>2. LastSeen(m, text, value, order, s) =
                OneSeen(m, text, value, order, Max(s), LastSeen(m, text, value, order, s \ {Max(s)}))
          <5>1. SomeOf(s, n)
            BY <3>2 DEF SomeOf
          <5> QED  BY <5>1, SeenOneMore
        <4> HIDE DEF g
        <4> QED  BY <3>2, <4>1, <4>2, Zenon
      <3> QED  BY <3>1, <3>2
    <2> HIDE DEF S
    <2>2. g = [s \in SUBSET S |-> g[s]]
      OBVIOUS
    <2> HIDE DEF g
    <2> QED  BY <2>1, <2>2, Zenon DEF Seeks
  <1>3. F(f)
    BY <1>2
  <1> HIDE DEF f
  <1> DEFINE C == {s \in SUBSET S : f[s] = g[s]}
  <1>4. ASSUME NEW s \in SUBSET S, \A t \in SUBSET s : t # s => t \in C
        PROVE  s \in C
    <2>1. CASE s = {}
      BY <1>2, <1>3, <2>1 DEF Seeks
    <2>2. CASE s # {}
      <3>1. Max(s) \in s
        BY <1>1, <2>2, LastPass
      <3>2. f[s \ {Max(s)}] = g[s \ {Max(s)}]
        BY <1>4, <3>1
      <3> HIDE DEF g, S
      <3>3. /\ f[s] = OneSeen(m, text, value, order, Max(s), f[s \ {Max(s)}])
            /\ g[s] = OneSeen(m, text, value, order, Max(s), g[s \ {Max(s)}])
        BY <1>2, <1>3, <2>2, Zenon DEF Seeks
      <3> QED  BY <3>2, <3>3
    <2> QED  BY <2>1, <2>2
  <1>5. S \in C
    <2>1. IsFiniteSet(S)
      BY <1>1, FS_Interval
    <2> HIDE DEF C
    <2>2. \A s \in SUBSET S : s \in C
      <3> HIDE DEF S
      <3> QED  BY <1>4, <2>1, SubsetInduction
    <2> QED  BY <2>2
  <1>6. f[S] = LastSeen(m, text, value, order, S)
    BY <1>5 DEF C
  <1>7. strrchr(m, text, value) = f[S]
    BY <1>1, SeekIsFold DEF f, order
  <1> QED  BY <1>6, <1>7 DEF order

(* strrchr finds the last place of its byte. *)
LEMMA StrrchrIs ==
  ASSUME NEW m \in Memory, NEW a \in Addresses, NEW value \in Bytes, NEW e, Terminates(m, a, e)
  PROVE  strrchr(m, a, value) = Found(Text(m, a) \o <<0>>, a, <<value>>, Greatest)
  <1> DEFINE n == e - a + 1
             s == Part(m, a, n)
             P == Places(s, <<value>>)
             H == Hits(m, a, value, Upward(n), 1 .. n)
  <1>1. a \in Nat /\ n \in Nat /\ n = strlen(m, a) + 1 /\ a + n <= Size
    BY StringsAssumption, StrlenIs DEF Terminates, Addresses
  <1>2. Text(m, a) \o <<0>> = s
    BY TextAndZero
  <1> HIDE DEF n
  <1>3. s \in Seq(Bytes) /\ Len(s) = n /\ \A i \in 1 .. n : s[i] = m[a + i - 1]
    <2>1. Part(m, a, n) \in Seq(Bytes)
      BY <1>1, PartIsBytes
    <2>2. Len(s) = n /\ \A i \in 1 .. n : s[i] = m[a + i - 1]
      BY <1>1, PartIs
    <2> QED  BY <2>1, <2>2
  <1> HIDE DEF s
  <1>4. P = {i \in 1 .. n : s[i] = value}
    BY <1>3, BytePlaces
  <1> HIDE DEF P
  <1>5. H = P /\ \A i \in 1 .. n : a + Upward(n)[i] = a + i - 1
    <2>1. \A i \in 1 .. n : a + Upward(n)[i] = a + i - 1
      BY <1>1 DEF Upward
    <2>2. \A i \in 1 .. n : m[a + Upward(n)[i]] = s[i]
      BY <1>3, <2>1
    <2> QED  BY <1>4, <2>1, <2>2 DEF Hits
  <1>6. strrchr(m, a, value) = LastSeen(m, a, value, Upward(n), 1 .. n)
    BY <1>1, SoughtIs
  <1>7. P \subseteq Int /\ P \in SUBSET (1 .. n)
    BY <1>4
  <1>8. CASE P = {}
    <2>1. Found(s, a, <<value>>, Greatest) = NULL
      BY <1>7, <1>8, FoundIs DEF P
    <2>2. LastSeen(m, a, value, Upward(n), 1 .. n) = NULL
      BY <1>5, <1>8 DEF LastSeen
    <2> QED  BY <1>2, <1>6, <2>1, <2>2
  <1>9. CASE P # {}
    <2> DEFINE y == Max(P)
    <2>1. y \in P /\ \A i \in P \ {y} : i < y
      BY <1>1, <1>7, <1>9, LastPass
    <2>2. LastSeen(m, a, value, Upward(n), 1 .. n) = a + Upward(n)[y]
      BY <1>5, <1>9 DEF LastSeen
    <2> HIDE DEF y
    <2>3. y \in 1 .. n /\ \A i \in P : y >= i
      BY <1>7, <2>1
    <2>4. Found(s, a, <<value>>, Greatest) = a + y - 1
      BY <1>7, <2>1, <2>3, FoundIs DEF P
    <2> QED  BY <1>2, <1>5, <1>6, <2>2, <2>3, <2>4
  <1> QED  BY <1>8, <1>9

(* Where the needle at b and what lies at a part, or one of them ends. *)
Parting(m, a, b) ==
  LET at[i \in Addresses] ==
        IF Ends(m, a + i) \/ Ends(m, b + i) \/ m[a + i] # m[b + i] THEN i ELSE at[i + 1]
  IN at[0]

(* The outer loop of strstr, as a walk. *)
LEMMA StrstrIsScan ==
  ASSUME NEW m, NEW a, NEW b
  PROVE  strstr(m, a, b) =
           IF m[b] = 0 THEN a
           ELSE (CHOOSE h : h = [x \in Addresses |->
                                   IF Ends(m, x) THEN NULL
                                   ELSE IF m[b + Parting(m, x, b)] = 0 THEN x ELSE h[x + 1]])[a]
  BY DEF strstr, Parting

(* The distances from both at which it may stop. *)
Parts(m, a, b) == {i \in Addresses : Ends(m, a + i) \/ Ends(m, b + i) \/ m[a + i] # m[b + i]}

(* It stops at the first of them. *)
LEMMA PartingIs ==
  ASSUME NEW m, NEW a \in Nat, NEW b \in Nat
  PROVE  FirstIn(Parts(m, a, b), 0, Size - 1, Parting(m, a, b))
  <1> DEFINE k == Size - 1
             T == Parts(m, a, b)
             V == [i \in Addresses |-> i]
             F(h) == h = [i \in Addresses |->
                            IF Ends(m, a + i) \/ Ends(m, b + i) \/ m[a + i] # m[b + i] THEN i ELSE h[i + 1]]
             f == CHOOSE h : F(h)
  <1>1. k \in Nat /\ Addresses = 0 .. k /\ 0 \in 0 .. k
    BY StringsAssumption DEF Addresses
  <1>2. \A h : F(h) <=> Scans(h, k, T, V)
    <2> TAKE h
    <2>1. \A i \in Addresses :
            (IF Ends(m, a + i) \/ Ends(m, b + i) \/ m[a + i] # m[b + i] THEN i ELSE h[i + 1])
            = IF i \in T THEN V[i] ELSE h[i + 1]
      BY DEF Parts
    <2> HIDE DEF T, V, k
    <2> QED  BY <1>1, <2>1 DEF Scans
  <1>3. k \in T
    BY <1>1, StringsAssumption DEF Ends, Parts
  <1>4. F(f)
    <2>1. \E h : F(h)
      <3> HIDE DEF T, V, F, k
      <3> QED  BY <1>1, <1>2, <1>3, ScanExists
    <2> HIDE DEF F
    <2> QED  BY <2>1
  <1>5. PICK e : FirstIn(T, 0, k, e) /\ f[0] = V[e]
    <2>1. Scans(f, k, T, V)
      <3> HIDE DEF F, f
      <3> QED  BY <1>2, <1>4
    <2> HIDE DEF T, V, f, F, k
    <2> QED  BY <1>1, <1>3, <2>1, ScanIs
  <1>6. Parting(m, a, b) = f[0]
    BY DEF Parting
  <1> HIDE DEF f, F
  <1>7. e \in Addresses
    BY <1>1, <1>5 DEF FirstIn
  <1> QED  BY <1>5, <1>6, <1>7

(* n bytes of the memory at a and at b are the same. *)
Same(m, a, b, n) == \A i \in 0 .. (n - 1) : m[a + i] = m[b + i]

(* The inner loop of strstr reaches the end of the needle if the needle    *)
(* lies in the text.                                                       *)
LEMMA NeedleIsThere ==
  ASSUME NEW m, NEW a \in Addresses, NEW e, Terminates(m, a, e),
         NEW b \in Addresses, NEW f, Terminates(m, b, f)
  PROVE  m[b + Parting(m, a, b)] = 0 <=> a + (f - b) <= e /\ Same(m, a, b, f - b)
  <1> DEFINE k == Size - 1
             l == f - b
             y == Parting(m, a, b)
             T == Parts(m, a, b)
  <1>1. /\ k \in Nat /\ Addresses = 0 .. k /\ a \in Nat /\ b \in Nat
        /\ e \in a .. k /\ f \in b .. k /\ l \in 0 .. k /\ b + l = f /\ m[f] = 0 /\ m[e] = 0
        /\ \A i \in a .. (e - 1) : m[i] # 0
        /\ \A i \in b .. (f - 1) : m[i] # 0
    BY StringsAssumption DEF Terminates, Addresses
  <1>2. FirstIn(T, 0, k, y)
    BY <1>1, PartingIs
  <1> HIDE DEF y
  <1>3. /\ y \in 0 .. k /\ (Ends(m, a + y) \/ Ends(m, b + y) \/ m[a + y] # m[b + y])
        /\ \A j \in 0 .. (y - 1) : ~Ends(m, a + j) /\ ~Ends(m, b + j) /\ m[a + j] = m[b + j]
    <2>1. y \in 0 .. k /\ y \in T /\ \A j \in 0 .. (y - 1) : j \notin T
      BY <1>2 DEF FirstIn
    <2>2. \A j \in 0 .. (y - 1) : j \in Addresses
      BY <1>1, <2>1
    <2> QED  BY <2>1, <2>2 DEF Parts
  <1>4. \A x : Ends(m, x) <=> (x >= k \/ m[x] = 0)
    BY DEF Ends
  <1> DEFINE d == e - a
  <1>5. d \in Nat /\ a + d = e
    BY <1>1
  <1> HIDE DEF k, l, d, T
  <1>6. y <= l /\ y <= d
    <2>1. Ends(m, b + l) /\ Ends(m, a + d)
      BY <1>1, <1>4, <1>5
    <2>2. ~(l < y) /\ ~(d < y)
      BY <1>1, <1>3, <1>5, <2>1
    <2> QED  BY <1>1, <1>3, <1>5, <2>2
  <1>7. m[b + y] = 0 <=> y = l
    <2>1. ASSUME y # l PROVE m[b + y] # 0
      <3>1. b + y \in b .. (f - 1)
        BY <1>1, <1>3, <1>6, <2>1
      <3> QED  BY <1>1, <3>1
    <2> QED  BY <1>1, <2>1
  <1>8. ASSUME y = l PROVE a + l <= e /\ Same(m, a, b, l)
    BY <1>1, <1>3, <1>5, <1>6, <1>8 DEF Same
  <1>9. ASSUME a + l <= e, Same(m, a, b, l), y # l PROVE FALSE
    <2>1. y \in 0 .. (l - 1)
      BY <1>1, <1>3, <1>6, <1>9
    <2>2. m[a + y] = m[b + y]
      BY <1>9, <2>1 DEF Same
    <2>3. a + y \in a .. (e - 1) /\ b + y \in b .. (f - 1) /\ a + y < k /\ b + y < k
      BY <1>1, <1>9, <2>1
    <2>4. ~Ends(m, a + y) /\ ~Ends(m, b + y)
      <3>1. m[a + y] # 0 /\ m[b + y] # 0
        BY <1>1, <2>3
      <3>2. ~(a + y >= k) /\ ~(b + y >= k)
        BY <1>1, <2>1, <2>3
      <3> QED  BY <1>4, <3>1, <3>2
    <2> QED  BY <1>3, <2>2, <2>4
  <1> QED  BY <1>7, <1>8, <1>9 DEF l, y

(* Where a sequence holds another one, element by element. *)
LEMMA PlaceIs ==
  ASSUME NEW s \in Seq(Bytes), NEW t \in Seq(Bytes), NEW i \in 1 .. (Len(s) - Len(t) + 1)
  PROVE  i \in Places(s, t) <=> \A j \in 1 .. Len(t) : s[i + j - 1] = t[j]
  <1> DEFINE l == Len(t)
             k == i + l - 1
             u == SubSeq(s, i, k)
  <1>1. l \in Nat /\ Len(s) \in Nat /\ i \in Nat \ {0} /\ k <= Len(s) /\ k \in Int /\ i \in Int
    BY LenProperties
  <1>2. \A j \in i .. k : s[j] \in Bytes
    BY <1>1, ElementOfSeq
  <1>3. u \in Seq(Bytes) /\ Len(u) = l /\ \A j \in 1 .. l : u[j] = s[i + j - 1]
    <2>1. /\ u \in Seq(Bytes) /\ Len(u) = IF i <= k THEN k - i + 1 ELSE 0
          /\ \A j \in 1 .. (k - i + 1) : u[j] = s[i + j - 1]
      <3> HIDE DEF k
      <3> QED  BY <1>1, <1>2, SubSeqProperties
    <2> HIDE DEF u
    <2>2. k - i + 1 = l /\ (IF i <= k THEN k - i + 1 ELSE 0) = l
      BY <1>1
    <2> QED  BY <2>1, <2>2
  <1>4. i \in Places(s, t) <=> u = t
    BY DEF Places
  <1> HIDE DEF u
  <1>5. u = t <=> \A j \in 1 .. l : u[j] = t[j]
    BY <1>3, SeqEqual
  <1> QED  BY <1>3, <1>4, <1>5

(* A text at a holds the one at b where the needle is there. *)
LEMMA TextPlaces ==
  ASSUME NEW m \in Memory, NEW a \in Addresses, NEW e, Terminates(m, a, e),
         NEW b \in Addresses, NEW f, Terminates(m, b, f)
  PROVE  Places(Text(m, a), Text(m, b)) =
           {i \in 1 .. (e - a - (f - b) + 1) : Same(m, a + i - 1, b, f - b)}
  <1> DEFINE s == Text(m, a)
             t == Text(m, b)
             n == e - a
             l == f - b
  <1>1. /\ s = Part(m, a, n) /\ n \in Nat /\ Len(s) = n
        /\ \A i \in 1 .. n : s[i] = m[a + i - 1]
    BY TextIs
  <1>2. /\ t = Part(m, b, l) /\ l \in Nat /\ Len(t) = l
        /\ \A i \in 1 .. l : t[i] = m[b + i - 1]
    BY TextIs
  <1>3. a \in Nat /\ b \in Nat /\ a + n <= Size /\ b + l <= Size
    BY StringsAssumption DEF Terminates, Addresses
  <1> HIDE DEF s, t, n, l
  <1>4. s \in Seq(Bytes) /\ t \in Seq(Bytes)
    BY <1>1, <1>2, <1>3, PartIsBytes
  <1>5. ASSUME NEW i \in 1 .. (n - l + 1)
        PROVE  i \in Places(s, t) <=> Same(m, a + i - 1, b, l)
    <2>1. i \in Places(s, t) <=> \A j \in 1 .. l : s[i + j - 1] = t[j]
      <3>1. i \in 1 .. (Len(s) - Len(t) + 1)
        BY <1>1, <1>2
      <3>2. i \in Places(s, t) <=> \A j \in 1 .. Len(t) : s[i + j - 1] = t[j]
        BY <1>4, <3>1, PlaceIs
      <3> QED  BY <1>2, <3>2
    <2>2. ASSUME NEW j \in 1 .. l
          PROVE  (s[i + j - 1] = t[j]) <=> (m[a + i - 1 + (j - 1)] = m[b + (j - 1)])
      <3> DEFINE x == i + j - 1
      <3>1. x \in 1 .. n /\ a + x - 1 = a + i - 1 + (j - 1) /\ b + j - 1 = b + (j - 1)
        BY <1>1, <1>2, <1>3
      <3> HIDE DEF x
      <3>2. s[x] = m[a + x - 1] /\ t[j] = m[b + j - 1]
        BY <1>1, <1>2, <3>1
      <3> QED  BY <3>1, <3>2 DEF x
    <2>3. ASSUME \A j \in 1 .. l : m[a + i - 1 + (j - 1)] = m[b + (j - 1)]
          PROVE  Same(m, a + i - 1, b, l)
      <3> SUFFICES ASSUME NEW c \in 0 .. (l - 1) PROVE m[a + i - 1 + c] = m[b + c]
        BY DEF Same
      <3> DEFINE j == c + 1
      <3>1. j \in 1 .. l /\ j - 1 = c
        BY <1>2
      <3> HIDE DEF j
      <3>2. m[a + i - 1 + (j - 1)] = m[b + (j - 1)]
        BY <2>3, <3>1
      <3> QED  BY <3>1, <3>2
    <2>4. ASSUME Same(m, a + i - 1, b, l), NEW j \in 1 .. l
          PROVE  m[a + i - 1 + (j - 1)] = m[b + (j - 1)]
      <3>1. j - 1 \in 0 .. (l - 1)
        BY <1>2
      <3> QED  BY <2>4, <3>1 DEF Same
    <2> QED  BY <2>1, <2>2, <2>3, <2>4
  <1>6. \A i \in Places(s, t) : i \in 1 .. (n - l + 1)
    BY <1>1, <1>2 DEF Places
  <1> QED  BY <1>5, <1>6 DEF s, t, n, l

(* A text's end is that of the text that begins anywhere in it. *)
LEMMA TailTerminates ==
  ASSUME NEW m, NEW a \in Addresses, NEW e, Terminates(m, a, e), NEW x \in a .. e
  PROVE  x \in Addresses /\ Terminates(m, x, e)
  BY StringsAssumption DEF Terminates, Addresses

(* strstr finds the first place of its needle. *)
LEMMA StrstrIs ==
  ASSUME NEW m \in Memory, NEW a \in Addresses, NEW e, Terminates(m, a, e),
         NEW b \in Addresses, NEW d, Terminates(m, b, d)
  PROVE  strstr(m, a, b) = Found(Text(m, a), a, Text(m, b), Least)
  <1> DEFINE k == Size - 1
             l == d - b
             n == e - a
             s == Text(m, a)
             t == Text(m, b)
             P == Places(s, t)
             T == {x \in Addresses : Ends(m, x) \/ m[b + Parting(m, x, b)] = 0}
             V == [x \in Addresses |-> IF Ends(m, x) THEN NULL ELSE x]
             F(h) == h = [x \in Addresses |->
                            IF Ends(m, x) THEN NULL
                            ELSE IF m[b + Parting(m, x, b)] = 0 THEN x ELSE h[x + 1]]
             f == CHOOSE h : F(h)
  <1>1. /\ Size \in Nat /\ k \in Nat /\ Addresses = 0 .. k /\ a \in Nat /\ b \in Nat
        /\ a \in 0 .. k /\ e \in a .. k /\ d \in b .. k /\ m[e] = 0 /\ m[d] = 0
        /\ n \in Nat /\ l \in Nat /\ a + n = e /\ b + l = d
        /\ \A i \in a .. (e - 1) : m[i] # 0
        /\ \A i \in b .. (d - 1) : m[i] # 0
    BY StringsAssumption DEF Terminates, Addresses
  <1>2. P = {i \in 1 .. (n - l + 1) : Same(m, a + i - 1, b, l)}
    BY TextPlaces
  <1>3. strstr(m, a, b) = IF m[b] = 0 THEN a ELSE f[a]
    BY StrstrIsScan
  <1>4. \A h : F(h) <=> Scans(h, k, T, V)
    <2> TAKE h
    <2>1. \A x \in Addresses :
            (IF Ends(m, x) THEN NULL ELSE IF m[b + Parting(m, x, b)] = 0 THEN x ELSE h[x + 1])
            = IF x \in T THEN V[x] ELSE h[x + 1]
      OBVIOUS
    <2> HIDE DEF T, V, k
    <2> QED  BY <1>1, <2>1 DEF Scans
  <1>5. k \in T
    BY <1>1 DEF Ends
  <1>6. F(f)
    <2>1. \E h : F(h)
      <3> HIDE DEF T, V, F, k
      <3> QED  BY <1>1, <1>4, <1>5, ScanExists
    <2> HIDE DEF F
    <2> QED  BY <2>1
  <1>7. PICK y : FirstIn(T, a, k, y) /\ f[a] = V[y]
    <2>1. Scans(f, k, T, V)
      <3> HIDE DEF F, f
      <3> QED  BY <1>4, <1>6
    <2> HIDE DEF T, V, f, F, k
    <2> QED  BY <1>1, <1>5, <2>1, ScanIs
  <1> HIDE DEF f, F
  <1>8. \A x \in a .. e : (m[b + Parting(m, x, b)] = 0) <=> (x + l <= e /\ Same(m, x, b, l))
    <2> TAKE x \in a .. e
    <2>1. x \in Addresses /\ Terminates(m, x, e)
      BY TailTerminates
    <2> QED  BY <2>1, NeedleIsThere
  <1>9. /\ y \in a .. k /\ (Ends(m, y) \/ m[b + Parting(m, y, b)] = 0)
        /\ \A j \in a .. (y - 1) : ~Ends(m, j) /\ m[b + Parting(m, j, b)] # 0
        /\ f[a] = IF Ends(m, y) THEN NULL ELSE y
    <2>1. y \in a .. k /\ y \in T /\ \A j \in a .. (y - 1) : j \notin T
      BY <1>7 DEF FirstIn
    <2>2. \A j \in a .. (y - 1) : j \in Addresses
      BY <1>1, <2>1
    <2> QED  BY <1>1, <1>7, <2>1, <2>2
  <1> HIDE DEF T, V, P
  <1>10. y <= e /\ (Ends(m, y) <=> y = e)
    <2>1. Ends(m, e) /\ ~(e < y)
      BY <1>1, <1>9 DEF Ends
    <2>2. Ends(m, y) => y >= k \/ m[y] = 0
      BY DEF Ends
    <2> QED  BY <1>1, <1>9, <2>1, <2>2
  <1> HIDE DEF k, n, l, s, t
  <1>11. P \subseteq Int /\ \A j \in P : j \in 1 .. (n - l + 1)
    BY <1>2
  <1>12. CASE m[b] = 0
    <2>1. l = 0
      <3>1. ~(b < d)
        BY <1>1, <1>12
      <3> QED  BY <1>1, <3>1
    <2>2. 1 \in P /\ \A j \in P : 1 <= j
      <3>1. Same(m, a + 1 - 1, b, l)
        BY <2>1 DEF Same
      <3>2. 1 \in 1 .. (n - l + 1)
        BY <1>1, <2>1
      <3> QED  BY <1>2, <1>11, <3>1, <3>2
    <2>3. Found(s, a, t, Least) = a + 1 - 1
      BY <1>11, <2>2, FoundIs DEF P
    <2> QED  BY <1>1, <1>3, <1>12, <2>3 DEF s, t
  <1>13. CASE m[b] # 0
    <2>1. l >= 1
      BY <1>1, <1>13
    <2>2. ASSUME NEW j \in P
          PROVE  a + j - 1 >= y /\ a + j - 1 < e /\ j \in 1 .. (n - l + 1)
      <3> DEFINE x == a + j - 1
      <3>1. x \in a .. e /\ x + l <= e /\ Same(m, x, b, l) /\ x < e /\ j \in 1 .. (n - l + 1)
        BY <1>1, <1>2, <2>1
      <3> HIDE DEF x
      <3>2. m[b + Parting(m, x, b)] = 0
        BY <1>8, <3>1
      <3>3. x >= y
        BY <1>1, <1>9, <3>1, <3>2
      <3> QED  BY <3>1, <3>3 DEF x
    <2>3. CASE y = e
      <3>1. P = {}
        BY <1>1, <2>2, <2>3
      <3> QED  BY <1>3, <1>9, <1>10, <1>11, <1>13, <2>3, <3>1, FoundIs DEF P, s, t
    <2>4. CASE y # e
      <3> DEFINE p == y - a + 1
      <3>1. y \in a .. e /\ y + l <= e /\ Same(m, y, b, l)
        <4>1. y \in a .. e /\ m[b + Parting(m, y, b)] = 0
          BY <1>1, <1>9, <1>10, <2>4
        <4> QED  BY <1>8, <4>1
      <3>2. p \in 1 .. (n - l + 1) /\ a + p - 1 = y
        BY <1>1, <3>1
      <3>3. \A j \in P : p <= j
        BY <1>1, <2>2, <3>1
      <3> HIDE DEF p
      <3>4. p \in P
        BY <1>2, <3>1, <3>2
      <3>5. Found(s, a, t, Least) = a + p - 1
        BY <1>11, <3>3, <3>4, FoundIs DEF P
      <3> QED  BY <1>3, <1>9, <1>10, <1>13, <2>4, <3>2, <3>5 DEF s, t
    <2> QED  BY <2>3, <2>4
  <1> QED  BY <1>12, <1>13

-----------------------------------------------------------------------------
(* The invariant, step by step.                                            *)

(* The calls that write, and those that only read. *)
Writers == {"memmove", "memcpy", "memset", "strcpy", "strcat", "strncpy"}

Readers == {"strlen", "strcmp", "strncmp", "strcasecmp", "strncasecmp", "memcmp", "memchr",
            "strchr", "strrchr", "strstr"}

(* What a call is to write, and to return. *)
ToWrite(op, m, a, b, n) ==
  CASE op \in {"memmove", "memcpy"} -> Part(m, b, n)
    [] op = "memset" -> [i \in 1 .. n |-> b]
    [] op = "strcpy" -> Text(m, b) \o <<0>>
    [] op = "strcat" -> Text(m, a) \o Text(m, b) \o <<0>>
    [] op = "strncpy" -> Padded(Text(m, b), n)

(* What a call is to return. *)
ToReturn(op, m, a, b, n) ==
  CASE op = "strlen" -> Len(Text(m, a))
    [] op = "strcmp" -> Ordered(Text(m, a), Text(m, b))
    [] op = "strncmp" -> Ordered(Shortened(Text(m, a), n), Shortened(Text(m, b), n))
    [] op = "strcasecmp" -> Ordered(Lowered(Text(m, a)), Lowered(Text(m, b)))
    [] op = "strncasecmp" ->
         Ordered(Lowered(Shortened(Text(m, a), n)), Lowered(Shortened(Text(m, b), n)))
    [] op = "memcmp" -> Ordered(Part(m, a, n), Part(m, b, n))
    [] op = "memchr" -> Found(Part(m, a, n), a, <<b>>, Least)
    [] op = "strchr" -> Found(Text(m, a) \o <<0>>, a, <<b>>, Least)
    [] op = "strrchr" -> Found(Text(m, a) \o <<0>>, a, <<b>>, Greatest)
    [] op = "strstr" -> Found(Text(m, a), a, Text(m, b), Least)

(* A call that writes that is exact. *)
LEMMA ChangesExact ==
  ASSUME NEW op \in Writers, NEW a, NEW b, NEW n, NEW after, Changes(op, a, b, n, after),
         after = Written(memory, a, ToWrite(op, memory, a, b, n))
  PROVE  CallsExact'
  <1> DEFINE m == memory
             W(text) == memory' = [x \in Addresses |-> IF x \in a .. (a + Len(text) - 1)
                                                       THEN text[x - a + 1] ELSE m[x]]
  <1>1. /\ call'.op = op /\ call'.a = a /\ call'.b = b /\ call'.n = n /\ call'.before = m
        /\ memory' = Written(m, a, ToWrite(op, m, a, b, n))
    BY DEF Changes
  <1>2. \A text : memory' = Written(m, a, text) => W(text)
    BY DEF Written
  <1>3. /\ op \in {"memmove", "memcpy"} => W(Part(m, b, n))
        /\ op = "memset" => W([i \in 1 .. n |-> b])
        /\ op = "strcpy" => W(Text(m, b) \o <<0>>)
        /\ op = "strcat" => W(Text(m, a) \o Text(m, b) \o <<0>>)
        /\ op = "strncpy" => W(Padded(Text(m, b), n))
    <2> HIDE DEF W
    <2> QED  BY <1>1, <1>2 DEF ToWrite
  <1>4. CASE op = "memmove"
    BY <1>1, <1>3, <1>4 DEF CallsExact, IsExact
  <1>5. CASE op = "memcpy"
    BY <1>1, <1>3, <1>5 DEF CallsExact, IsExact
  <1>6. CASE op = "memset"
    <2> DEFINE text == [i \in 1 .. n |-> b]
    <2>1. text = [i \in 1 .. call'.n |-> call'.b]
      BY <1>1
    <2>2. W(text)
      BY <1>3, <1>6
    <2> HIDE DEF text
    <2>3. memory' = [x \in Addresses |-> IF x \in call'.a .. (call'.a + Len(text) - 1)
                                         THEN text[x - call'.a + 1] ELSE call'.before[x]]
      BY <1>1, <2>2
    <2> QED  BY <1>1, <1>6, <2>1, <2>3 DEF CallsExact, IsExact
  <1>7. CASE op = "strcpy"
    BY <1>1, <1>3, <1>7 DEF CallsExact, IsExact
  <1>8. CASE op = "strcat"
    BY <1>1, <1>3, <1>8 DEF CallsExact, IsExact
  <1>9. CASE op = "strncpy"
    BY <1>1, <1>3, <1>9 DEF CallsExact, IsExact
  <1> QED  BY <1>4, <1>5, <1>6, <1>7, <1>8, <1>9 DEF Writers

(* A call that returns that, and writes nothing, is exact. *)
LEMMA AnswersExact ==
  ASSUME NEW op \in Readers, NEW a, NEW b, NEW n, NEW result, Answers(op, a, b, n, result),
         result = ToReturn(op, memory, a, b, n)
  PROVE  CallsExact'
  <1> DEFINE m == memory
  <1>1. /\ call'.op = op /\ call'.a = a /\ call'.b = b /\ call'.n = n /\ call'.before = m
        /\ call'.result = ToReturn(op, m, a, b, n) /\ memory' = m
    BY DEF Answers
  <1>2. op \notin Writers
    BY DEF Writers, Readers
  <1> QED  BY <1>1, <1>2 DEF CallsExact, IsExact, Writers, ToReturn

(* memmove and memcpy. *)
LEMMA ExactCopy ==
  ASSUME memory \in Memory, NEW a \in Addresses, NEW b \in Addresses, NEW n \in Nat, Copy(a, b, n)
  PROVE  memory' \in Memory /\ CallsExact'
  <1> DEFINE text == Part(memory, b, n)
  <1>1. a \in Nat /\ b \in Nat /\ a + n <= Size /\ b + n <= Size
    BY DEF Addresses, Copy, Fits
  <1>2. text \in Seq(Bytes) /\ Written(memory, a, text) \in Memory
    BY <1>1, PartIsBytes, WrittenIsMemory
  <1> HIDE DEF text
  <1>3. CASE Changes("memmove", a, b, n, memmove(memory, a, b, n))
    <2>1. memmove(memory, a, b, n) = Written(memory, a, text)
      BY <1>1, MemmoveIs DEF text
    <2>2. text = ToWrite("memmove", memory, a, b, n) /\ "memmove" \in Writers
      BY DEF ToWrite, Writers, text
    <2>3. CallsExact'
      BY <1>3, <2>1, <2>2, ChangesExact
    <2> QED  BY <1>2, <1>3, <2>1, <2>3 DEF Changes
  <1>4. CASE Apart(a, n, b, n) /\ Changes("memcpy", a, b, n, memcpy(memory, a, b, n))
    <2>1. memcpy(memory, a, b, n) = Written(memory, a, text)
      BY <1>1, <1>4, CopyUpward DEF memcpy, text
    <2>2. text = ToWrite("memcpy", memory, a, b, n) /\ "memcpy" \in Writers
      BY DEF ToWrite, Writers, text
    <2>3. CallsExact'
      BY <1>4, <2>1, <2>2, ChangesExact
    <2> QED  BY <1>2, <1>4, <2>1, <2>3 DEF Changes
  <1> QED  BY <1>3, <1>4 DEF Copy

(* memset. *)
LEMMA ExactFill ==
  ASSUME memory \in Memory, NEW a \in Addresses, NEW value \in Bytes, NEW n \in Nat, Fill(a, value, n)
  PROVE  memory' \in Memory /\ CallsExact'
  <1> DEFINE text == [i \in 1 .. n |-> value]
             after == memset(memory, a, value, n)
  <1>1. a \in Nat /\ a + n <= Size /\ value \in 0 .. 255 /\ Changes("memset", a, value, n, after)
    BY StringsAssumption DEF Addresses, Fill, Fits
  <1>2. text \in Seq(Bytes) /\ Written(memory, a, text) \in Memory
    <2>1. text \in Seq(Bytes)
      OBVIOUS
    <2> HIDE DEF text
    <2> QED  BY <1>1, <2>1, WrittenIsMemory
  <1>3. after = Written(memory, a, text)
    BY <1>1, MemsetIs
  <1>4. text = ToWrite("memset", memory, a, value, n) /\ "memset" \in Writers
    BY DEF ToWrite, Writers
  <1> HIDE DEF text, after
  <1>5. CallsExact'
    BY <1>1, <1>3, <1>4, ChangesExact
  <1> QED  BY <1>1, <1>2, <1>3, <1>5 DEF Changes

(* A text is a sequence of bytes, with its zero too. *)
LEMMA TextIsBytes ==
  ASSUME NEW m \in Memory, NEW a \in Addresses, NEW e, Terminates(m, a, e)
  PROVE  Text(m, a) \in Seq(Bytes) /\ Text(m, a) \o <<0>> \in Seq(Bytes)
  <1>1. a \in Nat /\ e - a \in Nat /\ a + (e - a) <= Size /\ Text(m, a) = Part(m, a, e - a)
    BY StringsAssumption, TextIs DEF Terminates, Addresses
  <1>2. Text(m, a) \in Seq(Bytes)
    BY <1>1, PartIsBytes
  <1>3. <<0>> \in Seq(Bytes)
    BY StringsAssumption
  <1> QED  BY <1>2, <1>3, ConcatProperties

(* strcpy and strcat. *)
LEMMA ExactCopyText ==
  ASSUME memory \in Memory, NEW a \in Addresses, NEW b \in Addresses, CopyText(a, b)
  PROVE  memory' \in Memory /\ CallsExact'
  <1> DEFINE m == memory
  <1>1. PICK e : Terminates(m, b, e)
    BY TextTerminates DEF CopyText
  <1>2. strlen(m, b) + 1 = e - b + 1 /\ a \in Nat
    BY <1>1, StrlenIs DEF Addresses
  <1>3. Text(m, b) \in Seq(Bytes) /\ Text(m, b) \o <<0>> \in Seq(Bytes)
    BY <1>1, TextIsBytes
  <1>4. CASE /\ Fits(a, e - b + 1) /\ Apart(a, e - b + 1, b, e - b + 1)
             /\ Changes("strcpy", a, b, 0, strcpy(m, a, b))
    <2> DEFINE text == Text(m, b) \o <<0>>
               after == strcpy(m, a, b)
    <2>1. after = Written(m, a, text)
      BY <1>1, <1>4, StrcpyIs
    <2>2. text = ToWrite("strcpy", m, a, b, 0) /\ "strcpy" \in Writers
      BY DEF ToWrite, Writers
    <2>3. Changes("strcpy", a, b, 0, after)
      BY <1>4
    <2> HIDE DEF text, after
    <2>4. CallsExact'
      BY <2>1, <2>2, <2>3, ChangesExact
    <2>5. Written(m, a, text) \in Memory
      BY <1>2, <1>3, WrittenIsMemory DEF text
    <2> QED  BY <2>1, <2>3, <2>4, <2>5 DEF Changes
  <1>5. CASE /\ IsString(m, a)
             /\ Fits(a, strlen(m, a) + (e - b + 1))
             /\ Apart(a, strlen(m, a) + (e - b + 1), b, e - b + 1)
             /\ Changes("strcat", a, b, 0, strcat(m, a, b))
    <2> DEFINE text == Text(m, a) \o Text(m, b) \o <<0>>
               after == strcat(m, a, b)
               tail == Text(m, b) \o <<0>>
    <2>1. PICK c : Terminates(m, a, c)
      BY <1>5, TextTerminates
    <2>2. strlen(m, a) = c - a /\ c \in Nat
      BY <2>1, StrlenIs, StringsAssumption DEF Terminates, Addresses
    <2>3. after = Written(m, c, tail) /\ after = Written(m, a, text)
      <3>1. Fits(a, c - a + (e - b + 1)) /\ Apart(a, c - a + (e - b + 1), b, e - b + 1)
        BY <1>5, <2>2
      <3> QED  BY <1>1, <2>1, <3>1, StrcatIs
    <2>4. text = ToWrite("strcat", m, a, b, 0) /\ "strcat" \in Writers
      BY DEF ToWrite, Writers
    <2>5. Changes("strcat", a, b, 0, after)
      BY <1>5
    <2> HIDE DEF text, after
    <2>6. CallsExact'
      BY <2>3, <2>4, <2>5, ChangesExact
    <2>7. Written(m, c, tail) \in Memory
      BY <1>3, <2>2, WrittenIsMemory
    <2> QED  BY <2>3, <2>5, <2>6, <2>7 DEF Changes
  <1> QED  BY <1>2, <1>4, <1>5 DEF CopyText

(* strncpy. *)
LEMMA ExactCopyPart ==
  ASSUME memory \in Memory, NEW a \in Addresses, NEW b \in Addresses, NEW n \in Nat, CopyPart(a, b, n)
  PROVE  memory' \in Memory /\ CallsExact'
  <1> DEFINE m == memory
             text == Padded(Text(m, b), n)
             after == strncpy(m, a, b, n)
  <1>1. PICK e : Terminates(m, b, e)
    BY TextTerminates DEF CopyPart
  <1>2. /\ Fits(a, n) /\ Apart(a, n, b, e - b + 1) /\ a \in Nat
        /\ Changes("strncpy", a, b, n, after)
    BY <1>1, StrlenIs DEF CopyPart, Addresses
  <1>3. after = Written(m, a, text) /\ text \in Seq(Bytes)
    BY <1>1, <1>2, StrncpyIs
  <1>4. text = ToWrite("strncpy", m, a, b, n) /\ "strncpy" \in Writers
    BY DEF ToWrite, Writers
  <1> HIDE DEF text, after
  <1>5. CallsExact'
    BY <1>2, <1>3, <1>4, ChangesExact
  <1>6. Written(m, a, text) \in Memory
    BY <1>2, <1>3, WrittenIsMemory
  <1> QED  BY <1>2, <1>3, <1>5, <1>6 DEF Changes

(* strlen, strstr, strcmp and strcasecmp. *)
LEMMA ExactSearch ==
  ASSUME memory \in Memory, NEW a \in Addresses, NEW b \in Addresses, Search(a, b)
  PROVE  memory' \in Memory /\ CallsExact'
  <1> DEFINE m == memory
  <1>1. PICK e : Terminates(m, a, e)
    BY TextTerminates DEF Search
  <1>2. memory' = memory
    BY DEF Search, Answers
  <1>3. CASE Answers("strlen", a, b, 0, strlen(m, a))
    <2>1. strlen(m, a) = ToReturn("strlen", m, a, b, 0) /\ "strlen" \in Readers
      BY <1>1, StrlenIs, TextIs DEF ToReturn, Readers
    <2> QED  BY <1>2, <1>3, <2>1, AnswersExact
  <1>4. CASE IsString(m, b) /\ Answers("strstr", a, b, 0, strstr(m, a, b))
    <2>1. PICK f : Terminates(m, b, f)
      BY <1>4, TextTerminates
    <2>2. strstr(m, a, b) = ToReturn("strstr", m, a, b, 0) /\ "strstr" \in Readers
      BY <1>1, <2>1, StrstrIs DEF ToReturn, Readers
    <2> QED  BY <1>2, <1>4, <2>2, AnswersExact
  <1>5. CASE IsString(m, b) /\ Answers("strcmp", a, b, 0, strcmp(m, a, b))
    <2>1. PICK f : Terminates(m, b, f)
      BY <1>5, TextTerminates
    <2>2. strcmp(m, a, b) = ToReturn("strcmp", m, a, b, 0) /\ "strcmp" \in Readers
      BY <1>1, <2>1, WholesCompare DEF ToReturn, Readers
    <2> QED  BY <1>2, <1>5, <2>2, AnswersExact
  <1>6. CASE IsString(m, b) /\ Answers("strcasecmp", a, b, 0, strcasecmp(m, a, b))
    <2>1. PICK f : Terminates(m, b, f)
      BY <1>6, TextTerminates
    <2>2. strcasecmp(m, a, b) = ToReturn("strcasecmp", m, a, b, 0) /\ "strcasecmp" \in Readers
      BY <1>1, <2>1, WholesCompare DEF ToReturn, Readers
    <2> QED  BY <1>2, <1>6, <2>2, AnswersExact
  <1> QED  BY <1>3, <1>4, <1>5, <1>6 DEF Search

(* strchr and strrchr. *)
LEMMA ExactSearchByte ==
  ASSUME memory \in Memory, NEW a \in Addresses, NEW value \in Bytes, SearchByte(a, value)
  PROVE  memory' \in Memory /\ CallsExact'
  <1> DEFINE m == memory
  <1>1. PICK e : Terminates(m, a, e)
    BY TextTerminates DEF SearchByte
  <1>2. memory' = memory
    BY DEF SearchByte, Answers
  <1>3. CASE Answers("strchr", a, value, 0, strchr(m, a, value))
    <2>1. strchr(m, a, value) = ToReturn("strchr", m, a, value, 0) /\ "strchr" \in Readers
      BY <1>1, StrchrIs DEF ToReturn, Readers
    <2> QED  BY <1>2, <1>3, <2>1, AnswersExact
  <1>4. CASE Answers("strrchr", a, value, 0, strrchr(m, a, value))
    <2>1. strrchr(m, a, value) = ToReturn("strrchr", m, a, value, 0) /\ "strrchr" \in Readers
      BY <1>1, StrrchrIs DEF ToReturn, Readers
    <2> QED  BY <1>2, <1>4, <2>1, AnswersExact
  <1> QED  BY <1>3, <1>4 DEF SearchByte

(* memcmp, strncmp and strncasecmp. *)
LEMMA ExactSearchPart ==
  ASSUME memory \in Memory, NEW a \in Addresses, NEW b \in Addresses, NEW n \in Nat,
         SearchPart(a, b, n)
  PROVE  memory' \in Memory /\ CallsExact'
  <1> DEFINE m == memory
  <1>1. memory' = memory
    BY DEF SearchPart, Answers
  <1>2. CASE Fits(a, n) /\ Fits(b, n) /\ Answers("memcmp", a, b, n, memcmp(m, a, b, n))
    <2>1. memcmp(m, a, b, n) = ToReturn("memcmp", m, a, b, n) /\ "memcmp" \in Readers
      BY <1>2, AreasCompare DEF ToReturn, Readers
    <2> QED  BY <1>1, <1>2, <2>1, AnswersExact
  <1>3. CASE /\ IsString(m, a) /\ IsString(m, b)
             /\ \/ Answers("strncmp", a, b, n, strncmp(m, a, b, n))
                \/ Answers("strncasecmp", a, b, n, strncasecmp(m, a, b, n))
    <2>1. PICK e : Terminates(m, a, e)
      BY <1>3, TextTerminates
    <2>2. PICK f : Terminates(m, b, f)
      BY <1>3, TextTerminates
    <2>3. /\ strncmp(m, a, b, n) = ToReturn("strncmp", m, a, b, n) /\ "strncmp" \in Readers
          /\ strncasecmp(m, a, b, n) = ToReturn("strncasecmp", m, a, b, n)
          /\ "strncasecmp" \in Readers
      BY <2>1, <2>2, PartsCompare DEF ToReturn, Readers
    <2> QED  BY <1>1, <1>3, <2>3, AnswersExact
  <1> QED  BY <1>2, <1>3 DEF SearchPart

(* memchr. *)
LEMMA ExactSearchBytes ==
  ASSUME memory \in Memory, NEW a \in Addresses, NEW value \in Bytes, NEW n \in Nat,
         SearchBytes(a, value, n)
  PROVE  memory' \in Memory /\ CallsExact'
  <1>1. memchr(memory, a, value, n) = ToReturn("memchr", memory, a, value, n) /\ "memchr" \in Readers
    BY MemchrIs DEF SearchBytes, ToReturn, Readers
  <1>2. Answers("memchr", a, value, n, memchr(memory, a, value, n)) /\ memory' = memory
    BY DEF SearchBytes, Answers
  <1> QED  BY <1>1, <1>2, AnswersExact

(* A call that is forgotten need not be exact. *)
LEMMA NoCallIsExact == ASSUME call' = NoCall PROVE CallsExact'
  BY DEF NoCall, CallsExact, IsExact

(* The memory, where there is one, is of bytes, and the last call, if it   *)
(* is not forgotten, was exact.                                            *)
StringsInv == (memory # <<>> => memory \in Memory) /\ CallsExact

(* The invariant holds at first. *)
LEMMA InitExact == InitLibc => StringsInv
  <1>1. InitLibc => call = NoCall /\ (memory # <<>> => memory \in Memory)
    BY DEF InitLibc, InitStrings, Memory
  <1>2. call = NoCall => CallsExact
    BY DEF NoCall, CallsExact, IsExact
  <1> QED  BY <1>1, <1>2 DEF StringsInv

(* Every step keeps it. *)
LEMMA StepExact == StringsInv /\ [NextLibc]_libc => StringsInv'
  <1> SUFFICES ASSUME StringsInv, [NextLibc]_libc PROVE StringsInv'
    OBVIOUS
  <1>1. CASE UNCHANGED strings
    <2>1. memory' = memory /\ call' = call
      BY <1>1 DEF strings
    <2>2. CallsExact => CallsExact'
      BY <2>1 DEF CallsExact
    <2> QED  BY <2>1, <2>2 DEF StringsInv
  <1>2. CASE memory # <<>> /\ NextStrings
    <2> USE <1>2
    <2>1. memory \in Memory
      BY DEF StringsInv
    <2>2. CASE Forget
      BY <2>1, <2>2, NoCallIsExact DEF Forget, StringsInv
    <2>3. CASE \E a, b \in Addresses : CopyText(a, b) \/ Search(a, b)
      BY <2>1, <2>3, ExactCopyText, ExactSearch DEF StringsInv
    <2>4. CASE \E a, b \in Addresses : \E n \in 0 .. Size :
                 Copy(a, b, n) \/ CopyPart(a, b, n) \/ SearchPart(a, b, n)
      <3> PICK a, b \in Addresses, n \in 0 .. Size :
            Copy(a, b, n) \/ CopyPart(a, b, n) \/ SearchPart(a, b, n)
        BY <2>4
      <3>1. n \in Nat
        OBVIOUS
      <3> QED  BY <2>1, <3>1, ExactCopy, ExactCopyPart, ExactSearchPart DEF StringsInv
    <2>5. CASE \E a \in Addresses, value \in Bytes : SearchByte(a, value)
      BY <2>1, <2>5, ExactSearchByte DEF StringsInv
    <2>6. CASE \E a \in Addresses, value \in Bytes : \E n \in 0 .. Size :
                 Fill(a, value, n) \/ SearchBytes(a, value, n)
      <3> PICK a \in Addresses, value \in Bytes, n \in 0 .. Size :
            Fill(a, value, n) \/ SearchBytes(a, value, n)
        BY <2>6
      <3>1. n \in Nat
        OBVIOUS
      <3> QED  BY <2>1, <3>1, ExactFill, ExactSearchBytes DEF StringsInv
    <2> QED  BY <2>2, <2>3, <2>4, <2>5, <2>6 DEF NextStrings, CallSomething
  <1> QED  BY <1>1, <1>2 DEF NextLibc, libc

(* CallsExact: whatever the memory, each of the memory and string calls    *)
(* writes what its name says and nothing else, or returns the order or the *)
(* place that the C standard names, although each of them goes byte by     *)
(* byte through the memory that it writes.                                 *)
THEOREM CallsAreExact == LibcSpec => []CallsExact
  <1>1. InitLibc => StringsInv
    BY InitExact
  <1>2. StringsInv /\ [NextLibc]_libc => StringsInv'
    BY StepExact
  <1>3. StringsInv => CallsExact
    BY DEF StringsInv
  <1> QED  BY <1>1, <1>2, <1>3, PTL DEF LibcSpec

-----------------------------------------------------------------------------
(* Part two: vsnprintf.                                                    *)

-----------------------------------------------------------------------------
(* Sequences of whatever elements.                                         *)

(* A sequence, of elements of some set. *)
IsSequence(s) == \E S : s \in Seq(S)

(* They have a length, and are functions on the positions up to it. *)
LEMMA SequenceIs ==
  ASSUME NEW s, IsSequence(s)
  PROVE  /\ Len(s) \in Nat /\ DOMAIN s = 1 .. Len(s)
         /\ s # <<>> <=> Len(s) # 0
  BY LenProperties, EmptySeq DEF IsSequence

(* No element, and one element. *)
LEMMA ShortSequences ==
  /\ IsSequence(<<>>) /\ Len(<<>>) = 0
  /\ \A c : IsSequence(<<c>>) /\ Len(<<c>>) = 1 /\ <<c>>[1] = c
  <1>1. \A c : <<c>> \in Seq({c}) /\ Len(<<c>>) = 1 /\ <<c>>[1] = c
    OBVIOUS
  <1> QED  BY <1>1, EmptySeq DEF IsSequence

(* One after the other. *)
LEMMA JoinedSequences ==
  ASSUME NEW s, NEW t, IsSequence(s), IsSequence(t)
  PROVE  /\ IsSequence(s \o t)
         /\ Len(s \o t) = Len(s) + Len(t)
         /\ \A i \in 1 .. Len(s) : (s \o t)[i] = s[i]
         /\ \A i \in 1 .. Len(t) : (s \o t)[Len(s) + i] = t[i]
  <1>1. PICK S : s \in Seq(S)
    BY DEF IsSequence
  <1>2. PICK T : t \in Seq(T)
    BY DEF IsSequence
  <1>3. s \in Seq(S \cup T) /\ t \in Seq(S \cup T)
    BY <1>1, <1>2, SeqMonotonic
  <1> HIDE DEF IsSequence
  <1>4. /\ s \o t \in Seq(S \cup T)
        /\ Len(s \o t) = Len(s) + Len(t)
        /\ \A i \in 1 .. Len(s) + Len(t) :
             (s \o t)[i] = IF i <= Len(s) THEN s[i] ELSE t[i - Len(s)]
    BY <1>3, ConcatProperties
  <1>5. Len(s) \in Nat /\ Len(t) \in Nat
    BY SequenceIs
  <1>6. IsSequence(s \o t)
    BY <1>4 DEF IsSequence
  <1>7. \A i \in 1 .. Len(s) : (s \o t)[i] = s[i]
    BY <1>4, <1>5
  <1>8. ASSUME NEW i \in 1 .. Len(t)
        PROVE  (s \o t)[Len(s) + i] = t[i]
    <2>1. Len(s) + i \in 1 .. Len(s) + Len(t) /\ ~(Len(s) + i <= Len(s))
          /\ Len(s) + i - Len(s) = i
      BY <1>5
    <2> QED  BY <1>4, <2>1
  <1> QED  BY <1>4, <1>6, <1>7, <1>8

(* A function on the numbers from 1 to n. *)
LEMMA FunctionIsSequence ==
  ASSUME NEW n \in Nat, NEW f, f = [i \in 1 .. n |-> f[i]]
  PROVE  IsSequence(f) /\ Len(f) = n
  <1> DEFINE S == {f[i] : i \in 1 .. n}
  <1>1. f \in [1 .. n -> S]
    OBVIOUS
  <1>2. f \in Seq(S)
    BY <1>1
  <1>3. /\ Len(f) \in Nat /\ DOMAIN f = 1 .. Len(f)
        /\ DOMAIN f = 1 .. n
    BY <1>1, <1>2, LenProperties
  <1>4. Len(f) = n
    BY <1>3
  <1> QED  BY <1>2, <1>4 DEF IsSequence

(* A part of one. *)
LEMMA BeginningIsSequence ==
  ASSUME NEW s, IsSequence(s), NEW n \in 0 .. Len(s)
  PROVE  IsSequence(SubSeq(s, 1, n)) /\ Len(SubSeq(s, 1, n)) = n
         /\ \A i \in 1 .. n : SubSeq(s, 1, n)[i] = s[i]
  <1>1. PICK S : s \in Seq(S)
    BY DEF IsSequence
  <1>2. n \in Nat /\ Len(s) \in Nat /\ \A i \in 1 .. n : s[i] \in S
    BY <1>1, LenProperties, ElementOfSeq
  <1>3. /\ SubSeq(s, 1, n) \in Seq(S)
        /\ Len(SubSeq(s, 1, n)) = IF 1 <= n THEN n - 1 + 1 ELSE 0
        /\ \A i \in 1 .. n - 1 + 1 : SubSeq(s, 1, n)[i] = s[1 + i - 1]
    BY <1>2, SubSeqProperties
  <1>4. IsSequence(SubSeq(s, 1, n))
    BY <1>3 DEF IsSequence
  <1> QED  BY <1>2, <1>3, <1>4

(* The same character again and again. *)
LEMMA RepeatIs ==
  ASSUME NEW c, NEW n \in Nat
  PROVE  IsSequence(Repeat(c, n)) /\ Len(Repeat(c, n)) = n
         /\ \A i \in 1 .. n : Repeat(c, n)[i] = c
  <1> DEFINE f == Repeat(c, n)
  <1>1. f = [i \in 1 .. n |-> f[i]] /\ \A i \in 1 .. n : f[i] = c
    BY DEF Repeat
  <1> HIDE DEF f
  <1> QED  BY <1>1, FunctionIsSequence DEF f

-----------------------------------------------------------------------------
(* Digits.                                                                 *)

(* The function by which unsigned_digits is defined, on the numbers to n. *)
Digit(n, base) == Alphabet[(n % base) + 1]

(* The function that unsigned_digits computes. *)
DigitsUpTo(f, value, base) ==
  f = [n \in 0 .. value |->
         (IF n < base THEN <<>> ELSE f[n \div base]) \o <<Alphabet[(n % base) + 1]>>]

(* A quotient is smaller. *)
LEMMA QuotientIsSmaller ==
  ASSUME NEW n \in Nat, NEW base \in Nat, base > 1
  PROVE  /\ n \div base \in Nat
         /\ n # 0 => n \div base < n
  <1>1. PICK q \in Nat, r \in 0 .. (base - 1) : n = q * base + r /\ n \div base = q
    BY Division
  <1>2. (base - 2) * q \in Nat
    BY ProductIs
  <1>3. q * base = (base - 2) * q + 2 * q
    OBVIOUS
  <1>4. ASSUME n # 0 PROVE q < n
    <2> DEFINE x == (base - 2) * q
               y == q * base
    <2>1. x \in Nat /\ y = x + 2 * q /\ n = y + r
      BY <1>1, <1>2, <1>3
    <2> HIDE DEF x, y
    <2> QED  BY <1>4, <2>1
  <1> QED  BY <1>1, <1>4

(* There is such a function, and its values are sequences. *)
LEMMA DigitsExist ==
  ASSUME NEW base \in Nat, base > 1
  PROVE  \A value \in Nat : \E f : DigitsUpTo(f, value, base)
  <1> DEFINE C == {n \in Nat : \E f : DigitsUpTo(f, n, base)}
  <1>1. ASSUME NEW n \in Nat, \A m \in Nat : m < n => m \in C
        PROVE  n \in C
    <2>1. CASE n = 0
      <3> DEFINE f == [i \in 0 .. 0 |-> <<>> \o <<Alphabet[(0 % base) + 1]>>]
      <3>1. f = [i \in 0 .. 0 |-> (IF i < base THEN <<>> ELSE f[i \div base])
                                    \o <<Alphabet[(i % base) + 1]>>]
        OBVIOUS
      <3>2. DigitsUpTo(f, n, base)
        BY <2>1, <3>1 DEF DigitsUpTo
      <3> QED  BY <3>2
    <2>2. CASE n # 0
      <3>1. n - 1 \in C
        BY <1>1, <2>2
      <3>2. PICK g : DigitsUpTo(g, n - 1, base)
        BY <3>1
      <3> DEFINE f == [i \in 0 .. n |->
                         IF i < n THEN g[i]
                         ELSE (IF i < base THEN <<>> ELSE g[i \div base])
                                \o <<Alphabet[(i % base) + 1]>>]
      <3>3. \A i \in 0 .. (n - 1) : f[i] = g[i]
        OBVIOUS
      <3>4. ASSUME NEW i \in 0 .. n
            PROVE  f[i] = (IF i < base THEN <<>> ELSE f[i \div base])
                            \o <<Alphabet[(i % base) + 1]>>
        <4>1. ~(i < base) => f[i \div base] = g[i \div base]
          <5> SUFFICES ASSUME ~(i < base) PROVE f[i \div base] = g[i \div base]
            OBVIOUS
          <5>1. i \div base \in 0 .. (n - 1)
            <6>1. i \in Nat /\ i # 0
              OBVIOUS
            <6>2. i \div base \in Nat /\ i \div base < i
              BY <6>1, QuotientIsSmaller
            <6> QED  BY <6>2
          <5> QED  BY <3>3, <5>1
        <4>2. CASE i = n
          <5>1. ~(i < n)
            BY <4>2
          <5>2. f[i] = (IF i < base THEN <<>> ELSE g[i \div base])
                         \o <<Alphabet[(i % base) + 1]>>
            BY <5>1, Zenon
          <5> QED  BY <4>1, <5>2
        <4>3. CASE i # n
          <5>1. i \in 0 .. (n - 1)
            BY <4>3
          <5>2. g[i] = (IF i < base THEN <<>> ELSE g[i \div base])
                         \o <<Alphabet[(i % base) + 1]>>
            BY <3>2, <5>1, Zenon DEF DigitsUpTo
          <5> QED  BY <3>3, <4>1, <5>1, <5>2
        <4> QED  BY <4>2, <4>3
      <3>5. f = [i \in 0 .. n |-> f[i]]
        OBVIOUS
      <3> HIDE DEF f
      <3>6. DigitsUpTo(f, n, base)
        BY <3>4, <3>5 DEF DigitsUpTo
      <3> QED  BY <3>6
    <2> QED  BY <2>1, <2>2
  <1> HIDE DEF C
  <1>2. \A n \in Nat : n \in C
    BY <1>1, NumberInduction
  <1> QED  BY <1>2 DEF C

(* What unsigned_digits returns is a sequence, of at least one digit. *)
LEMMA DigitsAreSequence ==
  ASSUME NEW value \in Nat, NEW base \in Nat, base > 1
  PROVE  IsSequence(unsigned_digits(value, base)) /\ Len(unsigned_digits(value, base)) > 0
  <1> DEFINE f == CHOOSE g : DigitsUpTo(g, value, base)
  <1>1. DigitsUpTo(f, value, base)
    BY DigitsExist
  <1>2. unsigned_digits(value, base) = f[value]
    BY DEF unsigned_digits, DigitsUpTo
  <1> HIDE DEF f
  <1> DEFINE C == {n \in Nat : n <= value => IsSequence(f[n]) /\ Len(f[n]) > 0}
  <1>3. ASSUME NEW n \in Nat, \A m \in Nat : m < n => m \in C
        PROVE  n \in C
    <2> SUFFICES ASSUME n <= value PROVE IsSequence(f[n]) /\ Len(f[n]) > 0
      OBVIOUS
    <2> DEFINE before == IF n < base THEN <<>> ELSE f[n \div base]
               last == <<Alphabet[(n % base) + 1]>>
    <2>1. f[n] = before \o last
      <3>1. n \in 0 .. value
        OBVIOUS
      <3> QED  BY <1>1, <3>1, Zenon DEF DigitsUpTo
    <2>2. IsSequence(before)
      <3>1. CASE n < base
        BY <3>1, ShortSequences
      <3>2. CASE ~(n < base)
        <4>1. n \div base \in Nat /\ n \div base < n
          BY <3>2, QuotientIsSmaller
        <4>2. n \div base \in C
          BY <1>3, <4>1
        <4> QED  BY <3>2, <4>1, <4>2
      <3> QED  BY <3>1, <3>2
    <2>3. IsSequence(last) /\ Len(last) = 1
      BY ShortSequences
    <2> HIDE DEF before, last
    <2>4. IsSequence(before \o last) /\ Len(before \o last) = Len(before) + Len(last)
      BY <2>2, <2>3, JoinedSequences, Zenon
    <2>5. Len(before) \in Nat
      BY <2>2, SequenceIs
    <2> QED  BY <2>1, <2>3, <2>4, <2>5
  <1> HIDE DEF C
  <1>4. \A n \in Nat : n \in C
    BY <1>3, NumberInduction
  <1>5. value \in C
    BY <1>4
  <1> QED  BY <1>2, <1>5 DEF C

(* What fixed_double gives is a sequence. *)
LEMMA RealIsSequence ==
  ASSUME NEW real, real.eighths \in Nat, NEW precision \in Int
  PROVE  IsSequence(fixed_double(real, precision))
  <1> DEFINE places == IF precision < 0 THEN 6 ELSE IF precision > 12 THEN 12 ELSE precision
             sign == IF real.negative THEN <<"-">> ELSE <<>>
             whole == unsigned_digits(real.eighths \div 8, 10)
  <1>1. places \in Nat
    OBVIOUS
  <1>2. IsSequence(sign)
    BY ShortSequences
  <1>3. IsSequence(whole)
    <2> DEFINE q == real.eighths \div 8
    <2>1. q \in Nat /\ 10 \in Nat /\ 10 > 1
      BY Division
    <2> HIDE DEF q
    <2>2. IsSequence(unsigned_digits(q, 10))
      BY <2>1, DigitsAreSequence
    <2> QED  BY <2>2 DEF q
  <1> DEFINE fraction == CHOOSE g : g = [i \in 0 .. places |->
               IF i = 0 THEN real.eighths % 8 ELSE (g[i - 1] * 10) % 8]
             e == [i \in 1 .. places |-> Alphabet[((fraction[i - 1] * 10) \div 8) + 1]]
             digits == CASE real.kind = "infinite" -> <<"I", "n", "f", "i", "n", "i", "t", "y">>
                         [] real.kind = "nan" -> <<"N", "a", "N">>
                         [] OTHER -> whole \o (IF places = 0 THEN <<>> ELSE <<".">> \o e)
  <1>4. fixed_double(real, precision) = sign \o digits
    <2> HIDE DEF whole, sign
    <2> QED  BY Zenon DEF fixed_double, whole, sign
  <1>5. IsSequence(e)
    <2>1. e = [i \in 1 .. places |-> e[i]]
      OBVIOUS
    <2> HIDE DEF e, places
    <2> QED  BY <1>1, <2>1, FunctionIsSequence
  <1> HIDE DEF whole, sign, e
  <1>6. IsSequence(digits)
    <2>1. IsSequence(<<"I", "n", "f", "i", "n", "i", "t", "y">>) /\ IsSequence(<<"N", "a", "N">>)
      <3>1. \A a, b, c, d, e1, f, g, h :
              /\ <<a, b, c, d, e1, f, g, h>> \in Seq({a, b, c, d, e1, f, g, h})
              /\ <<a, b, c>> \in Seq({a, b, c})
        OBVIOUS
      <3> QED  BY <3>1, Zenon DEF IsSequence
    <2>2. IsSequence(<<".">> \o e) /\ IsSequence(<<>>)
      BY <1>5, ShortSequences, JoinedSequences
    <2>3. IsSequence(whole \o (IF places = 0 THEN <<>> ELSE <<".">> \o e))
      <3> HIDE DEF places
      <3>1. CASE places = 0
        BY <1>3, <2>2, <3>1, JoinedSequences
      <3>2. CASE places # 0
        BY <1>3, <2>2, <3>2, JoinedSequences
      <3> QED  BY <3>1, <3>2
    <2> HIDE DEF places
    <2>4. CASE real.kind = "infinite"
      BY <2>1, <2>4
    <2>5. CASE real.kind # "infinite" /\ real.kind = "nan"
      BY <2>1, <2>5
    <2>6. CASE real.kind # "infinite" /\ real.kind # "nan"
      BY <2>3, <2>6
    <2> QED  BY <2>4, <2>5, <2>6
  <1> HIDE DEF digits
  <1> QED  BY <1>2, <1>4, <1>6, JoinedSequences

-----------------------------------------------------------------------------
(* What a directive is converted to.                                       *)

(* A text is a sequence. *)
LEMMA TextIsSequence == \A t : IsText(t) => IsSequence(t)
  BY DEF IsText, IsSequence

(* Padding is a number. *)
LEMMA PaddingIs ==
  ASSUME NEW d, d.width \in Int, NEW total \in Nat
  PROVE  Padding(d, total) \in Nat
  <1>1. Width(d).width \in Int
    BY DEF Width
  <1> QED  BY <1>1 DEF Padding

(* The field of %s is a sequence. *)
LEMMA TextFieldIsSequence ==
  ASSUME NEW d, d.width \in Int, d.precision \in Int, IsText(d.value)
  PROVE  IsSequence(TextField(d))
  <1> DEFINE text == IF d.precision >= 0 /\ d.precision < Len(d.value)
                     THEN SubSeq(d.value, 1, d.precision) ELSE d.value
             blanks == Repeat(" ", Padding(d, Len(text)))
  <1>1. IsSequence(d.value) /\ Len(d.value) \in Nat
    BY TextIsSequence, SequenceIs
  <1>2. IsSequence(text)
    <2>1. CASE d.precision >= 0 /\ d.precision < Len(d.value)
      <3>1. d.precision \in 0 .. Len(d.value)
        BY <1>1, <2>1
      <3> QED  BY <1>1, <2>1, <3>1, BeginningIsSequence
    <2>2. CASE ~(d.precision >= 0 /\ d.precision < Len(d.value))
      BY <1>1, <2>2
    <2> QED  BY <2>1, <2>2
  <1> HIDE DEF text
  <1>3. IsSequence(blanks)
    <2>1. Padding(d, Len(text)) \in Nat
      BY <1>2, SequenceIs, PaddingIs
    <2> QED  BY <2>1, RepeatIs
  <1>4. TextField(d) = IF Width(d).left THEN text \o blanks ELSE blanks \o text
    BY DEF TextField, text
  <1> HIDE DEF blanks
  <1> QED  BY <1>2, <1>3, <1>4, JoinedSequences

(* The directives that Field is for. *)
IsNumber(d) ==
  /\ d.width \in Int /\ d.precision \in Int
  /\ \/ d.conversion = "c"
     \/ d.conversion = "d" /\ d.value \in Int
     \/ d.conversion \in {"u", "x", "p"} /\ d.value \in Nat
     \/ d.conversion = "f" /\ d.value.eighths \in Nat

(* The digits of a number are a sequence. *)
LEMMA DigitsIsSequence ==
  ASSUME NEW d, IsNumber(d)
  PROVE  IsSequence(Digits(d)) /\ Len(Digits(d)) \in Nat
  <1> SUFFICES IsSequence(Digits(d))
    BY SequenceIs
  <1>1. 10 \in Nat /\ 10 > 1 /\ 16 \in Nat /\ 16 > 1
    OBVIOUS
  <1>2. CASE d.conversion = "c"
    <2>1. Digits(d) = <<d.value>>
      BY <1>2 DEF Digits
    <2> QED  BY <2>1, ShortSequences
  <1>3. CASE d.conversion = "d"
    <2> DEFINE n == IF d.value < 0 THEN Uint(-(d.value + 1)) + 1 ELSE d.value
    <2>1. Digits(d) = unsigned_digits(n, 10)
      BY <1>3, Zenon DEF Digits
    <2>2. n \in Nat
      <3>1. d.value \in Int /\ Word \in Nat \ {0}
        BY <1>3, FormatAssumption DEF IsNumber
      <3>2. \A k \in Nat : Uint(k) \in Nat
        <4> TAKE k \in Nat
        <4>1. k % Word \in 0 .. (Word - 1)
          BY <3>1, Division
        <4> QED  BY <3>1, <4>1 DEF Uint
      <3>3. CASE d.value < 0
        <4>1. -(d.value + 1) \in Nat
          BY <3>1, <3>3
        <4> QED  BY <3>2, <3>3, <4>1
      <3>4. CASE ~(d.value < 0)
        BY <3>1, <3>4
      <3> QED  BY <3>3, <3>4
    <2> HIDE DEF n
    <2> QED  BY <1>1, <2>1, <2>2, DigitsAreSequence
  <1>4. CASE d.conversion = "u"
    <2>1. Digits(d) = unsigned_digits(d.value, 10) /\ d.value \in Nat
      BY <1>4 DEF Digits, IsNumber
    <2> QED  BY <1>1, <2>1, DigitsAreSequence
  <1>5. CASE d.conversion \in {"x", "p"}
    <2>1. Digits(d) = unsigned_digits(d.value, 16) /\ d.value \in Nat
      BY <1>5 DEF Digits, IsNumber
    <2> QED  BY <1>1, <2>1, DigitsAreSequence
  <1>6. CASE d.conversion = "f"
    <2>1. Digits(d) = fixed_double(d.value, d.precision) /\ d.value.eighths \in Nat
          /\ d.precision \in Int
      BY <1>6 DEF Digits, IsNumber
    <2> QED  BY <2>1, RealIsSequence
  <1> QED  BY <1>2, <1>3, <1>4, <1>5, <1>6 DEF IsNumber

(* And so are the prefix and the zeros. *)
LEMMA PrefixIsSequence == \A d : IsSequence(Prefix(d)) /\ Len(Prefix(d)) \in Nat
  <1>1. \A a, b : <<a>> \in Seq({a}) /\ <<a, b>> \in Seq({a, b})
    OBVIOUS
  <1>2. \A a, b : IsSequence(<<>>) /\ IsSequence(<<a>>) /\ IsSequence(<<a, b>>)
    BY <1>1, ShortSequences, Zenon DEF IsSequence
  <1> TAKE d
  <1>3. IsSequence(Prefix(d))
    <2>1. \/ Prefix(d) = <<>> \/ Prefix(d) = <<"-">> \/ Prefix(d) = <<"+">>
          \/ Prefix(d) = <<" ">> \/ Prefix(d) = <<"0", "x">>
      BY Zenon DEF Prefix
    <2> QED  BY <1>2, <2>1
  <1> QED  BY <1>3, SequenceIs

(* How many zeros go before the digits. *)
LEMMA ZerosIs ==
  ASSUME NEW d, IsNumber(d)
  PROVE  Zeros(d) \in Nat
  BY DigitsIsSequence DEF Zeros, IsNumber

(* The field of any other conversion is a sequence. *)
LEMMA FieldIsSequence ==
  ASSUME NEW d, IsNumber(d)
  PROVE  IsSequence(Field(d))
  <1> DEFINE total == Len(Prefix(d)) + Zeros(d) + Len(Digits(d))
             padding == Padding(d, total)
             left == Width(d).left
             zero == "zero" \in d.flags
             a == IF ~left /\ (~zero \/ d.precision >= 0) THEN Repeat(" ", padding) ELSE <<>>
             b == IF ~left /\ zero /\ d.precision < 0 THEN Repeat("0", padding) ELSE <<>>
             c == Repeat("0", Zeros(d))
             e == IF left THEN Repeat(" ", padding) ELSE <<>>
  <1>1. total \in Nat /\ Zeros(d) \in Nat /\ d.width \in Int
    BY DigitsIsSequence, PrefixIsSequence, ZerosIs DEF IsNumber
  <1>2. padding \in Nat
    BY <1>1, PaddingIs
  <1>3. Field(d) = a \o Prefix(d) \o b \o c \o Digits(d) \o e
    BY Zenon DEF Field
  <1> HIDE DEF padding, left, zero
  <1>4. IsSequence(a) /\ IsSequence(b) /\ IsSequence(e)
    <2>1. IsSequence(<<>>) /\ IsSequence(Repeat(" ", padding)) /\ IsSequence(Repeat("0", padding))
      BY <1>2, RepeatIs, ShortSequences
    <2> QED  BY <2>1
  <1>5. IsSequence(c)
    BY <1>1, RepeatIs
  <1> HIDE DEF a, b, c, e
  <1>6. IsSequence(a \o Prefix(d))
    BY <1>4, PrefixIsSequence, JoinedSequences
  <1>7. IsSequence(a \o Prefix(d) \o b)
    BY <1>4, <1>6, JoinedSequences
  <1>8. IsSequence(a \o Prefix(d) \o b \o c)
    BY <1>5, <1>7, JoinedSequences
  <1>9. IsSequence(a \o Prefix(d) \o b \o c \o Digits(d))
    BY <1>8, DigitsIsSequence, JoinedSequences
  <1> QED  BY <1>3, <1>4, <1>9, JoinedSequences

(* What a directive is converted to is a sequence. *)
LEMMA ConvertedIsSequence ==
  ASSUME NEW d \in Directives
  PROVE  IsSequence(Converted(d))
  <1>1. CASE d.conversion = "literal" /\ IsText(d.value)
    BY <1>1, TextIsSequence DEF Converted
  <1>2. CASE d.conversion = "s" /\ IsText(d.value) /\ d.width \in Int /\ d.precision \in Int
    BY <1>2, TextFieldIsSequence DEF Converted
  <1>3. CASE IsNumber(d)
    <2>1. Converted(d) = Field(d)
      BY <1>3 DEF Converted, IsNumber
    <2> QED  BY <1>3, <2>1, FieldIsSequence
  <1>4. \/ d.conversion = "literal" /\ IsText(d.value)
        \/ d.conversion = "s" /\ IsText(d.value) /\ d.width \in Int /\ d.precision \in Int
        \/ IsNumber(d)
    BY DirectivesAssumption, FormatAssumption DEF IsNumber
  <1> QED  BY <1>1, <1>2, <1>3, <1>4

-----------------------------------------------------------------------------
(* The sink.                                                               *)

(* Inductive: where a call is, and that length counts what was sunk. *)
SinkInv ==
  /\ buffer = [i \in 0 .. (BufferSize - 1) |-> buffer[i]]
  /\ capacity \in (0 .. BufferSize) \cup {Closed}
  /\ todo \in Seq(Directives)
  /\ IsSequence(full) /\ length = Len(full)
  /\ capacity = Closed => full = <<>> /\ todo = <<>> /\ returned = Closed
  /\ returned # Closed => todo = <<>>
  /\ SinkExact

(* The invariant holds before the first call. *)
LEMMA InitSink == InitFormat => SinkInv
  <1> SUFFICES ASSUME InitFormat PROVE SinkInv
    OBVIOUS
  <1>1. BufferSize \in Nat
    BY FormatAssumption
  <1>2. <<>> \in Seq(Directives) /\ IsSequence(<<>>) /\ Len(<<>>) = 0
    BY ShortSequences
  <1>3. SinkExact
    <2>1. Len(full) = 0 /\ capacity = -1
      BY <1>2 DEF InitFormat, Closed
    <2> QED  BY <1>1, <2>1 DEF InitFormat, SinkExact, Closed
  <1> QED  BY <1>1, <1>2, <1>3 DEF InitFormat, SinkInv

(* vsnprintf is called: nothing is written yet. *)
LEMMA CallSink ==
  ASSUME SinkInv, NEW size \in Capacities, NEW directives \in Formats,
         vsnprintf(size, directives)
  PROVE  SinkInv'
  <1>1. /\ BufferSize \in Nat /\ size \in 0 .. BufferSize /\ directives \in Seq(Directives)
        /\ capacity = -1 /\ capacity' = size /\ todo' = directives
        /\ UNCHANGED <<buffer, length, directive, piece, full, returned>>
    BY FormatAssumption, DirectivesAssumption DEF vsnprintf, Closed
  <1>2. full = <<>> /\ returned = -1 /\ Len(full) = 0
    BY <1>1, ShortSequences DEF SinkInv, Closed
  <1>3. \A i \in DOMAIN buffer : buffer[i] = Untouched /\ i >= 0
    <2>1. DOMAIN buffer = 0 .. (BufferSize - 1)
      BY DEF SinkInv
    <2> QED  BY <1>1, <1>2, <2>1 DEF SinkInv, SinkExact, Closed
  <1>4. SinkExact'
    BY <1>1, <1>2, <1>3 DEF SinkExact, Closed
  <1> QED  BY <1>1, <1>2, <1>4 DEF SinkInv, Closed

(* A directive is converted: its text goes behind what was written, as far as it fits. *)
LEMMA ConvertSink ==
  ASSUME SinkInv, Convert
  PROVE  SinkInv'
  <1> DEFINE n == Len(full)
             k == Len(piece')
  <1>1. /\ BufferSize \in Nat /\ capacity \in 0 .. BufferSize /\ returned = Closed
        /\ todo # <<>> /\ capacity' = capacity /\ returned' = Closed
    BY FormatAssumption DEF SinkInv, Convert
  <1>2. Head(todo) \in Directives /\ todo' \in Seq(Directives)
    BY <1>1, HeadTailProperties DEF SinkInv, Convert
  <1>3. IsSequence(piece') /\ IsSequence(full) /\ full' = full \o piece' /\ length = n
    BY <1>2, ConvertedIsSequence DEF Convert, SinkInv
  <1>4. n \in Nat /\ k \in Nat
    BY <1>3, SequenceIs
  <1>5. /\ IsSequence(full') /\ Len(full') = n + k
        /\ \A i \in 1 .. n : full'[i] = full[i]
        /\ \A i \in 1 .. k : full'[n + i] = piece'[i]
    <2>1. /\ IsSequence(full \o piece') /\ Len(full \o piece') = Len(full) + Len(piece')
          /\ \A i \in 1 .. Len(full) : (full \o piece')[i] = full[i]
          /\ \A i \in 1 .. Len(piece') : (full \o piece')[Len(full) + i] = piece'[i]
      BY <1>3, JoinedSequences
    <2> QED  BY <1>3, <2>1
  <1>6. /\ DOMAIN buffer = 0 .. (BufferSize - 1)
        /\ buffer' = [i \in 0 .. (BufferSize - 1) |->
                       IF i \in n .. (n + k - 1) /\ Keeps(i) THEN piece'[i - n + 1] ELSE buffer[i]]
        /\ length' = n + k
    <2>1. DOMAIN buffer = 0 .. (BufferSize - 1)
      BY DEF SinkInv
    <2> QED  BY <1>3, <2>1 DEF Convert, Sunk
  <1> HIDE DEF n, k
  <1>7. SinkExact'
    <2> SUFFICES ASSUME NEW i \in 0 .. (BufferSize - 1)
                 PROVE  buffer'[i] = IF i < (IF n + k < capacity THEN n + k ELSE capacity - 1)
                                     THEN full'[i + 1] ELSE Untouched
      BY <1>1, <1>5, <1>6 DEF SinkExact
    <2>1. buffer[i] = IF i < (IF n < capacity THEN n ELSE capacity - 1) THEN full[i + 1] ELSE Untouched
      BY <1>1, <1>6 DEF SinkInv, SinkExact, n
    <2>2. buffer'[i] = IF i >= n /\ i <= n + k - 1 /\ i + 1 < capacity
                       THEN piece'[i - n + 1] ELSE buffer[i]
      BY <1>1, <1>4, <1>6 DEF Keeps
    <2>3. CASE i < n
      <3>1. full'[i + 1] = full[i + 1]
        BY <1>4, <1>5, <2>3
      <3> QED  BY <1>1, <1>4, <2>1, <2>2, <2>3, <3>1
    <2>4. CASE i >= n /\ i < n + k
      <3>1. i - n + 1 \in 1 .. k /\ n + (i - n + 1) = i + 1
        BY <1>4, <2>4
      <3>2. full'[i + 1] = piece'[i - n + 1]
        BY <1>5, <3>1
      <3> QED  BY <1>1, <1>4, <2>1, <2>2, <2>4, <3>2
    <2>5. CASE i >= n + k
      BY <1>1, <1>4, <2>1, <2>2, <2>5
    <2> QED  BY <1>1, <1>4, <2>3, <2>4, <2>5
  <1> QED  BY <1>1, <1>2, <1>5, <1>6, <1>7 DEF SinkInv, Closed

(* vsnprintf closes the text and returns. *)
LEMMA ReturnSink ==
  ASSUME SinkInv, Return
  PROVE  SinkInv'
  <1> DEFINE n == Len(full)
  <1>1. /\ BufferSize \in Nat /\ capacity \in 0 .. BufferSize /\ returned = Closed
        /\ length = n /\ returned' = n
        /\ UNCHANGED <<capacity, length, todo, directive, piece, full>>
        /\ todo = <<>> /\ IsSequence(full)
    BY FormatAssumption DEF SinkInv, Return
  <1>2. n \in Nat
    BY <1>1, SequenceIs
  <1>3. /\ DOMAIN buffer = 0 .. (BufferSize - 1) /\ buffer = [i \in 0 .. (BufferSize - 1) |-> buffer[i]]
        /\ buffer' = IF capacity = 0 THEN buffer
                     ELSE [buffer EXCEPT ![IF n < capacity THEN n ELSE capacity - 1] = NUL]
    BY <1>1 DEF SinkInv, Return
  <1> HIDE DEF n
  <1>4. /\ DOMAIN buffer' = 0 .. (BufferSize - 1) /\ buffer' = [i \in 0 .. (BufferSize - 1) |-> buffer'[i]]
        /\ \A i \in 0 .. (BufferSize - 1) :
             buffer'[i] = IF capacity # 0 /\ i = (IF n < capacity THEN n ELSE capacity - 1)
                          THEN NUL ELSE buffer[i]
    BY <1>1, <1>3
  <1>5. SinkExact'
    <2> SUFFICES ASSUME NEW i \in 0 .. (BufferSize - 1)
                 PROVE  buffer'[i] = IF i < (IF n < capacity THEN n ELSE capacity - 1)
                                     THEN full[i + 1]
                                     ELSE IF i = (IF n < capacity THEN n ELSE capacity - 1)
                                     THEN NUL ELSE Untouched
      BY <1>1, <1>2, <1>4 DEF SinkExact, Closed, n
    <2>1. buffer[i] = IF i < (IF n < capacity THEN n ELSE capacity - 1) THEN full[i + 1] ELSE Untouched
      BY <1>1, <1>3 DEF SinkInv, SinkExact, n
    <2> QED  BY <1>1, <1>2, <1>4, <2>1
  <1> QED  BY <1>1, <1>4, <1>5 DEF SinkInv, Closed, n

(* Every step keeps it. *)
LEMMA StepSink == SinkInv /\ [NextFormat]_format => SinkInv'
  <1>1. SinkInv /\ UNCHANGED format => SinkInv'
    BY DEF format, SinkInv, SinkExact
  <1> QED  BY <1>1, CallSink, ConvertSink, ReturnSink DEF NextFormat

(* SinkExact: whatever the format, its arguments and the size that was     *)
(* passed, the buffer holds as much of the text as fits and its zero, and  *)
(* nothing behind; the call returns the length of the whole text.          *)
THEOREM SinkIsExact == LibcSpec => []SinkExact
  <1>1. InitLibc => SinkInv
    BY InitSink DEF InitLibc
  <1>2. SinkInv /\ [NextLibc]_libc => SinkInv'
    <2>1. [NextLibc]_libc => [NextFormat]_format
      BY DEF NextLibc, libc
    <2> QED  BY <2>1, StepSink
  <1>3. SinkInv => SinkExact
    BY DEF SinkInv
  <1> QED  BY <1>1, <1>2, <1>3, PTL DEF LibcSpec

-----------------------------------------------------------------------------
(* Part three: qsort.  Up to its last sift_down the heap sort is correct,  *)
(* and only that last one can read behind the array.                       *)

-----------------------------------------------------------------------------
(* The properties of Qsort, as operators on the cells m.                   *)

(* m with two cells swapped. *)
Swapped(m, a, b) == [m EXCEPT ![a] = m[b], ![b] = m[a]]

(* The cells first .. last are heaps below first. *)
HeapFrom(m, first, last) ==
  \A i \in 1 .. last : Parent(i) >= first => m[Parent(i)] >= m[i]

(* They are but for r, whose children are not above its parent. *)
HeapBut(m, first, last, r) ==
  \A i \in 1 .. last :
    /\ Parent(i) >= first /\ Parent(i) # r => m[Parent(i)] >= m[i]
    /\ Parent(i) = r /\ r > first => m[Parent(r)] >= m[i]

(* Of n cells, those behind last are in order and not below any before. *)
SortedBehind(m, n, last) ==
  \A i, j \in 0 .. (n - 1) : i < j /\ j > last => m[i] <= m[j]

(* The cells below n that hold v. *)
Holding(m, n, v) == {i \in 0 .. (n - 1) : m[i] = v}

(* m is g with its first n cells in another order. *)
Permutation(m, g, n) ==
  /\ \A c \in Cells \ (0 .. (n - 1)) : m[c] = g[c]
  /\ \A v \in Values : Cardinality(Holding(m, n, v)) = Cardinality(Holding(g, n, v))

-----------------------------------------------------------------------------
(* Swapping two cells.                                                     *)

(* What the cells hold after a swap. *)
LEMMA SwapHolds ==
  ASSUME NEW m \in [Cells -> Values], NEW a \in Cells, NEW b \in Cells, a # b
  PROVE  /\ Swapped(m, a, b) \in [Cells -> Values]
         /\ Swapped(m, a, b)[a] = m[b] /\ Swapped(m, a, b)[b] = m[a]
         /\ \A c \in Cells : c # a /\ c # b => Swapped(m, a, b)[c] = m[c]
  BY DEF Swapped

(* A swap in the array keeps how often each value occurs. *)
LEMMA SwapPermutes ==
  ASSUME NEW m \in [Cells -> Values], NEW g, NEW n \in 0 .. Window, Permutation(m, g, n),
         NEW a \in 0 .. (n - 1), NEW b \in 0 .. (n - 1), a # b
  PROVE  Permutation(Swapped(m, a, b), g, n)
  <1> DEFINE s == Swapped(m, a, b)
  <1>1. Window \in Nat /\ a \in Cells /\ b \in Cells
    BY QsortAssumption DEF Cells
  <1>2. /\ s \in [Cells -> Values] /\ s[a] = m[b] /\ s[b] = m[a]
        /\ \A c \in Cells : c # a /\ c # b => s[c] = m[c]
    BY <1>1, SwapHolds
  <1> HIDE DEF s
  <1>3. 0 .. (n - 1) \subseteq Cells
    BY <1>1 DEF Cells
  <1>4. \A c \in Cells \ (0 .. (n - 1)) : s[c] = g[c]
    BY <1>2 DEF Permutation
  <1>5. ASSUME NEW v \in Values
        PROVE  Cardinality(Holding(s, n, v)) = Cardinality(Holding(m, n, v))
    <2>1. IsFiniteSet(Holding(m, n, v))
      <3>1. IsFiniteSet(0 .. (n - 1))
        BY FS_Interval
      <3> QED  BY <3>1, FS_Subset DEF Holding
    <2>2. CASE m[a] = m[b] \/ (v # m[a] /\ v # m[b])
      <3>1. Holding(s, n, v) = Holding(m, n, v)
        BY <1>2, <1>3, <2>2 DEF Holding
      <3> QED  BY <3>1
    <2>3. ASSUME NEW x \in {a, b}, NEW y \in {a, b}, x # y, m[x] = v, m[y] # v
          PROVE  Cardinality(Holding(s, n, v)) = Cardinality(Holding(m, n, v))
      <3>1. Holding(s, n, v) = (Holding(m, n, v) \ {x}) \cup {y}
        BY <1>2, <1>3, <2>3 DEF Holding
      <3>2. x \in Holding(m, n, v) /\ y \notin Holding(m, n, v)
        BY <2>3 DEF Holding
      <3> DEFINE H == Holding(m, n, v)
      <3> HIDE DEF H
      <3>3. /\ IsFiniteSet(H \ {x}) /\ Cardinality(H \ {x}) = Cardinality(H) - 1
            /\ Cardinality(H) \in Nat
        BY <2>1, <3>2, FS_RemoveElement, FS_CardinalityType DEF H
      <3>4. Cardinality((H \ {x}) \cup {y}) = Cardinality(H \ {x}) + 1
        BY <3>2, <3>3, FS_AddElement DEF H
      <3> QED  BY <3>1, <3>3, <3>4 DEF H
    <2>4. CASE m[a] = v /\ m[b] # v
      BY <2>3, <2>4
    <2>5. CASE m[b] = v /\ m[a] # v
      BY <2>3, <2>5
    <2> QED  BY <2>2, <2>4, <2>5
  <1> QED  BY <1>4, <1>5 DEF Permutation, s

-----------------------------------------------------------------------------
(* The heap order.                                                         *)

(* The children of a cell, by their parent. *)
LEMMA Children ==
  ASSUME NEW i \in Nat, i # 0
  PROVE  /\ Parent(i) \in Nat /\ Parent(i) < i
         /\ \A r \in Nat : Parent(i) = r <=> i \in {2 * r + 1, 2 * r + 2}
  BY DEF Parent

(* Nothing in a heap is above its root. *)
LEMMA RootIsLargest ==
  ASSUME NEW m \in [Cells -> Values], NEW last \in Cells, HeapFrom(m, 0, last)
  PROVE  \A i \in 0 .. last : m[i] <= m[0]
  <1> DEFINE C == {i \in Nat : i <= last => m[i] <= m[0]}
  <1>1. ASSUME NEW i \in 0 .. last
        PROVE  m[i] \in Int
    <2>1. i \in Cells
      BY QsortAssumption DEF Cells
    <2> QED  BY <2>1, QsortAssumption
  <1>2. ASSUME NEW i \in Nat, \A j \in Nat : j < i => j \in C
        PROVE  i \in C
    <2>1. CASE i = 0 \/ i > last
      BY <1>1, <2>1, QsortAssumption DEF Cells
    <2>2. CASE i # 0 /\ i <= last
      <3> DEFINE p == Parent(i)
      <3>1. p \in Nat /\ p < i /\ p \in C
        BY <1>2, <2>2, Children
      <3>2. last \in Nat /\ i \in 0 .. last /\ p \in 0 .. last /\ i \in 1 .. last /\ 0 \in 0 .. last
        BY <2>2, <3>1, QsortAssumption DEF Cells
      <3>3. m[p] >= m[i]
        BY <3>1, <3>2 DEF HeapFrom
      <3> HIDE DEF p
      <3>4. m[p] <= m[0]
        BY <3>1, <3>2
      <3>5. m[p] \in Int /\ m[i] \in Int /\ m[0] \in Int
        BY <1>1, <3>2
      <3>6. m[i] <= m[0]
        BY <3>3, <3>4, <3>5
      <3> QED  BY <3>6
    <2>3. i \in Nat /\ last \in Nat
      BY QsortAssumption DEF Cells
    <2> QED  BY <2>1, <2>2, <2>3
  <1> HIDE DEF C
  <1>3. \A i \in Nat : i \in C
    BY <1>2, NumberInduction
  <1>4. last \in Nat
    BY QsortAssumption DEF Cells
  <1> QED  BY <1>3, <1>4 DEF C

(* Where the subtrees below first - 1 are heaps, it can be sifted in.      *)
LEMMA SiftBegins ==
  ASSUME NEW m, NEW first \in Nat, NEW last \in Int, HeapFrom(m, first + 1, last)
  PROVE  HeapBut(m, first, last, first)
  <1> SUFFICES ASSUME NEW i \in 1 .. last
               PROVE  Parent(i) >= first /\ Parent(i) # first => m[Parent(i)] >= m[i]
    BY DEF HeapBut
  <1>1. Parent(i) \in Nat
    BY Children
  <1> QED  BY <1>1 DEF HeapFrom

(* When root's children are not above it, there is nothing left to sift. *)
LEMMA SiftIsOver ==
  ASSUME NEW m, NEW first \in Nat, NEW last \in Int, NEW r \in Nat, HeapBut(m, first, last, r),
         \A i \in {2 * r + 1, 2 * r + 2} : i <= last => m[r] >= m[i]
  PROVE  HeapFrom(m, first, last)
  <1> SUFFICES ASSUME NEW i \in 1 .. last, Parent(i) >= first
               PROVE  m[Parent(i)] >= m[i]
    BY DEF HeapFrom
  <1>1. CASE Parent(i) = r
    BY <1>1, Children
  <1>2. CASE Parent(i) # r
    BY <1>2 DEF HeapBut
  <1> QED  BY <1>1, <1>2

(* A swap with the larger child moves the exception to that child.         *)
LEMMA SiftGoesOn ==
  ASSUME NEW m \in [Cells -> Values], NEW first \in Nat, NEW last \in Cells,
         NEW r \in Nat, r >= first, HeapBut(m, first, last, r),
         NEW c \in {2 * r + 1, 2 * r + 2}, c <= last, m[r] < m[c],
         \A i \in {2 * r + 1, 2 * r + 2} : i <= last => m[c] >= m[i]
  PROVE  HeapBut(Swapped(m, r, c), first, last, c)
  <1> DEFINE s == Swapped(m, r, c)
  <1>1. Window \in Nat /\ last \in Nat /\ c \in Nat /\ r < c /\ r \in Cells /\ c \in Cells
    BY QsortAssumption DEF Cells
  <1>2. /\ s[r] = m[c] /\ s[c] = m[r]
        /\ \A x \in Cells : x # r /\ x # c => s[x] = m[x]
    BY <1>1, SwapHolds
  <1> HIDE DEF s
  <1>3. \A x \in Cells : m[x] \in Int
    BY QsortAssumption
  <1>4. ASSUME NEW i \in 1 .. last, Parent(i) >= first, Parent(i) # c
        PROVE  s[Parent(i)] >= s[i]
    <2>1. Parent(i) \in Nat /\ Parent(i) < i /\ i \in Cells /\ Parent(i) \in Cells
      BY <1>1, Children DEF Cells
    <2>2. CASE Parent(i) = r
      <3>1. i \in {2 * r + 1, 2 * r + 2} /\ m[c] >= m[i]
        BY <1>1, <2>2, Children
      <3>2. m[c] \in Int /\ m[r] \in Int
        BY <1>1, <1>3
      <3>3. CASE i = c
        BY <1>2, <2>2, <3>2, <3>3
      <3>4. CASE i # c
        BY <1>1, <1>2, <2>1, <2>2, <3>1, <3>4
      <3> QED  BY <3>3, <3>4
    <2>3. CASE i = r
      <3>1. Parent(c) = r /\ c \in 1 .. last
        BY <1>1, Children
      <3>2. r > first
        BY <1>4, <2>1, <2>3
      <3>3. m[Parent(r)] >= m[c]
        BY <3>1, <3>2 DEF HeapBut
      <3> QED  BY <1>1, <1>2, <2>1, <2>3, <3>3
    <2>4. CASE Parent(i) # r /\ i # r
      <3>1. i # c
        BY <1>1, <2>4, Children
      <3>2. m[Parent(i)] >= m[i]
        BY <1>4, <2>4 DEF HeapBut
      <3> QED  BY <1>2, <1>4, <2>1, <2>4, <3>1, <3>2
    <2> QED  BY <2>2, <2>3, <2>4
  <1>5. ASSUME NEW i \in 1 .. last, Parent(i) = c
        PROVE  s[Parent(c)] >= s[i]
    <2>1. i \in Cells /\ i > c /\ Parent(c) = r
      BY <1>1, <1>5, Children DEF Cells
    <2>2. m[c] >= m[i]
      BY <1>1, <1>5 DEF HeapBut
    <2> QED  BY <1>1, <1>2, <2>1, <2>2
  <1> QED  BY <1>4, <1>5 DEF HeapBut, s

-----------------------------------------------------------------------------
(* The invariant.                                                          *)

(* The types of the variables. *)
QsortTypeOK ==
  /\ mem \in [Cells -> Values]
  /\ count \in 0 .. MaxCount
  /\ phase \in {"call", "build", "extract", "done", "stray"}
  /\ pos \in Nat /\ root \in Nat /\ end \in Nat
  /\ sifting \in BOOLEAN

(* Where the loops of qsort and sift_down can be. *)
QsortControl ==
  /\ phase \in {"call", "done"} => ~sifting
  /\ phase = "call" \/ count < 2 => mem = given
  /\ count < 2 => phase \in {"call", "done"}
  /\ phase = "build" => pos < count
  /\ phase = "build" /\ sifting => pos # 0 /\ end = count - 1 /\ root >= pos - 1
  /\ phase = "extract" => pos < count
  /\ phase = "extract" /\ sifting => pos # 0 /\ end = pos - 1
  /\ phase = "stray" => end = 0

(* The order that holds at each of the loops' heads, and in a sift. *)
HeapOrder ==
  /\ phase = "build" /\ ~sifting => HeapFrom(mem, pos, count - 1)
  /\ phase = "build" /\ sifting => HeapBut(mem, pos - 1, end, root)
  /\ phase = "extract" /\ ~sifting /\ pos # 0 =>
       HeapFrom(mem, 0, pos) /\ SortedBehind(mem, count, pos)
  /\ phase = "extract" /\ sifting /\ end # 0 =>
       HeapBut(mem, 0, end, root) /\ SortedBehind(mem, count, end)

(* Inductive: the heap order, with the loops that it depends on. *)
QsortInv == QsortTypeOK /\ QsortControl /\ HeapOrder /\ SortsBeforeLastSift

(* The invariant's parts about the array's contents, as operators. *)
LEMMA ContentsAre ==
  /\ Permuted <=> Permutation(mem, given, count)
  /\ Sorted <=> \A i, j \in 0 .. (count - 1) : i < j => mem[i] <= mem[j]
  BY DEF Permuted, Permutation, Holding, Array, Sorted

(* The invariant holds at the call. *)
LEMMA InitQsort == Init => QsortInv
  <1> SUFFICES ASSUME Init PROVE QsortInv
    OBVIOUS
  <1>1. QsortTypeOK /\ QsortControl /\ HeapOrder
    BY QsortAssumption DEF Init, QsortTypeOK, QsortControl, HeapOrder
  <1>2. Permuted
    BY DEF Init, Permuted
  <1>3. ~sifting
    BY DEF Init
  <1> QED  BY <1>1, <1>2, <1>3 DEF QsortInv, SortsBeforeLastSift

(* The division of sift_down's last parent, where end - 1 does not wrap. *)
LEMMA LastParentIs ==
  ASSUME end \in 1 .. Window
  PROVE  LastParent = (end - 1) \div 2
  <1>1. \A a \in Nat, b \in Nat : a < b => a % b = a
    OBVIOUS
  <1>2. end - 1 \in Nat /\ SizeMax + 1 \in Nat /\ end - 1 < SizeMax + 1
    BY QsortAssumption
  <1> QED  BY <1>1, <1>2 DEF LastParent

(* The bounds of the array and the window. *)
LEMMA Bounds ==
  ASSUME QsortTypeOK
  PROVE  /\ count \in Nat /\ Window \in Nat /\ count <= Window /\ count \in 0 .. Window
         /\ \A c \in Nat : c < count => c \in Cells
         /\ \A c \in Cells : c \in Nat /\ mem[c] \in Int
  <1>1. count \in Nat /\ Window \in Nat /\ count <= Window
    BY QsortAssumption DEF QsortTypeOK
  <1>2. \A c \in Nat : c < count => c \in Cells
    BY <1>1 DEF Cells
  <1>3. \A c \in Cells : c \in Nat
    BY <1>1 DEF Cells
  <1>4. \A c \in Cells : mem[c] \in Int
    BY QsortAssumption DEF QsortTypeOK
  <1> QED  BY <1>1, <1>2, <1>3, <1>4

(* qsort is entered: small arrays are left alone; the leaves are heaps. *)
LEMMA CallStep == QsortInv /\ Call => QsortInv'
  <1> SUFFICES ASSUME QsortInv, Call PROVE QsortInv'
    OBVIOUS
  <1>1. count \in Nat /\ pos \in Nat /\ ~sifting /\ mem = given
    BY Bounds DEF QsortInv, QsortTypeOK, QsortControl, Call
  <1>2. QsortTypeOK' /\ QsortControl'
    BY <1>1 DEF QsortInv, QsortTypeOK, QsortControl, Call
  <1>3. HeapFrom(mem, count \div 2, count - 1)
    BY <1>1 DEF HeapFrom, Parent
  <1>4. HeapOrder'
    BY <1>1, <1>3 DEF Call, HeapOrder
  <1>5. SortsBeforeLastSift'
    BY <1>1 DEF Call, SortsBeforeLastSift, Permuted, Array
  <1> QED  BY <1>2, <1>4, <1>5 DEF QsortInv

(* The next subtree to sift while building. *)
LEMMA BuildStep == QsortInv /\ Build => QsortInv'
  <1> SUFFICES ASSUME QsortInv, Build PROVE QsortInv'
    OBVIOUS
  <1>1. count \in Nat /\ pos \in Nat /\ pos # 0 /\ pos < count
    BY Bounds DEF QsortInv, QsortTypeOK, QsortControl, Build
  <1>2. QsortTypeOK' /\ QsortControl'
    BY <1>1 DEF QsortInv, QsortTypeOK, QsortControl, Build, SiftFrom
  <1>3. HeapBut(mem, pos - 1, count - 1, pos - 1)
    <2>1. HeapFrom(mem, (pos - 1) + 1, count - 1)
      BY <1>1 DEF QsortInv, HeapOrder, Build
    <2> QED  BY <1>1, <2>1, SiftBegins
  <1>4. HeapOrder'
    BY <1>3 DEF Build, SiftFrom, HeapOrder
  <1>5. SortsBeforeLastSift'
    BY DEF QsortInv, Build, SiftFrom, SortsBeforeLastSift, Permuted, Array, BeforeLastSift, LastSift
  <1> QED  BY <1>2, <1>4, <1>5 DEF QsortInv

(* The heap is built, and extraction starts at the array's last cell. *)
LEMMA BuiltStep == QsortInv /\ Built => QsortInv'
  <1> SUFFICES ASSUME QsortInv, Built PROVE QsortInv'
    OBVIOUS
  <1>1. count \in Nat /\ count >= 2 /\ pos = 0
    BY Bounds DEF QsortInv, QsortControl, Built
  <1>2. QsortTypeOK' /\ QsortControl'
    BY <1>1 DEF QsortInv, QsortTypeOK, QsortControl, Built
  <1>3. HeapFrom(mem, 0, count - 1)
    BY <1>1 DEF QsortInv, HeapOrder, Built
  <1>4. SortedBehind(mem, count, count - 1)
    BY <1>1 DEF SortedBehind
  <1>5. HeapOrder'
    BY <1>3, <1>4 DEF Built, HeapOrder
  <1>6. SortsBeforeLastSift'
    BY <1>1 DEF QsortInv, Built, SortsBeforeLastSift, Permuted, Array, BeforeLastSift, LastSift
  <1> QED  BY <1>2, <1>5, <1>6 DEF QsortInv

(* The last cell's turn is over: from there on nothing is claimed. *)
LEMMA ExtractedStep == QsortInv /\ Extracted => QsortInv'
  <1> SUFFICES ASSUME QsortInv, Extracted PROVE QsortInv'
    OBVIOUS
  <1>1. QsortTypeOK' /\ QsortControl'
    BY DEF QsortInv, QsortTypeOK, QsortControl, Extracted
  <1>2. HeapOrder'
    BY DEF Extracted, HeapOrder
  <1>3. SortsBeforeLastSift'
    <2>1. ~BeforeLastSift
      BY Bounds DEF QsortInv, QsortControl, Extracted, BeforeLastSift, LastSift
    <2>2. ~BeforeLastSift' /\ ~sifting'
      BY <2>1 DEF Extracted, BeforeLastSift, LastSift
    <2> QED  BY <2>2 DEF SortsBeforeLastSift
  <1> QED  BY <1>1, <1>2, <1>3 DEF QsortInv

(* The largest of the heap goes to the end, and the last cell to its top.  *)
LEMMA ExtractStep == QsortInv /\ Extract => QsortInv'
  <1> SUFFICES ASSUME QsortInv, Extract PROVE QsortInv'
    OBVIOUS
  <1>1. /\ count \in Nat /\ count >= 2 /\ pos \in Nat /\ pos # 0 /\ pos < count
        /\ mem \in [Cells -> Values] /\ ~sifting /\ phase = "extract"
    BY Bounds DEF QsortInv, QsortTypeOK, QsortControl, Extract
  <1>2. 0 \in Cells /\ pos \in Cells /\ 0 \in 0 .. (count - 1) /\ pos \in 0 .. (count - 1)
    BY <1>1, Bounds DEF QsortInv
  <1>3. /\ mem' = Swapped(mem, 0, pos) /\ sifting' = TRUE /\ root' = 0 /\ end' = pos - 1
        /\ count' = count /\ phase' = phase /\ pos' = pos /\ given' = given
    BY DEF Extract, SiftFrom, swap_elements, Swapped
  <1>4. /\ mem' \in [Cells -> Values] /\ mem'[0] = mem[pos] /\ mem'[pos] = mem[0]
        /\ \A c \in Cells : c # 0 /\ c # pos => mem'[c] = mem[c]
    BY <1>1, <1>2, <1>3, SwapHolds
  <1>5. \A c \in 0 .. (count - 1) : c \in Cells /\ mem[c] \in Int
    BY Bounds DEF QsortInv
  <1>6. HeapFrom(mem, 0, pos) /\ SortedBehind(mem, count, pos)
    BY <1>1 DEF QsortInv, HeapOrder
  <1>7. \A i \in 0 .. pos : mem[i] <= mem[0]
    BY <1>1, <1>2, <1>6, RootIsLargest
  <1>8. QsortTypeOK' /\ QsortControl'
    BY <1>1, <1>3, <1>4 DEF QsortInv, QsortTypeOK, QsortControl
  <1>9. SortedBehind(mem', count, pos - 1)
    <2> SUFFICES ASSUME NEW i \in 0 .. (count - 1), NEW j \in 0 .. (count - 1), i < j, j > pos - 1
                 PROVE  mem'[i] <= mem'[j]
      BY DEF SortedBehind
    <2>1. CASE j = pos
      <3>1. mem'[j] = mem[0]
        BY <1>4, <2>1
      <3>2. CASE i = 0
        BY <1>1, <1>4, <1>7, <3>1, <3>2
      <3>3. CASE i # 0
        BY <1>1, <1>4, <1>5, <1>7, <2>1, <3>1, <3>3
      <3> QED  BY <3>2, <3>3
    <2>2. CASE j # pos
      <3>1. j > pos /\ mem'[j] = mem[j]
        BY <1>1, <1>4, <1>5, <2>2
      <3>2. \E k \in 0 .. (count - 1) : k < j /\ mem'[i] = mem[k]
        <4>1. CASE i = 0
          BY <1>1, <1>4, <3>1, <4>1
        <4>2. CASE i = pos
          BY <1>1, <1>4, <3>1, <4>2
        <4>3. CASE i # 0 /\ i # pos
          BY <1>4, <1>5, <4>3
        <4> QED  BY <4>1, <4>2, <4>3
      <3> QED  BY <1>1, <1>6, <3>1, <3>2 DEF SortedBehind
    <2> QED  BY <2>1, <2>2
  <1>10. ASSUME pos # 1
         PROVE  HeapBut(mem', 0, pos - 1, 0)
    <2> SUFFICES ASSUME NEW i \in 1 .. (pos - 1), Parent(i) >= 0, Parent(i) # 0
                 PROVE  mem'[Parent(i)] >= mem'[i]
      BY DEF HeapBut
    <2>1. Parent(i) \in Nat /\ Parent(i) < i
      BY Children
    <2>2. /\ i \in 0 .. (count - 1) /\ Parent(i) \in 0 .. (count - 1)
          /\ i # 0 /\ i # pos /\ Parent(i) # pos
      BY <1>1, <2>1
    <2>3. mem'[i] = mem[i] /\ mem'[Parent(i)] = mem[Parent(i)]
      BY <1>4, <1>5, <2>2
    <2>4. i \in 1 .. pos
      BY <1>1
    <2> QED  BY <1>6, <2>3, <2>4 DEF HeapFrom
  <1>11. HeapOrder'
    BY <1>1, <1>3, <1>9, <1>10 DEF HeapOrder
  <1>12. Permutation(mem', given', count')
    <2>1. Permutation(mem, given, count)
      BY <1>1, ContentsAre DEF QsortInv, SortsBeforeLastSift, BeforeLastSift, LastSift
    <2>2. count \in 0 .. Window
      BY Bounds DEF QsortInv
    <2> QED  BY <1>1, <1>2, <1>3, <2>1, <2>2, SwapPermutes
  <1>13. Permuted'
    BY <1>12 DEF Permuted, Permutation, Holding, Array
  <1>14. ASSUME pos = 1
         PROVE  Sorted'
    <2> SUFFICES ASSUME NEW i \in 0 .. (count - 1), NEW j \in 0 .. (count - 1), i < j
                 PROVE  mem'[i] <= mem'[j]
      BY <1>3 DEF Sorted, Array
    <2> QED  BY <1>9, <1>14 DEF SortedBehind
  <1>15. SortsBeforeLastSift'
    BY <1>1, <1>3, <1>13, <1>14 DEF SortsBeforeLastSift
  <1> QED  BY <1>8, <1>11, <1>15 DEF QsortInv

(* sift_down returns with root's children not above it. *)
LEMMA ReturnStep ==
  ASSUME QsortInv, sifting, phase # "stray", SiftReturns,
         end # 0 => \A i \in {2 * root + 1, 2 * root + 2} : i <= end => mem[root] >= mem[i]
  PROVE  QsortInv'
  <1>1. /\ count \in Nat /\ pos \in Nat /\ end \in Nat /\ root \in Nat
        /\ phase \in {"build", "extract", "done"} /\ mem \in [Cells -> Values]
    BY Bounds DEF QsortInv, QsortTypeOK, QsortControl
  <1>2. /\ sifting' = FALSE /\ pos' = pos - 1 /\ mem' = mem /\ count' = count
        /\ phase' = phase /\ root' = root /\ end' = end /\ given' = given
    BY DEF SiftReturns
  <1>3. phase # "done"
    BY DEF QsortInv, QsortControl
  <1>4. /\ count >= 2 /\ pos # 0 /\ pos < count
        /\ phase = "build" => end = count - 1
        /\ phase = "extract" => end = pos - 1
    BY <1>1, <1>3 DEF QsortInv, QsortControl
  <1>5. QsortTypeOK' /\ QsortControl'
    <2>1. pos - 1 \in Nat /\ pos - 1 < count
      BY <1>1, <1>4
    <2>2. QsortTypeOK'
      BY <1>1, <1>2, <2>1 DEF QsortInv, QsortTypeOK
    <2>3. QsortControl'
      BY <1>1, <1>2, <1>3, <1>4, <2>1 DEF QsortControl
    <2> QED  BY <2>2, <2>3
  <1>6. CASE phase = "build"
    <2>1. HeapBut(mem, pos - 1, count - 1, root)
      BY <1>4, <1>6 DEF QsortInv, HeapOrder
    <2>2. HeapFrom(mem, pos - 1, count - 1)
      BY <1>1, <1>4, <1>6, <2>1, SiftIsOver
    <2>3. HeapOrder'
      BY <1>2, <1>6, <2>2 DEF HeapOrder
    <2>4. SortsBeforeLastSift'
      BY <1>2, <1>6 DEF QsortInv, SortsBeforeLastSift, Permuted, Array, BeforeLastSift, LastSift
    <2> QED  BY <1>5, <2>3, <2>4 DEF QsortInv
  <1>7. CASE phase = "extract" /\ end = 0
    <2>1. pos' = 0
      BY <1>1, <1>2, <1>4, <1>7
    <2>2. HeapOrder'
      BY <1>2, <1>7, <2>1 DEF HeapOrder
    <2>3. SortsBeforeLastSift'
      BY <1>1, <1>2, <1>4, <1>7, <2>1 DEF SortsBeforeLastSift, BeforeLastSift, LastSift
    <2> QED  BY <1>5, <2>2, <2>3 DEF QsortInv
  <1>8. CASE phase = "extract" /\ end # 0
    <2>1. HeapBut(mem, 0, end, root) /\ SortedBehind(mem, count, end)
      BY <1>8 DEF QsortInv, HeapOrder
    <2>2. HeapFrom(mem, 0, end)
      BY <1>1, <1>8, <2>1, SiftIsOver
    <2>3. HeapOrder'
      BY <1>2, <1>4, <1>8, <2>1, <2>2 DEF HeapOrder
    <2>4. SortsBeforeLastSift'
      BY <1>1, <1>2, <1>4, <1>8
      DEF QsortInv, SortsBeforeLastSift, Permuted, Array, BeforeLastSift, LastSift
    <2> QED  BY <1>5, <2>3, <2>4 DEF QsortInv
  <1> QED  BY <1>1, <1>3, <1>6, <1>7, <1>8

(* A pass of sift_down on a heap of more than one element finds the larger *)
(* child of root in the heap, and reads nothing behind it.                 *)
LEMMA PassReads ==
  ASSUME QsortInv, sifting, phase # "stray", end # 0
  PROVE  /\ end \in Cells /\ end < count
         /\ root > LastParent => \A i \in {2 * root + 1, 2 * root + 2} : ~(i <= end)
         /\ root <= LastParent =>
              /\ Reach \in Cells
              /\ LargerChild \in {2 * root + 1, 2 * root + 2} /\ LargerChild <= end
              /\ \A i \in {2 * root + 1, 2 * root + 2} : i <= end => mem[LargerChild] >= mem[i]
  <1>1. /\ count \in Nat /\ pos \in Nat /\ end \in Nat /\ root \in Nat /\ end < count
        /\ Window \in Nat /\ count <= Window
    BY Bounds DEF QsortInv, QsortTypeOK, QsortControl
  <1>2. end \in Cells
    BY <1>1, Bounds DEF QsortInv
  <1>3. LastParent = (end - 1) \div 2
    BY <1>1, LastParentIs
  <1>4. ASSUME root > LastParent
        PROVE  \A i \in {2 * root + 1, 2 * root + 2} : ~(i <= end)
    BY <1>1, <1>3, <1>4
  <1>5. ASSUME root <= LastParent
        PROVE  /\ Reach \in Cells
               /\ LargerChild \in {2 * root + 1, 2 * root + 2} /\ LargerChild <= end
               /\ \A i \in {2 * root + 1, 2 * root + 2} : i <= end => mem[LargerChild] >= mem[i]
    <2>1. LeftChild = 2 * root + 1 /\ LeftChild \in Nat /\ LeftChild <= end
      BY <1>1, <1>3, <1>5 DEF LeftChild
    <2>2. Reach \in Nat /\ Reach < count
      BY <1>1, <2>1 DEF Reach
    <2>3. Reach \in Cells
      BY <2>2, Bounds DEF QsortInv
    <2>4. LargerChild \in {2 * root + 1, 2 * root + 2} /\ LargerChild <= end
      BY <1>1, <2>1 DEF LargerChild
    <2>5. ASSUME NEW i \in {2 * root + 1, 2 * root + 2}, i <= end
          PROVE  mem[LargerChild] >= mem[i]
      <3>1. i \in Nat /\ i < count /\ LeftChild < count
        BY <1>1, <2>1, <2>5
      <3>2. mem[i] \in Int /\ mem[LeftChild] \in Int
        BY <2>1, <3>1, Bounds DEF QsortInv
      <3> DEFINE l == LeftChild
      <3>3. LargerChild = IF l < end /\ mem[l] < mem[l + 1] THEN l + 1 ELSE l
        BY DEF LargerChild
      <3>4. i \in {l, l + 1} /\ l \in Nat /\ mem[l] \in Int
        BY <1>1, <2>1, <2>5, <3>2
      <3> HIDE DEF l
      <3>5. CASE i = l
        <4>1. CASE l < end /\ mem[l] < mem[l + 1]
          <5>1. l + 1 \in Nat /\ l + 1 < count
            BY <1>1, <3>4, <4>1
          <5>2. mem[l + 1] \in Int
            BY <5>1, Bounds DEF QsortInv
          <5> QED  BY <3>3, <3>4, <3>5, <4>1, <5>2
        <4>2. CASE ~(l < end /\ mem[l] < mem[l + 1])
          BY <3>3, <3>4, <3>5, <4>2
        <4> QED  BY <4>1, <4>2
      <3>6. CASE i = l + 1
        <4>1. l < end
          BY <1>1, <2>5, <3>4, <3>6
        <4>2. CASE mem[l] < mem[l + 1]
          BY <3>2, <3>3, <3>6, <4>1, <4>2
        <4>3. CASE ~(mem[l] < mem[l + 1])
          BY <3>2, <3>3, <3>4, <3>6, <4>1, <4>3
        <4> QED  BY <4>2, <4>3
      <3> QED  BY <3>4, <3>5, <3>6
    <2> QED  BY <2>3, <2>4, <2>5
  <1> QED  BY <1>1, <1>2, <1>4, <1>5

(* A swap of sift_down in a heap of more than one element. *)
LEMMA SwapStep ==
  ASSUME QsortInv, sifting, phase # "stray", end # 0, root <= LastParent,
         mem[root] < mem[LargerChild],
         mem' = swap_elements(root, LargerChild), root' = LargerChild,
         UNCHANGED <<count, phase, pos, sifting, end, given>>
  PROVE  QsortInv'
  <1> DEFINE c == LargerChild
  <1>1. /\ count \in Nat /\ pos \in Nat /\ end \in Nat /\ root \in Nat /\ count \in 0 .. Window
        /\ mem \in [Cells -> Values] /\ phase \in {"build", "extract"}
    BY Bounds DEF QsortInv, QsortTypeOK, QsortControl
  <1>2. /\ end \in Cells /\ end < count
        /\ c \in {2 * root + 1, 2 * root + 2} /\ c <= end
        /\ \A i \in {2 * root + 1, 2 * root + 2} : i <= end => mem[c] >= mem[i]
    BY PassReads
  <1>3. /\ mem' = Swapped(mem, root, c) /\ root' = c /\ mem[root] < mem[c]
        /\ sifting' = sifting /\ end' = end
        /\ count' = count /\ phase' = phase /\ pos' = pos /\ given' = given
    BY DEF swap_elements, Swapped
  <1> HIDE DEF c
  <1>4. /\ c \in Nat /\ root < c /\ root \in 0 .. (count - 1) /\ c \in 0 .. (count - 1)
        /\ root \in 0 .. end /\ c \in 0 .. end
    BY <1>1, <1>2
  <1>5. root \in Cells /\ c \in Cells
    BY <1>1, <1>4, Bounds DEF QsortInv
  <1>6. /\ mem' \in [Cells -> Values] /\ mem'[root] = mem[c] /\ mem'[c] = mem[root]
        /\ \A x \in Cells : x # root /\ x # c => mem'[x] = mem[x]
    BY <1>1, <1>3, <1>4, <1>5, SwapHolds
  <1>7. QsortTypeOK' /\ QsortControl'
    BY <1>1, <1>2, <1>3, <1>4, <1>6 DEF QsortInv, QsortTypeOK, QsortControl
  <1>8. Permutation(mem', given', count')
    <2>1. count >= 2
      BY <1>1 DEF QsortInv, QsortControl
    <2>2. Permutation(mem, given, count)
      <3>1. BeforeLastSift
        BY <1>1 DEF QsortInv, QsortControl, BeforeLastSift, LastSift
      <3> QED  BY <3>1, ContentsAre DEF QsortInv, SortsBeforeLastSift
    <2> QED  BY <1>1, <1>3, <1>4, <2>2, SwapPermutes
  <1>9. SortsBeforeLastSift'
    <2>1. Permuted'
      BY <1>8 DEF Permuted, Permutation, Holding, Array
    <2> QED  BY <1>3, <2>1 DEF SortsBeforeLastSift
  <1>10. ASSUME NEW first \in Nat, root >= first, HeapBut(mem, first, end, root)
         PROVE  HeapBut(mem', first, end, c)
    BY <1>1, <1>2, <1>3, <1>10, SiftGoesOn
  <1>11. ASSUME SortedBehind(mem, count, end)
         PROVE  SortedBehind(mem', count, end)
    <2> SUFFICES ASSUME NEW i \in 0 .. (count - 1), NEW j \in 0 .. (count - 1), i < j, j > end
                 PROVE  mem'[i] <= mem'[j]
      BY DEF SortedBehind
    <2>1. i \in Cells /\ j \in Cells
      BY Bounds DEF QsortInv
    <2>2. root < j /\ c < j
      BY <1>1, <1>4
    <2>3. mem'[j] = mem[j]
      BY <1>4, <1>6, <2>1, <2>2
    <2>4. \E k \in 0 .. (count - 1) : k < j /\ mem'[i] = mem[k]
      <3>1. CASE i = root
        BY <1>4, <1>6, <2>2, <3>1
      <3>2. CASE i = c
        BY <1>4, <1>6, <2>2, <3>2
      <3>3. CASE i # root /\ i # c
        BY <1>6, <2>1, <3>3
      <3> QED  BY <3>1, <3>2, <3>3
    <2> QED  BY <1>11, <2>3, <2>4 DEF SortedBehind
  <1>12. HeapOrder'
    <2>1. CASE phase = "build"
      <3>1. HeapBut(mem, pos - 1, end, root) /\ pos - 1 \in Nat /\ root >= pos - 1
        BY <1>1, <2>1 DEF QsortInv, HeapOrder, QsortControl
      <3>2. HeapBut(mem', pos - 1, end, c)
        BY <1>10, <3>1
      <3> QED  BY <1>3, <2>1, <3>2 DEF HeapOrder
    <2>2. CASE phase = "extract"
      <3>1. HeapBut(mem, 0, end, root) /\ SortedBehind(mem, count, end)
        BY <2>2 DEF QsortInv, HeapOrder
      <3>2. HeapBut(mem', 0, end, c) /\ SortedBehind(mem', count, end)
        BY <1>1, <1>10, <1>11, <3>1
      <3> QED  BY <1>3, <2>2, <3>2 DEF HeapOrder
    <2> QED  BY <1>1, <2>1, <2>2
  <1> QED  BY <1>7, <1>9, <1>12 DEF QsortInv

(* A pass of sift_down. *)
LEMMA SiftDownStep == QsortInv /\ SiftDown => QsortInv'
  <1> SUFFICES ASSUME QsortInv, SiftDown PROVE QsortInv'
    OBVIOUS
  <1>1. sifting /\ phase # "stray"
    BY DEF SiftDown
  <1>2. CASE end # 0
    <2>1. CASE root > LastParent /\ SiftReturns
      BY <1>1, <1>2, <2>1, PassReads, ReturnStep
    <2>2. CASE root <= LastParent /\ mem[root] >= mem[LargerChild] /\ SiftReturns
      <3>1. /\ count \in Nat /\ root \in Nat /\ end \in Cells /\ end < count
            /\ LargerChild \in {2 * root + 1, 2 * root + 2} /\ LargerChild <= end
            /\ \A i \in {2 * root + 1, 2 * root + 2} : i <= end => mem[LargerChild] >= mem[i]
        BY <1>1, <1>2, <2>2, Bounds, PassReads DEF QsortInv, QsortTypeOK
      <3>2. \A i \in Nat : i <= end => mem[i] \in Int
        BY <3>1, Bounds DEF QsortInv
      <3>3. \A i \in {2 * root + 1, 2 * root + 2} : i <= end => mem[root] >= mem[i]
        BY <2>2, <3>1, <3>2, Bounds DEF QsortInv
      <3> QED  BY <1>1, <2>2, <3>3, ReturnStep
    <2>3. CASE /\ root <= LastParent /\ mem[root] < mem[LargerChild]
               /\ mem' = swap_elements(root, LargerChild) /\ root' = LargerChild
               /\ UNCHANGED <<count, phase, pos, sifting, end, given>>
      BY <1>1, <1>2, <2>3, SwapStep
    <2>4. ~(root <= LastParent /\ Reach \notin Cells)
      BY <1>1, <1>2, PassReads
    <2> QED  BY <2>1, <2>2, <2>3, <2>4 DEF SiftDown
  <1>3. CASE end = 0
    <2>1. /\ count \in Nat /\ count >= 2 /\ pos \in Nat /\ pos = 1 /\ phase = "extract"
          /\ root \in Nat /\ mem \in [Cells -> Values]
      BY <1>1, <1>3, Bounds DEF QsortInv, QsortTypeOK, QsortControl
    <2>2. CASE SiftReturns
      BY <1>1, <1>3, <2>2, ReturnStep
    <2>3. CASE /\ Reach \in Cells /\ mem' = swap_elements(root, LargerChild)
               /\ root' = LargerChild
               /\ UNCHANGED <<count, phase, pos, sifting, end, given>>
      <3>1. LargerChild = 2 * root + 1 /\ Reach = 2 * root + 1
        BY <1>3, <2>1 DEF LargerChild, Reach, LeftChild
      <3>2. LargerChild \in Nat /\ LargerChild # 0 /\ LargerChild \in Cells /\ root \in Cells
        BY <2>1, <2>3, <3>1, QsortAssumption DEF Cells
      <3>3. mem' \in [Cells -> Values]
        BY <2>1, <2>3, <3>2 DEF swap_elements
      <3>4. QsortTypeOK' /\ QsortControl'
        BY <1>1, <1>3, <2>1, <2>3, <3>2, <3>3 DEF QsortInv, QsortTypeOK, QsortControl
      <3>5. HeapOrder'
        BY <1>3, <2>1, <2>3, <1>1 DEF HeapOrder
      <3>6. SortsBeforeLastSift'
        BY <1>1, <1>3, <2>1, <2>3, <3>2 DEF SortsBeforeLastSift, BeforeLastSift, LastSift
      <3> QED  BY <3>4, <3>5, <3>6 DEF QsortInv
    <2>4. CASE phase' = "stray" /\ UNCHANGED <<mem, count, pos, sifting, root, end, given>>
      <3>1. QsortTypeOK' /\ QsortControl' /\ HeapOrder'
        BY <1>1, <1>3, <2>1, <2>4 DEF QsortInv, QsortTypeOK, QsortControl, HeapOrder
      <3>2. SortsBeforeLastSift'
        BY <2>1, <2>4 DEF SortsBeforeLastSift, BeforeLastSift, LastSift
      <3> QED  BY <3>1, <3>2 DEF QsortInv
    <2> QED  BY <2>2, <2>3, <2>4 DEF SiftDown
  <1> QED  BY <1>2, <1>3

(* The invariant is kept by every step. *)
LEMMA StepQsort == QsortInv /\ [Next]_vars => QsortInv'
  <1>1. QsortInv /\ UNCHANGED vars => QsortInv'
    BY DEF vars, QsortInv, QsortTypeOK, QsortControl, HeapOrder, SortsBeforeLastSift,
           BeforeLastSift, LastSift, Permuted, Sorted, Array
  <1> QED  BY <1>1, CallStep, BuildStep, BuiltStep, ExtractStep, ExtractedStep, SiftDownStep
           DEF Next

(* Where nobody calls qsort nothing sorts. *)
LEMMA IdleStep == NoSort /\ [NextLibc]_libc => NoSort'
  <1>1. NoSort /\ UNCHANGED vars => NoSort'
    BY DEF NoSort, vars, Cells
  <1>2. NoSort => ~Next
    BY DEF NoSort, Next, Call, Build, Built, Extract, Extracted, SiftDown
  <1> QED  BY <1>1, <1>2 DEF NextLibc, libc

(* Every reachable state satisfies the invariant: of Libc, and so of any   *)
(* behaviour that calls qsort.                                             *)
THEOREM AlwaysQsort == LibcSpec => [](NoSort \/ QsortInv)
  <1>1. InitLibc => NoSort \/ QsortInv
    BY InitQsort DEF InitLibc
  <1>2. (NoSort \/ QsortInv) /\ [NextLibc]_libc => (NoSort \/ QsortInv)'
    <2>1. [NextLibc]_libc => [Next]_vars
      BY DEF NextLibc, libc
    <2> QED  BY <2>1, IdleStep, StepQsort
  <1> QED  BY <1>1, <1>2, PTL DEF LibcSpec

(* HeapOrdered: each sift_down is called on subtrees that are heaps and    *)
(* leaves a heap, and what is extracted is in order and above the heap.    *)
THEOREM HeapIsOrdered == LibcSpec => []HeapOrdered
  <1>1. QsortInv => HeapOrdered
    <2> SUFFICES ASSUME QsortInv, phase \in {"build", "extract"}, BeforeLastSift PROVE HeapOrdered
      BY DEF HeapOrdered
    <2>1. /\ count \in Nat /\ count >= 2 /\ pos \in Nat /\ sifting \in BOOLEAN
          /\ phase = "extract" /\ ~sifting => pos # 0
          /\ phase = "extract" /\ sifting => end # 0
      BY Bounds DEF QsortInv, QsortTypeOK, QsortControl, BeforeLastSift, LastSift
    <2>2. CASE phase = "build" /\ ~sifting
      BY <2>2 DEF QsortInv, HeapOrder, HeapFrom, HeapOrdered
    <2>3. CASE phase = "build" /\ sifting
      BY <2>3 DEF QsortInv, HeapOrder, HeapBut, HeapOrdered
    <2>4. CASE phase = "extract" /\ ~sifting
      BY <2>1, <2>4 DEF QsortInv, HeapOrder, HeapFrom, SortedBehind, Array, HeapOrdered
    <2>5. CASE phase = "extract" /\ sifting
      BY <2>1, <2>5 DEF QsortInv, HeapOrder, HeapBut, SortedBehind, Array, HeapOrdered
    <2> QED  BY <2>1, <2>2, <2>3, <2>4, <2>5
  <1>2. NoSort => HeapOrdered
    BY DEF NoSort, HeapOrdered
  <1> QED  BY <1>1, <1>2, AlwaysQsort, PTL

(* SortsBeforeLastSift: up to the last sift nothing is lost and nothing    *)
(* behind the array is written; when it is called the array is sorted.     *)
THEOREM SortedBeforeLastSift == LibcSpec => []SortsBeforeLastSift
  <1>1. QsortInv => SortsBeforeLastSift
    BY DEF QsortInv
  <1>2. NoSort => SortsBeforeLastSift
    BY DEF NoSort, SortsBeforeLastSift, Permuted, Array
  <1> QED  BY <1>1, <1>2, AlwaysQsort, PTL

(* Before that last sift no access leaves the window: only the sift of a   *)
(* heap of one element, where end - 1 wraps, can end as "stray".           *)
THEOREM OnlyLastSiftStrays == LibcSpec => [](phase = "stray" => end = 0 /\ count >= 2)
  <1>1. QsortInv => (phase = "stray" => end = 0 /\ count >= 2)
    BY Bounds DEF QsortInv, QsortControl
  <1>2. NoSort => (phase = "stray" => end = 0 /\ count >= 2)
    BY DEF NoSort
  <1> QED  BY <1>1, <1>2, AlwaysQsort, PTL
=============================================================================
