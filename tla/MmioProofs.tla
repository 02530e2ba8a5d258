----------------------------- MODULE MmioProofs -----------------------------
(***************************************************************************)
(* Proofs about module Mmio, for tables of every size, trees of every      *)
(* height, pools of every size and every tree that the firmware may leave. *)
(***************************************************************************)
EXTENDS Mmio, Induction

-----------------------------------------------------------------------------
(* Recursion over the levels.                                              *)

(* What holds at the top and goes down a level holds at every level. *)
LEMMA DownInduction ==
  ASSUME NEW C, Levels + 1 \in C, \A l \in 1 .. Levels : l + 1 \in C => l \in C
  PROVE  \A l \in 1 .. (Levels + 1) : l \in C
  <1> DEFINE D == {n \in Nat : n <= Levels => (Levels + 1) - n \in C}
  <1>1. Levels \in Nat
    BY MmioAssumption
  <1>2. ASSUME NEW n \in Nat, \A m \in Nat : m < n => m \in D
        PROVE  n \in D
    <2>1. CASE n = 0
      BY <1>1, <2>1
    <2>2. CASE n # 0 /\ n <= Levels
      <3>1. n - 1 \in D /\ n - 1 <= Levels
        BY <1>1, <1>2, <2>2
      <3>2. (Levels + 1) - (n - 1) \in C
        BY <3>1
      <3>3. (Levels + 1) - (n - 1) = ((Levels + 1) - n) + 1 /\ (Levels + 1) - n \in 1 .. Levels
        BY <1>1, <2>2
      <3> QED  BY <3>2, <3>3
    <2>3. CASE n > Levels
      BY <1>1, <2>3
    <2> QED  BY <1>1, <2>1, <2>2, <2>3
  <1> HIDE DEF D
  <1>3. \A n \in Nat : n \in D
    BY <1>2, NumberInduction
  <1> SUFFICES ASSUME NEW l \in 1 .. (Levels + 1) PROVE l \in C
    OBVIOUS
  <1>4. (Levels + 1) - l \in D /\ (Levels + 1) - l <= Levels
    BY <1>1, <1>3
  <1>5. (Levels + 1) - ((Levels + 1) - l) = l
    BY <1>1
  <1> QED  BY <1>4, <1>5 DEF D

(* f is the function that Pages is, up to level n. *)
PagesOn(n, f) == f = [level \in 1 .. n |-> IF level = 1 THEN 1 ELSE Fan * f[level - 1]]

(* The recursion that defines Pages has a solution, of positive numbers. *)
LEMMA PagesArePositive ==
  /\ \A level \in 1 .. (Levels + 1) : Pages[level] \in Nat \ {0}
  /\ Pages[1] = 1
  <1> DEFINE D == {n \in Nat : \E f \in [1 .. n -> Nat \ {0}] : PagesOn(n, f)}
  <1>1. ASSUME NEW n \in Nat, \A m \in Nat : m < n => m \in D
        PROVE  n \in D
    <2>1. CASE n = 0
      <3> DEFINE f == [level \in 1 .. n |-> 1]
      <3>1. f \in [1 .. n -> Nat \ {0}] /\ PagesOn(n, f)
        BY <2>1 DEF PagesOn
      <3> QED  BY <3>1
    <2>2. CASE n # 0
      <3>1. PICK g \in [1 .. (n - 1) -> Nat \ {0}] : PagesOn(n - 1, g)
        <4> HIDE DEF D
        <4>1. n - 1 \in D
          BY <1>1, <2>2
        <4> QED  BY <4>1 DEF D
      <3> DEFINE f == [level \in 1 .. n |-> IF level = 1 THEN 1 ELSE Fan * g[level - 1]]
      <3>2. \A level \in 1 .. (n - 1) :
              g[level] = IF level = 1 THEN 1 ELSE Fan * g[level - 1]
        BY <3>1 DEF PagesOn
      <3>3. f \in [1 .. n -> Nat \ {0}]
        <4> SUFFICES ASSUME NEW level \in 1 .. n PROVE f[level] \in Nat \ {0}
          OBVIOUS
        <4>1. CASE level = 1
          BY <4>1
        <4>2. CASE level # 1
          <5>1. level - 1 \in 1 .. (n - 1)
            BY <4>2
          <5>2. g[level - 1] \in Nat \ {0} /\ Fan \in Nat \ {0}
            BY <5>1, MmioAssumption
          <5>3. \A x, y \in Nat \ {0} : x * y \in Nat \ {0}
            OBVIOUS
          <5> QED  BY <4>2, <5>2, <5>3
        <4> QED  BY <4>1, <4>2
      <3>4. \A level \in 1 .. n : level # 1 => f[level - 1] = g[level - 1]
        <4> SUFFICES ASSUME NEW level \in 1 .. n, level # 1 PROVE f[level - 1] = g[level - 1]
          OBVIOUS
        <4>1. level - 1 \in 1 .. (n - 1) /\ level - 1 \in 1 .. n
          OBVIOUS
        <4> QED  BY <3>2, <4>1
      <3>5. \A level \in 1 .. n : f[level] = IF level = 1 THEN 1 ELSE Fan * f[level - 1]
        <4>1. \A level \in 1 .. n : f[level] = IF level = 1 THEN 1 ELSE Fan * g[level - 1]
          OBVIOUS
        <4> HIDE DEF f
        <4> QED  BY <3>4, <4>1
      <3> HIDE DEF f
      <3>6. f = [level \in 1 .. n |-> f[level]]
        BY <3>3
      <3>7. PagesOn(n, f)
        BY <3>5, <3>6 DEF PagesOn
      <3> QED  BY <3>3, <3>7
    <2> QED  BY <2>1, <2>2
  <1> HIDE DEF D
  <1>2. Levels + 1 \in D
    <2>1. \A n \in Nat : n \in D
      BY <1>1, NumberInduction
    <2> QED  BY <2>1, MmioAssumption
  <1>3. PagesOn(Levels + 1, Pages)
    BY <1>2 DEF D, PagesOn, Pages
  <1>4. \A level \in 1 .. (Levels + 1) :
          Pages[level] = IF level = 1 THEN 1 ELSE Fan * Pages[level - 1]
    BY <1>3 DEF PagesOn
  <1> DEFINE E == {n \in Nat : n \in 1 .. (Levels + 1) => Pages[n] \in Nat \ {0}}
  <1>5. Levels \in Nat /\ Fan \in Nat \ {0}
    BY MmioAssumption
  <1>6. ASSUME NEW n \in Nat, \A m \in Nat : m < n => m \in E
        PROVE  n \in E
    <2>1. CASE n \in 1 .. (Levels + 1) /\ n # 1
      <3>1. n - 1 \in E /\ n - 1 \in 1 .. (Levels + 1)
        BY <1>5, <1>6, <2>1
      <3>2. Pages[n - 1] \in Nat \ {0} /\ Pages[n] = Fan * Pages[n - 1]
        BY <1>4, <2>1, <3>1
      <3>3. \A x, y \in Nat \ {0} : x * y \in Nat \ {0}
        OBVIOUS
      <3> QED  BY <1>5, <3>2, <3>3
    <2>2. CASE n \in 1 .. (Levels + 1) /\ n = 1
      BY <1>4, <2>2
    <2> QED  BY <2>1, <2>2
  <1>7. \A n \in Nat : n \in E
    <2> HIDE DEF E
    <2> QED  BY <1>6, NumberInduction
  <1> QED  BY <1>4, <1>5, <1>7

(* What selects an entry of a table is a number below Fan. *)
LEMMA SlotsAre ==
  ASSUME NEW v \in Int, NEW level \in 1 .. Levels
  PROVE  slot(v, level) \in Slots
  <1>1. Pages[level] \in Nat \ {0} /\ Fan \in Nat \ {0}
    BY PagesArePositive, MmioAssumption
  <1>2. \A x \in Nat \ {0}, y \in Nat \ {0} : (v \div x) % y \in 0 .. (y - 1)
    OBVIOUS
  <1> QED  BY <1>1, <1>2 DEF slot, Slots

(* The code's page numbers are numbers. *)
LEMMA VirtualIs ==
  ASSUME NEW page \in Int
  PROVE  virtual(page) \in Int
  <1>1. Max \in Nat /\ PageSize \in Nat \ {0} /\ (Max + 1) % PageSize = 0 /\ Offset \in Nat
    BY MmioAssumption
  <1>2. (Max + 1) \div PageSize \in Nat \ {0}
    BY <1>1
  <1>3. \A x \in Int, y \in Nat \ {0} : x % y \in Int
    OBVIOUS
  <1> QED  BY <1>1, <1>2, <1>3 DEF virtual

(* One step of the walk: the entry at a level, by the one above. *)
Step(T, v, above, level) ==
  IF above.kind = "table" THEN T[above.to][slot(v, level)] ELSE above

(* The walk goes from the root down. *)
LEMMA WalkIs ==
  ASSUME NEW T, NEW v
  PROVE  /\ Walk(T, v)[Levels + 1] = ToTable(0)
         /\ \A l \in 1 .. Levels : Walk(T, v)[l] = Step(T, v, Walk(T, v)[l + 1], l)
  <1> DEFINE Body(f, l) == IF l = Levels + 1 THEN ToTable(0) ELSE Step(T, v, f[l + 1], l)
             On(k, f) == f = [l \in k .. (Levels + 1) |-> Body(f, l)]
             C == {k \in 1 .. (Levels + 1) : \E f : On(k, f)}
  <1>1. Levels \in Nat \ {0}
    BY MmioAssumption
  <1>2. Levels + 1 \in C
    <2> DEFINE f == [l \in (Levels + 1) .. (Levels + 1) |-> ToTable(0)]
    <2>1. On(Levels + 1, f)
      BY <1>1
    <2> HIDE DEF On, f
    <2> QED  BY <1>1, <2>1
  <1>3. ASSUME NEW k \in 1 .. Levels, k + 1 \in C
        PROVE  k \in C
    <2>1. PICK g : On(k + 1, g)
      BY <1>3
    <2> DEFINE f == [l \in k .. (Levels + 1) |-> Body(g, l)]
    <2>2. \A l \in (k + 1) .. (Levels + 1) : g[l] = Body(g, l)
      BY <2>1
    <2>3. \A l \in k .. (Levels + 1) : l # Levels + 1 => f[l + 1] = g[l + 1]
      <3> SUFFICES ASSUME NEW l \in k .. (Levels + 1), l # Levels + 1 PROVE f[l + 1] = g[l + 1]
        OBVIOUS
      <3>1. l + 1 \in (k + 1) .. (Levels + 1) /\ l + 1 \in k .. (Levels + 1)
        BY <1>1
      <3>2. f[l + 1] = Body(g, l + 1)
        BY <3>1
      <3> QED  BY <2>2, <3>1, <3>2
    <2>4. \A l \in k .. (Levels + 1) : f[l] = Body(f, l)
      <3>1. \A l \in k .. (Levels + 1) : f[l] = Body(g, l)
        OBVIOUS
      <3> HIDE DEF f
      <3> QED  BY <2>3, <3>1
    <2>5. f = [l \in k .. (Levels + 1) |-> f[l]]
      OBVIOUS
    <2> HIDE DEF f
    <2>6. On(k, f)
      BY <2>4, <2>5
    <2> QED  BY <1>1, <2>6
  <1>4. 1 \in C
    <2> HIDE DEF C
    <2>1. \A l \in 1 .. (Levels + 1) : l \in C
      BY <1>2, <1>3, DownInduction
    <2> QED  BY <1>1, <2>1
  <1>5. Walk(T, v) = (CHOOSE f : On(1, f))
    BY DEF Walk, Step
  <1>6. On(1, Walk(T, v))
    <2>1. \E f : On(1, f)
      BY <1>4
    <2> HIDE DEF On
    <2> QED  BY <1>5, <2>1
  <1> DEFINE w == Walk(T, v)
  <1>7. On(1, w)
    BY <1>6
  <1> HIDE DEF w
  <1>8. \A l \in 1 .. (Levels + 1) : w[l] = Body(w, l)
    BY <1>7
  <1>9. w[Levels + 1] = ToTable(0)
    BY <1>1, <1>8
  <1>10. \A l \in 1 .. Levels : w[l] = Step(T, v, w[l + 1], l)
    BY <1>1, <1>8
  <1> QED  BY <1>9, <1>10 DEF w

-----------------------------------------------------------------------------
(* Walks through tables that have levels.                                  *)

Sane(T) ==
  /\ T \in [Tables -> [Slots -> EntryType]]
  /\ \E height \in [Tables -> 1 .. Levels] : Levelled(T, height)

(* A walk finds tables of the level that it is at. *)
LEMMA WalkHeights ==
  ASSUME NEW T \in [Tables -> [Slots -> EntryType]],
         NEW height \in [Tables -> 1 .. Levels], Levelled(T, height), NEW v \in Int
  PROVE  \A l \in 1 .. (Levels + 1) :
           /\ Walk(T, v)[l] \in EntryType
           /\ Walk(T, v)[l].kind = "table" =>
                Walk(T, v)[l].to \in Tables /\ height[Walk(T, v)[l].to] = l - 1
  <1> DEFINE w == Walk(T, v)
             C == {l \in 1 .. (Levels + 1) :
                     /\ w[l] \in EntryType
                     /\ w[l].kind = "table" => w[l].to \in Tables /\ height[w[l].to] = l - 1}
  <1>1. Levels \in Nat \ {0} /\ 0 \in Tables
    BY MmioAssumption DEF Tables
  <1>2. w[Levels + 1] = ToTable(0) /\ \A l \in 1 .. Levels : w[l] = Step(T, v, w[l + 1], l)
    BY WalkIs
  <1> HIDE DEF w
  <1>3. Levels + 1 \in C
    <2>1. ToTable(0) \in EntryType /\ ToTable(0).to = 0
      BY DEF ToTable, EntryType
    <2>2. height[0] = Levels
      BY DEF Levelled
    <2> QED  BY <1>1, <1>2, <2>1, <2>2
  <1>4. ASSUME NEW l \in 1 .. Levels, l + 1 \in C
        PROVE  l \in C
    <2>1. l + 1 \in 1 .. (Levels + 1) /\ l \in 1 .. (Levels + 1) /\ (l + 1) - 1 = l
      BY <1>1
    <2>4. w[l + 1] \in EntryType
      BY <1>4
    <2>2. CASE w[l + 1].kind = "table"
      <3> DEFINE a == w[l + 1].to
                 r == slot(v, l)
      <3>1. a \in Tables /\ height[a] = l
        <4>1. a \in Tables /\ height[a] = (l + 1) - 1
          BY <1>4, <2>2
        <4> QED  BY <2>1, <4>1
      <3>2. r \in Slots
        BY SlotsAre
      <3>3. w[l] = T[a][r]
        BY <1>2, <2>2 DEF Step
      <3> HIDE DEF a, r
      <3>4. T[a][r] \in EntryType
        BY <3>1, <3>2
      <3>5. T[a][r].kind = "table" =>
              T[a][r].to \in Tables /\ height[T[a][r].to] = height[a] - 1
        BY <3>1, <3>2 DEF Levelled
      <3> QED  BY <2>1, <3>1, <3>3, <3>4, <3>5
    <2>3. CASE w[l + 1].kind # "table"
      <3>1. w[l] = w[l + 1]
        BY <1>2, <2>3 DEF Step
      <3> QED  BY <2>1, <2>3, <2>4, <3>1
    <2> QED  BY <2>2, <2>3
  <1> HIDE DEF C
  <1>5. \A l \in 1 .. (Levels + 1) : l \in C
    BY <1>3, <1>4, DownInduction
  <1> QED  BY <1>5 DEF C, w

(* A walk finds entries, tables among them, and none at the last level. *)
LEMMA WalkFinds ==
  ASSUME NEW T, Sane(T), NEW v \in Int
  PROVE  /\ \A l \in 1 .. (Levels + 1) :
              /\ Walk(T, v)[l] \in EntryType
              /\ Walk(T, v)[l].kind = "table" => Walk(T, v)[l].to \in Tables
         /\ Walk(T, v)[1].kind # "table"
  <1>1. PICK height \in [Tables -> 1 .. Levels] : Levelled(T, height)
    BY DEF Sane
  <1>2. T \in [Tables -> [Slots -> EntryType]]
    BY DEF Sane
  <1>3. \A l \in 1 .. (Levels + 1) :
           /\ Walk(T, v)[l] \in EntryType
           /\ Walk(T, v)[l].kind = "table" =>
                Walk(T, v)[l].to \in Tables /\ height[Walk(T, v)[l].to] = l - 1
    BY <1>1, <1>2, WalkHeights
  <1>4. 1 \in 1 .. (Levels + 1)
    BY MmioAssumption
  <1>5. Walk(T, v)[1].kind # "table"
    <2> SUFFICES ASSUME Walk(T, v)[1].kind = "table" PROVE FALSE
      OBVIOUS
    <2>1. height[Walk(T, v)[1].to] \in 1 .. Levels /\ height[Walk(T, v)[1].to] = 1 - 1
      BY <1>3, <1>4
    <2> QED  BY <2>1, MmioAssumption
  <1> QED  BY <1>3, <1>5

(* Where a walk ends, it stays. *)
LEMMA WalkEnds ==
  ASSUME NEW T, NEW v, NEW l \in 1 .. (Levels + 1), Walk(T, v)[l].kind # "table"
  PROVE  Walk(T, v)[1] = Walk(T, v)[l]
  <1> DEFINE w == Walk(T, v)
             C == {k \in 1 .. (Levels + 1) : k <= l => w[k] = w[l]}
  <1>1. Levels \in Nat \ {0}
    BY MmioAssumption
  <1>2. Levels + 1 \in C
    BY <1>1
  <1>3. ASSUME NEW k \in 1 .. Levels, k + 1 \in C
        PROVE  k \in C
    <2>1. w[k] = Step(T, v, w[k + 1], k)
      BY WalkIs
    <2> HIDE DEF w
    <2>2. CASE k < l
      <3>1. w[k + 1] = w[l]
        BY <1>1, <1>3, <2>2
      <3>2. w[l].kind # "table"
        BY DEF w
      <3> QED  BY <1>1, <2>1, <3>1, <3>2 DEF Step
    <2>3. CASE ~(k < l)
      BY <1>1, <2>3
    <2> QED  BY <2>2, <2>3
  <1> HIDE DEF C
  <1>4. \A k \in 1 .. (Levels + 1) : k \in C
    BY <1>2, <1>3, DownInduction
  <1>5. 1 \in 1 .. (Levels + 1) /\ 1 <= l
    BY <1>1
  <1> QED  BY <1>4, <1>5 DEF C

(* U has all the links that T has. *)
HasLinks(T, U) ==
  \A t \in Tables, s \in Slots : T[t][s].kind = "table" => U[t][s] = T[t][s]

(* And the pages, as far as a translation tells. *)
HasPages(T, U) ==
  \A t \in Tables, s \in Slots :
    T[t][s].kind = "page" =>
      U[t][s].kind = "page" /\ U[t][s].to = T[t][s].to /\ U[t][s].span = T[t][s].span

(* A walk goes on from table to table where there are more links. *)
LEMMA WalkKeeps ==
  ASSUME NEW T, Sane(T), NEW U, HasLinks(T, U), NEW v \in Int
  PROVE  \A l \in 1 .. (Levels + 1) :
           Walk(T, v)[l].kind = "table" => Walk(U, v)[l] = Walk(T, v)[l]
  <1> DEFINE w == Walk(T, v)
             u == Walk(U, v)
             C == {l \in 1 .. (Levels + 1) : w[l].kind = "table" => u[l] = w[l]}
  <1>1. Levels \in Nat \ {0}
    BY MmioAssumption
  <1>2. /\ w[Levels + 1] = ToTable(0) /\ u[Levels + 1] = ToTable(0)
        /\ \A l \in 1 .. Levels : w[l] = Step(T, v, w[l + 1], l) /\ u[l] = Step(U, v, u[l + 1], l)
    BY WalkIs
  <1>3. \A l \in 1 .. (Levels + 1) : w[l].kind = "table" => w[l].to \in Tables
    BY WalkFinds
  <1> HIDE DEF w, u
  <1>4. Levels + 1 \in C
    BY <1>1, <1>2
  <1>5. ASSUME NEW l \in 1 .. Levels, l + 1 \in C
        PROVE  l \in C
    <2> SUFFICES ASSUME w[l].kind = "table" PROVE u[l] = w[l]
      BY <1>1
    <2>1. l + 1 \in 1 .. (Levels + 1)
      BY <1>1
    <2>2. w[l + 1].kind = "table"
      BY <1>2 DEF Step
    <2>3. u[l + 1] = w[l + 1] /\ w[l + 1].to \in Tables
      BY <1>3, <1>5, <2>1, <2>2
    <2>4. slot(v, l) \in Slots
      BY SlotsAre
    <2>5. w[l] = T[w[l + 1].to][slot(v, l)] /\ u[l] = U[w[l + 1].to][slot(v, l)]
      BY <1>2, <2>2, <2>3 DEF Step
    <2> QED  BY <2>3, <2>4, <2>5 DEF HasLinks
  <1> HIDE DEF C
  <1>6. \A l \in 1 .. (Levels + 1) : l \in C
    BY <1>4, <1>5, DownInduction
  <1> QED  BY <1>6 DEF C, w, u

(* Where there are more links and pages, what was translated still is, and *)
(* to the same page.                                                       *)
LEMMA TranslationKept ==
  ASSUME NEW T, Sane(T), NEW U, HasLinks(T, U), HasPages(T, U), NEW v \in Int,
         TranslatedIn(T, v) # Unmapped
  PROVE  TranslatedIn(U, v) = TranslatedIn(T, v)
  <1> DEFINE w == Walk(T, v)
             u == Walk(U, v)
             Same(l) == u[l].kind = "page" /\ u[l].to = w[l].to /\ u[l].span = w[l].span
             C == {l \in 1 .. (Levels + 1) : w[l].kind = "page" => Same(l)}
  <1>1. Levels \in Nat \ {0}
    BY MmioAssumption
  <1>2. /\ w[Levels + 1] = ToTable(0) /\ u[Levels + 1] = ToTable(0)
        /\ \A l \in 1 .. Levels : w[l] = Step(T, v, w[l + 1], l) /\ u[l] = Step(U, v, u[l + 1], l)
    BY WalkIs
  <1>3. /\ \A l \in 1 .. (Levels + 1) : w[l].kind = "table" => w[l].to \in Tables /\ u[l] = w[l]
        /\ \A l \in 1 .. (Levels + 1) : w[l] \in EntryType
    BY WalkFinds, WalkKeeps
  <1>4. w[1].kind = "page"
    BY DEF TranslatedIn
  <1> HIDE DEF w, u
  <1>5. Levels + 1 \in C
    BY <1>1, <1>2 DEF ToTable
  <1>6. ASSUME NEW l \in 1 .. Levels, l + 1 \in C
        PROVE  l \in C
    <2> SUFFICES ASSUME w[l].kind = "page" PROVE Same(l)
      BY <1>1
    <2>1. l + 1 \in 1 .. (Levels + 1)
      BY <1>1
    <2>2. CASE w[l + 1].kind = "table"
      <3>1. u[l + 1] = w[l + 1] /\ w[l + 1].to \in Tables /\ slot(v, l) \in Slots
        BY <1>3, <2>1, <2>2, SlotsAre
      <3>2. w[l] = T[w[l + 1].to][slot(v, l)] /\ u[l] = U[w[l + 1].to][slot(v, l)]
        BY <1>2, <2>2, <3>1 DEF Step
      <3> QED  BY <3>1, <3>2 DEF HasPages
    <2>3. CASE w[l + 1].kind # "table"
      <3>1. w[l] = w[l + 1]
        BY <1>2, <2>3 DEF Step
      <3>2. Same(l + 1)
        BY <1>6, <3>1
      <3>3. u[l] = u[l + 1]
        BY <1>2, <3>2 DEF Step
      <3> QED  BY <3>1, <3>2, <3>3
    <2> QED  BY <2>2, <2>3
  <1> HIDE DEF C
  <1>7. 1 \in C
    <2>1. \A l \in 1 .. (Levels + 1) : l \in C
      BY <1>5, <1>6, DownInduction
    <2> QED  BY <1>1, <2>1
  <1>8. Same(1)
    BY <1>4, <1>7 DEF C
  <1> QED  BY <1>4, <1>8 DEF TranslatedIn, w, u

-----------------------------------------------------------------------------
(* Trees.                                                                  *)

(* The same for a tree in terms of single links. *)
LEMMA TreeLinks ==
  ASSUME NEW T, NEW n
  PROVE  Tree(T, n) <=>
           \A t \in Tables :
             /\ t \in 1 .. (n - 1) => \E l : LinksTo(T, t) = {l}
             /\ t \notin 1 .. (n - 1) => LinksTo(T, t) = {}
  <1>1. ASSUME NEW t \in Tables
        PROVE  /\ Cardinality(LinksTo(T, t)) = 0 <=> LinksTo(T, t) = {}
               /\ Cardinality(LinksTo(T, t)) = 1 <=> \E l : LinksTo(T, t) = {l}
    <2>1. IsFiniteSet(LinksTo(T, t))
      <3>1. IsFiniteSet(Tables) /\ IsFiniteSet(Slots)
        BY FS_Interval, MmioAssumption DEF Tables, Slots
      <3>2. IsFiniteSet(Tables \X Slots)
        BY <3>1, FS_Product
      <3>3. LinksTo(T, t) \subseteq Tables \X Slots
        BY DEF LinksTo
      <3> QED  BY <3>2, <3>3, FS_Subset
    <2> DEFINE L == LinksTo(T, t)
    <2> HIDE DEF L
    <2>2. IsFiniteSet(L)
      BY <2>1 DEF L
    <2>3. Cardinality(L) = 0 <=> L = {}
      BY <2>2, FS_EmptySet
    <2>4. Cardinality(L) = 1 <=> \E l : L = {l}
      BY <2>2, FS_Singleton
    <2> QED  BY <2>3, <2>4 DEF L
  <1> QED  BY <1>1 DEF Tree

(* In a tree two walks that meet in a table took the same entries. *)
LEMMA SamePath ==
  ASSUME NEW T, Sane(T), NEW n, Tree(T, n), NEW v \in Int, NEW z \in Int,
         NEW l \in 1 .. (Levels + 1), Walk(T, v)[l].kind = "table",
         Walk(T, z)[l].kind = "table", Walk(T, v)[l].to = Walk(T, z)[l].to
  PROVE  \A k \in l .. Levels : slot(v, k) = slot(z, k)
  <1> DEFINE w == Walk(T, v)
             x == Walk(T, z)
             Meet(k) == w[k].kind = "table" /\ x[k].kind = "table" /\ w[k].to = x[k].to
             C == {k \in 1 .. (Levels + 1) :
                     Meet(k) => \A j \in k .. Levels : slot(v, j) = slot(z, j)}
  <1>1. Levels \in Nat \ {0}
    BY MmioAssumption
  <1>2. /\ \A k \in 1 .. Levels : w[k] = Step(T, v, w[k + 1], k) /\ x[k] = Step(T, z, x[k + 1], k)
        /\ \A k \in 1 .. (Levels + 1) : w[k].kind = "table" => w[k].to \in Tables
        /\ \A k \in 1 .. (Levels + 1) : x[k].kind = "table" => x[k].to \in Tables
    BY WalkIs, WalkFinds
  <1>3. Meet(l)
    OBVIOUS
  <1> HIDE DEF w, x
  <1>4. Levels + 1 \in C
    BY <1>1
  <1>5. ASSUME NEW k \in 1 .. Levels, k + 1 \in C
        PROVE  k \in C
    <2> SUFFICES ASSUME Meet(k) PROVE \A j \in k .. Levels : slot(v, j) = slot(z, j)
      BY <1>1
    <2>1. k + 1 \in 1 .. (Levels + 1) /\ k \in 1 .. (Levels + 1)
      BY <1>1
    <2>2. w[k + 1].kind = "table" /\ x[k + 1].kind = "table"
      BY <1>2 DEF Step
    <2> DEFINE a == w[k + 1].to
               b == x[k + 1].to
               r == slot(v, k)
               s == slot(z, k)
               t == w[k].to
    <2>3. a \in Tables /\ b \in Tables /\ r \in Slots /\ s \in Slots /\ t \in Tables
      BY <1>2, <2>1, <2>2, SlotsAre
    <2>4. w[k] = T[a][r] /\ x[k] = T[b][s]
      BY <1>2, <2>2 DEF Step
    <2>5. /\ T[a][r].kind = "table" /\ T[a][r].to = t
          /\ T[b][s].kind = "table" /\ T[b][s].to = t
      BY <2>4
    <2> HIDE DEF a, b, r, s, t
    <2>6. <<a, r>> \in LinksTo(T, t) /\ <<b, s>> \in LinksTo(T, t)
      BY <2>3, <2>5 DEF LinksTo
    <2>7. <<a, r>> = <<b, s>>
      <3>1. \E l1 : LinksTo(T, t) = {l1}
        BY <2>3, <2>6, TreeLinks
      <3> QED  BY <2>6, <3>1
    <2>8. a = b /\ r = s
      BY <2>7
    <2>9. Meet(k + 1)
      BY <2>2, <2>8 DEF a, b
    <2>10. \A j \in (k + 1) .. Levels : slot(v, j) = slot(z, j)
      BY <1>5, <2>9
    <2>11. slot(v, k) = slot(z, k)
      BY <2>8 DEF r, s
    <2> QED  BY <1>1, <2>10, <2>11
  <1> HIDE DEF C
  <1>6. l \in C
    BY <1>4, <1>5, DownInduction
  <1> QED  BY <1>3, <1>6 DEF C

-----------------------------------------------------------------------------
(* Writing one entry.                                                      *)

(* U is T but for the entry at s of table a, which is e. *)
Written(T, U, a, s, e) ==
  /\ U \in [Tables -> [Slots -> EntryType]]
  /\ U[a][s] = e
  /\ \A t \in Tables, r \in Slots : <<t, r>> # <<a, s>> => U[t][r] = T[t][r]

(* Where single pages are mapped to themselves. *)
Leaves(T) ==
  \A page \in Wanted :
    Walk(T, virtual(page))[2].kind = "table" /\ Walk(T, virtual(page))[1].kind = "page" =>
      Walk(T, virtual(page))[1].to = page

(* The entry at s of a belongs to page alone: the walk for page ends there. *)
Position(T, page, level, a) ==
  /\ Walk(T, virtual(page))[level + 1].kind = "table"
  /\ Walk(T, virtual(page))[level + 1].to = a

(* A page is entered at level 1: its height, its links and the pages of    *)
(* all walks stay.                                                         *)
LEMMA PageWritten ==
  ASSUME NEW T, Sane(T), NEW n, Tree(T, n), Leaves(T),
         NEW page \in Wanted, page \in Nat, NEW a \in Tables, Position(T, page, 1, a),
         NEW U, Written(T, U, a, slot(virtual(page), 1), Page(page))
  PROVE  /\ Sane(U) /\ Tree(U, n) /\ Leaves(U)
         /\ HasLinks(T, U) /\ HasPages(T, U)
         /\ TranslatedIn(U, virtual(page)) = page
  <1> DEFINE v == virtual(page)
             s == slot(v, 1)
  <1>1. Levels \in Nat \ {0} /\ 1 \in 1 .. Levels /\ 2 \in 1 .. (Levels + 1)
    BY MmioAssumption
  <1>2. v \in Int /\ s \in Slots
    BY <1>1, VirtualIs, SlotsAre
  <1>3. PICK height \in [Tables -> 1 .. Levels] : Levelled(T, height)
    BY DEF Sane
  <1>4. T \in [Tables -> [Slots -> EntryType]]
    BY DEF Sane
  <1>5. /\ Walk(T, v)[2].kind = "table" /\ Walk(T, v)[2].to = a
        /\ Walk(T, v)[1] = T[a][s]
    <2>1. Walk(T, v)[1 + 1].kind = "table" /\ Walk(T, v)[1 + 1].to = a
      BY DEF Position
    <2>2. Walk(T, v)[1] = Step(T, v, Walk(T, v)[1 + 1], 1)
      BY <1>1, WalkIs
    <2> QED  BY <2>1, <2>2 DEF Step
  <1>6. height[a] = 1
    <2>1. height[Walk(T, v)[2].to] = 2 - 1
      BY <1>1, <1>2, <1>3, <1>4, <1>5, WalkHeights
    <2> QED  BY <1>5, <2>1
  <1>7. T[a][s].kind # "table"
    BY <1>2, <1>5, WalkFinds
  <1>8. T[a][s].kind = "page" => T[a][s].to = page /\ T[a][s].span = 1
    <2>1. T[a][s].kind = "page" => T[a][s].to = page
      BY <1>5 DEF Leaves
    <2>2. T[a][s].kind = "page" => T[a][s].span = Pages[height[a]]
      BY <1>2, <1>3 DEF Levelled
    <2> QED  BY <1>6, <2>1, <2>2, PagesArePositive
  <1>9. /\ Page(page).kind = "page" /\ Page(page).to = page /\ Page(page).span = 1
    BY DEF Page
  <1> HIDE DEF s
  <1>10. /\ U \in [Tables -> [Slots -> EntryType]] /\ U[a][s] = Page(page)
         /\ \A t \in Tables, r \in Slots : <<t, r>> # <<a, s>> => U[t][r] = T[t][r]
    BY DEF Written, s
  <1>11. \A t \in Tables, r \in Slots : t # a \/ r # s => U[t][r] = T[t][r]
    BY <1>10
  <1>12. \A t \in Tables, r \in Slots :
           T[t][r].kind = "table" \/ U[t][r].kind = "table" => U[t][r] = T[t][r]
    BY <1>2, <1>7, <1>9, <1>10, <1>11
  <1>13. HasLinks(T, U) /\ HasLinks(U, T)
    BY <1>12 DEF HasLinks
  <1>14. HasPages(T, U)
    BY <1>2, <1>8, <1>9, <1>10, <1>11 DEF HasPages
  <1>15. Sane(U)
    <2>1. Levelled(U, height)
      <3>1. height[0] = Levels
        BY <1>3 DEF Levelled
      <3>2. ASSUME NEW t \in Tables, NEW r \in Slots
            PROVE  /\ U[t][r].kind = "table" => /\ U[t][r].to \in Tables
                                                /\ height[U[t][r].to] = height[t] - 1
                   /\ U[t][r].kind = "page" => U[t][r].span = Pages[height[t]]
        <4>1. CASE t = a /\ r = s
          BY <1>6, <1>9, <1>10, <4>1, PagesArePositive
        <4>2. CASE t # a \/ r # s
          BY <1>3, <1>11, <4>2 DEF Levelled
        <4> QED  BY <4>1, <4>2
      <3> QED  BY <3>1, <3>2 DEF Levelled
    <2> QED  BY <1>3, <1>10, <2>1 DEF Sane
  <1>16. Tree(U, n)
    <2>1. ASSUME NEW t \in Tables
          PROVE  LinksTo(U, t) = LinksTo(T, t)
      BY <1>12 DEF LinksTo
    <2> QED  BY <2>1 DEF Tree
  <1>17. Leaves(U)
    <2> SUFFICES ASSUME NEW p \in Wanted, Walk(U, virtual(p))[2].kind = "table",
                        Walk(U, virtual(p))[1].kind = "page"
                 PROVE  Walk(U, virtual(p))[1].to = p
      BY DEF Leaves
    <2> DEFINE z == virtual(p)
               b == Walk(T, z)[2].to
               r == slot(z, 1)
    <2>1. p \in Int
      BY DEF Wanted
    <2>2. z \in Int
      BY <2>1, VirtualIs
    <2>3. Walk(T, z)[2] = Walk(U, z)[2]
      BY <1>1, <1>13, <1>15, <2>2, WalkKeeps
    <2>4. b \in Tables /\ r \in Slots
      BY <1>1, <2>2, <2>3, WalkFinds, SlotsAre
    <2>5. Walk(T, z)[1] = T[b][r] /\ Walk(U, z)[1] = U[b][r]
      <3>1. Walk(T, z)[1] = Step(T, z, Walk(T, z)[1 + 1], 1)
        BY <1>1, WalkIs
      <3>2. Walk(U, z)[1] = Step(U, z, Walk(U, z)[1 + 1], 1)
        BY <1>1, WalkIs
      <3> QED  BY <2>3, <3>1, <3>2 DEF Step
    <2>6. CASE b = a /\ r = s
      <3>1. \A k \in 2 .. Levels : slot(v, k) = slot(z, k)
        BY <1>1, <1>2, <1>5, <2>2, <2>3, <2>6, SamePath
      <3>2. \A k \in 1 .. Levels : slot(v, k) = slot(z, k)
        BY <1>1, <2>6, <3>1 DEF s
      <3>3. p = page
        BY <3>2, SpanAssumption
      <3> QED  BY <1>9, <1>10, <2>5, <2>6, <3>3
    <2>7. CASE b # a \/ r # s
      <3>1. Walk(U, z)[1] = Walk(T, z)[1]
        BY <1>11, <2>4, <2>5, <2>7
      <3> QED  BY <2>3, <3>1 DEF Leaves
    <2> QED  BY <2>6, <2>7
  <1>18. TranslatedIn(U, v) = page
    <2>1. Walk(U, v)[2] = Walk(T, v)[2]
      BY <1>1, <1>2, <1>5, <1>13, WalkKeeps
    <2>2. Walk(U, v)[1] = Step(U, v, Walk(U, v)[1 + 1], 1)
      BY <1>1, WalkIs
    <2>3. Walk(U, v)[1] = Page(page)
      BY <1>5, <1>10, <2>1, <2>2 DEF Step, s
    <2>4. page + (v % 1) = page
      BY <1>2
    <2> QED  BY <1>9, <2>3, <2>4 DEF TranslatedIn
  <1> QED  BY <1>13, <1>14, <1>15, <1>16, <1>17, <1>18

(* No walk comes to a table that has no link to it. *)
LEMMA WalkAvoids ==
  ASSUME NEW T, Sane(T), NEW n \in Tables, n # 0, LinksTo(T, n) = {}, NEW v \in Int,
         NEW l \in 1 .. (Levels + 1), Walk(T, v)[l].kind = "table"
  PROVE  Walk(T, v)[l].to # n
  <1>1. Levels \in Nat \ {0}
    BY MmioAssumption
  <1>2. CASE l = Levels + 1
    BY <1>2, WalkIs DEF ToTable
  <1>3. CASE l # Levels + 1
    <2> DEFINE above == Walk(T, v)[l + 1]
               r == slot(v, l)
    <2>1. l \in 1 .. Levels /\ l + 1 \in 1 .. (Levels + 1)
      BY <1>1, <1>3
    <2>2. Walk(T, v)[l] = Step(T, v, above, l)
      BY <2>1, WalkIs
    <2>3. above.kind = "table"
      BY <2>2 DEF Step
    <2>4. above.to \in Tables /\ r \in Slots
      BY <2>1, <2>3, WalkFinds, SlotsAre
    <2>5. T[above.to][r].kind = "table" /\ T[above.to][r].to = Walk(T, v)[l].to
      BY <2>2, <2>3 DEF Step
    <2> HIDE DEF above, r
    <2>6. Walk(T, v)[l].to = n => <<above.to, r>> \in LinksTo(T, n)
      BY <2>4, <2>5 DEF LinksTo
    <2> QED  BY <2>6
  <1> QED  BY <1>2, <1>3

(* An empty table without a link is linked in: walks that end on the way   *)
(* find it instead of nothing, and others do not notice.                   *)
LEMMA TableLinked ==
  ASSUME NEW T, Sane(T), NEW n \in Tables, n # 0, Tree(T, n), T[n] = Empty, Leaves(T),
         NEW page \in Wanted, NEW level \in 2 .. Levels, NEW a \in Tables,
         Position(T, page, level, a), T[a][slot(virtual(page), level)].kind = "absent",
         NEW U, Written(T, U, a, slot(virtual(page), level), ToTable(n))
  PROVE  /\ Sane(U) /\ Tree(U, n + 1) /\ Leaves(U)
         /\ HasLinks(T, U) /\ HasPages(T, U)
         /\ Position(U, page, level - 1, n)
  <1> DEFINE v == virtual(page)
             s == slot(v, level)
  <1>1. /\ Levels \in Nat \ {0} /\ n \in Nat
        /\ level \in 1 .. Levels /\ level + 1 \in 1 .. (Levels + 1)
        /\ level - 1 \in 1 .. Levels /\ (level - 1) + 1 = level
    BY MmioAssumption DEF Tables
  <1>2. v \in Int /\ s \in Slots
    <2>1. page \in Int
      BY DEF Wanted
    <2> QED  BY <1>1, <2>1, VirtualIs, SlotsAre
  <1>3. PICK height \in [Tables -> 1 .. Levels] : Levelled(T, height)
    BY DEF Sane
  <1>4. T \in [Tables -> [Slots -> EntryType]]
    BY DEF Sane
  <1>5. Walk(T, v)[level + 1].kind = "table" /\ Walk(T, v)[level + 1].to = a
    BY DEF Position
  <1>6. height[a] = level
    <2>1. height[Walk(T, v)[level + 1].to] = (level + 1) - 1
      BY <1>1, <1>2, <1>3, <1>4, <1>5, WalkHeights
    <2> QED  BY <1>1, <1>5, <2>1
  <1>7. LinksTo(T, n) = {}
    <2>1. n \notin 1 .. (n - 1)
      BY <1>1
    <2> QED  BY <2>1, TreeLinks
  <1>8. a # n
    BY <1>1, <1>2, <1>5, <1>7, WalkAvoids
  <1>9. T[a][s].kind = "absent"
    OBVIOUS
  <1>10. /\ U \in [Tables -> [Slots -> EntryType]] /\ U[a][s] = ToTable(n)
         /\ \A t \in Tables, r \in Slots : t # a \/ r # s => U[t][r] = T[t][r]
    BY DEF Written
  <1> HIDE DEF s
  <1>11. /\ ToTable(n).kind = "table" /\ ToTable(n).to = n
         /\ \A r \in Slots : T[n][r].kind = "absent"
    BY DEF ToTable, Empty, Absent
  <1>12. \A t \in Tables, r \in Slots : T[t][r].kind = "table" => T[t][r].to # n
    <2> SUFFICES ASSUME NEW t \in Tables, NEW r \in Slots,
                        T[t][r].kind = "table", T[t][r].to = n
                 PROVE  FALSE
      OBVIOUS
    <2>1. <<t, r>> \in LinksTo(T, n)
      BY DEF LinksTo
    <2> QED  BY <1>7, <2>1
  <1>13. HasLinks(T, U) /\ HasPages(T, U)
    BY <1>9, <1>10 DEF HasLinks, HasPages
  <1>14. Sane(U)
    <2> DEFINE g == [height EXCEPT ![n] = level - 1]
    <2>1. /\ g \in [Tables -> 1 .. Levels] /\ g[n] = level - 1
          /\ \A t \in Tables : t # n => g[t] = height[t]
      BY <1>1, <1>3
    <2> HIDE DEF g
    <2>2. 0 \in Tables /\ g[0] = Levels
      BY <1>3, <2>1, MmioAssumption DEF Levelled, Tables
    <2>3. ASSUME NEW t \in Tables, NEW r \in Slots
          PROVE  /\ U[t][r].kind = "table" => /\ U[t][r].to \in Tables
                                              /\ g[U[t][r].to] = g[t] - 1
                 /\ U[t][r].kind = "page" => U[t][r].span = Pages[g[t]]
      <3>1. CASE t = a /\ r = s
        BY <1>6, <1>8, <1>10, <1>11, <2>1, <3>1
      <3>2. CASE t = n
        BY <1>8, <1>10, <1>11, <3>2
      <3>3. CASE t # n /\ (t # a \/ r # s)
        <4>1. U[t][r] = T[t][r] /\ g[t] = height[t]
          BY <1>10, <2>1, <3>3
        <4>2. T[t][r].kind = "table" => /\ T[t][r].to \in Tables
                                       /\ height[T[t][r].to] = height[t] - 1
          BY <1>3 DEF Levelled
        <4>3. T[t][r].kind = "page" => T[t][r].span = Pages[height[t]]
          BY <1>3 DEF Levelled
        <4> QED  BY <1>12, <2>1, <4>1, <4>2, <4>3
      <3> QED  BY <3>1, <3>2, <3>3
    <2>4. Levelled(U, g)
      BY <2>2, <2>3 DEF Levelled
    <2> QED  BY <1>10, <2>1, <2>4 DEF Sane
  <1>15. Tree(U, n + 1)
    <2>1. ASSUME NEW t \in Tables, t # n
          PROVE  LinksTo(U, t) = LinksTo(T, t)
      <3>1. ASSUME NEW b \in Tables, NEW r \in Slots
            PROVE  U[b][r].kind = "table" /\ U[b][r].to = t
                     <=> T[b][r].kind = "table" /\ T[b][r].to = t
        BY <1>9, <1>10, <1>11, <2>1
      <3> QED  BY <3>1 DEF LinksTo
    <2>2. LinksTo(U, n) = {<<a, s>>}
      <3>1. ASSUME NEW b \in Tables, NEW r \in Slots
            PROVE  U[b][r].kind = "table" /\ U[b][r].to = n <=> b = a /\ r = s
        BY <1>10, <1>11, <1>12
      <3> QED  BY <1>2, <3>1 DEF LinksTo
    <2>3. ASSUME NEW t \in Tables
          PROVE  /\ t \in 1 .. ((n + 1) - 1) => \E l : LinksTo(U, t) = {l}
                 /\ t \notin 1 .. ((n + 1) - 1) => LinksTo(U, t) = {}
      <3>1. CASE t = n
        <4>1. t \in 1 .. ((n + 1) - 1)
          BY <1>1, <3>1
        <4> QED  BY <2>2, <3>1, <4>1
      <3>2. CASE t # n
        <4>1. t \in 1 .. ((n + 1) - 1) <=> t \in 1 .. (n - 1)
          BY <1>1, <3>2
        <4>2. /\ t \in 1 .. (n - 1) => \E l : LinksTo(T, t) = {l}
              /\ t \notin 1 .. (n - 1) => LinksTo(T, t) = {}
          BY TreeLinks
        <4> QED  BY <2>1, <3>2, <4>1, <4>2
      <3> QED  BY <3>1, <3>2
    <2> QED  BY <2>3, TreeLinks
  <1>16. Leaves(U)
    <2> SUFFICES ASSUME NEW p \in Wanted, Walk(U, virtual(p))[2].kind = "table",
                        Walk(U, virtual(p))[1].kind = "page"
                 PROVE  Walk(U, virtual(p))[1].to = p
      BY DEF Leaves
    <2> DEFINE z == virtual(p)
               w == Walk(T, z)
               u == Walk(U, z)
               Alike(l) == \/ u[l] = w[l]
                           \/ u[l].kind = "table" /\ u[l].to = n
                           \/ u[l].kind = "absent"
               C == {l \in 1 .. (Levels + 1) : Alike(l)}
    <2>1. p \in Int
      BY DEF Wanted
    <2>2. z \in Int
      BY <2>1, VirtualIs
    <2>3. /\ w[Levels + 1] = ToTable(0) /\ u[Levels + 1] = ToTable(0)
          /\ \A l \in 1 .. Levels : w[l] = Step(T, z, w[l + 1], l) /\ u[l] = Step(U, z, u[l + 1], l)
          /\ \A l \in 1 .. (Levels + 1) : w[l].kind = "table" => w[l].to \in Tables
      BY <2>2, WalkIs, WalkFinds
    <2>4. u[2].kind = "table" /\ u[1].kind = "page"
      OBVIOUS
    <2>5. w[2].kind = "table" /\ w[1].kind = "page" => w[1].to = p
      BY DEF Leaves
    <2> HIDE DEF w, u
    <2>6. ASSUME NEW l \in 1 .. Levels, u[l + 1].kind = "table", u[l + 1].to = n
          PROVE  u[l].kind = "absent"
      <3>1. slot(z, l) \in Slots
        BY <2>2, SlotsAre
      <3>2. u[l] = U[n][slot(z, l)]
        BY <2>3, <2>6 DEF Step
      <3> QED  BY <1>8, <1>10, <1>11, <3>1, <3>2
    <2>7. Levels + 1 \in C
      BY <1>1, <2>3
    <2>8. ASSUME NEW l \in 1 .. Levels, l + 1 \in C
          PROVE  l \in C
      <3> SUFFICES Alike(l)
        BY <1>1
      <3>1. CASE u[l + 1] = w[l + 1] /\ w[l + 1].kind = "table"
        <4>1. l + 1 \in 1 .. (Levels + 1) /\ slot(z, l) \in Slots
          BY <1>1, <2>2, SlotsAre
        <4>2. w[l + 1].to \in Tables
          BY <2>3, <3>1, <4>1
        <4>3. u[l] = U[w[l + 1].to][slot(z, l)] /\ w[l] = T[w[l + 1].to][slot(z, l)]
          BY <2>3, <3>1 DEF Step
        <4> QED  BY <1>10, <1>11, <4>1, <4>2, <4>3
      <3>2. CASE u[l + 1] = w[l + 1] /\ w[l + 1].kind # "table"
        BY <2>3, <3>2 DEF Step
      <3>3. CASE u[l + 1].kind = "table" /\ u[l + 1].to = n
        BY <2>6, <3>3
      <3>4. CASE u[l + 1].kind = "absent"
        BY <2>3, <3>4 DEF Step
      <3> QED  BY <2>8, <3>1, <3>2, <3>3, <3>4
    <2>9. \A l \in 1 .. (Levels + 1) : Alike(l)
      <3> HIDE DEF C
      <3>1. \A l \in 1 .. (Levels + 1) : l \in C
        BY <2>7, <2>8, DownInduction
      <3> QED  BY <3>1 DEF C
    <2>10. 1 \in 1 .. Levels /\ 1 \in 1 .. (Levels + 1) /\ 2 \in 1 .. (Levels + 1) /\ 1 + 1 = 2
      BY <1>1
    <2>11. u[1] = w[1]
      BY <2>4, <2>9, <2>10
    <2>12. u[2] = w[2]
      <3>1. ~(u[2].kind = "table" /\ u[2].to = n)
        BY <2>4, <2>6, <2>10
      <3> QED  BY <2>4, <2>9, <2>10, <3>1
    <2> QED  BY <2>4, <2>5, <2>11, <2>12 DEF u
  <1>17. Position(U, page, level - 1, n)
    <2>1. Walk(U, v)[level + 1] = Walk(T, v)[level + 1]
      BY <1>1, <1>2, <1>5, <1>13, WalkKeeps
    <2>2. Walk(U, v)[level] = Step(U, v, Walk(U, v)[level + 1], level)
      BY <1>1, WalkIs
    <2>3. Walk(U, v)[level] = ToTable(n)
      BY <1>5, <1>10, <2>1, <2>2 DEF Step, s
    <2> QED  BY <1>1, <1>11, <2>3 DEF Position
  <1> QED  BY <1>13, <1>14, <1>15, <1>16, <1>17

-----------------------------------------------------------------------------
(* The invariant.                                                          *)

(* The tables T, the first n of them in use. *)
Memory(T, n) ==
  /\ Sane(T) /\ Tree(T, n) /\ Leaves(T)
  /\ \A t \in Tables : t >= n => T[t] = Empty

(* A call c under way has got to a table on the walk for its page. *)
Under(T, c) ==
  /\ c \in [physical : 0 .. Max, length : 0 .. Max, page : Nat,
            level : 1 .. Levels, table : Tables]
  /\ c.length # 0 /\ start(c) .. (end(c) - 1) \subseteq Wanted
  /\ start(c) <= c.page /\ (c.page <= end(c) \/ c.page = start(c))
  /\ Position(T, c.page, c.level, c.table)

(* The pages that it has mapped. *)
Done(c) == IF c = Idle THEN {} ELSE start(c) .. (c.page - 1)

Kept(T, pages) == \A page \in pages : TranslatedIn(T, virtual(page)) = page

(* Inductive: promises are kept because tables are a tree, in which a walk *)
(* is where it should be, and single pages are mapped to themselves.       *)
Inv ==
  /\ mmio_page_table_count \in 0 .. TableCount
  /\ Memory(tables, Firmware + mmio_page_table_count)
  /\ call = Idle \/ Under(tables, call)
  /\ promised \subseteq Wanted
  /\ Kept(tables, promised \cup Done(call))

(* A quotient is no larger than what is divided. *)
LEMMA QuotientIs ==
  ASSUME NEW x \in Nat, NEW y \in Nat \ {0}
  PROVE  x \div y \in Nat /\ x \div y <= x
  OBVIOUS

(* The pages of a range are page numbers. *)
LEMMA RangeIs ==
  ASSUME NEW c, c.physical \in 0 .. Max, c.length \in 0 .. Max
  PROVE  start(c) \in 0 .. Max /\ end(c) \in 0 .. Max
  <1>1. Max \in Nat /\ PageSize \in Nat \ {0}
    BY MmioAssumption
  <1>2. start(c) \in 0 .. Max
    <2>1. c.physical \div PageSize \in Nat /\ c.physical \div PageSize <= c.physical
      BY <1>1, QuotientIs
    <2> QED  BY <1>1, <2>1 DEF start
  <1>3. end(c) \in 0 .. Max
    <2> DEFINE x == (c.physical + c.length + PageSize - 1) % (Max + 1)
    <2>1. \A y \in Nat : y % (Max + 1) \in 0 .. Max
      BY <1>1
    <2>2. c.physical + c.length + PageSize - 1 \in Nat
      BY <1>1
    <2>3. x \in 0 .. Max
      BY <2>1, <2>2
    <2> HIDE DEF x
    <2>4. x \div PageSize \in Nat /\ x \div PageSize <= x
      BY <1>1, <2>3, QuotientIs
    <2>5. end(c) = x \div PageSize
      BY DEF end, x
    <2> QED  BY <1>1, <2>3, <2>4, <2>5
  <1> QED  BY <1>2, <1>3

(* Hence so are the pages that calls are about. *)
LEMMA WantedAre == Wanted \subseteq 0 .. Max
  <1> SUFFICES ASSUME NEW c \in Calls, NEW page \in start(c) .. (end(c) - 1)
               PROVE  page \in 0 .. Max
    BY DEF Wanted
  <1>1. start(c) \in 0 .. Max /\ end(c) \in 0 .. Max
    <2>1. c.physical \in 0 .. Max /\ c.length \in 0 .. Max
      BY MmioAssumption
    <2> QED  BY <2>1, RangeIs
  <1> QED  BY <1>1, MmioAssumption

(* Tables with more links and pages keep what was kept. *)
LEMMA KeptKeeps ==
  ASSUME NEW T, Sane(T), NEW U, HasLinks(T, U), HasPages(T, U),
         NEW pages, pages \subseteq Wanted, Kept(T, pages)
  PROVE  Kept(U, pages)
  <1> SUFFICES ASSUME NEW page \in pages PROVE TranslatedIn(U, virtual(page)) = page
    BY DEF Kept
  <1>1. page \in Nat
    BY WantedAre, MmioAssumption
  <1>2. TranslatedIn(T, virtual(page)) = page /\ page # Unmapped
    BY <1>1 DEF Kept, Unmapped
  <1> QED  BY <1>1, <1>2, VirtualIs, TranslationKept

(* The invariant holds of the firmware's tables. *)
LEMMA InitInv == Init => Inv
  <1> SUFFICES ASSUME Init PROVE Inv
    OBVIOUS
  <1>1. PICK tree \in Trees : tables = Initial(tree)
    BY DEF Init
  <1>2. mmio_page_table_count = 0 /\ call = Idle /\ promised = {}
    BY DEF Init
  <1>3. Sane(tables) /\ Tree(tables, Firmware) /\ Leaves(tables)
    BY <1>1, FirmwareAssumption DEF Sane, Leaves
  <1>4. \A t \in Tables : t >= Firmware => tables[t] = Empty
    BY <1>1, MmioAssumption DEF Initial, Tables
  <1>5. Firmware + mmio_page_table_count = Firmware /\ 0 \in 0 .. TableCount
    BY <1>2, MmioAssumption
  <1> QED  BY <1>2, <1>3, <1>4, <1>5 DEF Inv, Memory, Kept, Done

-----------------------------------------------------------------------------
(* The steps: each keeps the invariant and has all links and pages.        *)

Grows == HasLinks(tables, tables') /\ HasPages(tables, tables')

(* Where the tables stay, so do links and pages. *)
LEMMA NothingWritten ==
  ASSUME tables' = tables
  PROVE  Grows
  BY DEF Grows, HasLinks, HasPages

(* What a call under way is looking at. *)
LEMMA CallIs ==
  ASSUME Inv, call # Idle
  PROVE  /\ Under(tables, call) /\ Sane(tables)
         /\ start(call) \in Nat /\ end(call) \in Nat /\ call.page \in Nat
         /\ call.level \in 1 .. Levels /\ call.table \in Tables
         /\ virtual(call.page) \in Int
         /\ index(call.page, call.level) = slot(virtual(call.page), call.level)
         /\ index(call.page, call.level) \in Slots
         /\ Walk(tables, virtual(call.page))[call.level] = Entry
         /\ Entry \in EntryType
         /\ Walking => call.page \in Wanted
         /\ Done(call) \subseteq Wanted
  <1>1. Under(tables, call) /\ Sane(tables)
    BY DEF Inv, Memory
  <1>2. /\ call.physical \in 0 .. Max /\ call.length \in 0 .. Max /\ call.page \in Nat
        /\ call.level \in 1 .. Levels /\ call.table \in Tables
        /\ start(call) <= call.page /\ (call.page <= end(call) \/ call.page = start(call))
        /\ start(call) .. (end(call) - 1) \subseteq Wanted
        /\ Position(tables, call.page, call.level, call.table)
    BY <1>1 DEF Under
  <1>3. start(call) \in Nat /\ end(call) \in Nat
    BY <1>2, RangeIs, MmioAssumption
  <1>4. virtual(call.page) \in Int
    BY <1>2, VirtualIs
  <1>5. /\ index(call.page, call.level) = slot(virtual(call.page), call.level)
        /\ index(call.page, call.level) \in Slots
    BY <1>2, <1>4, SlotsAre DEF index
  <1>6. Walk(tables, virtual(call.page))[call.level] = Entry
    <2>1. Walk(tables, virtual(call.page))[call.level] =
            Step(tables, virtual(call.page), Walk(tables, virtual(call.page))[call.level + 1],
                 call.level)
      BY <1>2, WalkIs
    <2> QED  BY <1>2, <1>5, <2>1 DEF Step, Position, Entry
  <1>7. Entry \in EntryType
    BY <1>1, <1>2, <1>5 DEF Entry, Sane
  <1>8. Walking => call.page \in Wanted
    BY <1>2, <1>3 DEF Walking
  <1>9. Done(call) \subseteq Wanted
    <2>1. start(call) .. (call.page - 1) \subseteq start(call) .. (end(call) - 1)
      BY <1>2, <1>3
    <2> QED  BY <1>2, <2>1 DEF Done
  <1> QED  BY <1>1, <1>2, <1>3, <1>4, <1>5, <1>6, <1>7, <1>8, <1>9

(* A call begins its first page at the root. *)
LEMMA CallStep ==
  ASSUME Inv, NEW c \in Calls, platform_map_mmio(c)
  PROVE  Inv' /\ Grows
  <1>1. /\ call' = [physical |-> c.physical, length |-> c.length,
                     page |-> start(c), level |-> Levels, table |-> 0]
        /\ Accepted(c) /\ call = Idle
        /\ tables' = tables /\ promised' = promised
        /\ mmio_page_table_count' = mmio_page_table_count
    BY DEF platform_map_mmio
  <1>2. /\ c.physical \in 0 .. Max /\ c.length \in 0 .. Max /\ c.length # 0
        /\ Levels \in Nat \ {0} /\ Max \in Nat /\ 0 \in Tables
    BY <1>1, MmioAssumption DEF Accepted, Tables
  <1>3. start(c) \in Nat /\ end(c) \in Nat
    BY <1>2, RangeIs
  <1>4. start(call') = start(c) /\ end(call') = end(c)
    BY <1>1 DEF start, end
  <1>5. start(c) .. (end(c) - 1) \subseteq Wanted
    BY <1>1 DEF Wanted
  <1>6. Position(tables, start(c), Levels, 0)
    BY WalkIs DEF Position, ToTable
  <1>7. Under(tables, call')
    BY <1>1, <1>2, <1>3, <1>4, <1>5, <1>6 DEF Under
  <1>8. Done(call') = {} /\ Done(call) = {}
    <2>1. call'.length # 0 /\ Idle.length = 0
      BY <1>1, <1>2 DEF Idle
    <2>2. call' # Idle
      BY <2>1
    <2>3. Done(call') = start(c) .. (start(c) - 1)
      BY <1>1, <1>4, <2>2 DEF Done
    <2>4. start(c) .. (start(c) - 1) = {}
      BY <1>3
    <2> QED  BY <1>1, <2>3, <2>4 DEF Done
  <1> QED  BY <1>1, <1>7, <1>8, NothingWritten DEF Inv

(* A step that gives up the call. *)
LEMMA GivesUp ==
  ASSUME Inv, call' = Idle, UNCHANGED <<tables, mmio_page_table_count, promised>>
  PROVE  Inv' /\ Grows
  <1>1. Done(call') = {}
    BY DEF Done
  <1> QED  BY <1>1, NothingWritten DEF Inv, Kept

(* The page after one that is mapped begins at the root. *)
LEMMA NextUnder ==
  ASSUME Inv, Walking, NextPage, NEW U
  PROVE  /\ Under(U, call') /\ call' # Idle
         /\ Done(call') = Done(call) \cup {call.page}
  <1>1. call # Idle /\ call.page < end(call)
    BY DEF Walking
  <1>2. /\ call \in [physical : 0 .. Max, length : 0 .. Max, page : Nat,
                     level : 1 .. Levels, table : Tables]
        /\ call.length # 0 /\ start(call) .. (end(call) - 1) \subseteq Wanted
        /\ start(call) <= call.page /\ start(call) \in Nat /\ end(call) \in Nat
    BY <1>1, CallIs DEF Under
  <1>3. Levels \in 1 .. Levels /\ 0 \in Tables
    BY MmioAssumption DEF Tables
  <1>4. /\ call' = [call EXCEPT !.page = call.page + 1, !.level = Levels, !.table = 0]
        /\ call'.page = call.page + 1 /\ call'.level = Levels /\ call'.table = 0
        /\ call'.length = call.length /\ call'.physical = call.physical
    BY <1>2 DEF NextPage
  <1>5. call' \in [physical : 0 .. Max, length : 0 .. Max, page : Nat,
                  level : 1 .. Levels, table : Tables]
    <2>1. call' = [call EXCEPT !.page = call.page + 1, !.level = Levels, !.table = 0]
      BY <1>4
    <2>2. call.page + 1 \in Nat
      BY <1>2
    <2> QED  BY <1>2, <1>3, <2>1, <2>2
  <1>6. start(call') = start(call) /\ end(call') = end(call)
    BY <1>4 DEF start, end
  <1>7. Position(U, call'.page, call'.level, call'.table)
    BY <1>4, WalkIs DEF Position, ToTable
  <1>8. Under(U, call')
    BY <1>1, <1>2, <1>4, <1>5, <1>6, <1>7 DEF Under
  <1>9. call' # Idle
    BY <1>2, <1>4 DEF Idle
  <1>10. Done(call') = start(call) .. call.page
    <2>1. (call.page + 1) - 1 = call.page
      BY <1>2
    <2> QED  BY <1>4, <1>6, <1>9, <2>1 DEF Done
  <1>11. start(call) .. call.page = (start(call) .. (call.page - 1)) \cup {call.page}
    BY <1>2
  <1> QED  BY <1>1, <1>8, <1>9, <1>10, <1>11 DEF Done

(* A walk that goes on, in tables that have the link to go on by. *)
LEMMA DescendUnder ==
  ASSUME Inv, Walking, call.level > 1, NEW t \in Tables, Descend(t), NEW U,
         Position(U, call.page, call.level - 1, t)
  PROVE  Under(U, call') /\ call' # Idle /\ Done(call') = Done(call)
  <1>1. call # Idle
    BY DEF Walking
  <1>2. /\ call \in [physical : 0 .. Max, length : 0 .. Max, page : Nat,
                     level : 1 .. Levels, table : Tables]
        /\ call.length # 0 /\ start(call) .. (end(call) - 1) \subseteq Wanted
        /\ start(call) <= call.page /\ (call.page <= end(call) \/ call.page = start(call))
    BY <1>1, CallIs DEF Under
  <1>3. call' = [call EXCEPT !.table = t, !.level = call.level - 1]
    BY DEF Descend
  <1>4. /\ call'.page = call.page /\ call'.level = call.level - 1 /\ call'.table = t
        /\ call'.length = call.length /\ call'.physical = call.physical
    BY <1>2, <1>3
  <1>5. call' \in [physical : 0 .. Max, length : 0 .. Max, page : Nat,
                  level : 1 .. Levels, table : Tables]
    <2>1. call.level - 1 \in 1 .. Levels
      BY <1>2, MmioAssumption
    <2> QED  BY <1>2, <1>3, <2>1
  <1>6. start(call') = start(call) /\ end(call') = end(call)
    BY <1>4 DEF start, end
  <1>7. Under(U, call')
    BY <1>2, <1>4, <1>5, <1>6 DEF Under
  <1>8. call' # Idle
    BY <1>2, <1>4 DEF Idle
  <1>9. Done(call') = Done(call)
    BY <1>1, <1>4, <1>6, <1>8 DEF Done
  <1> QED  BY <1>7, <1>8, <1>9

(* One table further down the walk. *)
LEMMA FollowStep ==
  ASSUME Inv, Follow
  PROVE  Inv' /\ Grows
  <1>1. /\ Walking /\ call # Idle /\ call.level > 1 /\ Entry.kind = "table"
        /\ Descend(Entry.to) /\ tables' = tables /\ promised' = promised
        /\ mmio_page_table_count' = mmio_page_table_count
    BY DEF Follow, Walking
  <1>2. /\ call.level \in 1 .. Levels /\ virtual(call.page) \in Int
        /\ Walk(tables, virtual(call.page))[call.level] = Entry /\ Sane(tables)
    BY <1>1, CallIs
  <1>3. Entry.to \in Tables
    <2>1. call.level \in 1 .. (Levels + 1)
      BY <1>2, MmioAssumption
    <2> QED  BY <1>1, <1>2, <2>1, WalkFinds
  <1>4. Position(tables, call.page, call.level - 1, Entry.to)
    <2>1. (call.level - 1) + 1 = call.level
      BY <1>2
    <2> QED  BY <1>1, <1>2, <2>1 DEF Position
  <1>5. Under(tables, call') /\ Done(call') = Done(call)
    BY <1>1, <1>3, <1>4, DescendUnder
  <1> QED  BY <1>1, <1>5, NothingWritten DEF Inv

(* Part of a large page that is this very page, or the end of the call.    *)
LEMMA LargeStep ==
  ASSUME Inv, Large
  PROVE  Inv' /\ Grows
  <1>1. /\ Walking /\ call # Idle /\ Entry.kind = "page"
        /\ tables' = tables /\ promised' = promised
        /\ mmio_page_table_count' = mmio_page_table_count
    BY DEF Large, Walking
  <1>2. CASE ~MapsSelf(Entry)
    BY <1>2, GivesUp DEF Large
  <1>3. CASE MapsSelf(Entry)
    <2>1. NextPage
      BY <1>3 DEF Large
    <2>2. Under(tables, call') /\ Done(call') = Done(call) \cup {call.page}
      BY <1>1, <2>1, NextUnder
    <2>3. TranslatedIn(tables, virtual(call.page)) = call.page
      <3>1. /\ call.level \in 1 .. Levels
            /\ Walk(tables, virtual(call.page))[call.level] = Entry
        BY <1>1, CallIs
      <3>2. call.level \in 1 .. (Levels + 1)
        BY <3>1, MmioAssumption
      <3>3. Walk(tables, virtual(call.page))[1] = Entry
        BY <1>1, <3>1, <3>2, WalkEnds
      <3> QED  BY <1>1, <1>3, <3>3 DEF TranslatedIn, MapsSelf
    <2>4. Kept(tables, promised \cup Done(call'))
      BY <2>2, <2>3 DEF Kept, Inv
    <2> QED  BY <1>1, <2>2, <2>4, NothingWritten DEF Inv
  <1> QED  BY <1>2, <1>3

(* A table of the pool is linked in. *)
LEMMA AllocateStep ==
  ASSUME Inv, Allocate
  PROVE  Inv' /\ Grows
  <1> DEFINE n == Firmware + mmio_page_table_count
             s == index(call.page, call.level)
             a == call.table
  <1>1. /\ Walking /\ call # Idle /\ call.level > 1 /\ Entry.kind = "absent"
        /\ mmio_page_table_count < TableCount
        /\ mmio_page_table_count' = mmio_page_table_count + 1
        /\ tables' = [Put(ToTable(n)) EXCEPT ![n] = Empty]
        /\ Descend(n) /\ promised' = promised
    BY DEF Allocate, Walking
  <1>2. /\ call.level \in 1 .. Levels /\ virtual(call.page) \in Int /\ Sane(tables)
        /\ a \in Tables /\ s \in Slots /\ s = slot(virtual(call.page), call.level)
        /\ call.page \in Wanted /\ Done(call) \subseteq Wanted
        /\ Position(tables, call.page, call.level, a)
    BY <1>1, CallIs DEF Under
  <1>3. /\ mmio_page_table_count \in Nat /\ TableCount \in Nat /\ Firmware \in Nat \ {0}
        /\ n \in Nat /\ n # 0 /\ n \in Tables
        /\ n + 1 = Firmware + mmio_page_table_count'
        /\ mmio_page_table_count' \in 0 .. TableCount
    BY <1>1, MmioAssumption DEF Inv, Tables
  <1>4. /\ Tree(tables, n) /\ Leaves(tables)
        /\ \A t \in Tables : t >= n => tables[t] = Empty
        /\ promised \subseteq Wanted /\ Kept(tables, promised \cup Done(call))
    BY DEF Inv, Memory
  <1>5. tables[a][s].kind = "absent" /\ tables \in [Tables -> [Slots -> EntryType]]
    BY <1>1, <1>2 DEF Entry, Sane
  <1>6. ToTable(n) \in EntryType /\ Empty \in [Slots -> EntryType]
    BY <1>3 DEF ToTable, EntryType, Empty, Absent
  <1> HIDE DEF n, s, a
  <1>7. tables[n] = Empty
    BY <1>3, <1>4
  <1>8. a \in Nat /\ a < n
    <2>1. /\ Walk(tables, virtual(call.page))[call.level + 1].kind = "table"
          /\ Walk(tables, virtual(call.page))[call.level + 1].to = a
      BY <1>2 DEF Position
    <2>2. call.level + 1 \in 1 .. (Levels + 1)
      BY <1>2, MmioAssumption
    <2>3. a \in Nat
      BY <1>2, MmioAssumption DEF Tables
    <2>4. ASSUME a >= n
          PROVE  FALSE
      <3>1. a \notin 1 .. (n - 1) /\ a # 0
        BY <1>3, <2>3, <2>4
      <3>2. LinksTo(tables, a) = {}
        BY <1>2, <1>4, <3>1, TreeLinks
      <3> QED  BY <1>2, <2>1, <2>2, <3>1, <3>2, WalkAvoids
    <2> QED  BY <1>3, <2>3, <2>4
  <1>9. Written(tables, tables', a, s, ToTable(n))
    <2> DEFINE p == [tables EXCEPT ![a][s] = ToTable(n)]
    <2>1. tables' = [p EXCEPT ![n] = Empty]
      BY <1>1 DEF Put, a, s
    <2>2. /\ p \in [Tables -> [Slots -> EntryType]] /\ p[a][s] = ToTable(n)
          /\ \A t \in Tables, r \in Slots : t # a \/ r # s => p[t][r] = tables[t][r]
      BY <1>2, <1>5, <1>6
    <2> HIDE DEF p
    <2>3. /\ tables' \in [Tables -> [Slots -> EntryType]] /\ tables'[n] = Empty
          /\ \A t \in Tables : t # n => tables'[t] = p[t]
      BY <1>3, <1>6, <2>1, <2>2
    <2>4. \A t \in Tables, r \in Slots : <<t, r>> # <<a, s>> => tables'[t][r] = tables[t][r]
      <3> SUFFICES ASSUME NEW t \in Tables, NEW r \in Slots, t # a \/ r # s
                   PROVE  tables'[t][r] = tables[t][r]
        OBVIOUS
      <3>1. CASE t = n
        BY <1>7, <2>3, <3>1
      <3>2. CASE t # n
        BY <2>2, <2>3, <3>2
      <3> QED  BY <3>1, <3>2
    <2>5. tables'[a][s] = ToTable(n)
      BY <1>2, <1>3, <1>8, <2>2, <2>3
    <2> QED  BY <2>3, <2>4, <2>5 DEF Written
  <1>10. call.level \in 2 .. Levels
    BY <1>1, <1>2, MmioAssumption
  <1>11. /\ Sane(tables') /\ Tree(tables', n + 1) /\ Leaves(tables')
         /\ HasLinks(tables, tables') /\ HasPages(tables, tables')
         /\ Position(tables', call.page, call.level - 1, n)
    BY <1>2, <1>3, <1>4, <1>5, <1>7, <1>9, <1>10, TableLinked
  <1>12. Under(tables', call') /\ Done(call') = Done(call)
    <2>1. Descend(n)
      BY <1>1 DEF n
    <2> QED  BY <1>1, <1>3, <1>11, <2>1, DescendUnder
  <1>13. \A t \in Tables : t >= n + 1 => tables'[t] = Empty
    <2> SUFFICES ASSUME NEW t \in Tables, t >= n + 1 PROVE tables'[t] = Empty
      OBVIOUS
    <2>1. t \in Nat /\ t # a /\ t >= n
      BY <1>3, <1>8, MmioAssumption DEF Tables
    <2>2. tables'[t] = tables[t]
      <3>1. tables'[t] \in [Slots -> EntryType] /\ tables[t] \in [Slots -> EntryType]
        BY <1>5, <1>9 DEF Written
      <3>2. \A r \in Slots : tables'[t][r] = tables[t][r]
        BY <1>9, <2>1 DEF Written
      <3> QED  BY <3>1, <3>2
    <2> QED  BY <1>4, <2>1, <2>2
  <1>14. Kept(tables', promised' \cup Done(call'))
    BY <1>1, <1>2, <1>4, <1>11, <1>12, KeptKeeps
  <1>15. Memory(tables', Firmware + mmio_page_table_count')
    BY <1>3, <1>11, <1>13 DEF Memory
  <1> QED  BY <1>1, <1>3, <1>4, <1>11, <1>12, <1>14, <1>15 DEF Inv, Grows

(* The page is entered into the table of the last level. *)
LEMMA MapPageStep ==
  ASSUME Inv, MapPage
  PROVE  Inv' /\ Grows
  <1> DEFINE n == Firmware + mmio_page_table_count
             s == index(call.page, call.level)
             a == call.table
  <1>1. /\ Walking /\ call # Idle /\ call.level = 1
        /\ tables' = Put(Page(call.page)) /\ NextPage
        /\ promised' = promised /\ mmio_page_table_count' = mmio_page_table_count
    BY DEF MapPage, Walking
  <1>2. /\ call.level \in 1 .. Levels /\ virtual(call.page) \in Int /\ Sane(tables)
        /\ a \in Tables /\ s \in Slots /\ s = slot(virtual(call.page), 1)
        /\ call.page \in Wanted /\ call.page \in Nat /\ Done(call) \subseteq Wanted
        /\ Position(tables, call.page, 1, a)
    BY <1>1, CallIs DEF Under
  <1>3. /\ Tree(tables, n) /\ Leaves(tables) /\ n \in Nat
        /\ \A t \in Tables : t >= n => tables[t] = Empty
        /\ promised \subseteq Wanted /\ Kept(tables, promised \cup Done(call))
    BY MmioAssumption DEF Inv, Memory
  <1>4. tables \in [Tables -> [Slots -> EntryType]] /\ Page(call.page) \in EntryType
    BY <1>2 DEF Sane, Page, EntryType
  <1>5. tables' = [tables EXCEPT ![a][s] = Page(call.page)]
    BY <1>1 DEF Put
  <1> HIDE DEF n, s, a
  <1>6. Written(tables, tables', a, s, Page(call.page))
    BY <1>2, <1>4, <1>5 DEF Written
  <1>7. a \in Nat /\ a < n
    <2>1. /\ Walk(tables, virtual(call.page))[1 + 1].kind = "table"
          /\ Walk(tables, virtual(call.page))[1 + 1].to = a
      BY <1>2 DEF Position
    <2>2. 1 + 1 \in 1 .. (Levels + 1)
      BY MmioAssumption
    <2>3. a \in Nat /\ n # 0
      BY <1>2, MmioAssumption DEF Tables, n, Inv
    <2>4. ASSUME a >= n
          PROVE  FALSE
      <3>1. a \notin 1 .. (n - 1) /\ a # 0
        BY <1>3, <2>3, <2>4
      <3>2. LinksTo(tables, a) = {}
        BY <1>2, <1>3, <3>1, TreeLinks
      <3> QED  BY <1>2, <2>1, <2>2, <3>1, <3>2, WalkAvoids
    <2> QED  BY <1>3, <2>3, <2>4
  <1>8. /\ Sane(tables') /\ Tree(tables', n) /\ Leaves(tables')
        /\ HasLinks(tables, tables') /\ HasPages(tables, tables')
        /\ TranslatedIn(tables', virtual(call.page)) = call.page
    BY <1>2, <1>3, <1>6, PageWritten
  <1>9. Under(tables', call') /\ Done(call') = Done(call) \cup {call.page}
    BY <1>1, NextUnder
  <1>10. \A t \in Tables : t >= n => tables'[t] = Empty
    <2> SUFFICES ASSUME NEW t \in Tables, t >= n PROVE tables'[t] = Empty
      OBVIOUS
    <2>1. t # a
      BY <1>3, <1>7
    <2>2. tables'[t] = tables[t]
      BY <1>4, <1>5, <2>1
    <2> QED  BY <1>3, <2>2
  <1>11. Kept(tables', promised' \cup Done(call'))
    <2>1. Kept(tables', promised \cup Done(call))
      BY <1>2, <1>3, <1>8, KeptKeeps
    <2> QED  BY <1>1, <1>8, <1>9, <2>1 DEF Kept
  <1>12. Memory(tables', Firmware + mmio_page_table_count')
    BY <1>1, <1>8, <1>10 DEF Memory, n
  <1> QED  BY <1>1, <1>3, <1>8, <1>9, <1>11, <1>12 DEF Inv, Grows

(* The pointer is returned: all its pages are mapped. *)
LEMMA ReturnStep ==
  ASSUME Inv, Return
  PROVE  Inv' /\ Grows
  <1>1. /\ call # Idle /\ ~Walking /\ call' = Idle /\ tables' = tables
        /\ promised' = promised \cup (start(call) .. (end(call) - 1))
        /\ mmio_page_table_count' = mmio_page_table_count
    BY DEF Return
  <1>2. /\ start(call) \in Nat /\ end(call) \in Nat /\ call.page \in Nat
        /\ start(call) .. (end(call) - 1) \subseteq Wanted
    BY <1>1, CallIs DEF Under
  <1>3. start(call) .. (end(call) - 1) \subseteq Done(call)
    BY <1>1, <1>2 DEF Done, Walking
  <1>4. Done(call') = {}
    BY <1>1 DEF Done
  <1> QED  BY <1>1, <1>2, <1>3, <1>4, NothingWritten DEF Inv, Kept

(* Every step keeps the invariant, all links and all pages. *)
LEMMA StepInv == Inv /\ [Next]_vars => Inv' /\ Grows
  <1> SUFFICES ASSUME Inv, [Next]_vars PROVE Inv' /\ Grows
    OBVIOUS
  <1>1. CASE UNCHANGED vars
    BY <1>1, NothingWritten DEF vars, Inv
  <1>2. CASE Exhausted
    BY <1>2, GivesUp DEF Exhausted
  <1> QED  BY <1>1, <1>2, CallStep, FollowStep, LargeStep, AllocateStep, MapPageStep, ReturnStep
           DEF Next, Continue

(* Every reachable state satisfies the invariant. *)
THEOREM AlwaysInv == Spec => []Inv
  BY InitInv, StepInv, PTL DEF Spec

(* The walk never leaves the tables, nor the pool its size. *)
THEOREM TypesHold == Spec => []TypeOK
  <1>1. Inv => TypeOK
    <2> SUFFICES ASSUME Inv PROVE TypeOK
      OBVIOUS
    <2>1. /\ tables \in [Tables -> [Slots -> EntryType]]
          /\ mmio_page_table_count \in 0 .. TableCount /\ promised \subseteq 0 .. Max
      BY WantedAre DEF Inv, Memory, Sane
    <2>2. CASE call = Idle
      <3>1. 0 \in 0 .. Levels /\ 0 \in Tables /\ 0 \in 0 .. Max
        BY MmioAssumption DEF Tables
      <3> QED  BY <2>1, <2>2, <3>1 DEF TypeOK, Idle
    <2>3. CASE call # Idle
      <3>1. Under(tables, call)
        BY <2>3 DEF Inv
      <3>2. /\ call.physical \in 0 .. Max /\ call.length \in 0 .. Max /\ call.page \in Nat
            /\ call.level \in 1 .. Levels /\ call.table \in Tables
            /\ call.page <= end(call) \/ call.page = start(call)
        BY <3>1 DEF Under
      <3>3. start(call) \in 0 .. Max /\ end(call) \in 0 .. Max
        BY <3>2, RangeIs
      <3>4. call.page \in 0 .. Max /\ call.level \in 0 .. Levels
        BY <3>2, <3>3, MmioAssumption
      <3> QED  BY <2>1, <3>2, <3>4 DEF TypeOK
    <2> QED  BY <2>2, <2>3
  <1> QED  BY <1>1, AlwaysInv, PTL

(* The tables stay a tree, of the firmware's tables and those taken.       *)
THEOREM TablesStayTree == Spec => []TablesFormTree
  <1>1. Inv => TablesFormTree
    BY DEF Inv, Memory, TablesFormTree
  <1> QED  BY <1>1, AlwaysInv, PTL

(* A returned pointer stays good for the whole of its range. *)
THEOREM PromisesAreKept == Spec => []PromisesKept
  <1>1. Inv => PromisesKept
    BY DEF Inv, Kept, PromisesKept, Translated
  <1> QED  BY <1>1, AlwaysInv, PTL

(* No step changes a translation that there was. *)
THEOREM TranslationsAreKept == Spec => TranslationsKept
  <1> DEFINE Keep == \A v \in 0 .. (Pages[Levels + 1] - 1) :
                       Translated(v) # Unmapped => Translated(v)' = Translated(v)
  <1>1. Inv /\ [Next]_vars => [Keep]_vars
    <2> SUFFICES ASSUME Inv, [Next]_vars, NEW v \in 0 .. (Pages[Levels + 1] - 1),
                        Translated(v) # Unmapped
                 PROVE  Translated(v)' = Translated(v)
      OBVIOUS
    <2>1. HasLinks(tables, tables') /\ HasPages(tables, tables') /\ Sane(tables)
      BY StepInv DEF Grows, Inv, Memory
    <2>2. TranslatedIn(tables', v) = TranslatedIn(tables, v)
      BY <2>1, TranslationKept DEF Translated
    <2> QED  BY <2>2 DEF Translated
  <1> QED  BY <1>1, AlwaysInv, PTL DEF Spec, TranslationsKept
=============================================================================
