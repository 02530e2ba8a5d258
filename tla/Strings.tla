------------------------------- MODULE Strings -------------------------------
(***************************************************************************)
(* The memory and string functions of src/kernel/libc.c, on a small        *)
(* memory of bytes.  A loop is a recursive function or a fold over what it *)
(* counts, byte by byte and in the memory it writes, so that overlapping   *)
(* arguments interfere as they do in the code.  A pointer is an address; a *)
(* call is made if what it reads and writes lies in the memory, strings    *)
(* end there, and the C standard does not forbid it (only memmove is       *)
(* given areas that overlap).                                              *)
(***************************************************************************)
EXTENDS Integers, Sequences, SequencesExt

CONSTANTS
  Size, \* of the memory
  Bytes \* the values of a byte that occur

ASSUME StringsAssumption == Size \in Nat \ {0} /\ 0 \in Bytes /\ Bytes \subseteq 0 .. 255

VARIABLES
  memory,
  call \* history: the call that was made, the memory before, what it returned

strings == <<memory, call>>

Addresses == 0 .. (Size - 1)
NULL == -1
NoCall == [op |-> "none"]

(* The numbers a loop counts from 0, and back to 0. *)
Upward(count) == [i \in 1 .. count |-> i - 1]
Downward(count) == [i \in 1 .. count |-> count - i]

(* output[i] = input[i] for each i in turn. *)
CopyEach(m, output, input, order) ==
  FoldLeft(LAMBDA n, i : [n EXCEPT ![output + i] = n[input + i]], m, order)

memcpy(m, destination, source, count) == CopyEach(m, destination, source, Upward(count))

(* Mutant: the areas are taken to be apart. *)
CopiesUpward(m, destination, source, count) ==
  CopyEach(m, destination, source, Upward(count))

memmove(m, destination, source, count) ==
  CASE destination < source -> CopyEach(m, destination, source, Upward(count))
    [] destination > source -> CopyEach(m, destination, source, Downward(count))
    [] OTHER -> m

memset(m, destination, value, count) ==
  FoldLeft(LAMBDA n, i : [n EXCEPT ![destination + i] = value % 256], m, Upward(count))

(* Where a walk along a text ends: at its zero.  That it ends with the     *)
(* memory is for definiteness only: the texts of the calls end before.     *)
Ends(m, a) == a >= Size - 1 \/ m[a] = 0

strlen(m, text) ==
  LET rest[a \in Addresses] == IF Ends(m, a) THEN 0 ELSE 1 + rest[a + 1] IN rest[text]

(* The loop of strcpy and strcat: up to and with the zero. *)
strcpy(m, destination, source) ==
  CopyEach(m, destination, source, Upward(strlen(m, source) + 1))

strcat(m, destination, source) ==
  strcpy(m, destination + strlen(m, destination), source)

strncpy(m, destination, source, count) ==
  LET copied == CHOOSE i \in 0 .. count :
                  /\ i = count \/ m[source + i] = 0
                  /\ \A j \in 0 .. (i - 1) : m[source + j] # 0
      one == CopyEach(m, destination, source, Upward(copied)) IN
  memset(one, destination + copied, 0, count - copied)

-----------------------------------------------------------------------------

Order(a, b) == IF a = b THEN 0 ELSE IF a < b THEN -1 ELSE 1

ascii_lower(value) == IF value \in 65 .. 90 THEN value + 32 ELSE value

(***************************************************************************)
(* The walk that the comparisons share: on while there is something left,  *)
(* the bytes are equal, in lower case if fold, and not the zero that ends   *)
(* a text; what counts is where it ends.                                   *)
(***************************************************************************)
Compared(m, left, right, count, text, fold) ==
  LET at[i \in 0 .. count] ==
        IF i = count THEN 0
        ELSE LET a == IF fold THEN ascii_lower(m[left + i]) ELSE m[left + i]
                 b == IF fold THEN ascii_lower(m[right + i]) ELSE m[right + i] IN
             IF a # b THEN Order(a, b)
             ELSE IF text /\ a = 0 THEN 0 ELSE at[i + 1]
  IN at[0]

memcmp(m, left, right, count) == Compared(m, left, right, count, FALSE, FALSE)
strncmp(m, left, right, count) == Compared(m, left, right, count, TRUE, FALSE)
strncasecmp(m, left, right, count) == Compared(m, left, right, count, TRUE, TRUE)
strcmp(m, left, right) == strncmp(m, left, right, strlen(m, left) + 1)
strcasecmp(m, left, right) == strncasecmp(m, left, right, strlen(m, left) + 1)

memchr(m, bytes, value, count) ==
  LET from[i \in 0 .. count] ==
        IF i = count THEN NULL ELSE IF m[bytes + i] = value % 256 THEN bytes + i ELSE from[i + 1]
  IN from[0]

strchr(m, text, character) ==
  LET from[a \in Addresses] ==
        IF m[a] = character THEN a ELSE IF Ends(m, a) THEN NULL ELSE from[a + 1]
  IN from[text]

strrchr(m, text, character) ==
  FoldLeft(LAMBDA last, i : IF m[text + i] = character THEN text + i ELSE last,
           NULL, Upward(strlen(m, text) + 1))

strstr(m, text, needle) ==
  LET parts(a) == \* where the needle and what lies at a part, or one of them ends
        LET at[i \in Addresses] ==
              IF Ends(m, a + i) \/ Ends(m, needle + i) \/ m[a + i] # m[needle + i] THEN i
              ELSE at[i + 1]
        IN at[0]
      from[a \in Addresses] ==
        IF Ends(m, a) THEN NULL ELSE IF m[needle + parts(a)] = 0 THEN a ELSE from[a + 1]
  IN IF m[needle] = 0 THEN text ELSE from[text]

-----------------------------------------------------------------------------

InitStrings == memory \in [Addresses -> Bytes] /\ call = NoCall

Fits(a, count) == a + count <= Size
Apart(a, n, b, k) == a + n <= b \/ b + k <= a
IsString(m, a) == \E i \in a .. (Size - 1) : m[i] = 0

Changes(op, a, b, n, after) ==
  /\ memory' = after
  /\ call' = [op |-> op, a |-> a, b |-> b, n |-> n, before |-> memory, result |-> a]

Answers(op, a, b, n, result) ==
  /\ call' = [op |-> op, a |-> a, b |-> b, n |-> n, before |-> memory, result |-> result]
  /\ UNCHANGED memory

Copy(a, b, n) ==
  /\ Fits(a, n) /\ Fits(b, n)
  /\ \/ Changes("memmove", a, b, n, memmove(memory, a, b, n))
     \/ Apart(a, n, b, n) /\ Changes("memcpy", a, b, n, memcpy(memory, a, b, n))

Fill(a, value, n) == Fits(a, n) /\ Changes("memset", a, value, n, memset(memory, a, value, n))

CopyText(a, b) ==
  /\ IsString(memory, b)
  /\ LET length == strlen(memory, b) + 1 IN
     \/ /\ Fits(a, length) /\ Apart(a, length, b, length)
        /\ Changes("strcpy", a, b, 0, strcpy(memory, a, b))
     \/ /\ IsString(memory, a)
        /\ LET whole == strlen(memory, a) + length IN
           /\ Fits(a, whole) /\ Apart(a, whole, b, length)
           /\ Changes("strcat", a, b, 0, strcat(memory, a, b))

CopyPart(a, b, n) ==
  /\ IsString(memory, b) /\ Fits(a, n) /\ Apart(a, n, b, strlen(memory, b) + 1)
  /\ Changes("strncpy", a, b, n, strncpy(memory, a, b, n))

Search(a, b) ==
  /\ IsString(memory, a)
  /\ \/ Answers("strlen", a, b, 0, strlen(memory, a))
     \/ /\ IsString(memory, b)
        /\ \/ Answers("strstr", a, b, 0, strstr(memory, a, b))
           \/ Answers("strcmp", a, b, 0, strcmp(memory, a, b))
           \/ Answers("strcasecmp", a, b, 0, strcasecmp(memory, a, b))

SearchByte(a, value) ==
  /\ IsString(memory, a)
  /\ \/ Answers("strchr", a, value, 0, strchr(memory, a, value))
     \/ Answers("strrchr", a, value, 0, strrchr(memory, a, value))

SearchPart(a, b, n) ==
  \/ /\ Fits(a, n) /\ Fits(b, n)
     /\ Answers("memcmp", a, b, n, memcmp(memory, a, b, n))
  \/ /\ IsString(memory, a) /\ IsString(memory, b)
     /\ \/ Answers("strncmp", a, b, n, strncmp(memory, a, b, n))
        \/ Answers("strncasecmp", a, b, n, strncasecmp(memory, a, b, n))

SearchBytes(a, value, n) ==
  Fits(a, n) /\ Answers("memchr", a, value, n, memchr(memory, a, value, n))

Forget == call # NoCall /\ call' = NoCall /\ UNCHANGED memory

CallSomething ==
  /\ call = NoCall
  /\ \/ \E a, b \in Addresses :
          \/ CopyText(a, b) \/ Search(a, b)
          \/ \E n \in 0 .. Size : Copy(a, b, n) \/ CopyPart(a, b, n) \/ SearchPart(a, b, n)
     \/ \E a \in Addresses, value \in Bytes :
          \/ SearchByte(a, value)
          \/ \E n \in 0 .. Size : Fill(a, value, n) \/ SearchBytes(a, value, n)

NextStrings == CallSomething \/ Forget

-----------------------------------------------------------------------------

(* The string at a, without its terminating zero. *)
Text(m, a) ==
  LET end == CHOOSE e \in a .. (Size - 1) : m[e] = 0 /\ \A i \in a .. (e - 1) : m[i] # 0 IN
  [i \in 1 .. (end - a) |-> m[a + i - 1]]

Part(m, a, n) == [i \in 1 .. n |-> m[a + i - 1]]

Padded(s, n) == [i \in 1 .. n |-> IF i <= Len(s) THEN s[i] ELSE 0]

Lowered(s) == [i \in DOMAIN s |-> ascii_lower(s[i])]

(* The order of a dictionary: a beginning comes before the whole. *)
Precedes(s, t) ==
  \E i \in 1 .. Len(t) :
    /\ i <= Len(s) + 1 /\ \A j \in 1 .. (i - 1) : s[j] = t[j]
    /\ i > Len(s) \/ s[i] < t[i]

Ordered(s, t) == IF s = t THEN 0 ELSE IF Precedes(s, t) THEN -1 ELSE 1

Shortened(s, n) == SubSeq(s, 1, IF n < Len(s) THEN n ELSE Len(s))

(* The first, or last, address from a on at which s holds what; or NULL. *)
Found(s, a, what, Choice(_)) ==
  LET places == {i \in 1 .. (Len(s) - Len(what) + 1) :
                   SubSeq(s, i, i + Len(what) - 1) = what} IN
  IF places = {} THEN NULL ELSE a + Choice(places) - 1

Least(S) == CHOOSE x \in S : \A y \in S : x <= y
Greatest(S) == CHOOSE x \in S : \A y \in S : x >= y

(* A call was exact if the memory is then what it is to be, and its result. *)
IsExact(c, after) ==
  LET op == c.op
      m == c.before
      a == c.a
      b == c.b
      n == c.n
      Wrote(text) ==
        after = [x \in Addresses |-> IF x \in a .. (a + Len(text) - 1) THEN text[x - a + 1] ELSE m[x]]
      Result(value) == after = m /\ c.result = value
  IN
  /\ op \in {"memmove", "memcpy"} => Wrote(Part(m, b, n))
  /\ op = "memset" => Wrote([i \in 1 .. n |-> b])
  /\ op = "strcpy" => Wrote(Text(m, b) \o <<0>>)
  /\ op = "strcat" => Wrote(Text(m, a) \o Text(m, b) \o <<0>>)
  /\ op = "strncpy" => Wrote(Padded(Text(m, b), n))
  /\ op = "strlen" => Result(Len(Text(m, a)))
  /\ op = "strcmp" => Result(Ordered(Text(m, a), Text(m, b)))
  /\ op = "strncmp" => Result(Ordered(Shortened(Text(m, a), n), Shortened(Text(m, b), n)))
  /\ op = "strcasecmp" => Result(Ordered(Lowered(Text(m, a)), Lowered(Text(m, b))))
  /\ op = "strncasecmp" =>
       Result(Ordered(Lowered(Shortened(Text(m, a), n)), Lowered(Shortened(Text(m, b), n))))
  /\ op = "memcmp" => Result(Ordered(Part(m, a, n), Part(m, b, n)))
  /\ op = "memchr" => Result(Found(Part(m, a, n), a, <<b>>, Least))
  /\ op = "strchr" => Result(Found(Text(m, a) \o <<0>>, a, <<b>>, Least))
  /\ op = "strrchr" => Result(Found(Text(m, a) \o <<0>>, a, <<b>>, Greatest))
  /\ op = "strstr" => Result(Found(Text(m, a), a, Text(m, b), Least))

(***************************************************************************)
(* A call writes what its name says, into its destination and nowhere      *)
(* else, although it copies byte by byte in the memory it reads (memmove's *)
(* areas may overlap either way); a call that compares or searches returns *)
(* the order or the place, up to and with the terminating zero where C     *)
(* wants it.                                                               *)
(***************************************************************************)
CallsExact == IsExact(call, memory)
=============================================================================
