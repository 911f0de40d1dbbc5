--------------------------- MODULE ChopperProofs ---------------------------
(***************************************************************************)
(* The choppers lose no byte: for inputs, window, block and read sizes of  *)
(* any length, the blocks returned, what the two halves of the window hold *)
(* and what was not read yet are the input, once each and in order.  The   *)
(* fingerprint the anchor-based chopper carries from window to window is   *)
(* the one computed from scratch, and the blocks of every chopper are      *)
(* those its input defines, for windows of every size from 2 on.           *)
(***************************************************************************)
EXTENDS Chopper, SetInduction, TLAPS

Byte == Nat \cup {Pad}

(* The bytes of s are those of t behind byte p. *)
Lies(s, t, p) == p + Len(s) <= Len(t) /\ \A i \in 1..Len(s) : s[i] = t[p + i]

(* How much of the input lies before the window. *)
Base == position - Len(got) - Bytes(window)

Returned == Concat(blocks)

Live == status # "read_error"

-----------------------------------------------------------------------------
TypeInv ==
    /\ input \in Seq(Nat) /\ medium \in {"memory", "file", "filtered"} /\ kind \in Kind
    /\ position \in 0..Len(input) /\ failures \in 0..1
    /\ buffer \in Seq(Nat) /\ got \in Seq(Nat) /\ blocks \in Seq(Seq(Byte))
    /\ window \in [first : Seq(Nat), second : Seq(Nat), offset : Nat]
    /\ start \in Nat /\ fpr \in 0..(Modulus - 1) /\ prevFirstChar \in Nat
    /\ first \in BOOLEAN /\ half \in {"first", "second"}
    /\ status \in {"ok", "end", "read_error"}
    /\ pc \in {"idle", "read", "scan", "load", "flush"}

(* The control of a chopper. *)
ControlInv ==
    /\ pc # "idle" => status = "ok"
    /\ pc = "read" <=> pc # "idle" /\ kind # "anchor"
    /\ pc = "read" /\ kind \in {"fixed", "padded"} => Len(buffer) < BlockSize
    /\ kind # "anchor" => window = EmptyWindow /\ got = <<>> /\ start = 0

(* Sizes and offsets of the two halves.  Only the last half that was       *)
(* loaded may be short, and then there is no more to read.                 *)
SizeInv ==
    /\ Len(window.first) <= WindowSize /\ Len(window.second) <= WindowSize
    /\ Len(got) < WindowSize
    /\ window.offset <= WindowSize + 1
    /\ start <= WindowSize

HalvesInv ==
    Live =>
    /\ window.first = <<>> => window.second = <<>> /\ window.offset = 0
    /\ window.second # <<>> => Len(window.first) = WindowSize
    /\ Len(window.first) \in 1..(WindowSize - 1) => position = Len(input)
    /\ Len(window.second) \in 1..(WindowSize - 1) => position = Len(input)
    /\ pc = "idle" => window.second = <<>> /\ window.offset <= Len(window.first)
    /\ pc # "idle" => start <= window.offset /\ start <= Len(window.first)
    /\ pc = "flush" => window.second = <<>>
    /\ pc # "load" => got = <<>>
    /\ pc = "load" /\ half = "first" => window.first = <<>>
    /\ pc = "load" /\ half = "second" => window.first # <<>> /\ window.second = <<>>
    /\ pc = "load" /\ half = "second" /\ got # <<>> => Len(window.first) = WindowSize

(* What the window holds are consecutive bytes of the input. *)
ContentInv ==
    Live =>
    /\ Base \in Nat
    /\ Lies(window.first, input, Base)
    /\ Lies(window.second, input, Base + Len(window.first))
    /\ Lies(got, input, Base + Bytes(window))

(* The blocks and the buffer hold what comes before. *)
AccountInv ==
    Live /\ kind # "padded" =>
    /\ Returned \in Seq(Nat) /\ Lies(Returned, input, 0)
    /\ pc = "idle" => Base + window.offset = Len(Returned)
    /\ pc # "idle" => /\ Base + start = Len(Returned) + Len(buffer)
                      /\ Lies(buffer, input, Len(Returned))

ChopInv == TypeInv /\ ControlInv /\ SizeInv /\ HalvesInv /\ ContentInv /\ AccountInv

-----------------------------------------------------------------------------
(* The concatenation of blocks. *)

Concats(f, s, n) == f = [i \in 0..n |-> IF i = 0 THEN <<>> ELSE f[i - 1] \o s[i]]

(* The recursion in Concat has a solution. *)
LEMMA ConcatsExist ==
  ASSUME NEW s
  PROVE  \A n \in Nat : \E f : Concats(f, s, n)
<1> DEFINE S == {n \in Nat : \E f : Concats(f, s, n)}
<1>1. 0 \in S
  <2> DEFINE f == [i \in 0..0 |-> <<>>]
  <2>1. Concats(f, s, 0)
    BY DEF Concats
  <2> QED
    BY <2>1
<1>2. ASSUME NEW n \in Nat, n \in S PROVE n + 1 \in S
  <2>1. PICK f : Concats(f, s, n)
    BY <1>2
  <2> DEFINE g == [i \in 0..(n + 1) |-> IF i = n + 1 THEN f[n] \o s[n + 1] ELSE f[i]]
  <2>2. \A i \in 0..(n + 1) : g[i] = IF i = 0 THEN <<>> ELSE g[i - 1] \o s[i]
    BY <2>1, SMTT(30) DEF Concats
  <2>3. g = [i \in 0..(n + 1) |-> IF i = 0 THEN <<>> ELSE g[i - 1] \o s[i]]
    BY <2>2
  <2>4. Concats(g, s, n + 1)
    BY <2>3 DEF Concats
  <2> QED
    BY <2>4
<1> HIDE DEF S
<1>3. \A n \in Nat : n \in S
  BY <1>1, <1>2, NatSetInduction
<1> QED
  BY <1>3 DEF S

(* What the solution does, step by step. *)
LEMMA ConcatsStep ==
  ASSUME NEW s, NEW n \in Nat, NEW f, Concats(f, s, n)
  PROVE  f[0] = <<>> /\ \A i \in 0..(n - 1) : f[i + 1] = f[i] \o s[i + 1]
<1>1. \A i \in 0..n : f[i] = IF i = 0 THEN <<>> ELSE f[i - 1] \o s[i]
  BY DEF Concats
<1>2. f[0] = <<>>
  BY <1>1
<1>3. ASSUME NEW i \in 0..(n - 1) PROVE f[i + 1] = f[i] \o s[i + 1]
  <2>1. i + 1 \in 0..n /\ i + 1 # 0 /\ (i + 1) - 1 = i
    OBVIOUS
  <2>2. f[i + 1] = f[(i + 1) - 1] \o s[i + 1]
    BY <1>1, <2>1
  <2> QED
    BY <2>1, <2>2
<1> QED
  BY <1>2, <1>3

(* Equal blocks have equal concatenations. *)
LEMMA ConcatsAgree ==
  ASSUME NEW s, NEW t, NEW n \in Nat, NEW m \in Nat, n <= m,
         NEW f, NEW g, Concats(f, s, n), Concats(g, t, m), \A i \in 1..n : s[i] = t[i]
  PROVE  f[n] = g[n]
<1> DEFINE S == {i \in Nat : i <= n => f[i] = g[i]}
<1>0. /\ f[0] = <<>> /\ \A i \in 0..(n - 1) : f[i + 1] = f[i] \o s[i + 1]
      /\ g[0] = <<>> /\ \A i \in 0..(m - 1) : g[i + 1] = g[i] \o t[i + 1]
  BY ConcatsStep
<1>1. 0 \in S
  BY <1>0
<1>2. ASSUME NEW i \in Nat, i \in S PROVE i + 1 \in S
  <2>1. CASE i < n
    <3>1. i \in 0..(n - 1) /\ i \in 0..(m - 1) /\ i + 1 \in 1..n
      BY <2>1
    <3>2. f[i + 1] = f[i] \o s[i + 1] /\ g[i + 1] = g[i] \o t[i + 1] /\ s[i + 1] = t[i + 1]
      BY <1>0, <3>1
    <3>3. f[i] = g[i]
      BY <1>2, <2>1
    <3>4. f[i + 1] = g[i + 1]
      BY <3>2, <3>3, Zenon
    <3> QED
      BY <3>4
  <2> QED
    BY <1>2, <2>1
<1> HIDE DEF S
<1>3. \A i \in Nat : i \in S
  BY <1>1, <1>2, NatSetInduction
<1> QED
  BY <1>3 DEF S

(* Concat is the last value of that solution. *)
LEMMA ConcatIsLast ==
  ASSUME NEW s, Len(s) \in Nat
  PROVE  \E f : Concats(f, s, Len(s)) /\ Concat(s) = f[Len(s)]
<1> DEFINE c == CHOOSE f : Concats(f, s, Len(s))
<1>1. Concats(c, s, Len(s))
  BY ConcatsExist
<1>2. Concat(s) = c[Len(s)]
  BY DEF Concat, Concats
<1> QED
  BY <1>1, <1>2

(* No blocks, and one block more. *)
LEMMA ConcatEmpty == Concat(<<>>) = <<>>
<1>1. PICK f : Concats(f, <<>>, 0) /\ Concat(<<>>) = f[0]
  BY ConcatIsLast
<1> QED
  BY <1>1 DEF Concats

(* Concatenating with one part more. *)
LEMMA ConcatAppend ==
  ASSUME NEW U, NEW s \in Seq(U), NEW b \in U
  PROVE  Concat(Append(s, b)) = Concat(s) \o b
<1> DEFINE t == Append(s, b)
           n == Len(s)
<1>1. n \in Nat /\ Len(t) = n + 1 /\ t[n + 1] = b /\ \A i \in 1..n : s[i] = t[i]
  OBVIOUS
<1> HIDE DEF t
<1>2. PICK f : Concats(f, s, n) /\ Concat(s) = f[n]
  BY <1>1, ConcatIsLast
<1>3. PICK g : Concats(g, t, n + 1) /\ Concat(t) = g[n + 1]
  BY <1>1, ConcatIsLast
<1> HIDE DEF n
<1>4. f[n] = g[n]
  BY <1>1, <1>2, <1>3, ConcatsAgree
<1>5. g[n + 1] = g[n] \o t[n + 1]
  <2>1. n + 1 \in Nat /\ n \in 0..((n + 1) - 1)
    BY <1>1
  <2>2. \A i \in 0..((n + 1) - 1) : g[i + 1] = g[i] \o t[i + 1]
    BY <1>3, <2>1, ConcatsStep, Zenon
  <2> QED
    BY <2>1, <2>2, Zenon
<1> QED
  BY <1>1, <1>2, <1>3, <1>4, <1>5 DEF t

-----------------------------------------------------------------------------
(* Fingerprints are numbers below the modulus. *)

(* The remainder of a division. *)
LEMMA Remainder ==
  ASSUME NEW a \in Int, NEW b \in Nat \ {0}
  PROVE  a % b \in Nat /\ a % b < b
  OBVIOUS

Powers(f, n) == f = [i \in 0..n |-> IF i = 0 THEN 1 ELSE (f[i - 1] * Prime) % Word]

(* The recursion in Power has a solution. *)
LEMMA PowersExist == \A n \in Nat : \E f : Powers(f, n)
<1> DEFINE S == {n \in Nat : \E f : Powers(f, n)}
<1>1. 0 \in S
  <2> DEFINE f == [i \in 0..0 |-> 1]
  <2>1. Powers(f, 0)
    BY DEF Powers
  <2> QED
    BY <2>1
<1>2. ASSUME NEW n \in Nat, n \in S PROVE n + 1 \in S
  <2>1. PICK f : Powers(f, n)
    BY <1>2
  <2> DEFINE step(x) == (x * Prime) % Word
             g == [i \in 0..(n + 1) |-> IF i = n + 1 THEN step(f[n]) ELSE f[i]]
  <2>2. f = [i \in 0..n |-> IF i = 0 THEN 1 ELSE step(f[i - 1])]
    BY <2>1 DEF Powers
  <2> HIDE DEF step
  <2>3. \A i \in 0..(n + 1) : g[i] = IF i = 0 THEN 1 ELSE step(g[i - 1])
    BY <2>2
  <2>4. g = [i \in 0..(n + 1) |-> IF i = 0 THEN 1 ELSE step(g[i - 1])]
    BY <2>3
  <2>5. Powers(g, n + 1)
    BY <2>4 DEF Powers, step
  <2> QED
    BY <2>5
<1> HIDE DEF S
<1>3. \A n \in Nat : n \in S
  BY <1>1, <1>2, NatSetInduction
<1> QED
  BY <1>3 DEF S

(* What the solution does, step by step. *)
LEMMA PowersStep ==
  ASSUME NEW n \in Nat, NEW f, Powers(f, n)
  PROVE  f[0] = 1 /\ \A i \in 0..(n - 1) : f[i + 1] = (f[i] * Prime) % Word
<1> DEFINE step(x) == (x * Prime) % Word
<1>1. f = [i \in 0..n |-> IF i = 0 THEN 1 ELSE step(f[i - 1])]
  BY DEF Powers
<1> HIDE DEF step
<1>2. \A i \in 0..n : f[i] = IF i = 0 THEN 1 ELSE step(f[i - 1])
  BY <1>1
<1>3. ASSUME NEW i \in 0..(n - 1) PROVE f[i + 1] = step(f[i])
  <2>1. i + 1 \in 0..n /\ i + 1 # 0 /\ (i + 1) - 1 = i
    OBVIOUS
  <2> QED
    BY <1>2, <2>1
<1>4. f[0] = 1
  BY <1>2
<1> QED
  BY <1>3, <1>4 DEF step

(* Two solutions agree where both are defined. *)
LEMMA PowersAgree ==
  ASSUME NEW n \in Nat, NEW m \in Nat, n <= m, NEW f, NEW g, Powers(f, n), Powers(g, m)
  PROVE  f[n] = g[n]
<1> DEFINE S == {i \in Nat : i <= n => f[i] = g[i]}
           step(x) == (x * Prime) % Word
<1>0. /\ f[0] = 1 /\ \A i \in 0..(n - 1) : f[i + 1] = step(f[i])
      /\ g[0] = 1 /\ \A i \in 0..(m - 1) : g[i + 1] = step(g[i])
  BY PowersStep
<1> HIDE DEF step
<1>1. 0 \in S
  BY <1>0
<1>2. ASSUME NEW i \in Nat, i \in S PROVE i + 1 \in S
  BY <1>0, <1>2
<1> HIDE DEF S
<1>3. \A i \in Nat : i \in S
  BY <1>1, <1>2, NatSetInduction
<1> QED
  BY <1>3 DEF S

(* Power is the last value of its solution. *)
LEMMA PowerIsLast ==
  ASSUME NEW n \in Nat
  PROVE  \E f : Powers(f, n) /\ Power(n) = f[n]
<1> DEFINE p == CHOOSE f : Powers(f, n)
<1>1. Powers(p, n)
  BY PowersExist
<1>2. Power(n) = p[n]
  BY DEF Power, Powers
<1> QED
  BY <1>1, <1>2

(* The powers of the prime, modulo the machine word. *)
LEMMA PowerFacts ==
  /\ Power(0) = 1
  /\ \A n \in Nat : Power(n + 1) = (Power(n) * Prime) % Word /\ Power(n) \in Nat
<1>1. Power(0) = 1
  BY PowerIsLast, PowersStep
<1>2. ASSUME NEW n \in Nat PROVE Power(n + 1) = (Power(n) * Prime) % Word
  <2>1. PICK f : Powers(f, n) /\ Power(n) = f[n]
    BY PowerIsLast
  <2>2. PICK g : Powers(g, n + 1) /\ Power(n + 1) = g[n + 1]
    BY PowerIsLast
  <2>3. f[n] = g[n]
    BY <2>1, <2>2, PowersAgree
  <2>4. n + 1 \in Nat /\ n \in 0..((n + 1) - 1)
    OBVIOUS
  <2>5. \A i \in 0..((n + 1) - 1) : g[i + 1] = (g[i] * Prime) % Word
    BY <2>2, <2>4, PowersStep, Zenon
  <2> QED
    BY <2>1, <2>2, <2>3, <2>4, <2>5, Zenon
<1> DEFINE S == {n \in Nat : Power(n) \in Nat}
<1>3. 0 \in S
  BY <1>1
<1>4. ASSUME NEW n \in Nat, n \in S PROVE n + 1 \in S
  <2>1. Power(n) * Prime \in Int
    BY <1>4 DEF Prime
  <2>2. (Power(n) * Prime) % Word \in Nat
    BY <2>1, Remainder, ChopperAssumption
  <2> QED
    BY <1>2, <2>2
<1> HIDE DEF S
<1>5. \A n \in Nat : n \in S
  BY <1>3, <1>4, NatSetInduction
<1> QED
  BY <1>1, <1>2, <1>5 DEF S

(* The sum over the last bytes of s. *)
Sums(f, s) ==
    f = [i \in 0..Len(s) |->
           IF i = 0 THEN 0 ELSE (f[i - 1] + s[Len(s) - i + 1] * Power(i - 1)) % Modulus]

(* The recursion in Fingerprint has a solution. *)
LEMMA SumsExist ==
  ASSUME NEW s, Len(s) \in Nat
  PROVE  \E f : Sums(f, s)
<1> DEFINE add(x, i) == (x + s[Len(s) - i + 1] * Power(i - 1)) % Modulus
           Up(f, n) == f = [i \in 0..n |-> IF i = 0 THEN 0 ELSE add(f[i - 1], i)]
           S == {n \in Nat : \E f : Up(f, n)}
<1> HIDE DEF add
<1>1. 0 \in S
  <2> DEFINE f == [i \in 0..0 |-> 0]
  <2>1. Up(f, 0)
    OBVIOUS
  <2> QED
    BY <2>1
<1>2. ASSUME NEW n \in Nat, n \in S PROVE n + 1 \in S
  <2>1. PICK f : Up(f, n)
    BY <1>2
  <2> DEFINE g == [i \in 0..(n + 1) |-> IF i = n + 1 THEN add(f[n], n + 1) ELSE f[i]]
  <2>2. \A i \in 0..(n + 1) : g[i] = IF i = 0 THEN 0 ELSE add(g[i - 1], i)
    BY <2>1
  <2>3. g = [i \in 0..(n + 1) |-> IF i = 0 THEN 0 ELSE add(g[i - 1], i)]
    BY <2>2
  <2> HIDE DEF g
  <2>4. Up(g, n + 1)
    BY <2>3
  <2> QED
    BY <2>4
<1> HIDE DEF S
<1>3. \A n \in Nat : n \in S
  BY <1>1, <1>2, NatSetInduction
<1>4. PICK f : Up(f, Len(s))
  BY <1>3 DEF S
<1>5. Sums(f, s)
  BY <1>4 DEF Sums, add
<1> QED
  BY <1>5

(* What the solution does, step by step. *)
LEMMA SumsStep ==
  ASSUME NEW s, Len(s) \in Nat, NEW f, Sums(f, s)
  PROVE  /\ f[0] = 0
         /\ \A i \in 0..(Len(s) - 1) :
              f[i + 1] = (f[i] + s[Len(s) - i] * Power(i)) % Modulus
<1> DEFINE add(x, i) == (x + s[Len(s) - i + 1] * Power(i - 1)) % Modulus
<1>1. f = [i \in 0..Len(s) |-> IF i = 0 THEN 0 ELSE add(f[i - 1], i)]
  BY DEF Sums
<1> HIDE DEF add
<1>2. \A i \in 0..Len(s) : f[i] = IF i = 0 THEN 0 ELSE add(f[i - 1], i)
  BY <1>1
<1>3. f[0] = 0
  BY <1>2
<1>4. ASSUME NEW i \in 0..(Len(s) - 1)
      PROVE  f[i + 1] = (f[i] + s[Len(s) - i] * Power(i)) % Modulus
  <2>1. i + 1 \in 0..Len(s) /\ i + 1 # 0 /\ (i + 1) - 1 = i /\ Len(s) - (i + 1) + 1 = Len(s) - i
    OBVIOUS
  <2>2. f[i + 1] = add(f[(i + 1) - 1], i + 1)
    BY <1>2, <2>1
  <2> QED
    BY <2>1, <2>2, Zenon DEF add
<1> QED
  BY <1>3, <1>4

(* Fingerprint is its last value. *)
LEMMA FingerprintIsLast ==
  ASSUME NEW s, Len(s) \in Nat
  PROVE  \E f : Sums(f, s) /\ Fingerprint(s) = f[Len(s)]
<1> DEFINE p == CHOOSE f : Sums(f, s)
<1>1. Sums(p, s)
  BY SumsExist
<1>2. Fingerprint(s) = p[Len(s)]
  BY DEF Fingerprint, Sums
<1> QED
  BY <1>1, <1>2

(* The sums are below the modulus. *)
LEMMA SumsType ==
  ASSUME NEW s \in Seq(Nat), NEW f, Sums(f, s)
  PROVE  \A i \in 0..Len(s) : f[i] \in 0..(Modulus - 1)
<1> DEFINE S == {i \in Nat : i <= Len(s) => f[i] \in 0..(Modulus - 1)}
<1>0. Len(s) \in Nat /\ Modulus \in Nat \ {0}
  BY ChopperAssumption
<1>1. 0 \in S
  BY <1>0, SumsStep
<1>2. ASSUME NEW i \in Nat, i \in S PROVE i + 1 \in S
  <2>1. CASE i < Len(s)
    <3> DEFINE d == f[i] + s[Len(s) - i] * Power(i)
    <3>0. f[i] \in 0..(Modulus - 1) /\ Len(s) - i \in 1..Len(s)
      BY <1>0, <1>2, <2>1
    <3>1. f[i] \in Int /\ s[Len(s) - i] \in Int
      BY <1>0, <3>0
    <3>2. d \in Int
      <4>1. Power(i) \in Int
        BY PowerFacts
      <4> QED
        BY <3>1, <4>1
    <3>3. d % Modulus \in 0..(Modulus - 1)
      <4> HIDE DEF d
      <4> QED
        BY <1>0, <3>2, Remainder
    <3>4. f[i + 1] = d % Modulus
      <4>1. i \in 0..(Len(s) - 1)
        BY <1>0, <2>1
      <4> QED
        BY <1>0, <4>1, SumsStep, Zenon
    <3>5. f[i + 1] \in 0..(Modulus - 1)
      BY <3>3, <3>4, Zenon
    <3> QED
      BY <3>5
  <2> QED
    BY <1>0, <1>2, <2>1
<1> HIDE DEF S
<1>3. \A i \in Nat : i \in S
  BY <1>1, <1>2, NatSetInduction
<1> QED
  BY <1>0, <1>3 DEF S

(* A fingerprint, and the one computed from the fingerprint before.        *)
LEMMA FingerprintType ==
  ASSUME NEW s \in Seq(Nat)
  PROVE  Fingerprint(s) \in 0..(Modulus - 1)
<1>1. Len(s) \in Nat
  OBVIOUS
<1>2. PICK f : Sums(f, s) /\ Fingerprint(s) = f[Len(s)]
  BY <1>1, FingerprintIsLast
<1> QED
  BY <1>1, <1>2, SumsType

(* The fingerprint that is carried along stays below the modulus. *)
LEMMA NextFingerprintType ==
  ASSUME NEW f \in Int, NEW out \in Int, NEW in \in Int
  PROVE  NextFingerprint(f, out, in) \in 0..(Modulus - 1)
<1> DEFINE d == f * Prime - out * Power(WindowSize) + in
<1>1. Power(WindowSize) \in Int
  BY PowerFacts, WindowAssumption
<1>2. d \in Int
  BY <1>1 DEF Prime
<1> HIDE DEF d
<1>3. d % Word \in Int
  BY <1>2, Remainder, ChopperAssumption
<1>4. (d % Word) % Modulus \in 0..(Modulus - 1)
  <2>1. Modulus \in Nat \ {0}
    BY ChopperAssumption
  <2> QED
    BY <1>3, <2>1, Remainder
<1> QED
  BY <1>4 DEF NextFingerprint, d

-----------------------------------------------------------------------------
(* Parts of the input. *)

(* The empty sequence lies everywhere. *)
LEMMA LiesEmpty ==
  ASSUME NEW t \in Seq(Nat), NEW p \in 0..Len(t)
  PROVE  Lies(<<>>, t, p)
  BY DEF Lies

(* Two parts, one behind the other. *)
LEMMA LiesConcat ==
  ASSUME NEW t \in Seq(Nat), NEW p \in Nat, NEW r \in Seq(Nat), NEW s \in Seq(Nat),
         Lies(r, t, p), Lies(s, t, p + Len(r))
  PROVE  r \o s \in Seq(Nat) /\ Len(r \o s) = Len(r) + Len(s) /\ Lies(r \o s, t, p)
<1>1. r \o s \in Seq(Nat) /\ Len(r \o s) = Len(r) + Len(s)
  OBVIOUS
<1>2. ASSUME NEW i \in 1..(Len(r) + Len(s)) PROVE (r \o s)[i] = t[p + i]
  <2>1. CASE i <= Len(r)
    BY <2>1 DEF Lies
  <2>2. CASE i > Len(r)
    <3>1. (r \o s)[i] = s[i - Len(r)] /\ i - Len(r) \in 1..Len(s)
      BY <2>2
    <3>2. (p + Len(r)) + (i - Len(r)) = p + i
      OBVIOUS
    <3> QED
      BY <3>1, <3>2 DEF Lies
  <2> QED
    BY <2>1, <2>2, SMTT(30)
<1> QED
  BY <1>1, <1>2, SMTT(30) DEF Lies

(* A part of a part. *)
LEMMA LiesSub ==
  ASSUME NEW t \in Seq(Nat), NEW p \in Nat, NEW s \in Seq(Nat), Lies(s, t, p),
         NEW a \in Nat, NEW b \in a..Len(s)
  PROVE  /\ SubSeq(s, a + 1, b) \in Seq(Nat) /\ Len(SubSeq(s, a + 1, b)) = b - a
         /\ Lies(SubSeq(s, a + 1, b), t, p + a)
<1>1. b \in Nat /\ b <= Len(s) /\ a <= b
  OBVIOUS
<1>2. Len(SubSeq(s, a + 1, b)) = b - a
  BY <1>1
<1>3. \A i \in 1..(b - a) : SubSeq(s, a + 1, b)[i] = s[a + i] /\ a + i \in 1..Len(s)
  BY <1>1
<1>4. SubSeq(s, a + 1, b) \in Seq(Nat)
  BY <1>1
<1>5. ASSUME NEW i \in 1..(b - a) PROVE SubSeq(s, a + 1, b)[i] = t[(p + a) + i]
  <2>1. p + (a + i) = (p + a) + i
    OBVIOUS
  <2> QED
    BY <1>3, <2>1 DEF Lies
<1> QED
  BY <1>1, <1>2, <1>4, <1>5, SMTT(30) DEF Lies

(* Parts that meet make up the whole. *)
LEMMA LiesWhole ==
  ASSUME NEW t \in Seq(Nat), NEW s \in Seq(Nat), Lies(s, t, 0), Len(s) = Len(t)
  PROVE  s = t
  BY SMTT(30) DEF Lies

-----------------------------------------------------------------------------
(* The streams. *)

(* The first n bytes of what remains. *)
LEMMA FirstFacts ==
  ASSUME TypeInv, NEW n \in 0..Len(Remaining)
  PROVE  /\ First(Remaining, n) \in Seq(Nat) /\ Len(First(Remaining, n)) = n
         /\ Lies(First(Remaining, n), input, position)
<1>1. input \in Seq(Nat) /\ position \in 0..Len(input)
  BY DEF TypeInv
<1>2. Lies(input, input, 0)
  BY <1>1 DEF Lies
<1>3. /\ Remaining \in Seq(Nat) /\ Len(Remaining) = Len(input) - position
      /\ Lies(Remaining, input, position)
  BY <1>1, <1>2, LiesSub DEF Remaining
<1>4. position \in Nat /\ 0 \in Nat /\ 0 + 1 = 1 /\ n - 0 = n /\ position + 0 = position
  BY <1>1
<1>5. /\ SubSeq(Remaining, 0 + 1, n) \in Seq(Nat) /\ Len(SubSeq(Remaining, 0 + 1, n)) = n - 0
      /\ Lies(SubSeq(Remaining, 0 + 1, n), input, position + 0)
  BY <1>1, <1>3, <1>4, LiesSub, Zenon
<1> QED
  BY <1>4, <1>5 DEF First

(* What a read of howmuch bytes may give: bytes from the position on, no   *)
(* more than were asked for; and the end with nothing.                     *)
GoodRead(r, howmuch) ==
    /\ r.data \in Seq(Nat) /\ Len(r.data) <= howmuch /\ Lies(r.data, input, position)
    /\ r.err \in {"ok", "end", "read_error"}
    /\ r.err = "end" => r.data = <<>> /\ position = Len(input)
    /\ r.failed \in BOOLEAN

(* Every stream reads like that. *)
LEMMA ReadsGood ==
  ASSUME TypeInv, NEW howmuch \in Nat \ {0}, NEW r \in Reads(howmuch)
  PROVE  GoodRead(r, howmuch)
<1> DEFINE left == Len(Remaining)
<1>1. /\ input \in Seq(Nat) /\ position \in 0..Len(input) /\ failures \in 0..1
  BY ChopperAssumption DEF TypeInv
<1>2. left = Len(input) - position /\ (Remaining = <<>> <=> left = 0)
  <2>1. Remaining \in Seq(Nat) /\ Len(Remaining) = Len(input) - position
    BY <1>1 DEF Remaining
  <2> QED
    BY <2>1
<1> HIDE DEF left
<1>3. ASSUME NEW n \in 0..left, n <= howmuch, NEW e \in {"ok", "read_error"}
      PROVE  GoodRead(Result(n, e), howmuch)
  BY <1>3, FirstFacts DEF GoodRead, Result, left
<1>4. ASSUME NEW n \in 0..left, n <= howmuch, NEW e \in {"ok", "read_error"}
      PROVE  GoodRead(Failed(n, e), howmuch)
  BY <1>4, FirstFacts DEF GoodRead, Failed, left
<1>5. ASSUME left = 0 PROVE GoodRead(Result(0, "end"), howmuch)
  <2>1. First(Remaining, 0) = <<>>
    BY <1>1 DEF First, Remaining
  <2>2. 0 \in 0..Len(Remaining)
    BY <1>5 DEF left
  <2> QED
    BY <1>1, <1>2, <1>5, <2>1, <2>2, FirstFacts DEF GoodRead, Result
<1>6. left \in Nat
  BY <1>1, <1>2
<1>7. Least(howmuch, left) \in 0..left /\ Least(howmuch, left) <= howmuch
  BY <1>6 DEF Least
<1>8. ASSUME NEW s \in MemStreamRead(howmuch) PROVE GoodRead(s, howmuch)
  <2>1. \/ left = 0 /\ s = Result(0, "end")
        \/ s = Result(Least(howmuch, left), "ok")
    BY <1>2, <1>8 DEF MemStreamRead, left
  <2> QED
    BY <1>3, <1>5, <1>7, <2>1
<1>9. CASE r \in FileStreamRead(howmuch)
  <2>1. CASE r \in MemStreamRead(howmuch)
    BY <1>8, <2>1
  <2>2. CASE r \notin MemStreamRead(howmuch)
    <3>1. PICK n \in 0..(Least(howmuch, left + 1) - 1) : r = Failed(n, "ok")
      BY <1>9, <2>2 DEF FileStreamRead, left
    <3>2. n \in 0..left /\ n <= howmuch
      BY <1>6, <3>1 DEF Least
    <3> QED
      BY <1>4, <3>1, <3>2
  <2> QED
    BY <2>1, <2>2
<1>10. CASE r \in FilteredStreamRead(howmuch)
  <2>1. CASE Remaining = <<>>
    BY <1>2, <1>5, <1>10, <2>1 DEF FilteredStreamRead
  <2>2. CASE \E n \in 1..Least(howmuch, left) : r = Result(n, "ok")
    <3>1. PICK n \in 1..Least(howmuch, left) : r = Result(n, "ok")
      BY <2>2
    <3>2. n \in 0..left /\ n <= howmuch
      BY <1>6, <3>1 DEF Least
    <3> QED
      BY <1>3, <3>1, <3>2
  <2>3. CASE r = Failed(0, "read_error")
    BY <1>4, <1>6, <2>3
  <2> QED
    BY <1>10, <2>1, <2>2, <2>3 DEF FilteredStreamRead, left
<1> QED
  BY <1>8, <1>9, <1>10 DEF Reads, TypeInv

(* A read moves the position. *)
LEMMA ConsumeFacts ==
  ASSUME TypeInv, NEW r, NEW howmuch, GoodRead(r, howmuch), Consume(r)
  PROVE  /\ position' \in 0..Len(input) /\ position' = position + Len(r.data)
         /\ failures' \in 0..1 /\ input' = input /\ medium' = medium
<1>1. /\ input \in Seq(Nat) /\ position \in 0..Len(input) /\ failures \in 0..1
  BY ChopperAssumption DEF TypeInv
<1>2. r.data \in Seq(Nat) /\ position + Len(r.data) <= Len(input)
  BY DEF GoodRead, Lies
<1>3. position' = position + Len(r.data) /\ input' = input /\ medium' = medium
  BY DEF Consume
<1>4. position' \in 0..Len(input)
  BY <1>1, <1>2, <1>3
<1>5. failures' \in 0..1
  <2>1. CASE r.failed
    BY <1>1, <2>1 DEF GoodRead, Consume
  <2>2. CASE ~r.failed
    BY <1>1, <2>2 DEF GoodRead, Consume
  <2> QED
    BY <2>1, <2>2
<1> QED
  BY <1>3, <1>4, <1>5

-----------------------------------------------------------------------------
(* The length of nothing, and numbers as bytes. *)
LEMMA EmptyLen == Len(<<>>) = 0
  OBVIOUS

(* A sequence of natural numbers is one of bytes. *)
LEMMA BytesOfNat ==
  ASSUME NEW b \in Seq(Nat)
  PROVE  b \in Seq(Byte)
<1>1. Len(b) \in Nat /\ b \in [1..Len(b) -> Nat]
  OBVIOUS
<1>2. b \in [1..Len(b) -> Byte]
  BY <1>1 DEF Byte
<1> QED
  BY <1>1, <1>2

(* One block more. *)
LEMMA ReturnedGrows ==
  ASSUME TypeInv, Returned \in Seq(Nat), Lies(Returned, input, 0),
         NEW b \in Seq(Nat), Lies(b, input, Len(Returned))
  PROVE  /\ Concat(Append(blocks, b)) \in Seq(Nat)
         /\ Lies(Concat(Append(blocks, b)), input, 0)
         /\ Len(Concat(Append(blocks, b))) = Len(Returned) + Len(b)
<1>1. b \in Seq(Byte) /\ blocks \in Seq(Seq(Byte)) /\ input \in Seq(Nat)
  BY BytesOfNat DEF TypeInv
<1>2. Concat(Append(blocks, b)) = Returned \o b
  BY <1>1, ConcatAppend DEF Returned
<1>3. 0 \in Nat /\ Len(Returned) \in Nat /\ 0 + Len(Returned) = Len(Returned)
  OBVIOUS
<1>4. /\ Returned \o b \in Seq(Nat) /\ Len(Returned \o b) = Len(Returned) + Len(b)
      /\ Lies(Returned \o b, input, 0)
  BY <1>1, <1>3, LiesConcat
<1> QED
  BY <1>2, <1>4

(* The window of a chopper that has none. *)
LEMMA NoWindow ==
  /\ EmptyWindow \in [first : Seq(Nat), second : Seq(Nat), offset : Nat]
  /\ EmptyWindow.first = <<>> /\ EmptyWindow.second = <<>> /\ EmptyWindow.offset = 0
  /\ Bytes(EmptyWindow) = 0
<1>1. /\ EmptyWindow \in [first : Seq(Nat), second : Seq(Nat), offset : Nat]
      /\ EmptyWindow.first = <<>> /\ EmptyWindow.second = <<>> /\ EmptyWindow.offset = 0
  BY DEF EmptyWindow
<1> QED
  BY <1>1 DEF Bytes

(***************************************************************************)
(* One chop_stream_read of the fixed-size or the whole-stream chopper, and *)
(* what follows from it.                                                   *)
(***************************************************************************)
Outcome ==
    \/ blocks' = blocks /\ status' = "read_error" /\ pc' = "idle"
    \/ blocks' = blocks /\ status' = "end" /\ pc' = "idle" /\ buffer' = <<>>
    \/ /\ \E c \in Seq(Byte) : /\ kind # "padded" => c = buffer'
                               /\ blocks' = Append(blocks, c)
       /\ status' = "ok" /\ pc' = "idle"
    \/ /\ UNCHANGED <<blocks, status, pc>>
       /\ kind \in {"fixed", "padded"} => Len(buffer') < BlockSize

DirectRead(r) ==
    Consume(r) /\ buffer' = buffer \o r.data /\ UNCHANGED <<kind, windowVars>>

(* Whatever came of it, the invariant holds. *)
LEMMA DirectStep ==
  ASSUME ChopInv, pc = "read", NEW r, NEW howmuch, GoodRead(r, howmuch), DirectRead(r), Outcome
  PROVE  ChopInv'
<1>1. TypeInv /\ ControlInv /\ SizeInv /\ HalvesInv /\ ContentInv /\ AccountInv
  BY DEF ChopInv
<1>2. PICK q \in Nat : /\ q <= Len(input) /\ position' = q /\ q = position + Len(r.data)
                       /\ failures' \in 0..1 /\ input' = input /\ medium' = medium
  <2>1. input \in Seq(Nat)
    BY <1>1 DEF TypeInv
  <2>2. /\ position' \in 0..Len(input) /\ position' = position + Len(r.data)
        /\ failures' \in 0..1 /\ input' = input /\ medium' = medium
    BY <1>1, ConsumeFacts DEF DirectRead
  <2> QED
    BY <2>1, <2>2
<1>3. /\ window = EmptyWindow /\ got = <<>> /\ start = 0 /\ kind # "anchor" /\ status = "ok"
      /\ UNCHANGED <<kind, window, start, fpr, prevFirstChar, first, half, got>>
  BY <1>1 DEF ControlInv, windowVars, DirectRead
<1>4. /\ input \in Seq(Nat) /\ position \in Nat /\ position <= Len(input)
      /\ buffer \in Seq(Nat) /\ blocks \in Seq(Seq(Byte))
  BY <1>1 DEF TypeInv
<1>5. r.data \in Seq(Nat) /\ Lies(r.data, input, position)
  BY DEF GoodRead
<1>6. buffer' \in Seq(Nat) /\ Len(buffer') = Len(buffer) + Len(r.data)
  BY <1>4, <1>5 DEF DirectRead
<1>7. blocks' \in Seq(Seq(Byte))
  <2>1. CASE blocks' = blocks
    BY <1>4, <2>1
  <2>2. ASSUME NEW c \in Seq(Byte), blocks' = Append(blocks, c) PROVE blocks' \in Seq(Seq(Byte))
    BY <1>4, <2>2
  <2> QED
    BY <2>1, <2>2 DEF Outcome
<1>8. TypeInv'
  <2>1. status' \in {"ok", "end", "read_error"} /\ pc' \in {"idle", "read"}
    BY <1>3 DEF Outcome
  <2> QED
    BY <1>1, <1>2, <1>3, <1>6, <1>7, <2>1 DEF TypeInv
<1>9. ControlInv'
  BY <1>1, <1>3 DEF ControlInv, Outcome
<1>10. SizeInv'
  BY <1>1, <1>3 DEF SizeInv
<1>11. Base = position /\ Base' = q
  <2>2. Bytes(window) = 0 /\ Bytes(window') = 0 /\ Len(got) = 0 /\ Len(got') = 0
    BY <1>3, NoWindow, EmptyLen
  <2> QED
    BY <1>2, <1>4, <2>2 DEF Base
<1>12. HalvesInv'
  <2>1. pc' # "load" /\ pc' # "flush"
    BY <1>3 DEF Outcome
  <2> QED
    BY <1>3, <2>1, NoWindow, WindowAssumption DEF HalvesInv
<1>13. ContentInv'
  <2>1. q \in 0..Len(input)
    BY <1>2, <1>4
  <2>2. Lies(<<>>, input, q)
    BY <1>4, <2>1, LiesEmpty
  <2>3. q + Len(<<>>) = q /\ q + 0 = q
    BY EmptyLen
  <2> QED
    BY <1>2, <1>3, <1>11, <2>2, <2>3, NoWindow DEF ContentInv
<1>14. AccountInv'
  <2> SUFFICES ASSUME Live', kind # "padded"
               PROVE  AccountInv'
    BY <1>3 DEF AccountInv
  <2>1. /\ Returned \in Seq(Nat) /\ Lies(Returned, input, 0)
        /\ position = Len(Returned) + Len(buffer)
        /\ Lies(buffer, input, Len(Returned))
    BY <1>1, <1>3, <1>4, <1>11 DEF AccountInv, Live
  <2>2. Len(Returned) \in Nat /\ Len(buffer) \in Nat /\ Len(r.data) \in Nat
    BY <1>4, <1>5, <2>1
  <2>3. Lies(buffer', input, Len(Returned))
    <3>1. Lies(r.data, input, Len(Returned) + Len(buffer))
      BY <1>5, <2>1
    <3> QED
      BY <1>4, <1>5, <2>1, <2>2, <3>1, LiesConcat, Zenon DEF DirectRead
  <2>4. q = Len(Returned) + Len(buffer')
    <3>1. q = position + Len(r.data) /\ position = Len(Returned) + Len(buffer)
      BY <1>2, <2>1
    <3>2. q = Len(Returned) + (Len(buffer) + Len(r.data))
      <4>1. PICK a \in Nat, b \in Nat, c \in Nat :
                 a = Len(Returned) /\ b = Len(buffer) /\ c = Len(r.data)
        BY <2>2
      <4>2. q = position + c /\ position = a + b
        BY <3>1, <4>1
      <4>3. q = a + (b + c)
        BY <4>2
      <4> QED
        BY <4>1, <4>3
    <3> QED
      BY <1>6, <3>2
  <2>5. window'.offset = 0 /\ start' = 0
    BY <1>3, NoWindow
  <2>6. q + 0 = q
    OBVIOUS
  <2>7. CASE blocks' = blocks
    <3>1. Returned' = Returned
      BY <2>7 DEF Returned
    <3>2. CASE UNCHANGED <<blocks, status, pc>>
      BY <1>2, <1>11, <2>1, <2>3, <2>4, <2>5, <2>6, <3>1, <3>2 DEF AccountInv
    <3>3. CASE pc' = "idle" /\ buffer' = <<>>
      <4>1. q = Len(Returned)
        BY <2>2, <2>4, <3>3
      <4> QED
        BY <1>2, <1>11, <2>1, <2>5, <2>6, <3>1, <3>3, <4>1 DEF AccountInv
    <3>4. CASE \E c \in Seq(Byte) : blocks' = Append(blocks, c)
      <4>1. blocks' # blocks
        BY <1>4, <3>4
      <4> QED
        BY <2>7, <4>1
    <3> QED
      BY <3>2, <3>3, <3>4 DEF Outcome, Live
  <2>8. CASE pc' = "idle" /\ blocks' = Append(blocks, buffer')
    <3>1. /\ Returned' \in Seq(Nat) /\ Lies(Returned', input, 0)
          /\ Len(Returned') = Len(Returned) + Len(buffer')
      BY <1>1, <1>6, <2>1, <2>3, <2>8, ReturnedGrows DEF Returned
    <3> QED
      BY <1>2, <1>11, <2>4, <2>5, <2>6, <2>8, <3>1 DEF AccountInv
  <2> QED
    BY <2>7, <2>8 DEF Outcome
<1> QED
  BY <1>8, <1>9, <1>10, <1>12, <1>13, <1>14 DEF ChopInv

(* The fixed-size chopper. *)
LEMMA ReadFixedStep ==
  ASSUME ChopInv, ReadFixed
  PROVE  ChopInv'
<1>1. TypeInv /\ ControlInv
  BY DEF ChopInv
<1>2. pc = "read" /\ kind \in {"fixed", "padded"}
  BY DEF ReadFixed
<1>3. PICK r \in Reads(BlockSize - Len(buffer)) :
        /\ Consume(r)
        /\ buffer' = buffer \o r.data
        /\ IF r.err \notin {"ok", "end"} THEN Returns(buffer \o r.data, r.err)
           ELSE IF r.err = "end"
           THEN IF buffer \o r.data = <<>> THEN Returns(buffer \o r.data, "end")
                ELSE Returns(Padded(buffer \o r.data), "ok")
           ELSE IF Len(buffer \o r.data) = BlockSize THEN Returns(buffer \o r.data, "ok")
           ELSE UNCHANGED <<blocks, status, pc>>
  BY DEF ReadFixed
<1>4. DirectRead(r)
  BY <1>3 DEF ReadFixed, DirectRead
<1>5. BlockSize \in Nat /\ buffer \in Seq(Nat) /\ Len(buffer) \in Nat /\ Len(buffer) < BlockSize
  BY <1>1, <1>2, ChopperAssumption DEF TypeInv, ControlInv
<1>6. BlockSize - Len(buffer) \in Nat \ {0}
  BY <1>5
<1>7. GoodRead(r, BlockSize - Len(buffer))
  BY <1>1, <1>3, <1>6, ReadsGood
<1>8. /\ buffer' \in Seq(Nat) /\ Len(buffer') <= BlockSize
      /\ r.err \in {"ok", "end", "read_error"}
  <2>1. PICK n \in Nat : n = Len(buffer)
    BY <1>5
  <2>2. PICK m \in Nat : m = Len(r.data) /\ m <= BlockSize - n
    BY <1>7, <2>1 DEF GoodRead
  <2>3. buffer' \in Seq(Nat) /\ Len(buffer') = n + m /\ r.err \in {"ok", "end", "read_error"}
    BY <1>3, <1>5, <1>7, <2>1, <2>2 DEF GoodRead
  <2>4. n + m <= BlockSize
    BY <1>5, <2>1, <2>2
  <2> QED
    BY <2>3, <2>4
<1>9. buffer' \in Seq(Byte) /\ Padded(buffer') \in Seq(Byte)
  <2>1. buffer' \in Seq(Byte)
    BY <1>8, BytesOfNat
  <2>2. PICK n \in Nat : n = Len(buffer') /\ n <= BlockSize
    BY <1>8
  <2>3. [i \in 1..(BlockSize - n) |-> Pad] \in Seq(Byte)
    <3>1. BlockSize - n \in Nat
      BY <1>5, <2>2
    <3> QED
      BY <3>1 DEF Byte
  <2> QED
    BY <2>1, <2>2, <2>3 DEF Padded
<1>10. kind # "padded" => Padded(buffer') = buffer'
  BY DEF Padded
<1>11. Outcome
  <2>1. CASE r.err = "read_error"
    BY <1>3, <2>1 DEF Returns, Outcome
  <2>2. CASE r.err = "end"
    BY <1>3, <1>9, <1>10, <2>2 DEF Returns, Outcome
  <2>3. CASE r.err = "ok" /\ Len(buffer') = BlockSize
    BY <1>3, <1>9, <2>3 DEF Returns, Outcome
  <2>4. CASE r.err = "ok" /\ Len(buffer') # BlockSize
    <3>1. PICK n \in Nat : n = Len(buffer') /\ n <= BlockSize
      BY <1>8
    <3>2. n < BlockSize
      BY <1>5, <2>4, <3>1
    <3> QED
      BY <1>3, <2>4, <3>1, <3>2 DEF Outcome
  <2> QED
    BY <1>8, <2>1, <2>2, <2>3, <2>4
<1> QED
  BY <1>2, <1>4, <1>7, <1>11, DirectStep

(* The whole-stream chopper. *)
LEMMA ReadWholeStep ==
  ASSUME ChopInv, ReadWhole
  PROVE  ChopInv'
<1>1. TypeInv
  BY DEF ChopInv
<1>2. pc = "read" /\ kind = "whole"
  BY DEF ReadWhole
<1>3. PICK r \in Reads(ReadSize) :
        /\ Consume(r)
        /\ buffer' = buffer \o r.data
        /\ IF r.err = "ok" THEN UNCHANGED <<blocks, status, pc>>
           ELSE IF r.err = "end" /\ buffer' # <<>> THEN Returns(buffer', "ok")
           ELSE Returns(buffer', r.err)
  BY DEF ReadWhole
<1>4. DirectRead(r)
  BY <1>3 DEF ReadWhole, DirectRead
<1>5. GoodRead(r, ReadSize)
  BY <1>1, <1>3, ReadsGood, ChopperAssumption
<1>6. buffer' \in Seq(Byte) /\ r.err \in {"ok", "end", "read_error"}
  <2>1. buffer \in Seq(Nat) /\ r.data \in Seq(Nat) /\ r.err \in {"ok", "end", "read_error"}
    BY <1>1, <1>5 DEF TypeInv, GoodRead
  <2>2. buffer' \in Seq(Nat)
    BY <1>3, <2>1
  <2> QED
    BY <2>1, <2>2, BytesOfNat
<1>7. Outcome
  BY <1>2, <1>3, <1>6 DEF Returns, Outcome
<1> QED
  BY <1>2, <1>4, <1>5, <1>7, DirectStep

(* A call of read_block. *)
LEMMA ReadBlockStep ==
  ASSUME ChopInv, ReadBlock
  PROVE  ChopInv'
<1>1. TypeInv /\ ControlInv /\ SizeInv /\ HalvesInv /\ ContentInv /\ AccountInv
  BY DEF ChopInv
<1>2. /\ pc = "idle" /\ status = "ok" /\ buffer' = <<>> /\ start' = window.offset /\ first' = TRUE
      /\ pc' = IF kind = "anchor" THEN "scan" ELSE "read"
      /\ UNCHANGED <<medium, input, position, failures, kind, window, fpr, prevFirstChar, half,
                     got, blocks, status>>
  BY DEF ReadBlock, inputVars
<1>3. /\ window.second = <<>> /\ window.offset <= Len(window.first) /\ got = <<>>
      /\ window.offset \in Nat /\ window.first \in Seq(Nat) /\ kind \in Kind
  BY <1>1, <1>2 DEF HalvesInv, Live, TypeInv
<1>4. TypeInv'
  BY <1>1, <1>2, <1>3 DEF TypeInv
<1>5. ControlInv'
  <2>1. kind # "anchor" => window.offset = 0
    BY <1>1, NoWindow DEF ControlInv
  <2> QED
    BY <1>1, <1>2, <2>1, EmptyLen, ChopperAssumption DEF ControlInv, Kind
<1>6. SizeInv'
  <2>1. window.offset <= WindowSize
    <3>1. PICK n \in Nat : n = Len(window.first)
      BY <1>3
    <3>2. n <= WindowSize /\ window.offset <= n
      BY <1>1, <1>3, <3>1 DEF SizeInv
    <3> QED
      BY <1>3, <3>2, WindowAssumption
  <2> QED
    BY <1>1, <1>2, <2>1 DEF SizeInv
<1>7. HalvesInv'
  BY <1>1, <1>2, <1>3 DEF HalvesInv, Live
<1>8. Base' = Base
  BY <1>2 DEF Base
<1>9. ContentInv'
  BY <1>1, <1>2, <1>8 DEF ContentInv, Live
<1>10. AccountInv'
  <2> SUFFICES ASSUME kind # "padded" PROVE AccountInv'
    BY <1>2 DEF AccountInv
  <2>1. /\ Returned \in Seq(Nat) /\ Lies(Returned, input, 0) /\ input \in Seq(Nat)
        /\ Base + window.offset = Len(Returned)
    BY <1>1, <1>2 DEF AccountInv, Live, TypeInv
  <2>2. Returned' = Returned
    BY <1>2 DEF Returned
  <2>3. PICK n \in Nat : n = Len(Returned) /\ n \in 0..Len(input)
    BY <2>1 DEF Lies
  <2>4. Lies(<<>>, input, n) /\ n + Len(<<>>) = n
    BY <2>1, <2>3, LiesEmpty, EmptyLen
  <2> QED
    BY <1>2, <1>8, <2>1, <2>2, <2>3, <2>4 DEF AccountInv
<1> QED
  BY <1>4, <1>5, <1>6, <1>7, <1>9, <1>10 DEF ChopInv

-----------------------------------------------------------------------------
(* The anchor-based chopper. *)

(* The fields of the window. *)
LEMMA WindowFields ==
  ASSUME TypeInv
  PROVE  /\ window.first \in Seq(Nat) /\ window.second \in Seq(Nat) /\ window.offset \in Nat
         /\ Len(window.first) \in Nat /\ Len(window.second) \in Nat
         /\ Bytes(window) = Len(window.first) + Len(window.second)
         /\ Bytes(window) \in Nat
<1>1. /\ window.first \in Seq(Nat) /\ window.second \in Seq(Nat) /\ window.offset \in Nat
      /\ Len(window.first) \in Nat /\ Len(window.second) \in Nat
      /\ Bytes(window) = Len(window.first) + Len(window.second)
  BY DEF TypeInv, Bytes
<1>2. Bytes(window) \in Nat
  <2>1. PICK a \in Nat, b \in Nat : a = Len(window.first) /\ b = Len(window.second)
    BY <1>1
  <2>2. Bytes(window) = a + b
    BY <1>1, <2>1
  <2> QED
    BY <2>2
<1> QED
  BY <1>1, <1>2

(* A sequence of a positive length is not empty. *)
LEMMA Nonempty ==
  ASSUME NEW s \in Seq(Nat)
  PROVE  s = <<>> <=> Len(s) = 0
  OBVIOUS

(* The half that is read into when the other one is free. *)
LEMMA ReloadFree ==
  ASSUME ChopInv, Reload, window.first = <<>> \/ window.second = <<>>
  PROVE  ChopInv'
<1>1. TypeInv /\ ControlInv /\ SizeInv /\ HalvesInv /\ ContentInv /\ AccountInv
  BY DEF ChopInv
<1>2. DestBuffer(window) = [win |-> window, half |-> IF window.first = <<>> THEN "first" ELSE "second",
                            discarded |-> <<>>]
  BY DEF DestBuffer
<1>3. /\ pc = "scan" /\ window' = window /\ got' = <<>> /\ pc' = "load"
      /\ half' = IF window.first = <<>> THEN "first" ELSE "second"
      /\ UNCHANGED <<buffer, start, medium, input, position, failures, kind, fpr, prevFirstChar,
                     first, blocks, status>>
  BY <1>2 DEF Reload, inputVars
<1>4. status = "ok" /\ got = <<>> /\ kind = "anchor"
  BY <1>1, <1>3 DEF ControlInv, HalvesInv, Live
<1>5. TypeInv'
  BY <1>1, <1>3 DEF TypeInv
<1>6. ControlInv'
  BY <1>1, <1>3, <1>4 DEF ControlInv
<1>7. SizeInv'
  BY <1>1, <1>3, EmptyLen, WindowAssumption DEF SizeInv
<1>8. HalvesInv'
  BY <1>1, <1>3, <1>4 DEF HalvesInv, Live
<1>9. Base' = Base /\ Returned' = Returned
  BY <1>3, <1>4 DEF Base, Returned
<1>10. ContentInv'
  BY <1>1, <1>3, <1>4, <1>9 DEF ContentInv, Live
<1>11. AccountInv'
  BY <1>1, <1>3, <1>9 DEF AccountInv, Live
<1> QED
  BY <1>5, <1>6, <1>7, <1>8, <1>10, <1>11 DEF ChopInv

(* The first half is given up: what it held of the block is saved. *)
LEMMA ReloadDiscards ==
  ASSUME ChopInv, Reload, window.first # <<>>, window.second # <<>>
  PROVE  ChopInv'
<1>1. TypeInv /\ ControlInv /\ SizeInv /\ HalvesInv /\ ContentInv /\ AccountInv
  BY DEF ChopInv
<1> DEFINE next == [first |-> window.second, second |-> <<>>,
                    offset |-> window.offset % WindowSize]
<1>2. /\ DestBuffer(window).win = next /\ DestBuffer(window).half = "second"
      /\ DestBuffer(window).discarded = window.first
  <2>1. DestBuffer(window) = [win |-> next, half |-> "second", discarded |-> window.first]
    BY DEF DestBuffer
  <2> HIDE DEF next
  <2> QED
    BY <2>1
<1>3. /\ pc = "scan" /\ got' = <<>> /\ half' = "second" /\ start' = 0
      /\ window' = [first |-> window.second, second |-> <<>>,
                    offset |-> window.offset % WindowSize]
      /\ buffer' = buffer \o SubSeq(window.first, start + 1, Len(window.first))
      /\ pc' = IF Len(window.first) < start THEN "aborted" ELSE "load"
      /\ UNCHANGED <<medium, input, position, failures, kind, fpr, prevFirstChar, first, blocks,
                     status>>
  BY <1>2 DEF Reload, inputVars
<1>4. status = "ok" /\ got = <<>> /\ kind = "anchor" /\ start \in Nat
  BY <1>1, <1>3 DEF ControlInv, HalvesInv, Live, TypeInv
<1>5. PICK n \in Nat \ {0} : n = WindowSize
  BY WindowAssumption
<1>6. PICK g \in Nat : g = Len(window.second) /\ g <= n /\ Len(window.first) = n /\ start <= n
  BY <1>1, <1>3, <1>4, <1>5, WindowFields DEF SizeInv, HalvesInv, Live
<1>7. pc' = "load"
  BY <1>3, <1>4, <1>6
<1>8. PICK o \in Nat : o = window.offset % WindowSize /\ o < n
  BY <1>1, <1>5, WindowFields, Remainder
<1>9. /\ window'.first = window.second /\ window'.second = <<>> /\ window'.offset = o
      /\ window' \in [first : Seq(Nat), second : Seq(Nat), offset : Nat]
  BY <1>1, <1>3, <1>8, WindowFields
<1>0. PICK x \in Nat : x = position
  BY <1>1 DEF TypeInv
<1>10. buffer \in Seq(Nat) /\ input \in Seq(Nat)
  BY <1>1 DEF TypeInv
<1>11. PICK p \in Nat : /\ p = Base /\ (p + n) + g = x /\ Lies(window.first, input, p)
                        /\ Lies(window.second, input, p + n)
  <2>1. Base = x - 0 - (n + g)
    BY <1>0, <1>1, <1>4, <1>6, EmptyLen, WindowFields DEF Base
  <2>2. Base \in Nat /\ Lies(window.first, input, Base) /\ Lies(window.second, input, Base + n)
    BY <1>1, <1>4, <1>6 DEF ContentInv, Live
  <2> QED
    BY <2>1, <2>2
<1>12. PICK a \in Nat : a = start /\ a <= n
  BY <1>4, <1>6
<1> DEFINE rest == SubSeq(window.first, a + 1, n)
<1>13. rest \in Seq(Nat) /\ Len(rest) = n - a /\ Lies(rest, input, p + a)
  <2>1. n \in a..Len(window.first)
    BY <1>6, <1>12
  <2>2. window.first \in Seq(Nat)
    BY <1>1, WindowFields
  <2>3. Lies(window.first, input, p)
    BY <1>11
  <2> QED
    BY <1>10, <2>1, <2>2, <2>3, LiesSub
<1>14. buffer' = buffer \o rest
  BY <1>3, <1>6, <1>12
<1> HIDE DEF rest
<1>15. buffer' \in Seq(Nat)
  BY <1>10, <1>13, <1>14
<1>16. TypeInv'
  BY <1>1, <1>3, <1>7, <1>9, <1>15 DEF TypeInv
<1>17. ControlInv'
  BY <1>3, <1>4, <1>7 DEF ControlInv
<1>18. SizeInv'
  BY <1>3, <1>5, <1>6, <1>8, <1>9, EmptyLen DEF SizeInv
<1>19. HalvesInv'
  <2>1. g # 0
    BY <1>1, <1>6, Nonempty, WindowFields
  <2>2. Len(window.second) \in 1..(WindowSize - 1) => position = Len(input)
    BY <1>1, <1>4 DEF HalvesInv, Live
  <2>3. ~(Len(<<>>) \in 1..(WindowSize - 1))
    BY EmptyLen
  <2> QED
    BY <1>3, <1>6, <1>7, <1>8, <1>9, <2>2, <2>3 DEF HalvesInv
<1>20. Base' = p + n
  <2>1. Bytes(window') = g + 0
    BY <1>6, <1>9, EmptyLen DEF Bytes
  <2>2. Base' = x - 0 - (g + 0)
    BY <1>0, <1>3, <2>1, EmptyLen DEF Base
  <2>3. x - 0 - (g + 0) = p + n
    BY <1>11
  <2> QED
    BY <2>2, <2>3
<1>21. ContentInv'
  <2>1. position = (p + n) + g /\ (p + n) + (g + 0) = position /\ p + n \in Nat
    BY <1>0, <1>11
  <2>2. Lies(<<>>, input, (p + n) + g) /\ Lies(<<>>, input, (p + n) + (g + 0))
    BY <1>1, <1>10, <2>1, LiesEmpty DEF TypeInv
  <2>3. Bytes(window') = g + 0
    BY <1>6, <1>9, EmptyLen DEF Bytes
  <2> QED
    BY <1>3, <1>6, <1>9, <1>11, <1>20, <2>1, <2>2, <2>3 DEF ContentInv
<1>22. AccountInv'
  <2>1. Returned' = Returned
    BY <1>3 DEF Returned
  <2>2. /\ Returned \in Seq(Nat) /\ Lies(Returned, input, 0)
        /\ p + a = Len(Returned) + Len(buffer) /\ Lies(buffer, input, Len(Returned))
    BY <1>1, <1>3, <1>4, <1>11, <1>12 DEF AccountInv, Live
  <2>3. PICK l \in Nat, b \in Nat : l = Len(Returned) /\ b = Len(buffer)
    BY <1>10, <2>2
  <2>4. Lies(buffer, input, l) /\ Lies(rest, input, l + Len(buffer)) /\ p + a = l + b
    BY <1>13, <2>2, <2>3
  <2>5. Lies(buffer', input, l) /\ Len(buffer') = b + (n - a)
    <3>0. rest \in Seq(Nat)
      BY <1>13
    <3>1. Len(buffer \o rest) = Len(buffer) + Len(rest) /\ Lies(buffer \o rest, input, l)
      BY <1>10, <2>4, <3>0, LiesConcat
    <3> QED
      BY <1>13, <1>14, <2>3, <3>1
  <2>6. (p + n) + 0 = l + (b + (n - a))
    BY <2>4
  <2> QED
    BY <1>3, <1>4, <1>7, <1>20, <2>1, <2>2, <2>3, <2>5, <2>6 DEF AccountInv
<1> QED
  BY <1>16, <1>17, <1>18, <1>19, <1>21, <1>22 DEF ChopInv

(* What one read of a half window has put together. *)
LEMMA LoadFacts ==
  ASSUME ChopInv, pc = "load", NEW r \in Reads(WindowSize - Len(got)), Consume(r)
  PROVE  /\ r.err \in {"ok", "end", "read_error"}
         /\ got \o r.data \in Seq(Nat) /\ Len(got \o r.data) <= WindowSize
         /\ Lies(got \o r.data, input, Base + Bytes(window))
         /\ input' = input /\ medium' = medium /\ failures' \in 0..1
         /\ Base \in Nat /\ Bytes(window) \in Nat
         /\ position' = (Base + Bytes(window)) + Len(got \o r.data)
         /\ position' \in 0..Len(input)
         /\ r.err = "end" => position = Len(input) /\ position' = Len(input)
         /\ position = Len(input) => got \o r.data = got /\ position' = Len(input)
<1>1. TypeInv /\ ControlInv /\ SizeInv /\ HalvesInv /\ ContentInv
  BY DEF ChopInv
<1>2. status = "ok" /\ input \in Seq(Nat) /\ got \in Seq(Nat)
  BY <1>1 DEF ControlInv, TypeInv
<1>a. PICK n \in Nat \ {0} : n = WindowSize
  BY WindowAssumption
<1>b. Len(got) \in Nat /\ Len(got) < n
  BY <1>1, <1>2, <1>a DEF SizeInv
<1>3. PICK k \in Nat : n = WindowSize /\ k = Len(got) /\ k < n
  BY <1>a, <1>b
<1>4. GoodRead(r, n - k)
  <2>1. n - k \in Nat \ {0}
    BY <1>3
  <2> QED
    BY <1>1, <1>3, <2>1, ReadsGood
<1>5. PICK x \in Nat : x = position /\ x <= Len(input)
  BY <1>1 DEF TypeInv
<1>6. PICK m \in Nat : m = Len(r.data) /\ m <= n - k
  BY <1>4 DEF GoodRead
<1>7. /\ r.data \in Seq(Nat) /\ Lies(r.data, input, x)
      /\ r.err \in {"ok", "end", "read_error"} /\ (r.err = "end" => r.data = <<>> /\ x = Len(input))
  BY <1>4, <1>5 DEF GoodRead
<1>8. PICK w \in Nat : w = Bytes(window)
  <2>1. Bytes(window) \in Nat
    BY <1>1, WindowFields
  <2> QED
    BY <2>1
<1>9. PICK p \in Nat : p = Base /\ x = (p + w) + k
  <2>1. Base \in Nat
    BY <1>1, <1>2 DEF ContentInv, Live
  <2>2. Base = x - k - w
    BY <1>3, <1>5, <1>8 DEF Base
  <2> QED
    BY <2>1, <2>2
<1>10. Lies(got, input, p + w) /\ Lies(r.data, input, (p + w) + Len(got)) /\ p + w \in Nat
  BY <1>1, <1>2, <1>3, <1>7, <1>8, <1>9 DEF ContentInv, Live
<1>11. /\ got \o r.data \in Seq(Nat) /\ Len(got \o r.data) = Len(got) + Len(r.data)
       /\ Lies(got \o r.data, input, p + w)
  BY <1>2, <1>7, <1>10, LiesConcat
<1>12. PICK y \in Nat : y = position' /\ y = x + m /\ y <= Len(input)
  <2>1. /\ position' = position + Len(r.data) /\ position' \in 0..Len(input)
    BY <1>1, <1>4, ConsumeFacts
  <2> QED
    BY <1>2, <1>5, <1>6, <2>1
<1>13. input' = input /\ medium' = medium /\ failures' \in 0..1
  BY <1>1, <1>4, ConsumeFacts
<1>14. k + m <= n /\ y = (p + w) + (k + m)
  <2>1. k <= n /\ m <= n - k /\ x = (p + w) + k /\ y = x + m
    BY <1>3, <1>6, <1>9, <1>12
  <2> QED
    BY <2>1
<1>c. /\ position' = (Base + Bytes(window)) + Len(got \o r.data) /\ position' \in 0..Len(input)
      /\ Len(got \o r.data) <= WindowSize
  <2>1. Len(got \o r.data) = k + m
    BY <1>3, <1>6, <1>11
  <2>2. y \in 0..Len(input)
    BY <1>2, <1>12
  <2> QED
    BY <1>3, <1>8, <1>9, <1>12, <1>14, <2>1, <2>2
<1>15. ASSUME r.err = "end" PROVE position = Len(input) /\ position' = Len(input)
  <2>1. m = 0 /\ x = Len(input)
    BY <1>6, <1>7, <1>15, EmptyLen
  <2> QED
    BY <1>5, <1>12, <2>1
<1>16. ASSUME position = Len(input) PROVE got \o r.data = got /\ position' = Len(input)
  <2>1. PICK l \in Nat : l = Len(input)
    BY <1>2
  <2>2. m = 0 /\ y = l
    BY <1>5, <1>12, <1>16, <2>1
  <2>3. r.data = <<>>
    BY <1>6, <1>7, <2>2, Nonempty
  <2>4. got \o <<>> = got
    BY <1>2
  <2> QED
    BY <1>12, <2>1, <2>2, <2>3, <2>4
<1> QED
  BY <1>3, <1>6, <1>7, <1>8, <1>9, <1>11, <1>12, <1>13, <1>c, <1>15, <1>16

(* The window with one of its halves loaded. *)
LEMMA WithHalfFacts ==
  ASSUME TypeInv, SizeInv, NEW data \in Seq(Nat), Len(data) <= WindowSize
  PROVE  /\ WithHalf(data) \in [first : Seq(Nat), second : Seq(Nat), offset : Nat]
         /\ WithHalf(data).offset = window.offset
         /\ Len(WithHalf(data).first) <= WindowSize /\ Len(WithHalf(data).second) <= WindowSize
         /\ half = "first" => /\ WithHalf(data).first = data
                              /\ WithHalf(data).second = window.second
         /\ half = "second" => /\ WithHalf(data).first = window.first
                               /\ WithHalf(data).second = data
<1>1. window \in [first : Seq(Nat), second : Seq(Nat), offset : Nat] /\ half \in {"first", "second"}
  BY DEF TypeInv
<1>2. Len(window.first) <= WindowSize /\ Len(window.second) <= WindowSize
  BY DEF SizeInv
<1>3. CASE half = "first"
  <2>1. WithHalf(data) = [window EXCEPT !.first = data]
    BY <1>1, <1>3 DEF WithHalf
  <2> QED
    BY <1>1, <1>2, <1>3, <2>1
<1>4. CASE half = "second"
  <2>1. WithHalf(data) = [window EXCEPT !.second = data]
    BY <1>1, <1>4 DEF WithHalf
  <2> QED
    BY <1>1, <1>2, <1>4, <2>1
<1> QED
  BY <1>1, <1>3, <1>4

(* The half window is not full yet. *)
LEMMA LoadGoesOn ==
  ASSUME ChopInv, pc = "load", NEW r \in Reads(WindowSize - Len(got)), Consume(r),
         Len(got \o r.data) # WindowSize, got' = got \o r.data, pc' = "load",
         UNCHANGED <<window, blocks, status, kind, buffer, start, fpr, prevFirstChar, first, half>>
  PROVE  ChopInv'
<1>1. TypeInv /\ ControlInv /\ SizeInv /\ HalvesInv /\ ContentInv /\ AccountInv
  BY DEF ChopInv
<1>2. /\ got \o r.data \in Seq(Nat) /\ Len(got \o r.data) <= WindowSize
      /\ Lies(got \o r.data, input, Base + Bytes(window))
      /\ input' = input /\ medium' = medium /\ failures' \in 0..1
      /\ Base \in Nat /\ Bytes(window) \in Nat
      /\ position' = (Base + Bytes(window)) + Len(got \o r.data)
      /\ position' \in 0..Len(input)
      /\ position = Len(input) => got \o r.data = got /\ position' = Len(input)
  BY LoadFacts
<1>3. status = "ok"
  BY <1>1 DEF ControlInv
<1>4. TypeInv'
  BY <1>1, <1>2 DEF TypeInv
<1>5. ControlInv'
  BY <1>1 DEF ControlInv
<1>6. SizeInv'
  <2>1. PICK k \in Nat, n \in Nat : k = Len(got \o r.data) /\ n = WindowSize
    BY <1>2, WindowAssumption
  <2>2. k < n
    BY <1>2, <2>1, SMTT(30)
  <2>3. Len(got') < WindowSize
    BY <2>1, <2>2
  <2> QED
    BY <1>1, <2>3 DEF SizeInv
<1>7. HalvesInv'
  <2>1. position = Len(input) => position' = Len(input)
    BY <1>2
  <2>2. ASSUME half = "second", got' # <<>> PROVE Len(window.first) = WindowSize
    <3>1. window.first # <<>>
      BY <1>1, <1>3, <2>2 DEF HalvesInv, Live
    <3>2. CASE got = <<>>
      <4>1. position # Len(input)
        BY <1>2, <2>2, <3>2
      <4>2. ~(Len(window.first) \in 1..(WindowSize - 1))
        BY <1>1, <1>3, <4>1 DEF HalvesInv, Live
      <4>3. PICK l \in Nat, n \in Nat : l = Len(window.first) /\ n = WindowSize
        BY <1>1, WindowFields, WindowAssumption
      <4>4. l # 0 /\ l <= n
        BY <1>1, <3>1, <4>3, WindowFields, Nonempty DEF SizeInv
      <4> QED
        BY <4>2, <4>3, <4>4
    <3>3. CASE got # <<>>
      BY <1>1, <1>3, <2>2, <3>3 DEF HalvesInv, Live
    <3> QED
      BY <3>2, <3>3
  <2> QED
    BY <1>1, <1>2, <1>3, <2>1, <2>2 DEF HalvesInv, Live
<1>8. Base' = Base
  <2>1. PICK p \in Nat, w \in Nat, m \in Nat :
             p = Base /\ w = Bytes(window) /\ m = Len(got \o r.data)
    BY <1>2, SMTT(30)
  <2>2. Base' = ((p + w) + m) - m - w
    BY <1>2, <2>1 DEF Base
  <2> QED
    BY <2>1, <2>2, SMTT(30)
<1>9. ContentInv'
  BY <1>1, <1>2, <1>3, <1>8 DEF ContentInv, Live
<1>10. AccountInv'
  <2>1. Returned' = Returned
    BY DEF Returned
  <2> QED
    BY <1>1, <1>2, <1>3, <1>8, <2>1 DEF AccountInv, Live
<1> QED
  BY <1>4, <1>5, <1>6, <1>7, <1>9, <1>10 DEF ChopInv

(* The half window is full, or the stream has ended. *)
LEMMA LoadDone ==
  ASSUME ChopInv, pc = "load", NEW r \in Reads(WindowSize - Len(got)), Consume(r),
         r.err = "end" \/ Len(got \o r.data) = WindowSize,
         window' = WithHalf(got \o r.data), got' = <<>>,
         pc' = IF got \o r.data = <<>> THEN "flush" ELSE "scan",
         UNCHANGED <<blocks, status, kind, buffer, start, fpr, prevFirstChar, first, half>>
  PROVE  ChopInv'
<1>1. TypeInv /\ ControlInv /\ SizeInv /\ HalvesInv /\ ContentInv /\ AccountInv
  BY DEF ChopInv
<1>2. PICK data \in Seq(Nat) : data = got \o r.data
  BY LoadFacts
<1>3. /\ Len(data) <= WindowSize /\ Lies(data, input, Base + Bytes(window))
      /\ input' = input /\ medium' = medium /\ failures' \in 0..1
      /\ Base \in Nat /\ Bytes(window) \in Nat
      /\ position' = (Base + Bytes(window)) + Len(data)
      /\ position' \in 0..Len(input)
      /\ r.err = "end" => position' = Len(input)
      /\ position = Len(input) => data = got /\ position' = Len(input)
  BY <1>2, LoadFacts
<1>4. /\ window' \in [first : Seq(Nat), second : Seq(Nat), offset : Nat]
      /\ window'.offset = window.offset
      /\ Len(window'.first) <= WindowSize /\ Len(window'.second) <= WindowSize
      /\ half = "first" => window'.first = data /\ window'.second = window.second
      /\ half = "second" => window'.first = window.first /\ window'.second = data
  BY <1>1, <1>2, <1>3, WithHalfFacts
<1>5. status = "ok" /\ kind = "anchor" /\ half \in {"first", "second"}
  BY <1>1 DEF ControlInv, TypeInv
<1>6. TypeInv'
  BY <1>1, <1>2, <1>3, <1>4 DEF TypeInv
<1>7. ControlInv'
  BY <1>1, <1>5 DEF ControlInv
<1>8. SizeInv'
  BY <1>1, <1>4, EmptyLen, WindowAssumption DEF SizeInv
<1>9. /\ half = "first" => /\ window.first = <<>> /\ window.second = <<>> /\ window.offset = 0
                           /\ start = 0
      /\ half = "second" => window.first # <<>> /\ window.second = <<>>
      /\ start <= window.offset /\ start <= Len(window.first) /\ start \in Nat
  BY <1>1, <1>5, EmptyLen DEF HalvesInv, Live, TypeInv
<1>10. Len(data) # WindowSize => position' = Len(input)
  BY <1>2, <1>3
<1>11. ASSUME half = "second", data # <<>> PROVE Len(window.first) = WindowSize
  <2>1. CASE got # <<>>
    BY <1>1, <1>5, <1>11, <2>1 DEF HalvesInv, Live
  <2>2. CASE got = <<>>
    <3>1. position # Len(input)
      BY <1>3, <1>11, <2>2
    <3>2. ~(Len(window.first) \in 1..(WindowSize - 1))
      BY <1>1, <1>5, <3>1 DEF HalvesInv, Live
    <3>3. PICK l \in Nat, n \in Nat : l = Len(window.first) /\ n = WindowSize
      BY <1>1, WindowFields, WindowAssumption
    <3>4. l # 0 /\ l <= n
      BY <1>1, <1>9, <1>11, <3>3, WindowFields, Nonempty DEF SizeInv
    <3> QED
      BY <3>2, <3>3, <3>4
  <2> QED
    BY <2>1, <2>2
<1>12. ~(WindowSize \in 1..(WindowSize - 1)) /\ ~(Len(<<>>) \in 1..(WindowSize - 1))
  BY WindowAssumption, EmptyLen
<1>13. Len(data) \in 1..(WindowSize - 1) => position' = Len(input)
  BY <1>10, <1>12
<1>14. Len(window.first) \in 1..(WindowSize - 1) => position' = Len(input)
  BY <1>1, <1>3, <1>5 DEF HalvesInv, Live
<1>15. pc' # "idle" /\ pc' # "load" /\ (pc' = "flush" => data = <<>>)
  BY <1>2
<1>16. HalvesInv'
  <2>1. CASE half = "first"
    <3>1. start <= Len(data)
      BY <1>9, <2>1
    <3> QED
      BY <1>3, <1>4, <1>9, <1>12, <1>13, <1>15, <2>1, <3>1 DEF HalvesInv
  <2>2. CASE half = "second"
    BY <1>3, <1>4, <1>9, <1>11, <1>13, <1>14, <1>15, <2>2 DEF HalvesInv
  <2> QED
    BY <1>5, <2>1, <2>2
<1>17. PICK p \in Nat, w \in Nat, m \in Nat : p = Base /\ w = Bytes(window) /\ m = Len(data)
  <2>1. Len(data) \in Nat
    OBVIOUS
  <2> QED
    BY <1>3, <2>1, Zenon
<1>18. Bytes(window') = w + m
  <2>1. CASE half = "first"
    <3>1. w = 0 + 0
      BY <1>9, <1>17, <2>1, EmptyLen DEF Bytes
    <3>2. Bytes(window') = m + 0
      BY <1>4, <1>9, <1>17, <2>1, EmptyLen DEF Bytes
    <3> QED
      BY <3>1, <3>2
  <2>2. CASE half = "second"
    <3>1. PICK l \in Nat : l = Len(window.first)
      BY <1>1, WindowFields
    <3>2. w = l + 0
      BY <1>9, <1>17, <2>2, <3>1, EmptyLen DEF Bytes
    <3>3. Bytes(window') = l + m
      BY <1>4, <1>17, <2>2, <3>1 DEF Bytes
    <3> QED
      BY <3>2, <3>3
  <2> QED
    BY <1>5, <2>1, <2>2
<1>19. Base' = p
  <2>1. Base' = ((p + w) + m) - 0 - (w + m)
    BY <1>3, <1>17, <1>18, EmptyLen DEF Base
  <2> QED
    BY <2>1
<1>20. ContentInv'
  <2>0. (p + w) + m \in Nat /\ p + (w + m) = (p + w) + m /\ input \in Seq(Nat)
    BY <1>1 DEF TypeInv
  <2>1. Lies(<<>>, input, p + (w + m))
    BY <1>3, <1>17, <2>0, LiesEmpty
  <2>2. CASE half = "first"
    <3>0. w = 0 + 0
      BY <1>9, <1>17, <2>2, EmptyLen DEF Bytes
    <3>1. w = 0 /\ p + w = p /\ p + m = p + (w + m)
      BY <3>0
    <3>2. Lies(data, input, p) /\ Lies(<<>>, input, p + m)
      BY <1>3, <1>17, <2>1, <3>1
    <3>3. window'.first = data /\ window'.second = <<>> /\ Len(window'.first) = m
      BY <1>4, <1>9, <1>17, <2>2
    <3> QED
      BY <1>3, <1>18, <1>19, <2>1, <3>2, <3>3 DEF ContentInv
  <2>3. CASE half = "second"
    <3>1. PICK l \in Nat : l = Len(window.first)
      BY <1>1, WindowFields
    <3>0. w = l + 0
      BY <1>9, <1>17, <2>3, <3>1, EmptyLen DEF Bytes
    <3>2. w = l
      BY <3>0
    <3>3. Lies(data, input, p + l) /\ Lies(window.first, input, p)
      BY <1>1, <1>3, <1>5, <1>17, <3>2 DEF ContentInv, Live
    <3>4. window'.first = window.first /\ window'.second = data /\ Len(window'.first) = l
      BY <1>4, <2>3, <3>1
    <3> QED
      BY <1>3, <1>18, <1>19, <2>1, <3>3, <3>4 DEF ContentInv
  <2> QED
    BY <1>5, <2>2, <2>3
<1>21. AccountInv'
  <2>1. Returned' = Returned
    BY DEF Returned
  <2> QED
    BY <1>1, <1>3, <1>5, <1>15, <1>17, <1>19, <2>1 DEF AccountInv, Live
<1> QED
  BY <1>6, <1>7, <1>8, <1>16, <1>20, <1>21 DEF ChopInv

(* The stream fails. *)
LEMMA LoadFails ==
  ASSUME ChopInv, pc = "load", NEW r \in Reads(WindowSize - Len(got)), Consume(r),
         window' = WithHalf(got \o r.data), got' = <<>>, pc' = "idle", status' = "read_error",
         UNCHANGED <<blocks, kind, buffer, start, fpr, prevFirstChar, first, half>>
  PROVE  ChopInv'
<1>1. TypeInv /\ ControlInv /\ SizeInv
  BY DEF ChopInv
<1>2. /\ got \o r.data \in Seq(Nat) /\ Len(got \o r.data) <= WindowSize
      /\ input' = input /\ medium' = medium /\ failures' \in 0..1
      /\ position' \in 0..Len(input)
  BY LoadFacts
<1>3. /\ window' \in [first : Seq(Nat), second : Seq(Nat), offset : Nat]
      /\ window'.offset = window.offset
      /\ Len(window'.first) <= WindowSize /\ Len(window'.second) <= WindowSize
  BY <1>1, <1>2, WithHalfFacts
<1>4. TypeInv'
  BY <1>1, <1>2, <1>3 DEF TypeInv
<1>5. ControlInv'
  BY <1>1 DEF ControlInv
<1>6. SizeInv'
  BY <1>1, <1>3, EmptyLen, WindowAssumption DEF SizeInv
<1>7. HalvesInv' /\ ContentInv' /\ AccountInv'
  BY DEF HalvesInv, ContentInv, AccountInv, Live
<1> QED
  BY <1>4, <1>5, <1>6, <1>7 DEF ChopInv

(* One read of read_sliding_window. *)
LEMMA ReadSlidingWindowStep ==
  ASSUME ChopInv, ReadSlidingWindow
  PROVE  ChopInv'
<1>1. /\ pc = "load"
      /\ UNCHANGED <<kind, buffer, start, fpr, prevFirstChar, first, half>>
  BY DEF ReadSlidingWindow
<1>2. PICK r \in Reads(WindowSize - Len(got)) :
         LET data == got \o r.data
             done == r.err # "ok" \/ Len(data) = WindowSize
         IN  /\ Consume(r)
             /\ got' = IF done THEN <<>> ELSE data
             /\ window' = IF done THEN WithHalf(data) ELSE window
             /\ IF r.err \notin {"ok", "end"} THEN Returns(buffer, r.err)
                ELSE /\ UNCHANGED <<blocks, status>>
                     /\ pc' = IF ~done THEN "load"
                              ELSE IF data = <<>> THEN "flush" ELSE "scan"
  BY DEF ReadSlidingWindow
<1>3. r.err \in {"ok", "end", "read_error"} /\ Consume(r)
  BY <1>1, <1>2, LoadFacts
<1>4. CASE r.err = "read_error"
  BY <1>1, <1>2, <1>4, LoadFails DEF Returns
<1>5. CASE r.err = "end" \/ (r.err = "ok" /\ Len(got \o r.data) = WindowSize)
  BY <1>1, <1>2, <1>5, LoadDone
<1>6. CASE r.err = "ok" /\ Len(got \o r.data) # WindowSize
  BY <1>1, <1>2, <1>6, LoadGoesOn
<1> QED
  BY <1>3, <1>4, <1>5, <1>6

(* The slice from byte a of the first half to byte o of the second. *)
LEMMA SliceFacts ==
  ASSUME NEW w \in [first : Seq(Nat), second : Seq(Nat), offset : Nat],
         Len(w.first) <= WindowSize, w.second # <<>> => Len(w.first) = WindowSize,
         NEW a \in Nat, a <= Len(w.first), NEW o \in Nat, o <= Len(w.second)
  PROVE  Slice(w, a, (Len(w.first) - a) + o)
            = SubSeq(w.first, a + 1, Len(w.first)) \o SubSeq(w.second, 1, o)
<1>0. PICK n \in Nat, l \in Nat, g \in Nat :
           n = WindowSize /\ l = Len(w.first) /\ g = Len(w.second)
  <2>1. WindowSize \in Nat /\ Len(w.first) \in Nat /\ Len(w.second) \in Nat
    BY WindowAssumption
  <2> QED
    BY <2>1, Zenon
<1>a. l <= n /\ (g # 0 => l = n) /\ a <= l /\ o <= g
  <2>1. w.second \in Seq(Nat) /\ (g # 0 => w.second # <<>>)
    BY <1>0, Nonempty
  <2> QED
    BY <1>0, <2>1
<1>1. w.first \in Seq(Nat) /\ w.second \in Seq(Nat)
  OBVIOUS
<1>2. SubSeq(w.second, 1, o) \in Seq(Nat) /\ Len(SubSeq(w.first, a + 1, l)) = l - a
  BY <1>0, <1>1, <1>a, SMTT(30)
<1>3. CASE a < n
  <2>1. (IF a + ((l - a) + o) < l THEN a + ((l - a) + o) ELSE l) = l
    OBVIOUS
  <2>2. ((l - a) + o) - (l - a) = o
    OBVIOUS
  <2>3. (IF o < g THEN o ELSE g) = o
    BY <1>a
  <2> QED
    BY <1>0, <1>2, <1>3, <2>1, <2>2, <2>3 DEF Slice
<1>4. CASE ~(a < n)
  <2>0. a = n /\ l = n
    BY <1>4, <1>a
  <2>1. (a - n) + 1 = 1 /\ (a - n) + ((l - a) + o) = o
    BY <2>0
  <2>2. Slice(w, a, (l - a) + o) = SubSeq(w.second, 1, o)
    BY <1>0, <1>4, <2>1 DEF Slice
  <2>3. SubSeq(w.first, a + 1, l) = <<>>
    BY <1>1, <2>0
  <2>4. <<>> \o SubSeq(w.second, 1, o) = SubSeq(w.second, 1, o)
    BY <1>2
  <2> QED
    BY <1>0, <2>2, <2>3, <2>4
<1> QED
  BY <1>3, <1>4

(* What the slice holds. *)
LEMMA SliceLies ==
  ASSUME NEW t \in Seq(Nat), NEW u \in Seq(Nat), NEW v \in Seq(Nat),
         NEW p \in Nat, Lies(u, t, p), Lies(v, t, p + Len(u)),
         NEW a \in Nat, a <= Len(u), NEW o \in 0..Len(v)
  PROVE  /\ SubSeq(u, a + 1, Len(u)) \o SubSeq(v, 1, o) \in Seq(Nat)
         /\ Len(SubSeq(u, a + 1, Len(u)) \o SubSeq(v, 1, o)) = (Len(u) - a) + o
         /\ Lies(SubSeq(u, a + 1, Len(u)) \o SubSeq(v, 1, o), t, p + a)
<1>0. PICK l \in Nat : l = Len(u)
  OBVIOUS
<1>1. PICK head \in Seq(Nat) : /\ head = SubSeq(u, a + 1, Len(u))
                               /\ Len(head) = l - a /\ Lies(head, t, p + a)
  <2>1. Len(u) \in a..Len(u)
    OBVIOUS
  <2>2. /\ SubSeq(u, a + 1, Len(u)) \in Seq(Nat) /\ Len(SubSeq(u, a + 1, Len(u))) = Len(u) - a
        /\ Lies(SubSeq(u, a + 1, Len(u)), t, p + a)
    BY <2>1, LiesSub
  <2> QED
    BY <1>0, <2>2
<1>2. PICK tail \in Seq(Nat) : /\ tail = SubSeq(v, 1, o)
                               /\ Len(tail) = o /\ Lies(tail, t, p + l)
  <2>1. /\ o \in Nat /\ 0 \in Nat /\ 0 + 1 = 1 /\ o - 0 = o
        /\ (p + l) + 0 = p + l /\ p + l \in Nat
    OBVIOUS
  <2>2. Lies(v, t, p + l)
    BY <1>0
  <2>3. /\ SubSeq(v, 0 + 1, o) \in Seq(Nat) /\ Len(SubSeq(v, 0 + 1, o)) = o - 0
        /\ Lies(SubSeq(v, 0 + 1, o), t, (p + l) + 0)
    BY <2>1, <2>2, LiesSub, Zenon
  <2> QED
    BY <2>1, <2>3
<1>3. PICK s \in Seq(Nat) : s = head \o tail /\ Len(s) = (l - a) + o /\ Lies(s, t, p + a)
  <2>1. (p + a) + (l - a) = p + l /\ p + a \in Nat
    OBVIOUS
  <2>2. Lies(tail, t, (p + a) + Len(head))
    BY <1>1, <1>2, <2>1
  <2>3. head \o tail \in Seq(Nat) /\ Len(head \o tail) = Len(head) + Len(tail)
        /\ Lies(head \o tail, t, p + a)
    <3>1. Lies(head, t, p + a) /\ p + a \in Nat
      BY <1>1, <2>1
    <3> QED
      BY <2>2, <3>1, LiesConcat, Zenon
  <2>4. Len(head) = l - a /\ Len(tail) = o
    BY <1>1, <1>2
  <2> QED
    BY <2>3, <2>4
<1>4. s = SubSeq(u, a + 1, Len(u)) \o SubSeq(v, 1, o)
  BY <1>1, <1>2, <1>3
<1> QED
  BY <1>0, <1>3, <1>4

(***************************************************************************)
(* A block ends with byte o of the second half, and read_block returns:    *)
(* the rest of the window starts there.                                    *)
(***************************************************************************)
BlockEnd(p, o) ==
    /\ p = Base
    /\ buffer' = buffer \o (SubSeq(window.first, start + 1, Len(window.first))
                            \o SubSeq(window.second, 1, o))
    /\ window'.offset \in Nat /\ Base' + window'.offset = p + Len(window.first) + o
    /\ \/ status' = "ok" /\ blocks' = Append(blocks, buffer')
       \/ status' = "end" /\ blocks' = blocks /\ buffer' = <<>>
    /\ pc' = "idle" /\ kind' = kind /\ input' = input

(* The account of the bytes is still right then. *)
LEMMA BlockEnds ==
  ASSUME ChopInv, pc \in {"scan", "flush"}, NEW p \in Nat, NEW o \in Nat,
         o <= Len(window.second), BlockEnd(p, o)
  PROVE  buffer' \in Seq(Nat) /\ blocks' \in Seq(Seq(Byte)) /\ AccountInv'
<1>1. TypeInv /\ ControlInv /\ SizeInv /\ HalvesInv /\ ContentInv /\ AccountInv
  BY DEF ChopInv
<1>2. status = "ok" /\ kind = "anchor" /\ input \in Seq(Nat) /\ buffer \in Seq(Nat)
      /\ blocks \in Seq(Seq(Byte))
  BY <1>1 DEF ControlInv, TypeInv
<1>3. /\ Returned \in Seq(Nat) /\ Lies(Returned, input, 0)
      /\ p + start = Len(Returned) + Len(buffer) /\ Lies(buffer, input, Len(Returned))
  BY <1>1, <1>2 DEF AccountInv, Live, BlockEnd
<1>4. PICK q \in Nat : q = Len(Returned)
  BY <1>3
<1>0. PICK l \in Nat : l = Len(window.first)
  BY <1>1, WindowFields
<1>5. PICK a \in Nat : a = start /\ a <= l
  BY <1>0, <1>1, <1>2 DEF HalvesInv, Live, TypeInv
<1>6. PICK k \in Nat : k = Len(buffer)
  BY <1>2
<1>7. /\ window.first \in Seq(Nat) /\ window.second \in Seq(Nat) /\ Lies(window.first, input, p)
      /\ Lies(window.second, input, p + Len(window.first))
  BY <1>1, <1>2, WindowFields DEF ContentInv, Live, BlockEnd
<1>8. /\ q + Len(buffer) = p + a /\ a <= Len(window.first) /\ Lies(buffer, input, q)
      /\ o \in 0..Len(window.second)
  BY <1>0, <1>3, <1>4, <1>5, <1>7
<1>a. PICK c : c = SubSeq(window.first, a + 1, Len(window.first)) \o SubSeq(window.second, 1, o)
  OBVIOUS
<1>9. /\ buffer \o c \in Seq(Nat) /\ Lies(buffer \o c, input, q)
      /\ Len(buffer \o c) = Len(buffer) + ((Len(window.first) - a) + o)
  <2>1. /\ c \in Seq(Nat) /\ Len(c) = (Len(window.first) - a) + o
        /\ Lies(c, input, p + a)
    <3>1. /\ input \in Seq(Nat) /\ window.first \in Seq(Nat) /\ window.second \in Seq(Nat)
          /\ Lies(window.first, input, p) /\ Lies(window.second, input, p + Len(window.first))
          /\ a <= Len(window.first) /\ o \in 0..Len(window.second)
      BY <1>2, <1>7, <1>8
    <3>2. /\ SubSeq(window.first, a + 1, Len(window.first)) \o SubSeq(window.second, 1, o) \in Seq(Nat)
          /\ Len(SubSeq(window.first, a + 1, Len(window.first)) \o SubSeq(window.second, 1, o))
                = (Len(window.first) - a) + o
          /\ Lies(SubSeq(window.first, a + 1, Len(window.first)) \o SubSeq(window.second, 1, o),
                  input, p + a)
      BY <3>1, SliceLies
    <3> QED
      BY <1>a, <3>2
  <2>2. Lies(c, input, q + Len(buffer))
    BY <1>8, <2>1
  <2>3. buffer \o c \in Seq(Nat) /\ Len(buffer \o c) = Len(buffer) + Len(c)
        /\ Lies(buffer \o c, input, q)
    BY <1>2, <1>8, <2>1, <2>2, LiesConcat, Zenon
  <2> QED
    BY <2>1, <2>3
<1>10. PICK b \in Seq(Nat) : b = buffer' /\ Lies(b, input, q) /\ Len(b) = k + ((l - a) + o)
  BY <1>0, <1>5, <1>6, <1>9, <1>a DEF BlockEnd
<1>11. b \in Seq(Byte)
  BY BytesOfNat
<1>12. blocks' \in Seq(Seq(Byte))
  <2>1. Append(blocks, b) \in Seq(Seq(Byte))
    BY <1>2, <1>11
  <2> QED
    BY <1>2, <1>10, <2>1 DEF BlockEnd
<1>13. q + k = p + a
  BY <1>6, <1>8
<1>14. PICK z \in Nat : z = window'.offset
  BY DEF BlockEnd
<1>16. /\ Returned' \in Seq(Nat) /\ Lies(Returned', input, 0)
       /\ Len(Returned') = p + l + o
  <2>1. CASE status' = "ok" /\ blocks' = Append(blocks, buffer')
    <3>1. Returned' = Concat(Append(blocks, b))
      BY <1>10, <2>1 DEF Returned
    <3>2. /\ Concat(Append(blocks, b)) \in Seq(Nat) /\ Lies(Concat(Append(blocks, b)), input, 0)
          /\ Len(Concat(Append(blocks, b))) = Len(Returned) + Len(b)
      BY <1>1, <1>3, <1>4, <1>10, ReturnedGrows
    <3>3. q + (k + ((l - a) + o)) = p + l + o
      BY <1>13
    <3> QED
      BY <1>4, <1>10, <3>1, <3>2, <3>3
  <2>2. CASE status' = "end" /\ blocks' = blocks /\ buffer' = <<>>
    <3>1. Returned' = Returned
      BY <2>2 DEF Returned
    <3>2. k + ((l - a) + o) = 0
      BY <1>10, <2>2, EmptyLen
    <3>3. q = p + l + o
      BY <1>5, <1>13, <3>2
    <3> QED
      BY <1>3, <1>4, <3>1, <3>3
  <2> QED
    BY <2>1, <2>2 DEF BlockEnd
<1>17. AccountInv'
  <2>1. Base' + window'.offset = p + l + o /\ pc' = "idle" /\ input' = input
    BY <1>0 DEF BlockEnd
  <2> QED
    BY <1>16, <2>1 DEF AccountInv
<1> QED
  BY <1>10, <1>12, <1>17

(* The end of the stream. *)
LEMMA FlushStep ==
  ASSUME ChopInv, Flush
  PROVE  ChopInv'
<1>1. TypeInv /\ ControlInv /\ SizeInv /\ HalvesInv /\ ContentInv /\ AccountInv
  BY DEF ChopInv
<1>2. /\ pc = "flush" /\ window' = EmptyWindow /\ pc' = "idle"
      /\ buffer' = buffer \o Slice(window, start, EndOffset(window) - start)
      /\ blocks' = IF buffer' # <<>> THEN Append(blocks, buffer') ELSE blocks
      /\ status' = IF buffer' = <<>> THEN "end" ELSE "ok"
      /\ UNCHANGED <<medium, input, position, failures, kind, start, fpr, prevFirstChar, first,
                     half, got>>
  BY DEF Flush, Returns, inputVars
<1>3. /\ status = "ok" /\ kind = "anchor" /\ got = <<>> /\ window.second = <<>>
      /\ window \in [first : Seq(Nat), second : Seq(Nat), offset : Nat]
      /\ input \in Seq(Nat)
  BY <1>1, <1>2 DEF ControlInv, HalvesInv, Live, TypeInv
<1>4. PICK n \in Nat \ {0} : n = WindowSize
  BY WindowAssumption
<1>5. PICK l \in Nat : l = Len(window.first) /\ l <= n
  BY <1>1, <1>4, WindowFields DEF SizeInv
<1>6. PICK a \in Nat : a = start /\ a <= l
  BY <1>1, <1>2, <1>3, <1>5 DEF HalvesInv, Live, TypeInv
<1>7. PICK d \in Nat : d = window.offset
  BY <1>3
<1>8. EndOffset(window) = l
  <2>1. Bytes(window) = l + 0
    BY <1>3, <1>5, EmptyLen DEF Bytes
  <2>2. (IF d + n < l + 0 THEN d + n ELSE l + 0) = l
    BY <1>5
  <2> QED
    BY <1>4, <1>7, <2>1, <2>2 DEF EndOffset
<1>9. Slice(window, a, (Len(window.first) - a) + 0)
         = SubSeq(window.first, a + 1, Len(window.first)) \o SubSeq(window.second, 1, 0)
  <2>1. 0 <= Len(window.second) /\ 0 \in Nat /\ a <= Len(window.first)
    BY <1>3, <1>5, <1>6, EmptyLen
  <2> QED
    BY <1>3, <1>4, <1>5, <2>1, SliceFacts
<1>10. buffer' = buffer \o (SubSeq(window.first, start + 1, Len(window.first))
                            \o SubSeq(window.second, 1, 0))
  <2>1. (l - a) + 0 = l - a
    OBVIOUS
  <2> QED
    BY <1>2, <1>5, <1>6, <1>8, <1>9, <2>1
<1>11. PICK p \in Nat, x \in Nat : p = Base /\ x = position /\ x = p + l
  <2>1. PICK y \in Nat : y = position
    BY <1>1 DEF TypeInv
  <2>2. Base \in Nat
    BY <1>1, <1>3 DEF ContentInv, Live
  <2>3. Base = y - 0 - (l + 0)
    BY <1>3, <1>5, <2>1, EmptyLen DEF Base, Bytes
  <2>4. y = Base + l
    BY <2>2, <2>3
  <2> QED
    BY <2>1, <2>2, <2>4
<1>12. Base' = x
  <2>1. Base' = x - 0 - 0
    BY <1>2, <1>3, <1>11, NoWindow, EmptyLen DEF Base
  <2> QED
    BY <2>1
<1>13. BlockEnd(p, 0)
  <2>1. Base' + window'.offset = p + Len(window.first) + 0 /\ window'.offset \in Nat
    <3>1. window'.offset = 0
      BY <1>2, NoWindow
    <3>2. x + 0 = p + l + 0
      BY <1>11
    <3> QED
      BY <1>5, <1>12, <3>1, <3>2
  <2>2. \/ status' = "ok" /\ blocks' = Append(blocks, buffer')
        \/ status' = "end" /\ blocks' = blocks /\ buffer' = <<>>
    BY <1>2
  <2> QED
    BY <1>2, <1>10, <1>11, <2>1, <2>2 DEF BlockEnd
<1>14. buffer' \in Seq(Nat) /\ blocks' \in Seq(Seq(Byte)) /\ AccountInv'
  <2>1. 0 \in Nat /\ 0 <= Len(window.second)
    BY <1>3, EmptyLen
  <2> QED
    BY <1>2, <1>11, <1>13, <2>1, BlockEnds
<1>15. TypeInv'
  BY <1>1, <1>2, <1>14, NoWindow DEF TypeInv
<1>16. ControlInv'
  BY <1>2, <1>3 DEF ControlInv
<1>17. SizeInv'
  BY <1>1, <1>2, NoWindow, EmptyLen, WindowAssumption DEF SizeInv
<1>18. HalvesInv'
  <2>1. ~(Len(<<>>) \in 1..(WindowSize - 1)) /\ 0 <= Len(<<>>)
    BY EmptyLen
  <2> QED
    BY <1>2, <1>3, <2>1, NoWindow DEF HalvesInv
<1>19. ContentInv'
  <2>1. x \in 0..Len(input) /\ x + 0 = x
    BY <1>1, <1>11 DEF TypeInv
  <2>2. Lies(<<>>, input, x)
    BY <1>3, <2>1, LiesEmpty
  <2> QED
    BY <1>2, <1>3, <1>12, <2>1, <2>2, NoWindow, EmptyLen DEF ContentInv
<1> QED
  BY <1>14, <1>15, <1>16, <1>17, <1>18, <1>19 DEF ChopInv

(***************************************************************************)
(* A window that is not unfull has a full first half and at least offset   *)
(* bytes in the second: a whole window from the offset on.                 *)
(***************************************************************************)
LEMMA FullWindow ==
  ASSUME TypeInv, SizeInv, HalvesInv, Live, ~Unfull(window)
  PROVE  /\ Len(window.first) = WindowSize /\ window.first # <<>>
         /\ window.offset <= Len(window.second)
         /\ Len(window.second) <= WindowSize
         /\ window.second = <<>> => window.offset = 0
<1>1. /\ window.first \in Seq(Nat) /\ window.second \in Seq(Nat) /\ window.offset \in Nat
      /\ Len(window.first) <= WindowSize /\ Len(window.second) <= WindowSize
  BY WindowFields DEF SizeInv
<1>2. PICK n \in Nat \ {0}, l \in Nat, g \in Nat, o \in Nat :
           n = WindowSize /\ l = Len(window.first) /\ g = Len(window.second) /\ o = window.offset
  <2>1. /\ WindowSize \in Nat \ {0} /\ Len(window.first) \in Nat /\ Len(window.second) \in Nat
        /\ window.offset \in Nat
    BY <1>1, WindowAssumption
  <2> QED
    BY <2>1, Zenon
<1>3. CASE window.second # <<>>
  <2>1. l = n
    BY <1>2, <1>3 DEF HalvesInv
  <2>2. o <= g
    BY <1>2, <1>3 DEF Unfull
  <2>3. window.first # <<>>
    BY <1>3 DEF HalvesInv
  <2> QED
    BY <1>1, <1>2, <1>3, <2>1, <2>2, <2>3
<1>4. CASE window.second = <<>>
  <2>1. window.first # <<>> /\ ~(o > 0) /\ ~(l < n) /\ l <= n
    BY <1>1, <1>2, <1>4 DEF Unfull
  <2>2. o = 0 /\ l = n /\ o <= g
    BY <2>1
  <2> QED
    BY <1>1, <1>2, <1>4, <2>1, <2>2
<1> QED
  BY <1>3, <1>4

(* The bytes of a whole window. *)
LEMMA WholeWindow ==
  ASSUME NEW w \in [first : Seq(Nat), second : Seq(Nat), offset : Nat],
         Len(w.first) = WindowSize, w.offset <= Len(w.second), Len(w.second) <= WindowSize
  PROVE  /\ EndOffset(w) = w.offset + WindowSize
         /\ WindowBytes(w) \in Seq(Nat) /\ Len(WindowBytes(w)) = WindowSize
         /\ FirstChar(w) \in Nat /\ LastChar(w) \in Nat
         /\ WindowBytes(w) = SubSeq(w.first, w.offset + 1, Len(w.first))
                             \o SubSeq(w.second, 1, w.offset)
<1>1. PICK u \in Seq(Nat), v \in Seq(Nat), o \in Nat : u = w.first /\ v = w.second /\ o = w.offset
  OBVIOUS
<1>2. PICK n \in Nat \ {0}, g \in Nat : n = WindowSize /\ g = Len(v)
  <2>1. WindowSize \in Nat \ {0} /\ Len(v) \in Nat
    BY WindowAssumption
  <2> QED
    BY <2>1, Zenon
<1>3. n = Len(u) /\ o <= g /\ g <= n /\ Bytes(w) = n + g
  BY <1>1, <1>2 DEF Bytes
<1>4. EndOffset(w) = w.offset + WindowSize
  <2>0. o <= g
    BY <1>3
  <2>1. (IF o + n < n + g THEN o + n ELSE n + g) = o + n
    BY <2>0
  <2> QED
    BY <1>1, <1>2, <1>3, <2>1 DEF EndOffset
<1>5. StartOffset(w) = o
  <2>1. o < n + g
    BY <1>3
  <2> QED
    BY <1>1, <1>3, <2>1 DEF StartOffset
<1>6. WindowBytes(w) = SubSeq(u, o + 1, n) \o SubSeq(v, 1, o)
  <2>1. CASE o > 0
    BY <1>1, <1>3, <1>5, <2>1 DEF WindowBytes
  <2>2. CASE ~(o > 0)
    <3>1. SubSeq(v, 1, o) = <<>>
      BY <2>2
    <3> QED
      BY <1>1, <1>3, <1>5, <2>2, <3>1 DEF WindowBytes
  <2> QED
    BY <2>1, <2>2
<1>7. PICK h \in Seq(Nat), t \in Seq(Nat) : /\ h = SubSeq(u, o + 1, n) /\ Len(h) = n - o
                                            /\ t = SubSeq(v, 1, o) /\ Len(t) = o
  <2>1. SubSeq(u, o + 1, n) \in Seq(Nat) /\ Len(SubSeq(u, o + 1, n)) = n - o
    BY <1>2, <1>3, SMTT(30)
  <2>2. SubSeq(v, 1, o) \in Seq(Nat) /\ Len(SubSeq(v, 1, o)) = o
    BY <1>2, <1>3, SMTT(30)
  <2> QED
    BY <2>1, <2>2, Zenon
<1>8. h \o t \in Seq(Nat) /\ Len(h \o t) = Len(h) + Len(t)
  OBVIOUS
<1>9. Len(h \o t) = n
  BY <1>7, <1>8
<1>10. FirstChar(w) \in Nat
  <2>1. CASE o < n
    <3>1. o + 1 \in 1..Len(u)
      BY <1>3, <2>1
    <3>2. u[o + 1] \in Nat
      BY <3>1
    <3> QED
      BY <1>1, <1>2, <2>1, <3>2 DEF FirstChar, Ref
  <2>2. CASE ~(o < n)
    <3>1. (o - n) + 1 = 1 /\ 1 \in 1..Len(v)
      BY <1>2, <1>3, <2>2
    <3>2. v[1] \in Nat
      BY <3>1
    <3> QED
      BY <1>1, <1>2, <2>2, <3>1, <3>2 DEF FirstChar, Ref
  <2> QED
    BY <2>1, <2>2
<1>11. LastChar(w) \in Nat
  <2>1. CASE o = 0
    <3>1. o + n - 1 < n /\ (o + n - 1) + 1 \in 1..Len(u)
      BY <1>3, <2>1
    <3>2. u[(o + n - 1) + 1] \in Nat
      BY <3>1
    <3> QED
      BY <1>1, <1>2, <3>1, <3>2 DEF LastChar, Ref
  <2>2. CASE o # 0
    <3>1. ~(o + n - 1 < n) /\ ((o + n - 1) - n) + 1 \in 1..Len(v)
      BY <1>2, <1>3, <2>2
    <3>2. v[((o + n - 1) - n) + 1] \in Nat
      BY <3>1
    <3> QED
      BY <1>1, <1>2, <3>1, <3>2 DEF LastChar, Ref
  <2> QED
    BY <2>1, <2>2
<1> QED
  BY <1>1, <1>2, <1>3, <1>4, <1>6, <1>7, <1>8, <1>9, <1>10, <1>11

(* No anchor: the window moves by one byte. *)
LEMMA ScanMoves ==
  ASSUME ChopInv, pc = "scan", ~Unfull(window),
         window' = [window EXCEPT !.offset = @ + 1],
         fpr' \in 0..(Modulus - 1), prevFirstChar' \in Nat, first' \in BOOLEAN,
         UNCHANGED <<medium, input, position, failures, kind, buffer, start, half, got, blocks,
                     status, pc>>
  PROVE  ChopInv'
<1>1. TypeInv /\ ControlInv /\ SizeInv /\ HalvesInv /\ ContentInv /\ AccountInv
  BY DEF ChopInv
<1>2. /\ status = "ok" /\ kind = "anchor" /\ Live
      /\ window \in [first : Seq(Nat), second : Seq(Nat), offset : Nat]
  BY <1>1 DEF ControlInv, TypeInv, Live
<1>3. /\ Len(window.first) = WindowSize /\ window.first # <<>>
      /\ window.offset <= Len(window.second) /\ Len(window.second) <= WindowSize
  BY <1>1, <1>2, FullWindow
<1>4. PICK o \in Nat, g \in Nat, n \in Nat :
           o = window.offset /\ g = Len(window.second) /\ n = WindowSize
  <2>1. window.offset \in Nat /\ Len(window.second) \in Nat /\ WindowSize \in Nat
    BY <1>2, WindowAssumption
  <2> QED
    BY <2>1, Zenon
<1>5. /\ window'.first = window.first /\ window'.second = window.second /\ window'.offset = o + 1
      /\ window' \in [first : Seq(Nat), second : Seq(Nat), offset : Nat]
  <2>1. window' = [window EXCEPT !.offset = o + 1]
    BY <1>2, <1>4
  <2>2. o + 1 \in Nat
    OBVIOUS
  <2> QED
    BY <1>2, <2>1, <2>2
<1>6. o <= n /\ o + 1 <= n + 1 /\ o <= o + 1
  BY <1>3, <1>4
<1>7. TypeInv'
  BY <1>1, <1>5 DEF TypeInv
<1>8. ControlInv'
  BY <1>1, <1>2 DEF ControlInv
<1>9. SizeInv'
  BY <1>1, <1>4, <1>5, <1>6 DEF SizeInv
<1>10. HalvesInv'
  <2>1. PICK a \in Nat : a = start /\ a <= o
    BY <1>1, <1>2, <1>4 DEF HalvesInv, TypeInv
  <2>2. start <= o + 1
    BY <2>1
  <2> QED
    BY <1>1, <1>2, <1>3, <1>5, <2>2 DEF HalvesInv, Live
<1>11. Base' = Base /\ Bytes(window') = Bytes(window) /\ Returned' = Returned
  BY <1>5 DEF Base, Bytes, Returned
<1>12. ContentInv'
  BY <1>1, <1>2, <1>5, <1>11 DEF ContentInv, Live
<1>13. AccountInv'
  BY <1>1, <1>2, <1>11 DEF AccountInv, Live
<1> QED
  BY <1>7, <1>8, <1>9, <1>10, <1>12, <1>13 DEF ChopInv

(* An anchor: the block ends with the window. *)
LEMMA ScanEnds ==
  ASSUME ChopInv, pc = "scan", ~Unfull(window), NEW m, m = EndOffset(window) - start,
         buffer' = buffer \o Slice(window, start, m),
         window' = Skip(window, WindowSize),
         blocks' = Append(blocks, buffer'), status' = "ok", pc' = "idle",
         fpr' \in 0..(Modulus - 1), prevFirstChar' \in Nat, first' \in BOOLEAN,
         UNCHANGED <<medium, input, position, failures, kind, start, half, got>>
  PROVE  ChopInv'
<1>1. TypeInv /\ ControlInv /\ SizeInv /\ HalvesInv /\ ContentInv /\ AccountInv
  BY DEF ChopInv
<1>2. /\ status = "ok" /\ kind = "anchor" /\ Live /\ got = <<>> /\ input \in Seq(Nat)
      /\ window \in [first : Seq(Nat), second : Seq(Nat), offset : Nat]
  BY <1>1 DEF ControlInv, TypeInv, Live, HalvesInv
<1>3. /\ Len(window.first) = WindowSize /\ window.first # <<>>
      /\ window.offset <= Len(window.second) /\ Len(window.second) <= WindowSize
      /\ window.second = <<>> => window.offset = 0
  BY <1>1, <1>2, FullWindow
<1>4. PICK o \in Nat, g \in Nat, n \in Nat :
           o = window.offset /\ g = Len(window.second) /\ n = WindowSize
  <2>1. window.offset \in Nat /\ Len(window.second) \in Nat /\ WindowSize \in Nat
    BY <1>2, WindowAssumption
  <2> QED
    BY <2>1, Zenon
<1>5. o <= g /\ g <= n
  BY <1>3, <1>4
<1>6. PICK a \in Nat : a = start /\ a <= n
  BY <1>1, <1>2, <1>3, <1>4 DEF HalvesInv, TypeInv
<1>7. /\ window'.first = window.second /\ window'.second = <<>> /\ window'.offset = o
      /\ window' \in [first : Seq(Nat), second : Seq(Nat), offset : Nat]
  <2>1. o + n >= n /\ (o + n) - n = o
    OBVIOUS
  <2>2. window' = [first |-> window.second, second |-> <<>>, offset |-> o]
    BY <1>3, <1>4, <2>1 DEF Skip
  <2>3. window.second \in Seq(Nat)
    BY <1>2
  <2> QED
    BY <2>2, <2>3
<1>8. buffer' = buffer \o (SubSeq(window.first, start + 1, Len(window.first))
                           \o SubSeq(window.second, 1, o))
  <2>1. m = (Len(window.first) - a) + o
    <3>1. EndOffset(window) = o + n
      BY <1>2, <1>3, <1>4, WholeWindow
    <3>2. (o + n) - a = (n - a) + o
      BY <1>6
    <3> QED
      BY <1>3, <1>4, <1>6, <3>1, <3>2
  <2>2. a <= Len(window.first) /\ o <= Len(window.second) /\ Len(window.first) <= WindowSize
    BY <1>3, <1>4, <1>5, <1>6
  <2>3. Slice(window, a, (Len(window.first) - a) + o)
          = SubSeq(window.first, a + 1, Len(window.first)) \o SubSeq(window.second, 1, o)
    BY <1>2, <1>3, <2>2, SliceFacts
  <2> QED
    BY <1>6, <2>1, <2>3
<1>9. PICK p \in Nat, x \in Nat : p = Base /\ x = position /\ x = p + (n + g)
  <2>1. PICK y \in Nat : y = position
    BY <1>1 DEF TypeInv
  <2>2. Base \in Nat
    BY <1>1, <1>2 DEF ContentInv
  <2>3. Base = y - 0 - (n + g)
    BY <1>2, <1>3, <1>4, <2>1, EmptyLen DEF Base, Bytes
  <2>4. y = Base + (n + g)
    BY <2>2, <2>3
  <2> QED
    BY <2>1, <2>2, <2>4
<1>10. Bytes(window') = g + 0
  BY <1>4, <1>7, EmptyLen DEF Bytes
<1>11. Base' = p + n
  <2>1. Base' = x - 0 - (g + 0)
    BY <1>2, <1>9, <1>10, EmptyLen DEF Base
  <2>2. x - 0 - (g + 0) = p + n
    BY <1>9
  <2> QED
    BY <2>1, <2>2
<1>12. BlockEnd(p, o)
  BY <1>3, <1>4, <1>7, <1>8, <1>9, <1>11 DEF BlockEnd
<1>13. buffer' \in Seq(Nat) /\ blocks' \in Seq(Seq(Byte)) /\ AccountInv'
  <2>1. o <= Len(window.second)
    BY <1>4, <1>5
  <2> QED
    BY <1>12, <2>1, BlockEnds
<1>14. TypeInv'
  BY <1>1, <1>7, <1>13 DEF TypeInv
<1>15. ControlInv'
  BY <1>2 DEF ControlInv
<1>16. SizeInv'
  <2>1. o <= n + 1
    BY <1>5
  <2> QED
    BY <1>1, <1>2, <1>3, <1>4, <1>7, <2>1, EmptyLen, WindowAssumption DEF SizeInv
<1>17. HalvesInv'
  <2>1. ~(Len(<<>>) \in 1..(WindowSize - 1))
    BY EmptyLen
  <2>2. Len(window.second) \in 1..(WindowSize - 1) => position = Len(input)
    BY <1>1, <1>2 DEF HalvesInv
  <2>3. o <= Len(window.second) /\ (window.second = <<>> => o = 0)
    BY <1>3, <1>4, <1>5
  <2> QED
    BY <1>2, <1>7, <2>1, <2>2, <2>3 DEF HalvesInv
<1>18. ContentInv'
  <2>1. x \in 0..Len(input) /\ (p + n) + g = x /\ (p + n) + (g + 0) = x /\ p + n \in Nat
    BY <1>1, <1>9 DEF TypeInv
  <2>2. Lies(<<>>, input, x)
    BY <1>2, <2>1, LiesEmpty
  <2>3. Lies(window.second, input, p + n)
    BY <1>1, <1>2, <1>3, <1>4, <1>9 DEF ContentInv
  <2>4. Len(window'.first) = g
    BY <1>4, <1>7
  <2> QED
    BY <1>2, <1>7, <1>10, <1>11, <2>1, <2>2, <2>3, <2>4 DEF ContentInv
<1> QED
  BY <1>13, <1>14, <1>15, <1>16, <1>17, <1>18 DEF ChopInv

(* One fingerprint.  The assertions hold: the amount is positive, and the  *)
(* fingerprint from scratch is that of a whole window.                     *)
LEMMA ScanStep ==
  ASSUME ChopInv, Scan
  PROVE  ChopInv'
<1>1. TypeInv /\ ControlInv /\ SizeInv /\ HalvesInv
  BY DEF ChopInv
<1>2. /\ pc = "scan" /\ ~Unfull(window)
      /\ UNCHANGED <<medium, input, position, failures, kind, start, half, got>>
  BY DEF Scan, inputVars
<1>3. status = "ok" /\ Live /\ window \in [first : Seq(Nat), second : Seq(Nat), offset : Nat]
      /\ first \in BOOLEAN
  BY <1>1, <1>2 DEF ControlInv, TypeInv, Live
<1>4. /\ Len(window.first) = WindowSize
      /\ window.offset <= Len(window.second) /\ Len(window.second) <= WindowSize
  BY <1>1, <1>2, <1>3, FullWindow
<1>5. /\ EndOffset(window) = window.offset + WindowSize
      /\ WindowBytes(window) \in Seq(Nat) /\ Len(WindowBytes(window)) = WindowSize
      /\ FirstChar(window) \in Nat /\ LastChar(window) \in Nat
  BY <1>3, <1>4, WholeWindow
<1> DEFINE f == IF first THEN Fingerprint(WindowBytes(window))
                ELSE NextFingerprint(fpr, prevFirstChar, LastChar(window))
           m == EndOffset(window) - start
<1>6. f \in 0..(Modulus - 1)
  <2>1. fpr \in Int /\ prevFirstChar \in Int /\ LastChar(window) \in Int
    BY <1>1, <1>5, ChopperAssumption DEF TypeInv
  <2>2. NextFingerprint(fpr, prevFirstChar, LastChar(window)) \in 0..(Modulus - 1)
    BY <2>1, NextFingerprintType
  <2>3. Fingerprint(WindowBytes(window)) \in 0..(Modulus - 1)
    BY <1>5, FingerprintType
  <2> QED
    BY <2>2, <2>3
<1>7. ~(m < 0)
  <2>1. PICK o \in Nat, n \in Nat, a \in Nat :
             o = window.offset /\ n = WindowSize /\ a = start /\ a <= o
    <3>1. window.offset \in Nat /\ WindowSize \in Nat /\ start \in Nat /\ start <= window.offset
      BY <1>1, <1>2, <1>3, WindowAssumption DEF HalvesInv, TypeInv
    <3> QED
      BY <3>1, Zenon
  <2>2. ~((o + n) - a < 0)
    BY <2>1
  <2> QED
    BY <1>5, <2>1, <2>2
<1> HIDE DEF f, m
<1>8. /\ fpr' = f /\ first' = FALSE /\ prevFirstChar' = FirstChar(window)
      /\ \/ /\ buffer' = buffer \o Slice(window, start, m)
            /\ window' = Skip(window, WindowSize)
            /\ blocks' = Append(blocks, buffer') /\ status' = "ok" /\ pc' = "idle"
         \/ /\ window' = [window EXCEPT !.offset = @ + 1]
            /\ UNCHANGED <<buffer, blocks, status, pc>>
  <2>1. ~(m < 0 \/ (first /\ Len(WindowBytes(window)) # WindowSize))
    BY <1>5, <1>7
  <2> QED
    BY <2>1 DEF Scan, Returns, f, m
<1>9. fpr' \in 0..(Modulus - 1) /\ prevFirstChar' \in Nat /\ first' \in BOOLEAN
  BY <1>5, <1>6, <1>8
<1>10. m = EndOffset(window) - start
  BY DEF m
<1> QED
  BY <1>2, <1>8, <1>9, <1>10, ScanMoves, ScanEnds

-----------------------------------------------------------------------------
(* The beginning. *)
LEMMA ChopInit ==
  ASSUME Init
  PROVE  ChopInv
<1>1. /\ input \in Seq(Nat) /\ medium \in {"memory", "file", "filtered"} /\ kind \in Kind
      /\ position = 0 /\ failures = 0 /\ buffer = <<>> /\ window = EmptyWindow /\ start = 0
      /\ fpr = 0 /\ prevFirstChar = 0 /\ first = TRUE /\ half = "first" /\ got = <<>>
      /\ blocks = <<>> /\ status = "ok" /\ pc = "idle"
  BY ChopperAssumption DEF Init, InputInit
<1>2. Len(input) \in Nat
  BY <1>1
<1>3. 0 \in 0..(Modulus - 1) /\ 0 \in 0..1 /\ 0 \in 0..Len(input)
  BY <1>2, ChopperAssumption
<1>4. TypeInv
  BY <1>1, <1>3, NoWindow DEF TypeInv
<1>5. ControlInv
  BY <1>1 DEF ControlInv
<1>6. SizeInv
  BY <1>1, NoWindow, EmptyLen, WindowAssumption DEF SizeInv
<1>7. HalvesInv
  <2>1. ~(Len(<<>>) \in 1..(WindowSize - 1)) /\ 0 <= Len(<<>>)
    BY EmptyLen
  <2> QED
    BY <1>1, <2>1, NoWindow DEF HalvesInv
<1>8. Base = 0
  <2>1. Base = 0 - 0 - 0
    BY <1>1, NoWindow, EmptyLen DEF Base
  <2> QED
    BY <2>1
<1>9. Lies(<<>>, input, 0)
  BY <1>1, <1>3, LiesEmpty
<1>10. ContentInv
  <2>1. 0 + 0 = 0
    OBVIOUS
  <2> QED
    BY <1>1, <1>8, <1>9, <2>1, NoWindow, EmptyLen DEF ContentInv
<1>11. AccountInv
  <2>1. Returned = <<>>
    BY <1>1, ConcatEmpty DEF Returned
  <2>2. 0 + 0 = 0 /\ <<>> \in Seq(Nat)
    OBVIOUS
  <2> QED
    BY <1>1, <1>8, <1>9, <2>1, <2>2, NoWindow, EmptyLen DEF AccountInv
<1> QED
  BY <1>4, <1>5, <1>6, <1>7, <1>10, <1>11 DEF ChopInv

(* No step. *)
LEMMA ChopStutter ==
  ASSUME ChopInv, UNCHANGED vars
  PROVE  ChopInv'
<1>1. UNCHANGED <<medium, input, position, failures, kind, buffer, window, start, fpr,
                  prevFirstChar, first, half, got, blocks, status, pc>>
  BY DEF vars, inputVars, chopVars
<1>2. TypeInv /\ ControlInv /\ SizeInv /\ HalvesInv /\ ContentInv /\ AccountInv
  BY DEF ChopInv
<1>3. TypeInv' /\ ControlInv' /\ SizeInv' /\ HalvesInv'
  BY <1>1, <1>2 DEF TypeInv, ControlInv, SizeInv, HalvesInv, Live
<1>4. Base' = Base /\ Returned' = Returned
  BY <1>1 DEF Base, Returned
<1>5. ContentInv' /\ AccountInv'
  BY <1>1, <1>2, <1>4 DEF ContentInv, AccountInv, Live
<1> QED
  BY <1>3, <1>5 DEF ChopInv

(* The invariant is inductive. *)
LEMMA ChopInductive ==
  ASSUME ChopInv, [Next]_vars
  PROVE  ChopInv'
<1>1. CASE Reload
  BY <1>1, ReloadFree, ReloadDiscards
<1> QED
  BY <1>1, ReadBlockStep, ReadFixedStep, ReadWholeStep, ReadSlidingWindowStep, ScanStep, FlushStep,
     ChopStutter DEF Next, Step

(* It holds in every state. *)
LEMMA ChopAlways == Spec => []ChopInv
  BY ChopInit, ChopInductive, PTL DEF Spec

(***************************************************************************)
(* TypeOK: chop_anchor_chopper_read_block keeps the fingerprint below the  *)
(* modulus and the offsets within the window, and no assertion fails.      *)
(***************************************************************************)
THEOREM ChopperTypeCorrect == Spec => []TypeOK
<1>1. ASSUME ChopInv PROVE TypeOK
  <2>1. TypeInv /\ SizeInv
    BY <1>1 DEF ChopInv
  <2>2. PICK n \in Nat \ {0}, o \in Nat, a \in Nat :
             n = WindowSize /\ o = window.offset /\ a = start
    <3>1. WindowSize \in Nat \ {0} /\ window.offset \in Nat /\ start \in Nat
      BY <2>1, WindowAssumption, WindowFields DEF TypeInv
    <3> QED
      BY <3>1, Zenon
  <2>3. o <= n + 1 /\ a <= n
    BY <2>1, <2>2 DEF SizeInv
  <2>4. o \in 0..(2 * n) /\ a \in 0..(2 * n)
    BY <2>3
  <2> QED
    BY <2>1, <2>2, <2>4 DEF TypeOK, TypeInv, SizeInv
<1> QED
  BY <1>1, ChopAlways, PTL

(* Between two calls the blocks, the window and the rest of the stream are *)
(* the input.                                                              *)
LEMMA NothingLostFromInv ==
  ASSUME ChopInv
  PROVE  NothingLost
<1>1. TypeInv /\ HalvesInv /\ ContentInv /\ AccountInv
  BY DEF ChopInv
<1>2. pc # "aborted"
  BY <1>1 DEF TypeInv
<1> SUFFICES ASSUME pc = "idle", status # "read_error", kind \in {"fixed", "whole", "anchor"}
             PROVE  Returned \o SubSeq(window.first \o window.second, window.offset + 1,
                                       Bytes(window)) \o Remaining = input
  BY <1>2 DEF NothingLost, Returned
<1>3. /\ window.second = <<>> /\ window.offset <= Len(window.first) /\ got = <<>>
      /\ Live
  BY <1>1 DEF HalvesInv, Live
<1>4. /\ window.first \in Seq(Nat) /\ window.offset \in Nat /\ input \in Seq(Nat)
      /\ position \in 0..Len(input) /\ Lies(window.first, input, Base) /\ Base \in Nat
  BY <1>1, <1>3, WindowFields DEF TypeInv, ContentInv
<1>5. /\ Returned \in Seq(Nat) /\ Lies(Returned, input, 0)
      /\ Base + window.offset = Len(Returned)
  BY <1>1, <1>3 DEF AccountInv
<1>6. PICK l \in Nat, o \in Nat, p \in Nat, x \in Nat, q \in Nat, e \in Nat :
           /\ l = Len(window.first) /\ o = window.offset /\ p = Base /\ x = position
           /\ q = Len(Returned) /\ e = Len(input)
  <2>1. /\ Len(window.first) \in Nat /\ position \in Nat /\ Len(Returned) \in Nat
        /\ Len(input) \in Nat
    BY <1>4, <1>5
  <2> QED
    BY <1>4, <2>1, Zenon
<1>7. o <= l /\ q = p + o /\ x <= e
  BY <1>3, <1>4, <1>5, <1>6
<1>8. x = p + l /\ Bytes(window) = l
  <2>1. Bytes(window) = l + 0
    BY <1>3, <1>6, EmptyLen DEF Bytes
  <2>2. p = x - 0 - (l + 0)
    BY <1>3, <1>6, <2>1, EmptyLen DEF Base
  <2> QED
    BY <2>1, <2>2
<1>9. window.first \o window.second = window.first
  BY <1>3, <1>4
<1> DEFINE t == SubSeq(window.first, o + 1, l)
           r == SubSeq(input, x + 1, e)
<1>10. t \in Seq(Nat) /\ Len(t) = l - o /\ Lies(t, input, q)
  <2>1. l \in o..Len(window.first) /\ Lies(window.first, input, p)
    BY <1>4, <1>6, <1>7
  <2> QED
    BY <1>4, <1>7, <2>1, LiesSub, SMTT(30)
<1>11. r \in Seq(Nat) /\ Len(r) = e - x /\ Lies(r, input, x)
  <2>1. e \in x..Len(input) /\ 0 + x = x /\ 0 \in Nat
    BY <1>4, <1>6, <1>7
  <2>2. Lies(input, input, 0)
    BY <1>4 DEF Lies
  <2>3. r \in Seq(Nat) /\ Len(r) = e - x /\ Lies(r, input, 0 + x)
    BY <1>4, <2>1, <2>2, LiesSub
  <2> QED
    BY <2>1, <2>3
<1> HIDE DEF t, r
<1>12. /\ Returned \o t \in Seq(Nat) /\ Len(Returned \o t) = x /\ Lies(Returned \o t, input, 0)
  <2>1. 0 \in Nat /\ 0 + q = q
    OBVIOUS
  <2>2. Lies(t, input, 0 + Len(Returned))
    BY <1>6, <1>10, <2>1
  <2>3. /\ Returned \o t \in Seq(Nat) /\ Len(Returned \o t) = Len(Returned) + Len(t)
        /\ Lies(Returned \o t, input, 0)
    BY <1>4, <1>5, <1>10, <2>1, <2>2, LiesConcat
  <2>4. q + (l - o) = x
    BY <1>7, <1>8
  <2> QED
    BY <1>6, <1>10, <2>3, <2>4
<1>13. PICK c \in Seq(Nat) : c = Returned \o t /\ Len(c) = x /\ Lies(c, input, 0)
  BY <1>12
<1>14. c \o r \in Seq(Nat) /\ Len(c \o r) = e /\ Lies(c \o r, input, 0)
  <2>1. 0 \in Nat /\ Lies(r, input, 0 + Len(c))
    BY <1>11, <1>13
  <2>2. c \o r \in Seq(Nat) /\ Len(c \o r) = Len(c) + Len(r) /\ Lies(c \o r, input, 0)
    <3>1. input \in Seq(Nat) /\ r \in Seq(Nat) /\ Lies(c, input, 0)
      BY <1>4, <1>11, <1>13
    <3> QED
      BY <2>1, <3>1, LiesConcat, Zenon
  <2>3. x + (e - x) = e
    OBVIOUS
  <2> QED
    BY <1>11, <1>13, <2>2, <2>3
<1>15. c \o r = input
  BY <1>4, <1>6, <1>14, LiesWhole
<1>16. Remaining = r
  BY <1>6 DEF Remaining, r
<1>17. SubSeq(window.first \o window.second, window.offset + 1, Bytes(window)) = t
  BY <1>6, <1>8, <1>9 DEF t
<1> QED
  BY <1>13, <1>15, <1>16, <1>17

(***************************************************************************)
(* NothingLost: whatever the sizes, the input and the way the stream hands *)
(* it out, the choppers assert nothing that fails and neither lose nor     *)
(* repeat nor reorder a byte.                                              *)
(***************************************************************************)
THEOREM NothingIsLost == Spec => []NothingLost
  BY NothingLostFromInv, ChopAlways, PTL

-----------------------------------------------------------------------------
(* Congruence. *)
Cong(a, b, m) == \E k \in Int : a = b + k * m

(* A number is congruent to its remainder. *)
LEMMA CongMod ==
  ASSUME NEW a \in Int, NEW m \in Nat \ {0}
  PROVE  Cong(a % m, a, m) /\ Cong(a, a % m, m)
<1>1. a = (a \div m) * m + (a % m) /\ a \div m \in Int /\ a % m \in Int
  OBVIOUS
<1>2. PICK q \in Int, r \in Int : q = a \div m /\ r = a % m /\ a = q * m + r
  BY <1>1
<1>3. r = a + (0 - q) * m /\ a = r + q * m /\ 0 - q \in Int
  BY <1>2
<1> QED
  BY <1>2, <1>3 DEF Cong

(* Congruence is symmetric. *)
LEMMA CongSym ==
  ASSUME NEW a \in Int, NEW b \in Int, NEW m \in Int, Cong(a, b, m)
  PROVE  Cong(b, a, m)
<1>1. PICK k \in Int : a = b + k * m
  BY DEF Cong
<1>2. b = a + (0 - k) * m /\ 0 - k \in Int
  BY <1>1
<1> QED
  BY <1>2 DEF Cong

(* Congruence is transitive. *)
LEMMA CongTrans ==
  ASSUME NEW a \in Int, NEW b \in Int, NEW c \in Int, NEW m \in Int,
         Cong(a, b, m), Cong(b, c, m)
  PROVE  Cong(a, c, m)
<1>1. PICK k \in Int : a = b + k * m
  BY DEF Cong
<1>2. PICK l \in Int : b = c + l * m
  BY DEF Cong
<1>3. a = c + (k + l) * m /\ k + l \in Int
  BY <1>1, <1>2
<1> QED
  BY <1>3 DEF Cong

(* Congruent numbers may be added. *)
LEMMA CongAdd ==
  ASSUME NEW a \in Int, NEW b \in Int, NEW c \in Int, NEW d \in Int, NEW m \in Int,
         Cong(a, b, m), Cong(c, d, m)
  PROVE  Cong(a + c, b + d, m)
<1>1. PICK k \in Int : a = b + k * m
  BY DEF Cong
<1>2. PICK l \in Int : c = d + l * m
  BY DEF Cong
<1>3. a + c = (b + d) + (k + l) * m /\ k + l \in Int
  BY <1>1, <1>2
<1> QED
  BY <1>3 DEF Cong

(* They may be multiplied by the same number. *)
LEMMA CongTimes ==
  ASSUME NEW a \in Int, NEW b \in Int, NEW c \in Int, NEW m \in Int, Cong(a, b, m)
  PROVE  Cong(c * a, c * b, m)
<1>1. PICK k \in Int : a = b + k * m
  BY DEF Cong
<1>2. c * (b + k * m) = c * b + (c * k) * m /\ c * k \in Int
  OBVIOUS
<1> QED
  BY <1>1, <1>2 DEF Cong

(* Every number is congruent to itself. *)
LEMMA CongRefl ==
  ASSUME NEW a \in Int, NEW m \in Int
  PROVE  Cong(a, a, m)
<1>1. a = a + 0 * m /\ 0 \in Int
  OBVIOUS
<1> QED
  BY <1>1 DEF Cong

(* A congruence modulo a multiple of m. *)
LEMMA CongFactor ==
  ASSUME NEW a \in Int, NEW b \in Int, NEW m \in Int, NEW w \in Int, NEW q \in Int,
         w = q * m, Cong(a, b, w)
  PROVE  Cong(a, b, m)
<1>1. PICK k \in Int : a = b + k * w
  BY DEF Cong
<1>2. k * (q * m) = (k * q) * m /\ k * q \in Int
  OBVIOUS
<1> QED
  BY <1>1, <1>2 DEF Cong

(* A number without remainder is a multiple. *)
LEMMA Multiple ==
  ASSUME NEW w \in Nat, NEW m \in Nat \ {0}, w % m = 0
  PROVE  \E q \in Int : w = q * m
<1>1. w = (w \div m) * m + (w % m) /\ w \div m \in Int
  OBVIOUS
<1>2. PICK q \in Int : q = w \div m /\ w = q * m + 0
  BY <1>1
<1>3. w = q * m
  BY <1>2
<1> QED
  BY <1>3

(* Remainders that are congruent are equal. *)
LEMMA CongEqual ==
  ASSUME NEW m \in Nat \ {0}, NEW a \in 0..(m - 1), NEW b \in 0..(m - 1), Cong(a, b, m)
  PROVE  a = b
<1>1. PICK k \in Int : a = b + k * m
  BY DEF Cong
<1>2. CASE k >= 1
  <2>1. k * m >= m
    BY <1>2
  <2> QED
    BY <1>1, <2>1
<1>3. CASE k <= -1
  <2>1. k * m <= 0 - m
    BY <1>3
  <2> QED
    BY <1>1, <2>1
<1>4. CASE k = 0
  BY <1>1, <1>4
<1> QED
  BY <1>2, <1>3, <1>4

-----------------------------------------------------------------------------
(* Modulo the modulus, the powers are those of the prime. *)
LEMMA PowerCong ==
  ASSUME NEW n \in Nat
  PROVE  Cong(Power(n + 1), 3 * Power(n), Modulus) /\ Power(n) \in Int /\ Power(n + 1) \in Int
<1>1. /\ Modulus \in Nat \ {0} /\ Word \in Nat \ {0} /\ Modulus \in Int /\ Word \in Int
      /\ Word % Modulus = 0
  BY ChopperAssumption
<1>2. PICK q \in Int : Word = q * Modulus
  BY <1>1, Multiple
<1>3. Power(n) \in Int /\ Power(n + 1) \in Int /\ Power(n + 1) = (Power(n) * Prime) % Word
  BY PowerFacts
<1>4. PICK a \in Int, b \in Int : a = Power(n + 1) /\ b = 3 * Power(n) /\ a = b % Word
  BY <1>3 DEF Prime
<1>5. Cong(a, b, Word)
  BY <1>1, <1>4, CongMod
<1>6. Cong(a, b, Modulus)
  BY <1>1, <1>2, <1>5, CongFactor
<1> QED
  BY <1>3, <1>4, <1>6

(* One byte more in the sum. *)
LEMMA SumCong ==
  ASSUME NEW s \in Seq(Nat), NEW f, Sums(f, s), NEW i \in 0..(Len(s) - 1)
  PROVE  /\ f[i] \in Int /\ f[i + 1] \in Int /\ s[Len(s) - i] \in Int
         /\ Cong(f[i + 1], f[i] + s[Len(s) - i] * Power(i), Modulus)
<1>1. Len(s) \in Nat /\ i \in Nat /\ i \in 0..Len(s) /\ i + 1 \in 0..Len(s)
      /\ Len(s) - i \in 1..Len(s)
  OBVIOUS
<1>2. Modulus \in Nat \ {0}
  BY ChopperAssumption
<1>3. f[i] \in 0..(Modulus - 1) /\ f[i + 1] \in 0..(Modulus - 1)
  BY <1>1, SumsType, Zenon
<1>4. f[i] \in Int /\ f[i + 1] \in Int /\ s[Len(s) - i] \in Int
  BY <1>1, <1>2, <1>3, SMTT(30)
<1>5. Power(i) \in Int
  BY <1>1, PowerFacts
<1>6. f[i + 1] = (f[i] + s[Len(s) - i] * Power(i)) % Modulus
  BY <1>1, SumsStep, Zenon
<1>7. PICK d \in Int : d = f[i] + s[Len(s) - i] * Power(i)
  BY <1>4, <1>5
<1>8. Cong(d % Modulus, d, Modulus)
  BY <1>2, CongMod
<1> QED
  BY <1>4, <1>6, <1>7, <1>8

(* The arithmetic of one byte more, in both windows. *)
LEMMA RollArithmetic ==
  ASSUME NEW m \in Int, NEW f \in Int, NEW g \in Int, NEW x \in Int, NEW p \in Int, NEW q \in Int,
         NEW in \in Int, NEW ff \in Int, NEW gg \in Int,
         Cong(g, 3 * f + in, m), Cong(q, 3 * p, m),
         Cong(ff, f + x * p, m), Cong(gg, g + x * q, m)
  PROVE  Cong(gg, 3 * ff + in, m)
<1>1. PICK a \in Int : g = (3 * f + in) + a * m
  BY DEF Cong
<1>2. PICK b \in Int : q = 3 * p + b * m
  BY DEF Cong
<1>3. PICK c \in Int : ff = (f + x * p) + c * m
  BY DEF Cong
<1>4. PICK d \in Int : gg = (g + x * q) + d * m
  BY DEF Cong
<1>5. x * q = 3 * (x * p) + (x * b) * m
  <2>1. x * (3 * p + b * m) = 3 * (x * p) + (x * b) * m
    OBVIOUS
  <2> QED
    BY <1>2, <2>1
<1>6. PICK y \in Int, z \in Int : y = x * p /\ z = x * b
  OBVIOUS
<1>7. gg = (((3 * f + in) + a * m) + (3 * y + z * m)) + d * m
  BY <1>1, <1>4, <1>5, <1>6
<1>8. 3 * ff = 3 * f + 3 * y + 3 * (c * m)
  BY <1>3, <1>6
<1>9. PICK k \in Int : k = a + z + d - 3 * c
  OBVIOUS
<1>10. k * m = a * m + z * m + d * m - 3 * (c * m)
  BY <1>9
<1>11. gg = (3 * ff + in) + k * m
  BY <1>7, <1>8, <1>10
<1> QED
  BY <1>11 DEF Cong

(***************************************************************************)
(* The windows s and t, where t is s without its first byte and with one   *)
(* more: their sums go together.                                           *)
(***************************************************************************)
LEMMA SumsRoll ==
  ASSUME NEW n \in Nat \ {0}, NEW s \in Seq(Nat), NEW t \in Seq(Nat), Len(s) = n, Len(t) = n,
         \A i \in 1..(n - 1) : t[i] = s[i + 1],
         NEW f, NEW g, Sums(f, s), Sums(g, t)
  PROVE  \A i \in 0..(n - 1) : Cong(g[i + 1], 3 * f[i] + t[n], Modulus)
<1>0. Modulus \in Nat \ {0} /\ Modulus \in Int
  BY ChopperAssumption
<1>a. t[n] \in Int
  OBVIOUS
<1> DEFINE S == {i \in Nat : i <= n - 1 => Cong(g[i + 1], 3 * f[i] + t[n], Modulus)}
<1>1. 0 \in S
  <2>1. 0 \in 0..(n - 1) /\ 0 + 1 = 1 /\ n - 0 = n
    OBVIOUS
  <2>2. Cong(g[0 + 1], g[0] + t[n - 0] * Power(0), Modulus)
    BY <2>1, SumCong
  <2>3. g[0] = 0 /\ f[0] = 0 /\ Power(0) = 1
    BY SumsStep, PowerFacts
  <2>4. 0 + t[n] * 1 = 3 * 0 + t[n]
    BY <1>a
  <2> QED
    BY <2>1, <2>2, <2>3, <2>4
<1>2. ASSUME NEW i \in Nat, i \in S PROVE i + 1 \in S
  <2> SUFFICES ASSUME i + 1 <= n - 1
               PROVE  Cong(g[(i + 1) + 1], 3 * f[i + 1] + t[n], Modulus)
    OBVIOUS
  <2>1. i \in 0..(n - 1) /\ i + 1 \in 0..(n - 1) /\ i <= n - 1
    OBVIOUS
  <2>2. Cong(g[i + 1], 3 * f[i] + t[n], Modulus)
    BY <1>2, <2>1
  <2>3. t[n - (i + 1)] = s[n - i]
    <3>1. n - (i + 1) \in 1..(n - 1) /\ (n - (i + 1)) + 1 = n - i
      BY <2>1
    <3> QED
      BY <3>1
  <2>4. /\ f[i] \in Int /\ f[i + 1] \in Int /\ s[n - i] \in Int
        /\ Cong(f[i + 1], f[i] + s[n - i] * Power(i), Modulus)
    BY <2>1, SumCong
  <2>5. /\ g[i + 1] \in Int /\ g[(i + 1) + 1] \in Int
        /\ Cong(g[(i + 1) + 1], g[i + 1] + s[n - i] * Power(i + 1), Modulus)
    BY <2>1, <2>3, SumCong
  <2>6. Cong(Power(i + 1), 3 * Power(i), Modulus) /\ Power(i) \in Int /\ Power(i + 1) \in Int
    BY PowerCong
  <2>7. PICK u \in Int, v \in Int, x \in Int, p \in Int, q \in Int, uu \in Int, vv \in Int, y \in Int :
             /\ u = f[i] /\ v = g[i + 1] /\ x = s[n - i] /\ p = Power(i) /\ q = Power(i + 1)
             /\ uu = f[i + 1] /\ vv = g[(i + 1) + 1] /\ y = t[n]
    BY <1>a, <2>4, <2>5, <2>6, Zenon
  <2>8. /\ Cong(v, 3 * u + y, Modulus) /\ Cong(q, 3 * p, Modulus)
        /\ Cong(uu, u + x * p, Modulus) /\ Cong(vv, v + x * q, Modulus)
    BY <2>2, <2>4, <2>5, <2>6, <2>7, Zenon
  <2>9. Cong(vv, 3 * uu + y, Modulus)
    BY <1>0, <2>8, RollArithmetic, Zenon
  <2> QED
    BY <2>7, <2>9, Zenon
<1> HIDE DEF S
<1>3. \A i \in Nat : i \in S
  BY <1>1, <1>2, NatSetInduction
<1> QED
  BY <1>3 DEF S

(* compute_next_window_fingerprint computes the fingerprint of the next    *)
(* window.                                                                 *)
LEMMA FingerprintRolls ==
  ASSUME NEW s \in Seq(Nat), NEW t \in Seq(Nat), Len(s) = WindowSize, Len(t) = WindowSize,
         \A i \in 1..(WindowSize - 1) : t[i] = s[i + 1]
  PROVE  NextFingerprint(Fingerprint(s), s[1], t[WindowSize]) = Fingerprint(t)
<1>1. PICK n \in Nat \ {0} : n = WindowSize
  BY WindowAssumption
<1>2. PICK m \in Nat \ {0} : m = Modulus
  BY ChopperAssumption
<1>3. PICK f : Sums(f, s) /\ Fingerprint(s) = f[Len(s)]
  BY <1>1, FingerprintIsLast
<1>4. PICK g : Sums(g, t) /\ Fingerprint(t) = g[Len(t)]
  BY <1>1, FingerprintIsLast
<1>5. n - 1 \in Nat /\ n - 1 \in 0..(n - 1) /\ (n - 1) + 1 = n /\ n - (n - 1) = 1
  OBVIOUS
<1>6. \A i \in 0..(n - 1) : Cong(g[i + 1], 3 * f[i] + t[n], m)
  BY <1>1, <1>2, <1>3, <1>4, SumsRoll
<1>7. Cong(g[n], 3 * f[n - 1] + t[n], m)
  BY <1>5, <1>6
<1>8. /\ f[n - 1] \in Int /\ f[n] \in Int /\ s[1] \in Int
      /\ Cong(f[n], f[n - 1] + s[1] * Power(n - 1), m)
  BY <1>1, <1>2, <1>3, <1>5, SumCong, ZenonT(30)
<1>9. Cong(Power(n), 3 * Power(n - 1), m) /\ Power(n - 1) \in Int /\ Power(n) \in Int
  <2>1. /\ Cong(Power((n - 1) + 1), 3 * Power(n - 1), Modulus)
        /\ Power(n - 1) \in Int /\ Power((n - 1) + 1) \in Int
    BY <1>5, PowerCong, Zenon
  <2> QED
    BY <1>2, <1>5, <2>1, Zenon
<1>10. t[n] \in Int /\ g[n] \in Int
  <2>1. g[(n - 1) + 1] \in Int
    BY <1>1, <1>4, <1>5, SumCong
  <2> QED
    BY <1>1, <1>5, <2>1
<1>11. PICK F \in Int, G \in Int, H \in Int, x \in Int, y \in Int, P \in Int, Q \in Int :
            /\ F = f[n] /\ G = g[n] /\ H = f[n - 1] /\ x = s[1] /\ y = t[n]
            /\ P = Power(n) /\ Q = Power(n - 1)
  BY <1>8, <1>9, <1>10, Zenon
<1> DEFINE d == F * 3 - x * P + y
<1>12. d \in Int
  OBVIOUS
<1>13. Cong(G, d, m)
  <2>1. PICK a \in Int : G = (3 * H + y) + a * m
    BY <1>7, <1>11 DEF Cong
  <2>2. PICK b \in Int : F = (H + x * Q) + b * m
    BY <1>8, <1>11 DEF Cong
  <2>3. PICK c \in Int : P = 3 * Q + c * m
    BY <1>9, <1>11 DEF Cong
  <2>4. PICK u \in Int, v \in Int : u = x * Q /\ v = x * c
    OBVIOUS
  <2>5. x * P = 3 * u + v * m
    <3>1. x * (3 * Q + c * m) = 3 * (x * Q) + (x * c) * m
      OBVIOUS
    <3> QED
      BY <2>3, <2>4, <3>1
  <2>6. d = ((3 * H + 3 * u + 3 * (b * m)) - (3 * u + v * m)) + y
    BY <2>2, <2>4, <2>5
  <2>7. PICK k \in Int : k = a - 3 * b + v
    OBVIOUS
  <2>8. k * m = a * m - 3 * (b * m) + v * m
    BY <2>7
  <2>9. G = d + k * m
    <3> HIDE DEF d
    <3>1. PICK A \in Int, B \in Int, V \in Int, K \in Int :
               A = a * m /\ B = b * m /\ V = v * m /\ K = k * m
      OBVIOUS
    <3>2. /\ G = (3 * H + y) + A /\ K = A - 3 * B + V
          /\ d = ((3 * H + 3 * u + 3 * B) - (3 * u + V)) + y
      BY <2>1, <2>6, <2>8, <3>1
    <3>3. G = d + K
      BY <3>2
    <3> QED
      BY <3>1, <3>3
  <2> QED
    BY <2>9 DEF Cong
<1> HIDE DEF d
<1>14. Cong((d % Word) % m, d, m) /\ (d % Word) % m \in 0..(m - 1)
  <2>1. Word \in Nat \ {0} /\ Word \in Nat /\ Word \in Int /\ Word % m = 0 /\ m \in Int
    BY <1>2, ChopperAssumption
  <2>2. PICK q \in Int : Word = q * m
    BY <2>1, Multiple
  <2>3. PICK e \in Int : e = d % Word
    BY <1>12, <2>1
  <2>4. Cong(e, d, Word)
    BY <1>12, <2>1, <2>3, CongMod
  <2>5. Cong(e, d, m)
    BY <1>12, <2>1, <2>2, <2>4, CongFactor, Zenon
  <2>6. Cong(e % m, e, m)
    BY CongMod
  <2>7. e % m \in 0..(m - 1) /\ e % m \in Int
    BY Remainder
  <2>8. Cong(e % m, d, m)
    BY <1>12, <2>1, <2>5, <2>6, <2>7, CongTrans, Zenon
  <2> QED
    BY <2>3, <2>7, <2>8, Zenon
<1>15. PICK r \in 0..(m - 1) : r = (d % Word) % m /\ Cong(r, d, m)
  BY <1>14
<1>16. G \in 0..(m - 1)
  BY <1>1, <1>2, <1>4, <1>11, FingerprintType
<1>17. Cong(d, G, m)
  <2>1. m \in Int
    OBVIOUS
  <2> QED
    BY <1>12, <1>13, <2>1, CongSym, Zenon
<1>18. Cong(r, G, m)
  BY <1>12, <1>15, <1>17, CongTrans
<1>19. r = G
  BY <1>16, <1>18, CongEqual
<1>20. NextFingerprint(f[n], s[1], t[n]) = r
  BY <1>1, <1>2, <1>11, <1>15 DEF NextFingerprint, Prime, d
<1> QED
  BY <1>1, <1>3, <1>4, <1>11, <1>19, <1>20

-----------------------------------------------------------------------------
(* The window before the current one, and what is known of it: nothing     *)
(* once the first half is a short one, for then the window is not scanned  *)
(* any more.                                                               *)
Previous == SubSeq(input, Base + window.offset, (Base + window.offset) + WindowSize - 1)

FprInv ==
    Live /\ pc \in {"scan", "load"} /\ ~first =>
    /\ window.first # <<>>
    /\ Len(window.first) = WindowSize =>
         /\ Base + window.offset \in Nat \ {0}
         /\ (Base + window.offset) + WindowSize - 1 <= Len(input)
         /\ fpr = Fingerprint(Previous) /\ prevFirstChar = Previous[1]

(* A part of the input, cut out of it. *)
LEMMA LiesIsSub ==
  ASSUME NEW t \in Seq(Nat), NEW s \in Seq(Nat), NEW p \in Nat, NEW n \in Nat, n = Len(s),
         Lies(s, t, p)
  PROVE  s = SubSeq(t, p + 1, p + n)
<1>1. p + n <= Len(t) /\ \A i \in 1..n : s[i] = t[p + i]
  BY DEF Lies
<1>2. PICK l \in Nat : l = Len(t)
  OBVIOUS
<1>3. SubSeq(t, p + 1, p + n) \in Seq(Nat) /\ Len(SubSeq(t, p + 1, p + n)) = n
  BY <1>1, <1>2
<1>4. ASSUME NEW i \in 1..n PROVE SubSeq(t, p + 1, p + n)[i] = t[p + i]
  BY <1>1, <1>2
<1>5. PICK c \in Seq(Nat) : c = SubSeq(t, p + 1, p + n) /\ Len(c) = n
  BY <1>3
<1>6. \A i \in 1..Len(s) : s[i] = c[i]
  BY <1>1, <1>4, <1>5
<1>7. s = c
  <2>a. 0 + Len(s) <= Len(c)
    BY <1>5
  <2>b. ASSUME NEW i \in 1..Len(s) PROVE s[i] = c[0 + i]
    <3>1. 0 + i = i
      OBVIOUS
    <3> QED
      BY <1>6, <3>1
  <2>1. Lies(s, c, 0)
    BY <2>a, <2>b DEF Lies
  <2> QED
    BY <1>5, <2>1, LiesWhole
<1> QED
  BY <1>5, <1>7

(* The first and the last byte of a whole window. *)
LEMMA EndChars ==
  ASSUME NEW w \in [first : Seq(Nat), second : Seq(Nat), offset : Nat],
         Len(w.first) = WindowSize, w.offset <= Len(w.second), Len(w.second) <= WindowSize
  PROVE  FirstChar(w) = WindowBytes(w)[1] /\ LastChar(w) = WindowBytes(w)[WindowSize]
<1>1. PICK u \in Seq(Nat), v \in Seq(Nat), o \in Nat : u = w.first /\ v = w.second /\ o = w.offset
  OBVIOUS
<1>2. PICK n \in Nat \ {0}, g \in Nat : n = WindowSize /\ g = Len(v)
  <2>1. WindowSize \in Nat \ {0} /\ Len(v) \in Nat
    BY WindowAssumption
  <2> QED
    BY <2>1, Zenon
<1>3. n = Len(u) /\ o <= g /\ g <= n
  BY <1>1, <1>2
<1>4. WindowBytes(w) = SubSeq(u, o + 1, n) \o SubSeq(v, 1, o)
  BY <1>1, <1>2, <1>3, WholeWindow
<1>5. PICK h \in Seq(Nat), t \in Seq(Nat) : /\ h = SubSeq(u, o + 1, n) /\ Len(h) = n - o
                                            /\ t = SubSeq(v, 1, o) /\ Len(t) = o
  <2>1. SubSeq(u, o + 1, n) \in Seq(Nat) /\ Len(SubSeq(u, o + 1, n)) = n - o
    BY <1>2, <1>3, SMTT(30)
  <2>2. SubSeq(v, 1, o) \in Seq(Nat) /\ Len(SubSeq(v, 1, o)) = o
    BY <1>2, <1>3, SMTT(30)
  <2> QED
    BY <2>1, <2>2, Zenon
<1>6. /\ \A i \in 1..(n - o) : (h \o t)[i] = u[o + i]
      /\ \A i \in 1..o : (h \o t)[(n - o) + i] = v[i]
  <2>1. ASSUME NEW i \in 1..(n - o) PROVE (h \o t)[i] = u[o + i]
    <3>1. (h \o t)[i] = h[i]
      BY <1>5
    <3>2. h[i] = u[o + i]
      BY <1>3, <1>5
    <3> QED
      BY <3>1, <3>2
  <2>2. ASSUME NEW i \in 1..o PROVE (h \o t)[(n - o) + i] = v[i]
    <3>a. n - o \in Nat
      BY <1>3
    <3>b. i \in 1..Len(t)
      BY <1>5
    <3>0. PICK k \in Nat : k = n - o /\ Len(h) = k
      BY <1>5, <3>a
    <3>c. PICK j \in Nat : j = k + i
      OBVIOUS
    <3>d. j \in 1..(k + o) /\ ~(j <= k) /\ j - k = i
      BY <3>c
    <3>e. j \in 1..(Len(h) + Len(t)) /\ ~(j <= Len(h)) /\ j - Len(h) = i
      BY <1>5, <3>0, <3>d
    <3>f. (h \o t)[j] = t[j - Len(h)]
      BY <3>e
    <3>1. (h \o t)[k + i] = t[i]
      BY <3>c, <3>e, <3>f
    <3>2. t[i] = v[i]
      <4>1. o <= Len(v)
        BY <1>2, <1>3
      <4>2. SubSeq(v, 1, o)[i] = v[i]
        BY <4>1
      <4> QED
        BY <1>5, <4>2
    <3> QED
      BY <3>0, <3>1, <3>2
  <2> QED
    BY <2>1, <2>2
<1>7. FirstChar(w) = (h \o t)[1]
  <2>1. CASE o < n
    <3>1. 1 \in 1..(n - o)
      BY <2>1
    <3> QED
      BY <1>1, <1>2, <1>6, <2>1, <3>1 DEF FirstChar, Ref
  <2>2. CASE ~(o < n)
    <3>1. (o - n) + 1 = 1 /\ 1 \in 1..o /\ (n - o) + 1 = 1
      BY <1>3, <2>2
    <3> QED
      BY <1>1, <1>2, <1>6, <2>2, <3>1 DEF FirstChar, Ref
  <2> QED
    BY <2>1, <2>2
<1>8. LastChar(w) = (h \o t)[n]
  <2>1. CASE o = 0
    <3>1. o + n - 1 < n /\ (o + n - 1) + 1 = o + n /\ n \in 1..(n - o)
      BY <2>1
    <3> QED
      BY <1>1, <1>2, <1>6, <3>1, ZenonT(30) DEF LastChar, Ref
  <2>2. CASE o # 0
    <3>1. ~(o + n - 1 < n) /\ ((o + n - 1) - n) + 1 = o /\ o \in 1..o /\ (n - o) + o = n
      BY <2>2
    <3>2. (h \o t)[n] = v[o]
      BY <1>6, <3>1
    <3> QED
      BY <1>1, <1>2, <3>1, <3>2 DEF LastChar, Ref
  <2> QED
    BY <2>1, <2>2
<1> QED
  BY <1>2, <1>4, <1>5, <1>7, <1>8

CurrentFpr ==
    IF first THEN Fingerprint(WindowBytes(window))
    ELSE NextFingerprint(fpr, prevFirstChar, LastChar(window))

(***************************************************************************)
(* One fingerprint: it is that of the window, which is the previous one    *)
(* once the offset has moved.                                              *)
(***************************************************************************)
LEMMA ScanExact ==
  ASSUME ChopInv, FprInv, pc = "scan", ~Unfull(window)
  PROVE  /\ Base + window.offset \in Nat /\ (Base + window.offset) + WindowSize <= Len(input)
         /\ CurrentFpr = Fingerprint(SubSeq(input, (Base + window.offset) + 1,
                                   (Base + window.offset) + WindowSize))
         /\ FirstChar(window) = SubSeq(input, (Base + window.offset) + 1,
                                      (Base + window.offset) + WindowSize)[1]
<1>1. TypeInv /\ ControlInv /\ SizeInv /\ HalvesInv /\ ContentInv
  BY DEF ChopInv
<1>2. status = "ok" /\ Live /\ window \in [first : Seq(Nat), second : Seq(Nat), offset : Nat]
      /\ first \in BOOLEAN /\ input \in Seq(Nat)
  BY <1>1 DEF ControlInv, TypeInv, Live
<1>3. /\ Len(window.first) = WindowSize
      /\ window.offset <= Len(window.second) /\ Len(window.second) <= WindowSize
  BY <1>1, <1>2, FullWindow
<1>4. /\ WindowBytes(window) \in Seq(Nat) /\ Len(WindowBytes(window)) = WindowSize
      /\ WindowBytes(window) = SubSeq(window.first, window.offset + 1, Len(window.first))
                               \o SubSeq(window.second, 1, window.offset)
      /\ FirstChar(window) = WindowBytes(window)[1]
      /\ LastChar(window) = WindowBytes(window)[WindowSize]
  BY <1>2, <1>3, WholeWindow, EndChars
<1>5. PICK b \in Nat, o \in Nat, n \in Nat, g \in Nat, l \in Nat :
           /\ b = Base /\ o = window.offset /\ n = WindowSize /\ g = Len(window.second)
           /\ l = Len(input)
  <2>1. /\ Base \in Nat /\ window.offset \in Nat /\ WindowSize \in Nat /\ Len(window.second) \in Nat
        /\ Len(input) \in Nat
    BY <1>1, <1>2, WindowAssumption DEF ContentInv
  <2> QED
    BY <2>1, Zenon
<1>6. o <= g /\ g <= n /\ n # 0
  BY <1>3, <1>5, WindowAssumption
<1>7. PICK w \in Seq(Nat) : w = WindowBytes(window) /\ Len(w) = n
  BY <1>4, <1>5
<1>8. Lies(w, input, b + o)
  <2>1. /\ window.first \in Seq(Nat) /\ window.second \in Seq(Nat)
        /\ Lies(window.first, input, b) /\ Lies(window.second, input, b + Len(window.first))
    BY <1>1, <1>2, <1>5 DEF ContentInv
  <2>2. o <= Len(window.first) /\ o \in 0..Len(window.second)
    BY <1>3, <1>5, <1>6
  <2>3. Lies(SubSeq(window.first, o + 1, Len(window.first)) \o SubSeq(window.second, 1, o),
             input, b + o)
    BY <1>2, <2>1, <2>2, SliceLies
  <2> QED
    BY <1>4, <1>5, <1>7, <2>3
<1>9. PICK p \in Nat : p = b + o
  OBVIOUS
<1>10. w = SubSeq(input, p + 1, p + n)
  BY <1>2, <1>7, <1>8, <1>9, LiesIsSub
<1>11. p + n <= l /\ \A i \in 1..n : w[i] = input[p + i]
  BY <1>5, <1>7, <1>8, <1>9 DEF Lies
<1>12. CASE first
  BY <1>4, <1>5, <1>7, <1>9, <1>10, <1>11, <1>12 DEF CurrentFpr
<1>13. CASE ~first
  <2>1. /\ Base + window.offset \in Nat \ {0}
        /\ fpr = Fingerprint(Previous) /\ prevFirstChar = Previous[1]
    BY <1>2, <1>3, <1>13 DEF FprInv
  <2>2. p # 0
    BY <1>5, <1>9, <2>1
  <2>3. PICK s \in Seq(Nat) : s = Previous /\ Len(s) = n /\ \A i \in 1..n : s[i] = input[(p - 1) + i]
    <3>1. p - 1 \in Nat /\ (p - 1) + 1 = p /\ (p - 1) + n = p + n - 1 /\ (p - 1) + n <= l
      BY <1>11, <2>2
    <3>2. PICK q \in Nat : q = p - 1
      BY <3>1
    <3>3. SubSeq(input, q + 1, q + n) \in Seq(Nat) /\ Len(SubSeq(input, q + 1, q + n)) = n
      BY <1>2, <1>5, <3>1, <3>2
    <3>4. ASSUME NEW i \in 1..n PROVE SubSeq(input, q + 1, q + n)[i] = input[q + i]
      BY <1>2, <1>5, <3>1, <3>2
    <3>5. Previous = SubSeq(input, q + 1, q + n)
      BY <1>5, <1>9, <3>1, <3>2 DEF Previous
    <3> QED
      BY <3>2, <3>3, <3>4, <3>5
  <2>4. ASSUME NEW i \in 1..(n - 1) PROVE w[i] = s[i + 1]
    <3>1. i \in 1..n /\ i + 1 \in 1..n /\ (p - 1) + (i + 1) = p + i
      OBVIOUS
    <3>2. w[i] = input[p + i]
      BY <1>11, <3>1, Zenon
    <3>3. s[i + 1] = input[(p - 1) + (i + 1)]
      BY <2>3, <3>1, Zenon
    <3> QED
      BY <3>1, <3>2, <3>3, Zenon
  <2>5. NextFingerprint(Fingerprint(s), s[1], w[WindowSize]) = Fingerprint(w)
    BY <1>5, <1>7, <2>3, <2>4, FingerprintRolls
  <2> QED
    BY <1>4, <1>5, <1>7, <1>9, <1>10, <1>11, <1>13, <2>1, <2>3, <2>5
       DEF CurrentFpr
<1> QED
  BY <1>2, <1>12, <1>13

(* Scan keeps the fingerprint exact. *)
LEMMA FprScan ==
  ASSUME ChopInv, FprInv, Scan, ChopInv'
  PROVE  FprInv'
<1>1. TypeInv /\ ControlInv /\ SizeInv /\ HalvesInv /\ ContentInv
  BY DEF ChopInv
<1>2. pc = "scan" /\ ~Unfull(window) /\ UNCHANGED <<input, position, got>>
  BY DEF Scan, inputVars
<1>3. status = "ok" /\ Live /\ window \in [first : Seq(Nat), second : Seq(Nat), offset : Nat]
  BY <1>1, <1>2 DEF ControlInv, TypeInv, Live
<1>4. window.first # <<>>
  BY <1>1, <1>2, <1>3, FullWindow
<1> DEFINE p == Base + window.offset
<1>5. /\ p \in Nat /\ p + WindowSize <= Len(input)
      /\ CurrentFpr = Fingerprint(SubSeq(input, p + 1, p + WindowSize))
      /\ FirstChar(window) = SubSeq(input, p + 1, p + WindowSize)[1]
  BY <1>2, ScanExact
<1> SUFFICES ASSUME pc' \in {"scan", "load"} PROVE FprInv'
  BY DEF FprInv
<1>6. /\ fpr' = CurrentFpr /\ prevFirstChar' = FirstChar(window)
      /\ window' = [window EXCEPT !.offset = @ + 1]
  <2>1. pc' # "aborted"
    BY DEF ChopInv, TypeInv
  <2> QED
    BY <2>1 DEF Scan, Returns, CurrentFpr
<1>7. window'.first = window.first /\ window'.second = window.second
      /\ window'.offset = window.offset + 1
  BY <1>3, <1>6
<1>8. Base' = Base
  BY <1>2, <1>7 DEF Base, Bytes
<1>9. Base' + window'.offset = p + 1 /\ (p + 1) + WindowSize - 1 = p + WindowSize
      /\ p + 1 \in Nat \ {0}
  <2>1. PICK b \in Nat, o \in Nat, n \in Nat : b = Base /\ o = window.offset /\ n = WindowSize
    <3>1. Base \in Nat /\ window.offset \in Nat /\ WindowSize \in Nat
      BY <1>1, <1>3, WindowAssumption DEF ContentInv
    <3> QED
      BY <3>1, Zenon
  <2>2. b + (o + 1) = (b + o) + 1 /\ ((b + o) + 1) + n - 1 = (b + o) + n /\ (b + o) + 1 \in Nat \ {0}
    OBVIOUS
  <2> QED
    BY <1>7, <1>8, <2>1, <2>2
<1> HIDE DEF p
<1>10. Previous' = SubSeq(input, p + 1, p + WindowSize)
  BY <1>2, <1>9 DEF Previous
<1> QED
  BY <1>2, <1>4, <1>5, <1>6, <1>7, <1>9, <1>10 DEF FprInv

(* Nothing but the offset, the base, the halves and the fingerprint count. *)
LEMMA FprKept ==
  ASSUME FprInv, pc \in {"scan", "load"}, status = "ok",
         UNCHANGED <<input, fpr, prevFirstChar, first>>, ~first =>
         /\ window'.first = window.first /\ window'.offset = window.offset /\ Base' = Base
  PROVE  FprInv'
<1> SUFFICES ASSUME ~first PROVE FprInv'
  BY DEF FprInv
<1>1. Previous' = Previous
  BY DEF Previous
<1>2. Live
  BY DEF Live
<1> QED
  BY <1>1, <1>2 DEF FprInv

(* The remainder of a window and one byte. *)
LEMMA OneOver ==
  ASSUME NEW n \in Nat, n >= 2
  PROVE  (n + 1) % n = 1
<1>1. Cong(n + 1, 1, n)
  <2>1. n + 1 = 1 + 1 * n
    OBVIOUS
  <2> QED
    BY <2>1 DEF Cong
<1>2. (n + 1) % n \in 0..(n - 1) /\ 1 \in 0..(n - 1) /\ n \in Nat \ {0}
  OBVIOUS
<1>3. Cong((n + 1) % n, n + 1, n)
  BY <1>2, CongMod
<1>4. PICK r \in 0..(n - 1) : r = (n + 1) % n
  BY <1>2
<1>5. Cong(r, 1, n)
  BY <1>1, <1>3, <1>4, CongTrans
<1> QED
  BY <1>2, <1>4, <1>5, CongEqual

(***************************************************************************)
(* A reload: when the first half is given up, the second one takes its     *)
(* place with the offset in it that is left, or it is a short one.         *)
(***************************************************************************)
LEMMA FprReload ==
  ASSUME ChopInv, FprInv, Reload, WindowSize >= 2
  PROVE  FprInv'
<1>1. TypeInv /\ ControlInv /\ SizeInv /\ HalvesInv /\ ContentInv
  BY DEF ChopInv
<1>2. /\ pc = "scan" /\ Unfull(window) /\ window' = DestBuffer(window).win /\ got' = <<>>
      /\ UNCHANGED <<medium, input, position, failures, kind, fpr, prevFirstChar, first, blocks,
                     status>>
  BY DEF Reload, inputVars
<1>3. /\ status = "ok" /\ Live /\ got = <<>> /\ kind = "anchor" /\ input \in Seq(Nat)
      /\ window \in [first : Seq(Nat), second : Seq(Nat), offset : Nat]
  BY <1>1, <1>2 DEF ControlInv, HalvesInv, Live, TypeInv
<1>4. CASE window.first = <<>> \/ window.second = <<>>
  <2>1. DestBuffer(window) = [win |-> window,
                              half |-> IF window.first = <<>> THEN "first" ELSE "second",
                              discarded |-> <<>>]
    BY <1>4 DEF DestBuffer
  <2>2. window' = window
    BY <1>2, <2>1
  <2>3. Base' = Base
    BY <1>2, <1>3, <2>2 DEF Base
  <2> QED
    BY <1>2, <1>3, <2>2, <2>3, FprKept
<1>5. CASE window.first # <<>> /\ window.second # <<>>
  <2> DEFINE next == [first |-> window.second, second |-> <<>>,
                      offset |-> window.offset % WindowSize]
  <2>1. window' = next
    <3>1. DestBuffer(window) = [win |-> next, half |-> "second", discarded |-> window.first]
      BY <1>5 DEF DestBuffer
    <3> HIDE DEF next
    <3> QED
      BY <1>2, <3>1
  <2>2. /\ window'.first = window.second /\ window'.second = <<>>
        /\ window'.offset = window.offset % WindowSize
    BY <2>1
  <2>3. PICK n \in Nat, g \in Nat, o \in Nat, x \in Nat, b \in Nat :
             /\ n = WindowSize /\ g = Len(window.second) /\ o = window.offset /\ x = position
             /\ b = Base
    <3>1. /\ WindowSize \in Nat /\ Len(window.second) \in Nat /\ window.offset \in Nat
          /\ position \in Nat /\ Base \in Nat
      BY <1>1, <1>3, WindowAssumption DEF TypeInv, ContentInv
    <3> QED
      BY <3>1, Zenon
  <2>4. Len(window.first) = n /\ g <= n /\ o > g /\ o <= n + 1 /\ n >= 2
    BY <1>1, <1>2, <1>3, <1>5, <2>3 DEF HalvesInv, SizeInv, Unfull
  <2> SUFFICES ASSUME ~first, g = n PROVE FprInv'
    BY <1>2, <1>5, <2>2, <2>3 DEF FprInv
  <2>5. o = n + 1 /\ o % n = 1
    BY <2>4, OneOver
  <2>6. b = x - 0 - (n + g)
    BY <1>3, <2>3, <2>4, EmptyLen DEF Base, Bytes
  <2>7. Base' = x - 0 - (g + 0)
    BY <1>2, <2>2, <2>3, EmptyLen DEF Base, Bytes
  <2>8. Base' + window'.offset = b + o
    <3>1. window'.offset = 1
      BY <2>2, <2>3, <2>5
    <3>2. (x - 0 - (g + 0)) + 1 = b + o
      BY <2>5, <2>6
    <3> QED
      BY <2>7, <3>1, <3>2
  <2>9. Base' + window'.offset = Base + window.offset
    BY <2>3, <2>8
  <2>10. Previous' = Previous
    BY <1>2, <2>9 DEF Previous
  <2> QED
    BY <1>2, <1>3, <1>5, <2>2, <2>3, <2>4, <2>9, <2>10 DEF FprInv
<1> QED
  BY <1>4, <1>5

(* A read into a half window: the second one, unless nothing was scanned.  *)
LEMMA FprLoad ==
  ASSUME ChopInv, FprInv, ReadSlidingWindow
  PROVE  FprInv'
<1>1. TypeInv /\ ControlInv /\ SizeInv /\ HalvesInv
  BY DEF ChopInv
<1>2. pc = "load" /\ UNCHANGED <<fpr, prevFirstChar, first, half>>
  BY DEF ReadSlidingWindow
<1>3. PICK r \in Reads(WindowSize - Len(got)) :
         LET data == got \o r.data
             done == r.err # "ok" \/ Len(data) = WindowSize
         IN  /\ Consume(r)
             /\ got' = IF done THEN <<>> ELSE data
             /\ window' = IF done THEN WithHalf(data) ELSE window
  BY DEF ReadSlidingWindow
<1>4. PICK data \in Seq(Nat) : data = got \o r.data
  BY <1>2, <1>3, LoadFacts
<1>5. /\ Len(data) <= WindowSize /\ input' = input /\ Base \in Nat /\ Bytes(window) \in Nat
      /\ position' = (Base + Bytes(window)) + Len(data)
  BY <1>2, <1>3, <1>4, LoadFacts
<1>6. status = "ok"
  BY <1>1, <1>2 DEF ControlInv
<1> SUFFICES ASSUME ~first
             PROVE  window'.first = window.first /\ window'.offset = window.offset /\ Base' = Base
  BY <1>2, <1>5, <1>6, FprKept
<1>7. window.first # <<>>
  BY <1>2, <1>6 DEF FprInv, Live
<1>8. half = "second" /\ window.second = <<>>
  BY <1>1, <1>2, <1>6, <1>7 DEF HalvesInv, Live, TypeInv
<1>9. PICK b \in Nat, w \in Nat, m \in Nat : b = Base /\ w = Bytes(window) /\ m = Len(data)
  <2>1. Len(data) \in Nat
    OBVIOUS
  <2> QED
    BY <1>5, <2>1, Zenon
<1>10. CASE got' = data /\ window' = window
  <2>1. Base' = ((b + w) + m) - m - w
    BY <1>5, <1>9, <1>10 DEF Base
  <2>2. ((b + w) + m) - m - w = b
    OBVIOUS
  <2> QED
    BY <1>9, <1>10, <2>1, <2>2
<1>11. CASE got' = <<>> /\ window' = WithHalf(data)
  <2>1. window'.first = window.first /\ window'.second = data /\ window'.offset = window.offset
    BY <1>1, <1>5, <1>8, <1>11, WithHalfFacts
  <2>2. PICK l \in Nat : l = Len(window.first)
    BY <1>1, WindowFields
  <2>3. w = l + 0 /\ Bytes(window') = l + m
    BY <1>8, <1>9, <2>1, <2>2, EmptyLen DEF Bytes
  <2>4. Base' = ((b + w) + m) - 0 - (l + m)
    BY <1>5, <1>9, <1>11, <2>3, EmptyLen DEF Base
  <2>5. ((b + w) + m) - 0 - (l + m) = b
    BY <2>3
  <2> QED
    BY <1>9, <2>1, <2>4, <2>5
<1> QED
  BY <1>3, <1>4, <1>10, <1>11

(* The invariant is inductive. *)
LEMMA FprInductive ==
  ASSUME WindowSize >= 2, ChopInv, FprInv, [Next]_vars
  PROVE  FprInv'
<1>0. ChopInv'
  BY ChopInductive
<1>1. CASE ReadBlock
  BY <1>1 DEF ReadBlock, FprInv
<1>2. CASE ReadFixed \/ ReadWhole
  <2>1. pc = "read" /\ kind # "anchor" /\ kind' = kind
    BY <1>2 DEF ReadFixed, ReadWhole
  <2>2. pc' \notin {"scan", "load"}
    BY <1>0, <2>1 DEF ChopInv, ControlInv, TypeInv
  <2> QED
    BY <2>2 DEF FprInv
<1>3. CASE Flush
  BY <1>3 DEF Flush, Returns, FprInv
<1>4. CASE UNCHANGED vars
  <2>1. Previous' = Previous /\ Base' = Base
    BY <1>4 DEF vars, inputVars, chopVars, Previous, Base
  <2> QED
    BY <1>4, <2>1 DEF vars, inputVars, chopVars, FprInv, Live
<1> QED
  BY <1>0, <1>1, <1>2, <1>3, <1>4, FprReload, FprLoad, FprScan DEF Next, Step

(***************************************************************************)
(* FingerprintExact, what AUTO_TEST of chop_anchor_chopper_read_block      *)
(* compares: across any number of reloads and blocks, the fingerprint that *)
(* is carried along is the one of the current window, for windows of two   *)
(* bytes and more.                                                         *)
(***************************************************************************)
THEOREM FingerprintIsExact ==
  ASSUME WindowSize >= 2
  PROVE  Spec => []FingerprintExact
<1>1. ASSUME Init PROVE FprInv
  BY <1>1 DEF Init, FprInv
<1>2. ASSUME ChopInv, FprInv, [Next]_vars PROVE FprInv'
  BY <1>2, FprInductive
<1>3. ASSUME ChopInv, FprInv PROVE FingerprintExact
  <2> SUFFICES ASSUME pc = "scan", ~first, ~Unfull(window)
               PROVE  /\ fpr = Fingerprint(SubSeq(input, position - Bytes(window) + window.offset,
                               position - Bytes(window) + window.offset + WindowSize - 1))
                      /\ prevFirstChar = SubSeq(input, position - Bytes(window) + window.offset,
                               position - Bytes(window) + window.offset + WindowSize - 1)[1]
    BY DEF FingerprintExact
  <2>1. TypeInv /\ ControlInv /\ SizeInv /\ HalvesInv
    BY <1>3 DEF ChopInv
  <2>2. status = "ok" /\ Live /\ got = <<>>
    BY <2>1 DEF ControlInv, HalvesInv, Live
  <2>3. Len(window.first) = WindowSize
    BY <2>1, <2>2, FullWindow
  <2>4. fpr = Fingerprint(Previous) /\ prevFirstChar = Previous[1]
    BY <1>3, <2>2, <2>3 DEF FprInv
  <2>5. position - Bytes(window) = Base
    <3>0. position \in Nat /\ Bytes(window) \in Nat
      BY <2>1, WindowFields DEF TypeInv
    <3>1. PICK x \in Nat, w \in Nat : x = position /\ w = Bytes(window)
      BY <3>0, Zenon
    <3>2. Base = x - 0 - w
      BY <2>2, <3>1, EmptyLen DEF Base
    <3> QED
      BY <3>1, <3>2
  <2> QED
    BY <2>4, <2>5 DEF Previous
<1> QED
  BY <1>1, <1>2, <1>3, ChopAlways, PTL DEF Spec

-----------------------------------------------------------------------------
(***************************************************************************)
(* Where the blocks end.  While a block is put together, no anchor lies in *)
(* what was scanned of it before the end of the input.                     *)
(***************************************************************************)
LastCut == Cut(input, kind, Len(blocks))

AnchorAt(e) == Magic(Fingerprint(SubSeq(input, e - WindowSize + 1, e)))

NoAnchor ==
    \A e \in Nat : /\ LastCut + WindowSize <= e /\ e < Len(input)
                   /\ e < (Base + window.offset) + WindowSize
                   => ~AnchorAt(e)

CutInv ==
    /\ ContentDefined
    /\ Live =>
       /\ LastCut \in Nat
       /\ kind = "anchor" => Len(Returned) = LastCut
       /\ kind # "anchor" /\ pc = "idle" => position = LastCut
       /\ kind # "anchor" /\ pc # "idle" =>
            position = LastCut + Len(buffer) /\ Lies(buffer, input, LastCut)
       /\ pc \in {"scan", "load", "flush"} => NoAnchor
       /\ pc = "flush" => position = Len(input)

Cuts(c, s, k, n) == c = [j \in 0..n |-> IF j = 0 THEN 0 ELSE NextCut(s, k, c[j - 1])]

(* The recursion in Cut has a solution. *)
LEMMA CutsExist ==
  ASSUME NEW s, NEW k
  PROVE  \A n \in Nat : \E c : Cuts(c, s, k, n)
<1> DEFINE S == {n \in Nat : \E c : Cuts(c, s, k, n)}
<1>1. 0 \in S
  <2> DEFINE c == [j \in 0..0 |-> 0]
  <2>1. Cuts(c, s, k, 0)
    BY DEF Cuts
  <2> QED
    BY <2>1
<1>2. ASSUME NEW n \in Nat, n \in S PROVE n + 1 \in S
  <2>1. PICK c : Cuts(c, s, k, n)
    BY <1>2
  <2> DEFINE d == [j \in 0..(n + 1) |-> IF j = n + 1 THEN NextCut(s, k, c[n]) ELSE c[j]]
  <2>2. \A j \in 0..(n + 1) : d[j] = IF j = 0 THEN 0 ELSE NextCut(s, k, d[j - 1])
    BY <2>1 DEF Cuts
  <2>3. d = [j \in 0..(n + 1) |-> IF j = 0 THEN 0 ELSE NextCut(s, k, d[j - 1])]
    BY <2>2
  <2> HIDE DEF d
  <2>4. Cuts(d, s, k, n + 1)
    BY <2>3 DEF Cuts
  <2> QED
    BY <2>4
<1> HIDE DEF S
<1>3. \A n \in Nat : n \in S
  BY <1>1, <1>2, NatSetInduction
<1> QED
  BY <1>3 DEF S

(* What the solution does, step by step. *)
LEMMA CutsStep ==
  ASSUME NEW s, NEW k, NEW n \in Nat, NEW c, Cuts(c, s, k, n)
  PROVE  c[0] = 0 /\ \A j \in 0..(n - 1) : c[j + 1] = NextCut(s, k, c[j])
<1>1. \A j \in 0..n : c[j] = IF j = 0 THEN 0 ELSE NextCut(s, k, c[j - 1])
  BY DEF Cuts
<1>2. ASSUME NEW j \in 0..(n - 1) PROVE c[j + 1] = NextCut(s, k, c[j])
  <2>1. j + 1 \in 0..n /\ j + 1 # 0 /\ (j + 1) - 1 = j
    OBVIOUS
  <2> QED
    BY <1>1, <2>1
<1> QED
  BY <1>1, <1>2

(* Cut is the last value of its solution. *)
LEMMA CutIsLast ==
  ASSUME NEW s, NEW k, NEW n \in Nat
  PROVE  \E c : Cuts(c, s, k, n) /\ Cut(s, k, n) = c[n]
<1> DEFINE p == CHOOSE c : Cuts(c, s, k, n)
<1>1. Cuts(p, s, k, n)
  BY CutsExist
<1>2. Cut(s, k, n) = p[n]
  BY DEF Cut, Cuts
<1> QED
  BY <1>1, <1>2

(* Two solutions agree where both are defined. *)
LEMMA CutsAgree ==
  ASSUME NEW s, NEW k, NEW n \in Nat, NEW m \in Nat, n <= m, NEW c, NEW d,
         Cuts(c, s, k, n), Cuts(d, s, k, m)
  PROVE  c[n] = d[n]
<1> DEFINE S == {j \in Nat : j <= n => c[j] = d[j]}
<1>0. /\ c[0] = 0 /\ \A j \in 0..(n - 1) : c[j + 1] = NextCut(s, k, c[j])
      /\ d[0] = 0 /\ \A j \in 0..(m - 1) : d[j + 1] = NextCut(s, k, d[j])
  BY CutsStep
<1>1. 0 \in S
  BY <1>0
<1>2. ASSUME NEW j \in Nat, j \in S PROVE j + 1 \in S
  BY <1>0, <1>2
<1> HIDE DEF S
<1>3. \A j \in Nat : j \in S
  BY <1>1, <1>2, NatSetInduction
<1> QED
  BY <1>3 DEF S

(* Each cut follows from the one before. *)
LEMMA CutFacts ==
  ASSUME NEW s, NEW k
  PROVE  Cut(s, k, 0) = 0 /\ \A n \in Nat : Cut(s, k, n + 1) = NextCut(s, k, Cut(s, k, n))
<1>1. Cut(s, k, 0) = 0
  BY CutIsLast, CutsStep
<1>2. ASSUME NEW n \in Nat PROVE Cut(s, k, n + 1) = NextCut(s, k, Cut(s, k, n))
  <2>1. PICK c : Cuts(c, s, k, n) /\ Cut(s, k, n) = c[n]
    BY CutIsLast
  <2>2. n + 1 \in Nat /\ n <= n + 1 /\ n \in 0..((n + 1) - 1)
    OBVIOUS
  <2>3. PICK d : Cuts(d, s, k, n + 1) /\ Cut(s, k, n + 1) = d[n + 1]
    BY <2>2, CutIsLast
  <2>4. c[n] = d[n]
    BY <2>1, <2>2, <2>3, CutsAgree
  <2>5. d[n + 1] = NextCut(s, k, d[n])
    <3>1. \A j \in 0..((n + 1) - 1) : d[j + 1] = NextCut(s, k, d[j])
      BY <2>2, <2>3, CutsStep
    <3> QED
      BY <2>2, <3>1
  <2> QED
    BY <2>1, <2>3, <2>4, <2>5
<1> QED
  BY <1>1, <1>2

-----------------------------------------------------------------------------
(* The first anchor, or the end. *)
LEMMA AnchorCut ==
  ASSUME NEW s \in Seq(Nat), NEW p \in Nat, NEW e \in Nat, e <= Len(s),
         \A d \in Nat : p + WindowSize <= d /\ d < e =>
            ~Magic(Fingerprint(SubSeq(s, d - WindowSize + 1, d))),
         \/ e = Len(s)
         \/ p + WindowSize <= e /\ Magic(Fingerprint(SubSeq(s, e - WindowSize + 1, e)))
  PROVE  NextCut(s, "anchor", p) = e
<1> DEFINE M(d) == Magic(Fingerprint(SubSeq(s, d - WindowSize + 1, d)))
           S == {d \in (p + WindowSize)..Len(s) : M(d)} \cup {Len(s)}
<1>1. NextCut(s, "anchor", p) = Smallest(S)
  BY DEF NextCut
<1>2. PICK n \in Nat, l \in Nat : n = WindowSize /\ l = Len(s)
  BY WindowAssumption
<1> HIDE DEF M
<1>3. e \in S
  <2>1. CASE e = Len(s)
    BY <2>1
  <2>2. CASE p + WindowSize <= e /\ M(e)
    BY <1>2, <2>2
  <2> QED
    BY <2>1, <2>2 DEF M
<1>4. \A d \in S : d \in Nat /\ e <= d
  <2> SUFFICES ASSUME NEW d \in S PROVE d \in Nat /\ e <= d
    OBVIOUS
  <2>1. CASE d = Len(s)
    BY <1>2, <2>1
  <2>2. CASE d \in (p + WindowSize)..Len(s) /\ M(d)
    <3>1. d \in Nat /\ p + WindowSize <= d
      BY <1>2, <2>2
    <3>2. ~(d < e)
      BY <2>2, <3>1 DEF M
    <3> QED
      BY <3>1, <3>2
  <2> QED
    BY <2>1, <2>2
<1> HIDE DEF S
<1>5. Smallest(S) \in S /\ \A y \in S : Smallest(S) <= y
  BY <1>3, <1>4 DEF Smallest
<1>6. Smallest(S) \in Nat /\ Smallest(S) <= e /\ e <= Smallest(S)
  BY <1>3, <1>4, <1>5
<1> QED
  BY <1>1, <1>6

(* No block more. *)
LEMMA CutsKept ==
  ASSUME CutInv, UNCHANGED <<blocks, input, kind>>,
         status' = "end" => status = "end" \/ LastCut = Len(input)
  PROVE  ContentDefined' /\ LastCut' = LastCut
<1>1. LastCut' = LastCut
  BY DEF LastCut
<1>2. ContentDefined
  BY DEF CutInv
<1>3. ASSUME status' = "end" PROVE Cut(input, kind, Len(blocks)) = Len(input)
  BY <1>2, <1>3 DEF ContentDefined, LastCut
<1> QED
  BY <1>1, <1>2, <1>3 DEF ContentDefined

(* One block more: it is the one the content defines. *)
LEMMA CutGrows ==
  ASSUME TypeInv, CutInv, LastCut \in Nat, NEW b \in Seq(Nat), Lies(b, input, LastCut), b # <<>>,
         NextCut(input, kind, LastCut) = LastCut + Len(b),
         NEW c, c = IF kind = "padded"
                    THEN [j \in 1..BlockSize |-> IF j <= Len(b) THEN b[j] ELSE Pad] ELSE b,
         c # <<>>, blocks' = Append(blocks, c), input' = input, kind' = kind, status' = "ok"
  PROVE  ContentDefined' /\ LastCut' = LastCut + Len(b)
<1>1. blocks \in Seq(Seq(Byte)) /\ input \in Seq(Nat) /\ Len(blocks) \in Nat
  BY DEF TypeInv
<1>2. PICK k \in Nat, q \in Nat, m \in Nat : k = Len(blocks) /\ q = LastCut /\ m = Len(b)
  <2>1. Len(b) \in Nat
    OBVIOUS
  <2> QED
    BY <1>1, <2>1, Zenon
<1>3. /\ Cut(input, kind, k) = q /\ Cut(input, kind, k + 1) = q + m /\ (k + 1) - 1 = k
  <2>1. Cut(input, kind, k) = q /\ NextCut(input, kind, q) = q + m
    BY <1>2 DEF LastCut
  <2>2. Cut(input, kind, k + 1) = NextCut(input, kind, Cut(input, kind, k))
    BY CutFacts
  <2> QED
    BY <2>1, <2>2
<1>4. b = SubSeq(input, q + 1, q + m)
  BY <1>1, <1>2, LiesIsSub, ZenonT(30)
<1>5. c = BlockAt(input, kind, k + 1)
  BY <1>3, <1>4 DEF BlockAt
<1>6. Len(Append(blocks, c)) = k + 1
  BY <1>1, <1>2
<1>7. ASSUME NEW i \in 1..(k + 1)
      PROVE  Append(blocks, c)[i] # <<>> /\ Append(blocks, c)[i] = BlockAt(input, kind, i)
  <2>1. CASE i = k + 1
    <3>1. Append(blocks, c)[i] = c
      BY <1>1, <1>2, <2>1
    <3> QED
      BY <1>5, <2>1, <3>1
  <2>2. CASE i # k + 1
    <3>1. i \in 1..Len(blocks)
      BY <1>2, <2>2
    <3>2. Append(blocks, c)[i] = blocks[i]
      BY <1>1, <3>1
    <3>3. blocks[i] # <<>> /\ blocks[i] = BlockAt(input, kind, i)
      BY <3>1 DEF CutInv, ContentDefined
    <3> QED
      BY <3>2, <3>3
  <2> QED
    BY <2>1, <2>2
<1>8. ContentDefined'
  BY <1>6, <1>7 DEF ContentDefined
<1>9. LastCut' = q + m
  BY <1>3, <1>6 DEF LastCut
<1> QED
  BY <1>2, <1>8, <1>9

(* A chopper without a window has read what it returned and its buffer.    *)
LEMMA DirectFacts ==
  ASSUME ChopInv, CutInv, pc = "read", NEW howmuch, NEW r, GoodRead(r, howmuch), Consume(r)
  PROVE  /\ LastCut \in Nat /\ input' = input
         /\ buffer \o r.data \in Seq(Nat) /\ Lies(buffer \o r.data, input, LastCut)
         /\ position' = LastCut + Len(buffer \o r.data) /\ position' <= Len(input)
         /\ r.err = "end" => buffer \o r.data = buffer /\ position' = Len(input)
<1>1. TypeInv /\ ControlInv
  BY DEF ChopInv
<1>2. /\ status = "ok" /\ kind # "anchor" /\ buffer \in Seq(Nat) /\ input \in Seq(Nat)
  BY <1>1 DEF ControlInv, TypeInv
<1>3. LastCut \in Nat /\ position = LastCut + Len(buffer) /\ Lies(buffer, input, LastCut)
  BY <1>2 DEF CutInv, Live
<1>4. r.data \in Seq(Nat) /\ Lies(r.data, input, position)
      /\ (r.err = "end" => r.data = <<>> /\ position = Len(input))
  BY DEF GoodRead
<1>5. /\ position' \in 0..Len(input) /\ position' = position + Len(r.data) /\ input' = input
  BY <1>1, ConsumeFacts
<1>6. Lies(r.data, input, LastCut + Len(buffer))
  BY <1>3, <1>4
<1>7. /\ buffer \o r.data \in Seq(Nat) /\ Len(buffer \o r.data) = Len(buffer) + Len(r.data)
      /\ Lies(buffer \o r.data, input, LastCut)
  BY <1>2, <1>3, <1>4, <1>6, LiesConcat
<1>8. PICK q \in Nat, k \in Nat, m \in Nat, l \in Nat :
           q = LastCut /\ k = Len(buffer) /\ m = Len(r.data) /\ l = Len(input)
  <2>1. Len(buffer) \in Nat /\ Len(r.data) \in Nat /\ Len(input) \in Nat
    BY <1>2, <1>4
  <2> QED
    BY <1>3, <2>1, Zenon
<1>9. position' = q + (k + m)
  <2>1. position' = (q + k) + m
    BY <1>3, <1>5, <1>8
  <2> QED
    BY <2>1
<1>10. ASSUME r.err = "end" PROVE buffer \o r.data = buffer /\ position' = Len(input)
  <2>1. r.data = <<>> /\ m = 0 /\ q + k = l
    BY <1>3, <1>4, <1>8, <1>10, EmptyLen
  <2>2. buffer \o <<>> = buffer
    BY <1>2
  <2>3. q + (k + m) = l
    BY <2>1
  <2> QED
    BY <1>8, <1>9, <2>1, <2>2, <2>3
<1>11. position' <= Len(input)
  BY <1>5, <1>8
<1> QED
  BY <1>3, <1>5, <1>7, <1>8, <1>9, <1>10, <1>11

(* A chopper without a window, from one state to the next. *)
DirectCut ==
    /\ input' = input /\ kind' = kind /\ kind # "anchor" /\ pc' \in {"idle", "read"}
    /\ ContentDefined'
    /\ status' # "read_error" =>
         /\ pc' = "idle" => position' = LastCut'
         /\ pc' = "read" => /\ status' = "ok" /\ position' = LastCut' + Len(buffer')
                            /\ Lies(buffer', input, LastCut')

(* What is left to say of it. *)
LEMMA DirectCutEnough ==
  ASSUME DirectCut, LastCut' \in Nat
  PROVE  CutInv'
  BY DEF DirectCut, CutInv, Live

(* The fixed-size choppers. *)
LEMMA CutFixed ==
  ASSUME ChopInv, CutInv, ReadFixed
  PROVE  CutInv'
<1>1. TypeInv /\ ControlInv
  BY DEF ChopInv
<1>2. pc = "read" /\ kind \in {"fixed", "padded"} /\ kind' = kind
  BY DEF ReadFixed
<1>3. status = "ok" /\ buffer \in Seq(Nat) /\ Len(buffer) < BlockSize /\ BlockSize \in Nat \ {0}
  BY <1>1, <1>2, ChopperAssumption DEF ControlInv, TypeInv
<1>4. PICK r \in Reads(BlockSize - Len(buffer)) :
          /\ Consume(r)
          /\ LET b == buffer \o r.data
             IN  /\ buffer' = b
                 /\ IF r.err \notin {"ok", "end"} THEN Returns(b, r.err)
                    ELSE IF r.err = "end"
                    THEN IF b = <<>> THEN Returns(b, "end") ELSE Returns(Padded(b), "ok")
                    ELSE IF Len(b) = BlockSize THEN Returns(b, "ok")
                    ELSE UNCHANGED <<blocks, status, pc>>
  BY DEF ReadFixed
<1>5. GoodRead(r, BlockSize - Len(buffer)) /\ r.err \in {"ok", "end", "read_error"}
  <2>1. PICK k \in Nat : k = Len(buffer)
    BY <1>3
  <2>2. BlockSize - k \in Nat \ {0}
    BY <1>3, <2>1
  <2>3. GoodRead(r, BlockSize - Len(buffer))
    BY <1>1, <1>4, <2>1, <2>2, ReadsGood
  <2> QED
    BY <2>3 DEF GoodRead
<1>6. PICK b \in Seq(Nat) : b = buffer \o r.data
  BY <1>2, <1>4, <1>5, DirectFacts
<1>7. /\ LastCut \in Nat /\ input' = input /\ Lies(b, input, LastCut)
      /\ position' = LastCut + Len(b) /\ position' <= Len(input)
      /\ r.err = "end" => b = buffer /\ position' = Len(input)
  BY <1>2, <1>4, <1>5, <1>6, DirectFacts
<1>8. PICK q \in Nat, m \in Nat, l \in Nat, z \in Nat \ {0} :
           q = LastCut /\ m = Len(b) /\ l = Len(input) /\ z = BlockSize
  <2>1. Len(b) \in Nat /\ Len(input) \in Nat
    BY <1>1 DEF TypeInv
  <2> QED
    BY <1>3, <1>7, <2>1, Zenon
<1>9. q + m <= l /\ (r.err = "end" => m < z /\ q + m = l)
  BY <1>3, <1>7, <1>8
<1>10. CASE r.err = "read_error"
  <2>1. /\ UNCHANGED <<blocks, input, kind>> /\ status' = "read_error" /\ pc' = "idle"
    BY <1>2, <1>4, <1>7, <1>10 DEF Returns
  <2>2. ContentDefined' /\ LastCut' = LastCut
    BY <2>1, CutsKept
  <2> QED
    BY <1>2, <1>7, <2>1, <2>2, DirectCutEnough DEF DirectCut
<1>11. CASE r.err = "end" /\ b = <<>>
  <2>1. /\ UNCHANGED <<blocks, input, kind>> /\ status' = "end" /\ pc' = "idle"
    BY <1>2, <1>4, <1>6, <1>7, <1>11 DEF Returns
  <2>2. m = 0 /\ q = l
    BY <1>8, <1>9, <1>11, EmptyLen
  <2>3. ContentDefined' /\ LastCut' = LastCut
    BY <1>8, <2>1, <2>2, CutsKept
  <2>4. position' = LastCut'
    <3>1. position' = q + m /\ LastCut' = q
      BY <1>7, <1>8, <2>3
    <3> QED
      BY <2>2, <3>1
  <2> QED
    BY <1>2, <1>7, <2>1, <2>3, <2>4, DirectCutEnough DEF DirectCut
<1>12. ASSUME NEW c, c = IF kind = "padded"
                         THEN [j \in 1..BlockSize |-> IF j <= Len(b) THEN b[j] ELSE Pad] ELSE b,
              c # <<>>, b # <<>>, blocks' = Append(blocks, c), status' = "ok", pc' = "idle",
              NextCut(input, kind, LastCut) = LastCut + Len(b)
       PROVE  CutInv'
  <2>1. ContentDefined' /\ LastCut' = LastCut + Len(b)
    BY <1>1, <1>2, <1>7, <1>12, CutGrows
  <2>2. LastCut + Len(b) \in Nat
    BY <1>8
  <2> QED
    BY <1>2, <1>7, <1>12, <2>1, <2>2, DirectCutEnough DEF DirectCut
<1>13. NextCut(input, kind, LastCut) = IF q + z <= l THEN q + z ELSE l
  BY <1>2, <1>8 DEF NextCut, Least
<1>14. CASE r.err = "end" /\ b # <<>>
  <2>1. blocks' = Append(blocks, Padded(b)) /\ status' = "ok" /\ pc' = "idle"
    BY <1>4, <1>6, <1>14 DEF Returns
  <2>2. (IF q + z <= l THEN q + z ELSE l) = q + m
    BY <1>9, <1>14
  <2>3. CASE kind = "fixed"
    <3>1. Padded(b) = b
      BY <2>3 DEF Padded
    <3> QED
      BY <1>8, <1>12, <1>13, <1>14, <2>1, <2>2, <2>3, <3>1
  <2>4. CASE kind = "padded"
    <3> DEFINE pad == [i \in 1..(z - m) |-> Pad]
               c == [j \in 1..z |-> IF j <= m THEN b[j] ELSE Pad]
    <3>1. z - m \in Nat
      BY <1>9, <1>14
    <3>2. PICK k \in Nat : k = z - m
      BY <3>1
    <3>3. pad \in Seq({Pad}) /\ Len(pad) = k /\ \A i \in 1..k : pad[i] = Pad
      BY <3>2
    <3> HIDE DEF pad
    <3>a. b \in Seq(Byte) /\ pad \in Seq(Byte)
      <4>1. pad \in [1..k -> {Pad}]
        BY <3>3
      <4>2. pad \in [1..k -> Byte]
        BY <4>1 DEF Byte
      <4> QED
        BY <3>3, <4>2, BytesOfNat
    <3>4. PICK d \in Seq(Byte) : d = b \o pad /\ Len(d) = m + k
      <4>1. b \o pad \in Seq(Byte) /\ Len(b \o pad) = Len(b) + Len(pad)
        BY <3>a
      <4>2. Len(b \o pad) = m + k
        BY <1>8, <3>3, <4>1, Zenon
      <4> QED
        BY <4>1, <4>2, Zenon
    <3>5. Len(d) = z
      BY <3>2, <3>4
    <3>6. ASSUME NEW j \in 1..z PROVE d[j] = IF j <= m THEN b[j] ELSE Pad
      <4>1. CASE j <= m
        BY <1>8, <3>3, <3>4, <3>a, <4>1
      <4>2. CASE ~(j <= m)
        <5>1. j - m \in 1..k
          BY <3>2, <4>2
        <5>2. d[j] = pad[j - m]
          BY <1>8, <3>3, <3>4, <3>a, <4>2, <5>1
        <5> QED
          BY <3>3, <4>2, <5>1, <5>2
      <4> QED
        BY <4>1, <4>2
    <3>7. d = c
      BY <3>5, <3>6
    <3>8. Padded(b) = d
      BY <1>8, <2>4, <3>4 DEF Padded, pad
    <3>9. d # <<>>
      BY <1>8, <3>5
    <3> QED
      BY <1>8, <1>12, <1>13, <1>14, <2>1, <2>2, <2>4, <3>7, <3>8, <3>9
  <2> QED
    BY <1>2, <2>3, <2>4
<1>15. CASE r.err = "ok" /\ Len(b) = BlockSize
  <2>1. blocks' = Append(blocks, b) /\ status' = "ok" /\ pc' = "idle"
    BY <1>4, <1>6, <1>15 DEF Returns
  <2>2. m = z /\ b # <<>>
    BY <1>8, <1>15, EmptyLen
  <2>3. (IF q + z <= l THEN q + z ELSE l) = q + m
    BY <1>9, <2>2
  <2>4. [j \in 1..BlockSize |-> IF j <= Len(b) THEN b[j] ELSE Pad] = b
    <3>1. b \in [1..z -> Nat]
      <4>1. b \in [1..Len(b) -> Nat]
        OBVIOUS
      <4>2. Len(b) = z
        BY <1>8, <1>15
      <4> QED
        BY <4>1, <4>2
    <3>2. b = [j \in 1..z |-> b[j]]
      BY <3>1, Zenon
    <3>3. \A j \in 1..z : (IF j <= z THEN b[j] ELSE Pad) = b[j]
      OBVIOUS
    <3>4. [j \in 1..z |-> IF j <= z THEN b[j] ELSE Pad] = [j \in 1..z |-> b[j]]
      BY <3>3
    <3>5. BlockSize = z /\ Len(b) = z
      BY <1>8, <1>15
    <3> QED
      BY <3>2, <3>4, <3>5
  <2> QED
    BY <1>8, <1>12, <1>13, <2>1, <2>2, <2>3, <2>4
<1>16. CASE r.err = "ok" /\ Len(b) # BlockSize
  <2>1. UNCHANGED <<blocks, status, pc>> /\ buffer' = b
    BY <1>4, <1>6, <1>16
  <2>2. ContentDefined' /\ LastCut' = LastCut
    BY <1>2, <1>7, <2>1, CutsKept
  <2> QED
    BY <1>2, <1>3, <1>7, <2>1, <2>2, DirectCutEnough DEF DirectCut
<1> QED
  BY <1>5, <1>10, <1>11, <1>14, <1>15, <1>16

(* The whole-stream chopper. *)
LEMMA CutWhole ==
  ASSUME ChopInv, CutInv, ReadWhole
  PROVE  CutInv'
<1>1. TypeInv /\ ControlInv
  BY DEF ChopInv
<1>2. pc = "read" /\ kind = "whole" /\ kind' = kind
  BY DEF ReadWhole
<1>3. status = "ok" /\ ReadSize \in Nat \ {0}
  BY <1>1, <1>2, ChopperAssumption DEF ControlInv
<1>4. PICK r \in Reads(ReadSize) :
          /\ Consume(r)
          /\ buffer' = buffer \o r.data
          /\ IF r.err = "ok" THEN UNCHANGED <<blocks, status, pc>>
             ELSE IF r.err = "end" /\ buffer' # <<>> THEN Returns(buffer', "ok")
             ELSE Returns(buffer', r.err)
  BY DEF ReadWhole
<1>5. GoodRead(r, ReadSize) /\ r.err \in {"ok", "end", "read_error"}
  <2>1. GoodRead(r, ReadSize)
    BY <1>1, <1>3, <1>4, ReadsGood
  <2> QED
    BY <2>1 DEF GoodRead
<1>6. PICK b \in Seq(Nat) : b = buffer \o r.data /\ b = buffer'
  BY <1>2, <1>4, <1>5, DirectFacts
<1>7. /\ LastCut \in Nat /\ input' = input /\ Lies(b, input, LastCut)
      /\ position' = LastCut + Len(b)
      /\ r.err = "end" => position' = Len(input)
  BY <1>2, <1>4, <1>5, <1>6, DirectFacts
<1>8. CASE r.err = "ok"
  <2>1. UNCHANGED <<blocks, status, pc>>
    BY <1>4, <1>8
  <2>2. ContentDefined' /\ LastCut' = LastCut
    BY <1>2, <1>7, <2>1, CutsKept
  <2> QED
    BY <1>2, <1>3, <1>6, <1>7, <2>1, <2>2, DirectCutEnough DEF DirectCut
<1>9. CASE r.err = "read_error"
  <2>1. /\ UNCHANGED <<blocks, input, kind>> /\ status' = "read_error" /\ pc' = "idle"
    BY <1>2, <1>4, <1>7, <1>9 DEF Returns
  <2>2. ContentDefined' /\ LastCut' = LastCut
    BY <2>1, CutsKept
  <2> QED
    BY <1>2, <1>7, <2>1, <2>2, DirectCutEnough DEF DirectCut
<1>10. CASE r.err = "end" /\ b = <<>>
  <2>1. /\ UNCHANGED <<blocks, input, kind>> /\ status' = "end" /\ pc' = "idle"
    BY <1>2, <1>4, <1>6, <1>7, <1>10 DEF Returns
  <2>2. position' = LastCut + 0 /\ LastCut = Len(input)
    BY <1>7, <1>10, EmptyLen
  <2>3. ContentDefined' /\ LastCut' = LastCut
    BY <2>1, <2>2, CutsKept
  <2>4. position' = LastCut'
    BY <1>7, <2>2, <2>3
  <2> QED
    BY <1>2, <1>7, <2>1, <2>3, <2>4, DirectCutEnough DEF DirectCut
<1>11. CASE r.err = "end" /\ b # <<>>
  <2>1. /\ blocks' = Append(blocks, b) /\ status' = "ok" /\ pc' = "idle"
    BY <1>4, <1>6, <1>11 DEF Returns
  <2>2. NextCut(input, kind, LastCut) = LastCut + Len(b)
    BY <1>2, <1>7, <1>11 DEF NextCut
  <2>3. ContentDefined' /\ LastCut' = LastCut + Len(b)
    BY <1>1, <1>2, <1>7, <1>11, <2>1, <2>2, CutGrows
  <2>4. LastCut + Len(b) \in Nat
    BY <1>7
  <2> QED
    BY <1>2, <1>7, <2>1, <2>3, <2>4, DirectCutEnough DEF DirectCut
<1> QED
  BY <1>5, <1>8, <1>9, <1>10, <1>11

-----------------------------------------------------------------------------
(* The anchor-based chopper, while a block is put together. *)
AnchorMove ==
    /\ UNCHANGED <<blocks, input, kind, status>>
    /\ pc' \in {"scan", "load", "flush"} /\ NoAnchor'
    /\ pc' = "flush" => position' = Len(input)

(* What is left to say of it. *)
LEMMA AnchorMoveEnough ==
  ASSUME CutInv, AnchorMove, kind = "anchor", status = "ok"
  PROVE  CutInv'
<1>1. UNCHANGED <<blocks, input, kind, status>> /\ NoAnchor'
      /\ pc' \in {"scan", "load", "flush"} /\ (pc' = "flush" => position' = Len(input))
  BY DEF AnchorMove
<1>2. ContentDefined' /\ LastCut' = LastCut
  BY <1>1, CutsKept
<1>3. Returned' = Returned
  BY <1>1 DEF Returned
<1>4. Len(Returned) = LastCut /\ LastCut \in Nat
  BY DEF CutInv, Live
<1> QED
  BY <1>1, <1>2, <1>3, <1>4 DEF CutInv

(* The window is where it was. *)
LEMMA NoAnchorKept ==
  ASSUME NoAnchor, UNCHANGED <<blocks, input, kind>>,
         Base' + window'.offset = Base + window.offset
  PROVE  NoAnchor'
<1>1. LastCut' = LastCut
  BY DEF LastCut
<1>2. ASSUME NEW e \in Nat PROVE AnchorAt(e)' <=> AnchorAt(e)
  BY DEF AnchorAt
<1> QED
  BY <1>1, <1>2 DEF NoAnchor

(* A block begins. *)
LEMMA CutReadBlock ==
  ASSUME ChopInv, CutInv, ReadBlock
  PROVE  CutInv'
<1>1. TypeInv /\ HalvesInv /\ ContentInv /\ AccountInv
  BY DEF ChopInv
<1>2. /\ pc = "idle" /\ status = "ok" /\ buffer' = <<>>
      /\ pc' = IF kind = "anchor" THEN "scan" ELSE "read"
      /\ UNCHANGED <<input, position, kind, window, got, blocks, status>>
  BY DEF ReadBlock, inputVars
<1>3. LastCut \in Nat /\ Live /\ input \in Seq(Nat) /\ position \in 0..Len(input)
  BY <1>1, <1>2 DEF CutInv, Live, TypeInv
<1>4. CASE kind = "anchor"
  <2>1. Len(Returned) = LastCut /\ Base + window.offset = Len(Returned)
    BY <1>1, <1>2, <1>3, <1>4 DEF CutInv, AccountInv
  <2>2. LastCut' = LastCut /\ Base' = Base
    BY <1>2 DEF LastCut, Base
  <2>3. Base' + window'.offset = LastCut'
    BY <1>2, <2>1, <2>2
  <2>4. PICK n \in Nat, q \in Nat : n = WindowSize /\ q = LastCut
    BY <1>3, WindowAssumption
  <2>5. \A e \in Nat : ~(q + n <= e /\ e < q + n)
    OBVIOUS
  <2>6. NoAnchor'
    BY <2>2, <2>3, <2>4, <2>5 DEF NoAnchor
  <2>7. AnchorMove
    BY <1>2, <1>4, <2>6 DEF AnchorMove
  <2> QED
    BY <1>2, <1>4, <2>7, AnchorMoveEnough
<1>5. CASE kind # "anchor"
  <2>1. position = LastCut
    BY <1>2, <1>3, <1>5 DEF CutInv
  <2>2. ContentDefined' /\ LastCut' = LastCut
    BY <1>2, CutsKept
  <2>3. Lies(<<>>, input, LastCut)
    BY <1>3, <2>1, LiesEmpty
  <2>4. position' = LastCut' + Len(buffer')
    <3>1. PICK q \in Nat : q = LastCut
      BY <1>3
    <3>2. q = q + 0
      OBVIOUS
    <3> QED
      BY <1>2, <2>1, <2>2, <3>1, <3>2, EmptyLen
  <2> QED
    BY <1>2, <1>3, <1>5, <2>2, <2>3, <2>4, DirectCutEnough DEF DirectCut
<1> QED
  BY <1>4, <1>5

(* The window runs dry. *)
LEMMA CutReload ==
  ASSUME ChopInv, CutInv, Reload, ChopInv', WindowSize >= 2
  PROVE  CutInv'
<1>1. TypeInv /\ ControlInv /\ SizeInv /\ HalvesInv /\ ContentInv
  BY DEF ChopInv
<1>2. /\ pc = "scan" /\ Unfull(window) /\ window' = DestBuffer(window).win /\ got' = <<>>
      /\ pc' \in {"aborted", "load"}
      /\ UNCHANGED <<input, position, kind, blocks, status>>
  BY DEF Reload, inputVars
<1>3. /\ status = "ok" /\ Live /\ got = <<>> /\ kind = "anchor" /\ input \in Seq(Nat)
      /\ window \in [first : Seq(Nat), second : Seq(Nat), offset : Nat]
  BY <1>1, <1>2 DEF ControlInv, HalvesInv, Live, TypeInv
<1>4. pc' = "load"
  BY <1>2 DEF ChopInv, TypeInv
<1>5. NoAnchor /\ LastCut \in Nat
  BY <1>2, <1>3 DEF CutInv
<1>6. CASE window.first = <<>> \/ window.second = <<>>
  <2>1. DestBuffer(window) = [win |-> window,
                              half |-> IF window.first = <<>> THEN "first" ELSE "second",
                              discarded |-> <<>>]
    BY <1>6 DEF DestBuffer
  <2>2. window' = window
    BY <1>2, <2>1
  <2>3. Base' = Base
    BY <1>2, <1>3, <2>2 DEF Base
  <2>4. NoAnchor'
    BY <1>2, <1>5, <2>2, <2>3, NoAnchorKept
  <2> QED
    BY <1>2, <1>3, <1>4, <2>4, AnchorMoveEnough DEF AnchorMove
<1>7. CASE window.first # <<>> /\ window.second # <<>>
  <2> DEFINE next == [first |-> window.second, second |-> <<>>,
                      offset |-> window.offset % WindowSize]
  <2>1. window' = next
    <3>1. DestBuffer(window) = [win |-> next, half |-> "second", discarded |-> window.first]
      BY <1>7 DEF DestBuffer
    <3> HIDE DEF next
    <3> QED
      BY <1>2, <3>1
  <2>2. /\ window'.first = window.second /\ window'.second = <<>>
        /\ window'.offset = window.offset % WindowSize
    BY <2>1
  <2>3. PICK n \in Nat, g \in Nat, o \in Nat, x \in Nat, b \in Nat, l \in Nat, q \in Nat :
             /\ n = WindowSize /\ g = Len(window.second) /\ o = window.offset /\ x = position
             /\ b = Base /\ l = Len(input) /\ q = LastCut
    <3>1. /\ WindowSize \in Nat /\ Len(window.second) \in Nat /\ window.offset \in Nat
          /\ position \in Nat /\ Base \in Nat /\ Len(input) \in Nat /\ LastCut \in Nat
      BY <1>1, <1>3, <1>5, WindowAssumption DEF TypeInv, ContentInv
    <3> QED
      BY <3>1, Zenon
  <2>4. Len(window.first) = n /\ g <= n /\ o > g /\ o <= n + 1 /\ n >= 2 /\ g # 0
    BY <1>1, <1>2, <1>3, <1>7, <2>3, Nonempty DEF HalvesInv, SizeInv, Unfull
  <2>5. b = x - 0 - (n + g)
    BY <1>3, <2>3, <2>4, EmptyLen DEF Base, Bytes
  <2>6. CASE g = n
    <3>1. o = n + 1 /\ o % n = 1
      BY <2>4, <2>6, OneOver
    <3>2. Base' = x - 0 - (g + 0)
      BY <1>2, <2>2, <2>3, EmptyLen DEF Base, Bytes
    <3>3. window'.offset = 1
      BY <2>2, <2>3, <3>1
    <3>4. (x - 0 - (g + 0)) + 1 = b + o
      BY <2>5, <2>6, <3>1
    <3>5. Base' + window'.offset = Base + window.offset
      BY <2>3, <3>2, <3>3, <3>4
    <3> QED
      BY <1>2, <1>3, <1>4, <1>5, <3>5, NoAnchorKept, AnchorMoveEnough DEF AnchorMove
  <2>7. CASE g # n
    <3>1. x = l
      <4>1. g \in 1..(n - 1)
        BY <2>4, <2>7
      <4> QED
        BY <1>1, <1>3, <2>3, <4>1 DEF HalvesInv
    <3>2. \A e \in Nat : e < l => e < (b + o) + n
      BY <2>4, <2>5, <3>1
    <3>3. \A e \in Nat : q + n <= e /\ e < l => ~AnchorAt(e)
      BY <1>5, <2>3, <3>2 DEF NoAnchor
    <3>4. LastCut' = q /\ Len(input)' = l
      BY <1>2, <2>3 DEF LastCut
    <3>5. \A e \in Nat : AnchorAt(e)' <=> AnchorAt(e)
      BY <1>2 DEF AnchorAt
    <3>6. NoAnchor'
      BY <2>3, <3>3, <3>4, <3>5 DEF NoAnchor
    <3> QED
      BY <1>2, <1>3, <1>4, <3>6, AnchorMoveEnough DEF AnchorMove
  <2> QED
    BY <2>6, <2>7
<1> QED
  BY <1>6, <1>7

(* A read into a half window does not move the window. *)
LEMMA CutLoad ==
  ASSUME ChopInv, CutInv, ReadSlidingWindow
  PROVE  CutInv'
<1>1. TypeInv /\ ControlInv /\ SizeInv /\ HalvesInv
  BY DEF ChopInv
<1>2. pc = "load" /\ UNCHANGED <<kind, half>>
  BY DEF ReadSlidingWindow
<1>3. PICK r \in Reads(WindowSize - Len(got)) :
         LET data == got \o r.data
             done == r.err # "ok" \/ Len(data) = WindowSize
         IN  /\ Consume(r)
             /\ got' = IF done THEN <<>> ELSE data
             /\ window' = IF done THEN WithHalf(data) ELSE window
             /\ IF r.err \notin {"ok", "end"} THEN Returns(buffer, r.err)
                ELSE /\ UNCHANGED <<blocks, status>>
                     /\ pc' = IF ~done THEN "load"
                              ELSE IF data = <<>> THEN "flush" ELSE "scan"
  BY DEF ReadSlidingWindow
<1>4. PICK data \in Seq(Nat) : data = got \o r.data
  BY <1>2, <1>3, LoadFacts
<1>5. /\ Len(data) <= WindowSize /\ input' = input /\ Base \in Nat /\ Bytes(window) \in Nat
      /\ position' = (Base + Bytes(window)) + Len(data)
      /\ r.err \in {"ok", "end", "read_error"} /\ (r.err = "end" => position' = Len(input))
  BY <1>2, <1>3, <1>4, LoadFacts
<1>6. status = "ok" /\ kind = "anchor"
  BY <1>1, <1>2 DEF ControlInv
<1>7. CASE r.err = "read_error"
  <2>1. UNCHANGED <<blocks, input, kind>> /\ status' = "read_error"
    BY <1>2, <1>3, <1>5, <1>7 DEF Returns
  <2>2. ContentDefined'
    BY <2>1, CutsKept
  <2> QED
    BY <2>1, <2>2 DEF CutInv, Live
<1>8. CASE r.err # "read_error"
  <2>1. /\ UNCHANGED <<blocks, status>>
        /\ pc' = IF ~(r.err # "ok" \/ Len(data) = WindowSize) THEN "load"
                 ELSE IF data = <<>> THEN "flush" ELSE "scan"
    BY <1>3, <1>4, <1>5, <1>8
  <2>2. pc' \in {"scan", "load", "flush"}
    BY <2>1
  <2>3. ASSUME pc' = "flush" PROVE position' = Len(input)
    <3>1. data = <<>> /\ (r.err # "ok" \/ Len(data) = WindowSize)
      BY <2>1, <2>3
    <3>2. r.err = "end"
      BY <1>5, <1>8, <3>1, EmptyLen, WindowAssumption
    <3> QED
      BY <1>5, <3>2
  <2>4. PICK b \in Nat, w \in Nat, m \in Nat : b = Base /\ w = Bytes(window) /\ m = Len(data)
    <3>1. Len(data) \in Nat
      OBVIOUS
    <3> QED
      BY <1>5, <3>1, Zenon
  <2>5. window'.offset = window.offset /\ Base' = Base
    <3>1. CASE got' = data /\ window' = window
      <4>1. Base' = ((b + w) + m) - m - w
        BY <1>5, <2>4, <3>1 DEF Base
      <4>2. ((b + w) + m) - m - w = b
        OBVIOUS
      <4> QED
        BY <2>4, <3>1, <4>1, <4>2
    <3>2. CASE got' = <<>> /\ window' = WithHalf(data)
      <4>0. window'.offset = window.offset
        BY <1>1, <1>5, <3>2, WithHalfFacts
      <4>1. Bytes(window') = w + m
        <5>1. CASE half = "first"
          <6>1. window'.first = data /\ window'.second = <<>> /\ w = 0 + 0
            <7>1. window.first = <<>> /\ window.second = <<>>
              BY <1>1, <1>2, <1>6, <5>1 DEF HalvesInv, Live
            <7> QED
              BY <1>1, <1>5, <2>4, <3>2, <5>1, <7>1, WithHalfFacts, EmptyLen DEF Bytes
          <6>2. Bytes(window') = m + 0
            BY <2>4, <6>1, EmptyLen DEF Bytes
          <6> QED
            BY <6>1, <6>2
        <5>2. CASE half = "second"
          <6>1. window'.first = window.first /\ window'.second = data /\ window.second = <<>>
            BY <1>1, <1>2, <1>5, <1>6, <3>2, <5>2, WithHalfFacts DEF HalvesInv, Live
          <6>2. PICK l \in Nat : l = Len(window.first)
            BY <1>1, WindowFields
          <6>3. w = l + 0 /\ Bytes(window') = l + m
            BY <2>4, <6>1, <6>2, EmptyLen DEF Bytes
          <6> QED
            BY <6>3
        <5> QED
          BY <1>1, <5>1, <5>2 DEF TypeInv
      <4>2. Base' = ((b + w) + m) - 0 - (w + m)
        BY <1>5, <2>4, <3>2, <4>1, EmptyLen DEF Base
      <4>3. ((b + w) + m) - 0 - (w + m) = b
        OBVIOUS
      <4> QED
        BY <2>4, <4>0, <4>2, <4>3
    <3> QED
      BY <1>3, <1>4, <3>1, <3>2
  <2>6. NoAnchor
    BY <1>2, <1>6 DEF CutInv, Live
  <2>7. NoAnchor'
    BY <1>2, <1>5, <2>1, <2>5, <2>6, NoAnchorKept
  <2> QED
    BY <1>2, <1>5, <1>6, <2>1, <2>2, <2>3, <2>7, AnchorMoveEnough DEF AnchorMove
<1> QED
  BY <1>7, <1>8

(* The end of a block of the anchor-based chopper: it lies behind the last *)
(* cut, and up to where the window is now.                                 *)
LEMMA CutBlock ==
  ASSUME ChopInv, CutInv, ChopInv', kind = "anchor", status = "ok", pc' = "idle", status' = "ok",
         blocks' = Append(blocks, buffer'), input' = input, kind' = kind,
         NEW e \in Nat, e = Base' + window'.offset, buffer' # <<>> \/ e > LastCut,
         NextCut(input, kind, LastCut) = e
  PROVE  CutInv'
<1>1. TypeInv /\ AccountInv /\ TypeInv' /\ AccountInv'
  BY DEF ChopInv
<1>2. PICK b \in Seq(Nat), c \in Seq(Nat) : b = buffer' /\ c = Returned
  BY <1>1 DEF TypeInv, AccountInv, Live
<1>3. blocks \in Seq(Seq(Byte)) /\ b \in Seq(Byte) /\ input \in Seq(Nat)
  BY <1>1, <1>2, BytesOfNat DEF TypeInv
<1>4. Returned' = c \o b
  BY <1>2, <1>3, ConcatAppend DEF Returned
<1>5. Len(c) = LastCut /\ LastCut \in Nat
  BY <1>2 DEF CutInv, Live
<1>6. Lies(c \o b, input, 0) /\ Len(c \o b) = e
  BY <1>1, <1>4 DEF AccountInv, Live
<1>7. c \o b \in Seq(Nat) /\ Len(c \o b) = Len(c) + Len(b)
  OBVIOUS
<1>8. PICK q \in Nat, m \in Nat : q = Len(c) /\ m = Len(b)
  <2>1. Len(c) \in Nat /\ Len(b) \in Nat
    OBVIOUS
  <2> QED
    BY <2>1, Zenon
<1>9. Lies(b, input, q)
  <2>0. 0 + (q + m) <= Len(input) /\ \A i \in 1..(q + m) : (c \o b)[i] = input[0 + i]
    BY <1>6, <1>7, <1>8 DEF Lies
  <2>1. q + m <= Len(input)
    BY <1>3, <2>0
  <2>2. ASSUME NEW i \in 1..m PROVE b[i] = input[q + i]
    <3>1. q + i \in 1..(q + m) /\ 0 + (q + i) = q + i /\ q + i > q /\ (q + i) - q = i
      OBVIOUS
    <3>2. (c \o b)[q + i] = b[i]
      BY <1>8, <3>1
    <3> QED
      BY <2>0, <3>1, <3>2
  <2> QED
    BY <1>8, <2>1, <2>2 DEF Lies
<1>10. e = LastCut + Len(b)
  BY <1>5, <1>6, <1>7
<1>a. b # <<>>
  <2>1. e > LastCut => m # 0
    BY <1>5, <1>8, <1>10
  <2> QED
    BY <1>2, <1>8, <2>1, EmptyLen
<1>11. ContentDefined' /\ LastCut' = LastCut + Len(b)
  BY <1>1, <1>2, <1>5, <1>8, <1>9, <1>10, <1>a, CutGrows
<1>12. Len(Returned') = LastCut' /\ LastCut' \in Nat
  BY <1>4, <1>6, <1>10, <1>11
<1> QED
  BY <1>11, <1>12 DEF CutInv

(* Where the window of a chopper that scans ends, and that it lies at      *)
(* least WindowSize bytes behind the last cut.                             *)
LEMMA ScanFacts ==
  ASSUME ChopInv, FprInv, CutInv, pc = "scan", ~Unfull(window)
  PROVE  \E p \in Nat, n \in Nat \ {0}, q \in Nat :
            /\ p = Base + window.offset /\ n = WindowSize /\ q = LastCut /\ q <= p
            /\ p + n <= Len(input) /\ EndOffset(window) - start > 0
            /\ AnchorAt(p + n) <=> Magic(CurrentFpr)
<1>1. TypeInv /\ ControlInv /\ SizeInv /\ HalvesInv /\ ContentInv /\ AccountInv
  BY DEF ChopInv
<1>2. status = "ok" /\ Live /\ kind = "anchor" /\ input \in Seq(Nat) /\ buffer \in Seq(Nat)
      /\ window \in [first : Seq(Nat), second : Seq(Nat), offset : Nat]
  BY <1>1 DEF ControlInv, TypeInv, Live
<1>3. /\ Len(window.first) = WindowSize
      /\ window.offset <= Len(window.second) /\ Len(window.second) <= WindowSize
  BY <1>1, <1>2, FullWindow
<1>4. EndOffset(window) = window.offset + WindowSize
  BY <1>2, <1>3, WholeWindow
<1>5. PICK b \in Nat, o \in Nat, n \in Nat \ {0}, q \in Nat, a \in Nat, m \in Nat :
           /\ b = Base /\ o = window.offset /\ n = WindowSize /\ q = LastCut /\ a = start
           /\ m = Len(buffer)
  <2>1. /\ Base \in Nat /\ window.offset \in Nat /\ WindowSize \in Nat \ {0} /\ LastCut \in Nat
        /\ start \in Nat /\ Len(buffer) \in Nat
    BY <1>1, <1>2, WindowAssumption DEF ContentInv, CutInv, TypeInv
  <2> QED
    BY <2>1, Zenon
<1>6. b + a = q + m /\ a <= o
  BY <1>1, <1>2, <1>5 DEF AccountInv, HalvesInv, CutInv
<1>7. PICK p \in Nat : p = b + o
  OBVIOUS
<1>8. q <= p /\ (o + n) - a > 0 /\ (p + n) - n + 1 = p + 1
  BY <1>6, <1>7
<1>9. /\ p + n <= Len(input)
      /\ CurrentFpr = Fingerprint(SubSeq(input, p + 1, p + n))
  BY <1>5, <1>7, ScanExact
<1>10. AnchorAt(p + n) <=> Magic(CurrentFpr)
  BY <1>5, <1>8, <1>9 DEF AnchorAt
<1>11. EndOffset(window) - start > 0
  BY <1>4, <1>5, <1>8
<1> QED
  BY <1>5, <1>7, <1>8, <1>9, <1>10, <1>11

(* One fingerprint. *)
LEMMA CutScan ==
  ASSUME ChopInv, FprInv, CutInv, Scan, ChopInv'
  PROVE  CutInv'
<1>1. TypeInv /\ ControlInv /\ SizeInv /\ HalvesInv /\ ContentInv
  BY DEF ChopInv
<1>2. pc = "scan" /\ ~Unfull(window) /\ UNCHANGED <<input, position, kind, start, got>>
  BY DEF Scan, inputVars
<1>3. /\ status = "ok" /\ Live /\ kind = "anchor" /\ got = <<>> /\ input \in Seq(Nat)
      /\ window \in [first : Seq(Nat), second : Seq(Nat), offset : Nat]
  BY <1>1, <1>2 DEF ControlInv, TypeInv, Live, HalvesInv
<1>4. PICK p \in Nat, n \in Nat \ {0}, q \in Nat :
         /\ p = Base + window.offset /\ n = WindowSize /\ q = LastCut /\ q <= p
         /\ p + n <= Len(input) /\ EndOffset(window) - start > 0
         /\ AnchorAt(p + n) <=> Magic(CurrentFpr)
  BY <1>2, ScanFacts
<1>5. PICK b \in Nat, o \in Nat, g \in Nat, x \in Nat, l \in Nat :
           /\ b = Base /\ o = window.offset /\ g = Len(window.second) /\ x = position
           /\ l = Len(input)
  <2>1. /\ Base \in Nat /\ window.offset \in Nat /\ Len(window.second) \in Nat /\ position \in Nat
        /\ Len(input) \in Nat
    BY <1>1, <1>3 DEF ContentInv, TypeInv
  <2> QED
    BY <2>1, Zenon
<1>6. p = b + o /\ p + n <= l
  BY <1>4, <1>5
<1>7. NoAnchor
  BY <1>2, <1>3 DEF CutInv
<1>8. \A e \in Nat : q + n <= e /\ e < l /\ e < p + n => ~AnchorAt(e)
  BY <1>4, <1>5, <1>7 DEF NoAnchor
<1>9. \/ /\ Magic(CurrentFpr) /\ window' = Skip(window, WindowSize)
         /\ blocks' = Append(blocks, buffer') /\ status' = "ok" /\ pc' = "idle"
      \/ /\ ~Magic(CurrentFpr) /\ window' = [window EXCEPT !.offset = @ + 1]
         /\ UNCHANGED <<blocks, status, pc>>
  <2>1. pc' # "aborted"
    BY DEF ChopInv, TypeInv
  <2> QED
    BY <1>4, <2>1 DEF Scan, Returns, CurrentFpr
<1>10. CASE /\ Magic(CurrentFpr) /\ window' = Skip(window, WindowSize)
            /\ blocks' = Append(blocks, buffer') /\ status' = "ok" /\ pc' = "idle"
  <2>1. Len(window.first) = n
    BY <1>1, <1>2, <1>3, <1>4, FullWindow
  <2>2. window' = [first |-> window.second, second |-> <<>>, offset |-> o]
    <3>1. o + n >= n /\ (o + n) - n = o
      OBVIOUS
    <3> QED
      BY <1>4, <1>5, <1>10, <2>1, <3>1 DEF Skip
  <2>3. b = x - 0 - (n + g) /\ Base' = x - 0 - (g + 0) /\ window'.offset = o
    BY <1>2, <1>3, <1>5, <2>1, <2>2, EmptyLen DEF Base, Bytes
  <2>4. PICK e \in Nat : e = p + n
    OBVIOUS
  <2>5. e = Base' + window'.offset
    <3>1. (x - 0 - (g + 0)) + o = e
      BY <1>6, <2>3, <2>4
    <3> QED
      BY <2>3, <3>1
  <2>6. q + n <= e /\ e <= l /\ e > q /\ AnchorAt(e)
    BY <1>4, <1>6, <1>10, <2>4
  <2>7. \A d \in Nat : q + n <= d /\ d < e => ~AnchorAt(d)
    BY <1>8, <2>4, <2>6
  <2>8. NextCut(input, "anchor", q) = e
    <3>1. /\ \A d \in Nat : q + WindowSize <= d /\ d < e =>
               ~Magic(Fingerprint(SubSeq(input, d - WindowSize + 1, d)))
          /\ q + WindowSize <= e /\ e <= Len(input)
          /\ Magic(Fingerprint(SubSeq(input, e - WindowSize + 1, e)))
      BY <1>4, <1>5, <2>6, <2>7 DEF AnchorAt
    <3> QED
      BY <1>3, <3>1, AnchorCut
  <2>9. e > LastCut /\ NextCut(input, kind, LastCut) = e
    BY <1>3, <1>4, <2>6, <2>8
  <2> QED
    BY <1>2, <1>3, <1>10, <2>5, <2>9, CutBlock
<1>11. CASE /\ ~Magic(CurrentFpr) /\ window' = [window EXCEPT !.offset = @ + 1]
            /\ UNCHANGED <<blocks, status, pc>>
  <2>1. window'.offset = o + 1 /\ window'.first = window.first /\ window'.second = window.second
    BY <1>3, <1>5, <1>11
  <2>2. Base' = b
    BY <1>2, <1>5, <2>1 DEF Base, Bytes
  <2>3. ASSUME NEW e \in Nat, q + n <= e, e < l, e < (b + (o + 1)) + n PROVE ~AnchorAt(e)
    <3>1. CASE e = p + n
      BY <1>4, <1>11, <3>1
    <3>2. CASE e # p + n
      <4>1. e < p + n
        BY <1>6, <2>3, <3>2
      <4> QED
        BY <1>8, <2>3, <4>1
    <3> QED
      BY <3>1, <3>2
  <2>4. LastCut' = q /\ Len(input)' = l
    BY <1>2, <1>4, <1>5, <1>11 DEF LastCut
  <2>5. \A e \in Nat : AnchorAt(e)' <=> AnchorAt(e)
    BY <1>2 DEF AnchorAt
  <2>6. NoAnchor'
    BY <1>4, <2>1, <2>2, <2>3, <2>4, <2>5 DEF NoAnchor
  <2> QED
    BY <1>2, <1>3, <1>11, <2>6, AnchorMoveEnough DEF AnchorMove
<1> QED
  BY <1>9, <1>10, <1>11

(* The end of the stream. *)
LEMMA CutFlush ==
  ASSUME ChopInv, CutInv, Flush, ChopInv'
  PROVE  CutInv'
<1>1. TypeInv /\ ControlInv /\ SizeInv /\ HalvesInv /\ ContentInv /\ AccountInv /\ AccountInv'
  BY DEF ChopInv
<1>2. /\ pc = "flush" /\ window' = EmptyWindow /\ pc' = "idle"
      /\ blocks' = IF buffer' # <<>> THEN Append(blocks, buffer') ELSE blocks
      /\ status' = IF buffer' = <<>> THEN "end" ELSE "ok"
      /\ UNCHANGED <<input, position, kind, got>>
  BY DEF Flush, Returns, inputVars
<1>3. /\ status = "ok" /\ Live /\ kind = "anchor" /\ got = <<>> /\ window.second = <<>>
      /\ window \in [first : Seq(Nat), second : Seq(Nat), offset : Nat]
      /\ input \in Seq(Nat)
  BY <1>1, <1>2 DEF ControlInv, HalvesInv, Live, TypeInv
<1>4. NoAnchor /\ position = Len(input) /\ LastCut \in Nat /\ Len(Returned) = LastCut
  BY <1>2, <1>3 DEF CutInv
<1>5. PICK b \in Nat, o \in Nat, n \in Nat, l \in Nat, x \in Nat, q \in Nat :
           /\ b = Base /\ o = window.offset /\ n = WindowSize /\ l = Len(window.first)
           /\ x = Len(input) /\ q = LastCut
  <2>1. /\ Base \in Nat /\ window.offset \in Nat /\ WindowSize \in Nat /\ Len(window.first) \in Nat
        /\ Len(input) \in Nat /\ LastCut \in Nat
    BY <1>1, <1>3, <1>4, WindowAssumption DEF ContentInv
  <2> QED
    BY <2>1, Zenon
<1>6. l <= n /\ b = x - 0 - (l + 0)
  BY <1>1, <1>3, <1>4, <1>5, EmptyLen DEF SizeInv, Base, Bytes
<1>7. \A d \in Nat : d < x => d < (b + o) + n
  BY <1>6
<1>8. NextCut(input, "anchor", q) = x
  <2>1. \A d \in Nat : q + WindowSize <= d /\ d < x =>
             ~Magic(Fingerprint(SubSeq(input, d - WindowSize + 1, d)))
    BY <1>4, <1>5, <1>7 DEF NoAnchor, AnchorAt
  <2> QED
    BY <1>3, <1>5, <2>1, AnchorCut, SMTT(30)
<1>9. Base' = x - 0 - 0 /\ window'.offset = 0
  BY <1>2, <1>3, <1>4, <1>5, NoWindow, EmptyLen DEF Base
<1>10. x = Base' + window'.offset
  <2>1. x = (x - 0 - 0) + 0
    OBVIOUS
  <2> QED
    BY <1>9, <2>1
<1>11. CASE buffer' # <<>>
  <2>1. blocks' = Append(blocks, buffer') /\ status' = "ok" /\ NextCut(input, kind, LastCut) = x
    BY <1>2, <1>3, <1>5, <1>8, <1>11
  <2> QED
    BY <1>2, <1>3, <1>10, <1>11, <2>1, CutBlock
<1>12. CASE buffer' = <<>>
  <2>1. UNCHANGED <<blocks, input, kind>> /\ status' = "end"
    BY <1>2, <1>12
  <2>2. Returned' = Returned
    BY <2>1 DEF Returned
  <2>3. LastCut = Len(input)
    <3>1. Base' + window'.offset = Len(Returned')
      BY <1>1, <1>2, <1>3, <2>1 DEF AccountInv, Live
    <3> QED
      BY <1>4, <1>5, <1>10, <2>2, <3>1
  <2>4. ContentDefined' /\ LastCut' = LastCut
    BY <2>1, <2>3, CutsKept
  <2> QED
    BY <1>2, <1>3, <1>4, <2>1, <2>2, <2>4 DEF CutInv
<1> QED
  BY <1>11, <1>12

(* Before the first block. *)
LEMMA CutInit ==
  ASSUME Init
  PROVE  CutInv
<1>1. blocks = <<>> /\ status = "ok" /\ pc = "idle" /\ position = 0
  BY DEF Init, InputInit
<1>2. Len(blocks) = 0 /\ Returned = <<>>
  BY <1>1, EmptyLen, ConcatEmpty DEF Returned
<1>3. LastCut = 0
  BY <1>2, CutFacts DEF LastCut
<1>4. ContentDefined
  <2>1. \A i \in 1..0 : FALSE
    OBVIOUS
  <2> QED
    BY <1>1, <1>2, <2>1 DEF ContentDefined
<1> QED
  BY <1>1, <1>2, <1>3, <1>4, EmptyLen DEF CutInv

(* No step. *)
LEMMA CutStutter ==
  ASSUME CutInv, UNCHANGED vars
  PROVE  CutInv'
<1>1. UNCHANGED <<input, position, kind, buffer, window, got, blocks, status, pc>>
  BY DEF vars, inputVars, chopVars
<1>2. LastCut' = LastCut /\ Base' = Base /\ Returned' = Returned
  BY <1>1 DEF LastCut, Base, Returned
<1>3. \A e \in Nat : AnchorAt(e)' <=> AnchorAt(e)
  BY <1>1 DEF AnchorAt
<1>4. NoAnchor => NoAnchor'
  BY <1>1, <1>2, <1>3 DEF NoAnchor
<1>5. ContentDefined'
  BY <1>1, CutsKept
<1> QED
  BY <1>1, <1>2, <1>4, <1>5 DEF CutInv, Live

(***************************************************************************)
(* ContentDefined: the blocks of a chopper are a function of the input, of *)
(* the kind of chopper and of its parameters, whatever the stream hands    *)
(* out at a time and however often a half window is reloaded; so equal     *)
(* contents are cut alike, which the storage of versions relies on.        *)
(***************************************************************************)
THEOREM ContentDefinesBlocks ==
  ASSUME WindowSize >= 2
  PROVE  Spec => []ContentDefined
<1>1. ASSUME Init PROVE FprInv /\ CutInv
  BY <1>1, CutInit DEF Init, FprInv
<1>2. ASSUME ChopInv, FprInv /\ CutInv, [Next]_vars PROVE (FprInv /\ CutInv)'
  <2>1. ChopInv' /\ FprInv'
    BY <1>2, ChopInductive, FprInductive
  <2>2. CutInv'
    BY <1>2, <2>1, CutReadBlock, CutFixed, CutWhole, CutReload, CutLoad, CutScan, CutFlush,
       CutStutter DEF Next, Step
  <2> QED
    BY <2>1, <2>2
<1>3. ASSUME FprInv /\ CutInv PROVE ContentDefined
  BY <1>3 DEF CutInv
<1> QED
  BY <1>1, <1>2, <1>3, ChopAlways, PTL DEF Spec
=============================================================================
