---------------------------- MODULE FilterProofs ----------------------------
(***************************************************************************)
(* The filters with their two clients, for any blocks, sources, request    *)
(* sizes and sequences of faults.  The argument follows one session of a   *)
(* filter: what the library has consumed and what lies in the buffer and   *)
(* with the fault handler make up the input, and what came out is the      *)
(* start of its image (or of the text whose image it is).  A flush that    *)
(* says that all is out therefore leaves the whole image with the client,  *)
(* and a clean filter behind.  Images are injective, also up to damage, so *)
(* that what a store reads is what it wrote.                               *)
(***************************************************************************)
EXTENDS FilterClients, SetInduction, SequenceTheorems

-----------------------------------------------------------------------------
Text == Seq(PlainUnit)
Data == Seq(Unit)

-----------------------------------------------------------------------------
(* Sequences of units: concatenation and parts. *)
LEMMA DataLen ==
  ASSUME NEW s \in Data
  PROVE  /\ Len(s) \in Nat /\ (Len(s) = 0 => s = <<>>) /\ (s = <<>> => Len(s) = 0)
         /\ \A i \in 1..Len(s) : s[i] \in Unit
BY DEF Data

(* The empty sequence is data, and a text. *)
LEMMA Nothing == <<>> \in Data /\ <<>> \in Text /\ Len(<<>>) = 0
BY DEF Data, Text

(* Texts are data, and consist of plain units. *)
LEMMA TextData ==
  /\ Text \subseteq Data /\ PlainUnit \subseteq Unit
  /\ \A s \in Text : \A i \in 1..Len(s) : s[i] \in PlainUnit
<1>1. PlainUnit \subseteq Unit
  BY DEF PlainUnit, Unit
<1>2. Text \subseteq Data
  BY <1>1, SeqMonotonic DEF Text, Data
<1>3. \A s \in Text : \A i \in 1..Len(s) : s[i] \in PlainUnit
  BY DEF Text
<1> QED
  BY <1>1, <1>2, <1>3

(* A sequence whose units are plain is a text. *)
LEMMA PlainText ==
  ASSUME NEW s \in Data, \A i \in 1..Len(s) : s[i] \in PlainUnit
  PROVE  s \in Text
BY DEF Data, Text

IsJoin(q, s, t) ==
    /\ q \in Data /\ Len(q) = Len(s) + Len(t)
    /\ \A i \in 1..Len(s) : q[i] = s[i]
    /\ \A i \in 1..Len(t) : q[Len(s) + i] = t[i]

(* What a concatenation holds, unit by unit. *)
LEMMA Joined ==
  ASSUME NEW s \in Data, NEW t \in Data
  PROVE  IsJoin(s \o t, s, t)
BY DEF Data, IsJoin

(* The type and the length of a concatenation. *)
LEMMA JoinedType ==
  ASSUME NEW s \in Data, NEW t \in Data
  PROVE  s \o t \in Data /\ Len(s \o t) = Len(s) + Len(t)
BY DEF Data

(* The empty sequence is neutral. *)
LEMMA Empties ==
  ASSUME NEW s \in Data
  PROVE  s \o <<>> = s /\ <<>> \o s = s
BY ConcatEmptySeq DEF Data

(* Concatenation is associative. *)
LEMMA Regroup ==
  ASSUME NEW s \in Data, NEW t \in Data, NEW u \in Data
  PROVE  (s \o t) \o u = s \o (t \o u)
BY ConcatAssociative DEF Data

(* Sequences that agree everywhere are equal. *)
LEMMA Same ==
  ASSUME NEW s \in Data, NEW t \in Data, NEW n \in Nat, n = Len(s), n = Len(t),
         \A i \in 1..n : s[i] = t[i]
  PROVE  s = t
<1>1. Len(s) = Len(t) /\ \A i \in 1..Len(s) : s[i] = t[i]
  OBVIOUS
<1>2. s \in Seq(Unit) /\ t \in Seq(Unit)
  BY DEF Data
<1> QED
  BY <1>1, <1>2, SeqEqual

(* What a part of a sequence holds, unit by unit. *)
LEMMA Part ==
  ASSUME NEW s \in Data, NEW m \in Nat, NEW n \in Nat, m <= n, n <= Len(s),
         NEW t, t = SubSeq(s, m + 1, n)
  PROVE  /\ t \in Data /\ Len(t) = n - m
         /\ \A i \in 1..(n - m) : t[i] = s[m + i]
<1>1. \A i \in (m + 1)..n : s[i] \in Unit
  BY DataLen
<1>2. /\ SubSeq(s, m + 1, n) \in Seq(Unit)
      /\ Len(SubSeq(s, m + 1, n)) = IF m + 1 <= n THEN n - (m + 1) + 1 ELSE 0
      /\ \A i \in 1..(n - (m + 1) + 1) : SubSeq(s, m + 1, n)[i] = s[(m + 1) + i - 1]
  BY <1>1, SubSeqProperties
<1>3. \A i \in 1..(n - m) : (m + 1) + i - 1 = m + i /\ i \in 1..(n - (m + 1) + 1)
  OBVIOUS
<1>4. Len(t) = n - m
  BY <1>2
<1> QED
  BY <1>2, <1>3, <1>4 DEF Data

IsPart(t, s, m, n) ==
    t \in Data /\ Len(t) = n - m /\ \A i \in 1..(n - m) : t[i] = s[m + i]

(* The same, as one fact. *)
LEMMA PartIs ==
  ASSUME NEW s \in Data, NEW m \in Nat, NEW n \in Nat, m <= n, n <= Len(s)
  PROVE  IsPart(SubSeq(s, m + 1, n), s, m, n)
<1>1. PICK t : t = SubSeq(s, m + 1, n)
  OBVIOUS
<1>2. t \in Data /\ Len(t) = n - m /\ \A i \in 1..(n - m) : t[i] = s[m + i]
  BY <1>1, Part, ZenonT(60)
<1> QED
  BY <1>1, <1>2 DEF IsPart

(* What the start of a sequence holds. *)
LEMMA Head1 ==
  ASSUME NEW s \in Data, NEW n \in Nat, n <= Len(s), NEW t, t = SubSeq(s, 1, n)
  PROVE  t \in Data /\ Len(t) = n /\ \A i \in 1..n : t[i] = s[i]
<1>1. \A i \in 1..n : s[i] \in Unit
  BY DataLen
<1>2. /\ SubSeq(s, 1, n) \in Seq(Unit)
      /\ Len(SubSeq(s, 1, n)) = IF 1 <= n THEN n - 1 + 1 ELSE 0
      /\ \A i \in 1..(n - 1 + 1) : SubSeq(s, 1, n)[i] = s[1 + i - 1]
  BY <1>1, SubSeqProperties
<1>3. \A i \in 1..n : 1 + i - 1 = i /\ i \in 1..(n - 1 + 1)
  OBVIOUS
<1>4. Len(t) = n
  BY <1>2
<1> QED
  BY <1>2, <1>3, <1>4 DEF Data

(* What the rest of a sequence holds. *)
LEMMA Rest ==
  ASSUME NEW s \in Data, NEW n \in Nat, n <= Len(s), NEW t, t = SubSeq(s, n + 1, Len(s))
  PROVE  t \in Data /\ Len(t) = Len(s) - n /\ \A i \in 1..(Len(s) - n) : t[i] = s[n + i]
<1>1. PICK m \in Nat : m = Len(s)
  BY DataLen
<1>2. n <= m /\ m <= Len(s) /\ t = SubSeq(s, n + 1, m)
  BY <1>1
<1>3. t \in Data /\ Len(t) = m - n /\ \A i \in 1..(m - n) : t[i] = s[n + i]
  BY <1>2, Part, ZenonT(60)
<1> QED
  BY <1>1, <1>3

(* The two trivial starts and the empty rest. *)
LEMMA Ends ==
  ASSUME NEW s \in Data
  PROVE  /\ SubSeq(s, 1, Len(s)) = s
         /\ SubSeq(s, 1, 0) = <<>> /\ SubSeq(s, Len(s) + 1, Len(s)) = <<>>
<1>1. Len(s) \in Int /\ Len(s) + 1 \in Int /\ Len(s) < Len(s) + 1
  BY DataLen
<1>2. SubSeq(s, 1, Len(s)) = s
  BY SubSeqFull DEF Data
<1>3. SubSeq(s, 1, 0) = <<>>
  BY SubSeqEmpty
<1>4. SubSeq(s, Len(s) + 1, Len(s)) = <<>>
  BY <1>1, SubSeqEmpty
<1> QED
  BY <1>2, <1>3, <1>4

(* Adjacent parts make one part. *)
LEMMA Adjacent ==
  ASSUME NEW s \in Data, NEW m \in Nat, NEW k \in Nat, NEW n \in Nat,
         m <= k, k <= n, n <= Len(s)
  PROVE  SubSeq(s, m + 1, k) \o SubSeq(s, k + 1, n) = SubSeq(s, m + 1, n)
<1>1. m + 1 \in 1..(Len(s) + 1) /\ k \in ((m + 1) - 1)..Len(s) /\ n \in k..Len(s)
  BY DataLen
<1> QED
  BY <1>1, ConcatAdjacentSubSeq DEF Data

(* The same for a start and the part behind it. *)
LEMMA Adjacent1 ==
  ASSUME NEW s \in Data, NEW k \in Nat, NEW n \in Nat, k <= n, n <= Len(s)
  PROVE  SubSeq(s, 1, k) \o SubSeq(s, k + 1, n) = SubSeq(s, 1, n)
<1>1. 0 \in Nat /\ 0 <= k /\ 0 + 1 = 1
  OBVIOUS
<1>2. SubSeq(s, 0 + 1, k) \o SubSeq(s, k + 1, n) = SubSeq(s, 0 + 1, n)
  BY <1>1, Adjacent
<1> QED
  BY <1>1, <1>2

(* A start and its rest are the whole. *)
LEMMA Rejoined ==
  ASSUME NEW s \in Data, NEW n \in Nat, n <= Len(s)
  PROVE  SubSeq(s, 1, n) \o SubSeq(s, n + 1, Len(s)) = s
<1>1. Len(s) \in Nat /\ Len(s) <= Len(s)
  BY DataLen
<1>2. SubSeq(s, 1, n) \o SubSeq(s, n + 1, Len(s)) = SubSeq(s, 1, Len(s))
  BY <1>1, Adjacent1
<1> QED
  BY <1>2, Ends

(* What a concatenation consists of. *)
LEMMA JoinsAgree ==
  ASSUME NEW a \in Data, NEW b \in Data, NEW c \in Data, NEW d \in Data,
         NEW q, IsJoin(q, a, b), IsJoin(q, c, d), Len(a) = Len(c)
  PROVE  a = c /\ b = d
<1>1. PICK m \in Nat : m = Len(a)
  BY DataLen
<1>2. PICK n \in Nat : n = Len(b)
  BY DataLen
<1>3. PICK k \in Nat : k = Len(d)
  BY DataLen
<1>5. /\ Len(q) = m + n /\ \A i \in 1..m : q[i] = a[i]
      /\ \A i \in 1..n : q[m + i] = b[i]
  BY <1>1, <1>2 DEF IsJoin
<1>6. m = Len(c)
  BY <1>1
<1>7. /\ Len(q) = m + k /\ \A i \in 1..m : q[i] = c[i]
      /\ \A i \in 1..k : q[m + i] = d[i]
  BY <1>3, <1>6 DEF IsJoin
<1>8. n = k
  BY <1>5, <1>7
<1>9. \A i \in 1..m : a[i] = c[i]
  BY <1>5, <1>7
<1>10. a = c
  BY <1>1, <1>6, <1>9, Same
<1>11. \A i \in 1..n : b[i] = d[i]
  BY <1>5, <1>7, <1>8
<1>12. n = Len(d)
  BY <1>3, <1>8
<1>13. b = d
  BY <1>2, <1>11, <1>12, Same
<1> QED
  BY <1>10, <1>13

(* Equal concatenations with starts of one length have equal parts. *)
LEMMA Cancel ==
  ASSUME NEW a \in Data, NEW b \in Data, NEW c \in Data, NEW d \in Data,
         Len(a) = Len(c), a \o b = c \o d
  PROVE  a = c /\ b = d
<1>1. IsJoin(a \o b, a, b) /\ IsJoin(c \o d, c, d)
  BY Joined, Zenon
<1> QED
  BY <1>1, JoinsAgree, Zenon

(* Where a concatenation is cut. *)
IsCut(q, a, b) ==
    /\ q \in Data /\ Len(q) = Len(a) + Len(b)
    /\ SubSeq(q, 1, Len(a)) = a /\ SubSeq(q, Len(a) + 1, Len(q)) = b

(* A concatenation can be cut where it was made. *)
LEMMA JoinedParts ==
  ASSUME NEW a \in Data, NEW b \in Data
  PROVE  IsCut(a \o b, a, b)
<1>1. PICK q : q = a \o b
  OBVIOUS
<1>2. PICK m \in Nat : m = Len(a)
  BY DataLen
<1>3. q \in Data /\ Len(q) = Len(a) + Len(b)
  BY <1>1, JoinedType
<1>4. m <= Len(q)
  <2>1. Len(b) \in Nat
    BY DataLen
  <2> QED
    BY <1>2, <1>3, <2>1
<1>5. PICK c : c = SubSeq(q, 1, m)
  OBVIOUS
<1>6. PICK d : d = SubSeq(q, m + 1, Len(q))
  OBVIOUS
<1>7. c \o d = q
  BY <1>3, <1>4, <1>5, <1>6, Rejoined
<1>8. c \in Data /\ Len(c) = m
  BY <1>3, <1>4, <1>5, Head1
<1>9. d \in Data
  BY <1>3, <1>4, <1>6, Rest
<1>10. Len(a) = Len(c) /\ a \o b = c \o d
  BY <1>1, <1>2, <1>7, <1>8, Zenon
<1>11. a = c /\ b = d
  BY <1>8, <1>9, <1>10, Cancel, Zenon
<1>12. SubSeq(q, 1, Len(a)) = a /\ SubSeq(q, Len(a) + 1, Len(q)) = b
  BY <1>2, <1>5, <1>6, <1>11, Zenon
<1> QED
  BY <1>1, <1>3, <1>12, Zenon DEF IsCut

(* A part of the rest. *)
LEMMA PartOfRest ==
  ASSUME NEW s \in Data, NEW n \in Nat, n <= Len(s), NEW k \in Nat, n + k <= Len(s),
         NEW r, r = SubSeq(s, n + 1, Len(s))
  PROVE  /\ SubSeq(r, 1, k) = SubSeq(s, n + 1, n + k)
         /\ SubSeq(r, k + 1, Len(r)) = SubSeq(s, (n + k) + 1, Len(s))
<1>1. PICK c : c = SubSeq(s, n + 1, n + k)
  OBVIOUS
<1>2. PICK d : d = SubSeq(s, (n + k) + 1, Len(s))
  OBVIOUS
<1>3. n + k \in Nat /\ n <= n + k /\ (n + k) - n = k
  OBVIOUS
<1>4. c \in Data /\ Len(c) = (n + k) - n
  BY <1>1, <1>3, Part
<1>5. d \in Data
  BY <1>2, <1>3, Rest
<1>6. Len(s) \in Nat /\ Len(s) <= Len(s)
  BY DataLen
<1>7. c \o d = r
  BY <1>1, <1>2, <1>3, <1>6, Adjacent
<1>8. IsCut(c \o d, c, d)
  BY <1>4, <1>5, JoinedParts, Zenon
<1>9. SubSeq(r, 1, Len(c)) = c /\ SubSeq(r, Len(c) + 1, Len(r)) = d
  BY <1>7, <1>8, Zenon DEF IsCut
<1>10. Len(c) = k
  BY <1>3, <1>4
<1> QED
  BY <1>1, <1>2, <1>9, <1>10, Zenon

-----------------------------------------------------------------------------
(* Units, codes and end marks. *)
LEMMA PlainIs ==
  ASSUME NEW u \in PlainUnit
  PROVE  u.v \in [1..1 -> Nat] /\ u.k = "plain" /\ u = [k |-> "plain", v |-> u.v]
BY DEF PlainUnit

(* What the code of a plain unit is. *)
LEMMA CodeIs ==
  ASSUME NEW u \in PlainUnit
  PROVE  Code(u) \in Unit /\ Code(u).k = "code" /\ Code(u).v = u.v /\ Code(u) # Noise
BY PlainIs DEF Code, Unit, Noise

(* A code is the code of some plain unit. *)
LEMMA CodeOf ==
  ASSUME NEW u \in Unit, u.k = "code", NEW p, p = [k |-> "plain", v |-> u.v]
  PROVE  p \in PlainUnit /\ Code(p) = u
BY DEF Code, Unit, PlainUnit

(* Different units have different codes. *)
LEMMA CodeInjective ==
  ASSUME NEW u \in PlainUnit, NEW w \in PlainUnit, Code(u) = Code(w)
  PROVE  u = w
<1>1. u.v = w.v
  BY CodeIs
<1> QED
  BY <1>1, PlainIs

(* What an end mark is. *)
LEMMA EndIs ==
  ASSUME NEW s \in Text
  PROVE  End(s) \in Unit /\ End(s).k = "end" /\ End(s) # Noise
<1>1. Len(s) \in Nat
  BY DEF Text
<1>2. \A i \in 1..Len(s) : s[i].v[1] \in Nat
  <2>1. ASSUME NEW i \in 1..Len(s) PROVE s[i].v[1] \in Nat
    <3>1. s[i] \in PlainUnit
      BY TextData
    <3>2. s[i].v \in [1..1 -> Nat]
      BY <3>1, PlainIs
    <3> QED
      BY <3>2
  <2> QED
    BY <2>1
<1>3. [i \in 1..Len(s) |-> s[i].v[1]] \in Seq(Nat)
  BY <1>1, <1>2, IsASeq
<1>4. PICK x : x = [i \in 1..Len(s) |-> s[i].v[1]]
  OBVIOUS
<1>5. End(s) = [k |-> "end", v |-> x]
  BY <1>4 DEF End
<1>6. x \in Seq(Nat)
  BY <1>3, <1>4
<1> QED
  BY <1>5, <1>6 DEF Unit, Noise

IsCoded(c, s) ==
    /\ c \in Data /\ Len(c) = Len(s)
    /\ \A i \in 1..Len(s) : c[i] = Code(s[i])

(* Codes, unit by unit. *)
LEMMA Coded ==
  ASSUME NEW s \in Text
  PROVE  IsCoded(Codes(s), s)
<1>1. Len(s) \in Nat /\ \A i \in 1..Len(s) : s[i] \in PlainUnit
  BY TextData DEF Text
<1>2. \A i \in 1..Len(s) : Code(s[i]) \in Unit
  BY <1>1, CodeIs
<1>3. [i \in 1..Len(s) |-> Code(s[i])] \in Seq(Unit)
  BY <1>1, <1>2, IsASeq
<1>4. Codes(s) \in Data
  BY <1>3 DEF Codes, Data
<1>5. Len(Codes(s)) = Len(s)
  BY <1>1 DEF Codes
<1>6. \A i \in 1..Len(s) : Codes(s)[i] = Code(s[i])
  BY DEF Codes
<1> QED
  BY <1>4, <1>5, <1>6 DEF IsCoded

(* A sequence is coded from one text at most. *)
LEMMA CodedSame ==
  ASSUME NEW c, NEW s \in Text, NEW t \in Text, IsCoded(c, s), IsCoded(c, t)
  PROVE  s = t
<1>1. PICK n \in Nat : n = Len(s)
  BY DEF Text
<1>2. n = Len(t)
  BY <1>1 DEF IsCoded
<1>3. \A i \in 1..n : s[i] = t[i]
  <2>1. ASSUME NEW i \in 1..n PROVE s[i] = t[i]
    <3>1. s[i] \in PlainUnit /\ t[i] \in PlainUnit
      BY <1>1, <1>2, TextData
    <3>2. Code(s[i]) = Code(t[i])
      BY <1>1, <1>2 DEF IsCoded
    <3> QED
      BY <3>1, <3>2, CodeInjective
  <2> QED
    BY <2>1
<1>4. s \in Data /\ t \in Data
  BY TextData
<1> QED
  BY <1>1, <1>2, <1>3, <1>4, Same

(* Different texts have different codes. *)
LEMMA CodesInjective ==
  ASSUME NEW s \in Text, NEW t \in Text, Codes(s) = Codes(t)
  PROVE  s = t
BY Coded, CodedSame, Zenon

(* A coded sequence is the sequence of codes. *)
LEMMA CodedIs ==
  ASSUME NEW s \in Text, NEW c, IsCoded(c, s)
  PROVE  c = Codes(s)
<1>1. PICK d : d = Codes(s)
  OBVIOUS
<1>2. IsCoded(d, s)
  BY <1>1, Coded
<1>3. PICK n \in Nat : n = Len(s)
  BY DEF Text
<1>4. c \in Data /\ d \in Data /\ n = Len(c) /\ n = Len(d) /\ \A i \in 1..n : c[i] = d[i]
  BY <1>2, <1>3 DEF IsCoded
<1>5. c = d
  BY <1>4, Same
<1> QED
  BY <1>1, <1>5

(* Plain undoes Codes. *)
LEMMA PlainIsCoded ==
  ASSUME NEW c \in Data, \A i \in 1..Len(c) : c[i].k = "code"
  PROVE  Plain(c) \in Text /\ Len(Plain(c)) = Len(c) /\ Codes(Plain(c)) = c
<1>1. Len(c) \in Nat /\ \A i \in 1..Len(c) : c[i] \in Unit
  BY DataLen
<1>2. PICK s : s = Plain(c)
  OBVIOUS
<1>3. /\ s = [i \in 1..Len(c) |-> [k |-> "plain", v |-> c[i].v]]
  BY <1>2 DEF Plain
<1>4. \A i \in 1..Len(c) : [k |-> "plain", v |-> c[i].v] \in PlainUnit
  BY <1>1, CodeOf
<1>5. s \in Seq(PlainUnit)
  BY <1>1, <1>3, <1>4, IsASeq
<1>6. Len(s) = Len(c)
  BY <1>1, <1>3
<1>7. ASSUME NEW i \in 1..Len(s) PROVE c[i] = Code(s[i])
  <2>1. s[i] = [k |-> "plain", v |-> c[i].v] /\ c[i] \in Unit /\ c[i].k = "code"
    BY <1>1, <1>3, <1>6
  <2> QED
    BY <2>1, CodeOf
<1>8. IsCoded(c, s)
  BY <1>6, <1>7 DEF IsCoded
<1>9. s \in Text
  BY <1>5 DEF Text
<1>10. Codes(s) = c
  BY <1>8, <1>9, CodedIs
<1> QED
  BY <1>2, <1>6, <1>9, <1>10

(* The codes of a concatenation. *)
LEMMA CodesJoin ==
  ASSUME NEW s \in Text, NEW t \in Text
  PROVE  s \o t \in Text /\ Codes(s \o t) = Codes(s) \o Codes(t)
<1>1. PICK q : q = s \o t
  OBVIOUS
<1>2. s \in Data /\ t \in Data
  BY TextData
<1>3. IsJoin(q, s, t)
  BY <1>1, <1>2, Joined, Zenon
<1>4. q \in Text
  BY <1>1 DEF Text
<1>5. PICK c : c = Codes(s)
  OBVIOUS
<1>6. PICK d : d = Codes(t)
  OBVIOUS
<1>7. IsCoded(c, s) /\ IsCoded(d, t)
  BY <1>5, <1>6, Coded
<1>8. PICK w : w = c \o d
  OBVIOUS
<1>9. IsJoin(w, c, d)
  BY <1>7, <1>8, Joined, Zenon DEF IsCoded
<1>10. PICK m \in Nat : m = Len(s)
  BY <1>2, DataLen
<1>11. PICK n \in Nat : n = Len(t)
  BY <1>2, DataLen
<1>12. m = Len(c) /\ n = Len(d)
  BY <1>7, <1>10, <1>11 DEF IsCoded
<1>13. Len(q) = m + n /\ Len(w) = m + n /\ w \in Data
  BY <1>3, <1>9, <1>10, <1>11, <1>12 DEF IsJoin
<1>14. ASSUME NEW i \in 1..(m + n) PROVE w[i] = Code(q[i])
  <2>1. CASE i <= m
    <3>1. i \in 1..m
      BY <2>1
    <3>2. q[i] = s[i] /\ w[i] = c[i] /\ c[i] = Code(s[i])
      BY <1>3, <1>7, <1>9, <1>10, <1>12, <3>1 DEF IsJoin, IsCoded
    <3> QED
      BY <3>2
  <2>2. CASE ~(i <= m)
    <3>1. PICK j \in 1..n : i = m + j
      <4>1. i - m \in 1..n /\ i = m + (i - m)
        BY <2>2
      <4> QED
        BY <4>1
    <3>2. q[m + j] = t[j] /\ w[m + j] = d[j] /\ d[j] = Code(t[j])
      BY <1>3, <1>7, <1>9, <1>10, <1>11, <1>12 DEF IsJoin, IsCoded
    <3> QED
      BY <3>1, <3>2
  <2> QED
    BY <2>1, <2>2
<1>15. IsCoded(w, q)
  BY <1>13, <1>14 DEF IsCoded
<1>16. w = Codes(q)
  BY <1>4, <1>15, CodedIs
<1> QED
  BY <1>1, <1>4, <1>5, <1>6, <1>8, <1>16, Zenon

(* A part of a text is a text. *)
LEMMA TextPart ==
  ASSUME NEW s \in Text, NEW m \in Nat, NEW n \in Nat, m <= n, n <= Len(s)
  PROVE  SubSeq(s, m + 1, n) \in Text
<1>1. s \in Data
  BY TextData
<1>2. PICK t : t = SubSeq(s, m + 1, n)
  OBVIOUS
<1>3. t \in Data /\ Len(t) = n - m /\ \A i \in 1..(n - m) : t[i] = s[m + i]
  BY <1>1, <1>2, Part, ZenonT(60)
<1>4. \A i \in 1..(n - m) : m + i \in 1..Len(s)
  BY <1>1, DataLen
<1>5. \A i \in 1..Len(t) : t[i] \in PlainUnit
  BY <1>3, <1>4, TextData
<1> QED
  BY <1>2, <1>3, <1>5, PlainText

(* So is its start. *)
LEMMA TextHead ==
  ASSUME NEW s \in Text, NEW n \in Nat, n <= Len(s)
  PROVE  SubSeq(s, 1, n) \in Text
<1>1. 0 \in Nat /\ 0 <= n /\ 0 + 1 = 1
  OBVIOUS
<1>2. SubSeq(s, 0 + 1, n) \in Text
  BY <1>1, TextPart
<1> QED
  BY <1>1, <1>2

(* The parts of a text are texts. *)
LEMMA TextJoin ==
  ASSUME NEW s \in Data, NEW t \in Data, s \o t \in Text
  PROVE  s \in Text /\ t \in Text
<1>1. PICK q : q = s \o t
  OBVIOUS
<1>2. q \in Text /\ IsCut(q, s, t)
  BY <1>1, JoinedParts, Zenon
<1>3. PICK m \in Nat : m = Len(s)
  BY DataLen
<1>4. PICK n \in Nat : n = Len(q)
  BY <1>2, TextData, DataLen
<1>5. m <= n /\ n <= Len(q) /\ s = SubSeq(q, 1, m) /\ t = SubSeq(q, m + 1, n)
  <2>1. Len(t) \in Nat
    BY DataLen
  <2> QED
    BY <1>2, <1>3, <1>4, <2>1 DEF IsCut
<1> QED
  BY <1>2, <1>5, TextHead, TextPart

-----------------------------------------------------------------------------
(* What a whole text is to zlib and bzip2. *)
Marked(s) == Codes(s) \o <<End(s)>>

IsMarked(w, s) ==
    /\ w \in Data /\ Len(w) = Len(s) + 1
    /\ \A i \in 1..Len(s) : w[i] = Code(s[i])
    /\ w[Len(s) + 1] = End(s)

(* A sequence of one unit. *)
LEMMA OneUnit ==
  ASSUME NEW u \in Unit
  PROVE  <<u>> \in Data /\ Len(<<u>>) = 1 /\ <<u>>[1] = u
BY DEF Data

(* A marked text, unit by unit. *)
LEMMA MarkedIs ==
  ASSUME NEW s \in Text
  PROVE  IsMarked(Marked(s), s) /\ Len(s) \in Nat /\ <<End(s)>> \in Data
<1>1. IsCoded(Codes(s), s)
  BY Coded
<1>2. PICK u \in Unit : u = End(s)
  BY EndIs
<1>3. PICK e \in Data : e = <<u>> /\ Len(e) = 1 /\ e[1] = u
  BY OneUnit
<1>4. PICK c \in Data : c = Codes(s)
  BY <1>1 DEF IsCoded
<1>5. PICK w : w = c \o e
  OBVIOUS
<1>6. IsJoin(w, c, e)
  BY <1>5, Joined, Zenon
<1>7. Len(s) \in Nat /\ Len(c) = Len(s)
  BY <1>1, <1>4 DEF IsCoded, Text
<1>8. w \in Data /\ Len(w) = Len(s) + 1
  BY <1>3, <1>6, <1>7 DEF IsJoin
<1>9. \A i \in 1..Len(s) : w[i] = Code(s[i])
  BY <1>1, <1>4, <1>6, <1>7 DEF IsJoin, IsCoded
<1>10. w[Len(s) + 1] = End(s)
  <2>1. 1 \in 1..Len(e)
    BY <1>3
  <2>2. w[Len(c) + 1] = e[1]
    BY <1>6, <2>1 DEF IsJoin
  <2> QED
    BY <1>2, <1>3, <1>7, <2>2
<1>11. w = Marked(s)
  BY <1>2, <1>3, <1>4, <1>5 DEF Marked
<1>12. <<End(s)>> \in Data
  BY <1>2, <1>3
<1> QED
  BY <1>7, <1>8, <1>9, <1>10, <1>11, <1>12 DEF IsMarked

(* A code is no end mark. *)
LEMMA CodeNotEnd ==
  ASSUME NEW s \in Text, NEW u \in PlainUnit
  PROVE  Code(u) # End(s)
<1>1. Code(u).k = "code" /\ End(s).k = "end"
  BY CodeIs, EndIs
<1> QED
  BY <1>1

(* Damage that left the end mark in its place left everything. *)
Stems(c, w) ==
    \A i \in 1..Len(c) : c[i] = Noise \/ (i <= Len(w) /\ c[i] = w[i])

(* A marked text that is left after damage is the one that was stored. *)
LEMMA WholeStem ==
  ASSUME NEW s \in Text, NEW b \in Text, NEW w, NEW x, IsMarked(w, s), IsMarked(x, b),
         Stems(w, x)
  PROVE  s = b
<1>1. PICK m \in Nat : m = Len(s)
  BY DEF Text
<1>2. PICK n \in Nat : n = Len(b)
  BY DEF Text
<1>3. /\ Len(w) = m + 1 /\ Len(x) = n + 1
      /\ w[m + 1] = End(s) /\ x[n + 1] = End(b)
      /\ \A i \in 1..m : w[i] = Code(s[i])
      /\ \A i \in 1..n : x[i] = Code(b[i])
  BY <1>1, <1>2 DEF IsMarked
<1>4. \A i \in 1..m : s[i] \in PlainUnit
  BY <1>1, TextData
<1>5. \A i \in 1..n : b[i] \in PlainUnit
  BY <1>2, TextData
<1>6. m = n
  <2>1. End(s) # Noise
    BY EndIs
  <2>2. m + 1 \in 1..Len(w)
    BY <1>3
  <2>3. m + 1 <= n + 1 /\ x[m + 1] = End(s)
    BY <1>3, <2>1, <2>2 DEF Stems
  <2>4. ~(m + 1 <= n)
    <3> SUFFICES ASSUME m + 1 <= n PROVE FALSE
      OBVIOUS
    <3>1. m + 1 \in 1..n
      OBVIOUS
    <3>2. x[m + 1] = Code(b[m + 1]) /\ b[m + 1] \in PlainUnit
      BY <1>3, <1>5, <3>1
    <3> QED
      BY <2>3, <3>2, CodeNotEnd
  <2> QED
    BY <2>3, <2>4
<1>7. ASSUME NEW i \in 1..m PROVE s[i] = b[i]
  <2>1. i \in 1..Len(w) /\ i \in 1..n
    BY <1>3, <1>6
  <2>2. w[i] = Code(s[i]) /\ x[i] = Code(b[i]) /\ s[i] \in PlainUnit /\ b[i] \in PlainUnit
    BY <1>3, <1>4, <1>5, <2>1
  <2>3. w[i] # Noise
    BY <2>2, CodeIs
  <2>4. Code(s[i]) = Code(b[i])
    BY <2>1, <2>2, <2>3 DEF Stems
  <2> QED
    BY <2>2, <2>4, CodeInjective
<1>8. s \in Data /\ b \in Data
  BY TextData
<1>9. m = Len(b)
  BY <1>2, <1>6
<1> QED
  BY <1>1, <1>7, <1>8, <1>9, Same

(* Different texts are marked differently. *)
LEMMA MarkedInjective ==
  ASSUME NEW s \in Text, NEW b \in Text, Marked(s) = Marked(b)
  PROVE  s = b
<1>1. PICK w : w = Marked(s) /\ w = Marked(b)
  OBVIOUS
<1>2. IsMarked(w, s) /\ IsMarked(w, b)
  BY <1>1, MarkedIs
<1>3. Stems(w, w)
  BY <1>2 DEF Stems, IsMarked
<1> QED
  BY <1>2, <1>3, WholeStem

(* Codes at the start of a marked text are those of its start. *)
LEMMA CodesInMarked ==
  ASSUME NEW s \in Text, NEW o \in Text, NEW r \in Data, Marked(s) = Codes(o) \o r
  PROVE  Len(o) <= Len(s) /\ o = SubSeq(s, 1, Len(o))
<1>1. PICK w : w = Marked(s)
  OBVIOUS
<1>2. IsMarked(w, s)
  BY <1>1, MarkedIs
<1>3. PICK c : c = Codes(o)
  OBVIOUS
<1>4. IsCoded(c, o)
  BY <1>3, Coded
<1>5. w = c \o r
  BY <1>1, <1>3
<1>6. c \in Data
  BY <1>4 DEF IsCoded
<1>7. IsJoin(w, c, r)
  BY <1>5, <1>6, Joined, Zenon
<1>8. PICK m \in Nat : m = Len(s)
  BY DEF Text
<1>9. PICK n \in Nat : n = Len(o)
  BY DEF Text
<1>10. n = Len(c)
  BY <1>4, <1>9 DEF IsCoded
<1>11. \A i \in 1..n : w[i] = Code(o[i]) /\ o[i] \in PlainUnit
  BY <1>4, <1>7, <1>9, <1>10, TextData DEF IsJoin, IsCoded
<1>12. n <= m + 1
  <2>1. Len(w) = m + 1
    BY <1>2, <1>8 DEF IsMarked
  <2>2. Len(w) = n + Len(r) /\ Len(r) \in Nat
    BY <1>7, <1>10, DataLen DEF IsJoin
  <2> QED
    BY <2>1, <2>2
<1>13. n # m + 1
  <2> SUFFICES ASSUME n = m + 1 PROVE FALSE
    OBVIOUS
  <2>1. m + 1 \in 1..n
    OBVIOUS
  <2>2. w[m + 1] = End(s)
    BY <1>2, <1>8 DEF IsMarked
  <2> QED
    BY <1>11, <2>1, <2>2, CodeNotEnd
<1>14. n <= m
  BY <1>12, <1>13
<1>15. PICK t : t = SubSeq(s, 1, n)
  OBVIOUS
<1>16. s \in Data /\ o \in Data
  BY TextData
<1>17. n <= Len(s)
  BY <1>8, <1>14
<1>18. t \in Data /\ Len(t) = n /\ \A i \in 1..n : t[i] = s[i]
  BY <1>15, <1>16, <1>17, Head1, ZenonT(60)
<1>19. ASSUME NEW i \in 1..n PROVE o[i] = t[i]
  <2>1. i \in 1..m
    BY <1>14
  <2>2. w[i] = Code(s[i]) /\ s[i] \in PlainUnit
    BY <1>2, <1>8, <2>1, TextData DEF IsMarked
  <2>3. s[i] = o[i]
    BY <1>11, <2>2, CodeInjective
  <2> QED
    BY <1>18, <2>3
<1>20. o = t
  BY <1>9, <1>16, <1>18, <1>19, Same
<1> QED
  BY <1>9, <1>15, <1>17, <1>20

-----------------------------------------------------------------------------
(* Arithmetic of chunks. *)
LEMMA Sizes3 == InputSize \in Nat /\ InputSize >= 3 /\ Header = 2
BY FilterAssumption

(* A header counts for at least a unit per size, and for no more than a    *)
(* chunk has.                                                              *)
LEMMA HeaderCost == HeaderSize \in Nat /\ HeaderSize >= 2 /\ HeaderSize <= InputSize
BY FilterAssumption

(* Division with remainder. *)
LEMMA Quotient ==
  ASSUME NEW a \in Int, NEW b \in Nat \ {0}
  PROVE  a \div b \in Int /\ a = b * (a \div b) + (a % b) /\ a % b \in 0..(b - 1)
OBVIOUS

(* Its quotient is unique. *)
LEMMA QuotientUnique ==
  ASSUME NEW b \in Nat \ {0}, NEW t \in Int, NEW q \in Int,
         NEW e \in 0..(b - 1), NEW f \in 0..(b - 1), b * q + f = b * t + e
  PROVE  q = t
<1>1. b * (q - t) = e - f /\ e - f < b /\ f - e < b
  OBVIOUS
<1>2. PICK d \in Int : d = q - t
  OBVIOUS
<1>3. b * d < b /\ -b < b * d
  BY <1>1, <1>2
<1>4. d < 1
  BY <1>3
<1>5. d > -1
  BY <1>3
<1> QED
  BY <1>2, <1>4, <1>5

(* The number of chunks of a text of t * InputSize + c units. *)
LEMMA ChunkCount ==
  ASSUME NEW t \in Nat, NEW c \in 0..InputSize
  PROVE  (t * InputSize + c + InputSize - 1) \div InputSize = IF c = 0 THEN t ELSE t + 1
<1>1. PICK a \in Int : a = t * InputSize + c + InputSize - 1
  BY Sizes3
<1>2. InputSize \in Nat \ {0}
  BY Sizes3
<1>3. /\ a \div InputSize \in Int /\ a % InputSize \in 0..(InputSize - 1)
      /\ InputSize * (a \div InputSize) + (a % InputSize) = a
  BY <1>2, Quotient
<1>4. CASE c = 0
  <2>1. InputSize - 1 \in 0..(InputSize - 1) /\ a = InputSize * t + (InputSize - 1)
    BY <1>1, <1>2, <1>4
  <2>2. a \div InputSize = t
    BY <1>2, <1>3, <2>1, QuotientUnique
  <2> QED
    BY <1>1, <1>4, <2>2
<1>5. CASE c # 0
  <2>1. c - 1 \in 0..(InputSize - 1) /\ t + 1 \in Int
    BY <1>2, <1>5
  <2>2. a = InputSize * (t + 1) + (c - 1)
    BY <1>1, <1>2
  <2>3. a \div InputSize = t + 1
    BY <1>2, <1>3, <2>1, <2>2, QuotientUnique
  <2> QED
    BY <1>1, <1>5, <2>3
<1> QED
  BY <1>4, <1>5

Multiple(n) == \E j \in Nat : n = j * InputSize

(* Multiples of the buffer size go on. *)
LEMMA MultipleNext ==
  ASSUME NEW n \in Nat, Multiple(n)
  PROVE  Multiple(n + InputSize) /\ Multiple(0)
<1>1. PICK j \in Nat : n = j * InputSize
  BY DEF Multiple
<1>2. j + 1 \in Nat /\ n + InputSize = (j + 1) * InputSize
  BY <1>1, Sizes3
<1>3. 0 \in Nat /\ 0 = 0 * InputSize
  BY Sizes3
<1> QED
  BY <1>2, <1>3 DEF Multiple

-----------------------------------------------------------------------------
(* The LZO image, chunk by chunk. *)
Lzo(s) == Image("lzo", s, InputSize)

(* What one chunk looks like: two sizes and the codes. *)
LEMMA ChunkIs ==
  ASSUME NEW s \in Text
  PROVE  /\ Chunk(s) \in Data /\ Len(Chunk(s)) = Len(s) + 2
         /\ Chunk(s) = <<Size(Len(s)), Size(Len(s))>> \o Codes(s)
         /\ <<Size(Len(s)), Size(Len(s))>> \in Data /\ Codes(s) \in Data
         /\ Len(<<Size(Len(s)), Size(Len(s))>>) = 2
<1>1. PICK u : u = Size(Len(s))
  OBVIOUS
<1>2. Len(s) \in Nat
  BY TextData, DataLen
<1>3. u \in Unit
  BY <1>1, <1>2 DEF Size, Unit
<1>4. PICK h : h = <<u, u>>
  OBVIOUS
<1>5. h \in Data /\ Len(h) = 2
  BY <1>3, <1>4 DEF Data
<1>6. Codes(s) \in Data /\ Len(Codes(s)) = Len(s)
  BY Coded DEF IsCoded
<1>7. PICK c \in Data : c = Codes(s)
  BY <1>6
<1>8. h \o c \in Data /\ Len(h \o c) = 2 + Len(s)
  BY <1>5, <1>6, <1>7, JoinedType
<1>9. Chunk(s) = h \o c
  BY <1>1, <1>4, <1>7 DEF Chunk
<1>10. Len(s) + 2 = 2 + Len(s)
  BY <1>2
<1> QED
  BY <1>1, <1>4, <1>5, <1>6, <1>7, <1>8, <1>9, <1>10

Chain(f, s, n) ==
    f = [i \in 0..n |-> IF i = 0 THEN <<>>
                        ELSE f[i - 1] \o Chunk(ChunkAt(s, i - 1, InputSize))]

(* The chunks of a text can be put together one after the other. *)
LEMMA ChainExists ==
  ASSUME NEW s
  PROVE  \A n \in Nat : \E f : Chain(f, s, n)
<1> DEFINE add(x, i) == x \o Chunk(ChunkAt(s, i - 1, InputSize))
           Up(f, n) == f = [i \in 0..n |-> IF i = 0 THEN <<>> ELSE add(f[i - 1], i)]
           S == {n \in Nat : \E f : Up(f, n)}
<1> HIDE DEF add
<1>1. 0 \in S
  <2> DEFINE f == [i \in 0..0 |-> <<>>]
  <2>1. Up(f, 0)
    OBVIOUS
  <2> QED
    BY <2>1
<1>2. ASSUME NEW n \in Nat, n \in S PROVE n + 1 \in S
  <2>1. PICK f : Up(f, n)
    BY <1>2
  <2> DEFINE g == [i \in 0..(n + 1) |-> IF i = n + 1 THEN add(f[n], n + 1) ELSE f[i]]
  <2>2. \A i \in 0..(n + 1) : g[i] = IF i = 0 THEN <<>> ELSE add(g[i - 1], i)
    BY <2>1
  <2>3. g = [i \in 0..(n + 1) |-> IF i = 0 THEN <<>> ELSE add(g[i - 1], i)]
    BY <2>2
  <2> HIDE DEF g
  <2>4. Up(g, n + 1)
    BY <2>3
  <2> QED
    BY <2>4
<1> HIDE DEF S
<1>3. \A n \in Nat : n \in S
  BY <1>1, <1>2, NatSetInduction
<1>4. ASSUME NEW n \in Nat PROVE \E f : Chain(f, s, n)
  <2>1. PICK f : Up(f, n)
    BY <1>3 DEF S
  <2>2. Chain(f, s, n)
    BY <2>1 DEF Chain, add
  <2> QED
    BY <2>2
<1> QED
  BY <1>4

(* Each link adds a chunk. *)
LEMMA ChainStep ==
  ASSUME NEW f, NEW s, NEW n \in Nat, Chain(f, s, n)
  PROVE  /\ f[0] = <<>>
         /\ \A i \in 0..(n - 1) : f[i + 1] = f[i] \o Chunk(ChunkAt(s, i, InputSize))
<1> DEFINE step(x, i) == x \o Chunk(ChunkAt(s, i, InputSize))
<1>1. f = [i \in 0..n |-> IF i = 0 THEN <<>> ELSE step(f[i - 1], i - 1)]
  BY DEF Chain
<1> HIDE DEF step
<1>2. f[0] = <<>>
  BY <1>1
<1>3. ASSUME NEW i \in 0..(n - 1) PROVE f[i + 1] = step(f[i], i)
  <2>1. i + 1 \in 0..n /\ i + 1 # 0 /\ (i + 1) - 1 = i
    OBVIOUS
  <2>2. f[i + 1] = step(f[(i + 1) - 1], (i + 1) - 1)
    BY <1>1, <2>1
  <2> QED
    BY <2>1, <2>2
<1> QED
  BY <1>2, <1>3 DEF step

(* The image of a text is the last link of its chain. *)
LEMMA LzoIs ==
  ASSUME NEW s \in Text, NEW n \in Nat, n = (Len(s) + InputSize - 1) \div InputSize
  PROVE  \E f : Chain(f, s, n) /\ Lzo(s) = f[n]
<1> DEFINE g == CHOOSE f : Chain(f, s, n)
<1>1. Chain(g, s, n)
  BY ChainExists
<1>2. Lzo(s) = g[n]
  BY DEF Lzo, Image, Chain
<1> QED
  BY <1>1, <1>2

(* A part of the first of two joined sequences. *)
LEMMA PartOfFirst ==
  ASSUME NEW s \in Data, NEW t \in Data, NEW m \in Nat, NEW n \in Nat, m <= n, n <= Len(s)
  PROVE  SubSeq(s \o t, m + 1, n) = SubSeq(s, m + 1, n)
<1>1. PICK q : q = s \o t
  OBVIOUS
<1>2. IsJoin(q, s, t)
  BY <1>1, Joined, Zenon
<1>3. q \in Data /\ n <= Len(q) /\ \A i \in 1..Len(s) : q[i] = s[i]
  <2>1. Len(t) \in Nat /\ Len(s) \in Nat
    BY DataLen
  <2>2. q \in Data /\ Len(q) = Len(s) + Len(t) /\ \A i \in 1..Len(s) : q[i] = s[i]
    BY <1>2 DEF IsJoin
  <2> QED
    BY <2>1, <2>2
<1>4. PICK a : a = SubSeq(q, m + 1, n)
  OBVIOUS
<1>5. PICK b : b = SubSeq(s, m + 1, n)
  OBVIOUS
<1>6. a \in Data /\ Len(a) = n - m /\ \A i \in 1..(n - m) : a[i] = q[m + i]
  <2>1. IsPart(SubSeq(q, m + 1, n), q, m, n)
    BY <1>3, PartIs, Zenon
  <2> QED
    BY <1>4, <2>1 DEF IsPart
<1>7. b \in Data /\ Len(b) = n - m /\ \A i \in 1..(n - m) : b[i] = s[m + i]
  <2>1. IsPart(SubSeq(s, m + 1, n), s, m, n)
    BY PartIs, Zenon
  <2> QED
    BY <1>5, <2>1 DEF IsPart
<1>8. \A i \in 1..(n - m) : m + i \in 1..Len(s)
  BY DataLen
<1>9. \A i \in 1..(n - m) : a[i] = b[i]
  BY <1>3, <1>6, <1>7, <1>8
<1>10. n - m \in Nat
  OBVIOUS
<1>11. a = b
  BY <1>6, <1>7, <1>9, <1>10, Same
<1> QED
  BY <1>1, <1>4, <1>5, <1>11

(* A chunk's input is a text. *)
LEMMA ChunkText ==
  ASSUME NEW s \in Text, NEW i \in Nat
  PROVE  ChunkAt(s, i, InputSize) \in Text
<1>1. PICK a \in Nat : a = i * InputSize
  BY Sizes3
<1>2. PICK b \in Nat : b = (i + 1) * InputSize
  <2>1. i + 1 \in Nat
    OBVIOUS
  <2> QED
    BY <2>1, Sizes3
<1>3. PICK m \in Nat : m = Len(s)
  BY TextData, DataLen
<1>4. PICK n \in Nat : n = Least(b, m) /\ n <= m
  BY DEF Least
<1>5. ChunkAt(s, i, InputSize) = SubSeq(s, a + 1, n)
  BY <1>1, <1>2, <1>3, <1>4 DEF ChunkAt
<1>6. CASE a <= n
  BY <1>3, <1>4, <1>5, <1>6, TextPart
<1>7. CASE ~(a <= n)
  <2>1. n < a + 1 /\ a + 1 \in Int /\ n \in Int
    BY <1>7
  <2>2. SubSeq(s, a + 1, n) = <<>>
    BY <2>1, SubSeqEmpty
  <2> QED
    BY <1>5, <2>2, Nothing
<1> QED
  BY <1>6, <1>7

(* The links are data. *)
LEMMA ChainType ==
  ASSUME NEW s \in Text, NEW n \in Nat, NEW f, Chain(f, s, n)
  PROVE  f[n] \in Data
<1> DEFINE S == {i \in Nat : i <= n => f[i] \in Data}
<1>1. 0 \in S
  BY ChainStep, Nothing
<1>2. ASSUME NEW i \in Nat, i \in S PROVE i + 1 \in S
  <2> SUFFICES ASSUME i + 1 <= n PROVE f[i + 1] \in Data
    OBVIOUS
  <2>1. i \in 0..(n - 1) /\ i <= n
    OBVIOUS
  <2>2. f[i] \in Data
    BY <1>2, <2>1
  <2>3. PICK c : c = Chunk(ChunkAt(s, i, InputSize))
    OBVIOUS
  <2>4. c \in Data
    BY <2>3, ChunkText, ChunkIs
  <2>5. f[i + 1] = f[i] \o c
    BY <2>1, <2>3, ChainStep
  <2> QED
    BY <2>2, <2>4, <2>5, JoinedType
<1> HIDE DEF S
<1>3. \A i \in Nat : i \in S
  BY <1>1, <1>2, NatSetInduction
<1> QED
  BY <1>3 DEF S

(* The image of a text is data. *)
LEMMA LzoType ==
  ASSUME NEW s \in Text
  PROVE  Lzo(s) \in Data
<1>1. PICK a \in Nat : a = Len(s) + InputSize - 1
  <2>1. Len(s) \in Nat
    BY TextData, DataLen
  <2> QED
    BY <2>1, Sizes3
<1>2. PICK q \in Int : q = a \div InputSize /\ a = InputSize * q + (a % InputSize)
                       /\ a % InputSize \in 0..(InputSize - 1)
  <2>1. InputSize \in Nat \ {0}
    BY Sizes3
  <2>2. /\ a \div InputSize \in Int /\ a = InputSize * (a \div InputSize) + (a % InputSize)
        /\ a % InputSize \in 0..(InputSize - 1)
    BY <2>1, Quotient
  <2> QED
    BY <2>2, Zenon
<1>3. q \in Nat
  <2> SUFFICES ASSUME q <= -1 PROVE FALSE
    OBVIOUS
  <2>1. PICK e \in 0..(InputSize - 1) : a = InputSize * q + e
    BY <1>2
  <2>2. PICK d \in Nat : q = -1 - d
    <3>1. -1 - q \in Nat /\ q = -1 - (-1 - q)
      OBVIOUS
    <3> QED
      BY <3>1
  <2>3. PICK x \in Nat : x = InputSize * d
    BY Sizes3
  <2>4. InputSize * q = -InputSize - x
    BY <2>2, <2>3, Sizes3
  <2> QED
    BY <2>1, <2>3, <2>4, Sizes3
<1>4. PICK f : Chain(f, s, q) /\ Lzo(s) = f[q]
  BY <1>1, <1>2, <1>3, LzoIs
<1> QED
  BY <1>3, <1>4, ChainType

(* The image of nothing is empty. *)
LEMMA LzoEmpty == Lzo(<<>>) = <<>>
<1>1. 0 * InputSize + 0 + InputSize - 1 = Len(<<>>) + InputSize - 1 /\ 0 \in 0..InputSize
  BY Sizes3
<1>2. (Len(<<>>) + InputSize - 1) \div InputSize = 0
  BY <1>1, ChunkCount
<1>3. PICK f : Chain(f, <<>>, 0) /\ Lzo(<<>>) = f[0]
  BY <1>2, Nothing, LzoIs
<1> QED
  BY <1>3, ChainStep

(* The chunks of the first of two joined texts. *)
LEMMA ChunkOfFirst ==
  ASSUME NEW s \in Text, NEW c \in Text, NEW t \in Nat, Len(s) = t * InputSize,
         NEW i \in 0..(t - 1)
  PROVE  ChunkAt(s \o c, i, InputSize) = ChunkAt(s, i, InputSize)
<1>1. PICK a \in Nat : a = i * InputSize
  BY Sizes3
<1>2. PICK b \in Nat : b = (i + 1) * InputSize /\ b = a + InputSize
  <2>1. i + 1 \in Nat /\ (i + 1) * InputSize = a + InputSize
    BY <1>1, Sizes3
  <2> QED
    BY <1>1, <2>1, Sizes3
<1>3. b <= Len(s)
  <2>1. PICK d \in Nat : t = (i + 1) + d
    <3>1. t - (i + 1) \in Nat /\ t = (i + 1) + (t - (i + 1))
      OBVIOUS
    <3> QED
      BY <3>1
  <2>2. PICK x \in Nat : x = d * InputSize
    BY Sizes3
  <2>3. t * InputSize = b + x
    BY <1>2, <2>1, <2>2, Sizes3
  <2> QED
    BY <2>2, <2>3
<1>4. s \in Data /\ c \in Data
  BY TextData
<1>5. PICK q : q = s \o c
  OBVIOUS
<1>6. b <= Len(q)
  <2>1. Len(q) = Len(s) + Len(c)
    BY <1>4, <1>5, JoinedType
  <2>2. Len(s) \in Nat /\ Len(c) \in Nat
    BY <1>4, DataLen
  <2> QED
    BY <1>3, <2>1, <2>2
<1>7. ChunkAt(s, i, InputSize) = SubSeq(s, a + 1, b)
  BY <1>1, <1>2, <1>3 DEF ChunkAt, Least
<1>8. ChunkAt(q, i, InputSize) = SubSeq(q, a + 1, b)
  BY <1>1, <1>2, <1>6 DEF ChunkAt, Least
<1>9. a <= b
  BY <1>2, Sizes3
<1>10. SubSeq(s \o c, a + 1, b) = SubSeq(s, a + 1, b)
  BY <1>3, <1>4, <1>9, PartOfFirst
<1> QED
  BY <1>5, <1>7, <1>8, <1>10

(* Chains of texts with a common start agree there. *)
LEMMA ChainsAgree ==
  ASSUME NEW s \in Text, NEW c \in Text, NEW t \in Nat, Len(s) = t * InputSize,
         NEW f, NEW g, Chain(f, s, t), Chain(g, s \o c, t + 1)
  PROVE  f[t] = g[t]
<1> DEFINE S == {i \in Nat : i <= t => f[i] = g[i]}
<1>0. t + 1 \in Nat
  OBVIOUS
<1>1. 0 \in S
  BY <1>0, ChainStep
<1>2. ASSUME NEW i \in Nat, i \in S PROVE i + 1 \in S
  <2> SUFFICES ASSUME i + 1 <= t PROVE f[i + 1] = g[i + 1]
    OBVIOUS
  <2>1. i \in 0..(t - 1) /\ i <= t /\ i \in 0..((t + 1) - 1)
    OBVIOUS
  <2>2. f[i] = g[i]
    BY <1>2, <2>1
  <2>3. f[i + 1] = f[i] \o Chunk(ChunkAt(s, i, InputSize))
    BY <2>1, ChainStep
  <2>4. g[i + 1] = g[i] \o Chunk(ChunkAt(s \o c, i, InputSize))
    BY <1>0, <2>1, ChainStep
  <2>5. ChunkAt(s \o c, i, InputSize) = ChunkAt(s, i, InputSize)
    BY <2>1, ChunkOfFirst
  <2> QED
    BY <2>2, <2>3, <2>4, <2>5, Zenon
<1> HIDE DEF S
<1>3. \A i \in Nat : i \in S
  BY <1>1, <1>2, NatSetInduction
<1> QED
  BY <1>3 DEF S

(* One more chunk: the text before it fills all of its chunks. *)
LEMMA LzoJoin ==
  ASSUME NEW s \in Text, NEW c \in Text, Multiple(Len(s)), Len(c) >= 1, Len(c) <= InputSize
  PROVE  Lzo(s \o c) = Lzo(s) \o Chunk(c)
<1>1. PICK t \in Nat : Len(s) = t * InputSize
  BY DEF Multiple
<1>2. PICK m \in Nat : m = Len(c)
  BY TextData, DataLen
<1>3. PICK a \in Nat : a = Len(s)
  BY TextData, DataLen
<1>4. s \in Data /\ c \in Data
  BY TextData
<1>5. PICK q : q = s \o c
  OBVIOUS
<1>6. q \in Text
  BY <1>5, CodesJoin
<1>7. Len(q) = a + m
  BY <1>2, <1>3, <1>4, <1>5, JoinedType
<1>8. (Len(s) + InputSize - 1) \div InputSize = t
  <2>1. 0 \in 0..InputSize
    BY Sizes3
  <2>2. (t * InputSize + 0 + InputSize - 1) \div InputSize = t
    BY <2>1, ChunkCount
  <2>3. t * InputSize + 0 + InputSize - 1 = Len(s) + InputSize - 1
    BY <1>1, <1>3
  <2> QED
    BY <2>2, <2>3
<1>9. (Len(q) + InputSize - 1) \div InputSize = t + 1
  <2>1. m \in 0..InputSize /\ m # 0
    BY <1>2, Sizes3
  <2>2. (t * InputSize + m + InputSize - 1) \div InputSize = t + 1
    BY <2>1, ChunkCount
  <2>3. t * InputSize + m + InputSize - 1 = Len(q) + InputSize - 1
    BY <1>1, <1>3, <1>7
  <2> QED
    BY <2>2, <2>3
<1>10. PICK f : Chain(f, s, t) /\ Lzo(s) = f[t]
  BY <1>8, LzoIs
<1>11. t + 1 \in Nat /\ t \in 0..((t + 1) - 1)
  OBVIOUS
<1>12. PICK g : Chain(g, q, t + 1) /\ Lzo(q) = g[t + 1]
  BY <1>6, <1>9, <1>11, LzoIs
<1>13. f[t] = g[t]
  BY <1>1, <1>5, <1>10, <1>12, ChainsAgree
<1>14. g[t + 1] = g[t] \o Chunk(ChunkAt(q, t, InputSize))
  BY <1>11, <1>12, ChainStep
<1>15. ChunkAt(q, t, InputSize) = c
  <2>1. (t + 1) * InputSize = a + InputSize
    BY <1>1, <1>3, Sizes3
  <2>2. Least((t + 1) * InputSize, Len(q)) = Len(q)
    BY <1>2, <1>7, <2>1, Sizes3 DEF Least
  <2>3. ChunkAt(q, t, InputSize) = SubSeq(q, Len(s) + 1, Len(q))
    BY <1>1, <2>2 DEF ChunkAt
  <2>4. IsCut(q, s, c)
    BY <1>4, <1>5, JoinedParts, Zenon
  <2> QED
    BY <2>3, <2>4 DEF IsCut
<1> QED
  BY <1>5, <1>10, <1>12, <1>13, <1>14, <1>15, Zenon

(* The chunk of m units behind the first n. *)
NextChunk(s, n, m) ==
    /\ m \in 1..InputSize /\ n + m <= Len(s)
    /\ Multiple(n + m) \/ n + m = Len(s)
    /\ m < InputSize => n + m = Len(s)
    /\ SubSeq(s, n + 1, n + m) \in Text /\ Len(SubSeq(s, n + 1, n + m)) = m
    /\ SubSeq(s, 1, n) \o SubSeq(s, n + 1, n + m) = SubSeq(s, 1, n + m)
    /\ Lzo(SubSeq(s, 1, n + m)) = Lzo(SubSeq(s, 1, n)) \o Chunk(SubSeq(s, n + 1, n + m))

(* What follows n units that were compressed. *)
LEMMA SomeChunk ==
  ASSUME NEW s \in Text, NEW n \in Nat, n < Len(s), Multiple(n),
         NEW m \in 1..InputSize, n + m <= Len(s), m < InputSize => n + m = Len(s)
  PROVE  NextChunk(s, n, m)
<1>1. s \in Data /\ Len(s) \in Nat
  BY TextData, DataLen
<1>2. m \in Nat /\ n + m \in Nat /\ n <= n + m /\ n <= Len(s) /\ (n + m) - n = m
  BY <1>1, Sizes3
<1>3. PICK c : c = SubSeq(s, n + 1, n + m)
  OBVIOUS
<1>4. c \in Text
  BY <1>2, <1>3, TextPart
<1>5. Len(c) = m
  <2>1. IsPart(c, s, n, n + m)
    BY <1>1, <1>2, <1>3, PartIs, Zenon
  <2> QED
    BY <1>2, <2>1 DEF IsPart
<1>6. PICK a : a = SubSeq(s, 1, n)
  OBVIOUS
<1>7. a \in Text
  BY <1>2, <1>6, TextHead
<1>8. Len(a) = n
  BY <1>1, <1>2, <1>6, Head1
<1>9. a \o c = SubSeq(s, 1, n + m)
  BY <1>1, <1>2, <1>3, <1>6, Adjacent1
<1>10. Multiple(Len(a)) /\ Len(c) >= 1 /\ Len(c) <= InputSize
  BY <1>5, <1>8, Sizes3
<1>11. Lzo(a \o c) = Lzo(a) \o Chunk(c)
  BY <1>4, <1>7, <1>10, LzoJoin
<1>12. Multiple(n + m) \/ n + m = Len(s)
  <2>1. CASE m = InputSize
    BY <2>1, MultipleNext
  <2>2. CASE m # InputSize
    BY <2>2, Sizes3
  <2> QED
    BY <2>1, <2>2
<1>13. Lzo(SubSeq(s, 1, n + m)) = Lzo(a) \o Chunk(c)
  BY <1>9, <1>11, Zenon
<1> QED
  BY <1>3, <1>4, <1>5, <1>6, <1>9, <1>12, <1>13, Zenon DEF NextChunk

(* How many units the next chunk has. *)
LEMMA ChunkSize ==
  ASSUME NEW s \in Text, NEW n \in Nat, n < Len(s)
  PROVE  \E m \in 1..InputSize : n + m <= Len(s) /\ (m < InputSize => n + m = Len(s))
<1>1. PICK k \in Nat : k = Len(s)
  BY TextData, DataLen
<1>2. CASE k - n <= InputSize
  <2>1. k - n \in 1..InputSize /\ n + (k - n) = k
    BY <1>1, <1>2, Sizes3
  <2> QED
    BY <1>1, <2>1
<1>3. CASE ~(k - n <= InputSize)
  <2>1. InputSize \in 1..InputSize /\ n + InputSize <= k
    BY <1>1, <1>3, Sizes3
  <2> QED
    BY <1>1, <2>1, Sizes3
<1> QED
  BY <1>2, <1>3

(* The image of whole chunks starts the image of the text. *)
LEMMA LzoPrefix ==
  ASSUME NEW s \in Text
  PROVE  \A n \in Nat : n <= Len(s) /\ Multiple(n)
           => \E z \in Data : Lzo(s) = Lzo(SubSeq(s, 1, n)) \o z
<1> DEFINE Pre(n) == \E z \in Data : Lzo(s) = Lzo(SubSeq(s, 1, n)) \o z
           S == {d \in Nat : \A n \in Nat : n + d = Len(s) /\ Multiple(n) => Pre(n)}
<1>1. s \in Data /\ Len(s) \in Nat /\ Lzo(s) \in Data
  BY TextData, DataLen, LzoType
<1>2. ASSUME NEW d \in Nat, \A e \in 0..(d - 1) : e \in S PROVE d \in S
  <2> SUFFICES ASSUME NEW n \in Nat, n + d = Len(s), Multiple(n) PROVE Pre(n)
    OBVIOUS
  <2>1. CASE d = 0
    <3>1. SubSeq(s, 1, n) = s
      BY <1>1, <2>1, Ends
    <3>2. Lzo(s) \o <<>> = Lzo(s)
      BY <1>1, Empties
    <3>3. Lzo(s) = Lzo(SubSeq(s, 1, n)) \o <<>>
      BY <3>1, <3>2, Zenon
    <3> QED
      BY <3>3, Nothing
  <2>2. CASE d # 0
    <3>1. n < Len(s)
      BY <2>2
    <3>2. PICK m \in 1..InputSize : n + m <= Len(s) /\ (m < InputSize => n + m = Len(s))
      BY <3>1, ChunkSize
    <3> HIDE DEF S, Pre
    <3>3. NextChunk(s, n, m)
      BY <3>1, <3>2, SomeChunk
    <3>4. n + m \in Nat
      BY <3>2, Sizes3
    <3>5. PICK a : a = Lzo(SubSeq(s, 1, n))
      OBVIOUS
    <3>6. PICK b : b = Lzo(SubSeq(s, 1, n + m))
      OBVIOUS
    <3>7. PICK c : c = Chunk(SubSeq(s, n + 1, n + m))
      OBVIOUS
    <3>8. b = a \o c /\ c \in Data
      BY <3>3, <3>5, <3>6, <3>7, ChunkIs DEF NextChunk
    <3>9. a \in Data
      <4>1. SubSeq(s, 1, n) \in Text
        BY <1>1, <3>1, TextHead
      <4> QED
        BY <3>5, <4>1, LzoType
    <3>10. CASE n + m = Len(s)
      <4>1. SubSeq(s, 1, n + m) = s
        BY <1>1, <3>10, Ends
      <4>2. Lzo(s) = a \o c
        BY <3>6, <3>8, <4>1
      <4> QED
        BY <3>5, <3>8, <4>2 DEF Pre
    <3>11. CASE n + m # Len(s)
      <4>1. Multiple(n + m)
        BY <3>3, <3>11 DEF NextChunk
      <4>2. PICK e \in 0..(d - 1) : (n + m) + e = Len(s)
        <5>1. d - m \in 0..(d - 1) /\ (n + m) + (d - m) = Len(s)
          BY <1>1, <3>2, <3>11, Sizes3
        <5> QED
          BY <5>1
      <4>3. e \in S
        BY <1>2
      <4>4. Pre(n + m)
        BY <3>4, <4>1, <4>2, <4>3 DEF S
      <4>5. PICK z \in Data : Lzo(s) = b \o z
        BY <3>6, <4>4, SMTT(30) DEF Pre
      <4>6. (a \o c) \o z = a \o (c \o z)
        BY <3>8, <3>9, Regroup
      <4>7. Lzo(s) = a \o (c \o z)
        BY <3>8, <4>5, <4>6
      <4>8. c \o z \in Data
        BY <3>8, JoinedType
      <4> QED
        BY <3>5, <4>7, <4>8 DEF Pre
    <3> QED
      BY <3>10, <3>11
  <2> QED
    BY <2>1, <2>2
<1> HIDE DEF S, Pre
<1>3. \A d \in Nat : d \in S
  BY <1>2, StrongSetInduction
<1>4. ASSUME NEW n \in Nat, n <= Len(s), Multiple(n) PROVE Pre(n)
  <2>1. Len(s) - n \in Nat /\ n + (Len(s) - n) = Len(s)
    BY <1>1, <1>4
  <2> QED
    BY <1>3, <1>4, <2>1 DEF S
<1> QED
  BY <1>4 DEF Pre

(* What lies behind the image of the first n units. *)
LEMMA ChunkFollows ==
  ASSUME NEW s \in Text, NEW n \in Nat, n <= Len(s), Multiple(n) \/ n = Len(s),
         NEW x \in Data, Lzo(s) = Lzo(SubSeq(s, 1, n)) \o x
  PROVE  \/ n = Len(s) /\ x = <<>>
         \/ /\ n < Len(s) /\ Multiple(n)
            /\ \E m \in 1..InputSize :
                 /\ NextChunk(s, n, m)
                 /\ \E z \in Data : x = Chunk(SubSeq(s, n + 1, n + m)) \o z
<1>1. s \in Data /\ Len(s) \in Nat /\ Lzo(s) \in Data
  BY TextData, DataLen, LzoType
<1>2. PICK a : a = Lzo(SubSeq(s, 1, n))
  OBVIOUS
<1>3. a \in Data
  <2>1. SubSeq(s, 1, n) \in Text
    BY TextHead
  <2> QED
    BY <1>2, <2>1, LzoType
<1>4. CASE n = Len(s)
  <2>1. SubSeq(s, 1, n) = s
    BY <1>1, <1>4, Ends
  <2>2. a = a \o x
    BY <1>2, <2>1
  <2>3. x = <<>>
    <3>1. Len(a) = Len(a) + Len(x) /\ Len(a) \in Nat /\ Len(x) \in Nat
      BY <1>3, <2>2, JoinedType, DataLen
    <3>2. Len(x) = 0
      BY <3>1
    <3> QED
      BY <3>2, DataLen
  <2> QED
    BY <1>4, <2>3
<1>5. CASE n # Len(s)
  <2>1. n < Len(s) /\ Multiple(n)
    BY <1>1, <1>5
  <2>2. PICK m \in 1..InputSize : n + m <= Len(s) /\ (m < InputSize => n + m = Len(s))
    BY <2>1, ChunkSize
  <2>3. NextChunk(s, n, m)
    BY <2>1, <2>2, SomeChunk
  <2>4. PICK c : c = Chunk(SubSeq(s, n + 1, n + m))
    OBVIOUS
  <2>5. Lzo(SubSeq(s, 1, n + m)) = a \o c /\ c \in Data
    BY <1>2, <2>3, <2>4, ChunkIs DEF NextChunk
  <2>6. n + m \in Nat
    BY <2>2, Sizes3
  <2>7. PICK z \in Data : Lzo(s) = Lzo(SubSeq(s, 1, n + m)) \o z
    <3>1. CASE Multiple(n + m)
      BY <2>2, <2>6, <3>1, LzoPrefix
    <3>2. CASE n + m = Len(s)
      <4>1. SubSeq(s, 1, n + m) = s
        BY <1>1, <3>2, Ends
      <4>2. Lzo(s) \o <<>> = Lzo(s)
        BY <1>1, Empties
      <4>3. Lzo(s) = Lzo(SubSeq(s, 1, n + m)) \o <<>>
        BY <4>1, <4>2, Zenon
      <4> QED
        BY <4>3, Nothing
    <3> QED
      BY <2>3, <3>1, <3>2 DEF NextChunk
  <2>8. (a \o c) \o z = a \o (c \o z)
    BY <1>3, <2>5, Regroup
  <2>9. a \o x = a \o (c \o z) /\ Len(a) = Len(a)
    BY <1>2, <2>5, <2>7, <2>8
  <2>10. c \o z \in Data
    BY <2>5, JoinedType
  <2>11. x = c \o z
    BY <1>3, <2>9, <2>10, Cancel
  <2> QED
    BY <2>1, <2>3, <2>4, <2>11
<1> QED
  BY <1>4, <1>5

(* A chunk and what follows it: the header, the codes and the rest. *)
Headed(q, c, z) ==
    /\ q \in Data /\ Len(q) = Len(c) + 2 + Len(z)
    /\ q[1] = Size(Len(c))
    /\ q = <<Size(Len(c)), Size(Len(c))>> \o (Codes(c) \o z)

(* A chunk and what follows it start with the chunk's header. *)
LEMMA ChunkHeaded ==
  ASSUME NEW c \in Text, NEW z \in Data
  PROVE  Headed(Chunk(c) \o z, c, z)
<1>1. PICK q : q = Chunk(c) \o z
  OBVIOUS
<1>2. PICK h : h = <<Size(Len(c)), Size(Len(c))>>
  OBVIOUS
<1>3. PICK d : d = Codes(c)
  OBVIOUS
<1>4. /\ Chunk(c) \in Data /\ Len(Chunk(c)) = Len(c) + 2 /\ Chunk(c) = h \o d
      /\ h \in Data /\ d \in Data /\ Len(h) = 2
  BY <1>2, <1>3, ChunkIs
<1>5. (h \o d) \o z = h \o (d \o z)
  BY <1>4, Regroup
<1>6. q = h \o (d \o z)
  BY <1>1, <1>4, <1>5
<1>7. q \in Data /\ Len(q) = Len(c) + 2 + Len(z)
  BY <1>1, <1>4, JoinedType, ZenonT(60)
<1>8. d \o z \in Data
  BY <1>4, JoinedType
<1>9. IsJoin(q, h, d \o z)
  BY <1>4, <1>6, <1>8, Joined, Zenon
<1>10. q[1] = h[1]
  <2>1. 1 \in 1..Len(h)
    BY <1>4
  <2> QED
    BY <1>9, <2>1 DEF IsJoin
<1>11. h[1] = Size(Len(c))
  BY <1>2
<1> QED
  BY <1>1, <1>2, <1>3, <1>6, <1>7, <1>10, <1>11 DEF Headed

(* A sequence starts with one chunk at most. *)
LEMMA ChunkSame ==
  ASSUME NEW c \in Text, NEW d \in Text, NEW y \in Data, NEW z \in Data,
         Chunk(c) \o y = Chunk(d) \o z
  PROVE  c = d /\ y = z
<1>1. PICK q : q = Chunk(c) \o y /\ q = Chunk(d) \o z
  OBVIOUS
<1>2. Headed(q, c, y) /\ Headed(q, d, z)
  BY <1>1, ChunkHeaded, Zenon
<1>3. Size(Len(c)) = Size(Len(d))
  BY <1>2 DEF Headed
<1>4. <<Len(c)>> = <<Len(d)>>
  BY <1>3 DEF Size
<1>5. Len(c) = Len(d)
  BY <1>4
<1>6. /\ Chunk(c) \in Data /\ Chunk(d) \in Data /\ Len(Chunk(c)) = Len(Chunk(d))
      /\ Chunk(c) = <<Size(Len(c)), Size(Len(c))>> \o Codes(c)
      /\ Chunk(d) = <<Size(Len(c)), Size(Len(c))>> \o Codes(d)
      /\ <<Size(Len(c)), Size(Len(c))>> \in Data /\ Codes(c) \in Data /\ Codes(d) \in Data
  BY <1>5, ChunkIs
<1>7. Chunk(c) = Chunk(d) /\ y = z
  BY <1>6, Cancel
<1>8. PICK h : h = <<Size(Len(c)), Size(Len(c))>>
  OBVIOUS
<1>9. h \in Data /\ h \o Codes(c) = h \o Codes(d) /\ Len(h) = Len(h)
  BY <1>6, <1>7, <1>8
<1>10. Codes(c) = Codes(d)
  BY <1>6, <1>9, Cancel
<1>11. c = d
  BY <1>10, CodesInjective
<1> QED
  BY <1>7, <1>11

(* Two texts with the same image, the same up to here. *)
LEMMA LzoSameNext ==
  ASSUME NEW s \in Text, NEW t \in Text, Lzo(s) = Lzo(t), NEW n \in Nat, Multiple(n),
         n <= Len(s), n <= Len(t), SubSeq(s, 1, n) = SubSeq(t, 1, n)
  PROVE  \/ s = t
         \/ /\ n + InputSize <= Len(s) /\ n + InputSize <= Len(t)
            /\ SubSeq(s, 1, n + InputSize) = SubSeq(t, 1, n + InputSize)
<1>1. PICK x \in Data : Lzo(s) = Lzo(SubSeq(s, 1, n)) \o x
  BY LzoPrefix
<1>2. Lzo(t) = Lzo(SubSeq(t, 1, n)) \o x
  BY <1>1
<1>3. s \in Data /\ t \in Data
  BY TextData
<1>4. CASE x = <<>>
  <2>1. \A c \in Text, z \in Data : Chunk(c) \o z # <<>>
    <3>1. ASSUME NEW c \in Text, NEW z \in Data, Chunk(c) \o z = <<>> PROVE FALSE
      <4>1. Len(<<>>) = Len(c) + 2 + Len(z)
        BY <3>1, ChunkHeaded DEF Headed
      <4>2. Len(c) \in Nat /\ Len(z) \in Nat
        BY TextData, DataLen
      <4> QED
        BY <4>1, <4>2, Nothing
    <3> QED
      BY <3>1
  <2>2. n = Len(s)
    BY <1>1, <1>4, <2>1, ChunkFollows, ZenonT(60) DEF NextChunk
  <2>3. n = Len(t)
    BY <1>2, <1>4, <2>1, ChunkFollows, ZenonT(60) DEF NextChunk
  <2>4. SubSeq(s, 1, n) = s /\ SubSeq(t, 1, n) = t
    BY <1>3, <2>2, <2>3, Ends
  <2> QED
    BY <2>4
<1>5. CASE x # <<>>
  <2>1. PICK m \in 1..InputSize : NextChunk(s, n, m)
                      /\ \E z \in Data : x = Chunk(SubSeq(s, n + 1, n + m)) \o z
    BY <1>1, <1>5, ChunkFollows
  <2>2. PICK k \in 1..InputSize : NextChunk(t, n, k)
                      /\ \E z \in Data : x = Chunk(SubSeq(t, n + 1, n + k)) \o z
    BY <1>2, <1>5, ChunkFollows
  <2>3. PICK y \in Data : x = Chunk(SubSeq(s, n + 1, n + m)) \o y
    BY <2>1
  <2>4. PICK z \in Data : x = Chunk(SubSeq(t, n + 1, n + k)) \o z
    BY <2>2
  <2>5. PICK c : c = SubSeq(s, n + 1, n + m)
    OBVIOUS
  <2>6. PICK d : d = SubSeq(t, n + 1, n + k)
    OBVIOUS
  <2>7. c \in Text /\ d \in Text /\ Len(c) = m /\ Len(d) = k
    BY <2>1, <2>2, <2>5, <2>6 DEF NextChunk
  <2>8. c = d
    <3>1. Chunk(c) \o y = Chunk(d) \o z
      BY <2>3, <2>4, <2>5, <2>6, Zenon
    <3> QED
      BY <2>7, <3>1, ChunkSame, Zenon
  <2>9. m = k
    BY <2>7, <2>8
  <2>10. SubSeq(s, 1, n) \o c = SubSeq(s, 1, n + m) /\ SubSeq(t, 1, n) \o d = SubSeq(t, 1, n + m)
    BY <2>1, <2>2, <2>5, <2>6, <2>9 DEF NextChunk
  <2>11. SubSeq(s, 1, n + m) = SubSeq(t, 1, n + m)
    BY <2>8, <2>10
  <2>12. n + m <= Len(s) /\ n + m <= Len(t)
    BY <2>1, <2>2, <2>9 DEF NextChunk
  <2>13. CASE m = InputSize
    BY <2>11, <2>12, <2>13
  <2>14. CASE m # InputSize
    <3>1. m < InputSize
      BY <2>14, Sizes3
    <3>2. n + m = Len(s) /\ n + m = Len(t)
      BY <2>1, <2>2, <2>9, <3>1 DEF NextChunk
    <3>3. SubSeq(s, 1, n + m) = s /\ SubSeq(t, 1, n + m) = t
      BY <1>3, <3>2, Ends
    <3> QED
      BY <2>11, <3>3
  <2> QED
    BY <2>13, <2>14
<1> QED
  BY <1>4, <1>5

(* Different texts have different LZO images. *)
LEMMA LzoInjective ==
  ASSUME NEW s \in Text, NEW t \in Text, Lzo(s) = Lzo(t)
  PROVE  s = t
<1> SUFFICES ASSUME s # t PROVE FALSE
  OBVIOUS
<1> DEFINE Alike(n) == /\ n <= Len(s) /\ n <= Len(t) /\ SubSeq(s, 1, n) = SubSeq(t, 1, n)
           S == {j \in Nat : Alike(j * InputSize)}
<1>1. s \in Data /\ t \in Data /\ Len(s) \in Nat /\ Len(t) \in Nat
  BY TextData, DataLen
<1>2. 0 \in S
  <2>1. SubSeq(s, 1, 0) = <<>> /\ SubSeq(t, 1, 0) = <<>>
    BY <1>1, Ends
  <2>2. 0 * InputSize = 0
    BY Sizes3
  <2>3. Alike(0)
    BY <1>1, <2>1
  <2> QED
    BY <2>2, <2>3
<1>3. ASSUME NEW j \in Nat, j \in S PROVE j + 1 \in S
  <2>1. PICK n \in Nat : n = j * InputSize
    BY Sizes3
  <2>2. Multiple(n)
    BY <2>1 DEF Multiple
  <2>3. Alike(n)
    BY <1>3, <2>1
  <2>4. Alike(n + InputSize)
    BY <2>2, <2>3, LzoSameNext
  <2>5. n + InputSize = (j + 1) * InputSize
    BY <2>1, Sizes3
  <2> HIDE DEF Alike
  <2>6. Alike((j + 1) * InputSize)
    BY <2>4, <2>5
  <2> QED
    BY <2>6
<1> HIDE DEF S
<1>4. \A j \in Nat : j \in S
  BY <1>2, <1>3, NatSetInduction
<1>5. PICK j \in Nat : j = Len(s) + 1
  BY <1>1
<1>6. j * InputSize <= Len(s)
  BY <1>4 DEF S
<1>7. j * InputSize >= j
  <2>1. PICK d \in Nat : InputSize = d + 1
    <3>1. InputSize - 1 \in Nat /\ InputSize = (InputSize - 1) + 1
      BY Sizes3
    <3> QED
      BY <3>1
  <2>2. PICK x \in Nat : x = j * d
    OBVIOUS
  <2>3. j * InputSize = x + j
    BY <2>1, <2>2
  <2> QED
    BY <2>2, <2>3
<1>8. j * InputSize \in Int
  BY Sizes3
<1> QED
  BY <1>1, <1>5, <1>6, <1>7, <1>8

-----------------------------------------------------------------------------
(* The inductive invariant. *)
LibraryState ==
    [seen : Text, out : Nat, mode : {"run", "finish", "done", "bad"}]
FilterState ==
    [buf : Data, next : Nat, avail : Nat, isize : Nat, obuf : Data, z : LibraryState]
LibraryReturn == {"ok", "stream_end", "buf_error", "sequence_error", "data_error"}
Outcome == {"ok", "empty", "filter_error", "read_error"}
CallState ==
    [dir : Direction, flush : BOOLEAN, room : Nat, size : 0..SizeMax, out : Data,
     zret : LibraryReturn, err : Outcome]

(* Filter f works in direction d: its input lies within its buffer. *)
Steady(d, f) ==
    /\ f \in FilterState
    /\ f.isize >= InputSize /\ (d = "zip" => f.isize = InputSize)
    /\ f.avail <= f.isize /\ f.next + f.avail <= Len(f.buf)

(* What the client had before the pending call, and what the call may give. *)
Before == IF client = "store" THEN through.out ELSE given \o strm.read
Request == IF client = "store" THEN OutputSize ELSE strm.want - Len(strm.read)

(* The requests that the header of an LZO chunk never makes wrap around.   *)
Enough == 2 * HeaderSize - 2

(* Less was asked for: `size' may wrap. *)
Short(c) == lib = "lzo" /\ c.dir = "unzip" /\ ~c.flush /\ Request < Enough

(* While a header may come, the call has met none before, or gives as much *)
(* as a header costs, but one, before it goes on.                          *)
Ample(f, c, r) ==
    \/ Len(c.out) + c.size = Request
    \/ Len(c.out) + Len(f.obuf) >= HeaderSize - 1
    \/ f.avail = 0 /\ r = <<>>

SizesFit(f, c, r, p) ==
    /\ c.room = Request /\ Len(c.out) <= Request
    /\ lib = "lzo" /\ ~Short(c) => Len(c.out) + c.size <= Request
    /\ lib # "lzo" => c.size = Request
    /\ lib = "lzo" /\ c.dir = "unzip" /\ p = "pull" /\ ~c.flush /\ ~Short(c)
       => Ample(f, c, r)

(* No input is to come, and none is left but what an LZO filter gathers. *)
Drained(d, f, r) == r = <<>> /\ (lib # "lzo" \/ d = "unzip" => f.avail = 0)

Flushed(f, c, r, p) ==
    /\ c.flush => Drained(c.dir, f, r)
    /\ p = "pull" => c.zret = "ok"
    /\ p = "pulled" /\ c.err = "empty" =>
         /\ Drained(c.dir, f, r)
         /\ lib # "lzo" \/ c.dir = "unzip" \/ c.flush => c.out = <<>>
         /\ c.flush => Clean(f)

(* Call c of filter f with input r to come. *)
Fine(f, c, r, p) ==
    /\ c \in CallState /\ Steady(c.dir, f) /\ r \in Data /\ p \in {"pull", "pulled"}
    /\ SizesFit(f, c, r, p) /\ Flushed(f, c, r, p)

(* zlib or bzip2 filter f compresses s: o went out, r is to come in. *)
Zipping(f, s, o, r) ==
    /\ f.z.seen \o (Input(f) \o r) = s
    /\ f.z.out = Len(o) /\ o = SubSeq(Marked(s), 1, Len(o)) /\ Len(o) <= Len(s) + 1
    /\ f.obuf = <<>>
    /\ \/ f.z.mode = "run" /\ Len(o) <= Len(f.z.seen)
       \/ f.z.mode = "finish" /\ f.z.seen = s /\ Len(o) <= Len(s)
       \/ f.z.mode = "done" /\ f.z.seen = s /\ Len(o) = Len(s) + 1

(* It decompresses w. *)
Unzipping(f, w, o, r) ==
    /\ f.z.seen = o /\ f.obuf = <<>>
    /\ \/ f.z.mode = "run" /\ w = Codes(o) \o (Input(f) \o r)
       \/ f.z.mode = "done" /\ w = Marked(o) \o (Input(f) \o r)

(* It will not decompress anything any more. *)
Dead(f) ==
    /\ lib # "lzo" /\ f.obuf = <<>>
    /\ f.z.mode = "bad" \/ (f.z.mode = "done" /\ f.avail > 0)

(* LZO filter f compresses s: the first n units were compressed. *)
LzoZips(f, s, o, r) ==
    /\ f.next = 0 /\ f.z = Fresh
    /\ \E n \in 0..Len(s) :
         /\ o \o f.obuf = Lzo(SubSeq(s, 1, n))
         /\ SubSeq(s, n + 1, Len(s)) = Input(f) \o r
         /\ Multiple(n) \/ n = Len(s)

(* It decompresses the image of s. *)
LzoUnzips(f, s, o, r) ==
    /\ f.next = 0 /\ f.z = Fresh /\ f.avail <= 3
    /\ \E n \in 0..Len(s) :
         /\ o \o f.obuf = SubSeq(s, 1, n)
         /\ Lzo(s) = Lzo(SubSeq(s, 1, n)) \o (Input(f) \o r)
         /\ Multiple(n) \/ n = Len(s)

(* The last pull said that all was flushed. *)
Ended(c, p) == p = "pulled" /\ c.flush /\ c.err = "empty"
(* The last pull failed. *)
Broken(c, p) == p = "pulled" /\ c.err \notin {"ok", "empty"}

Compresses(s, f, c, r, p) ==
    IF lib = "lzo" THEN LzoZips(f, s, Before \o c.out, r)
    ELSE IF Ended(c, p) THEN Before \o c.out = Marked(s)
    ELSE Zipping(f, s, Before \o c.out, r)

Decompresses(w, f, c, r, p) ==
    IF Ended(c, p) THEN Before \o c.out \in Text /\ w = Marked(Before \o c.out)
    ELSE Unzipping(f, w, Before \o c.out, r)

Restores(s, f, c, r) == LzoUnzips(f, s, Before \o c.out, r)

-----------------------------------------------------------------------------
Operation ==
    [name : {"none", "read", "write"}, key : Key \cup {None}, block : Block \cup {None}]

Types ==
    /\ lib \in Library /\ client \in {"store", "stream"}
    /\ filt \in [Direction -> FilterState] /\ \A d \in Direction : Steady(d, filt[d])
    /\ call \in CallState /\ src \in Data
    /\ handler \in {"none", "buffer", "stream"} /\ pc \in {"idle", "pull", "pulled"}
    /\ backend \in [Key -> Data \cup {None}]
    /\ op \in Operation
    /\ through \in [flush : BOOLEAN, out : Data]
    /\ failed \in BOOLEAN
    /\ source \in Text /\ given \in Data
    /\ strm \in [dir : Direction, open : BOOLEAN, flushing : BOOLEAN,
                 finished : BOOLEAN, want : 0..SizeMax, again : BOOLEAN, read : Data,
                 status : {"none", "end"} \cup Outcome]

(* Where the control of the two clients is. *)
StoreControl ==
    client = "store" =>
    /\ ~strm.open /\ strm.status = "none"
    /\ pc = "idle" => handler = "none" /\ op = NoOp
    /\ pc # "idle" =>
         /\ op.key \in Key /\ handler = "buffer" /\ call.flush = through.flush
         /\ \/ op.name = "write" /\ call.dir = "zip"
            \/ op.name = "read" /\ call.dir = "unzip"

StreamControl ==
    client = "stream" =>
    /\ op = NoOp /\ failed = FALSE
    /\ strm.open => handler = "stream"
    /\ lib # "lzo" \/ ~strm.again => strm.read = <<>>
    /\ pc = "idle" => strm.read = <<>> /\ call = NoCall
    /\ pc # "idle" =>
         /\ strm.open /\ strm.status \in {"none", "ok"}
         /\ call.dir = strm.dir /\ call.flush = strm.flushing
         /\ strm.again => strm.flushing
    /\ strm.status = "none" =>
         /\ given = <<>>
         /\ pc = "idle" => ~strm.flushing /\ \A d \in Direction : filt[d] = Opened
    /\ pc = "idle" /\ strm.open /\ strm.flushing => Drained(strm.dir, filt[strm.dir], src)

Pending == pc # "idle" => Fine(filt[call.dir], call, src, pc) /\ Request \in Nat

BackendInv ==
    \A k \in Key : backend[k] # None =>
        \E b \in Block : IF lib = "lzo" THEN backend[k] = Lzo(b)
                         ELSE Stems(backend[k], Marked(b))

(* A filter at rest is clean; only decompression with zlib and bzip2 may   *)
(* be spoilt by a damaged block.                                           *)
Rested(d) == Clean(filt[d]) \/ (d = "unzip" /\ failed /\ Dead(filt[d]))

Writing ==
    /\ ~Broken(call, pc)
    /\ op.block \in Block /\ Compresses(op.block, filt["zip"], call, src, pc)

Reading ==
    /\ backend[op.key] # None
    /\ lib = "lzo" =>
         /\ ~Broken(call, pc)
         /\ \E b \in Block : /\ backend[op.key] = Lzo(b)
                             /\ Restores(b, filt["unzip"], call, src)
    /\ lib # "lzo" =>
         /\ \/ Decompresses(backend[op.key], filt["unzip"], call, src, pc)
            \/ Dead(filt["unzip"]) /\ ~Ended(call, pc)
         /\ Broken(call, pc) => Dead(filt["unzip"])

StoreInv ==
    client = "store" =>
    /\ \A d \in Direction : pc = "idle" \/ d # call.dir => Rested(d)
    /\ pc # "idle" /\ op.name = "write" => Writing
    /\ pc # "idle" /\ op.name = "read" => Reading

Whole == IF strm.dir = "zip" THEN Image(lib, source, InputSize) ELSE source

Streaming ==
    LET f == filt[strm.dir] IN
    IF strm.dir = "zip" THEN Compresses(source, f, call, src, pc)
    ELSE IF lib = "lzo" THEN Restores(source, f, call, src)
    ELSE Decompresses(Marked(source), f, call, src, pc)

StreamInv ==
    client = "stream" =>
    /\ Len(given) <= Len(Whole) /\ given = SubSeq(Whole, 1, Len(given))
    /\ strm.status = "end" => given = Whole /\ Clean(filt[strm.dir])
    /\ strm.open /\ strm.status \in {"none", "ok"} /\ ~Broken(call, pc) => Streaming

FilterInv ==
    /\ Types /\ StoreControl /\ StreamControl /\ Pending
    /\ BackendInv /\ StoreInv /\ StreamInv

-----------------------------------------------------------------------------
(* Pushing into a filter, and input faults. *)
LEMMA AnyRest ==
  ASSUME NEW s \in Data, NEW k \in Nat
  PROVE  SubSeq(s, k + 1, Len(s)) \in Data
<1>1. Len(s) \in Nat
  BY DataLen
<1>2. CASE k <= Len(s)
  BY <1>2, Rest
<1>3. CASE ~(k <= Len(s))
  <2>1. Len(s) < k + 1 /\ Len(s) \in Int /\ k + 1 \in Int
    BY <1>1, <1>3
  <2>2. SubSeq(s, k + 1, Len(s)) = <<>>
    BY <2>1, SubSeqEmpty
  <2> QED
    BY <2>2, Nothing
<1> QED
  BY <1>2, <1>3

(* g is filter f with t behind its input. *)
Pushed(f, g, t) ==
    /\ g \in FilterState /\ g.isize = f.isize /\ g.obuf = f.obuf /\ g.z = f.z
    /\ g.avail = f.avail + Len(t) /\ g.avail <= g.isize /\ g.next + g.avail <= Len(g.buf)
    /\ Input(g) = Input(f) \o t
    /\ lib = "lzo" => g.next = f.next

(* The fields of a filter have their types. *)
LEMMA FilterFields ==
  ASSUME NEW f \in FilterState
  PROVE  /\ f.buf \in Data /\ f.next \in Nat /\ f.avail \in Nat /\ f.isize \in Nat
         /\ f.obuf \in Data /\ f.z \in LibraryState
BY DEF FilterState

(* The input of a filter. *)
LEMMA InputIs ==
  ASSUME NEW f \in FilterState, f.next + f.avail <= Len(f.buf)
  PROVE  /\ Input(f) \in Data /\ Len(Input(f)) = f.avail
         /\ f.avail = 0 => Input(f) = <<>>
<1>1. PICK b \in Data : b = f.buf
  BY FilterFields
<1>2. PICK m \in Nat : m = f.next
  BY FilterFields
<1>3. PICK a \in Nat : a = f.avail
  BY FilterFields
<1>4. m + a \in Nat /\ m <= m + a /\ m + a <= Len(b) /\ (m + a) - m = a
  BY <1>1, <1>2, <1>3
<1>5. IsPart(SubSeq(b, m + 1, m + a), b, m, m + a)
  BY <1>4, PartIs
<1>6. Input(f) = SubSeq(b, m + 1, m + a)
  BY <1>1, <1>2, <1>3 DEF Input
<1>7. Input(f) \in Data /\ Len(Input(f)) = a
  BY <1>4, <1>5, <1>6 DEF IsPart
<1> QED
  BY <1>3, <1>7, DataLen

(* zlib and bzip2: a push into an empty filter that it fits takes all. *)
LEMMA ZipPushIs ==
  ASSUME lib # "lzo", NEW f \in FilterState, f.avail = 0, f.next + f.avail <= Len(f.buf),
         NEW t \in Data, Len(t) >= 1, Len(t) <= f.isize, NEW p, p = ZipPush(f, t)
  PROVE  p.pushed = Len(t) /\ p.err = "ok" /\ Pushed(f, p.f, t)
<1>1. PICK b \in Data : b = f.buf
  BY FilterFields
<1>2. PICK n \in Nat : n = Len(t)
  BY DataLen
<1>3. Least(f.isize - f.avail, Len(t)) = n
  BY <1>2, FilterFields DEF Least
<1>4. PICK x : x = SubSeq(b, n + 1, Len(b))
  OBVIOUS
<1>5. x \in Data
  BY <1>4, AnyRest
<1>6. PICK q : q = (SubSeq(b, 1, 0) \o SubSeq(t, 1, n)) \o x
  OBVIOUS
<1>7. q = t \o x
  <2>1. SubSeq(b, 1, 0) = <<>> /\ SubSeq(t, 1, n) = t
    BY <1>2, Ends
  <2>2. <<>> \o t = t
    BY Empties
  <2> QED
    BY <1>6, <2>1, <2>2
<1>8. IsCut(q, t, x)
  BY <1>5, <1>7, JoinedParts
<1>9. PICK g : g = [f EXCEPT !.buf = q, !.next = 0, !.avail = n]
  OBVIOUS
<1>10. f.avail + n = n /\ f.avail + n + 1 = n + 1 /\ t # <<>> /\ n # 0
  BY <1>2, DataLen
<1>11. p.f = g /\ p.pushed = n /\ p.err = "ok"
  BY <1>1, <1>3, <1>4, <1>6, <1>9, <1>10 DEF ZipPush
<1>12. q \in Data /\ n <= Len(q)
  <2>1. Len(x) \in Nat
    BY <1>5, DataLen
  <2> QED
    BY <1>2, <1>8, <2>1 DEF IsCut
<1>13. /\ g \in FilterState /\ g.buf = q /\ g.next = 0 /\ g.avail = n
       /\ g.isize = f.isize /\ g.obuf = f.obuf /\ g.z = f.z
  BY <1>9, <1>12 DEF FilterState
<1>14. Input(g) = t
  <2>1. Input(g) = SubSeq(q, 1, n)
    BY <1>13 DEF Input
  <2> QED
    BY <1>2, <1>8, <2>1 DEF IsCut
<1>15. Input(f) = <<>> /\ <<>> \o t = t
  BY InputIs, Empties
<1> QED
  BY <1>2, <1>10, <1>11, <1>12, <1>13, <1>14, <1>15 DEF Pushed

(* LZO: so does one behind what is there, if nothing is to be delivered. *)
LEMMA LzoPushIs ==
  ASSUME NEW f \in FilterState, f.obuf = <<>>, f.next + f.avail <= Len(f.buf),
         NEW t \in Data, Len(t) >= 1, f.next + f.avail + Len(t) <= f.isize,
         NEW p, p = LzoPush(f, t)
  PROVE  p.pushed = Len(t) /\ p.err = "ok" /\ Pushed(f, p.f, t)
<1>1. PICK b \in Data : b = f.buf
  BY FilterFields
<1>2. PICK n \in Nat : n = Len(t)
  BY DataLen
<1>3. PICK m \in Nat : m = f.next
  BY FilterFields
<1>4. PICK a \in Nat : a = f.avail
  BY FilterFields
<1>5. PICK i \in Nat : i = f.isize
  BY FilterFields
<1>6. PICK e \in Nat : e = m + a
  OBVIOUS
<1>7. e = f.next + f.avail /\ e <= Len(b) /\ m <= e /\ e + n <= i /\ n >= 1
  BY <1>1, <1>2, <1>3, <1>4, <1>5, <1>6
<1>8. Least(i - e, n) = n /\ ~(e > i) /\ ~(n < n)
  BY <1>7 DEF Least
<1>9. PICK x : x = SubSeq(b, e + n + 1, Len(b))
  OBVIOUS
<1>10. x \in Data
  <2>1. e + n \in Nat
    OBVIOUS
  <2> QED
    BY <1>9, <2>1, AnyRest
<1>11. PICK h : h = SubSeq(b, 1, e)
  OBVIOUS
<1>12. h \in Data /\ Len(h) = e
  BY <1>7, <1>11, Head1, ZenonT(60)
<1>13. PICK w : w = h \o t
  OBVIOUS
<1>14. IsCut(w, h, t)
  BY <1>12, <1>13, JoinedParts
<1>15. w \in Data /\ Len(w) = e + n
  BY <1>2, <1>12, <1>14 DEF IsCut
<1>16. PICK q : q = w \o x
  OBVIOUS
<1>17. q \in Data /\ e + n <= Len(q)
  <2>1. w \o x \in Data /\ Len(w \o x) = Len(w) + Len(x)
    BY <1>10, <1>15, JoinedType
  <2>2. Len(x) \in Nat
    BY <1>10, DataLen
  <2> QED
    BY <1>15, <1>16, <2>1, <2>2
<1>18. PICK g : g = [f EXCEPT !.buf = q, !.avail = a + n]
  OBVIOUS
<1>19. p.f = g /\ p.pushed = n /\ p.err = "ok"
  <2>1. SubSeq(t, 1, n) = t
    BY <1>2, Ends
  <2>2. p = [f |-> g, pushed |-> n, err |-> "ok"]
    BY <1>1, <1>2, <1>4, <1>5, <1>7, <1>8, <1>9, <1>11, <1>13, <1>16, <1>18, <2>1 DEF LzoPush
  <2> QED
    BY <2>2
<1>20. /\ g \in FilterState /\ g.buf = q /\ g.next = m /\ g.avail = a + n
       /\ g.isize = i /\ g.obuf = f.obuf /\ g.z = f.z
  <2>1. a + n \in Nat
    OBVIOUS
  <2>2. q \in Data
    BY <1>17
  <2> QED
    BY <1>3, <1>5, <1>18, <2>1, <2>2 DEF FilterState
<1>21. Input(g) = SubSeq(q, m + 1, e + n)
  <2>1. m + (a + n) = e + n
    BY <1>6
  <2> QED
    BY <1>20, <2>1 DEF Input
<1>22. Input(f) = SubSeq(b, m + 1, e)
  BY <1>1, <1>3, <1>4, <1>6 DEF Input
<1>23. SubSeq(q, m + 1, e + n) = SubSeq(w, m + 1, e + n)
  <2>1. e + n \in Nat /\ m <= e + n /\ e + n <= Len(w)
    BY <1>7, <1>15
  <2> QED
    BY <1>10, <1>15, <1>16, <2>1, PartOfFirst
<1>24. SubSeq(w, m + 1, e) \o SubSeq(w, e + 1, e + n) = SubSeq(w, m + 1, e + n)
  <2>1. e + n \in Nat /\ e <= e + n /\ e + n <= Len(w)
    BY <1>15
  <2>2. m <= e /\ w \in Data
    BY <1>7, <1>15
  <2>3. PICK k \in Nat : k = e + n
    BY <2>1
  <2>4. e <= k /\ k <= Len(w)
    BY <2>1, <2>3
  <2>5. SubSeq(w, m + 1, e) \o SubSeq(w, e + 1, k) = SubSeq(w, m + 1, k)
    BY <2>2, <2>4, Adjacent
  <2> QED
    BY <2>3, <2>5
<1>25. SubSeq(w, e + 1, e + n) = t
  BY <1>12, <1>14, <1>15 DEF IsCut
<1>26. SubSeq(w, m + 1, e) = SubSeq(h, m + 1, e)
  <2>1. e <= Len(h)
    BY <1>12
  <2> QED
    BY <1>7, <1>12, <1>13, <2>1, PartOfFirst, ZenonT(60)
<1>27. SubSeq(b, m + 1, e) = SubSeq(h, m + 1, e)
  <2>1. PICK y : y = SubSeq(b, e + 1, Len(b))
    OBVIOUS
  <2>2. y \in Data
    BY <2>1, AnyRest
  <2>3. h \o y = b
    BY <1>7, <1>11, <2>1, Rejoined
  <2>4. SubSeq(h \o y, m + 1, e) = SubSeq(h, m + 1, e)
    <3>1. e <= Len(h)
      BY <1>12
    <3> QED
      BY <1>7, <1>12, <2>2, <3>1, PartOfFirst, SMTT(30)
  <2> QED
    BY <2>3, <2>4
<1>28. Input(g) = Input(f) \o t
  BY <1>21, <1>22, <1>23, <1>24, <1>25, <1>26, <1>27
<1>29. g.next + g.avail <= Len(g.buf) /\ g.avail <= g.isize /\ g.avail = f.avail + Len(t)
  BY <1>2, <1>4, <1>6, <1>7, <1>17, <1>20
<1> QED
  BY <1>2, <1>3, <1>5, <1>19, <1>20, <1>28, <1>29 DEF Pushed

(* There is room for n more units. *)
PushFits(f, n) ==
    IF lib = "lzo" THEN f.obuf = <<>> /\ f.next + f.avail + n <= f.isize
    ELSE f.avail = 0 /\ n <= f.isize

(* A push that fits takes all. *)
LEMMA PushIs ==
  ASSUME NEW f \in FilterState, f.next + f.avail <= Len(f.buf),
         NEW t \in Data, Len(t) >= 1, PushFits(f, Len(t)), NEW p, p = Push(f, t)
  PROVE  p.pushed = Len(t) /\ p.err = "ok" /\ Pushed(f, p.f, t)
<1>1. CASE lib = "lzo"
  <2>1. p = LzoPush(f, t) /\ f.obuf = <<>> /\ f.next + f.avail + Len(t) <= f.isize
    BY <1>1 DEF Push, PushFits
  <2> QED
    BY <2>1, LzoPushIs
<1>2. CASE lib # "lzo"
  <2>1. p = ZipPush(f, t) /\ f.avail = 0 /\ Len(t) <= f.isize
    BY <1>2 DEF Push, PushFits
  <2> QED
    BY <1>2, <2>1, ZipPushIs
<1> QED
  BY <1>1, <1>2

(* What an input fault for `amount' units gives. *)
FaultGives(f, amount, x) ==
    \/ /\ x.err = "ok"
       /\ \E n \in 1..amount :
            /\ n <= Len(src) /\ x.src = SubSeq(src, n + 1, Len(src))
            /\ Pushed(f, x.f, SubSeq(src, 1, n)) /\ Len(SubSeq(src, 1, n)) = n
            /\ handler = "buffer" => n = Least(amount, Len(src))
    \/ src = <<>> /\ x.f = f /\ x.src = src /\ x.err = "unhandled"
    \/ handler = "stream" /\ x.f = f /\ x.src = src /\ x.err = "read_error"

(* What an input fault does that asks for no more than fits. *)
LEMMA FaultIs ==
  ASSUME NEW f \in FilterState, f.next + f.avail <= Len(f.buf), src \in Data,
         handler \in {"buffer", "stream"}, NEW amount \in Nat, amount >= 1,
         PushFits(f, amount), NEW x \in InputFault(f, amount)
  PROVE  FaultGives(f, amount, x)
<1>1. Len(src) \in Nat /\ (src # <<>> => Len(src) >= 1)
  BY DataLen
<1>2. ASSUME NEW n \in FaultInput(amount)
      PROVE  /\ n \in 1..amount /\ n <= Len(src)
             /\ handler = "buffer" => n = Least(amount, Len(src))
  BY <1>1, <1>2 DEF FaultInput, Least
<1>3. FaultInput(amount) = {} => src = <<>>
  <2> SUFFICES ASSUME src # <<>> PROVE FaultInput(amount) # {}
    OBVIOUS
  <2>1. CASE handler = "buffer"
    <3>1. FaultInput(amount) = {Least(amount, Len(src))}
      BY <2>1 DEF FaultInput
    <3> QED
      BY <3>1
  <2>2. CASE handler = "stream"
    <3>1. FaultInput(amount) = 1..Least(amount, Len(src))
      BY <2>2 DEF FaultInput
    <3>2. 1 \in 1..Least(amount, Len(src))
      BY <1>1 DEF Least
    <3> QED
      BY <3>1, <3>2
  <2> QED
    BY <2>1, <2>2
<1>4. ASSUME NEW n \in FaultInput(amount), NEW p, p = Push(f, SubSeq(src, 1, n)),
             x.f = p.f,
             x.src = SubSeq(src, (IF handler = "stream" THEN n ELSE p.pushed) + 1, Len(src)),
             x.err = IF handler = "stream" /\ p.err = "ok" /\ p.pushed # n
                     THEN "abort" ELSE p.err
      PROVE  FaultGives(f, amount, x)
  <2>1. PICK t : t = SubSeq(src, 1, n)
    OBVIOUS
  <2>2. n \in Nat /\ n >= 1 /\ n <= Len(src) /\ n <= amount
    BY <1>2, <1>4
  <2>3. t \in Data /\ Len(t) = n
    BY <2>1, <2>2, Head1
  <2>4. PushFits(f, Len(t))
    BY <2>2, <2>3, FilterFields DEF PushFits
  <2>5. Len(t) >= 1 /\ p = Push(f, t)
    BY <1>4, <2>1, <2>2, <2>3
  <2>6. p.pushed = n /\ p.err = "ok" /\ Pushed(f, p.f, t)
    BY <2>3, <2>4, <2>5, PushIs
  <2>7. x.err = "ok" /\ x.src = SubSeq(src, n + 1, Len(src))
    BY <1>4, <2>6
  <2>8. Pushed(f, x.f, SubSeq(src, 1, n)) /\ Len(SubSeq(src, 1, n)) = n
    BY <1>4, <2>1, <2>3, <2>6
  <2> QED
    BY <1>2, <1>4, <2>7, <2>8 DEF FaultGives
<1>5. \/ \E n \in FaultInput(amount) : \E p :
           /\ p = Push(f, SubSeq(src, 1, n)) /\ x.f = p.f
           /\ x.src = SubSeq(src, (IF handler = "stream" THEN n ELSE p.pushed) + 1, Len(src))
           /\ x.err = IF handler = "stream" /\ p.err = "ok" /\ p.pushed # n
                      THEN "abort" ELSE p.err
      \/ FaultInput(amount) = {} /\ x = [f |-> f, src |-> src, err |-> "unhandled"]
      \/ handler = "stream" /\ x = [f |-> f, src |-> src, err |-> "read_error"]
  BY DEF InputFault
<1>6. CASE FaultInput(amount) = {} /\ x = [f |-> f, src |-> src, err |-> "unhandled"]
  BY <1>3, <1>6 DEF FaultGives
<1>7. CASE handler = "stream" /\ x = [f |-> f, src |-> src, err |-> "read_error"]
  BY <1>7 DEF FaultGives
<1> QED
  BY <1>4, <1>5, <1>6, <1>7

-----------------------------------------------------------------------------
(* Input that moves through a filter. *)
LEMMA PartOfPart ==
  ASSUME NEW b \in Data, NEW m \in Nat, NEW e \in Nat, m <= e, e <= Len(b),
         NEW k \in Nat, k <= e - m, NEW q, q = SubSeq(b, m + 1, e)
  PROVE  /\ SubSeq(q, 1, k) = SubSeq(b, m + 1, m + k)
         /\ SubSeq(q, k + 1, Len(q)) = SubSeq(b, (m + k) + 1, e)
<1>1. PICK n \in Nat : n = m + k
  OBVIOUS
<1>2. m <= n /\ n <= e /\ n <= Len(b) /\ n - m = k
  BY <1>1, DataLen
<1>3. PICK c : c = SubSeq(b, m + 1, n)
  OBVIOUS
<1>4. PICK d : d = SubSeq(b, n + 1, e)
  OBVIOUS
<1>5. IsPart(c, b, m, n) /\ IsPart(d, b, n, e)
  BY <1>2, <1>3, <1>4, PartIs
<1>6. c \in Data /\ d \in Data /\ Len(c) = k
  BY <1>2, <1>5 DEF IsPart
<1>7. c \o d = q
  BY <1>2, <1>3, <1>4, Adjacent
<1>8. IsCut(c \o d, c, d)
  BY <1>6, JoinedParts
<1>9. SubSeq(q, 1, k) = c /\ SubSeq(q, k + 1, Len(q)) = d
  BY <1>6, <1>7, <1>8, Zenon DEF IsCut
<1> QED
  BY <1>1, <1>3, <1>4, <1>9

Keeps(f, g, r, n) ==
    /\ SubSeq(r, n + 1, Len(r)) \in Data
    /\ Input(g) \o SubSeq(r, n + 1, Len(r)) = Input(f) \o r

(* Input that is pushed stays input. *)
LEMMA PushedKeeps ==
  ASSUME NEW f \in FilterState, f.next + f.avail <= Len(f.buf), NEW g,
         NEW r \in Data, NEW n \in Nat, n <= Len(r), Pushed(f, g, SubSeq(r, 1, n))
  PROVE  Keeps(f, g, r, n)
<1>1. PICK t : t = SubSeq(r, 1, n)
  OBVIOUS
<1>2. PICK u : u = SubSeq(r, n + 1, Len(r))
  OBVIOUS
<1>3. t \in Data /\ u \in Data
  BY <1>1, <1>2, Head1, Rest
<1>4. t \o u = r
  BY <1>1, <1>2, Rejoined
<1>5. PICK i \in Data : i = Input(f)
  BY InputIs
<1>6. Input(g) = i \o t
  BY <1>1, <1>5 DEF Pushed
<1>7. (i \o t) \o u = i \o (t \o u)
  BY <1>3, Regroup
<1> QED
  BY <1>2, <1>3, <1>4, <1>5, <1>6, <1>7 DEF Keeps

(* f with k units of its input consumed and its library in state z. *)
Used(f, k, z) == [f EXCEPT !.z = z, !.next = @ + k, !.avail = @ - k]

(* Input that the library used is gone, the rest is there. *)
LEMMA UsedIs ==
  ASSUME NEW f \in FilterState, f.next + f.avail <= Len(f.buf),
         NEW k \in Nat, k <= f.avail, NEW z \in LibraryState, NEW g, g = Used(f, k, z)
  PROVE  /\ g \in FilterState /\ g.z = z /\ g.obuf = f.obuf /\ g.isize = f.isize
         /\ g.avail = f.avail - k /\ g.next + g.avail <= Len(g.buf)
         /\ Input(g) = SubSeq(Input(f), k + 1, Len(Input(f)))
<1>1. PICK b \in Data : b = f.buf
  BY FilterFields
<1>2. PICK m \in Nat : m = f.next
  BY FilterFields
<1>3. PICK a \in Nat : a = f.avail
  BY FilterFields
<1>4. PICK e \in Nat : e = m + a
  OBVIOUS
<1>5. m + k \in Nat /\ a - k \in Nat /\ m <= e /\ e <= Len(b) /\ k <= e - m
  <2>1. e <= Len(b) /\ k <= a
    BY <1>1, <1>2, <1>3, <1>4
  <2> QED
    BY <1>4, <2>1
<1>6. /\ g \in FilterState /\ g.z = z /\ g.obuf = f.obuf /\ g.isize = f.isize
      /\ g.avail = a - k /\ g.next = m + k /\ g.buf = b
  BY <1>1, <1>2, <1>3, <1>5 DEF FilterState, Used
<1>7. (m + k) + (a - k) = e
  BY <1>3, <1>4
<1>8. Input(g) = SubSeq(b, (m + k) + 1, e)
  BY <1>6, <1>7 DEF Input
<1>9. Input(f) = SubSeq(b, m + 1, e)
  BY <1>1, <1>2, <1>3, <1>4 DEF Input
<1>10. SubSeq(Input(f), k + 1, Len(Input(f))) = SubSeq(b, (m + k) + 1, e)
  BY <1>5, <1>9, PartOfPart
<1> QED
  BY <1>3, <1>5, <1>6, <1>7, <1>8, <1>10

-----------------------------------------------------------------------------
(* The stream libraries. *)
LEMMA LibraryFields ==
  ASSUME NEW z \in LibraryState
  PROVE  z.seen \in Text /\ z.out \in Nat /\ z.mode \in {"run", "finish", "done", "bad"}
BY DEF LibraryState

(* The first codes of a marked text do not depend on what follows them. *)
LEMMA MarkedStart ==
  ASSUME NEW s \in Text, NEW r \in Text, NEW m \in Nat, NEW n \in Nat, m <= n, n <= Len(s)
  PROVE  SubSeq(Marked(s \o r), m + 1, n) = SubSeq(Marked(s), m + 1, n)
<1>1. PICK c : c = Codes(s)
  OBVIOUS
<1>2. c \in Data /\ Len(c) = Len(s)
  BY <1>1, Coded DEF IsCoded
<1>3. PICK d : d = Codes(r)
  OBVIOUS
<1>4. d \in Data
  BY <1>3, Coded DEF IsCoded
<1>5. s \o r \in Text /\ Codes(s \o r) = c \o d
  BY <1>1, <1>3, CodesJoin
<1>6. PICK x : x = <<End(s \o r)>>
  OBVIOUS
<1>7. PICK y : y = <<End(s)>>
  OBVIOUS
<1>8. x \in Data /\ y \in Data
  BY <1>5, <1>6, <1>7, MarkedIs
<1>9. Marked(s \o r) = (c \o d) \o x /\ Marked(s) = c \o y
  BY <1>1, <1>5, <1>6, <1>7 DEF Marked
<1>10. (c \o d) \o x = c \o (d \o x)
  BY <1>2, <1>4, <1>8, Regroup
<1>11. PICK w : w = d \o x
  OBVIOUS
<1>12. w \in Data
  BY <1>4, <1>8, <1>11, JoinedType
<1>13. n <= Len(c)
  BY <1>2
<1>14. SubSeq(c \o w, m + 1, n) = SubSeq(c, m + 1, n)
  BY <1>2, <1>12, <1>13, PartOfFirst
<1>15. SubSeq(c \o y, m + 1, n) = SubSeq(c, m + 1, n)
  BY <1>2, <1>8, <1>13, PartOfFirst
<1> QED
  BY <1>9, <1>10, <1>11, <1>14, <1>15, Zenon

SamePart(p, q, m, n) == SubSeq(p, m + 1, n) = SubSeq(q, m + 1, n)

(* What a longer text adds comes after the codes of the shorter one. *)
LEMMA MarkedSame ==
  ASSUME NEW s \in Text, NEW r \in Text, NEW m \in Nat, NEW n \in Nat, m <= n, n <= Len(s)
  PROVE  SamePart(Marked(s \o r), Marked(s), m, n)
BY MarkedStart DEF SamePart

(* An outcome of compression without a flush. *)
Emits(z, in, room, x, k, m) ==
    /\ k \in 0..Len(in) /\ m \in 0..room /\ z.out + m <= Len(z.seen) + k
    /\ x.z = [seen |-> z.seen \o SubSeq(in, 1, k), out |-> z.out + m, mode |-> "run"]
    /\ x.used = k /\ x.ret = "ok"
    /\ x.out = SubSeq(Marked(z.seen \o in), z.out + 1, z.out + m)

(* Compression without a flush. *)
LEMMA CompressRuns ==
  ASSUME NEW z \in LibraryState, z.mode = "run", z.out <= Len(z.seen),
         NEW in \in Text, Len(in) >= 1, NEW room \in Nat, room >= 1,
         NEW x \in Compress(lib, z, in, room, FALSE)
  PROVE  \E k, m : Emits(z, in, room, x, k, m)
<1> DEFINE seen == z.seen \o in
           left == SubSeq(Marked(seen), z.out + 1, Len(seen) + 1)
           taken(k) == z.seen \o SubSeq(in, 1, k)
<1>1. PICK k \in 0..Len(in) : \E m \in 0..room :
        /\ m <= Len(taken(k)) - z.out
        /\ k = Len(in) \/ m = room
        /\ x = [z    |-> [z EXCEPT !.seen = taken(k), !.out = @ + m],
                used |-> k,
                out  |-> SubSeq(left, 1, m),
                ret  |-> IF k + m > 0 THEN "ok" ELSE NoProgress(lib)]
  BY DEF Compress, Marked
<1>2. PICK m \in 0..room :
        /\ m <= Len(taken(k)) - z.out
        /\ k = Len(in) \/ m = room
        /\ x = [z    |-> [z EXCEPT !.seen = taken(k), !.out = @ + m],
                used |-> k,
                out  |-> SubSeq(left, 1, m),
                ret  |-> IF k + m > 0 THEN "ok" ELSE NoProgress(lib)]
  BY <1>1
<1>3. z.seen \in Text /\ z.out \in Nat /\ in \in Data /\ z.seen \in Data
  BY LibraryFields, TextData
<1>4. Len(in) \in Nat /\ Len(z.seen) \in Nat
  BY <1>3, DataLen
<1>5. PICK t : t = SubSeq(in, 1, k)
  OBVIOUS
<1>6. t \in Data /\ Len(t) = k
  <2>1. k \in Nat /\ k <= Len(in)
    BY <1>4
  <2> QED
    BY <1>3, <1>5, <2>1, Head1
<1>7. Len(taken(k)) = Len(z.seen) + k
  BY <1>3, <1>5, <1>6, JoinedType, ZenonT(60)
<1>8. k + m > 0
  BY <1>2, <1>4
<1>9. seen \in Text /\ seen \in Data /\ Len(seen) = Len(z.seen) + Len(in)
  BY <1>3, CodesJoin, JoinedType, TextData
<1> HIDE DEF seen
<1>10. PICK w \in Data : w = Marked(seen) /\ Len(w) = Len(seen) + 1
  BY <1>9, MarkedIs DEF IsMarked
<1>11. z.out + m <= Len(z.seen) + k
  BY <1>2, <1>3, <1>4, <1>7
<1>12. z.out <= Len(w) /\ z.out + m <= Len(w) /\ m \in Nat
  BY <1>3, <1>4, <1>9, <1>10, <1>11
<1>13. SubSeq(left, 1, m) = SubSeq(w, z.out + 1, z.out + m)
  <2>1. left = SubSeq(w, z.out + 1, Len(w))
    BY <1>10
  <2> HIDE DEF left
  <2>2. PICK u \in Nat : u = z.out
    BY <1>3
  <2>3. u <= Len(w) /\ u + m <= Len(w) /\ left = SubSeq(w, u + 1, Len(w)) /\ m \in Nat
    BY <1>12, <2>1, <2>2
  <2>4. SubSeq(left, 1, m) = SubSeq(w, u + 1, u + m)
    BY <2>3, PartOfRest
  <2> QED
    BY <2>2, <2>4
<1>14. x.z = [seen |-> z.seen \o SubSeq(in, 1, k), out |-> z.out + m, mode |-> "run"]
  BY <1>2 DEF LibraryState
<1>15. x.used = k /\ x.ret = "ok" /\ x.out = SubSeq(Marked(seen), z.out + 1, z.out + m)
  BY <1>2, <1>8, <1>10, <1>13
<1> QED
  BY <1>2, <1>11, <1>14, <1>15 DEF Emits, seen

(* The outcome of compression with a flush. *)
Finishes(z, room, x, m) ==
    /\ m \in 1..room /\ z.out + m <= Len(z.seen) + 1
    /\ x.z = [seen |-> z.seen, out |-> z.out + m,
              mode |-> IF z.out + m = Len(z.seen) + 1 THEN "done" ELSE "finish"]
    /\ x.used = 0 /\ x.ret \in {"ok", "stream_end"}
    /\ x.out = SubSeq(Marked(z.seen), z.out + 1, z.out + m)

(* Compression with a flush. *)
LEMMA CompressFlushes ==
  ASSUME NEW z \in LibraryState, z.mode \in {"run", "finish"}, z.out <= Len(z.seen),
         NEW room \in Nat, room >= 1, NEW x \in Compress(lib, z, <<>>, room, TRUE)
  PROVE  \E m : Finishes(z, room, x, m)
<1>1. z.seen \in Text /\ z.out \in Nat /\ z.seen \in Data
  BY LibraryFields, TextData
<1>2. PICK k \in Nat : k = Len(z.seen)
  BY <1>1, DataLen
<1>3. z.seen \o <<>> = z.seen
  BY <1>1, Empties
<1>4. PICK w \in Data : w = Marked(z.seen) /\ Len(w) = k + 1
  BY <1>1, <1>2, MarkedIs DEF IsMarked
<1>5. PICK left : left = SubSeq(w, z.out + 1, k + 1)
  OBVIOUS
<1>6. left = SubSeq(w, z.out + 1, Len(w)) /\ z.out <= Len(w)
  BY <1>1, <1>2, <1>4, <1>5
<1>7. left \in Data /\ Len(left) = (k + 1) - z.out
  <2>1. PICK u \in Nat : u = z.out
    BY <1>1
  <2>2. u <= Len(w) /\ left = SubSeq(w, u + 1, Len(w))
    BY <1>6, <2>1
  <2>3. left \in Data /\ Len(left) = Len(w) - u
    BY <2>2, Rest
  <2> QED
    BY <1>4, <2>1, <2>3
<1>8. PICK m \in Nat : m = Least(room, Len(left))
  BY <1>1, <1>2, <1>7 DEF Least
<1>9. m \in 1..room /\ z.out + m <= k + 1 /\ (m = Len(left) <=> z.out + m = k + 1)
  BY <1>1, <1>2, <1>7, <1>8 DEF Least
<1>10. x = [z    |-> [seen |-> z.seen, out |-> z.out + m,
                      mode |-> IF m = Len(left) THEN "done" ELSE "finish"],
            used |-> Len(<<>>),
            out  |-> SubSeq(left, 1, m),
            ret  |-> IF m = Len(left) THEN "stream_end" ELSE "ok"]
  BY <1>2, <1>3, <1>4, <1>5, <1>8 DEF Compress, Marked
<1>11. SubSeq(left, 1, m) = SubSeq(w, z.out + 1, z.out + m)
  <2>1. z.out + m <= Len(w)
    BY <1>4, <1>9
  <2>2. PICK u \in Nat : u = z.out
    BY <1>1
  <2>3. u <= Len(w) /\ u + m <= Len(w) /\ left = SubSeq(w, u + 1, Len(w))
    BY <1>6, <2>1, <2>2
  <2>4. SubSeq(left, 1, m) = SubSeq(w, u + 1, u + m)
    BY <2>3, PartOfRest
  <2> QED
    BY <2>2, <2>4
<1>12. /\ x.z = [seen |-> z.seen, out |-> z.out + m,
                 mode |-> IF m = Len(left) THEN "done" ELSE "finish"]
       /\ x.used = 0 /\ x.ret \in {"ok", "stream_end"}
       /\ x.out = SubSeq(left, 1, m)
  BY <1>10, Nothing
<1> QED
  BY <1>2, <1>4, <1>9, <1>11, <1>12 DEF Finishes

-----------------------------------------------------------------------------
(* Compression with zlib and bzip2. *)
Shifts(a, b, c, k) ==
    /\ SubSeq(b, 1, k) \in Data /\ SubSeq(b, k + 1, Len(b)) \in Data
    /\ (a \o SubSeq(b, 1, k)) \o (SubSeq(b, k + 1, Len(b)) \o c) = a \o (b \o c)

(* Units that move over from the middle to the start. *)
LEMMA TripleJoin ==
  ASSUME NEW a \in Data, NEW b \in Data, NEW c \in Data, NEW k \in Nat, k <= Len(b)
  PROVE  Shifts(a, b, c, k)
<1>1. PICK t : t = SubSeq(b, 1, k)
  OBVIOUS
<1>2. PICK u : u = SubSeq(b, k + 1, Len(b))
  OBVIOUS
<1>3. t \in Data /\ u \in Data
  <2>1. t \in Data
    BY <1>1, Head1
  <2>2. u \in Data
    BY <1>2, AnyRest
  <2> QED
    BY <2>1, <2>2
<1>4. t \o u = b
  BY <1>1, <1>2, Rejoined
<1>5. u \o c \in Data
  BY <1>3, JoinedType
<1>6. (a \o t) \o (u \o c) = a \o (t \o (u \o c))
  BY <1>3, <1>5, Regroup, ZenonT(60)
<1>7. (t \o u) \o c = t \o (u \o c)
  BY <1>3, Regroup, ZenonT(60)
<1> QED
  BY <1>1, <1>2, <1>3, <1>4, <1>6, <1>7 DEF Shifts

(* What a compression session holds. *)
LEMMA ZippingIs ==
  ASSUME NEW f \in FilterState, f.next + f.avail <= Len(f.buf),
         NEW s \in Text, NEW o \in Data, NEW r \in Data, Zipping(f, s, o, r)
  PROVE  /\ f.z.seen \in Text /\ Input(f) \in Text /\ r \in Text
         /\ f.z.seen \o Input(f) \in Text
         /\ (f.z.seen \o Input(f)) \o r = s
<1>1. PICK z \in LibraryState : z = f.z
  BY FilterFields
<1>2. PICK a \in Text : a = z.seen
  BY LibraryFields
<1>3. a \in Data
  BY TextData
<1>4. PICK i \in Data : i = Input(f)
  BY InputIs
<1>5. a \o (i \o r) = s
  BY <1>1, <1>2, <1>4, Zenon DEF Zipping
<1>6. i \o r \in Data
  BY <1>4, JoinedType
<1>7. i \o r \in Text
  BY <1>3, <1>5, <1>6, TextJoin
<1>8. i \in Text /\ r \in Text
  BY <1>7, TextJoin
<1>9. a \o i \in Text
  BY <1>8, CodesJoin
<1>10. (a \o i) \o r = a \o (i \o r)
  BY <1>3, Regroup
<1> QED
  BY <1>1, <1>2, <1>4, <1>5, <1>8, <1>9, <1>10

Grows(w, o, x, k, m) ==
    /\ x \in Data /\ Len(x) = m /\ o \o x \in Data /\ Len(o \o x) = k + m
    /\ o \o x = SubSeq(w, 1, k + m)

(* A start grows by the part behind it. *)
LEMMA MoreOut ==
  ASSUME NEW w \in Data, NEW o \in Data, NEW m \in Nat, NEW k \in Nat, k = Len(o),
         o = SubSeq(w, 1, k), k + m <= Len(w), NEW x, x = SubSeq(w, k + 1, k + m)
  PROVE  Grows(w, o, x, k, m)
<1>1. PICK n \in Nat : n = k + m
  OBVIOUS
<1>2. k <= n /\ n <= Len(w) /\ n - k = m
  BY <1>1
<1>3. IsPart(SubSeq(w, k + 1, n), w, k, n)
  BY <1>2, PartIs
<1>4. x \in Data /\ Len(x) = m
  BY <1>1, <1>2, <1>3 DEF IsPart
<1>5. o \o x \in Data /\ Len(o \o x) = k + m
  <2>1. o \o x \in Data /\ Len(o \o x) = Len(o) + Len(x)
    BY <1>4, JoinedType
  <2> QED
    BY <1>4, <2>1
<1>6. SubSeq(w, 1, k) \o SubSeq(w, k + 1, n) = SubSeq(w, 1, n)
  BY <1>2, Adjacent1
<1> QED
  BY <1>1, <1>4, <1>5, <1>6 DEF Grows

(* A step of compression leaves the session sound. *)
LEMMA ZippingEmits ==
  ASSUME NEW f \in FilterState, f.next + f.avail <= Len(f.buf),
         NEW s \in Text, NEW o \in Data, NEW r \in Data, Zipping(f, s, o, r),
         f.z.mode = "run", f.avail >= 1, NEW room \in Nat, room >= 1,
         NEW x \in Compress(lib, f.z, Input(f), room, FALSE)
  PROVE  /\ x.used \in Nat /\ x.used <= f.avail /\ x.z \in LibraryState
         /\ x.out \in Data /\ Len(x.out) <= room /\ x.ret = "ok"
         /\ Zipping(Used(f, x.used, x.z), s, o \o x.out, r)
<1>1. PICK z \in LibraryState : z = f.z
  BY FilterFields
<1>2. PICK a \in Text : a = z.seen
  BY LibraryFields
<1>3. PICK i \in Text : i = Input(f)
  BY ZippingIs
<1>4. a \o i \in Text /\ r \in Text /\ (a \o i) \o r = s
  BY <1>1, <1>2, <1>3, ZippingIs, ZenonT(60)
<1>5. a \in Data /\ i \in Data
  BY TextData
<1>6. PICK n \in Nat : n = Len(i) /\ n = f.avail
  BY <1>3, <1>5, InputIs, DataLen
<1>7. PICK u \in Nat : u = z.out /\ u = Len(o)
  BY <1>1, LibraryFields DEF Zipping
<1>8. PICK l \in Nat : l = Len(a)
  BY <1>5, DataLen
<1>9. u <= l
  BY <1>1, <1>2, <1>7, <1>8 DEF Zipping
<1>10. PICK k, m : Emits(z, i, room, x, k, m)
  <2>1. z.mode = "run" /\ z.out <= Len(z.seen) /\ Len(i) >= 1
    BY <1>1, <1>2, <1>6, <1>7, <1>8, <1>9
  <2>2. x \in Compress(lib, z, i, room, FALSE)
    BY <1>1, <1>3
  <2> QED
    BY <2>1, <2>2, CompressRuns
<1>11. k \in Nat /\ k <= n /\ m \in Nat /\ m <= room /\ u + m <= l + k
  BY <1>2, <1>6, <1>7, <1>8, <1>10 DEF Emits
<1>12. /\ x.z = [seen |-> a \o SubSeq(i, 1, k), out |-> u + m, mode |-> "run"]
       /\ x.used = k /\ x.ret = "ok"
       /\ x.out = SubSeq(Marked(a \o i), u + 1, u + m)
  BY <1>2, <1>7, <1>10 DEF Emits
<1>13. PICK t : t = SubSeq(i, 1, k)
  OBVIOUS
<1>14. t \in Text /\ Len(t) = k /\ t \in Data
  BY <1>5, <1>6, <1>11, <1>13, TextHead, Head1, ZenonT(60)
<1>15. a \o t \in Text /\ Len(a \o t) = l + k
  BY <1>5, <1>8, <1>14, CodesJoin, JoinedType
<1>16. u + m \in Nat
  BY <1>11
<1>17. x.z \in LibraryState /\ x.z.seen = a \o t /\ x.z.out = u + m /\ x.z.mode = "run"
  <2>1. PICK y \in Text : y = a \o t
    BY <1>15
  <2>2. x.z = [seen |-> y, out |-> u + m, mode |-> "run"]
    BY <1>12, <1>13, <2>1
  <2>3. x.z \in LibraryState /\ x.z.seen = y /\ x.z.out = u + m /\ x.z.mode = "run"
    BY <1>16, <2>2 DEF LibraryState
  <2> QED
    BY <2>1, <2>3
<1>18. PICK w \in Data : w = Marked(s) /\ Len(w) = Len(s) + 1
  BY MarkedIs DEF IsMarked
<1>19. PICK e \in Nat : e = Len(s)
  BY TextData, DataLen
<1>20. Len(a \o i) = l + n /\ l + n <= e
  <2>1. Len(a \o i) = l + n /\ a \o i \in Data
    <3>1. Len(a \o i) = Len(a) + Len(i) /\ a \o i \in Data
      BY <1>5, JoinedType
    <3> QED
      BY <1>6, <1>8, <3>1
  <2>2. Len((a \o i) \o r) = (l + n) + Len(r) /\ Len(r) \in Nat
    BY <2>1, JoinedType, DataLen, SMTT(30)
  <2> QED
    BY <1>4, <1>19, <2>1, <2>2
<1>21. x.out = SubSeq(w, u + 1, u + m)
  <2>1. u <= u + m /\ u + m <= Len(a \o i)
    BY <1>11, <1>20
  <2>2. SubSeq(Marked((a \o i) \o r), u + 1, u + m) = SubSeq(Marked(a \o i), u + 1, u + m)
    <3>1. PICK q \in Text : q = a \o i
      BY <1>4
    <3>2. PICK v \in Nat : v = u + m
      BY <1>16
    <3>3. u <= v /\ v <= Len(q) /\ r \in Text
      BY <1>4, <2>1, <3>1, <3>2
    <3>4. SamePart(Marked(q \o r), Marked(q), u, v)
      BY <3>3, MarkedSame, Zenon
    <3> QED
      BY <3>1, <3>2, <3>4 DEF SamePart
  <2> QED
    BY <1>4, <1>12, <1>18, <2>2
<1>22. o = SubSeq(w, 1, u)
  BY <1>7, <1>18 DEF Zipping
<1>23. u + m <= Len(w)
  BY <1>11, <1>18, <1>19, <1>20
<1>24. /\ x.out \in Data /\ Len(x.out) = m /\ o \o x.out \in Data /\ Len(o \o x.out) = u + m
       /\ o \o x.out = SubSeq(w, 1, u + m)
  <2>1. PICK y : y = x.out
    OBVIOUS
  <2>2. y = SubSeq(w, u + 1, u + m) /\ o = SubSeq(w, 1, u) /\ u = Len(o) /\ u + m <= Len(w)
        /\ m \in Nat
    BY <1>7, <1>11, <1>21, <1>22, <1>23, <2>1
  <2>3. Grows(w, o, y, u, m)
    BY <2>2, MoreOut, Zenon
  <2> QED
    BY <2>1, <2>3 DEF Grows
<1>25. PICK g : g = Used(f, k, x.z)
  OBVIOUS
<1>26. k <= f.avail
  BY <1>6, <1>11
<1>27. g.z = x.z /\ g.obuf = f.obuf /\ Input(g) = SubSeq(i, k + 1, Len(i))
  BY <1>3, <1>11, <1>17, <1>25, <1>26, UsedIs
<1>28. (a \o t) \o (SubSeq(i, k + 1, Len(i)) \o r) = a \o (i \o r)
  <2>1. k \in Nat /\ k <= Len(i)
    BY <1>6, <1>11
  <2>2. Shifts(a, i, r, k)
    BY <1>5, <2>1, TripleJoin, Zenon
  <2> QED
    BY <1>13, <2>2 DEF Shifts
<1>29. g.z.seen \o (Input(g) \o r) = s
  <2>1. a \o (i \o r) = s
    BY <1>1, <1>2, <1>3 DEF Zipping
  <2> QED
    BY <1>17, <1>27, <1>28, <2>1
<1>30. g.obuf = <<>>
  BY <1>27 DEF Zipping
<1>31. u + m <= e + 1 /\ Len(o \o x.out) <= Len(g.z.seen)
  BY <1>11, <1>15, <1>17, <1>20, <1>24, <1>27
<1>32. Zipping(g, s, o \o x.out, r)
  <2>1. g.z.out = Len(o \o x.out) /\ Len(o \o x.out) <= Len(s) + 1 /\ g.z.mode = "run"
    BY <1>17, <1>19, <1>24, <1>27, <1>31
  <2>2. o \o x.out = SubSeq(Marked(s), 1, Len(o \o x.out))
    BY <1>18, <1>24
  <2> QED
    BY <1>29, <1>30, <1>31, <2>1, <2>2 DEF Zipping
<1> QED
  BY <1>11, <1>12, <1>17, <1>24, <1>25, <1>26, <1>32

(* So does a step that flushes. *)
LEMMA ZippingFinishes ==
  ASSUME NEW f \in FilterState, f.next + f.avail <= Len(f.buf), f.avail = 0,
         NEW s \in Text, NEW o \in Data, Zipping(f, s, o, <<>>),
         f.z.mode # "done", NEW room \in Nat, room >= 1,
         NEW x \in Compress(lib, f.z, <<>>, room, TRUE)
  PROVE  /\ x.used = 0 /\ x.z \in LibraryState
         /\ x.out \in Data /\ Len(x.out) <= room /\ x.out # <<>>
         /\ x.ret \in {"ok", "stream_end"}
         /\ Zipping(Used(f, 0, x.z), s, o \o x.out, <<>>)
<1>1. PICK z \in LibraryState : z = f.z
  BY FilterFields
<1>2. PICK a \in Text : a = z.seen
  BY LibraryFields
<1>3. Input(f) = <<>> /\ a \in Data
  BY InputIs, TextData
<1>4. a = s
  <2>1. a \o (<<>> \o <<>>) = s
    BY <1>1, <1>2, <1>3, ZenonT(60) DEF Zipping
  <2>2. <<>> \o <<>> = <<>> /\ a \o <<>> = a
    BY <1>3, Nothing, Empties
  <2> QED
    BY <2>1, <2>2
<1>5. PICK u \in Nat : u = z.out /\ u = Len(o)
  BY <1>1, LibraryFields, ZenonT(60) DEF Zipping
<1>6. PICK e \in Nat : e = Len(s)
  BY TextData, DataLen
<1>7. u <= e /\ z.mode \in {"run", "finish"}
  BY <1>1, <1>2, <1>4, <1>5, <1>6, Zenon DEF Zipping
<1>8. PICK m : Finishes(z, room, x, m)
  <2>1. z.out <= Len(z.seen) /\ x \in Compress(lib, z, <<>>, room, TRUE)
    BY <1>1, <1>2, <1>4, <1>5, <1>6, <1>7
  <2> QED
    BY <1>7, <2>1, CompressFlushes
<1>9. m \in Nat /\ m >= 1 /\ m <= room /\ u + m <= e + 1
  BY <1>2, <1>4, <1>5, <1>6, <1>8 DEF Finishes
<1>10. /\ x.z = [seen |-> s, out |-> u + m,
                 mode |-> IF u + m = e + 1 THEN "done" ELSE "finish"]
       /\ x.used = 0 /\ x.ret \in {"ok", "stream_end"}
       /\ x.out = SubSeq(Marked(s), u + 1, u + m)
  BY <1>2, <1>4, <1>5, <1>6, <1>8, ZenonT(60) DEF Finishes
<1>11. u + m \in Nat
  BY <1>9
<1>12. /\ x.z \in LibraryState /\ x.z.seen = s /\ x.z.out = u + m
       /\ x.z.mode = IF u + m = e + 1 THEN "done" ELSE "finish"
  BY <1>10, <1>11 DEF LibraryState
<1>13. PICK w \in Data : w = Marked(s) /\ Len(w) = e + 1
  BY <1>6, MarkedIs, Zenon DEF IsMarked
<1>14. o = SubSeq(w, 1, u) /\ u + m <= Len(w) /\ x.out = SubSeq(w, u + 1, u + m)
  BY <1>5, <1>9, <1>10, <1>13, Zenon DEF Zipping
<1>15. /\ x.out \in Data /\ Len(x.out) = m /\ o \o x.out \in Data /\ Len(o \o x.out) = u + m
       /\ o \o x.out = SubSeq(w, 1, u + m)
  <2>1. PICK y : y = x.out
    OBVIOUS
  <2>2. y = SubSeq(w, u + 1, u + m) /\ o = SubSeq(w, 1, u) /\ u = Len(o) /\ u + m <= Len(w)
        /\ m \in Nat
    BY <1>5, <1>9, <1>14, <2>1
  <2>3. Grows(w, o, y, u, m)
    BY <2>2, MoreOut, Zenon
  <2> QED
    BY <2>1, <2>3 DEF Grows
<1>16. x.out # <<>>
  BY <1>9, <1>15, Nothing
<1>17. PICK g : g = Used(f, 0, x.z)
  OBVIOUS
<1>18. g \in FilterState /\ g.z = x.z /\ g.obuf = f.obuf /\ g.avail = 0
       /\ g.next + g.avail <= Len(g.buf)
  <2>1. 0 \in Nat /\ 0 <= f.avail /\ f.avail - 0 = 0
    OBVIOUS
  <2> QED
    BY <1>12, <1>17, <2>1, UsedIs
<1>19. Input(g) = <<>>
  BY <1>18, InputIs
<1>20. g.z.seen \o (Input(g) \o <<>>) = s
  <2>1. <<>> \o <<>> = <<>> /\ s \o <<>> = s
    BY TextData, Nothing, Empties
  <2> QED
    BY <1>12, <1>18, <1>19, <2>1
<1>21. Zipping(g, s, o \o x.out, <<>>)
  <2>1. /\ g.z.out = Len(o \o x.out) /\ Len(o \o x.out) <= Len(s) + 1
        /\ g.obuf = <<>> /\ g.z.seen = s
    BY <1>6, <1>9, <1>12, <1>15, <1>18, Zenon DEF Zipping
  <2>2. o \o x.out = SubSeq(Marked(s), 1, Len(o \o x.out))
    BY <1>13, <1>15
  <2>3. \/ g.z.mode = "finish" /\ Len(o \o x.out) <= Len(s)
        \/ g.z.mode = "done" /\ Len(o \o x.out) = Len(s) + 1
    BY <1>6, <1>9, <1>12, <1>15, <1>18
  <2> QED
    BY <1>20, <2>1, <2>2, <2>3, ZenonT(60) DEF Zipping
<1> QED
  BY <1>9, <1>10, <1>12, <1>15, <1>16, <1>17, <1>21

-----------------------------------------------------------------------------
(* Decompression with zlib and bzip2. *)
LEMMA LargestExists ==
  ASSUME NEW G, 0 \in G
  PROVE  \A n \in Nat : \E i \in 0..n : i \in G /\ \A j \in 0..n : j \in G => j <= i
<1> DEFINE Top(n, i) == i \in G /\ \A j \in 0..n : j \in G => j <= i
           S == {n \in Nat : \E i \in 0..n : Top(n, i)}
<1>1. 0 \in S
  OBVIOUS
<1>2. ASSUME NEW n \in Nat, n \in S PROVE n + 1 \in S
  <2>1. PICK i \in 0..n : Top(n, i)
    BY <1>2
  <2>2. \A j \in 0..(n + 1) : j \in 0..n \/ j = n + 1
    OBVIOUS
  <2>3. CASE n + 1 \in G
    <3>1. Top(n + 1, n + 1) /\ n + 1 \in 0..(n + 1)
      BY <2>3
    <3> QED
      BY <3>1
  <2>4. CASE n + 1 \notin G
    <3>1. Top(n + 1, i) /\ i \in 0..(n + 1)
      BY <2>1, <2>2, <2>4
    <3> QED
      BY <3>1
  <2> QED
    BY <2>3, <2>4
<1> HIDE DEF S
<1>3. \A n \in Nat : n \in S
  BY <1>1, <1>2, NatSetInduction
<1> QED
  BY <1>3 DEF S

(* The outcome of decompression: n codes, and perhaps the end mark. *)
Decodes(z, in, room, x, n) ==
    /\ n \in 0..Len(in) /\ n <= room /\ \A i \in 1..n : in[i].k = "code"
    /\ x.out = Plain(SubSeq(in, 1, n))
    /\ x.z.seen = z.seen \o x.out /\ x.z.out = z.out
    /\ x.z = [z EXCEPT !.seen = x.z.seen, !.mode = x.z.mode]
    /\ \/ /\ x.z.mode = "run" /\ x.used = n
          /\ x.ret = IF n > 0 THEN "ok" ELSE NoProgress(lib)
          /\ Len(in) >= 1 /\ room >= 1 => n > 0
       \/ /\ x.z.mode = "done" /\ x.used = n + 1 /\ x.ret = "stream_end"
          /\ n < Len(in) /\ in[n + 1] = End(x.z.seen)
       \/ x.z.mode = "bad" /\ x.used = n /\ x.ret = "data_error"

(* Decompression of a stream that goes on. *)
LEMMA DecompressRuns ==
  ASSUME NEW z \in LibraryState, z.mode = "run", NEW in \in Data, NEW room \in Nat,
         NEW x, x = Decompress(lib, z, in, room)
  PROVE  \E n : Decodes(z, in, room, x, n)
<1> DEFINE good(j) == \A i \in 1..j : in[i].k = "code"
           most == Least(room, Len(in))
           n  == CHOOSE i \in 0..most : good(i) /\ \A j \in 0..most : good(j) => j <= i
           seen  == z.seen \o Plain(SubSeq(in, 1, n))
           next  == IF n < Len(in) THEN in[n + 1].k ELSE "none"
           ended == next = "end" /\ in[n + 1] = End(seen)
           bad   == next \notin {"none", "code"} /\ ~ended
<1>1. Len(in) \in Nat /\ most \in Nat /\ most <= room /\ most <= Len(in)
  BY DataLen DEF Least
<1>2. \E i \in 0..most : good(i) /\ \A j \in 0..most : good(j) => j <= i
  <2> DEFINE G == {j \in Nat : good(j)}
  <2>1. 0 \in G
    OBVIOUS
  <2>2. \A j \in 0..most : j \in G <=> good(j)
    BY <1>1
  <2> HIDE DEF G, good, most
  <2>3. \E i \in 0..most : i \in G /\ \A j \in 0..most : j \in G => j <= i
    BY <1>1, <2>1, LargestExists
  <2> QED
    BY <2>2, <2>3
<1>3. n \in 0..most /\ good(n) /\ \A j \in 0..most : good(j) => j <= n
  BY <1>2
<1>4. x = [z    |-> [z EXCEPT !.seen = seen,
                              !.mode = IF ended THEN "done"
                                       ELSE IF bad THEN "bad" ELSE "run"],
           used |-> IF ended THEN n + 1 ELSE n,
           out  |-> Plain(SubSeq(in, 1, n)),
           ret  |-> IF ended THEN "stream_end"
                    ELSE IF bad THEN "data_error"
                    ELSE IF n > 0 THEN "ok" ELSE NoProgress(lib)]
  BY DEF Decompress
<1>5. ~ended /\ ~bad /\ Len(in) >= 1 /\ room >= 1 => n > 0
  <2> SUFFICES ASSUME ~ended, ~bad, Len(in) >= 1, room >= 1, ~(n > 0) PROVE FALSE
    OBVIOUS
  <2>1. n = 0 /\ n < Len(in)
    BY <1>1, <1>3
  <2>2. in[1].k \in {"none", "code"}
    <3> HIDE DEF n, good, most
    <3>1. next = in[1].k
      BY <2>1
    <3> HIDE DEF next, ended
    <3> QED
      BY <3>1
  <2>3. in[1].k # "none"
    <3>1. in[1] \in Unit
      BY <1>1, DataLen
    <3> QED
      BY <3>1 DEF Unit
  <2>4. good(1)
    BY <2>2, <2>3
  <2>5. 1 \in 0..most
    BY <1>1 DEF Least
  <2> HIDE DEF good, most, n
  <2> QED
    BY <1>3, <2>1, <2>4, <2>5
<1>6. ended => n < Len(in) /\ in[n + 1] = End(seen)
  OBVIOUS
<1>7. PICK m : m = n
  OBVIOUS
<1>8. PICK p : p = Plain(SubSeq(in, 1, n))
  OBVIOUS
<1>9. PICK y : y = seen
  OBVIOUS
<1>10. PICK mode : mode = IF ended THEN "done" ELSE IF bad THEN "bad" ELSE "run"
  OBVIOUS
<1>11. m \in 0..Len(in) /\ m <= room /\ \A i \in 1..m : in[i].k = "code"
  <2> HIDE DEF n, most
  <2> QED
    BY <1>1, <1>3, <1>7
<1>12. PICK used : used = IF ended THEN n + 1 ELSE n
  <2> HIDE DEF n, ended
  <2> QED
    OBVIOUS
<1>13. PICK code : code = IF ended THEN "stream_end" ELSE IF bad THEN "data_error"
                        ELSE IF n > 0 THEN "ok" ELSE NoProgress(lib)
  OBVIOUS
<1>14. x = [z |-> [z EXCEPT !.seen = y, !.mode = mode], used |-> used, out |-> p, ret |-> code]
  <2> HIDE DEF n, seen, ended, bad
  <2> QED
    BY <1>4, <1>8, <1>9, <1>10, <1>12, <1>13
<1>15. y = z.seen \o p /\ p = Plain(SubSeq(in, 1, m))
  <2> HIDE DEF n
  <2> QED
    BY <1>7, <1>8, <1>9
<1>16. \/ /\ mode = "run" /\ used = m
          /\ code = IF m > 0 THEN "ok" ELSE NoProgress(lib)
          /\ Len(in) >= 1 /\ room >= 1 => m > 0
       \/ /\ mode = "done" /\ used = m + 1 /\ code = "stream_end"
          /\ m < Len(in) /\ in[m + 1] = End(y)
       \/ mode = "bad" /\ used = m /\ code = "data_error"
  <2> HIDE DEF n, seen, ended, bad
  <2> QED
    BY <1>5, <1>6, <1>7, <1>9, <1>10, <1>12, <1>13
<1> HIDE DEF n, good, most, seen, next, ended, bad
<1>17. /\ x.z.seen = y /\ x.z.out = z.out /\ x.z.mode = mode
       /\ x.z = [z EXCEPT !.seen = y, !.mode = mode]
       /\ x.used = used /\ x.out = p /\ x.ret = code
  <2>1. PICK v : v = [z EXCEPT !.seen = y, !.mode = mode]
    OBVIOUS
  <2>2. v.seen = y /\ v.out = z.out /\ v.mode = mode
    BY <2>1 DEF LibraryState
  <2>3. x = [z |-> v, used |-> used, out |-> p, ret |-> code]
    BY <1>14, <2>1
  <2>4. x.z = v /\ x.used = used /\ x.out = p /\ x.ret = code
    BY <2>3
  <2> QED
    BY <2>1, <2>2, <2>4
<1>18. /\ x.z.seen = z.seen \o x.out
       /\ x.z = [z EXCEPT !.seen = x.z.seen, !.mode = x.z.mode]
       /\ x.out = Plain(SubSeq(in, 1, m)) /\ x.z.out = z.out
  BY <1>15, <1>17
<1>19. \/ /\ x.z.mode = "run" /\ x.used = m
          /\ x.ret = IF m > 0 THEN "ok" ELSE NoProgress(lib)
          /\ Len(in) >= 1 /\ room >= 1 => m > 0
       \/ /\ x.z.mode = "done" /\ x.used = m + 1 /\ x.ret = "stream_end"
          /\ m < Len(in) /\ in[m + 1] = End(x.z.seen)
       \/ x.z.mode = "bad" /\ x.used = m /\ x.ret = "data_error"
  BY <1>16, <1>17
<1>20. Decodes(z, in, room, x, m)
  BY <1>11, <1>18, <1>19 DEF Decodes
<1> QED
  BY <1>20

Grouped(a, b, c) == (a \o b) \o c = a \o (b \o c)

(* Associativity as one fact. *)
LEMMA RegroupIs ==
  ASSUME NEW a \in Data, NEW b \in Data, NEW c \in Data
  PROVE  Grouped(a, b, c)
BY Regroup DEF Grouped

UnzipGives(f, w, o, r, room, x) ==
    /\ x.used \in Nat /\ x.used <= f.avail /\ x.z \in LibraryState
    /\ x.out \in Data /\ Len(x.out) <= room
    /\ \/ /\ x.z.mode \in {"run", "done"}
          /\ Unzipping(Used(f, x.used, x.z), w, o \o x.out, r)
          /\ f.avail >= 1 /\ room >= 1 => x.ret \in {"ok", "stream_end"}
          /\ x.ret \in {"ok", "stream_end", "buf_error"}
          /\ f.avail = 0 => x.ret # "stream_end" /\ x.out = <<>>
       \/ x.z.mode = "bad" /\ x.ret = "data_error"

(* A step of decompression leaves the session sound, or spoils it. *)
LEMMA UnzippingRuns ==
  ASSUME NEW f \in FilterState, f.next + f.avail <= Len(f.buf),
         NEW w \in Data, NEW o \in Data, NEW r \in Data, Unzipping(f, w, o, r),
         f.z.mode = "run", NEW room \in Nat,
         NEW x, x = Decompress(lib, f.z, Input(f), room)
  PROVE  UnzipGives(f, w, o, r, room, x)
<1>1. PICK z \in LibraryState : z = f.z
  BY FilterFields
<1>2. PICK i \in Data : i = Input(f) /\ Len(i) = f.avail
  BY InputIs
<1>3. o \in Text /\ z.seen = o
  BY <1>1, LibraryFields DEF Unzipping
<1>4. PICK n : Decodes(z, i, room, x, n)
  BY <1>1, <1>2, DecompressRuns
<1>5. PICK a \in Nat : a = f.avail
  BY FilterFields
<1>6. n \in Nat /\ n <= a /\ n <= room /\ \A j \in 1..n : i[j].k = "code"
  BY <1>2, <1>4, <1>5 DEF Decodes
<1>7. PICK c : c = SubSeq(i, 1, n)
  OBVIOUS
<1>8. c \in Data /\ Len(c) = n /\ \A j \in 1..n : c[j] = i[j]
  <2>1. n \in Nat /\ n <= Len(i)
    BY <1>2, <1>5, <1>6
  <2> QED
    BY <1>7, <2>1, Head1, ZenonT(60)
<1>9. PICK p : p = x.out
  OBVIOUS
<1>10. p \in Text /\ Len(p) = n /\ Codes(p) = c
  <2>1. p = Plain(c)
    BY <1>4, <1>7, <1>9 DEF Decodes
  <2>2. \A j \in 1..Len(c) : c[j].k = "code"
    BY <1>6, <1>8
  <2> QED
    BY <1>8, <2>1, <2>2, PlainIsCoded
<1>11. p \in Data /\ c \in Data
  BY <1>8, <1>10, TextData
<1>12. o \o p \in Text /\ Codes(o \o p) = Codes(o) \o c
  BY <1>3, <1>10, CodesJoin
<1>13. PICK y \in Text : y = o \o p
  BY <1>12
<1>14. x.z.seen = y /\ x.z.out = z.out /\ x.z = [z EXCEPT !.seen = x.z.seen, !.mode = x.z.mode]
  BY <1>3, <1>4, <1>9, <1>13 DEF Decodes
<1>15. x.z.mode \in {"run", "done", "bad"}
  BY <1>4 DEF Decodes
<1>16. x.z \in LibraryState
  <2>1. PICK v : v = x.z.mode /\ v \in {"run", "done", "bad"}
    BY <1>15
  <2>2. x.z = [z EXCEPT !.seen = y, !.mode = v]
    BY <1>14, <2>1
  <2> QED
    BY <2>1, <2>2 DEF LibraryState
<1>17. PICK k \in Nat : k = x.used /\ k <= a /\ k <= Len(i)
  BY <1>2, <1>4, <1>5, <1>6 DEF Decodes
<1>18. PICK g : g = Used(f, k, x.z)
  OBVIOUS
<1>19. g.z = x.z /\ g.obuf = f.obuf /\ Input(g) = SubSeq(i, k + 1, Len(i))
  <2>1. k <= f.avail
    BY <1>5, <1>17
  <2>2. PICK v \in LibraryState : v = x.z
    BY <1>16
  <2>3. g = Used(f, k, v)
    BY <1>18, <2>2
  <2>4. g.z = v /\ g.obuf = f.obuf /\ Input(g) = SubSeq(Input(f), k + 1, Len(Input(f)))
    BY <2>1, <2>3, UsedIs
  <2> QED
    BY <1>2, <2>2, <2>4
<1>20. w = Codes(o) \o (i \o r)
  BY <1>1, <1>2 DEF Unzipping
<1>21. PICK d \in Data : d = Codes(o)
  BY <1>3, Coded DEF IsCoded
<1>22. g.obuf = <<>> /\ g.z.seen = y
  BY <1>14, <1>19 DEF Unzipping
<1>23. /\ x.used \in Nat /\ x.used <= f.avail /\ x.out \in Data /\ Len(x.out) <= room
  BY <1>5, <1>6, <1>9, <1>10, <1>11, <1>17
<1>24. PICK u : u = SubSeq(i, n + 1, Len(i))
  OBVIOUS
<1>25. u \in Data /\ (d \o c) \o (u \o r) = d \o (i \o r)
  <2>1. n <= Len(i)
    BY <1>2, <1>5, <1>6
  <2>2. Shifts(d, i, r, n)
    BY <1>6, <2>1, TripleJoin, Zenon
  <2> QED
    BY <1>7, <1>24, <2>2 DEF Shifts
<1>26. w = Codes(y) \o (u \o r)
  BY <1>12, <1>13, <1>20, <1>21, <1>25
<1>27. CASE x.z.mode = "run"
  <2>1. /\ k = n /\ x.ret = (IF n > 0 THEN "ok" ELSE NoProgress(lib))
        /\ Len(i) >= 1 /\ room >= 1 => n > 0
    BY <1>4, <1>17, <1>27 DEF Decodes
  <2>2. Input(g) = u
    BY <1>19, <1>24, <2>1
  <2>3. Unzipping(g, w, y, r)
    BY <1>19, <1>22, <1>26, <1>27, <2>2 DEF Unzipping
  <2>4. x.ret \in {"ok", "stream_end", "buf_error"} /\ x.ret # "stream_end"
    BY <2>1 DEF NoProgress
  <2>5. f.avail >= 1 /\ room >= 1 => x.ret \in {"ok", "stream_end"}
    BY <1>2, <2>1
  <2>6. f.avail = 0 => x.out = <<>>
    BY <1>5, <1>6, <1>9, <1>10, <1>11, DataLen
  <2> QED
    BY <1>9, <1>13, <1>16, <1>17, <1>18, <1>23, <1>27, <2>3, <2>4, <2>5, <2>6 DEF UnzipGives
<1>28. CASE x.z.mode = "done"
  <2>1. k = n + 1 /\ x.ret = "stream_end" /\ n < Len(i) /\ i[n + 1] = End(y)
    BY <1>4, <1>14, <1>17, <1>28 DEF Decodes
  <2>2. PICK e : e = SubSeq(i, n + 1, n + 1)
    OBVIOUS
  <2>3. n + 1 \in Nat /\ n <= n + 1 /\ n + 1 <= Len(i) /\ (n + 1) - n = 1
    BY <1>2, <1>5, <1>6, <2>1
  <2>4. IsPart(e, i, n, n + 1)
    <3>1. PICK n1 \in Nat : n1 = n + 1
      BY <2>3
    <3>2. n <= n1 /\ n1 <= Len(i)
      BY <2>3, <3>1
    <3>3. IsPart(SubSeq(i, n + 1, n1), i, n, n1)
      BY <1>6, <3>2, PartIs, Zenon
    <3> QED
      BY <2>2, <3>1, <3>3
  <2>5. e = <<End(y)>>
    <3>1. e \in Data /\ Len(e) = 1 /\ e[1] = End(y)
      BY <2>1, <2>3, <2>4 DEF IsPart
    <3>2. PICK v \in Data : v = <<End(y)>> /\ Len(v) = 1 /\ v[1] = End(y)
      BY EndIs, OneUnit
    <3>3. \A j \in 1..1 : e[j] = v[j]
      BY <3>1, <3>2
    <3>4. 1 \in Nat /\ 1 = Len(e) /\ 1 = Len(v)
      BY <3>1, <3>2
    <3>5. e = v
      BY <3>1, <3>3, <3>4, Same
    <3> QED
      BY <3>2, <3>5
  <2>6. PICK q : q = Input(g)
    OBVIOUS
  <2>7. q = SubSeq(i, (n + 1) + 1, Len(i))
    BY <1>19, <2>1, <2>6
  <2>8. q \in Data
    BY <2>3, <2>7, AnyRest
  <2>9. e \o q = u
    <3>1. PICK l \in Nat : l = Len(i)
      BY DataLen
    <3>2. n <= n + 1 /\ n + 1 <= l /\ l <= Len(i)
      BY <2>3, <3>1
    <3>3. SubSeq(i, n + 1, n + 1) \o SubSeq(i, (n + 1) + 1, l) = SubSeq(i, n + 1, l)
      BY <1>6, <2>3, <3>2, Adjacent
    <3> QED
      BY <1>24, <2>2, <2>7, <3>1, <3>3
  <2>10. e \in Data
    BY <2>4 DEF IsPart
  <2>11. PICK h \in Data : h = Codes(y)
    BY Coded DEF IsCoded
  <2>12. (e \o q) \o r = e \o (q \o r)
    BY <2>8, <2>10, Regroup, ZenonT(60)
  <2>13. q \o r \in Data
    BY <2>8, JoinedType
  <2>14. (h \o e) \o (q \o r) = h \o (e \o (q \o r))
    <3>1. PICK v \in Data : v = q \o r
      BY <2>13
    <3>2. Grouped(h, e, v)
      BY <2>10, RegroupIs, Zenon
    <3> QED
      BY <3>1, <3>2 DEF Grouped
  <2>15. w = (h \o e) \o (q \o r)
    BY <1>26, <2>9, <2>11, <2>12, <2>14, Zenon
  <2>16. Marked(y) = h \o e
    BY <2>5, <2>11 DEF Marked
  <2>17. Unzipping(g, w, y, r)
    BY <1>19, <1>22, <1>28, <2>6, <2>15, <2>16 DEF Unzipping
  <2>18. f.avail # 0
    BY <1>2, <1>5, <1>6, <2>1
  <2> QED
    BY <1>9, <1>13, <1>16, <1>17, <1>18, <1>23, <1>28, <2>1, <2>17, <2>18 DEF UnzipGives
<1>29. CASE x.z.mode = "bad"
  <2>1. x.ret = "data_error"
    BY <1>4, <1>29 DEF Decodes
  <2> QED
    BY <1>16, <1>23, <1>29, <2>1 DEF UnzipGives
<1> QED
  BY <1>15, <1>27, <1>28, <1>29

-----------------------------------------------------------------------------
(* A round of pull. *)
Ready ==
    /\ lib \in Library /\ pc = "pull" /\ handler \in {"buffer", "stream"}
    /\ call \in CallState /\ Steady(call.dir, Current) /\ src \in Data
    /\ SizesFit(Current, call, src, pc) /\ Flushed(Current, call, src, pc)
    /\ Request \in Nat /\ Before \in Data

(* The fields of a call have their types. *)
LEMMA CallFields ==
  ASSUME NEW c \in CallState
  PROVE  /\ c.dir \in Direction /\ c.flush \in BOOLEAN /\ c.size \in 0..SizeMax
         /\ c.room \in Nat /\ c.out \in Data /\ c.zret \in LibraryReturn /\ c.err \in Outcome
BY DEF CallState

(* What the provers need of a filter and a call that are ready. *)
LEMMA ReadyIs ==
  ASSUME Ready
  PROVE  /\ Current \in FilterState /\ Current.next + Current.avail <= Len(Current.buf)
         /\ Current.avail \in Nat /\ Current.isize \in Nat
         /\ Current.avail <= Current.isize /\ Current.isize >= InputSize
         /\ call.out \in Data /\ call.size \in Nat /\ Len(call.out) \in Nat
         /\ call.zret = "ok" /\ call.flush \in BOOLEAN /\ call.dir \in Direction
         /\ call.flush => Drained(call.dir, Current, src)
<1>1. /\ call \in CallState /\ Steady(call.dir, Current)
      /\ Flushed(Current, call, src, pc) /\ pc = "pull"
  BY DEF Ready
<1>2. Current \in FilterState
  BY <1>1 DEF Steady
<1>3. Current.avail \in Nat /\ Current.isize \in Nat
  BY <1>2, FilterFields
<1>4. /\ call.out \in Data /\ call.size \in 0..SizeMax /\ call.flush \in BOOLEAN
      /\ call.dir \in Direction
  BY <1>1, CallFields
<1>5. Len(call.out) \in Nat /\ call.size \in Nat
  BY <1>4, DataLen, FilterAssumption
<1> QED
  BY <1>1, <1>2, <1>3, <1>4, <1>5 DEF Steady, Flushed

Goes(f, c, r, p) ==
    /\ filt' = [filt EXCEPT ![call.dir] = f] /\ call' = c /\ src' = r /\ pc' = p
    /\ lib' = lib /\ handler' = handler

(* A pull that returns. *)
LEMMA PullReturnsIs ==
  ASSUME NEW f, NEW c, NEW e \in Outcome, PullReturns(f, c, e), lib' = lib,
         handler' = handler, NEW r, src' = r
  PROVE  Goes(f, [c EXCEPT !.err = e], r, "pulled")
<1>1. e # "abort" /\ e # "spin"
  BY DEF Outcome
<1> QED
  BY <1>1 DEF PullReturns, Goes

(* A pull that goes on. *)
LEMMA ContinueIs ==
  ASSUME NEW f, NEW c, Continue(f, c), pc = "pull", lib' = lib, handler' = handler,
         NEW r, src' = r
  PROVE  Goes(f, c, r, "pull")
BY DEF Continue, Goes

SameCall(c) == c.dir = call.dir /\ c.flush = call.flush

Steps(f, c, r, p) == Goes(f, c, r, p) /\ Fine(f, c, r, p) /\ SameCall(c)

(* A call that returns without moving anything. *)
LEMMA ErrIs ==
  ASSUME NEW c \in CallState, NEW e \in Outcome, NEW d, d = [c EXCEPT !.err = e]
  PROVE  /\ d \in CallState /\ d.err = e /\ d.out = c.out /\ d.size = c.size /\ d.room = c.room
         /\ d.dir = c.dir /\ d.flush = c.flush /\ d.zret = c.zret
BY DEF CallState

(* A pull that returns at once leaves everything sound. *)
LEMMA Returned ==
  ASSUME Ready, NEW e \in Outcome, e # "empty", NEW c, c = [call EXCEPT !.err = e],
         Goes(Current, c, src, "pulled")
  PROVE  Steps(Current, c, src, "pulled") /\ c.out = call.out /\ ~Ended(c, "pulled")
<1>1. /\ c \in CallState /\ c.err = e /\ c.out = call.out /\ c.size = call.size /\ c.room = call.room
      /\ c.dir = call.dir /\ c.flush = call.flush /\ c.zret = call.zret
  BY ErrIs DEF Ready
<1>2. SizesFit(Current, c, src, "pulled")
  BY <1>1 DEF Ready, SizesFit, Short
<1>3. Flushed(Current, c, src, "pulled")
  BY <1>1 DEF Ready, Flushed
<1>4. Fine(Current, c, src, "pulled")
  BY <1>1, <1>2, <1>3 DEF Ready, Fine
<1> QED
  BY <1>1, <1>4 DEF Steps, SameCall, Ended

(* A call that found the filter empty. *)
LEMMA Emptied ==
  ASSUME Ready, NEW c, c = [call EXCEPT !.err = "empty"], Goes(Current, c, src, "pulled"),
         Drained(call.dir, Current, src),
         lib # "lzo" \/ call.dir = "unzip" \/ call.flush => call.out = <<>>,
         call.flush => Clean(Current)
  PROVE  Steps(Current, c, src, "pulled") /\ c.out = call.out /\ c.err = "empty"
<1>1. "empty" \in Outcome
  BY DEF Outcome
<1>2. /\ c \in CallState /\ c.err = "empty" /\ c.out = call.out /\ c.size = call.size /\ c.room = call.room
      /\ c.dir = call.dir /\ c.flush = call.flush /\ c.zret = call.zret
  BY <1>1, ErrIs DEF Ready
<1>3. SizesFit(Current, c, src, "pulled")
  BY <1>2 DEF Ready, SizesFit, Short
<1>4. Flushed(Current, c, src, "pulled")
  BY <1>2 DEF Ready, Flushed
<1>5. Fine(Current, c, src, "pulled")
  BY <1>2, <1>3, <1>4 DEF Ready, Fine
<1> QED
  BY <1>2, <1>5 DEF Steps, SameCall

(* Input that moved from the source into filter f. *)
Carries(f, r, g, q) ==
    /\ g \in FilterState /\ g.isize = f.isize /\ g.obuf = f.obuf /\ g.z = f.z
    /\ g.avail <= g.isize /\ g.next + g.avail <= Len(g.buf) /\ q \in Data
    /\ Input(g) \o q = Input(f) \o r
    /\ lib = "lzo" => g.next = f.next

(* An input fault during a pull. *)
LEMMA FaultSteps ==
  ASSUME Ready, NEW amount \in Nat, amount >= 1, PushFits(Current, amount), ~call.flush,
         NEW dry \in {"ok", "empty"}, Fault(amount, dry), lib' = lib, handler' = handler
  PROVE  \/ \E g, q : /\ Steps(g, call, q, "pull") /\ Carries(Current, src, g, q)
                      /\ g.avail <= Current.avail + amount
         \/ src = <<>> /\ Goes(Current, [call EXCEPT !.err = dry], src, "pulled")
         \/ /\ handler = "stream"
            /\ Goes(Current, [call EXCEPT !.err = "read_error"], src, "pulled")
<1>1. PICK x \in InputFault(Current, amount) :
        /\ src' = x.src
        /\ IF x.err = "ok" THEN Continue(x.f, call)
           ELSE PullReturns(x.f, call, IF x.err = "unhandled" THEN dry ELSE x.err)
  BY DEF Fault
<1>2. FaultGives(Current, amount, x)
  BY ReadyIs, FaultIs DEF Ready
<1>3. CASE /\ x.err = "ok"
           /\ \E n \in 1..amount :
                /\ n <= Len(src) /\ x.src = SubSeq(src, n + 1, Len(src))
                /\ Pushed(Current, x.f, SubSeq(src, 1, n)) /\ Len(SubSeq(src, 1, n)) = n
  <2>1. PICK n \in 1..amount :
                /\ n <= Len(src) /\ x.src = SubSeq(src, n + 1, Len(src))
                /\ Pushed(Current, x.f, SubSeq(src, 1, n)) /\ Len(SubSeq(src, 1, n)) = n
    BY <1>3
  <2>2. PICK g : g = x.f
    OBVIOUS
  <2>3. PICK q : q = x.src
    OBVIOUS
  <2>4. Goes(g, call, q, "pull")
    <3>1. Continue(g, call) /\ src' = q /\ pc = "pull"
      BY <1>1, <1>3, <2>2, <2>3 DEF Ready
    <3> QED
      BY <3>1, ContinueIs
  <2>5. n \in Nat /\ n <= amount
    OBVIOUS
  <2>6. q \in Data /\ Input(g) \o q = Input(Current) \o src
    <3>1. src \in Data /\ Pushed(Current, g, SubSeq(src, 1, n)) /\ q = SubSeq(src, n + 1, Len(src))
      BY <2>1, <2>2, <2>3 DEF Ready
    <3>2. PICK f \in FilterState : f = Current
      BY ReadyIs
    <3>3. PICK r \in Data : r = src
      BY <3>1
    <3>4. f.next + f.avail <= Len(f.buf) /\ n <= Len(r) /\ Pushed(f, g, SubSeq(r, 1, n))
      BY <2>1, <3>1, <3>2, <3>3, ReadyIs
    <3>5. Keeps(f, g, r, n)
      BY <2>5, <3>4, PushedKeeps, Zenon
    <3> QED
      BY <3>1, <3>2, <3>3, <3>5 DEF Keeps
  <2>7. /\ g \in FilterState /\ g.isize = Current.isize /\ g.obuf = Current.obuf
        /\ g.z = Current.z /\ g.avail <= g.isize /\ g.next + g.avail <= Len(g.buf)
        /\ lib = "lzo" => g.next = Current.next
        /\ g.avail = Current.avail + n
    BY <2>1, <2>2 DEF Pushed
  <2>8. Carries(Current, src, g, q)
    BY <2>6, <2>7 DEF Carries
  <2>9. Steady(call.dir, g)
    BY <2>7 DEF Ready, Steady
  <2>10. SizesFit(g, call, q, "pull")
    <3>1. src # <<>>
      BY <2>1, Nothing
    <3>2. Ample(Current, call, src) => Ample(g, call, q)
      BY <2>7, <3>1 DEF Ample
    <3> QED
      BY <3>2 DEF Ready, SizesFit, Short
  <2>11. Flushed(g, call, q, "pull")
    BY ReadyIs DEF Flushed
  <2>12. Fine(g, call, q, "pull")
    BY <2>6, <2>9, <2>10, <2>11 DEF Fine, Ready
  <2>13. Steps(g, call, q, "pull")
    BY <2>4, <2>12 DEF Steps, SameCall
  <2>14. g.avail <= Current.avail + amount
    BY <2>5, <2>7, ReadyIs
  <2> QED
    BY <2>8, <2>13, <2>14
<1>4. CASE src = <<>> /\ x.f = Current /\ x.src = src /\ x.err = "unhandled"
  <2>1. PullReturns(Current, call, dry) /\ src' = src
    BY <1>1, <1>4
  <2>2. dry \in Outcome
    BY DEF Outcome
  <2>3. Goes(Current, [call EXCEPT !.err = dry], src, "pulled")
    BY <2>1, <2>2, PullReturnsIs
  <2> QED
    BY <1>4, <2>3
<1>5. CASE handler = "stream" /\ x.f = Current /\ x.src = src /\ x.err = "read_error"
  <2>1. PullReturns(Current, call, "read_error") /\ src' = src
    BY <1>1, <1>5
  <2>2. "read_error" \in Outcome
    BY DEF Outcome
  <2>3. Goes(Current, [call EXCEPT !.err = "read_error"], src, "pulled")
    BY <2>1, <2>2, PullReturnsIs
  <2> QED
    BY <1>5, <2>3
<1> QED
  BY <1>2, <1>3, <1>4, <1>5 DEF FaultGives

-----------------------------------------------------------------------------
(* Sessions depend on the input that is left, wherever it is. *)
LEMMA ZippingMoves ==
  ASSUME NEW f, NEW s, NEW o, NEW r, Zipping(f, s, o, r), NEW g, NEW q, Carries(f, r, g, q)
  PROVE  Zipping(g, s, o, q)
BY Zenon DEF Zipping, Carries

(* The same for decompression. *)
LEMMA UnzippingMoves ==
  ASSUME NEW f, NEW w, NEW o, NEW r, Unzipping(f, w, o, r), NEW g, NEW q, Carries(f, r, g, q)
  PROVE  Unzipping(g, w, o, q)
BY DEF Unzipping, Carries

(* The same for compression with LZO. *)
LEMMA LzoZipsMoves ==
  ASSUME lib = "lzo", NEW f, NEW s, NEW o, NEW r, LzoZips(f, s, o, r),
         NEW g, NEW q, Carries(f, r, g, q)
  PROVE  LzoZips(g, s, o, q)
<1>1. g.next = f.next /\ g.z = f.z /\ g.obuf = f.obuf /\ Input(g) \o q = Input(f) \o r
  BY DEF Carries
<1> QED
  BY <1>1, Zenon DEF LzoZips

(* The same for decompression with LZO. *)
LEMMA LzoUnzipsMoves ==
  ASSUME lib = "lzo", NEW f, NEW s, NEW o, NEW r, LzoUnzips(f, s, o, r),
         NEW g, NEW q, Carries(f, r, g, q), g.avail <= 3
  PROVE  LzoUnzips(g, s, o, q)
<1>1. g.next = f.next /\ g.z = f.z /\ g.obuf = f.obuf /\ Input(g) \o q = Input(f) \o r
  BY DEF Carries
<1> QED
  BY <1>1, Zenon DEF LzoUnzips

-----------------------------------------------------------------------------
(* A call that returns with its filter as it was. *)
Stays(c) ==
    /\ Steps(Current, c, src, "pulled") /\ c.out = call.out /\ ~Ended(c, "pulled")
    /\ Broken(c, "pulled") => handler = "stream"

(* A pull whose request is filled. *)
LEMMA FilledStays ==
  ASSUME Ready, PullFilled
  PROVE  \E c : Stays(c)
<1>1. PullReturns(Current, call, "ok") /\ lib' = lib /\ handler' = handler /\ src' = src
  BY DEF PullFilled
<1>2. "ok" \in Outcome /\ "ok" # "empty"
  BY DEF Outcome
<1>3. PICK c : c = [call EXCEPT !.err = "ok"]
  OBVIOUS
<1>4. Goes(Current, c, src, "pulled")
  BY <1>1, <1>2, <1>3, PullReturnsIs
<1>5. Steps(Current, c, src, "pulled") /\ c.out = call.out /\ ~Ended(c, "pulled")
  BY <1>2, <1>3, <1>4, Returned
<1>6. c.err = "ok"
  BY <1>3 DEF Ready, CallState
<1> QED
  BY <1>5, <1>6 DEF Stays, Broken

(* A pull whose backend stream fails. *)
LEMMA ReadErrorStays ==
  ASSUME Ready, handler = "stream", NEW c, c = [call EXCEPT !.err = "read_error"],
         Goes(Current, c, src, "pulled")
  PROVE  Stays(c)
<1>1. "read_error" \in Outcome /\ "read_error" # "empty"
  BY DEF Outcome
<1>2. Steps(Current, c, src, "pulled") /\ c.out = call.out /\ ~Ended(c, "pulled")
  BY <1>1, Returned
<1> QED
  BY <1>2 DEF Stays

(* A call that ran dry outside a flush. *)
LEMMA DryStays ==
  ASSUME Ready, ~call.flush, NEW e \in {"ok", "empty"}, NEW c, c = [call EXCEPT !.err = e],
         Goes(Current, c, src, "pulled"),
         e = "empty" => Drained(call.dir, Current, src),
         e = "empty" /\ (lib # "lzo" \/ call.dir = "unzip") => call.out = <<>>
  PROVE  Stays(c)
<1>1. CASE e = "ok"
  <2>1. "ok" \in Outcome /\ "ok" # "empty"
    BY DEF Outcome
  <2>2. Steps(Current, c, src, "pulled") /\ c.out = call.out /\ ~Ended(c, "pulled")
    BY <1>1, <2>1, Returned
  <2>3. c.err = "ok"
    BY <1>1 DEF Ready, CallState
  <2> QED
    BY <2>2, <2>3 DEF Stays, Broken
<1>2. CASE e = "empty"
  <2>1. Steps(Current, c, src, "pulled") /\ c.out = call.out /\ c.err = "empty"
    BY <1>2, Emptied
  <2>2. ~c.flush
    BY <2>1 DEF Steps, SameCall
  <2> QED
    BY <2>1, <2>2 DEF Stays, Broken, Ended
<1> QED
  BY <1>1, <1>2

(* Input faults of the zlib and bzip2 filters. *)
LEMMA ZipFaultsSteps ==
  ASSUME Ready, ZipFaults
  PROVE  \/ \E g, q : Steps(g, call, q, "pull") /\ Carries(Current, src, g, q)
         \/ \E c : Stays(c)
<1>1. /\ lib # "lzo" /\ ~call.flush /\ lib' = lib /\ handler' = handler
      /\ Current.avail = 0 \/ call.zret \in ZIP.needMore
      /\ Fault(Current.isize - Current.avail, EmptyUnless(call.out))
  BY DEF ZipFaults
<1>2. Current.avail = 0
  <2>1. call.zret = "ok" /\ lib \in {"zlib", "bzip2"} /\ call.dir \in {"zip", "unzip"}
    BY <1>1, ReadyIs DEF Ready, Library, Stream, Direction
  <2>2. "ok" \notin ZIP.needMore
    BY <2>1 DEF ZIP, ZlibZip, ZlibUnzip, Bzip2Zip, Bzip2Unzip
  <2> QED
    BY <1>1, <2>1, <2>2
<1>3. PICK amount \in Nat : amount = Current.isize - Current.avail /\ amount >= 1
                            /\ amount <= Current.isize
  BY <1>2, ReadyIs, Sizes3
<1>4. PICK dry : dry = EmptyUnless(call.out)
  OBVIOUS
<1>5. dry \in {"ok", "empty"} /\ (dry = "empty" => call.out = <<>>)
  BY <1>4 DEF EmptyUnless
<1>6. PushFits(Current, amount) /\ Fault(amount, dry)
  BY <1>1, <1>2, <1>3, <1>4 DEF PushFits
<1>7. CASE \E g, q : Steps(g, call, q, "pull") /\ Carries(Current, src, g, q)
  BY <1>7
<1>8. CASE src = <<>> /\ Goes(Current, [call EXCEPT !.err = dry], src, "pulled")
  <2>1. Drained(call.dir, Current, src)
    BY <1>2, <1>8 DEF Drained
  <2>2. PICK c : c = [call EXCEPT !.err = dry]
    OBVIOUS
  <2>3. Stays(c)
    BY <1>1, <1>5, <1>8, <2>1, <2>2, DryStays
  <2> QED
    BY <2>3
<1>9. CASE handler = "stream" /\ Goes(Current, [call EXCEPT !.err = "read_error"], src, "pulled")
  BY <1>9, ReadErrorStays
<1> QED
  BY <1>1, <1>3, <1>5, <1>6, <1>7, <1>8, <1>9, FaultSteps

-----------------------------------------------------------------------------
(* A call of zlib or bzip2 within a pull. *)
Gave(x) == [call EXCEPT !.out = @ \o x.out, !.zret = x.ret]

(* The library used some of the input and gave what there was room for. *)
Sound(x) ==
    /\ x.used \in Nat /\ x.used <= Current.avail /\ x.z \in LibraryState
    /\ x.out \in Data /\ Len(x.out) <= call.size - Len(call.out) /\ x.ret \in LibraryReturn

(* The call after the library gave something. *)
LEMMA GaveIs ==
  ASSUME Ready, lib # "lzo", Wanting, NEW x, Sound(x), NEW c, c = Gave(x)
  PROVE  /\ c \in CallState /\ c.out = call.out \o x.out /\ c.size = call.size /\ c.room = call.room
         /\ c.dir = call.dir /\ c.flush = call.flush /\ c.zret = x.ret
         /\ Len(c.out) <= Request /\ c.size = Request /\ c.room = Request
<1>1. PICK y : y = call.out \o x.out
  OBVIOUS
<1>2. y \in Data /\ Len(y) = Len(call.out) + Len(x.out)
  BY <1>1, ReadyIs, JoinedType DEF Sound
<1>3. Len(x.out) \in Nat
  BY DataLen DEF Sound
<1>4. Len(y) <= call.size
  <2>1. Len(x.out) <= call.size - Len(call.out)
    BY DEF Sound
  <2>2. call.size \in Nat /\ Len(call.out) \in Nat
    BY ReadyIs
  <2>3. PICK a \in Nat : a = Len(call.out)
    BY <2>2
  <2>4. PICK b \in Nat : b = Len(x.out)
    BY <1>3
  <2>5. PICK n \in Nat : n = call.size
    BY <2>2
  <2>6. Len(y) = a + b /\ b <= n - a
    BY <1>2, <2>1, <2>3, <2>4, <2>5
  <2> QED
    BY <2>5, <2>6
<1>5. c = [call EXCEPT !.out = y, !.zret = x.ret]
  BY <1>1 DEF Gave
<1>6. /\ c \in CallState /\ c.out = y /\ c.size = call.size /\ c.room = call.room
      /\ c.dir = call.dir /\ c.flush = call.flush /\ c.zret = x.ret
  BY <1>2, <1>5 DEF CallState, Ready, Sound
<1>7. call.size = Request /\ call.room = Request
  BY DEF Ready, SizesFit, Short
<1> QED
  BY <1>1, <1>4, <1>6, <1>7

(* The filter after the library used something. *)
LEMMA UsedSteady ==
  ASSUME Ready, NEW x, Sound(x), NEW g, g = Used(Current, x.used, x.z)
  PROVE  /\ Steady(call.dir, g) /\ g.z = x.z /\ g.obuf = Current.obuf
         /\ g.avail = Current.avail - x.used
<1>1. PICK f \in FilterState : f = Current
  BY ReadyIs
<1>2. PICK k \in Nat : k = x.used
  BY DEF Sound
<1>3. PICK z \in LibraryState : z = x.z
  BY DEF Sound
<1>4. f.next + f.avail <= Len(f.buf) /\ k <= f.avail /\ g = Used(f, k, z)
  BY <1>1, <1>2, <1>3, ReadyIs DEF Sound
<1>5. /\ g \in FilterState /\ g.z = z /\ g.obuf = f.obuf /\ g.isize = f.isize
      /\ g.avail = f.avail - k /\ g.next + g.avail <= Len(g.buf)
  BY <1>4, UsedIs
<1>6. Steady(call.dir, f) /\ f.avail \in Nat /\ f.isize \in Nat
  BY <1>1, ReadyIs DEF Ready
<1>7. Steady(call.dir, g)
  BY <1>5, <1>6 DEF Steady
<1> QED
  BY <1>1, <1>2, <1>3, <1>5, <1>7

(* Whatever is flushed remains so. *)
LEMMA UsedDrained ==
  ASSUME Ready, NEW x, Sound(x), NEW g, g = Used(Current, x.used, x.z), call.flush,
         lib # "lzo"
  PROVE  Drained(call.dir, g, src) /\ Current.avail = 0 /\ src = <<>> /\ g.avail = 0
         /\ x.used = 0
<1>1. Current.avail = 0 /\ src = <<>>
  BY ReadyIs DEF Drained
<1>2. x.used = 0
  BY <1>1 DEF Sound
<1>3. g.avail = 0
  BY <1>1, <1>2, UsedSteady
<1> QED
  BY <1>1, <1>2, <1>3 DEF Drained

(* The ways a pull goes on after a call of the library. *)
LEMMA GaveSteps ==
  ASSUME Ready, lib # "lzo", Wanting, NEW x, Sound(x), NEW g, g = Used(Current, x.used, x.z),
         x.ret = "ok", Goes(g, Gave(x), src, "pull"), ~call.flush
  PROVE  Steps(g, Gave(x), src, "pull")
<1>1. PICK c : c = Gave(x)
  OBVIOUS
<1>2. /\ c \in CallState /\ c.dir = call.dir /\ c.flush = call.flush /\ c.zret = x.ret
      /\ Len(c.out) <= Request /\ c.size = Request /\ c.room = Request
  BY <1>1, GaveIs
<1>3. Steady(call.dir, g)
  BY UsedSteady
<1>4. SizesFit(g, c, src, "pull")
  BY <1>2 DEF SizesFit, Short
<1>5. Flushed(g, c, src, "pull")
  BY <1>2 DEF Flushed
<1>6. Fine(g, c, src, "pull")
  BY <1>2, <1>3, <1>4, <1>5 DEF Fine, Ready
<1> QED
  BY <1>1, <1>2, <1>6 DEF Steps, SameCall

(* A pull that returns what the library gave. *)
LEMMA GaveReturns ==
  ASSUME Ready, lib # "lzo", Wanting, NEW x, Sound(x), NEW g, g = Used(Current, x.used, x.z),
         NEW e \in {"ok", "filter_error"}, NEW d, d = [Gave(x) EXCEPT !.err = e],
         Goes(g, d, src, "pulled")
  PROVE  /\ Steps(g, d, src, "pulled") /\ d.out = call.out \o x.out /\ d.err = e
         /\ ~Ended(d, "pulled")
<1>1. PICK c : c = Gave(x)
  OBVIOUS
<1>2. /\ c \in CallState /\ c.dir = call.dir /\ c.flush = call.flush /\ c.zret = x.ret
      /\ Len(c.out) <= Request /\ c.size = Request /\ c.room = Request /\ c.out = call.out \o x.out
  BY <1>1, GaveIs
<1>3. e \in Outcome /\ e # "empty"
  BY DEF Outcome
<1>4. /\ d \in CallState /\ d.err = e /\ d.out = c.out /\ d.size = c.size /\ d.room = c.room
      /\ d.dir = c.dir /\ d.flush = c.flush
  <2>1. d = [c EXCEPT !.err = e] /\ c \in CallState
    BY <1>1, <1>2
  <2> QED
    BY <1>3, <2>1 DEF CallState
<1>5. Steady(call.dir, g)
  BY UsedSteady
<1>6. SizesFit(g, d, src, "pulled")
  BY <1>2, <1>4 DEF SizesFit, Short
<1>7. call.flush => Drained(call.dir, g, src)
  BY UsedDrained
<1>8. Flushed(g, d, src, "pulled")
  BY <1>2, <1>3, <1>4, <1>7 DEF Flushed
<1>9. Fine(g, d, src, "pulled")
  BY <1>2, <1>4, <1>5, <1>6, <1>8 DEF Fine, Ready
<1> QED
  BY <1>2, <1>3, <1>4, <1>9 DEF Steps, SameCall, Ended

(* The output of a corrupted block is dropped. *)
LEMMA CorruptReturns ==
  ASSUME Ready, lib # "lzo", Wanting, NEW x, Sound(x), NEW g, g = Used(Current, x.used, x.z),
         NEW d, d = [call EXCEPT !.err = "filter_error"], Goes(g, d, src, "pulled")
  PROVE  /\ Steps(g, d, src, "pulled") /\ d.err = "filter_error" /\ ~Ended(d, "pulled")
<1>1. "filter_error" \in Outcome
  BY DEF Outcome
<1>2. /\ d \in CallState /\ d.err = "filter_error" /\ d.out = call.out /\ d.size = call.size /\ d.room = call.room
      /\ d.dir = call.dir /\ d.flush = call.flush
  BY <1>1, ErrIs DEF Ready
<1>3. Steady(call.dir, g)
  BY UsedSteady
<1>4. SizesFit(g, d, src, "pulled")
  BY <1>2 DEF SizesFit, Short, Ready
<1>5. call.flush => Drained(call.dir, g, src)
  BY UsedDrained
<1>6. Flushed(g, d, src, "pulled")
  BY <1>2, <1>5 DEF Flushed
<1>7. Fine(g, d, src, "pulled")
  BY <1>2, <1>3, <1>4, <1>6 DEF Fine, Ready
<1> QED
  BY <1>2, <1>7 DEF Steps, SameCall, Ended

(* A flush that gave nothing resets the library. *)
LEMMA ResetReturns ==
  ASSUME Ready, lib # "lzo", Wanting, NEW x, Sound(x), NEW g, g = Used(Current, x.used, x.z),
         Current.obuf = <<>>, call.flush, call.out \o x.out = <<>>,
         NEW h, h = [g EXCEPT !.z = Fresh],
         NEW d, d = [Gave(x) EXCEPT !.err = "empty"], Goes(h, d, src, "pulled")
  PROVE  Steps(h, d, src, "pulled") /\ d.out = <<>> /\ Ended(d, "pulled")
<1>1. PICK c : c = Gave(x)
  OBVIOUS
<1>2. /\ c \in CallState /\ c.dir = call.dir /\ c.flush = call.flush /\ c.zret = x.ret
      /\ Len(c.out) <= Request /\ c.size = Request /\ c.room = Request /\ c.out = <<>>
  BY <1>1, GaveIs
<1>3. "empty" \in Outcome
  BY DEF Outcome
<1>4. /\ d \in CallState /\ d.err = "empty" /\ d.out = c.out /\ d.size = c.size /\ d.room = c.room
      /\ d.dir = c.dir /\ d.flush = c.flush
  <2>1. d = [c EXCEPT !.err = "empty"] /\ c \in CallState
    BY <1>1, <1>2
  <2> QED
    BY <1>3, <2>1 DEF CallState
<1>5. Steady(call.dir, g) /\ g.obuf = <<>>
  BY UsedSteady
<1>6. g.avail = 0 /\ src = <<>>
  BY UsedDrained
<1>7. Fresh \in LibraryState
  BY Nothing DEF Fresh, LibraryState
<1>8. /\ h \in FilterState /\ h.avail = g.avail /\ h.obuf = g.obuf /\ h.isize = g.isize
      /\ h.buf = g.buf /\ h.next = g.next /\ h.z = Fresh
  BY <1>5, <1>7 DEF Steady, FilterState
<1>9. Steady(call.dir, h)
  BY <1>5, <1>8 DEF Steady
<1>10. SizesFit(h, d, src, "pulled")
  BY <1>2, <1>4 DEF SizesFit, Short
<1>11. Clean(h) /\ Drained(call.dir, h, src)
  BY <1>5, <1>6, <1>8 DEF Clean, Drained
<1>12. Flushed(h, d, src, "pulled")
  BY <1>2, <1>4, <1>11 DEF Flushed
<1>13. Fine(h, d, src, "pulled")
  BY <1>2, <1>4, <1>9, <1>10, <1>12 DEF Fine, Ready
<1> QED
  BY <1>2, <1>4, <1>13 DEF Steps, SameCall, Ended

Drops(g) == \E d : Steps(g, d, src, "pulled") /\ d.err = "filter_error" /\ ~Ended(d, "pulled")
Resets == \E h, d : Steps(h, d, src, "pulled") /\ d.out = <<>> /\ Ended(d, "pulled")
Gives(g, x, e) ==
    \E d : /\ Steps(g, d, src, "pulled") /\ d.out = call.out \o x.out /\ d.err = e
           /\ ~Ended(d, "pulled")

(* What pull makes of each return code. *)
LEMMA AfterIs ==
  ASSUME Ready, lib # "lzo", Wanting, NEW x, Sound(x), NEW g, g = Used(Current, x.used, x.z),
         Current.obuf = <<>>, AfterProcess(g, Gave(x), x.ret), lib' = lib,
         handler' = handler, src' = src
  PROVE  IF x.ret \in ZIP.corrupted THEN Drops(g)
         ELSE IF call.flush
         THEN IF x.ret \in ZIP.ended /\ call.out \o x.out = <<>> THEN Resets
              ELSE Gives(g, x, "ok")
         ELSE IF x.ret \in ZIP.cantProduceMore THEN Gives(g, x, "ok")
         ELSE IF x.ret # "ok" THEN Gives(g, x, "filter_error")
         ELSE Steps(g, Gave(x), src, "pull")
<1>1. PICK c : c = Gave(x)
  OBVIOUS
<1>2. c.out = call.out \o x.out
  BY <1>1, GaveIs
<1>3. {"ok", "empty", "filter_error"} \subseteq Outcome /\ pc = "pull"
  BY DEF Outcome, Ready
<1>4. CASE x.ret \in ZIP.corrupted
  <2>1. PullReturns(g, call, "filter_error")
    BY <1>4 DEF AfterProcess
  <2>2. PICK d : d = [call EXCEPT !.err = "filter_error"]
    OBVIOUS
  <2>3. Goes(g, d, src, "pulled")
    BY <1>3, <2>1, <2>2, PullReturnsIs
  <2>4. Drops(g)
    BY <2>2, <2>3, CorruptReturns DEF Drops
  <2> QED
    BY <1>4, <2>4
<1>5. ASSUME NEW e \in {"ok", "filter_error"}, PullReturns(g, Gave(x), e) PROVE Gives(g, x, e)
  <2>1. PICK d : d = [Gave(x) EXCEPT !.err = e]
    OBVIOUS
  <2>2. e \in Outcome
    BY <1>3
  <2>3. Goes(g, d, src, "pulled")
    BY <1>5, <2>1, <2>2, PullReturnsIs
  <2>4. /\ Steps(g, d, src, "pulled") /\ d.out = call.out \o x.out /\ d.err = e
        /\ ~Ended(d, "pulled")
    BY <1>5, <2>1, <2>3, GaveReturns
  <2> QED
    BY <2>4 DEF Gives
<1>6. CASE x.ret \notin ZIP.corrupted /\ call.flush
  <2>1. CASE x.ret \in ZIP.ended /\ call.out \o x.out = <<>>
    <3>1. PICK h : h = [g EXCEPT !.z = Fresh]
      OBVIOUS
    <3>2. PullReturns(h, Gave(x), "empty")
      BY <1>1, <1>2, <1>6, <2>1, <3>1 DEF AfterProcess
    <3>3. PICK d : d = [Gave(x) EXCEPT !.err = "empty"]
      OBVIOUS
    <3>4. Goes(h, d, src, "pulled")
      BY <1>3, <3>2, <3>3, PullReturnsIs
    <3>5. Steps(h, d, src, "pulled") /\ d.out = <<>> /\ Ended(d, "pulled")
      BY <1>6, <2>1, <3>1, <3>3, <3>4, ResetReturns
    <3> QED
      BY <1>6, <2>1, <3>5 DEF Resets
  <2>2. CASE ~(x.ret \in ZIP.ended /\ call.out \o x.out = <<>>)
    <3>1. PullReturns(g, Gave(x), "ok")
      BY <1>1, <1>2, <1>6, <2>2 DEF AfterProcess
    <3> QED
      BY <1>5, <1>6, <2>2, <3>1
  <2> QED
    BY <2>1, <2>2
<1>7. CASE x.ret \notin ZIP.corrupted /\ ~call.flush
  <2>1. CASE x.ret \in ZIP.cantProduceMore
    <3>1. PullReturns(g, Gave(x), "ok")
      BY <1>7, <2>1 DEF AfterProcess
    <3> QED
      BY <1>5, <1>7, <2>1, <3>1
  <2>2. CASE x.ret \notin ZIP.cantProduceMore /\ x.ret # "ok"
    <3>1. PullReturns(g, Gave(x), "filter_error")
      BY <1>7, <2>2 DEF AfterProcess
    <3> QED
      BY <1>5, <1>7, <2>2, <3>1
  <2>3. CASE x.ret \notin ZIP.cantProduceMore /\ x.ret = "ok"
    <3>1. Continue(g, Gave(x))
      BY <1>7, <2>3 DEF AfterProcess
    <3>2. Goes(g, Gave(x), src, "pull")
      BY <1>3, <3>1, ContinueIs
    <3>3. Steps(g, Gave(x), src, "pull")
      BY <1>7, <2>3, <3>2, GaveSteps
    <3> QED
      BY <1>7, <2>3, <3>3
  <2> QED
    BY <2>1, <2>2, <2>3
<1> QED
  BY <1>4, <1>6, <1>7

(* What a call of the library within pull starts from. *)
LEMMA ProcessIs ==
  ASSUME Ready, ZipProcess
  PROVE  /\ lib # "lzo" /\ Wanting /\ lib' = lib /\ handler' = handler /\ src' = src
         /\ call.flush \/ Current.avail # 0
         /\ \E x \in Processed : AfterProcess(Used(Current, x.used, x.z), Gave(x), x.ret)
<1>1. /\ lib # "lzo" /\ Wanting /\ lib' = lib /\ handler' = handler /\ src' = src
      /\ call.flush \/ Current.avail # 0
  BY DEF ZipProcess
<1>2. \E x \in Processed : AfterProcess(Used(Current, x.used, x.z), Gave(x), x.ret)
  BY DEF ZipProcess, Used, Gave
<1> QED
  BY <1>1, <1>2

-----------------------------------------------------------------------------
(* Pulls that compress with zlib and bzip2. *)
ZipStep(s) ==
    \E f, c, r, p : /\ Steps(f, c, r, p) /\ Compresses(s, f, c, r, p)
                    /\ Broken(c, p) => handler = "stream"

(* What went out and what is pending. *)
LEMMA OutIs ==
  ASSUME Ready
  PROVE  /\ Before \o call.out \in Data
         /\ \A y \in Data : (Before \o call.out) \o y = Before \o (call.out \o y)
<1>1. Before \in Data /\ call.out \in Data
  BY ReadyIs DEF Ready
<1>2. PICK a \in Data : a = Before
  BY <1>1
<1>3. PICK b \in Data : b = call.out
  BY <1>1
<1>4. a \o b \in Data
  BY JoinedType
<1>5. ASSUME NEW y \in Data PROVE Grouped(a, b, y)
  BY <1>5, RegroupIs, ZenonT(60)
<1> QED
  BY <1>2, <1>3, <1>4, <1>5 DEF Grouped

(* A library with input left has not finished. *)
LEMMA ZippingRuns ==
  ASSUME NEW f \in FilterState, f.next + f.avail <= Len(f.buf), f.avail # 0,
         NEW s \in Text, NEW o \in Data, NEW r \in Data, Zipping(f, s, o, r)
  PROVE  f.z.mode = "run"
<1> SUFFICES ASSUME f.z.mode # "run" PROVE FALSE
  OBVIOUS
<1>1. f.z.seen = s /\ f.z.seen \o (Input(f) \o r) = s
  BY Zenon DEF Zipping
<1>2. PICK i \in Data : i = Input(f) /\ Len(i) = f.avail
  BY InputIs
<1>3. PICK y \in Data : y = i \o r /\ Len(y) = Len(i) + Len(r)
  BY JoinedType
<1>4. s \in Data /\ <<>> \in Data
  BY TextData, Nothing
<1>5. s \o y = s \o <<>>
  BY <1>1, <1>2, <1>3, <1>4, Empties
<1>6. y = <<>>
  BY <1>4, <1>5, Cancel
<1>7. Len(y) = 0 /\ Len(r) \in Nat /\ f.avail \in Nat
  BY <1>6, Nothing, DataLen, FilterFields
<1> QED
  BY <1>2, <1>3, <1>7

(* A pull that goes on has room. *)
LEMMA RoomIs ==
  ASSUME Ready, Wanting
  PROVE  call.size - Len(call.out) \in Nat /\ call.size - Len(call.out) >= 1
BY ReadyIs DEF Wanting

(* How the zip filters interpret the return codes. *)
LEMMA ZipCodes ==
  ASSUME lib \in Library, lib # "lzo", call.dir = "zip"
  PROVE  /\ "ok" \notin ZIP.corrupted /\ "ok" \notin ZIP.cantProduceMore
         /\ "stream_end" \notin ZIP.corrupted
         /\ Again(lib) \in ZIP.ended /\ Again(lib) \notin ZIP.corrupted
<1>1. lib \in {"zlib", "bzip2"}
  BY DEF Library, Stream
<1> QED
  BY <1>1 DEF ZIP, ZlibZip, Bzip2Zip, Again

(* How the unzip filters interpret them. *)
LEMMA UnzipCodes ==
  ASSUME lib \in Library, lib # "lzo", call.dir = "unzip"
  PROVE  /\ "ok" \notin ZIP.corrupted /\ "ok" \notin ZIP.cantProduceMore
         /\ "ok" \notin ZIP.ended /\ "buf_error" \notin ZIP.ended
         /\ "buf_error" \notin ZIP.corrupted /\ "stream_end" \notin ZIP.corrupted
         /\ "stream_end" \in ZIP.cantProduceMore /\ "data_error" \in ZIP.corrupted
         /\ Again(lib) \in ZIP.ended /\ Again(lib) \notin ZIP.corrupted
         /\ Again(lib) # "ok"
<1>1. lib \in {"zlib", "bzip2"}
  BY DEF Library, Stream
<1> QED
  BY <1>1 DEF ZIP, ZlibUnzip, Bzip2Unzip, Again

(* Compression without a flush within pull. *)
LEMMA ZipRunSteps ==
  ASSUME Ready, call.dir = "zip", lib # "lzo", Wanting, ~call.flush, Current.avail # 0,
         NEW s \in Text, Zipping(Current, s, Before \o call.out, src),
         NEW x \in Processed, AfterProcess(Used(Current, x.used, x.z), Gave(x), x.ret),
         lib' = lib, handler' = handler, src' = src
  PROVE  ZipStep(s)
<1>1. PICK f \in FilterState : f = Current
  BY ReadyIs
<1>2. PICK o \in Data : o = Before \o call.out
  BY OutIs
<1>3. PICK room \in Nat : room = call.size - Len(call.out) /\ room >= 1
  BY RoomIs
<1>4. PICK r \in Data : r = src
  BY DEF Ready
<1>5. /\ f.next + f.avail <= Len(f.buf) /\ Zipping(f, s, o, r) /\ f.avail # 0
      /\ f.avail \in Nat
  BY <1>1, <1>2, <1>4, ReadyIs
<1>6. f.avail >= 1 /\ f.z.mode = "run"
  BY <1>5, ZippingRuns
<1>7. x \in Compress(lib, f.z, Input(f), room, FALSE)
  <2>1. call.flush = FALSE
    BY ReadyIs
  <2> QED
    BY <1>1, <1>3, <2>1 DEF Processed
<1>8. /\ x.used \in Nat /\ x.used <= f.avail /\ x.z \in LibraryState
      /\ x.out \in Data /\ Len(x.out) <= room /\ x.ret = "ok"
      /\ Zipping(Used(f, x.used, x.z), s, o \o x.out, r)
  BY <1>3, <1>5, <1>6, <1>7, ZippingEmits, ZenonT(60)
<1>9. Sound(x) /\ f.obuf = <<>>
  <2>1. f.obuf = <<>>
    BY <1>5, Zenon DEF Zipping
  <2>2. x.ret \in LibraryReturn
    BY <1>8 DEF LibraryReturn
  <2>3. Sound(x)
    BY <1>1, <1>3, <1>8, <2>2 DEF Sound
  <2> QED
    BY <2>1, <2>3
<1>10. PICK g : g = Used(Current, x.used, x.z)
  OBVIOUS
<1>11. Steps(g, Gave(x), src, "pull")
  BY <1>1, <1>8, <1>9, <1>10, ZipCodes, AfterIs DEF Ready
<1>12. PICK c : c = Gave(x)
  OBVIOUS
<1>13. c.out = call.out \o x.out
  BY <1>9, <1>12, GaveIs
<1>14. o \o x.out = Before \o c.out
  BY <1>2, <1>8, <1>13, OutIs
<1>15. Zipping(g, s, Before \o c.out, src)
  BY <1>1, <1>4, <1>8, <1>10, <1>14
<1>16. Compresses(s, g, c, src, "pull") /\ ~Broken(c, "pull")
  BY <1>15 DEF Compresses, Ended, Broken
<1> QED
  BY <1>11, <1>12, <1>16 DEF ZipStep

(* Compression with a flush within pull. *)
LEMMA ZipFinishSteps ==
  ASSUME Ready, call.dir = "zip", lib # "lzo", Wanting, call.flush, Current.z.mode # "done",
         NEW s \in Text, Zipping(Current, s, Before \o call.out, src),
         NEW x \in Processed, AfterProcess(Used(Current, x.used, x.z), Gave(x), x.ret),
         lib' = lib, handler' = handler, src' = src
  PROVE  ZipStep(s)
<1>1. PICK f \in FilterState : f = Current
  BY ReadyIs
<1>2. PICK o \in Data : o = Before \o call.out
  BY OutIs
<1>3. PICK room \in Nat : room = call.size - Len(call.out) /\ room >= 1
  BY RoomIs
<1>4. src = <<>> /\ f.avail = 0 /\ f.next + f.avail <= Len(f.buf)
  BY <1>1, ReadyIs DEF Drained
<1>5. Zipping(f, s, o, <<>>) /\ f.z.mode # "done" /\ Input(f) = <<>>
  BY <1>1, <1>2, <1>4, InputIs
<1>6. x \in Compress(lib, f.z, <<>>, room, TRUE)
  <2>1. call.flush = TRUE
    BY ReadyIs
  <2> QED
    BY <1>1, <1>3, <1>5, <2>1 DEF Processed
<1>7. /\ x.used = 0 /\ x.z \in LibraryState /\ x.out \in Data /\ Len(x.out) <= room
      /\ x.out # <<>> /\ x.ret \in {"ok", "stream_end"}
      /\ Zipping(Used(f, 0, x.z), s, o \o x.out, <<>>)
  BY <1>3, <1>4, <1>5, <1>6, ZippingFinishes, Zenon
<1>8. Sound(x) /\ f.obuf = <<>>
  <2>1. f.obuf = <<>>
    BY <1>5, Zenon DEF Zipping
  <2>2. x.ret \in LibraryReturn /\ x.used \in Nat /\ x.used <= f.avail
    BY <1>4, <1>7 DEF LibraryReturn
  <2>3. Sound(x)
    BY <1>1, <1>3, <1>7, <2>2 DEF Sound
  <2> QED
    BY <2>1, <2>3
<1>9. call.out \o x.out # <<>>
  <2>1. PICK a \in Data : a = call.out
    BY ReadyIs
  <2>2. PICK b \in Data : b = x.out /\ b # <<>>
    BY <1>7
  <2>3. Len(a \o b) = Len(a) + Len(b) /\ Len(a) \in Nat /\ Len(b) \in Nat /\ Len(b) # 0
    BY <2>2, JoinedType, DataLen
  <2>4. Len(a \o b) # 0
    BY <2>3
  <2> QED
    BY <2>1, <2>2, <2>4, Nothing
<1>10. PICK g : g = Used(Current, x.used, x.z)
  OBVIOUS
<1>11. Gives(g, x, "ok")
  <2>1. x.ret \notin ZIP.corrupted
    BY <1>7, ZipCodes DEF Ready
  <2> QED
    BY <1>1, <1>8, <1>9, <1>10, <2>1, AfterIs
<1>12. PICK d : /\ Steps(g, d, src, "pulled") /\ d.out = call.out \o x.out /\ d.err = "ok"
                /\ ~Ended(d, "pulled")
  BY <1>11 DEF Gives
<1>13. o \o x.out = Before \o d.out
  BY <1>2, <1>7, <1>12, OutIs
<1>14. Zipping(g, s, Before \o d.out, src)
  BY <1>1, <1>4, <1>7, <1>10, <1>13
<1>15. Compresses(s, g, d, src, "pulled") /\ ~Broken(d, "pulled")
  BY <1>12, <1>14 DEF Compresses, Broken
<1> QED
  BY <1>12, <1>15 DEF ZipStep

(* A library that has ended says so and does nothing. *)
Idle(z, x) == x.z = z /\ x.used = 0 /\ x.out = <<>> /\ x.ret = Again(lib)

(* A library that does nothing changes nothing. *)
LEMMA IdleIs ==
  ASSUME Ready, lib # "lzo", Wanting, NEW x, Idle(Current.z, x)
  PROVE  /\ Sound(x) /\ call.out \o x.out = call.out
         /\ \E g \in FilterState :
              /\ g = Used(Current, x.used, x.z) /\ g.z = Current.z /\ g.obuf = Current.obuf
              /\ g.avail = Current.avail /\ Input(g) = Input(Current)
<1>1. PICK f \in FilterState : f = Current
  BY ReadyIs
<1>2. PICK z \in LibraryState : z = f.z
  BY FilterFields
<1>3. Again(lib) \in LibraryReturn
  BY DEF Again, LibraryReturn
<1>4. Len(x.out) = 0 /\ x.out \in Data
  BY Nothing DEF Idle
<1>5. Sound(x)
  BY <1>1, <1>2, <1>3, <1>4, ReadyIs, RoomIs DEF Sound, Idle
<1>6. call.out \o x.out = call.out
  BY ReadyIs, Empties DEF Idle
<1>7. PICK g : g = Used(f, 0, z)
  OBVIOUS
<1>8. f.next + f.avail <= Len(f.buf) /\ 0 \in Nat /\ 0 <= f.avail /\ f.avail - 0 = f.avail
  BY <1>1, ReadyIs
<1>9. /\ g \in FilterState /\ g.z = z /\ g.obuf = f.obuf /\ g.avail = f.avail - 0
      /\ Input(g) = SubSeq(Input(f), 0 + 1, Len(Input(f)))
  BY <1>7, <1>8, UsedIs
<1>10. PICK i \in Data : i = Input(f)
  BY <1>8, InputIs
<1>11. Input(g) = Input(f)
  <2>1. SubSeq(i, 1, Len(i)) = i /\ 0 + 1 = 1
    BY Ends
  <2> QED
    BY <1>9, <1>10, <2>1
<1>12. g = Used(Current, x.used, x.z)
  BY <1>1, <1>2, <1>7 DEF Idle
<1> QED
  BY <1>1, <1>2, <1>5, <1>6, <1>8, <1>9, <1>11, <1>12

(* Flushing a library that has finished: nothing came, it is reset. *)
LEMMA ZipDoneSteps ==
  ASSUME Ready, call.dir = "zip", lib # "lzo", Wanting, call.flush, Current.z.mode = "done",
         NEW s \in Text, Zipping(Current, s, Before \o call.out, src),
         NEW x \in Processed, AfterProcess(Used(Current, x.used, x.z), Gave(x), x.ret),
         lib' = lib, handler' = handler, src' = src
  PROVE  ZipStep(s)
<1>1. Idle(Current.z, x)
  BY DEF Processed, Compress, Idle
<1>2. PICK g \in FilterState :
         /\ g = Used(Current, x.used, x.z) /\ g.z = Current.z /\ g.obuf = Current.obuf
         /\ g.avail = Current.avail /\ Input(g) = Input(Current)
  BY <1>1, IdleIs
<1>3. Sound(x) /\ call.out \o x.out = call.out /\ x.ret = Again(lib)
  BY <1>1, IdleIs DEF Idle
<1>4. Current.obuf = <<>>
  BY DEF Zipping
<1>5. x.ret \in ZIP.ended /\ x.ret \notin ZIP.corrupted
  BY <1>3, ZipCodes DEF Ready
<1>6. Before \o call.out = Marked(s)
  <2>1. PICK o \in Data : o = Before \o call.out
    BY OutIs
  <2>2. Zipping(Current, s, o, src)
    BY <2>1
  <2>3. Len(o) = Len(s) + 1 /\ o = SubSeq(Marked(s), 1, Len(o))
    BY <2>2 DEF Zipping
  <2>4. PICK w \in Data : w = Marked(s) /\ Len(w) = Len(s) + 1
    BY MarkedIs DEF IsMarked
  <2>5. o = SubSeq(w, 1, Len(w))
    BY <2>3, <2>4
  <2> QED
    BY <2>1, <2>4, <2>5, Ends
<1>7. CASE call.out = <<>>
  <2>1. Resets
    BY <1>2, <1>3, <1>4, <1>5, <1>7, AfterIs
  <2>2. PICK h, d : Steps(h, d, src, "pulled") /\ d.out = <<>> /\ Ended(d, "pulled")
    BY <2>1 DEF Resets
  <2>3. Compresses(s, h, d, src, "pulled")
    BY <1>6, <1>7, <2>2 DEF Compresses
  <2>4. ~Broken(d, "pulled")
    BY <2>2 DEF Broken, Ended
  <2> QED
    BY <2>2, <2>3, <2>4 DEF ZipStep
<1>8. CASE call.out # <<>>
  <2>1. Gives(g, x, "ok")
    BY <1>2, <1>3, <1>4, <1>5, <1>8, AfterIs
  <2>2. PICK d : /\ Steps(g, d, src, "pulled") /\ d.out = call.out \o x.out /\ d.err = "ok"
                 /\ ~Ended(d, "pulled")
    BY <2>1 DEF Gives
  <2>3. Zipping(g, s, Before \o d.out, src)
    <3>1. d.out = call.out
      BY <1>3, <2>2
    <3>2. Zipping(g, s, Before \o call.out, src)
      BY <1>2 DEF Zipping
    <3> QED
      BY <3>1, <3>2
  <2>4. Compresses(s, g, d, src, "pulled") /\ ~Broken(d, "pulled")
    BY <2>2, <2>3 DEF Compresses, Broken
  <2> QED
    BY <2>2, <2>4 DEF ZipStep
<1> QED
  BY <1>7, <1>8

(* A filter that does not move keeps its session. *)
LEMMA StaysZips ==
  ASSUME Ready, NEW s, Compresses(s, Current, call, src, pc), NEW c, Stays(c)
  PROVE  ZipStep(s)
<1>1. /\ Steps(Current, c, src, "pulled") /\ c.out = call.out /\ ~Ended(c, "pulled")
      /\ Broken(c, "pulled") => handler = "stream"
  BY DEF Stays
<1>2. ~Ended(call, pc)
  BY DEF Ready, Ended
<1>3. Compresses(s, Current, c, src, "pulled")
  BY <1>1, <1>2 DEF Compresses
<1> QED
  BY <1>1, <1>3 DEF ZipStep

(* Every round of pull that compresses with zlib or bzip2. *)
LEMMA ZipPull ==
  ASSUME Ready, call.dir = "zip", lib # "lzo", NEW s \in Text,
         Compresses(s, Current, call, src, pc), Pull
  PROVE  ZipStep(s)
<1>1. Zipping(Current, s, Before \o call.out, src)
  BY DEF Compresses, Ended, Ready
<1>2. CASE PullFilled
  BY <1>2, FilledStays, StaysZips
<1>3. CASE ZipFaults
  <2>1. CASE \E c : Stays(c)
    BY <2>1, StaysZips
  <2>2. CASE \E g, q : Steps(g, call, q, "pull") /\ Carries(Current, src, g, q)
    <3>1. PICK g, q : Steps(g, call, q, "pull") /\ Carries(Current, src, g, q)
      BY <2>2
    <3>2. Zipping(g, s, Before \o call.out, q)
      BY <1>1, <3>1, ZippingMoves, Zenon
    <3>3. Compresses(s, g, call, q, "pull") /\ ~Broken(call, "pull")
      BY <3>2 DEF Compresses, Ended, Broken
    <3> QED
      BY <3>1, <3>3 DEF ZipStep
  <2> QED
    BY <1>3, <2>1, <2>2, ZipFaultsSteps
<1>4. CASE ZipProcess
  <2>1. /\ Wanting /\ lib' = lib /\ handler' = handler /\ src' = src
        /\ call.flush \/ Current.avail # 0
    BY <1>4, ProcessIs
  <2>2. PICK x \in Processed : AfterProcess(Used(Current, x.used, x.z), Gave(x), x.ret)
    BY <1>4, ProcessIs
  <2>3. CASE ~call.flush
    BY <1>1, <2>1, <2>2, <2>3, ZipRunSteps
  <2>4. CASE call.flush /\ Current.z.mode # "done"
    BY <1>1, <2>1, <2>2, <2>4, ZipFinishSteps
  <2>5. CASE call.flush /\ Current.z.mode = "done"
    BY <1>1, <2>1, <2>2, <2>5, ZipDoneSteps
  <2> QED
    BY <2>3, <2>4, <2>5
<1> QED
  BY <1>2, <1>3, <1>4 DEF Pull, LzoDelivers, LzoZipFaults, LzoCompress, LzoUnzipFlushed,
        LzoHeaderFault, LzoDecompress, LzoZipping, LzoUnzipping

-----------------------------------------------------------------------------
(* Pulls that decompress with zlib and bzip2. *)
UnzipStep(w) ==
    \E f, c, r, p : /\ Steps(f, c, r, p)
                    /\ Decompresses(w, f, c, r, p) \/ (Dead(f) /\ Broken(c, p))
                    /\ Broken(c, p) => Dead(f) \/ handler = "stream"

DeadStep == \E f, c, r, p : Steps(f, c, r, p) /\ Dead(f) /\ ~Ended(c, p)

(* A pull that returns at once decompresses as before. *)
LEMMA StaysUnzips ==
  ASSUME Ready, NEW w, Decompresses(w, Current, call, src, pc), NEW c, Stays(c)
  PROVE  UnzipStep(w)
<1>1. /\ Steps(Current, c, src, "pulled") /\ c.out = call.out /\ ~Ended(c, "pulled")
      /\ Broken(c, "pulled") => handler = "stream"
  BY DEF Stays
<1>2. ~Ended(call, pc)
  BY DEF Ready, Ended
<1>3. Decompresses(w, Current, c, src, "pulled")
  BY <1>1, <1>2 DEF Decompresses
<1> QED
  BY <1>1, <1>3 DEF UnzipStep

(* What the library gave was passed on. *)
LEMMA GivesUnzips ==
  ASSUME Ready, NEW w, NEW g, NEW x, x.out \in Data, Gives(g, x, "ok"),
         Unzipping(g, w, (Before \o call.out) \o x.out, src)
  PROVE  UnzipStep(w)
<1>1. PICK d : /\ Steps(g, d, src, "pulled") /\ d.out = call.out \o x.out /\ d.err = "ok"
               /\ ~Ended(d, "pulled")
  BY DEF Gives
<1>2. (Before \o call.out) \o x.out = Before \o d.out
  BY <1>1, OutIs
<1>3. Unzipping(g, w, Before \o d.out, src)
  BY <1>2
<1>4. Decompresses(w, g, d, src, "pulled") /\ ~Broken(d, "pulled")
  BY <1>1, <1>3 DEF Decompresses, Broken
<1> QED
  BY <1>1, <1>4 DEF UnzipStep

(* Decompression before the end of the stream. *)
LEMMA UnzipRunSteps ==
  ASSUME Ready, call.dir = "unzip", lib # "lzo", Wanting, call.flush \/ Current.avail # 0,
         NEW w \in Data, Unzipping(Current, w, Before \o call.out, src),
         Current.z.mode = "run",
         NEW x \in Processed, AfterProcess(Used(Current, x.used, x.z), Gave(x), x.ret),
         lib' = lib, handler' = handler, src' = src
  PROVE  UnzipStep(w)
<1>1. PICK f \in FilterState : f = Current
  BY ReadyIs
<1>2. PICK o \in Data : o = Before \o call.out
  BY OutIs
<1>3. PICK room \in Nat : room = call.size - Len(call.out) /\ room >= 1
  BY RoomIs
<1>4. PICK r \in Data : r = src
  BY DEF Ready
<1>5. /\ f.next + f.avail <= Len(f.buf) /\ Unzipping(f, w, o, r) /\ f.z.mode = "run"
      /\ f.avail \in Nat
  BY <1>1, <1>2, <1>4, ReadyIs
<1>6. x = Decompress(lib, f.z, Input(f), room)
  BY <1>1, <1>3 DEF Processed
<1>7. UnzipGives(f, w, o, r, room, x)
  BY <1>5, <1>6, UnzippingRuns
<1>8. f.obuf = <<>>
  BY <1>5 DEF Unzipping
<1>9. Sound(x)
  <2>1. x.ret \in LibraryReturn
    BY <1>7 DEF UnzipGives, LibraryReturn
  <2>2. /\ x.used \in Nat /\ x.used <= f.avail /\ x.z \in LibraryState
        /\ x.out \in Data /\ Len(x.out) <= room
    BY <1>7 DEF UnzipGives
  <2> QED
    BY <1>1, <1>3, <2>1, <2>2 DEF Sound
<1>10. PICK g : g = Used(Current, x.used, x.z)
  OBVIOUS
<1>11. g.z = x.z /\ g.obuf = <<>>
  BY <1>1, <1>8, <1>9, <1>10, UsedSteady
<1>12. CASE x.z.mode = "bad" /\ x.ret = "data_error"
  <2>1. Drops(g)
    BY <1>1, <1>8, <1>9, <1>10, <1>12, UnzipCodes, AfterIs DEF Ready
  <2>2. PICK d : Steps(g, d, src, "pulled") /\ d.err = "filter_error" /\ ~Ended(d, "pulled")
    BY <2>1 DEF Drops
  <2>3. Dead(g) /\ Broken(d, "pulled")
    BY <1>11, <1>12, <2>2 DEF Dead, Broken
  <2> QED
    BY <2>2, <2>3 DEF UnzipStep
<1>13. CASE /\ Unzipping(Used(f, x.used, x.z), w, o \o x.out, r)
            /\ f.avail >= 1 /\ room >= 1 => x.ret \in {"ok", "stream_end"}
            /\ x.ret \in {"ok", "stream_end", "buf_error"}
            /\ f.avail = 0 => x.ret # "stream_end" /\ x.out = <<>>
  <2>1. Unzipping(g, w, (Before \o call.out) \o x.out, src) /\ x.out \in Data
    BY <1>1, <1>2, <1>4, <1>9, <1>10, <1>13 DEF Sound
  <2>2. CASE call.flush
    <3>1. x.ret \in {"ok", "buf_error"}
      BY <1>1, <1>13, <2>2, ReadyIs DEF Drained
    <3>2. x.ret \notin ZIP.corrupted /\ x.ret \notin ZIP.ended
      BY <3>1, UnzipCodes DEF Ready
    <3>3. Gives(g, x, "ok")
      BY <1>1, <1>8, <1>9, <1>10, <2>2, <3>2, AfterIs
    <3> QED
      BY <2>1, <3>3, GivesUnzips
  <2>3. CASE ~call.flush /\ x.ret = "stream_end"
    <3>1. x.ret \notin ZIP.corrupted /\ x.ret \in ZIP.cantProduceMore
      BY <2>3, UnzipCodes DEF Ready
    <3>2. Gives(g, x, "ok")
      BY <1>1, <1>8, <1>9, <1>10, <2>3, <3>1, AfterIs
    <3> QED
      BY <2>1, <3>2, GivesUnzips
  <2>4. CASE ~call.flush /\ x.ret = "ok"
    <3>1. x.ret \notin ZIP.corrupted /\ x.ret \notin ZIP.cantProduceMore
      BY <2>4, UnzipCodes DEF Ready
    <3>2. Steps(g, Gave(x), src, "pull")
      BY <1>1, <1>8, <1>9, <1>10, <2>4, <3>1, AfterIs
    <3>3. PICK c : c = Gave(x)
      OBVIOUS
    <3>4. c.out = call.out \o x.out
      BY <1>9, <3>3, GaveIs
    <3>5. (Before \o call.out) \o x.out = Before \o c.out
      BY <2>1, <3>4, OutIs
    <3>6. Unzipping(g, w, Before \o c.out, src)
      BY <2>1, <3>5
    <3>7. Decompresses(w, g, c, src, "pull") /\ ~Broken(c, "pull")
      BY <3>6 DEF Decompresses, Ended, Broken
    <3> QED
      BY <3>2, <3>3, <3>7 DEF UnzipStep
  <2>5. ~call.flush => x.ret \in {"ok", "stream_end"}
    BY <1>1, <1>3, <1>5, <1>13
  <2> QED
    BY <2>2, <2>3, <2>4, <2>5
<1> QED
  BY <1>7, <1>12, <1>13 DEF UnzipGives

(* And after it: either all was used, or the block is damaged. *)
LEMMA UnzipDoneSteps ==
  ASSUME Ready, call.dir = "unzip", lib # "lzo", Wanting, call.flush \/ Current.avail # 0,
         NEW w \in Data, Unzipping(Current, w, Before \o call.out, src),
         Current.z.mode = "done",
         NEW x \in Processed, AfterProcess(Used(Current, x.used, x.z), Gave(x), x.ret),
         lib' = lib, handler' = handler, src' = src
  PROVE  UnzipStep(w)
<1>1. Idle(Current.z, x)
  BY DEF Processed, Decompress, Idle
<1>2. PICK g \in FilterState :
         /\ g = Used(Current, x.used, x.z) /\ g.z = Current.z /\ g.obuf = Current.obuf
         /\ g.avail = Current.avail /\ Input(g) = Input(Current)
  BY <1>1, IdleIs
<1>3. Sound(x) /\ call.out \o x.out = call.out /\ x.ret = Again(lib)
  BY <1>1, IdleIs DEF Idle
<1>4. Current.obuf = <<>>
  BY DEF Unzipping
<1>5. x.ret \in ZIP.ended /\ x.ret \notin ZIP.corrupted /\ x.ret # "ok"
  BY <1>3, UnzipCodes DEF Ready
<1>6. x.out \in Data /\ Unzipping(g, w, (Before \o call.out) \o x.out, src)
  <2>1. x.out = <<>> /\ <<>> \in Data
    BY <1>1, Nothing DEF Idle
  <2>2. PICK o \in Data : o = Before \o call.out
    BY OutIs
  <2>3. o \o <<>> = o
    BY Empties
  <2>4. Unzipping(g, w, o, src)
    BY <1>2, <2>2 DEF Unzipping
  <2> QED
    BY <2>1, <2>2, <2>3, <2>4
<1>7. CASE call.flush /\ call.out = <<>>
  <2>1. Resets
    BY <1>2, <1>3, <1>4, <1>5, <1>7, AfterIs
  <2>2. PICK h, d : Steps(h, d, src, "pulled") /\ d.out = <<>> /\ Ended(d, "pulled")
    BY <2>1 DEF Resets
  <2>3. PICK o \in Data : o = Before \o call.out
    BY OutIs
  <2>4. o \in Text
    BY <2>3, ReadyIs, FilterFields, LibraryFields DEF Unzipping
  <2>5. w = Marked(o)
    <3>1. src = <<>> /\ Current.avail = 0
      BY <1>7, ReadyIs DEF Drained
    <3>2. Input(Current) = <<>>
      BY <3>1, ReadyIs, InputIs
    <3>3. w = Marked(o) \o (Input(Current) \o src)
      BY <2>3 DEF Unzipping
    <3>4. <<>> \o <<>> = <<>>
      BY Nothing, Empties
    <3>5. PICK m \in Data : m = Marked(o)
      BY <2>4, MarkedIs DEF IsMarked
    <3>6. m \o <<>> = m
      BY Empties
    <3> QED
      BY <3>1, <3>2, <3>3, <3>4, <3>5, <3>6
  <2>6. Decompresses(w, h, d, src, "pulled")
    BY <1>7, <2>2, <2>3, <2>4, <2>5 DEF Decompresses
  <2>7. ~Broken(d, "pulled")
    BY <2>2 DEF Broken, Ended
  <2> QED
    BY <2>2, <2>6, <2>7 DEF UnzipStep
<1>8. CASE call.flush /\ call.out # <<>>
  <2>1. Gives(g, x, "ok")
    BY <1>2, <1>3, <1>4, <1>5, <1>8, AfterIs
  <2> QED
    BY <1>6, <2>1, GivesUnzips
<1>9. CASE ~call.flush /\ x.ret \in ZIP.cantProduceMore
  <2>1. Gives(g, x, "ok")
    BY <1>2, <1>3, <1>4, <1>5, <1>9, AfterIs
  <2> QED
    BY <1>6, <2>1, GivesUnzips
<1>10. CASE ~call.flush /\ x.ret \notin ZIP.cantProduceMore
  <2>1. Gives(g, x, "filter_error")
    BY <1>2, <1>3, <1>4, <1>5, <1>10, AfterIs
  <2>2. PICK d : Steps(g, d, src, "pulled") /\ d.err = "filter_error"
    BY <2>1 DEF Gives
  <2>3. g.avail > 0
    BY <1>2, <1>10, ReadyIs
  <2>4. Dead(g) /\ Broken(d, "pulled")
    BY <1>2, <1>4, <2>2, <2>3 DEF Dead, Broken
  <2> QED
    BY <2>2, <2>4 DEF UnzipStep
<1> QED
  BY <1>7, <1>8, <1>9, <1>10

(* Every round of pull that decompresses with zlib or bzip2. *)
LEMMA UnzipPull ==
  ASSUME Ready, call.dir = "unzip", lib # "lzo", NEW w \in Data,
         Decompresses(w, Current, call, src, pc), Pull
  PROVE  UnzipStep(w)
<1>1. Unzipping(Current, w, Before \o call.out, src)
  BY DEF Decompresses, Ended, Ready
<1>2. CASE PullFilled
  BY <1>2, FilledStays, StaysUnzips
<1>3. CASE ZipFaults
  <2>1. CASE \E c : Stays(c)
    BY <2>1, StaysUnzips
  <2>2. CASE \E g, q : Steps(g, call, q, "pull") /\ Carries(Current, src, g, q)
    <3>1. PICK g, q : Steps(g, call, q, "pull") /\ Carries(Current, src, g, q)
      BY <2>2
    <3>2. Unzipping(g, w, Before \o call.out, q)
      BY <1>1, <3>1, UnzippingMoves, Zenon
    <3>3. Decompresses(w, g, call, q, "pull") /\ ~Broken(call, "pull")
      BY <3>2 DEF Decompresses, Ended, Broken
    <3> QED
      BY <3>1, <3>3 DEF UnzipStep
  <2> QED
    BY <1>3, <2>1, <2>2, ZipFaultsSteps
<1>4. CASE ZipProcess
  <2>1. /\ Wanting /\ lib' = lib /\ handler' = handler /\ src' = src
        /\ call.flush \/ Current.avail # 0
    BY <1>4, ProcessIs
  <2>2. PICK x \in Processed : AfterProcess(Used(Current, x.used, x.z), Gave(x), x.ret)
    BY <1>4, ProcessIs
  <2>3. CASE Current.z.mode = "run"
    BY <1>1, <2>1, <2>2, <2>3, UnzipRunSteps
  <2>4. CASE Current.z.mode = "done"
    BY <1>1, <2>1, <2>2, <2>4, UnzipDoneSteps
  <2> QED
    BY <1>1, <2>3, <2>4 DEF Unzipping
<1> QED
  BY <1>2, <1>3, <1>4 DEF Pull, LzoDelivers, LzoZipFaults, LzoCompress, LzoUnzipFlushed,
        LzoHeaderFault, LzoDecompress, LzoZipping, LzoUnzipping

(* A filter that met damaged input goes on failing. *)
LEMMA StaysDead ==
  ASSUME Ready, Dead(Current), NEW c, Stays(c)
  PROVE  DeadStep
BY DEF Stays, DeadStep

(* A filter that is dead stays dead. *)
LEMMA GivesDead ==
  ASSUME NEW g, Dead(g), NEW x, NEW e, Gives(g, x, e)
  PROVE  DeadStep
BY DEF Gives, DeadStep

(* Every round of pull of a dead filter. *)
LEMMA DeadPull ==
  ASSUME Ready, call.dir = "unzip", Dead(Current), Pull
  PROVE  DeadStep
<1>1. /\ lib # "lzo" /\ Current.obuf = <<>>
      /\ Current.z.mode = "bad" \/ (Current.z.mode = "done" /\ Current.avail > 0)
  BY DEF Dead
<1>2. CASE PullFilled
  BY <1>2, FilledStays, StaysDead
<1>3. CASE ZipFaults
  <2>1. CASE \E c : Stays(c)
    BY <2>1, StaysDead
  <2>2. CASE \E g, q : Steps(g, call, q, "pull") /\ Carries(Current, src, g, q)
    <3>1. PICK g, q : Steps(g, call, q, "pull") /\ Carries(Current, src, g, q)
      BY <2>2
    <3>2. Current.avail = 0
      <4>1. "ok" \notin ZIP.needMore
        <5>1. lib \in {"zlib", "bzip2"}
          BY <1>1 DEF Ready, Library, Stream
        <5> QED
          BY <5>1 DEF ZIP, ZlibUnzip, Bzip2Unzip
      <4> QED
        BY <1>3, <4>1, ReadyIs DEF ZipFaults
    <3>3. Current.z.mode = "bad"
      BY <1>1, <3>2
    <3>4. Dead(g) /\ ~Ended(call, "pull")
      BY <1>1, <3>1, <3>3 DEF Carries, Dead, Ended
    <3> QED
      BY <3>1, <3>4 DEF DeadStep
  <2> QED
    BY <1>3, <2>1, <2>2, ZipFaultsSteps
<1>4. CASE ZipProcess
  <2>1. /\ Wanting /\ lib' = lib /\ handler' = handler /\ src' = src
        /\ call.flush \/ Current.avail # 0
    BY <1>4, ProcessIs
  <2>2. PICK x \in Processed : AfterProcess(Used(Current, x.used, x.z), Gave(x), x.ret)
    BY <1>4, ProcessIs
  <2>3. CASE Current.z.mode = "bad"
    <3>1. x.z = Current.z /\ x.used = 0 /\ x.out = <<>> /\ x.ret = "data_error"
      BY <2>2, <2>3 DEF Processed, Decompress
    <3>2. Sound(x)
      <4>1. x.ret \in LibraryReturn
        BY <3>1 DEF LibraryReturn
      <4>2. Current.z \in LibraryState
        BY ReadyIs, FilterFields
      <4>3. x.out \in Data /\ Len(x.out) = 0
        BY <3>1, Nothing
      <4>4. 0 <= Current.avail
        BY ReadyIs
      <4> QED
        BY <2>1, <3>1, <4>1, <4>2, <4>3, <4>4, RoomIs DEF Sound
    <3>3. PICK g : g = Used(Current, x.used, x.z)
      OBVIOUS
    <3>4. g.z = Current.z /\ g.obuf = <<>>
      BY <1>1, <3>1, <3>2, <3>3, UsedSteady
    <3>5. Dead(g)
      BY <1>1, <2>3, <3>4 DEF Dead
    <3>6. Drops(g)
      BY <1>1, <2>1, <2>2, <3>1, <3>2, <3>3, UnzipCodes, AfterIs DEF Ready
    <3> QED
      BY <3>5, <3>6 DEF Drops, DeadStep
  <2>4. CASE Current.z.mode = "done" /\ Current.avail > 0
    <3>1. Idle(Current.z, x)
      BY <2>2, <2>4 DEF Processed, Decompress, Idle
    <3>2. PICK g \in FilterState :
             /\ g = Used(Current, x.used, x.z) /\ g.z = Current.z /\ g.obuf = Current.obuf
             /\ g.avail = Current.avail /\ Input(g) = Input(Current)
      BY <1>1, <2>1, <3>1, IdleIs
    <3>3. Sound(x) /\ x.ret = Again(lib)
      BY <1>1, <2>1, <3>1, IdleIs DEF Idle
    <3>4. x.ret \notin ZIP.corrupted /\ x.ret # "ok"
      BY <1>1, <3>3, UnzipCodes DEF Ready
    <3>5. ~call.flush
      BY <1>1, <2>4, ReadyIs DEF Drained
    <3>6. Gives(g, x, "ok") \/ Gives(g, x, "filter_error")
      BY <1>1, <2>1, <2>2, <3>2, <3>3, <3>4, <3>5, AfterIs
    <3>7. Dead(g)
      BY <1>1, <2>4, <3>2 DEF Dead
    <3> QED
      BY <3>6, <3>7, GivesDead
  <2> QED
    BY <1>1, <2>3, <2>4
<1> QED
  BY <1>1, <1>2, <1>3, <1>4 DEF Pull, LzoDelivers, LzoZipFaults, LzoCompress, LzoUnzipFlushed,
        LzoHeaderFault, LzoDecompress, LzoZipping, LzoUnzipping

-----------------------------------------------------------------------------
(* Pulls with LZO. *)
Delivered(f, c) ==
    /\ Steps(f, c, src, "pull")
    /\ f.next = Current.next /\ f.avail = Current.avail /\ f.z = Current.z
    /\ Input(f) = Input(Current)
    /\ (Before \o c.out) \o f.obuf = (Before \o call.out) \o Current.obuf

(* A delivery that stays within the caller's buffer. *)
LEMMA DeliversFits ==
  ASSUME Ready, LzoDelivers, pc' # "overrun",
         NEW n \in Nat, n = Least(Len(Current.obuf), call.size)
  PROVE  /\ Len(call.out) + n <= Request
         /\ Continue([Current EXCEPT !.obuf = SubSeq(@, n + 1, Len(@))],
                     [call EXCEPT !.out = @ \o SubSeq(Current.obuf, 1, n),
                                  !.size = @ - n])
<1>1. IF Len(call.out) + n > call.room THEN Overruns ELSE
        Continue([Current EXCEPT !.obuf = SubSeq(@, n + 1, Len(@))],
                 [call EXCEPT !.out = @ \o SubSeq(Current.obuf, 1, n), !.size = @ - n])
  BY DEF LzoDelivers
<1>2. ~Overruns
  BY DEF Overruns
<1>3. call.room = Request /\ Request \in Nat /\ Len(call.out) \in Nat
  BY ReadyIs DEF Ready, SizesFit
<1> QED
  BY <1>1, <1>2, <1>3

(* One that does not happens only in a short request.                      *)
LEMMA DeliversOverrun ==
  ASSUME Ready, LzoDelivers, pc' = "overrun"
  PROVE  /\ Short(call) /\ lib' = lib /\ filt' = filt /\ call' = call /\ src' = src
         /\ handler' = handler
<1>1. lib = "lzo" /\ pc = "pull" /\ lib' = lib /\ src' = src /\ handler' = handler
  BY DEF LzoDelivers, Wanting
<1>2. PICK n : n = Least(Len(Current.obuf), call.size)
  OBVIOUS
<1>3. Len(call.out) + n > call.room /\ Overruns
  <2>1. IF Len(call.out) + n > call.room THEN Overruns ELSE
          Continue([Current EXCEPT !.obuf = SubSeq(@, n + 1, Len(@))],
                   [call EXCEPT !.out = @ \o SubSeq(Current.obuf, 1, n), !.size = @ - n])
    BY <1>2 DEF LzoDelivers
  <2>2. \A f, c : ~Continue(f, c)
    BY <1>1 DEF Continue
  <2> QED
    BY <2>1, <2>2
<1>4. /\ n \in Nat /\ n <= call.size /\ Len(call.out) \in Nat /\ call.size \in Nat
      /\ Request \in Nat /\ call.room = Request
  <2>1. Len(Current.obuf) \in Nat
    BY ReadyIs, FilterFields, DataLen
  <2>2. call.size \in Nat /\ Len(call.out) \in Nat
    BY ReadyIs
  <2> QED
    BY <1>2, <2>1, <2>2 DEF Least, Ready, SizesFit
<1>5. Short(call)
  <2>1. ~Short(call) => Len(call.out) + call.size <= Request
    BY <1>1 DEF Ready, SizesFit
  <2> QED
    BY <1>3, <1>4, <2>1
<1> QED
  BY <1>1, <1>3, <1>5 DEF Overruns

(* Delivery of what an LZO filter has produced. *)
LEMMA LzoDeliversSteps ==
  ASSUME Ready, LzoDelivers, pc' # "overrun"
  PROVE  \E f, c : Delivered(f, c)
<1>1. Wanting /\ lib = "lzo" /\ Current.obuf # <<>>
  BY DEF LzoDelivers
<1>2. PICK b \in Data : b = Current.obuf
  BY ReadyIs, FilterFields
<1>3. PICK l \in Nat : l = Len(b) /\ l >= 1
  BY <1>1, <1>2, DataLen
<1>4. PICK m \in Nat : m = call.size /\ m >= 1
  BY <1>1, ReadyIs DEF Wanting
<1>5. PICK n \in Nat : n = Least(Len(Current.obuf), call.size) /\ n >= 1 /\ n <= l /\ n <= m
  BY <1>2, <1>3, <1>4 DEF Least
<1>6. PICK h : h = SubSeq(b, 1, n)
  OBVIOUS
<1>7. PICK t : t = SubSeq(b, n + 1, Len(b))
  OBVIOUS
<1>8. h \in Data /\ Len(h) = n /\ t \in Data
  <2>1. n <= Len(b)
    BY <1>3, <1>5
  <2>2. h \in Data /\ Len(h) = n
    BY <1>6, <2>1, Head1
  <2>3. t \in Data
    BY <1>7, AnyRest
  <2> QED
    BY <2>2, <2>3
<1>9. h \o t = b
  <2>1. n <= Len(b)
    BY <1>3, <1>5
  <2> QED
    BY <1>6, <1>7, <2>1, Rejoined
<1>10. PICK y : y = call.out \o h
  OBVIOUS
<1>11. PICK a \in Data : a = call.out
  BY ReadyIs
<1>12. y \in Data /\ Len(y) = Len(a) + n /\ Len(a) \in Nat
  BY <1>8, <1>10, <1>11, JoinedType, DataLen
<1>13. PICK f : f = [Current EXCEPT !.obuf = t]
  OBVIOUS
<1>14. PICK c : c = [call EXCEPT !.out = y, !.size = m - n]
  OBVIOUS
<1>15. Goes(f, c, src, "pull")
  <2>1. Continue([Current EXCEPT !.obuf = SubSeq(@, n + 1, Len(@))],
                 [call EXCEPT !.out = @ \o SubSeq(Current.obuf, 1, n), !.size = @ - n])
    BY <1>5, DeliversFits
  <2>2. Continue(f, c)
    BY <1>2, <1>4, <1>6, <1>7, <1>10, <1>13, <1>14, <2>1
  <2>3. lib' = lib /\ handler' = handler /\ src' = src
    BY DEF LzoDelivers
  <2> QED
    BY <2>2, <2>3, ContinueIs DEF Ready
<1>16. /\ f \in FilterState /\ f.next = Current.next /\ f.avail = Current.avail
       /\ f.z = Current.z /\ f.buf = Current.buf /\ f.isize = Current.isize /\ f.obuf = t
  BY <1>8, <1>13, ReadyIs DEF FilterState
<1>17. Input(f) = Input(Current)
  BY <1>16 DEF Input
<1>18. m - n \in 0..SizeMax
  BY <1>4, <1>5, FilterAssumption DEF Ready, CallState
<1>19. /\ c \in CallState /\ c.out = y /\ c.size = m - n /\ c.room = call.room
       /\ c.dir = call.dir /\ c.flush = call.flush /\ c.zret = call.zret
  BY <1>12, <1>14, <1>18 DEF CallState, Ready
<1>20. Steady(call.dir, f)
  BY <1>16 DEF Steady, Ready
<1>21. SizesFit(f, c, src, "pull")
  <2>1. ~Short(call) => Len(a) + m <= Request
    BY <1>1, <1>4, <1>11 DEF Ready, SizesFit
  <2>2. Short(c) = Short(call)
    BY <1>19 DEF Short
  <2>4. ~Short(c) => Len(c.out) + c.size <= Request
    <3>1. Len(c.out) = Len(a) + n
      BY <1>12, <1>19
    <3>2. c.size = m - n
      BY <1>19
    <3> QED
      BY <1>4, <1>5, <1>12, <2>1, <2>2, <3>1, <3>2 DEF Ready
  <2>3. Ample(Current, call, src) => Ample(f, c, src)
    <3>1. Len(c.out) = Len(a) + n /\ Len(a) \in Nat /\ c.size = m - n
      BY <1>12, <1>19
    <3>2. Len(t) = l - n /\ Len(t) \in Nat
      <4>1. Len(h) + Len(t) = Len(b)
        BY <1>8, <1>9, JoinedType
      <4> QED
        BY <1>3, <1>5, <1>8, <4>1, DataLen
    <3>3. Len(c.out) + c.size = Len(call.out) + call.size
      BY <1>4, <1>11, <3>1
    <3>4. Len(c.out) + Len(f.obuf) = Len(call.out) + Len(Current.obuf)
      <4>1. Len(f.obuf) = l - n /\ Len(Current.obuf) = l
        BY <1>2, <1>3, <1>16, <3>2
      <4>2. PICK k \in Nat : k = Len(call.out) /\ Len(c.out) = k + n
        BY <1>11, <3>1
      <4>3. (k + n) + (l - n) = k + l
        OBVIOUS
      <4> QED
        BY <4>1, <4>2, <4>3
    <3> QED
      BY <1>16, <3>3, <3>4 DEF Ample
  <2>5. Len(c.out) <= Request
    BY <1>5, <1>11, <1>12, <1>19, DeliversFits
  <2>6. c.room = Request
    BY <1>19 DEF Ready, SizesFit
  <2>7. /\ lib = "lzo" /\ c.dir = "unzip" /\ ~c.flush /\ ~Short(c) => Ample(f, c, src)
    BY <1>1, <1>19, <2>2, <2>3 DEF Ready, SizesFit
  <2> QED
    BY <1>1, <2>4, <2>5, <2>6, <2>7 DEF SizesFit
<1>22. Flushed(f, c, src, "pull")
  BY <1>16, <1>19, ReadyIs DEF Flushed, Drained
<1>23. Fine(f, c, src, "pull")
  BY <1>19, <1>20, <1>21, <1>22 DEF Fine, Ready
<1>24. Steps(f, c, src, "pull")
  BY <1>15, <1>19, <1>23 DEF Steps, SameCall
<1>25. (Before \o c.out) \o f.obuf = (Before \o call.out) \o Current.obuf
  <2>1. PICK o \in Data : o = Before \o call.out
    BY OutIs
  <2>2. Before \o c.out = o \o h
    BY <1>8, <1>10, <1>19, <2>1, OutIs
  <2>3. Grouped(o, h, t)
    BY <1>8, RegroupIs, Zenon
  <2> QED
    BY <1>2, <1>9, <1>16, <2>1, <2>2, <2>3 DEF Grouped
<1> QED
  BY <1>16, <1>17, <1>24, <1>25 DEF Delivered

(* A pull that returns at once compresses as before. *)
LEMMA StaysLzoZips ==
  ASSUME Ready, lib = "lzo", NEW s, LzoZips(Current, s, Before \o call.out, src),
         NEW c, Stays(c)
  PROVE  ZipStep(s)
<1>1. Compresses(s, Current, call, src, pc)
  BY DEF Compresses
<1> QED
  BY <1>1, StaysZips

(* So does one that delivers. *)
LEMMA DeliversLzoZips ==
  ASSUME lib = "lzo", NEW s, LzoZips(Current, s, Before \o call.out, src),
         NEW f, NEW c, Delivered(f, c)
  PROVE  ZipStep(s)
<1>1. LzoZips(f, s, Before \o c.out, src)
  BY Zenon DEF LzoZips, Delivered
<1>2. Compresses(s, f, c, src, "pull") /\ ~Broken(c, "pull")
  BY <1>1 DEF Compresses, Broken
<1> QED
  BY <1>2 DEF ZipStep, Delivered

(* Input faults of the LZO zip filter. *)
LEMMA LzoZipFaultsSteps ==
  ASSUME Ready, LzoZipFaults, NEW s \in Text, LzoZips(Current, s, Before \o call.out, src)
  PROVE  ZipStep(s)
<1>1. /\ lib = "lzo" /\ call.dir = "zip" /\ Current.obuf = <<>> /\ ~call.flush
      /\ Current.avail < Current.isize /\ lib' = lib /\ handler' = handler
      /\ Fault(Current.isize - Current.avail, "empty")
  BY DEF LzoZipFaults, LzoZipping
<1>2. PICK amount \in Nat : amount = Current.isize - Current.avail /\ amount >= 1
  BY <1>1, ReadyIs
<1>3. PushFits(Current, amount)
  <2>1. Current.next = 0
    BY DEF LzoZips
  <2>2. Current.next + Current.avail + amount <= Current.isize
    BY <1>2, <2>1, ReadyIs
  <2> QED
    BY <1>1, <2>2 DEF PushFits
<1>4. CASE \E g, q : Steps(g, call, q, "pull") /\ Carries(Current, src, g, q)
  <2>1. PICK g, q : Steps(g, call, q, "pull") /\ Carries(Current, src, g, q)
    BY <1>4
  <2>2. LzoZips(g, s, Before \o call.out, q)
    BY <1>1, <2>1, LzoZipsMoves, Zenon
  <2>3. Compresses(s, g, call, q, "pull") /\ ~Broken(call, "pull")
    BY <1>1, <2>2 DEF Compresses, Broken
  <2> QED
    BY <2>1, <2>3 DEF ZipStep
<1>5. CASE src = <<>> /\ Goes(Current, [call EXCEPT !.err = "empty"], src, "pulled")
  <2>1. Drained(call.dir, Current, src)
    BY <1>1, <1>5 DEF Drained
  <2>2. PICK c : c = [call EXCEPT !.err = "empty"]
    OBVIOUS
  <2>3. Stays(c)
    BY <1>1, <1>5, <2>1, <2>2, DryStays
  <2> QED
    BY <1>1, <2>3, StaysLzoZips
<1>6. CASE handler = "stream" /\ Goes(Current, [call EXCEPT !.err = "read_error"], src, "pulled")
  <2>1. PICK c : c = [call EXCEPT !.err = "read_error"]
    OBVIOUS
  <2>2. Stays(c)
    BY <1>6, <2>1, ReadErrorStays
  <2> QED
    BY <1>1, <2>2, StaysLzoZips
<1> QED
  BY <1>1, <1>2, <1>3, <1>4, <1>5, <1>6, FaultSteps

(* The next chunk of s is in the filter. *)
Gathers(s, n, i, r) ==
    /\ NextChunk(s, n, Len(i)) /\ i = SubSeq(s, n + 1, n + Len(i)) /\ i \in Text
    /\ r = SubSeq(s, (n + Len(i)) + 1, Len(s)) /\ n + Len(i) \in 0..Len(s)

(* What was gathered is the next chunk of the text. *)
LEMMA Gathered ==
  ASSUME NEW s \in Text, NEW n \in 0..Len(s), Multiple(n) \/ n = Len(s),
         NEW i \in Data, NEW r \in Data, SubSeq(s, n + 1, Len(s)) = i \o r,
         Len(i) \in 1..InputSize, Len(i) < InputSize => r = <<>>
  PROVE  Gathers(s, n, i, r)
<1>1. PICK a \in Nat : a = Len(i)
  BY DataLen
<1>2. PICK l \in Nat : l = Len(s)
  BY TextData, DataLen
<1>3. PICK q : q = SubSeq(s, n + 1, Len(s))
  OBVIOUS
<1>4. s \in Data /\ n \in Nat /\ n <= l
  BY <1>2, TextData
<1>5. Len(q) = l - n
  BY <1>2, <1>3, <1>4, Rest
<1>6. IsCut(i \o r, i, r)
  BY JoinedParts, Zenon
<1>7. Len(q) = a + Len(r) /\ SubSeq(q, 1, a) = i /\ SubSeq(q, a + 1, Len(q)) = r
  <2>1. q = i \o r
    BY <1>3
  <2> QED
    BY <1>1, <1>6, <2>1, Zenon DEF IsCut
<1>8. Len(r) \in Nat /\ (r = <<>> => Len(r) = 0)
  BY DataLen
<1>9. n + a <= l /\ n < l /\ (a < InputSize => n + a = l) /\ a \in 1..InputSize
  <2>1. PICK k \in Nat : k = Len(r) /\ (r = <<>> => k = 0)
    BY <1>8
  <2>2. a \in 1..InputSize /\ (a < InputSize => k = 0) /\ l - n = a + k /\ InputSize \in Nat
    BY <1>1, <1>5, <1>7, <2>1, Sizes3
  <2> QED
    BY <1>4, <2>2
<1>10. Multiple(n)
  BY <1>2, <1>9
<1>11. NextChunk(s, n, a)
  <2>1. n \in Nat /\ n < Len(s) /\ n + a <= Len(s) /\ (a < InputSize => n + a = Len(s))
    BY <1>2, <1>4, <1>9
  <2> QED
    BY <1>9, <1>10, <2>1, SomeChunk, Zenon
<1>12. SubSeq(q, 1, a) = SubSeq(s, n + 1, n + a)
       /\ SubSeq(q, a + 1, Len(q)) = SubSeq(s, (n + a) + 1, Len(s))
  <2>1. n \in Nat /\ n <= Len(s) /\ n + a <= Len(s)
    BY <1>2, <1>4, <1>9
  <2> QED
    BY <1>3, <1>4, <2>1, PartOfRest
<1>13. i = SubSeq(s, n + 1, n + a) /\ r = SubSeq(s, (n + a) + 1, Len(s))
  BY <1>7, <1>12, Zenon
<1>14. i \in Text
  BY <1>11, <1>13 DEF NextChunk
<1>15. n + a \in 0..Len(s)
  BY <1>2, <1>4, <1>9
<1> QED
  BY <1>1, <1>11, <1>13, <1>14, <1>15, Zenon DEF Gathers

(* A chunk is compressed, or a flush finds nothing. *)
LEMMA LzoCompressSteps ==
  ASSUME Ready, LzoCompress, NEW s \in Text, LzoZips(Current, s, Before \o call.out, src)
  PROVE  ZipStep(s)
<1>1. /\ lib = "lzo" /\ call.dir = "zip" /\ Current.obuf = <<>> /\ Wanting
      /\ Current.avail = Current.isize \/ call.flush
      /\ lib' = lib /\ handler' = handler /\ src' = src
  BY DEF LzoCompress, LzoZipping
<1>2. /\ Current.next = 0 /\ Current.z = Fresh
  BY DEF LzoZips
<1>3. PICK a \in Nat : a = Current.avail
  BY ReadyIs
<1>4. Current.isize = InputSize /\ a <= InputSize
  BY <1>1, <1>3, ReadyIs DEF Ready, Steady
<1>5. CASE a > 0
  <2>1. PICK i \in Data : i = Input(Current) /\ Len(i) = a
    BY <1>3, ReadyIs, InputIs
  <2>2. PICK o \in Data : o = Before \o call.out
    BY OutIs
  <2>3. PICK n \in 0..Len(s) :
          /\ o \o Current.obuf = Lzo(SubSeq(s, 1, n))
          /\ SubSeq(s, n + 1, Len(s)) = i \o src
          /\ Multiple(n) \/ n = Len(s)
    BY <2>1, <2>2, Zenon DEF LzoZips
  <2>4. Gathers(s, n, i, src)
    <3>1. Len(i) \in 1..InputSize
      BY <1>4, <1>5, <2>1, Sizes3
    <3>2. Len(i) < InputSize => src = <<>>
      BY <1>1, <1>3, <1>4, <2>1, ReadyIs DEF Drained
    <3>3. src \in Data
      BY DEF Ready
    <3> QED
      BY <2>3, <3>1, <3>2, <3>3, Gathered, Zenon
  <2>5. PICK k \in 0..Len(s) : k = n + Len(i)
    BY <2>4 DEF Gathers
  <2>6. i \in Text /\ i = SubSeq(s, n + 1, k) /\ src = SubSeq(s, k + 1, Len(s))
    BY <2>4, <2>5 DEF Gathers
  <2>7. PICK u : u = Chunk(i)
    OBVIOUS
  <2>8. Lzo(SubSeq(s, 1, k)) = Lzo(SubSeq(s, 1, n)) \o u /\ (Multiple(k) \/ k = Len(s))
    BY <2>4, <2>5, <2>6, <2>7 DEF Gathers, NextChunk
  <2>9. u \in Data /\ Len(u) = a + 2
    BY <2>1, <2>6, <2>7, ChunkIs
  <2>10. u # <<>>
    BY <2>9, Nothing
  <2>11. PICK g : g = [Current EXCEPT !.obuf = u, !.buf = <<>>, !.avail = 0]
    OBVIOUS
  <2>12. Goes(g, call, src, "pull")
    <3>1. Continue(g, call)
      BY <1>3, <1>5, <2>1, <2>7, <2>11 DEF LzoCompress
    <3> QED
      BY <1>1, <3>1, ContinueIs DEF Ready
  <2>13. /\ g \in FilterState /\ g.buf = <<>> /\ g.avail = 0 /\ g.next = 0 /\ g.obuf = u
         /\ g.z = Fresh /\ g.isize = InputSize
    BY <1>2, <1>4, <2>9, <2>11, ReadyIs, Nothing DEF FilterState
  <2>14. Steady(call.dir, g)
    BY <2>13, Sizes3, Nothing DEF Steady
  <2>15. SizesFit(g, call, src, "pull")
    BY <1>1 DEF SizesFit, Short, Ready
  <2>16. Flushed(g, call, src, "pull")
    BY <1>1, <2>13, ReadyIs DEF Flushed, Drained
  <2>17. Steps(g, call, src, "pull")
    BY <2>12, <2>14, <2>15, <2>16 DEF Steps, Fine, SameCall, Ready
  <2>18. Input(g) \o src = src
    <3>1. g.next + g.avail <= Len(g.buf)
      BY <2>13, Nothing
    <3>2. Input(g) = <<>>
      BY <2>13, <3>1, InputIs
    <3> QED
      BY <3>2, Empties DEF Ready
  <2>19. o \o g.obuf = Lzo(SubSeq(s, 1, k))
    <3>1. o \o <<>> = o
      BY Empties
    <3> QED
      BY <1>1, <2>3, <2>8, <2>13, <3>1
  <2>20. LzoZips(g, s, o, src)
    BY <2>6, <2>8, <2>13, <2>18, <2>19, Zenon DEF LzoZips
  <2>21. Compresses(s, g, call, src, "pull") /\ ~Broken(call, "pull")
    BY <1>1, <2>2, <2>20 DEF Compresses, Broken
  <2> QED
    BY <2>17, <2>21 DEF ZipStep
<1>6. CASE ~(a > 0)
  <2>1. Current.avail = 0 /\ call.flush
    BY <1>1, <1>3, <1>4, <1>6, Sizes3
  <2>2. PICK e : e = EmptyUnless(call.out)
    OBVIOUS
  <2>3. PullReturns(Current, call, e)
    BY <2>1, <2>2 DEF LzoCompress
  <2>4. e \in Outcome
    BY <2>2 DEF EmptyUnless, Outcome
  <2>5. PICK c : c = [call EXCEPT !.err = e]
    OBVIOUS
  <2>6. Goes(Current, c, src, "pulled")
    BY <1>1, <2>3, <2>4, <2>5, PullReturnsIs
  <2>7. LzoZips(Current, s, Before \o call.out, src)
    OBVIOUS
  <2>8. CASE call.out = <<>>
    <3>1. e = "empty"
      BY <2>2, <2>8 DEF EmptyUnless
    <3>2. Clean(Current)
      BY <1>1, <1>2, <2>1 DEF Clean
    <3>3. Steps(Current, c, src, "pulled") /\ c.out = call.out /\ c.err = "empty"
      BY <2>1, <2>5, <2>6, <2>8, <3>1, <3>2, ReadyIs, Emptied
    <3>4. Compresses(s, Current, c, src, "pulled") /\ ~Broken(c, "pulled")
      BY <1>1, <3>3 DEF Compresses, Broken
    <3> QED
      BY <3>3, <3>4 DEF ZipStep
  <2>9. CASE call.out # <<>>
    <3>1. e = "ok" /\ e # "empty"
      BY <2>2, <2>9 DEF EmptyUnless
    <3>2. Steps(Current, c, src, "pulled") /\ c.out = call.out
      BY <2>4, <2>5, <2>6, <3>1, Returned
    <3>3. c.err = "ok"
      BY <2>5, <3>1 DEF Ready, CallState
    <3>4. Compresses(s, Current, c, src, "pulled") /\ ~Broken(c, "pulled")
      BY <1>1, <3>2, <3>3 DEF Compresses, Broken
    <3> QED
      BY <3>2, <3>4 DEF ZipStep
  <2> QED
    BY <2>8, <2>9
<1> QED
  BY <1>5, <1>6

(* Every round of pull that compresses with LZO. *)
LEMMA LzoZipPull ==
  ASSUME Ready, call.dir = "zip", lib = "lzo", NEW s \in Text,
         Compresses(s, Current, call, src, pc), Pull, pc' # "overrun"
  PROVE  ZipStep(s)
<1>1. LzoZips(Current, s, Before \o call.out, src)
  BY DEF Compresses
<1>2. CASE PullFilled
  BY <1>2, FilledStays, StaysZips
<1>3. CASE LzoDelivers
  BY <1>1, <1>3, LzoDeliversSteps, DeliversLzoZips
<1>4. CASE LzoZipFaults
  BY <1>1, <1>4, LzoZipFaultsSteps
<1>5. CASE LzoCompress
  BY <1>1, <1>5, LzoCompressSteps
<1>6. ~ZipFaults /\ ~ZipProcess /\ ~LzoUnzipFlushed /\ ~LzoHeaderFault /\ ~LzoDecompress
  BY DEF ZipFaults, ZipProcess, LzoUnzipFlushed, LzoHeaderFault, LzoDecompress, LzoUnzipping
<1> QED
  BY <1>2, <1>3, <1>4, <1>5, <1>6 DEF Pull

-----------------------------------------------------------------------------
(* Pulls that decompress with LZO. *)
LzoStep(s) ==
    \E f, c, r, p : /\ Steps(f, c, r, p)
                    /\ Restores(s, f, c, r) \/ Broken(c, p)
                    /\ Broken(c, p) => handler = "stream"

(* A pull that returns at once decompresses as before. *)
LEMMA StaysRestores ==
  ASSUME NEW s, Restores(s, Current, call, src), NEW c, Stays(c)
  PROVE  LzoStep(s)
<1>1. /\ Steps(Current, c, src, "pulled") /\ c.out = call.out
      /\ Broken(c, "pulled") => handler = "stream"
  BY DEF Stays
<1>2. Restores(s, Current, c, src)
  BY <1>1 DEF Restores
<1> QED
  BY <1>1, <1>2 DEF LzoStep

(* So does one that delivers. *)
LEMMA DeliversRestores ==
  ASSUME NEW s, Restores(s, Current, call, src), NEW f, NEW c, Delivered(f, c)
  PROVE  LzoStep(s)
<1>1. LzoUnzips(Current, s, Before \o call.out, src)
  BY DEF Restores
<1>2. LzoUnzips(f, s, Before \o c.out, src)
  BY <1>1, Zenon DEF LzoUnzips, Delivered
<1>3. Restores(s, f, c, src) /\ ~Broken(c, "pull")
  BY <1>2 DEF Restores, Broken
<1> QED
  BY <1>3 DEF LzoStep, Delivered

(* Flushing the LZO unzip filter. *)
LEMMA LzoUnzipFlushedSteps ==
  ASSUME Ready, LzoUnzipFlushed, NEW s, Restores(s, Current, call, src)
  PROVE  LzoStep(s)
<1>1. /\ lib = "lzo" /\ call.dir = "unzip" /\ Current.obuf = <<>> /\ call.flush
      /\ lib' = lib /\ handler' = handler /\ src' = src
      /\ PullReturns(Current, call, EmptyUnless(call.out))
  BY DEF LzoUnzipFlushed, LzoUnzipping
<1>2. Current.next = 0 /\ Current.z = Fresh /\ Current.avail = 0
  BY <1>1, ReadyIs DEF Restores, LzoUnzips, Drained
<1>3. PICK e : e = EmptyUnless(call.out)
  OBVIOUS
<1>4. e \in Outcome
  BY <1>3 DEF EmptyUnless, Outcome
<1>5. PICK c : c = [call EXCEPT !.err = e]
  OBVIOUS
<1>6. Goes(Current, c, src, "pulled")
  BY <1>1, <1>3, <1>4, <1>5, PullReturnsIs
<1>7. CASE call.out = <<>>
  <2>1. e = "empty"
    BY <1>3, <1>7 DEF EmptyUnless
  <2>2. Clean(Current)
    BY <1>1, <1>2 DEF Clean
  <2>3. Steps(Current, c, src, "pulled") /\ c.out = call.out /\ c.err = "empty"
    BY <1>1, <1>5, <1>6, <1>7, <2>1, <2>2, ReadyIs, Emptied
  <2>4. Restores(s, Current, c, src) /\ ~Broken(c, "pulled")
    BY <2>3 DEF Restores, Broken
  <2> QED
    BY <2>3, <2>4 DEF LzoStep
<1>8. CASE call.out # <<>>
  <2>1. e = "ok" /\ e # "empty"
    BY <1>3, <1>8 DEF EmptyUnless
  <2>2. Steps(Current, c, src, "pulled") /\ c.out = call.out
    BY <1>4, <1>5, <1>6, <2>1, Returned
  <2>3. c.err = "ok"
    BY <1>5, <2>1 DEF Ready, CallState
  <2>4. Restores(s, Current, c, src) /\ ~Broken(c, "pulled")
    BY <2>2, <2>3 DEF Restores, Broken
  <2> QED
    BY <2>2, <2>4 DEF LzoStep
<1> QED
  BY <1>7, <1>8

(* The chunk after the first n units, c, is next in q, and z behind it. *)
Coming(s, n, c, q, z) ==
    /\ n \in 0..Len(s) /\ c \in Text /\ z \in Data /\ Len(c) \in 1..InputSize
    /\ n + Len(c) \in 0..Len(s) /\ (Multiple(n + Len(c)) \/ n + Len(c) = Len(s))
    /\ SubSeq(s, 1, n) \o c = SubSeq(s, 1, n + Len(c))
    /\ Lzo(s) = Lzo(SubSeq(s, 1, n + Len(c))) \o z
    /\ Headed(q, c, z) /\ (Len(c) = InputSize \/ z = <<>>)

(* Input that is left starts with a chunk. *)
LEMMA ComingIs ==
  ASSUME NEW s \in Text, NEW n \in 0..Len(s), Multiple(n) \/ n = Len(s),
         NEW q \in Data, Lzo(s) = Lzo(SubSeq(s, 1, n)) \o q, q # <<>>
  PROVE  \E c, z : Coming(s, n, c, q, z)
<1>1. PICK l \in Nat : l = Len(s)
  BY TextData, DataLen
<1>2. n \in Nat /\ n <= Len(s) /\ n <= l
  BY <1>1
<1>3. \E m \in 1..InputSize : NextChunk(s, n, m)
                              /\ \E z \in Data : q = Chunk(SubSeq(s, n + 1, n + m)) \o z
  BY <1>2, ChunkFollows
<1>4. PICK m \in 1..InputSize : NextChunk(s, n, m)
                              /\ \E z \in Data : q = Chunk(SubSeq(s, n + 1, n + m)) \o z
  BY <1>3
<1>5. PICK z \in Data : q = Chunk(SubSeq(s, n + 1, n + m)) \o z
  BY <1>4
<1>6. PICK c : c = SubSeq(s, n + 1, n + m)
  OBVIOUS
<1>7. PICK k : k = n + m
  OBVIOUS
<1>8. /\ c \in Text /\ Len(c) = m /\ k <= Len(s) /\ (Multiple(k) \/ k = Len(s))
      /\ SubSeq(s, 1, n) \o c = SubSeq(s, 1, k)
      /\ Lzo(SubSeq(s, 1, k)) = Lzo(SubSeq(s, 1, n)) \o Chunk(c)
  BY <1>4, <1>6, <1>7 DEF NextChunk
<1>9. Headed(q, c, z)
  <2>1. Headed(Chunk(c) \o z, c, z)
    BY <1>8, ChunkHeaded, Zenon
  <2> QED
    BY <1>5, <1>6, <2>1
<1>10. k \in 0..Len(s) /\ k = n + Len(c)
  BY <1>1, <1>2, <1>7, <1>8, Sizes3
<1>11. Lzo(s) = Lzo(SubSeq(s, 1, k)) \o z
  <2>1. PICK x \in Data : x = Lzo(SubSeq(s, 1, n))
    BY <1>2, TextHead, LzoType
  <2>2. PICK y \in Data : y = Chunk(c)
    BY <1>8, ChunkIs
  <2>3. Grouped(x, y, z)
    BY RegroupIs, Zenon
  <2>4. q = y \o z /\ Lzo(s) = x \o q /\ Lzo(SubSeq(s, 1, k)) = x \o y
    BY <1>5, <1>6, <1>8, <2>1, <2>2
  <2> QED
    BY <2>3, <2>4 DEF Grouped
<1>12. m = InputSize \/ z = <<>>
  <2> SUFFICES ASSUME m # InputSize PROVE z = <<>>
    OBVIOUS
  <2>1. m < InputSize
    BY Sizes3
  <2>2. k = Len(s) /\ k \in Nat /\ k <= Len(s)
    BY <1>1, <1>4, <1>7, <1>10, <2>1 DEF NextChunk
  <2>3. ~(k < Len(s))
    BY <2>2
  <2> QED
    BY <1>11, <2>2, <2>3, ChunkFollows
<1> QED
  BY <1>4, <1>8, <1>9, <1>10, <1>11, <1>12 DEF Coming

(* What an LZO filter with nothing to deliver has to come. *)
LEMMA RestoresNext ==
  ASSUME Ready, NEW s \in Text, Restores(s, Current, call, src), Current.obuf = <<>>
  PROVE  \/ Current.avail = 0 /\ src = <<>>
         \/ \E n, c, z : /\ Coming(s, n, c, Input(Current) \o src, z)
                         /\ Before \o call.out = SubSeq(s, 1, n)
<1>1. LzoUnzips(Current, s, Before \o call.out, src)
  BY DEF Restores
<1>2. PICK i \in Data : i = Input(Current) /\ Len(i) = Current.avail
  BY ReadyIs, InputIs
<1>3. PICK o \in Data : o = Before \o call.out
  BY OutIs
<1>4. PICK n \in 0..Len(s) :
        /\ o \o Current.obuf = SubSeq(s, 1, n)
        /\ Lzo(s) = Lzo(SubSeq(s, 1, n)) \o (i \o src)
        /\ Multiple(n) \/ n = Len(s)
  BY <1>1, <1>2, <1>3, Zenon DEF LzoUnzips
<1>5. o = SubSeq(s, 1, n)
  <2>1. o \o <<>> = o
    BY Empties
  <2> QED
    BY <1>4, <2>1
<1>6. PICK q \in Data : q = i \o src /\ Len(q) = Len(i) + Len(src)
  BY JoinedType DEF Ready
<1>7. CASE q = <<>>
  <2>1. Len(q) = 0 /\ Len(i) \in Nat /\ Len(src) \in Nat
    BY <1>7, Nothing, DataLen DEF Ready
  <2>2. Len(i) = 0 /\ Len(src) = 0
    BY <1>6, <2>1
  <2> QED
    BY <1>2, <2>2, DataLen DEF Ready
<1>8. CASE q # <<>>
  <2>1. Lzo(s) = Lzo(SubSeq(s, 1, n)) \o q
    BY <1>4, <1>6
  <2>2. PICK c, z : Coming(s, n, c, q, z)
    BY <1>4, <1>8, <2>1, ComingIs
  <2> QED
    BY <1>2, <1>3, <1>5, <1>6, <2>2
<1> QED
  BY <1>7, <1>8

(* Input faults for a header. *)
LEMMA LzoHeaderFaultSteps ==
  ASSUME Ready, LzoHeaderFault, NEW s \in Text, Restores(s, Current, call, src)
  PROVE  LzoStep(s)
<1>1. /\ lib = "lzo" /\ call.dir = "unzip" /\ Current.obuf = <<>> /\ ~call.flush
      /\ Current.avail < Header /\ lib' = lib /\ handler' = handler
      /\ Fault(Header, EmptyUnless(call.out))
  BY DEF LzoHeaderFault, LzoUnzipping
<1>2. LzoUnzips(Current, s, Before \o call.out, src) /\ Current.next = 0
  BY DEF Restores, LzoUnzips
<1>3. PICK amount \in Nat : amount = Header /\ amount = 2 /\ amount >= 1
  BY Sizes3
<1>4. PICK dry : dry = EmptyUnless(call.out)
  OBVIOUS
<1>5. dry \in {"ok", "empty"} /\ (dry = "empty" => call.out = <<>>)
  BY <1>4 DEF EmptyUnless
<1>6. PushFits(Current, amount) /\ Fault(amount, dry)
  BY <1>1, <1>2, <1>3, <1>4, ReadyIs, Sizes3 DEF PushFits
<1>7. CASE \E g, q : /\ Steps(g, call, q, "pull") /\ Carries(Current, src, g, q)
                     /\ g.avail <= Current.avail + amount
  <2>1. PICK g, q : /\ Steps(g, call, q, "pull") /\ Carries(Current, src, g, q)
                     /\ g.avail <= Current.avail + amount
    BY <1>7
  <2>2. g.avail <= 3
    <3>1. g.avail \in Nat
      BY <2>1, FilterFields DEF Carries
    <3> QED
      BY <1>1, <1>3, <2>1, <3>1, ReadyIs
  <2>3. LzoUnzips(g, s, Before \o call.out, q)
    BY <1>1, <1>2, <2>1, <2>2, LzoUnzipsMoves, Zenon
  <2>4. Restores(s, g, call, q) /\ ~Broken(call, "pull")
    BY <2>3 DEF Restores, Broken
  <2> QED
    BY <2>1, <2>4 DEF LzoStep
<1>8. CASE src = <<>> /\ Goes(Current, [call EXCEPT !.err = dry], src, "pulled")
  <2>1. Current.avail = 0
    <3> SUFFICES ASSUME Current.avail # 0 PROVE FALSE
      OBVIOUS
    <3>1. PICK n, c, z : Coming(s, n, c, Input(Current) \o src, z)
      BY <1>1, RestoresNext
    <3>2. PICK i \in Data : i = Input(Current) /\ Len(i) = Current.avail
      BY ReadyIs, InputIs
    <3>3. Input(Current) \o src = i
      BY <1>8, <3>2, Empties
    <3>4. Headed(i, c, z) /\ Len(c) \in 1..InputSize /\ z \in Data
      BY <3>1, <3>3 DEF Coming
    <3>5. Len(i) = Len(c) + 2 + Len(z) /\ Len(z) \in Nat /\ Len(c) \in Nat
      BY <3>4, Sizes3, DataLen DEF Headed
    <3> QED
      BY <1>1, <1>3, <3>2, <3>4, <3>5
  <2>2. Drained(call.dir, Current, src)
    BY <1>8, <2>1 DEF Drained
  <2>3. PICK c : c = [call EXCEPT !.err = dry]
    OBVIOUS
  <2>4. Stays(c)
    BY <1>1, <1>5, <1>8, <2>2, <2>3, DryStays
  <2> QED
    BY <2>4, StaysRestores
<1>9. CASE handler = "stream" /\ Goes(Current, [call EXCEPT !.err = "read_error"], src, "pulled")
  <2>1. PICK c : c = [call EXCEPT !.err = "read_error"]
    OBVIOUS
  <2>2. Stays(c)
    BY <1>9, <2>1, ReadErrorStays
  <2> QED
    BY <2>2, StaysRestores
<1> QED
  BY <1>1, <1>3, <1>5, <1>6, <1>7, <1>8, <1>9, FaultSteps

(* The input buffer grows to hold a chunk. *)
LEMMA GrownIs ==
  ASSUME NEW i \in Nat, i >= 3, NEW k \in Nat, k <= i + 2
  PROVE  Grown(i, k) \in Nat /\ Grown(i, k) >= i /\ Grown(i, k) >= k
<1> DEFINE P(j) == i * 2^j >= k /\ \A h \in 0..(j - 1) : i * 2^h < k
           v == CHOOSE j \in 0..8 : P(j)
<1>1. 2^0 = 1 /\ 2^1 = 2
  OBVIOUS
<1>2. i * 2^0 = i /\ i * 2^1 = 2 * i
  BY <1>1
<1>3. \E j \in 0..8 : P(j)
  <2>1. CASE i >= k
    <3>1. P(0)
      BY <1>2, <2>1
    <3> QED
      BY <3>1
  <2>2. CASE ~(i >= k)
    <3>1. \A h \in 0..(1 - 1) : h = 0
      OBVIOUS
    <3>2. i * 2^1 >= k /\ i * 2^0 < k
      BY <1>2, <2>2
    <3>3. P(1)
      BY <3>1, <3>2
    <3> QED
      BY <3>3
  <2> QED
    BY <2>1, <2>2
<1>4. v \in 0..8 /\ P(v)
  BY <1>3
<1> HIDE DEF v
<1>5. v = 0 \/ v = 1
  <2> SUFFICES ASSUME v # 0, v # 1 PROVE FALSE
    OBVIOUS
  <2>1. 1 \in 0..(v - 1)
    BY <1>4
  <2>2. i * 2^1 < k
    BY <1>4, <2>1
  <2> QED
    BY <1>2, <2>2
<1>6. Grown(i, k) = i * 2^v
  BY DEF Grown, v
<1>7. CASE v = 0
  <2>1. Grown(i, k) = i
    BY <1>2, <1>6, <1>7
  <2>2. i >= k
    BY <1>2, <1>4, <1>7
  <2> QED
    BY <2>1, <2>2
<1>8. CASE v = 1
  <2>1. Grown(i, k) = 2 * i
    BY <1>2, <1>6, <1>8
  <2> QED
    BY <2>1
<1> QED
  BY <1>5, <1>7, <1>8

-----------------------------------------------------------------------------
(* One chunk is decompressed: the header is skipped, and the codes of c    *)
(* come next.                                                              *)
Ahead(g, c, z) ==
    /\ Steady("unzip", g) /\ g.next = 2 /\ g.obuf = <<>> /\ g.z = Current.z
    /\ g.avail = Current.avail - 2 /\ g.isize >= Len(c) + 2
    /\ Input(g) \o src = Codes(c) \o z

(* The first unit of the buffer says how long the chunk is. *)
LEMMA HeaderSays ==
  ASSUME Ready, Current.next = 0, Current.avail >= 2, NEW c \in Text, NEW z \in Data,
         Headed(Input(Current) \o src, c, z)
  PROVE  SizeIn(Current.buf[1]) = Len(c)
<1>1. PICK b \in Data : b = Current.buf
  BY ReadyIs, FilterFields
<1>2. PICK a \in Nat : a = Current.avail /\ a >= 2 /\ a <= Len(b)
  BY <1>1, ReadyIs
<1>3. PICK i : i = SubSeq(b, 1, a)
  OBVIOUS
<1>4. Input(Current) = i
  <2>1. 0 + 1 = 1 /\ 0 + a = a
    OBVIOUS
  <2> QED
    BY <1>1, <1>2, <1>3, <2>1 DEF Input
<1>5. i \in Data /\ Len(i) = a /\ i[1] = b[1]
  <2>1. a <= Len(b)
    BY <1>2
  <2>2. i \in Data /\ Len(i) = a /\ \A j \in 1..a : i[j] = b[j]
    BY <1>3, <2>1, Head1
  <2>3. 1 \in 1..a
    BY <1>2
  <2> QED
    BY <2>2, <2>3
<1>6. IsJoin(i \o src, i, src)
  BY <1>5, Joined, Zenon DEF Ready
<1>7. (i \o src)[1] = i[1]
  BY <1>2, <1>5, <1>6 DEF IsJoin
<1>8. (i \o src)[1] = Size(Len(c))
  BY <1>4 DEF Headed
<1>9. b[1] = Size(Len(c))
  BY <1>5, <1>7, <1>8
<1>10. Size(Len(c)).k = "size" /\ Size(Len(c)).v[1] = Len(c)
  BY DEF Size
<1> QED
  BY <1>1, <1>9, <1>10 DEF SizeIn

(* The header is skipped, and the buffer grows if it must. *)
LEMMA HeaderSkipped ==
  ASSUME Ready, Current.next = 0, Current.avail >= 2, Current.obuf = <<>>,
         call.dir = "unzip", NEW c \in Text, NEW z \in Data, Len(c) \in 1..InputSize,
         Headed(Input(Current) \o src, c, z),
         NEW g, g = [Current EXCEPT !.next = @ + Header, !.avail = @ - Header,
                                    !.isize = Grown(@, Len(c) + Current.next + Header)]
  PROVE  Ahead(g, c, z)
<1>1. PICK f \in FilterState : f = Current
  BY ReadyIs
<1>2. PICK m \in Nat : m = Len(c) /\ m >= 1 /\ m <= InputSize
  BY Sizes3
<1>3. /\ f.next + f.avail <= Len(f.buf) /\ f.next = 0 /\ f.avail \in Nat /\ f.avail >= 2
      /\ f.isize \in Nat /\ f.isize >= 3 /\ f.isize >= InputSize /\ f.avail <= f.isize
      /\ f.obuf = <<>> /\ f.z \in LibraryState
  BY <1>1, ReadyIs, Sizes3, FilterFields
<1>4. PICK k \in Nat : k = m + 2 /\ k <= f.isize + 2
  BY <1>2, <1>3, Sizes3
<1>5. PICK w : w = Grown(f.isize, k)
  OBVIOUS
<1>6. w \in Nat /\ w >= f.isize /\ w >= k
  BY <1>3, <1>4, <1>5, GrownIs
<1>7. PICK h : h = Used(f, 2, f.z)
  OBVIOUS
<1>8. 2 \in Nat /\ 2 <= f.avail
  BY <1>3
<1>9. /\ h \in FilterState /\ h.z = f.z /\ h.obuf = f.obuf /\ h.isize = f.isize
      /\ h.avail = f.avail - 2 /\ h.next + h.avail <= Len(h.buf)
      /\ Input(h) = SubSeq(Input(f), 2 + 1, Len(Input(f)))
  <2>1. PICK two \in Nat : two = 2 /\ two <= f.avail
    BY <1>8
  <2>2. PICK z0 \in LibraryState : z0 = f.z
    BY <1>3
  <2>3. h = Used(f, two, z0) /\ f.next + f.avail <= Len(f.buf) /\ two <= f.avail
    BY <1>3, <1>7, <2>1, <2>2
  <2>4. /\ h \in FilterState /\ h.z = z0 /\ h.obuf = f.obuf /\ h.isize = f.isize
        /\ h.avail = f.avail - two /\ h.next + h.avail <= Len(h.buf)
        /\ Input(h) = SubSeq(Input(f), two + 1, Len(Input(f)))
    BY <2>3, UsedIs, SMTT(30)
  <2> QED
    BY <2>1, <2>2, <2>4
<1>10. h.next = 2
  BY <1>3, <1>7 DEF Used, FilterState
<1>11. g = [h EXCEPT !.isize = w]
  <2>1. Len(c) + Current.next + Header = k /\ Header = 2
    BY <1>1, <1>2, <1>3, <1>4, Sizes3
  <2>2. g = [f EXCEPT !.next = f.next + 2, !.avail = f.avail - 2, !.isize = w]
    BY <1>1, <1>5, <2>1
  <2>3. h = [f EXCEPT !.z = f.z, !.next = f.next + 2, !.avail = f.avail - 2]
    BY <1>7 DEF Used
  <2> QED
    BY <2>2, <2>3 DEF FilterState
<1>12. /\ g \in FilterState /\ g.z = f.z /\ g.obuf = <<>> /\ g.isize = w /\ g.next = 2
       /\ g.avail = f.avail - 2 /\ g.buf = h.buf /\ g.next = h.next /\ g.avail = h.avail
  BY <1>3, <1>6, <1>9, <1>10, <1>11 DEF FilterState
<1>13. Input(g) = Input(h)
  BY <1>12 DEF Input
<1>14. Steady("unzip", g)
  <2>1. g.isize >= InputSize /\ g.avail <= g.isize
    BY <1>3, <1>6, <1>12, Sizes3
  <2> QED
    BY <1>9, <1>12, <2>1 DEF Steady
<1>15. Input(g) \o src = Codes(c) \o z
  <2>1. PICK i \in Data : i = Input(f) /\ Len(i) = f.avail
    BY <1>3, InputIs
  <2>2. PICK t : t = SubSeq(i, 1, 2)
    OBVIOUS
  <2>3. PICK y : y = SubSeq(i, 2 + 1, Len(i))
    OBVIOUS
  <2>4. t \in Data /\ Len(t) = 2 /\ y \in Data
    <3>1. 2 \in Nat /\ 2 <= Len(i)
      BY <1>3, <2>1
    <3>2. t \in Data /\ Len(t) = 2
      BY <2>2, <3>1, Head1, ZenonT(60)
    <3>3. y \in Data
      BY <2>3, <3>1, AnyRest
    <3> QED
      BY <3>2, <3>3
  <2>5. t \o y = i
    <3>1. 2 \in Nat /\ 2 <= Len(i)
      BY <1>3, <2>1
    <3> QED
      BY <2>2, <2>3, <3>1, Rejoined
  <2>6. PICK r \in Data : r = src
    BY DEF Ready
  <2>7. Grouped(t, y, r)
    BY <2>4, RegroupIs, Zenon
  <2>8. PICK d \in Data : d = Codes(c)
    BY Coded DEF IsCoded
  <2>9. PICK e \in Data : e = <<Size(Len(c)), Size(Len(c))>> /\ Len(e) = 2
    BY ChunkIs
  <2>10. i \o r = e \o (d \o z)
    BY <1>1, <2>1, <2>6, <2>8, <2>9 DEF Headed
  <2>11. t \o (y \o r) = e \o (d \o z)
    BY <2>5, <2>7, <2>10 DEF Grouped
  <2>12. y \o r \in Data /\ d \o z \in Data
    BY <2>4, JoinedType
  <2>13. y \o r = d \o z
    <3>1. PICK u \in Data : u = y \o r
      BY <2>12
    <3>2. PICK v \in Data : v = d \o z
      BY <2>12
    <3>3. t \o u = e \o v /\ Len(t) = Len(e)
      BY <2>4, <2>9, <2>11, <3>1, <3>2
    <3>4. u = v
      BY <2>4, <3>3, Cancel, Zenon
    <3> QED
      BY <3>1, <3>2, <3>4
  <2> QED
    BY <1>9, <1>13, <2>1, <2>3, <2>6, <2>8, <2>13
<1>16. g.isize >= Len(c) + 2
  BY <1>2, <1>4, <1>6, <1>12
<1> QED
  BY <1>1, <1>12, <1>14, <1>15, <1>16 DEF Ahead

(* The whole chunk is there, or a stream gave less than it was asked for. *)
Arrived(x, c, z) ==
    /\ x.err = "ok" /\ Steady("unzip", x.f) /\ x.f.next = 2 /\ x.f.avail = Len(c)
    /\ Input(x.f) = Codes(c) /\ x.src = z /\ x.f.z = Current.z
Missed(x, c) ==
    /\ handler = "stream" /\ Steady("unzip", x.f) /\ x.src \in Data
    /\ x.err = "read_error" \/ (x.err = "ok" /\ x.f.avail < Len(c))

(* The rest of the chunk arrives as a whole, or not at all. *)
LEMMA RestArrives ==
  ASSUME Ready, lib = "lzo", NEW g, NEW c \in Text, NEW z \in Data, Ahead(g, c, z),
         NEW x, x \in IF Len(c) > g.avail THEN InputFault(g, Len(c) - g.avail)
                      ELSE {[f |-> g, src |-> src, err |-> "ok"]},
         Len(c) >= 1, Current.avail >= 2, Current.avail <= 3
  PROVE  Arrived(x, c, z) \/ Missed(x, c)
<1>1. PICK m \in Nat : m = Len(c)
  BY TextData, DataLen
<1>2. PICK f \in FilterState : f = g
  BY DEF Ahead, Steady
<1>3. PICK a \in Nat : a = f.avail
  BY FilterFields
<1>4. PICK r \in Data : r = src
  BY DEF Ready
<1>5. PICK l \in Nat : l = Len(r)
  BY DataLen
<1>6. /\ Steady("unzip", f) /\ f.next = 2 /\ f.obuf = <<>> /\ f.z = Current.z
      /\ f.next + f.avail <= Len(f.buf) /\ f.isize \in Nat /\ f.isize >= m + 2
      /\ a <= 1 /\ m >= 1
  <2>1. Current.avail \in Nat /\ f.isize \in Nat
    BY ReadyIs, FilterFields
  <2>2. a <= 1 /\ m >= 1
    BY <1>1, <1>2, <1>3, <2>1 DEF Ahead
  <2> QED
    BY <1>1, <1>2, <2>1, <2>2 DEF Ahead, Steady
<1>7. PICK y \in Data : y = Input(f) /\ Len(y) = a
  BY <1>3, <1>6, InputIs
<1>8. PICK d \in Data : d = Codes(c) /\ Len(d) = m
  BY <1>1, Coded DEF IsCoded
<1>9. y \o r = d \o z
  BY <1>2, <1>4, <1>7, <1>8 DEF Ahead
<1>10. l >= m - a
  <2>1. Len(y \o r) = a + l /\ Len(d \o z) = m + Len(z) /\ Len(z) \in Nat
    BY <1>5, <1>7, <1>8, JoinedType, DataLen
  <2> QED
    BY <1>9, <2>1
<1>11. CASE m > a
  <2>1. PICK amount \in Nat : amount = m - a /\ amount >= 1
    BY <1>11
  <2>2. x \in InputFault(f, amount)
    BY <1>1, <1>2, <1>3, <1>11, <2>1
  <2>3. PushFits(f, amount)
    <3>1. f.next + f.avail + amount <= f.isize
      BY <1>3, <1>6, <2>1
    <3> QED
      BY <1>6, <3>1 DEF PushFits
  <2>4. FaultGives(f, amount, x)
    BY <1>6, <2>1, <2>2, <2>3, FaultIs DEF Ready
  <2>5. CASE /\ x.err = "ok"
             /\ \E n \in 1..amount :
                  /\ n <= Len(src) /\ x.src = SubSeq(src, n + 1, Len(src))
                  /\ Pushed(f, x.f, SubSeq(src, 1, n)) /\ Len(SubSeq(src, 1, n)) = n
                  /\ handler = "buffer" => n = Least(amount, Len(src))
    <3>1. PICK n \in 1..amount :
                  /\ n <= Len(src) /\ x.src = SubSeq(src, n + 1, Len(src))
                  /\ Pushed(f, x.f, SubSeq(src, 1, n)) /\ Len(SubSeq(src, 1, n)) = n
                  /\ handler = "buffer" => n = Least(amount, Len(src))
      BY <2>5
    <3>2. PICK h : h = x.f
      OBVIOUS
    <3>3. /\ h \in FilterState /\ h.isize = f.isize /\ h.z = f.z /\ h.avail = a + n
          /\ h.avail <= h.isize /\ h.next + h.avail <= Len(h.buf) /\ h.next = 2
      BY <1>3, <1>6, <3>1, <3>2 DEF Pushed
    <3>4. Steady("unzip", h)
      BY <1>6, <3>3 DEF Steady
    <3>5. Keeps(f, h, r, n)
      <4>1. n \in Nat /\ n <= Len(r) /\ Pushed(f, h, SubSeq(r, 1, n))
        BY <1>4, <3>1, <3>2
      <4> QED
        BY <1>6, <4>1, PushedKeeps, Zenon
    <3>6. PICK q \in Data : q = x.src /\ Input(h) \o q = d \o z
      BY <1>4, <1>7, <1>9, <3>1, <3>5 DEF Keeps
    <3>7. CASE n = amount
      <4>1. h.avail = m
        BY <2>1, <3>3, <3>7
      <4>2. PICK i \in Data : i = Input(h) /\ Len(i) = m
        BY <3>3, <4>1, InputIs
      <4>3. i \o q = d \o z /\ Len(i) = Len(d)
        BY <1>8, <3>6, <4>2
      <4>4. i = d /\ q = z
        BY <4>3, Cancel, Zenon
      <4> QED
        BY <1>1, <1>6, <1>8, <2>5, <3>2, <3>3, <3>4, <3>6, <4>1, <4>2, <4>4 DEF Arrived
    <3>8. CASE n # amount
      <4>1. h.avail < m
        BY <2>1, <3>3, <3>8
      <4>2. handler # "buffer"
        BY <1>4, <1>5, <1>10, <2>1, <3>1, <3>8 DEF Least
      <4> QED
        BY <1>1, <2>5, <3>2, <3>4, <3>6, <4>1, <4>2 DEF Missed, Ready
    <3> QED
      BY <3>7, <3>8
  <2>6. CASE src = <<>> /\ x.f = f /\ x.src = src /\ x.err = "unhandled"
    <3>1. l = 0
      BY <1>4, <1>5, <2>6, Nothing
    <3> QED
      BY <1>10, <1>11, <3>1
  <2>7. CASE handler = "stream" /\ x.f = f /\ x.src = src /\ x.err = "read_error"
    BY <1>4, <1>6, <2>7 DEF Missed
  <2> QED
    BY <2>4, <2>5, <2>6, <2>7 DEF FaultGives
<1>12. CASE ~(m > a)
  <2>1. m = a
    BY <1>6, <1>12
  <2>2. x = [f |-> f, src |-> src, err |-> "ok"]
    BY <1>1, <1>2, <1>3, <1>12
  <2>3. Len(y) = Len(d)
    BY <1>7, <1>8, <2>1
  <2>4. y = d /\ r = z
    BY <1>9, <2>3, Cancel, Zenon
  <2>5. x.f = f /\ x.src = src /\ x.err = "ok"
    BY <2>2
  <2> QED
    BY <1>1, <1>3, <1>4, <1>6, <1>7, <1>8, <2>1, <2>4, <2>5 DEF Arrived
<1> QED
  BY <1>11, <1>12

(* A call while a chunk is decompressed, and after its header was taken    *)
(* from its size.                                                          *)
Fitting(c) ==
    /\ c.room = Request /\ Len(c.out) <= Request
    /\ ~Short(c) => Len(c.out) + c.size <= Request

LEMMA CallShrinks ==
  ASSUME Ready, lib = "lzo", call.dir = "unzip", Wanting, ~call.flush, Current.obuf = <<>>,
         Current.avail >= 2, NEW c, c = [call EXCEPT !.size = Minus(@, HeaderSize)]
  PROVE  /\ c \in CallState /\ c.out = call.out /\ c.dir = call.dir /\ c.flush = call.flush
         /\ c.zret = "ok" /\ Fitting(c)
<1>1. PICK m \in Nat : m = call.size
  BY ReadyIs
<1>2. PICK l \in Nat : l = Len(call.out)
  BY ReadyIs
<1>3. l < m /\ l <= Request /\ m <= SizeMax
  BY <1>1, <1>2, FilterAssumption DEF Wanting, Ready, SizesFit, CallState
<1>4. PICK q : q = Minus(m, HeaderSize)
  OBVIOUS
<1>5. q \in 0..SizeMax /\ (m >= HeaderSize => q = m - HeaderSize)
  BY <1>3, <1>4, HeaderCost, FilterAssumption DEF Minus
<1>6. c = [call EXCEPT !.size = q]
  BY <1>1, <1>4
<1>7. /\ c \in CallState /\ c.out = call.out /\ c.dir = call.dir /\ c.flush = call.flush
      /\ c.zret = call.zret /\ c.size = q /\ c.room = call.room
  BY <1>5, <1>6 DEF CallState, Ready
<1>8. Request \in Nat /\ call.zret = "ok" /\ call.room = Request
  BY ReadyIs DEF Ready, SizesFit
<1>9. Short(c) = Short(call)
  BY <1>7 DEF Short
<1>10. ~Short(c) => Len(c.out) + c.size <= Request
  <2> SUFFICES ASSUME ~Short(call) PROVE Len(c.out) + c.size <= Request
    BY <1>9
  <2>1. l + m <= Request
    BY <1>1, <1>2 DEF Ready, SizesFit
  <2>2. m >= HeaderSize
    <3>1. Ample(Current, call, src)
      BY DEF Ready, SizesFit
    <3>2. Request >= 2 * HeaderSize - 2
      BY <1>8, HeaderCost DEF Short, Enough
    <3>3. ~(Current.avail = 0)
      OBVIOUS
    <3>4. CASE l + m = Request
      BY <1>3, <1>8, <3>2, <3>4, HeaderCost
    <3>5. CASE l + 0 >= HeaderSize - 1
      BY <1>3, <3>5, HeaderCost
    <3> QED
      BY <1>1, <1>2, <3>1, <3>3, <3>4, <3>5, Nothing DEF Ample
  <2> QED
    BY <1>2, <1>5, <1>7, <1>8, <2>1, <2>2, HeaderCost
<1> QED
  BY <1>2, <1>3, <1>7, <1>8, <1>10 DEF Fitting

(* The chunk came: its text is ready to be delivered. *)
LEMMA ArrivedSteps ==
  ASSUME Ready, lib = "lzo", call.dir = "unzip", ~call.flush, NEW s \in Text,
         NEW n, NEW t, NEW z, Coming(s, n, t, Input(Current) \o src, z),
         Before \o call.out = SubSeq(s, 1, n), Current.z = Fresh,
         NEW x, Arrived(x, t, z),
         NEW c \in CallState, c.out = call.out, c.dir = call.dir, c.flush = call.flush,
         c.zret = "ok", Fitting(c),
         NEW g, g = [x.f EXCEPT !.obuf = t, !.buf = <<>>, !.avail = 0, !.next = 0],
         Goes(g, c, x.src, "pull")
  PROVE  LzoStep(s)
<1>1. PICK f \in FilterState : f = x.f /\ f.isize \in Nat /\ f.isize >= InputSize
  BY FilterFields DEF Arrived, Steady
<1>2. t \in Data /\ t # <<>> /\ z \in Data
  <2>1. t \in Data /\ Len(t) >= 1 /\ z \in Data
    BY TextData, Sizes3 DEF Coming
  <2> QED
    BY <2>1, Nothing
<1>3. f.z = Fresh /\ x.src = z
  BY <1>1 DEF Arrived
<1>4. /\ g \in FilterState /\ g.buf = <<>> /\ g.avail = 0 /\ g.next = 0 /\ g.obuf = t
      /\ g.z = Fresh /\ g.isize = f.isize
  BY <1>1, <1>2, <1>3, Nothing DEF FilterState
<1>5. g.next + g.avail <= Len(g.buf) /\ g.avail <= g.isize /\ g.avail <= 3
  BY <1>1, <1>4, Nothing
<1>6. Steady(c.dir, g)
  BY <1>1, <1>4, <1>5 DEF Steady
<1>7. SizesFit(g, c, z, "pull")
  <2>1. CASE Len(t) = InputSize
    <3>1. Len(c.out) \in Nat
      BY CallFields, DataLen
    <3>2. Len(c.out) + Len(g.obuf) >= HeaderSize - 1
      BY <1>4, <2>1, <3>1, HeaderCost, Sizes3
    <3> QED
      BY <3>2 DEF SizesFit, Fitting, Ample
  <2>2. CASE z = <<>>
    BY <1>4, <2>2 DEF SizesFit, Fitting, Ample
  <2> QED
    BY <2>1, <2>2 DEF Coming
<1>8. Flushed(g, c, z, "pull")
  BY DEF Flushed
<1>9. Steps(g, c, z, "pull")
  BY <1>2, <1>3, <1>6, <1>7, <1>8 DEF Steps, Fine, SameCall
<1>10. Input(g) \o z = z
  <2>1. Input(g) = <<>>
    BY <1>4, <1>5, InputIs
  <2> QED
    BY <1>2, <2>1, Empties
<1>11. PICK k : k = n + Len(t)
  OBVIOUS
<1>12. /\ k \in 0..Len(s) /\ (Multiple(k) \/ k = Len(s))
       /\ SubSeq(s, 1, n) \o t = SubSeq(s, 1, k)
       /\ Lzo(s) = Lzo(SubSeq(s, 1, k)) \o z
  BY <1>11 DEF Coming
<1>13. (Before \o c.out) \o g.obuf = SubSeq(s, 1, k)
  BY <1>4, <1>12
<1>14. LzoUnzips(g, s, Before \o c.out, z)
  BY <1>4, <1>5, <1>10, <1>12, <1>13, Zenon DEF LzoUnzips
<1>15. Restores(s, g, c, z) /\ ~Broken(c, "pull")
  BY <1>14 DEF Restores, Broken
<1> QED
  BY <1>9, <1>15 DEF LzoStep

(* A pull that fails because it did not. *)
LEMMA MissedSteps ==
  ASSUME Ready, lib = "lzo", call.dir = "unzip", ~call.flush, NEW s, NEW t,
         NEW x, Missed(x, t),
         NEW c \in CallState, c.out = call.out, c.dir = call.dir, c.flush = call.flush,
         Fitting(c),
         NEW d, d = [c EXCEPT !.err = "filter_error"], Goes(x.f, d, x.src, "pulled")
  PROVE  LzoStep(s)
<1>1. "filter_error" \in Outcome
  BY DEF Outcome
<1>2. /\ d \in CallState /\ d.err = "filter_error" /\ d.out = c.out /\ d.size = c.size /\ d.room = c.room
      /\ d.dir = c.dir /\ d.flush = c.flush
  BY <1>1 DEF CallState
<1>3. SizesFit(x.f, d, x.src, "pulled")
  BY <1>2 DEF SizesFit, Fitting, Short
<1>4. Flushed(x.f, d, x.src, "pulled")
  BY <1>2 DEF Flushed
<1>5. Steady("unzip", x.f) /\ x.src \in Data /\ handler = "stream"
  BY DEF Missed
<1>6. Fine(x.f, d, x.src, "pulled")
  BY <1>2, <1>3, <1>4, <1>5 DEF Fine
<1>7. Steps(x.f, d, x.src, "pulled") /\ Broken(d, "pulled")
  BY <1>2, <1>6 DEF Steps, SameCall, Broken
<1> QED
  BY <1>5, <1>7 DEF LzoStep

(* How LzoDecompress goes on with what its fault gave. *)
Decoding(x, m, c) ==
    LET data == SubSeq(x.f.buf, x.f.next + 1, x.f.next + m)
    IN  /\ src' = x.src
        /\ IF x.err \in {"abort", "spin"} THEN PullReturns(x.f, c, x.err)
           ELSE IF x.err # "ok" \/ x.f.avail < m \/ ~(\A i \in 1..m : data[i].k = "code")
           THEN PullReturns(x.f, c, "filter_error")
           ELSE Continue([x.f EXCEPT !.obuf = Plain(data), !.buf = <<>>,
                                     !.avail = 0, !.next = 0], c)

Resumes(m, g, c) ==
    \E x \in IF m > g.avail THEN InputFault(g, m - g.avail)
             ELSE {[f |-> g, src |-> src, err |-> "ok"]} : Decoding(x, m, c)

(* What decompression of a chunk starts from. *)
LEMMA DecompressIs ==
  ASSUME LzoDecompress, NEW m, m = SizeIn(Current.buf[1]), m # SizeMax,
         NEW g, g = [Current EXCEPT !.next = @ + Header, !.avail = @ - Header,
                                    !.isize = Grown(@, m + Current.next + Header)],
         NEW c, c = [call EXCEPT !.size = Minus(@, HeaderSize)]
  PROVE  Resumes(m, g, c)
<1>1. \E x \in IF m > g.avail THEN InputFault(g, m - g.avail)
               ELSE {[f |-> g, src |-> src, err |-> "ok"]} : Decoding(x, m, c)
  BY ZenonT(60) DEF LzoDecompress, Decoding
<1> QED
  BY <1>1, Zenon DEF Resumes

(* Decompression of a chunk. *)
LEMMA LzoDecompressSteps ==
  ASSUME Ready, LzoDecompress, NEW s \in Text, Restores(s, Current, call, src)
  PROVE  LzoStep(s)
<1>1. /\ lib = "lzo" /\ call.dir = "unzip" /\ Current.obuf = <<>> /\ ~call.flush /\ Wanting
      /\ Current.avail >= Header /\ lib' = lib /\ handler' = handler
  BY DEF LzoDecompress, LzoUnzipping
<1>2. Current.next = 0 /\ Current.z = Fresh /\ Current.avail <= 3 /\ Current.avail >= 2
  BY <1>1, Sizes3 DEF Restores, LzoUnzips
<1>3. PICK n, t, z : /\ Coming(s, n, t, Input(Current) \o src, z)
                     /\ Before \o call.out = SubSeq(s, 1, n)
  <2>1. Current.avail # 0
    BY <1>2, ReadyIs
  <2> QED
    BY <1>1, <2>1, RestoresNext
<1>4. /\ t \in Text /\ z \in Data /\ Len(t) \in 1..InputSize
      /\ Headed(Input(Current) \o src, t, z)
  BY <1>3 DEF Coming
<1>5. PICK m \in Nat : m = Len(t) /\ m >= 1 /\ m # SizeMax
  BY <1>4, FilterAssumption
<1>6. m = SizeIn(Current.buf[1])
  BY <1>2, <1>4, <1>5, HeaderSays
<1>7. PICK g : g = [Current EXCEPT !.next = @ + Header, !.avail = @ - Header,
                                   !.isize = Grown(@, m + Current.next + Header)]
  OBVIOUS
<1>8. Ahead(g, t, z)
  BY <1>1, <1>2, <1>4, <1>5, <1>7, HeaderSkipped
<1>9. PICK c : c = [call EXCEPT !.size = Minus(@, HeaderSize)]
  OBVIOUS
<1>10. /\ c \in CallState /\ c.out = call.out /\ c.dir = call.dir /\ c.flush = call.flush
       /\ c.zret = "ok" /\ Fitting(c)
  BY <1>1, <1>2, <1>9, CallShrinks
<1>11. PICK x \in IF m > g.avail THEN InputFault(g, m - g.avail)
                  ELSE {[f |-> g, src |-> src, err |-> "ok"]} : Decoding(x, m, c)
  <2>1. Resumes(m, g, c)
    BY <1>5, <1>6, <1>7, <1>9, DecompressIs, Zenon
  <2> QED
    BY <2>1, Zenon DEF Resumes
<1>12. Arrived(x, t, z) \/ Missed(x, t)
  <2>1. /\ x \in IF Len(t) > g.avail THEN InputFault(g, Len(t) - g.avail)
                 ELSE {[f |-> g, src |-> src, err |-> "ok"]}
        /\ Len(t) >= 1
    BY <1>5, <1>11
  <2> QED
    BY <1>1, <1>2, <1>4, <1>8, <2>1, RestArrives
<1>13. CASE Missed(x, t)
  <2>1. x.err # "abort" /\ x.err # "spin" /\ (x.err # "ok" \/ x.f.avail < m)
    BY <1>5, <1>13 DEF Missed
  <2>2. PullReturns(x.f, c, "filter_error") /\ src' = x.src
    BY <1>11, <2>1 DEF Decoding
  <2>3. PICK d : d = [c EXCEPT !.err = "filter_error"]
    OBVIOUS
  <2>4. "filter_error" \in Outcome
    BY DEF Outcome
  <2>5. Goes(x.f, d, x.src, "pulled")
    BY <1>1, <2>2, <2>3, <2>4, PullReturnsIs
  <2> QED
    BY <1>1, <1>10, <1>13, <2>3, <2>5, MissedSteps
<1>14. CASE Arrived(x, t, z)
  <2>1. /\ x.err = "ok" /\ x.f \in FilterState /\ x.f.next = 2 /\ x.f.avail = m
        /\ Input(x.f) = Codes(t)
    BY <1>5, <1>14 DEF Arrived, Steady
  <2>2. PICK data : data = SubSeq(x.f.buf, x.f.next + 1, x.f.next + m)
    OBVIOUS
  <2>3. data = Codes(t)
    BY <2>1, <2>2 DEF Input
  <2>4. data \in Data /\ Len(data) = m /\ \A i \in 1..m : data[i].k = "code"
    <3>1. IsCoded(data, t)
      BY <1>4, <2>3, Coded
    <3>2. data \in Data /\ Len(data) = m /\ \A i \in 1..m : data[i] = Code(t[i])
      BY <1>5, <3>1 DEF IsCoded
    <3>3. \A i \in 1..m : t[i] \in PlainUnit
      BY <1>4, <1>5, TextData
    <3>4. ASSUME NEW i \in 1..m PROVE data[i].k = "code"
      <4>1. t[i] \in PlainUnit /\ data[i] = Code(t[i])
        BY <3>2, <3>3, <3>4
      <4> QED
        BY <4>1, CodeIs
    <3> QED
      BY <3>2, <3>4
  <2>5. Plain(data) = t
    <3>1. \A i \in 1..Len(data) : data[i].k = "code"
      BY <2>4
    <3>2. Plain(data) \in Text /\ Codes(Plain(data)) = data
      BY <2>4, <3>1, PlainIsCoded
    <3> QED
      BY <1>4, <2>3, <3>2, CodesInjective
  <2>6. ~(x.f.avail < m)
    BY <2>1
  <2>7. PICK h : h = [x.f EXCEPT !.obuf = t, !.buf = <<>>, !.avail = 0, !.next = 0]
    OBVIOUS
  <2>8. Continue(h, c) /\ src' = x.src
    <3>1. x.err # "abort" /\ x.err # "spin"
      BY <2>1
    <3> QED
      BY <1>11, <2>1, <2>2, <2>4, <2>5, <2>6, <2>7, <3>1 DEF Decoding
  <2>9. Goes(h, c, x.src, "pull")
    BY <1>1, <2>8, ContinueIs DEF Ready
  <2> QED
    BY <1>1, <1>2, <1>3, <1>10, <1>14, <2>7, <2>9, ArrivedSteps
<1> QED
  BY <1>12, <1>13, <1>14

(* Every round of pull that decompresses with LZO. *)
LEMMA LzoUnzipPull ==
  ASSUME Ready, call.dir = "unzip", lib = "lzo", NEW s \in Text,
         Restores(s, Current, call, src), Pull, pc' # "overrun"
  PROVE  LzoStep(s)
<1>1. CASE PullFilled
  BY <1>1, FilledStays, StaysRestores
<1>2. CASE LzoDelivers
  BY <1>2, LzoDeliversSteps, DeliversRestores
<1>3. CASE LzoUnzipFlushed
  BY <1>3, LzoUnzipFlushedSteps
<1>4. CASE LzoHeaderFault
  BY <1>4, LzoHeaderFaultSteps
<1>5. CASE LzoDecompress
  BY <1>5, LzoDecompressSteps
<1>6. ~ZipFaults /\ ~ZipProcess /\ ~LzoZipFaults /\ ~LzoCompress
  BY DEF ZipFaults, ZipProcess, LzoZipFaults, LzoCompress, LzoZipping
<1> QED
  BY <1>1, <1>2, <1>3, <1>4, <1>5, <1>6 DEF Pull

-----------------------------------------------------------------------------
(* A round of pull starts from a filter that is ready. *)
LEMMA PullIsReady ==
  ASSUME FilterInv, Pull
  PROVE  Ready
<1>1. pc = "pull"
  BY DEF Pull, PullFilled, ZipFaults, ZipProcess, LzoDelivers, LzoZipFaults, LzoCompress,
         LzoUnzipFlushed, LzoHeaderFault, LzoDecompress, LzoZipping, LzoUnzipping, Wanting
<1>2. Fine(Current, call, src, pc) /\ Request \in Nat
  BY <1>1 DEF FilterInv, Pending, Current
<1>3. lib \in Library /\ client \in {"store", "stream"}
  BY DEF FilterInv, Types
<1>4. handler \in {"buffer", "stream"}
  BY <1>1, <1>3 DEF FilterInv, StoreControl, StreamControl
<1>5. Before \in Data
  <2>1. through.out \in Data /\ given \in Data /\ strm.read \in Data
    BY DEF FilterInv, Types
  <2>2. given \o strm.read \in Data
    BY <2>1, JoinedType
  <2> QED
    BY <2>1, <2>2 DEF Before
<1> QED
  BY <1>1, <1>2, <1>3, <1>4, <1>5, SMTT(30) DEF Ready, Fine

(* What a step of pull leaves to its client. *)
Clients == UNCHANGED <<storeVars, streamVars, client>>

(* A pull leaves its client's variables alone. *)
LEMMA ClientsSame ==
  ASSUME Clients, lib' = lib
  PROVE  /\ backend' = backend /\ op' = op /\ through' = through /\ ret' = ret
         /\ failed' = failed /\ source' = source /\ strm' = strm /\ given' = given
         /\ client' = client /\ Before' = Before /\ Request' = Request /\ Whole' = Whole
BY DEF Clients, storeVars, streamVars, Before, Request, Whole

(* A pull changes one filter and its call. *)
LEMMA FiltersNext ==
  ASSUME FilterInv, NEW f, NEW c, NEW r, NEW p, Steps(f, c, r, p)
  PROVE  /\ filt' \in [Direction -> FilterState] /\ filt'[call.dir] = f
         /\ \A d \in Direction : d # call.dir => filt'[d] = filt[d]
         /\ call' = c /\ src' = r /\ pc' = p /\ lib' = lib /\ handler' = handler
         /\ call'.dir = call.dir /\ call'.flush = call.flush
         /\ \A d \in Direction : Steady(d, filt'[d])
<1>1. /\ filt' = [filt EXCEPT ![call.dir] = f] /\ call' = c /\ src' = r /\ pc' = p
      /\ lib' = lib /\ handler' = handler /\ c.dir = call.dir /\ c.flush = call.flush
      /\ Steady(c.dir, f)
  BY DEF Steps, Goes, SameCall, Fine
<1>2. filt \in [Direction -> FilterState] /\ call.dir \in Direction
      /\ \A d \in Direction : Steady(d, filt[d])
  BY CallFields DEF FilterInv, Types
<1>3. f \in FilterState
  BY <1>1 DEF Steady
<1>4. /\ filt' \in [Direction -> FilterState] /\ filt'[call.dir] = f
      /\ \A d \in Direction : d # call.dir => filt'[d] = filt[d]
  BY <1>1, <1>2, <1>3
<1>5. \A d \in Direction : Steady(d, filt'[d])
  <2> TAKE d \in Direction
  <2>1. CASE d = call.dir
    BY <1>1, <1>4, <2>1
  <2>2. CASE d # call.dir
    BY <1>2, <1>4, <2>2
  <2> QED
    BY <2>1, <2>2
<1> QED
  BY <1>1, <1>4, <1>5

(* It keeps the parts of the invariant that name no session. *)
LEMMA FineNext ==
  ASSUME FilterInv, Clients, pc = "pull", Request \in Nat,
         NEW f, NEW c, NEW r, NEW p, Steps(f, c, r, p)
  PROVE  Types' /\ StoreControl' /\ StreamControl' /\ Pending' /\ BackendInv'
<1>1. /\ filt' \in [Direction -> FilterState] /\ filt'[call.dir] = f
      /\ call' = c /\ src' = r /\ pc' = p /\ lib' = lib /\ handler' = handler
      /\ c.dir = call.dir /\ c.flush = call.flush
      /\ \A d \in Direction : Steady(d, filt'[d])
  BY FiltersNext
<1>2. /\ backend' = backend /\ op' = op /\ through' = through /\ ret' = ret
      /\ failed' = failed /\ source' = source /\ strm' = strm /\ given' = given
      /\ client' = client /\ Request' = Request
  BY <1>1, ClientsSame
<1>3. Fine(f, c, r, p)
  BY DEF Steps
<1>4. c \in CallState /\ r \in Data /\ p \in {"pull", "pulled"}
  BY <1>3 DEF Fine
<1>5. p # "idle" /\ pc # "idle"
  BY <1>4
<1>6. Types'
  <2>1. \A d \in Direction : Steady(d, filt[d])'
    BY <1>1 DEF Steady
  <2> QED
    BY <1>1, <1>2, <1>4, <2>1 DEF FilterInv, Types
<1>7. Pending'
  <2>1. SizesFit(filt[call.dir], call, src, pc)'
    BY <1>1, <1>2, <1>3 DEF Fine, SizesFit, Short, Ample
  <2>2. Flushed(filt[call.dir], call, src, pc)'
    BY <1>1, <1>2, <1>3 DEF Fine, Flushed, Drained, Clean
  <2>3. Steady(call.dir, filt[call.dir])'
    BY <1>1, <1>3 DEF Fine, Steady
  <2> QED
    BY <1>1, <1>2, <1>4, <2>1, <2>2, <2>3 DEF Pending, Fine
<1>8. BackendInv'
  BY <1>1, <1>2 DEF FilterInv, BackendInv
<1>9. StoreControl'
  BY <1>1, <1>2, <1>5 DEF FilterInv, StoreControl
<1>10. StreamControl'
  BY <1>1, <1>2, <1>5 DEF FilterInv, StreamControl
<1> QED
  BY <1>6, <1>7, <1>8, <1>9, <1>10

-----------------------------------------------------------------------------
(* What a filter is doing depends on the filter, its call and its client's *)
(* state.                                                                  *)
Now(d, f, c, r, p) ==
    lib' = lib /\ Before' = Before /\ filt'[d] = f /\ call' = c /\ src' = r /\ pc' = p

(* Compression. *)
LEMMA CompressesNext ==
  ASSUME NEW s, NEW d, NEW f, NEW c, NEW r, NEW p, Compresses(s, f, c, r, p), Now(d, f, c, r, p)
  PROVE  Compresses(s, filt[d], call, src, pc)'
BY DEF Compresses, Ended, Now

(* Decompression with zlib and bzip2. *)
LEMMA DecompressesNext ==
  ASSUME NEW w, NEW d, NEW f, NEW c, NEW r, NEW p, Decompresses(w, f, c, r, p),
         Now(d, f, c, r, p)
  PROVE  Decompresses(w, filt[d], call, src, pc)'
BY DEF Decompresses, Ended, Now

(* Decompression with LZO. *)
LEMMA RestoringNext ==
  ASSUME NEW s, NEW d, NEW f, NEW c, NEW r, NEW p, Restores(s, f, c, r), Now(d, f, c, r, p)
  PROVE  Restores(s, filt[d], call, src)'
BY DEF Restores, Now

(* No decompression any more. *)
LEMMA DeadNext ==
  ASSUME NEW d, NEW f, Dead(f), lib' = lib, filt'[d] = f
  PROVE  Dead(filt[d])'
BY DEF Dead

(* How the call stands. *)
LEMMA EndedNext ==
  ASSUME NEW d, NEW f, NEW c, NEW r, NEW p, Now(d, f, c, r, p)
  PROVE  /\ Ended(call, pc)' = Ended(c, p) /\ Broken(call, pc)' = Broken(c, p)
BY DEF Ended, Broken, Now

(* A pull's client sees the filter as it is. *)
LEMMA PullNow ==
  ASSUME FilterInv, Clients, NEW f, NEW c, NEW r, NEW p, Steps(f, c, r, p)
  PROVE  Now(call.dir, f, c, r, p)
<1>1. filt'[call.dir] = f /\ call' = c /\ src' = r /\ pc' = p /\ lib' = lib
  BY FiltersNext
<1>2. Before' = Before
  BY <1>1, ClientsSame
<1> QED
  BY <1>1, <1>2 DEF Now

(* The other filter of a store rests. *)
LEMMA PullRests ==
  ASSUME FilterInv, Ready, Clients, client = "store",
         NEW f, NEW c, NEW r, NEW p, Steps(f, c, r, p)
  PROVE  (\A d \in Direction : pc = "idle" \/ d # call.dir => Rested(d))'
<1>1. /\ \A d \in Direction : d # call.dir => filt'[d] = filt[d]
      /\ pc' = p /\ lib' = lib /\ call'.dir = call.dir
  BY FiltersNext
<1>2. failed' = failed
  BY <1>1, ClientsSame
<1>3. p # "idle" /\ pc # "idle"
  BY DEF Steps, Fine, Ready
<1>4. \A d \in Direction : d # call.dir => Rested(d)
  BY <1>3 DEF FilterInv, StoreInv
<1>5. ASSUME NEW d \in Direction, d # call.dir
      PROVE  Rested(d)'
  <2>1. Rested(d) /\ filt'[d] = filt[d]
    BY <1>1, <1>4, <1>5
  <2> QED
    BY <1>1, <1>2, <2>1 DEF Rested, Dead, Clean
<1> QED
  BY <1>1, <1>3, <1>5

(* A pull for a write goes on compressing the block. *)
LEMMA PullWrites ==
  ASSUME FilterInv, Ready, Clients, client = "store", op.name = "write", Pull,
         pc' # "overrun"
  PROVE  \E f, c, r, p : Steps(f, c, r, p) /\ Writing'
<1>1. pc # "idle" /\ handler = "buffer" /\ call.dir = "zip" /\ Current = filt["zip"]
  BY DEF Ready, FilterInv, StoreControl, Current
<1>2. Writing
  BY <1>1 DEF FilterInv, StoreInv
<1>3. PICK b \in Block : b = op.block /\ Compresses(b, Current, call, src, pc)
  BY <1>1, <1>2 DEF Writing
<1>4. b \in Text
  BY FilteredStoreAssumption DEF Text
<1>5. ZipStep(b)
  <2>1. CASE lib = "lzo"
    BY <1>1, <1>3, <1>4, <2>1, LzoZipPull
  <2>2. CASE lib # "lzo"
    BY <1>1, <1>3, <1>4, <2>2, ZipPull
  <2> QED
    BY <2>1, <2>2
<1>6. PICK f, c, r, p : /\ Steps(f, c, r, p) /\ Compresses(b, f, c, r, p)
                        /\ Broken(c, p) => handler = "stream"
  BY <1>5 DEF ZipStep
<1>7. Now("zip", f, c, r, p)
  BY <1>1, <1>6, PullNow
<1>8. Compresses(b, filt["zip"], call, src, pc)'
  BY <1>6, <1>7, CompressesNext
<1>9. ~Broken(call, pc)'
  BY <1>1, <1>6, <1>7, EndedNext
<1>10. op'.block = b
  <2>1. lib' = lib
    BY <1>7 DEF Now
  <2> QED
    BY <1>3, <2>1, ClientsSame
<1>11. Compresses(op.block, filt["zip"], call, src, pc)'
  BY <1>8, <1>10 DEF Compresses
<1> QED
  BY <1>6, <1>9, <1>10, <1>11 DEF Writing

(* A pull for a read goes on decompressing what is stored. *)
LEMMA PullReads ==
  ASSUME FilterInv, Ready, Clients, client = "store", op.name = "read", Pull,
         pc' # "overrun"
  PROVE  \E f, c, r, p : Steps(f, c, r, p) /\ Reading'
<1>1. pc # "idle" /\ handler = "buffer" /\ call.dir = "unzip" /\ Current = filt["unzip"]
      /\ op.key \in Key
  BY DEF Ready, FilterInv, StoreControl, Current
<1>2. Reading
  BY <1>1 DEF FilterInv, StoreInv
<1>3. backend[op.key] # None
  BY <1>2 DEF Reading
<1>4. PICK w : w = backend[op.key]
  OBVIOUS
<1>5. w \in Data
  BY <1>1, <1>3, <1>4 DEF FilterInv, Types
<1>6. CASE lib = "lzo"
  <2>1. PICK b \in Block : w = Lzo(b) /\ Restores(b, Current, call, src)
    BY <1>1, <1>2, <1>4, <1>6 DEF Reading
  <2>2. b \in Text
    BY FilteredStoreAssumption DEF Text
  <2>3. LzoStep(b)
    BY <1>1, <1>6, <2>1, <2>2, LzoUnzipPull
  <2>4. PICK f, c, r, p : /\ Steps(f, c, r, p)
                          /\ Restores(b, f, c, r) \/ Broken(c, p)
                          /\ Broken(c, p) => handler = "stream"
    BY <2>3 DEF LzoStep
  <2>5. Now("unzip", f, c, r, p)
    BY <1>1, <2>4, PullNow
  <2>6. Restores(b, f, c, r) /\ ~Broken(c, p)
    BY <1>1, <2>4
  <2>7. Restores(b, filt["unzip"], call, src)'
    BY <2>5, <2>6, RestoringNext
  <2>8. ~Broken(call, pc)'
    BY <2>5, <2>6, EndedNext
  <2>9. lib' = lib
    BY <2>5 DEF Now
  <2>10. backend' = backend /\ op' = op
    BY <2>9, ClientsSame
  <2> QED
    BY <1>3, <1>4, <1>6, <2>1, <2>4, <2>7, <2>8, <2>9, <2>10 DEF Reading
<1>7. CASE lib # "lzo"
  <2>1. \E f, c, r, p : /\ Steps(f, c, r, p)
                        /\ Decompresses(w, f, c, r, p) \/ (Dead(f) /\ ~Ended(c, p))
                        /\ Broken(c, p) => Dead(f)
    <3>1. CASE Decompresses(w, Current, call, src, pc)
      <4>1. UnzipStep(w)
        BY <1>1, <1>5, <1>7, <3>1, UnzipPull
      <4>2. PICK f, c, r, p : /\ Steps(f, c, r, p)
                              /\ Decompresses(w, f, c, r, p) \/ (Dead(f) /\ Broken(c, p))
                              /\ Broken(c, p) => Dead(f) \/ handler = "stream"
        BY <4>1 DEF UnzipStep
      <4>3. Broken(c, p) => ~Ended(c, p)
        BY DEF Broken, Ended
      <4> QED
        BY <1>1, <4>2, <4>3
    <3>2. CASE Dead(Current)
      <4>1. DeadStep
        BY <1>1, <3>2, DeadPull
      <4> QED
        BY <4>1 DEF DeadStep
    <3> QED
      BY <1>1, <1>2, <1>4, <1>7, <3>1, <3>2 DEF Reading
  <2>2. PICK f, c, r, p : /\ Steps(f, c, r, p)
                          /\ Decompresses(w, f, c, r, p) \/ (Dead(f) /\ ~Ended(c, p))
                          /\ Broken(c, p) => Dead(f)
    BY <2>1
  <2>3. Now("unzip", f, c, r, p)
    BY <1>1, <2>2, PullNow
  <2>4. lib' = lib /\ filt'["unzip"] = f
    BY <2>3 DEF Now
  <2>5. backend' = backend /\ op' = op
    BY <2>4, ClientsSame
  <2>6. Decompresses(w, f, c, r, p) => Decompresses(w, filt["unzip"], call, src, pc)'
    BY <2>3, DecompressesNext
  <2>7. Decompresses(w, f, c, r, p)
        => Decompresses(backend[op.key], filt["unzip"], call, src, pc)'
    BY <1>4, <2>5, <2>6 DEF Decompresses
  <2>8. Dead(f) => Dead(filt["unzip"])'
    BY <2>4, DeadNext
  <2>9. Ended(call, pc)' = Ended(c, p) /\ Broken(call, pc)' = Broken(c, p)
    BY <2>3, EndedNext
  <2> QED
    BY <1>3, <1>7, <2>2, <2>4, <2>5, <2>7, <2>8, <2>9 DEF Reading
<1> QED
  BY <1>6, <1>7

(* A pull for a stream goes on, unless it fails. *)
LEMMA PullStreams ==
  ASSUME FilterInv, Ready, Clients, client = "stream", Pull,
         pc' # "overrun"
  PROVE  \E f, c, r, p : Steps(f, c, r, p) /\ (Broken(call, pc)' \/ Streaming')
<1>1. /\ strm.open /\ strm.status \in {"none", "ok"} /\ call.dir = strm.dir
      /\ Current = filt[strm.dir] /\ call.dir \in Direction
  BY CallFields DEF Ready, FilterInv, StreamControl, Current
<1>2. ~Broken(call, pc)
  BY DEF Ready, Broken
<1>3. Streaming
  BY <1>1, <1>2 DEF FilterInv, StreamInv
<1>4. source \in Text /\ Marked(source) \in Data
  BY MarkedIs DEF IsMarked, FilterInv, Types
<1>5. \A f, c, r, p : Steps(f, c, r, p) =>
        /\ Now(strm.dir, f, c, r, p) /\ lib' = lib /\ strm' = strm /\ source' = source
        /\ Broken(call, pc)' = Broken(c, p)
  <2> TAKE f, c, r, p
  <2> HAVE Steps(f, c, r, p)
  <2>1. Now(strm.dir, f, c, r, p)
    BY <1>1, PullNow
  <2>2. lib' = lib
    BY <2>1 DEF Now
  <2>3. Broken(call, pc)' = Broken(c, p)
    BY <2>1, EndedNext
  <2> QED
    BY <2>1, <2>2, <2>3, ClientsSame
<1>6. CASE strm.dir = "zip"
  <2>1. Compresses(source, Current, call, src, pc)
    BY <1>1, <1>3, <1>6 DEF Streaming
  <2>2. ZipStep(source)
    <3>1. CASE lib = "lzo"
      BY <1>1, <1>4, <1>6, <2>1, <3>1, LzoZipPull
    <3>2. CASE lib # "lzo"
      BY <1>1, <1>4, <1>6, <2>1, <3>2, ZipPull
    <3> QED
      BY <3>1, <3>2
  <2>3. PICK s : s = source
    OBVIOUS
  <2>4. PICK f, c, r, p : Steps(f, c, r, p) /\ Compresses(s, f, c, r, p)
    BY <2>2, <2>3 DEF ZipStep
  <2>5. Compresses(s, filt["zip"], call, src, pc)'
    BY <1>5, <1>6, <2>4, CompressesNext
  <2>6. strm' = strm /\ source' = s
    BY <1>5, <2>3, <2>4
  <2>7. Streaming'
    BY <1>6, <2>5, <2>6 DEF Streaming, Compresses
  <2> QED
    BY <2>4, <2>7
<1>7. CASE strm.dir = "unzip" /\ lib = "lzo"
  <2>1. Restores(source, Current, call, src)
    BY <1>1, <1>3, <1>7 DEF Streaming
  <2>2. PICK s : s = source
    OBVIOUS
  <2>3. LzoStep(s)
    BY <1>1, <1>4, <1>7, <2>1, <2>2, LzoUnzipPull
  <2>4. PICK f, c, r, p : Steps(f, c, r, p) /\ (Restores(s, f, c, r) \/ Broken(c, p))
    BY <2>3 DEF LzoStep
  <2>5. Restores(s, f, c, r) => Restores(s, filt["unzip"], call, src)'
    BY <1>5, <1>7, <2>4, RestoringNext
  <2>6. strm' = strm /\ source' = s /\ lib' = lib /\ Broken(call, pc)' = Broken(c, p)
    BY <1>5, <2>2, <2>4
  <2>7. Restores(s, f, c, r) => Streaming'
    BY <1>7, <2>5, <2>6 DEF Streaming, Restores
  <2> QED
    BY <2>4, <2>6, <2>7
<1>8. CASE strm.dir = "unzip" /\ lib # "lzo"
  <2>1. PICK w : w = Marked(source)
    OBVIOUS
  <2>2. Decompresses(w, Current, call, src, pc)
    BY <1>1, <1>3, <1>8, <2>1 DEF Streaming
  <2>3. UnzipStep(w)
    BY <1>1, <1>4, <1>8, <2>1, <2>2, UnzipPull
  <2>4. PICK f, c, r, p : Steps(f, c, r, p) /\ (Decompresses(w, f, c, r, p) \/ Broken(c, p))
    BY <2>3 DEF UnzipStep
  <2>5. Decompresses(w, f, c, r, p) => Decompresses(w, filt["unzip"], call, src, pc)'
    BY <1>5, <1>8, <2>4, DecompressesNext
  <2>6. strm' = strm /\ source' = source /\ lib' = lib /\ Broken(call, pc)' = Broken(c, p)
    BY <1>5, <2>4
  <2>7. Decompresses(w, f, c, r, p) => Streaming'
    BY <1>8, <2>1, <2>5, <2>6 DEF Streaming, Decompresses
  <2> QED
    BY <2>4, <2>6, <2>7
<1> QED
  BY <1>1, <1>6, <1>7, <1>8 DEF Direction

(* A round of pull starts from a filter that is ready. *)
LEMMA PullKeeps ==
  ASSUME FilterInv, Pull, Clients, pc' # "overrun"
  PROVE  FilterInv'
<1>1. Ready
  BY PullIsReady
<1>2. pc = "pull" /\ Request \in Nat
  BY <1>1 DEF Ready
<1>3. client \in {"store", "stream"}
  BY DEF FilterInv, Types
<1>4. ASSUME NEW f, NEW c, NEW r, NEW p, Steps(f, c, r, p)
      PROVE  /\ Types' /\ StoreControl' /\ StreamControl' /\ Pending' /\ BackendInv'
             /\ client' = client /\ op' = op /\ given' = given /\ strm' = strm
             /\ Whole' = Whole /\ lib' = lib
  <2>1. lib' = lib
    BY <1>4, FiltersNext
  <2> QED
    BY <1>2, <1>4, <2>1, FineNext, ClientsSame
<1>5. CASE client = "store"
  <2>1. op.name \in {"write", "read"}
    BY <1>2, <1>5 DEF FilterInv, StoreControl
  <2>2. CASE op.name = "write"
    <3>1. PICK f, c, r, p : Steps(f, c, r, p) /\ Writing'
      BY <1>1, <1>5, <2>2, PullWrites
    <3>2. (\A d \in Direction : pc = "idle" \/ d # call.dir => Rested(d))'
      BY <1>1, <1>5, <3>1, PullRests
    <3>3. StoreInv'
      BY <1>4, <2>2, <3>1, <3>2 DEF StoreInv
    <3>4. StreamInv'
      BY <1>4, <1>5, <3>1 DEF StreamInv
    <3> QED
      BY <1>4, <3>1, <3>3, <3>4 DEF FilterInv
  <2>3. CASE op.name = "read"
    <3>1. PICK f, c, r, p : Steps(f, c, r, p) /\ Reading'
      BY <1>1, <1>5, <2>3, PullReads
    <3>2. (\A d \in Direction : pc = "idle" \/ d # call.dir => Rested(d))'
      BY <1>1, <1>5, <3>1, PullRests
    <3>3. StoreInv'
      BY <1>4, <2>3, <3>1, <3>2 DEF StoreInv
    <3>4. StreamInv'
      BY <1>4, <1>5, <3>1 DEF StreamInv
    <3> QED
      BY <1>4, <3>1, <3>3, <3>4 DEF FilterInv
  <2> QED
    BY <2>1, <2>2, <2>3
<1>6. CASE client = "stream"
  <2>1. PICK f, c, r, p : Steps(f, c, r, p) /\ (Broken(call, pc)' \/ Streaming')
    BY <1>1, <1>6, PullStreams
  <2>2. StoreInv'
    BY <1>4, <1>6, <2>1 DEF StoreInv
  <2>3. strm.status \in {"none", "ok"}
    BY <1>2, <1>6 DEF FilterInv, StreamControl
  <2>4. Len(given) <= Len(Whole) /\ given = SubSeq(Whole, 1, Len(given))
    BY <1>6 DEF FilterInv, StreamInv
  <2>5. StreamInv'
    BY <1>4, <2>1, <2>3, <2>4 DEF StreamInv
  <2> QED
    BY <1>4, <2>1, <2>2, <2>5 DEF FilterInv
<1> QED
  BY <1>3, <1>5, <1>6

-----------------------------------------------------------------------------
(* A clean filter is ready for anything. *)
LEMMA CleanInput ==
  ASSUME NEW f \in FilterState, f.avail = 0
  PROVE  Input(f) = <<>>
BY SMTT(20) DEF Input, FilterState, Data

(* A library that starts anew. *)
LEMMA FreshIs ==
  Fresh.seen = <<>> /\ Fresh.out = 0 /\ Fresh.mode = "run" /\ Fresh \in LibraryState
BY Nothing DEF Fresh, LibraryState

(* The codes of nothing. *)
LEMMA CodesEmpty == Codes(<<>>) = <<>>
<1>1. Codes(<<>>) \in Data /\ Len(Codes(<<>>)) = 0
  BY Nothing, Coded DEF IsCoded
<1> QED
  BY <1>1, DataLen

(* It can compress any text. *)
LEMMA CleanZips ==
  ASSUME NEW f \in FilterState, Clean(f), lib # "lzo", NEW s \in Text
  PROVE  Zipping(f, s, <<>>, s)
<1>1. Input(f) = <<>> /\ f.z = Fresh /\ f.obuf = <<>>
  BY CleanInput DEF Clean
<1>2. s \in Data /\ Len(s) \in Nat
  BY TextData, DataLen
<1>3. f.z.seen \o (Input(f) \o s) = s
  BY <1>1, <1>2, FreshIs, Empties
<1>4. Marked(s) \in Data /\ Len(<<>>) = 0
  BY MarkedIs DEF IsMarked
<1>5. <<>> = SubSeq(Marked(s), 1, Len(<<>>))
  BY <1>4, Ends
<1> QED
  BY <1>1, <1>2, <1>3, <1>4, <1>5, FreshIs DEF Zipping

(* It can decompress any data. *)
LEMMA CleanUnzips ==
  ASSUME NEW f \in FilterState, Clean(f), lib # "lzo", NEW w \in Data
  PROVE  Unzipping(f, w, <<>>, w)
<1>1. Input(f) = <<>> /\ f.z = Fresh /\ f.obuf = <<>>
  BY CleanInput DEF Clean
<1>2. w = Codes(<<>>) \o (Input(f) \o w)
  BY <1>1, CodesEmpty, Empties
<1> QED
  BY <1>1, <1>2, FreshIs DEF Unzipping

(* Nothing of a text is done. *)
LEMMA NoneYet ==
  ASSUME NEW s \in Text
  PROVE  /\ SubSeq(s, 1, 0) = <<>> /\ SubSeq(s, 0 + 1, Len(s)) = s /\ 0 \in 0..Len(s)
         /\ Multiple(0) /\ Lzo(SubSeq(s, 1, 0)) = <<>>
<1>1. s \in Data /\ Len(s) \in Nat
  BY TextData, DataLen
<1>2. SubSeq(s, 1, 0) = <<>> /\ SubSeq(s, 1, Len(s)) = s
  BY <1>1, Ends
<1>3. Multiple(0)
  BY Sizes3 DEF Multiple
<1>4. 0 \in 0..Len(s) /\ 0 + 1 = 1
  BY <1>1
<1>5. SubSeq(s, 0 + 1, Len(s)) = s
  BY <1>2, <1>4
<1> QED
  BY <1>2, <1>3, <1>4, <1>5, LzoEmpty

(* With LZO it can compress any text. *)
LEMMA CleanLzoZips ==
  ASSUME NEW f \in FilterState, Clean(f), lib = "lzo", NEW s \in Text
  PROVE  LzoZips(f, s, <<>>, s)
<1>1. Input(f) = <<>> /\ f.z = Fresh /\ f.obuf = <<>> /\ f.next = 0
  BY CleanInput DEF Clean
<1>2. <<>> \o f.obuf = <<>> /\ Input(f) \o s = s
  BY <1>1, TextData, Nothing, Empties
<1> QED
  BY <1>1, <1>2, NoneYet DEF LzoZips

(* With LZO it can decompress the image of any text. *)
LEMMA CleanLzoUnzips ==
  ASSUME NEW f \in FilterState, Clean(f), lib = "lzo", NEW s \in Text
  PROVE  LzoUnzips(f, s, <<>>, Lzo(s))
<1>1. Input(f) = <<>> /\ f.z = Fresh /\ f.obuf = <<>> /\ f.next = 0 /\ f.avail <= 3
  BY CleanInput DEF Clean
<1>2. <<>> \o f.obuf = <<>> /\ <<>> \o (Input(f) \o Lzo(s)) = Lzo(s)
  BY <1>1, LzoType, Nothing, Empties
<1> QED
  BY <1>1, <1>2, NoneYet DEF LzoUnzips

(* A call as it starts. *)
LEMMA StartIs ==
  ASSUME NEW d \in Direction, NEW flush \in BOOLEAN, NEW n \in 0..SizeMax, Start(d, flush, n)
  PROVE  /\ call' \in CallState /\ call'.dir = d /\ call'.flush = flush /\ call'.size = n
         /\ call'.room = n /\ call'.out = <<>> /\ call'.zret = "ok" /\ pc' = "pull"
         /\ ~Ended(call, pc)' /\ ~Broken(call, pc)'
<1>1. pc' = "pull" /\ call' = [NoCall EXCEPT !.dir = d, !.flush = flush, !.room = n, !.size = n]
  BY DEF Start
<1>2. call' = [dir |-> d, flush |-> flush, room |-> n, size |-> n, out |-> <<>>,
               zret |-> "ok", err |-> "ok"]
  BY <1>1 DEF NoCall
<1>3. "ok" \in LibraryReturn /\ "ok" \in Outcome
  BY DEF LibraryReturn, Outcome
<1>4. /\ call' \in CallState /\ call'.dir = d /\ call'.flush = flush /\ call'.size = n
      /\ call'.room = n /\ call'.out = <<>> /\ call'.zret = "ok" /\ n \in Nat
  BY <1>2, <1>3, Nothing, FilterAssumption DEF CallState
<1>5. ~Ended(call, pc)' /\ ~Broken(call, pc)'
  BY <1>1 DEF Ended, Broken
<1> QED
  BY <1>1, <1>4, <1>5

-----------------------------------------------------------------------------
(* The filtered store starts an operation. *)
Frame == lib' = lib /\ filt' = filt /\ UNCHANGED <<streamVars, client>>

(* What the steps of a store leave alone. *)
LEMMA FrameIs ==
  ASSUME Frame
  PROVE  /\ lib' = lib /\ filt' = filt /\ source' = source /\ strm' = strm
         /\ given' = given /\ client' = client
BY DEF Frame, streamVars

(* The type of a filter. *)
LEMMA FilterIs ==
  ASSUME FilterInv, NEW d \in Direction
  PROVE  filt[d] \in FilterState /\ Steady(d, filt[d])
BY DEF FilterInv, Types

(* What does not depend on the store. *)
LEMMA SteadySame ==
  ASSUME FilterInv, filt' = filt
  PROVE  (filt \in [Direction -> FilterState] /\ \A d \in Direction : Steady(d, filt[d]))'
BY DEF FilterInv, Types, Steady

Starts(d, name, k, x, w) ==
    /\ op' = [name |-> name, key |-> k, block |-> x]
    /\ \/ name = "write" /\ d = "zip"
       \/ name = "read" /\ d = "unzip"
    /\ FilterThrough(d, w) /\ backend' = backend /\ failed' = failed

(* A store that starts an operation. *)
LEMMA StoreStarts ==
  ASSUME FilterInv, client = "store", pc = "idle", NEW d \in Direction, NEW name,
         NEW k \in Key, NEW x \in Block \cup {None}, NEW w \in Data,
         Starts(d, name, k, x, w), Frame
  PROVE  /\ Types' /\ StoreControl' /\ StreamControl' /\ Pending' /\ BackendInv' /\ StreamInv'
         /\ (\A e \in Direction : pc = "idle" \/ e # call.dir => Rested(e))'
         /\ Before' = <<>>
<1>1. /\ lib' = lib /\ filt' = filt /\ source' = source /\ strm' = strm
      /\ given' = given /\ client' = client
  BY FrameIs
<1>2. /\ op' = [name |-> name, key |-> k, block |-> x] /\ backend' = backend /\ failed' = failed
      /\ handler' = "buffer" /\ src' = w /\ through' = [flush |-> FALSE, out |-> <<>>]
      /\ Start(d, FALSE, OutputSize) /\ name \in {"read", "write"}
  BY DEF Starts, FilterThrough
<1>3. OutputSize \in 0..SizeMax /\ OutputSize \in Nat
  BY FilteredStoreAssumption, HeaderCost, FilterAssumption
<1>4. /\ call' \in CallState /\ call'.dir = d /\ call'.flush = FALSE /\ call'.size = OutputSize
      /\ call'.room = OutputSize /\ call'.out = <<>> /\ call'.zret = "ok" /\ pc' = "pull"
      /\ ~Ended(call, pc)' /\ ~Broken(call, pc)'
  BY <1>2, <1>3, StartIs
<1>5. Types'
  <2>1. through' \in [flush : BOOLEAN, out : Data]
    BY <1>2, Nothing
  <2>2. op' \in Operation
    BY <1>2 DEF Operation
  <2> QED
    BY <1>1, <1>2, <1>4, <2>1, <2>2, SteadySame DEF FilterInv, Types
<1>6. StoreControl'
  <2>1. ~strm.open /\ strm.status = "none"
    BY DEF FilterInv, StoreControl
  <2>2. op'.key \in Key /\ op'.name = name /\ through'.flush = FALSE
    BY <1>2
  <2>3. (name = "write" /\ d = "zip") \/ (name = "read" /\ d = "unzip")
    BY DEF Starts
  <2> QED
    BY <1>1, <1>2, <1>4, <2>1, <2>2, <2>3 DEF StoreControl
<1>7. StreamControl' /\ StreamInv'
  BY <1>1 DEF StreamControl, StreamInv
<1>8. Before' = <<>> /\ Request' = OutputSize
  BY <1>1, <1>2 DEF Before, Request
<1>9. Pending'
  <2>1. SizesFit(filt[call.dir], call, src, pc)'
    BY <1>3, <1>4, <1>8, Nothing DEF SizesFit, Short, Ample
  <2>2. Flushed(filt[call.dir], call, src, pc)'
    BY <1>4 DEF Flushed
  <2>3. Steady(call.dir, filt[call.dir])'
    BY <1>4, SteadySame, <1>1
  <2> QED
    BY <1>2, <1>3, <1>4, <1>8, <2>1, <2>2, <2>3 DEF Pending, Fine
<1>10. BackendInv'
  BY <1>1, <1>2 DEF FilterInv, BackendInv
<1>11. (\A e \in Direction : pc = "idle" \/ e # call.dir => Rested(e))'
  <2>1. \A e \in Direction : Rested(e)
    BY DEF FilterInv, StoreInv
  <2> QED
    BY <1>1, <1>2, <2>1 DEF Rested, Clean, Dead
<1> QED
  BY <1>5, <1>6, <1>7, <1>8, <1>9, <1>10, <1>11

(* A filter of a store at rest is clean, or spoilt. *)
LEMMA RestedClean ==
  ASSUME FilterInv, client = "store", pc = "idle", NEW d \in Direction
  PROVE  Clean(filt[d]) \/ (d = "unzip" /\ Dead(filt[d]))
BY DEF FilterInv, StoreInv, Rested

(* chop_filtered_block_store_write_block starts. *)
LEMMA WriteBlockKeeps ==
  ASSUME FilterInv, client = "store", NEW k \in Key, NEW b \in Block, WriteBlock(k, b),
         UNCHANGED <<streamVars, client>>
  PROVE  FilterInv'
<1>1. /\ pc = "idle" /\ Starts("zip", "write", k, b, b) /\ Frame /\ lib' = lib /\ filt' = filt
      /\ op'.name = "write" /\ op'.block = b /\ src' = b /\ client' = client
  BY DEF WriteBlock, Starts, Frame, FilterThrough
<1>2. b \in Text /\ b \in Data /\ "zip" \in Direction
  BY FilteredStoreAssumption, TextData DEF Text, Direction
<1>3. /\ Types' /\ StoreControl' /\ StreamControl' /\ Pending' /\ BackendInv' /\ StreamInv'
      /\ (\A e \in Direction : pc = "idle" \/ e # call.dir => Rested(e))'
      /\ Before' = <<>>
  BY <1>1, <1>2, StoreStarts
<1>4. call'.out = <<>> /\ ~Ended(call, pc)' /\ ~Broken(call, pc)'
  <2>1. OutputSize \in 0..SizeMax
    BY FilteredStoreAssumption, FilterAssumption
  <2>2. Start("zip", FALSE, OutputSize)
    BY DEF WriteBlock, FilterThrough
  <2> QED
    BY <1>2, <2>1, <2>2, StartIs
<1>5. Clean(filt["zip"]) /\ filt["zip"] \in FilterState
  BY <1>1, <1>2, RestedClean, FilterIs
<1>6. (Before \o call.out)' = <<>>
  BY <1>3, <1>4, Nothing, Empties
<1>7. Compresses(b, filt["zip"], call, src, pc)'
  <2>1. CASE lib = "lzo"
    <3>1. LzoZips(filt["zip"], b, <<>>, b)
      BY <1>2, <1>5, <2>1, CleanLzoZips
    <3> QED
      BY <1>1, <1>6, <2>1, <3>1 DEF Compresses
  <2>2. CASE lib # "lzo"
    <3>1. Zipping(filt["zip"], b, <<>>, b)
      BY <1>2, <1>5, <2>2, CleanZips
    <3> QED
      BY <1>1, <1>4, <1>6, <2>2, <3>1 DEF Compresses
  <2> QED
    BY <2>1, <2>2
<1>8. Writing'
  <2>1. Compresses(op.block, filt["zip"], call, src, pc)'
    BY <1>1, <1>7 DEF Compresses
  <2> QED
    BY <1>1, <1>4, <2>1 DEF Writing
<1>9. StoreInv'
  BY <1>1, <1>3, <1>8 DEF StoreInv
<1> QED
  BY <1>3, <1>9 DEF FilterInv

(* chop_filtered_block_store_read_block starts. *)
LEMMA ReadBlockKeeps ==
  ASSUME FilterInv, client = "store", NEW k \in Key, ReadBlock(k),
         UNCHANGED <<streamVars, client>>
  PROVE  FilterInv'
<1>1. PICK w : w = backend[k]
  OBVIOUS
<1>2. /\ pc = "idle" /\ Starts("unzip", "read", k, None, w) /\ Frame /\ lib' = lib /\ filt' = filt
      /\ op'.name = "read" /\ op'.key = k /\ src' = w /\ client' = client
      /\ backend' = backend /\ w # None
  BY <1>1 DEF ReadBlock, Starts, Frame, FilterThrough
<1>3. w \in Data /\ "unzip" \in Direction
  BY <1>1, <1>2 DEF FilterInv, Types, Direction
<1>4. /\ Types' /\ StoreControl' /\ StreamControl' /\ Pending' /\ BackendInv' /\ StreamInv'
      /\ (\A e \in Direction : pc = "idle" \/ e # call.dir => Rested(e))'
      /\ Before' = <<>>
  BY <1>2, <1>3, StoreStarts
<1>5. call'.out = <<>> /\ ~Ended(call, pc)' /\ ~Broken(call, pc)'
  <2>1. OutputSize \in 0..SizeMax
    BY FilteredStoreAssumption, FilterAssumption
  <2>2. Start("unzip", FALSE, OutputSize)
    BY DEF ReadBlock, FilterThrough
  <2> QED
    BY <1>3, <2>1, <2>2, StartIs
<1>6. filt["unzip"] \in FilterState /\ (Clean(filt["unzip"]) \/ Dead(filt["unzip"]))
  BY <1>2, <1>3, RestedClean, FilterIs
<1>7. (Before \o call.out)' = <<>> /\ backend'[op'.key] = w
  BY <1>1, <1>2, <1>4, <1>5, Nothing, Empties
<1>8. CASE lib = "lzo"
  <2>1. Clean(filt["unzip"])
    BY <1>6, <1>8 DEF Dead
  <2>2. PICK b \in Block : w = Lzo(b)
    BY <1>1, <1>2, <1>8 DEF FilterInv, BackendInv
  <2>3. b \in Text
    BY FilteredStoreAssumption DEF Text
  <2>4. LzoUnzips(filt["unzip"], b, <<>>, w)
    BY <1>6, <1>8, <2>1, <2>2, <2>3, CleanLzoUnzips
  <2>5. Restores(b, filt["unzip"], call, src)'
    BY <1>2, <1>7, <2>4 DEF Restores
  <2>6. Reading'
    BY <1>2, <1>5, <1>7, <1>8, <2>2, <2>5 DEF Reading
  <2> QED
    BY <1>2, <1>4, <2>6 DEF FilterInv, StoreInv
<1>9. CASE lib # "lzo"
  <2>1. Reading'
    <3>1. CASE Clean(filt["unzip"])
      <4>1. Unzipping(filt["unzip"], w, <<>>, w)
        BY <1>3, <1>6, <1>9, <3>1, CleanUnzips
      <4>2. Decompresses(backend[op.key], filt["unzip"], call, src, pc)'
        BY <1>2, <1>5, <1>7, <4>1 DEF Decompresses
      <4> QED
        BY <1>2, <1>5, <1>7, <1>9, <4>2 DEF Reading
    <3>2. CASE Dead(filt["unzip"])
      <4>1. Dead(filt["unzip"])'
        BY <1>2, <3>2 DEF Dead
      <4> QED
        BY <1>2, <1>5, <1>7, <1>9, <4>1 DEF Reading
    <3> QED
      BY <1>6, <3>1, <3>2
  <2> QED
    BY <1>2, <1>4, <2>1 DEF FilterInv, StoreInv
<1> QED
  BY <1>8, <1>9

-----------------------------------------------------------------------------
(* The filtered store at rest: its backend changes, an operation fails.    *)
LEMMA IdleKeeps ==
  ASSUME FilterInv, client = "store", pc = "idle", UNCHANGED filterVars, op' = op,
         through' = through, failed' \in BOOLEAN, failed => failed',
         backend' \in [Key -> Data \cup {None}], BackendInv',
         UNCHANGED <<streamVars, client>>
  PROVE  FilterInv'
<1>1. /\ lib' = lib /\ filt' = filt /\ call' = call /\ src' = src /\ handler' = handler
      /\ pc' = pc /\ pc' = "idle"
  BY DEF filterVars
<1>2. source' = source /\ strm' = strm /\ given' = given /\ client' = client
  BY DEF streamVars
<1>3. Types'
  BY <1>1, <1>2, SteadySame DEF FilterInv, Types
<1>4. StoreControl'
  BY <1>1, <1>2 DEF FilterInv, StoreControl
<1>5. StreamControl' /\ StreamInv'
  BY <1>2 DEF StreamControl, StreamInv
<1>6. Pending'
  BY <1>1 DEF Pending
<1>7. StoreInv'
  <2>1. \A d \in Direction : Rested(d)
    BY DEF FilterInv, StoreInv
  <2>2. \A d \in Direction : Rested(d)'
    BY <1>1, <2>1 DEF Rested, Clean, Dead
  <2> QED
    BY <1>1, <2>2 DEF StoreInv
<1> QED
  BY <1>3, <1>4, <1>5, <1>6, <1>7 DEF FilterInv

(* The backend's read fails. *)
LEMMA ReadBackendFailsKeeps ==
  ASSUME FilterInv, client = "store", NEW k, ReadBackendFails(k),
         UNCHANGED <<streamVars, client>>
  PROVE  FilterInv'
<1>1. /\ pc = "idle" /\ UNCHANGED filterVars /\ op' = op /\ through' = through
      /\ failed' = TRUE /\ backend' = backend /\ lib' = lib
  BY DEF ReadBackendFails, filterVars
<1>2. backend' \in [Key -> Data \cup {None}] /\ BackendInv'
  BY <1>1 DEF FilterInv, Types, BackendInv
<1> QED
  BY <1>1, <1>2, IdleKeeps

(* A block is deleted. *)
LEMMA DeleteBlockKeeps ==
  ASSUME FilterInv, client = "store", NEW k \in Key, DeleteBlock(k),
         UNCHANGED <<streamVars, client>>
  PROVE  FilterInv'
<1>1. /\ pc = "idle" /\ UNCHANGED filterVars /\ op' = op /\ through' = through
      /\ failed' = failed /\ backend' = [backend EXCEPT ![k] = None] /\ lib' = lib
  BY DEF DeleteBlock, filterVars
<1>2. backend \in [Key -> Data \cup {None}] /\ failed \in BOOLEAN
  BY DEF FilterInv, Types
<1>3. backend' \in [Key -> Data \cup {None}]
      /\ \A j \in Key : backend'[j] = IF j = k THEN None ELSE backend[j]
  BY <1>1, <1>2
<1>4. BackendInv'
  BY <1>1, <1>3 DEF FilterInv, BackendInv
<1> QED
  BY <1>1, <1>2, <1>3, <1>4, IdleKeeps

(* Damage leaves a unit as it is, or makes noise of it. *)
LEMMA NoiseIs == Noise \in Unit
BY DEF Noise, Unit

(* A damaged block is what is left of the block. *)
LEMMA DamagedStems ==
  ASSUME NEW w \in Data, NEW x, Stems(w, x), NEW c \in Damaged(w)
  PROVE  c \in Data /\ Stems(c, x)
<1>1. Len(w) \in Nat /\ \A i \in 1..Len(w) : w[i] \in Unit
  BY DataLen
<1>2. CASE \E n \in 0..(Len(w) - 1) : c = SubSeq(w, 1, n)
  <2>1. PICK n \in 0..(Len(w) - 1) : c = SubSeq(w, 1, n)
    BY <1>2
  <2>2. n \in Nat /\ n <= Len(w)
    BY <1>1
  <2>3. c \in Data /\ Len(c) = n /\ \A i \in 1..n : c[i] = w[i]
    BY <2>1, <2>2, Head1
  <2>4. \A i \in 1..n : i \in 1..Len(w)
    BY <1>1, <2>2
  <2> QED
    BY <2>3, <2>4 DEF Stems
<1>3. CASE \E i \in 1..Len(w) : c = [w EXCEPT ![i] = Noise]
  <2>1. PICK i \in 1..Len(w) : c = [w EXCEPT ![i] = Noise]
    BY <1>3
  <2>2. c \in Data /\ Len(c) = Len(w) /\ \A j \in 1..Len(w) : c[j] = Noise \/ c[j] = w[j]
    BY <1>1, <2>1, NoiseIs DEF Data
  <2> QED
    BY <2>2 DEF Stems
<1>4. CASE c = Append(w, Noise)
  <2>1. c \in Data /\ Len(c) = Len(w) + 1 /\ c[Len(w) + 1] = Noise
        /\ \A j \in 1..Len(w) : c[j] = w[j]
    BY <1>1, <1>4, NoiseIs, AppendProperties DEF Data
  <2>2. \A j \in 1..Len(c) : j \in 1..Len(w) \/ j = Len(w) + 1
    BY <1>1, <2>1
  <2> QED
    BY <2>1, <2>2 DEF Stems
<1> QED
  BY <1>2, <1>3, <1>4 DEF Damaged

(* A block is damaged. *)
LEMMA DamageBlockKeeps ==
  ASSUME FilterInv, client = "store", NEW k \in Key, DamageBlock(k),
         UNCHANGED <<streamVars, client>>
  PROVE  FilterInv'
<1>1. PICK c \in Damaged(backend[k]) : backend' = [backend EXCEPT ![k] = c]
  BY DEF DamageBlock
<1>2. /\ pc = "idle" /\ UNCHANGED filterVars /\ op' = op /\ through' = through
      /\ failed' = failed /\ lib' = lib /\ backend[k] # None /\ lib # "lzo"
  BY FilteredStoreAssumption DEF DamageBlock, filterVars, Stream, Blocks
<1>3. backend \in [Key -> Data \cup {None}] /\ failed \in BOOLEAN /\ backend[k] \in Data
  BY <1>2 DEF FilterInv, Types
<1>4. PICK b \in Block : Stems(backend[k], Marked(b))
  BY <1>2 DEF FilterInv, BackendInv
<1>5. c \in Data /\ Stems(c, Marked(b))
  BY <1>3, <1>4, DamagedStems
<1>6. backend' \in [Key -> Data \cup {None}]
      /\ \A j \in Key : backend'[j] = IF j = k THEN c ELSE backend[j]
  BY <1>1, <1>3, <1>5
<1>7. BackendInv'
  <2>1. ASSUME NEW j \in Key, backend'[j] # None
        PROVE  \E a \in Block : Stems(backend'[j], Marked(a))
    <3>1. CASE j = k
      BY <1>5, <1>6, <3>1
    <3>2. CASE j # k
      BY <1>2, <1>6, <2>1, <3>2 DEF FilterInv, BackendInv
    <3> QED
      BY <3>1, <3>2
  <2> QED
    BY <1>2, <2>1 DEF BackendInv
<1> QED
  BY <1>2, <1>3, <1>6, <1>7, IdleKeeps

-----------------------------------------------------------------------------
(* What came out of an LZO filter that was flushed. *)
LEMMA AllZipped ==
  ASSUME NEW f \in FilterState, f.avail = 0, f.obuf = <<>>, NEW s \in Text, NEW o \in Data,
         LzoZips(f, s, o, <<>>)
  PROVE  o = Lzo(s)
<1>1. PICK n \in 0..Len(s) : /\ o \o f.obuf = Lzo(SubSeq(s, 1, n))
                             /\ SubSeq(s, n + 1, Len(s)) = Input(f) \o <<>>
  BY DEF LzoZips
<1>2. o \o f.obuf = o /\ Input(f) \o <<>> = <<>>
  BY CleanInput, Nothing, Empties
<1>3. s \in Data /\ Len(s) \in Nat /\ n \in Nat /\ n <= Len(s)
  BY TextData, DataLen
<1>4. PICK t : t = SubSeq(s, n + 1, Len(s))
  OBVIOUS
<1>5. Len(t) = Len(s) - n /\ t = <<>>
  BY <1>1, <1>2, <1>3, <1>4, Rest
<1>6. n = Len(s)
  BY <1>3, <1>5, Nothing
<1> QED
  BY <1>1, <1>2, <1>3, <1>6, Ends

(* All of the text came out. *)
LEMMA AllUnzipped ==
  ASSUME NEW f \in FilterState, f.avail = 0, f.obuf = <<>>, NEW s \in Text, NEW o \in Data,
         LzoUnzips(f, s, o, <<>>)
  PROVE  o = s
<1>1. PICK n \in 0..Len(s) : /\ o \o f.obuf = SubSeq(s, 1, n)
                             /\ Lzo(s) = Lzo(SubSeq(s, 1, n)) \o (Input(f) \o <<>>)
  BY DEF LzoUnzips
<1>2. o \o f.obuf = o /\ Input(f) \o <<>> = <<>>
  BY CleanInput, Nothing, Empties
<1>3. s \in Data /\ Len(s) \in Nat /\ n \in Nat /\ n <= Len(s)
  BY TextData, DataLen
<1>4. PICK t : t = SubSeq(s, 1, n)
  OBVIOUS
<1>5. t \in Text
  BY <1>3, <1>4, TextHead
<1>6. Lzo(s) = Lzo(t)
  <2>1. Lzo(t) \in Data
    BY <1>5, LzoType
  <2> QED
    BY <1>1, <1>2, <1>4, <2>1, Empties
<1>7. s = t
  BY <1>5, <1>6, LzoInjective
<1> QED
  BY <1>1, <1>2, <1>4, <1>7

(* A call that returned, and what the store has by then. *)
LEMMA PulledIs ==
  ASSUME FilterInv, client = "store", pc = "pulled"
  PROVE  /\ op.key \in Key /\ handler = "buffer" /\ call.flush = through.flush
         /\ \/ op.name = "write" /\ call.dir = "zip"
            \/ op.name = "read" /\ call.dir = "unzip"
         /\ call \in CallState /\ call.dir \in Direction /\ call.out \in Data
         /\ call.err \in Outcome /\ call.flush \in BOOLEAN
         /\ through.out \in Data /\ through.flush \in BOOLEAN /\ Before = through.out
         /\ Before \o call.out \in Data
         /\ Fine(Current, call, src, pc) /\ Current \in FilterState
<1>1. /\ op.key \in Key /\ handler = "buffer" /\ call.flush = through.flush
      /\ \/ op.name = "write" /\ call.dir = "zip"
         \/ op.name = "read" /\ call.dir = "unzip"
  BY DEF FilterInv, StoreControl
<1>2. /\ call \in CallState /\ call.dir \in Direction /\ call.out \in Data
      /\ call.err \in Outcome /\ call.flush \in BOOLEAN
  BY CallFields DEF FilterInv, Types
<1>3. through.out \in Data /\ through.flush \in BOOLEAN /\ Before = through.out
  BY DEF FilterInv, Types, Before
<1>4. Before \o call.out \in Data
  BY <1>2, <1>3, JoinedType
<1>5. Fine(Current, call, src, pc) /\ Current \in FilterState
  BY <1>2, FilterIs DEF FilterInv, Pending, Current
<1> QED
  BY <1>1, <1>2, <1>3, <1>4, <1>5

(* A flush that found the filter empty. *)
LEMMA AllFlushed ==
  ASSUME FilterInv, client = "store", pc = "pulled", call.err = "empty", through.flush
  PROVE  /\ Ended(call, pc) /\ call.out = <<>> /\ src = <<>> /\ Clean(Current)
         /\ Before \o call.out = through.out
<1>1. Fine(Current, call, src, pc) /\ call.flush /\ through.out \in Data
      /\ Before = through.out
  BY PulledIs
<1>2. Flushed(Current, call, src, pc)
  BY <1>1 DEF Fine
<1>3. call.out = <<>> /\ Clean(Current) /\ Drained(call.dir, Current, src)
  BY <1>1, <1>2 DEF Flushed
<1>4. Before \o call.out = through.out
  BY <1>1, <1>3, Empties
<1> QED
  BY <1>1, <1>3, <1>4 DEF Ended, Drained

(* The two kinds of images. *)
LEMMA ImageIs ==
  ASSUME NEW s
  PROVE  Image(lib, s, InputSize) = IF lib = "lzo" THEN Lzo(s) ELSE Marked(s)
<1>1. CASE lib = "lzo"
  BY <1>1 DEF Lzo
<1>2. CASE lib # "lzo"
  BY <1>2 DEF Image, Marked
<1> QED
  BY <1>1, <1>2

(* The compressed block. *)
LEMMA WrittenIs ==
  ASSUME FilterInv, client = "store", pc = "pulled", call.err = "empty", through.flush,
         op.name = "write"
  PROVE  op.block \in Block /\ through.out = Image(lib, op.block, InputSize)
<1>1. Current = filt["zip"] /\ Current \in FilterState /\ through.out \in Data
  BY PulledIs DEF Current
<1>2. Writing
  BY DEF FilterInv, StoreInv
<1>3. PICK b \in Block : b = op.block /\ Compresses(b, Current, call, src, pc)
  BY <1>1, <1>2 DEF Writing
<1>4. b \in Text
  BY FilteredStoreAssumption DEF Text
<1>5. /\ Ended(call, pc) /\ src = <<>> /\ Clean(Current) /\ Before \o call.out = through.out
  BY AllFlushed
<1>6. CASE lib = "lzo"
  <2>1. LzoZips(Current, b, through.out, <<>>)
    BY <1>3, <1>5, <1>6 DEF Compresses
  <2>2. Current.avail = 0 /\ Current.obuf = <<>>
    BY <1>5 DEF Clean
  <2>3. through.out = Lzo(b)
    BY <1>1, <1>4, <2>1, <2>2, AllZipped
  <2> QED
    BY <1>3, <1>6, <2>3, ImageIs
<1>7. CASE lib # "lzo"
  <2>1. through.out = Marked(b)
    BY <1>3, <1>5, <1>7 DEF Compresses
  <2> QED
    BY <1>3, <1>7, <2>1, ImageIs
<1> QED
  BY <1>6, <1>7

(* What a read returns is the block whose image is stored. *)
LEMMA ReadIs ==
  ASSUME FilterInv, client = "store", pc = "pulled", call.err = "empty", through.flush,
         op.name = "read"
  PROVE  through.out \in Block /\ backend[op.key] = Image(lib, through.out, InputSize)
<1>1. Current = filt["unzip"] /\ Current \in FilterState /\ through.out \in Data
      /\ op.key \in Key
  BY PulledIs DEF Current
<1>2. Reading
  BY DEF FilterInv, StoreInv
<1>3. /\ Ended(call, pc) /\ src = <<>> /\ Clean(Current) /\ Before \o call.out = through.out
  BY AllFlushed
<1>4. CASE lib = "lzo"
  <2>1. PICK b \in Block : backend[op.key] = Lzo(b) /\ Restores(b, Current, call, src)
    BY <1>1, <1>2, <1>4 DEF Reading
  <2>2. b \in Text
    BY FilteredStoreAssumption DEF Text
  <2>3. LzoUnzips(Current, b, through.out, <<>>)
    BY <1>3, <2>1 DEF Restores
  <2>4. Current.avail = 0 /\ Current.obuf = <<>>
    BY <1>3 DEF Clean
  <2>5. through.out = b
    BY <1>1, <2>2, <2>3, <2>4, AllUnzipped
  <2> QED
    BY <1>4, <2>1, <2>5, ImageIs
<1>5. CASE lib # "lzo"
  <2>1. Decompresses(backend[op.key], Current, call, src, pc) /\ backend[op.key] # None
    BY <1>1, <1>2, <1>3, <1>5 DEF Reading
  <2>2. through.out \in Text /\ backend[op.key] = Marked(through.out)
    BY <1>3, <2>1 DEF Decompresses
  <2>3. PICK b \in Block : Stems(backend[op.key], Marked(b))
    BY <1>1, <1>5, <2>1 DEF FilterInv, BackendInv
  <2>4. b \in Text
    BY FilteredStoreAssumption DEF Text
  <2>5. IsMarked(backend[op.key], through.out) /\ IsMarked(Marked(b), b)
    BY <2>2, <2>4, MarkedIs
  <2>6. through.out = b
    BY <2>2, <2>3, <2>4, <2>5, WholeStem
  <2> QED
    BY <1>5, <2>2, <2>6, ImageIs
<1> QED
  BY <1>4, <1>5

-----------------------------------------------------------------------------
(* chop_filter_through goes on. *)
LEMMA ThroughContinuesKeeps ==
  ASSUME FilterInv, client = "store", ThroughContinues, UNCHANGED <<streamVars, client>>
  PROVE  FilterInv'
<1>1. /\ pc = "pulled" /\ (call.err = "ok" \/ (call.err = "empty" /\ ~through.flush))
      /\ through' = [flush |-> through.flush \/ call.err = "empty",
                     out   |-> through.out \o call.out]
      /\ Start(call.dir, through'.flush, OutputSize)
      /\ lib' = lib /\ filt' = filt /\ src' = src /\ handler' = handler
      /\ backend' = backend /\ op' = op /\ failed' = failed
  BY DEF ThroughContinues
<1>2. /\ source' = source /\ strm' = strm /\ given' = given /\ client' = client
  BY DEF streamVars
<1>3. /\ op.key \in Key /\ handler = "buffer" /\ call.flush = through.flush
      /\ \/ op.name = "write" /\ call.dir = "zip"
         \/ op.name = "read" /\ call.dir = "unzip"
      /\ call \in CallState /\ call.dir \in Direction /\ call.out \in Data
      /\ call.err \in Outcome /\ call.flush \in BOOLEAN
      /\ through.out \in Data /\ through.flush \in BOOLEAN /\ Before = through.out
      /\ Before \o call.out \in Data
      /\ Fine(Current, call, src, pc) /\ Current \in FilterState
  BY <1>1, PulledIs
<1>4. PICK fl \in BOOLEAN : fl = (through.flush \/ call.err = "empty")
  BY <1>3
<1>5. through'.flush = fl /\ through'.out = Before \o call.out
  BY <1>1, <1>3, <1>4
<1>6. OutputSize \in 0..SizeMax /\ OutputSize \in Nat
  BY FilteredStoreAssumption, HeaderCost, FilterAssumption
<1>7. /\ call' \in CallState /\ call'.dir = call.dir /\ call'.flush = fl
      /\ call'.size = OutputSize /\ call'.room = OutputSize /\ call'.out = <<>> /\ call'.zret = "ok" /\ pc' = "pull"
      /\ ~Ended(call, pc)' /\ ~Broken(call, pc)'
  <2>1. Start(call.dir, fl, OutputSize)
    BY <1>1, <1>5
  <2> QED
    BY <1>3, <1>6, <2>1, StartIs
<1>8. Types'
  <2>1. through' \in [flush : BOOLEAN, out : Data]
    BY <1>1, <1>3
  <2> QED
    BY <1>1, <1>2, <1>7, <2>1, SteadySame DEF FilterInv, Types
<1>9. StoreControl'
  <2>1. ~strm.open /\ strm.status = "none"
    BY DEF FilterInv, StoreControl
  <2> QED
    BY <1>1, <1>2, <1>3, <1>5, <1>7, <2>1 DEF StoreControl
<1>10. StreamControl' /\ StreamInv'
  BY <1>2 DEF StreamControl, StreamInv
<1>11. Before' = Before \o call.out /\ Request' = OutputSize
  BY <1>2, <1>5 DEF Before, Request
<1>12. Pending'
  <2>1. SizesFit(filt[call.dir], call, src, pc)'
    BY <1>6, <1>7, <1>11, Nothing DEF SizesFit, Short, Ample
  <2>2. fl => Drained(call.dir, Current, src)
    BY <1>1, <1>3, <1>4 DEF Fine, Flushed
  <2>3. fl => Drained(call.dir, filt[call.dir], src)'
    BY <1>1, <1>7, <2>2 DEF Drained, Current
  <2>4. Flushed(filt[call.dir], call, src, pc)'
    BY <1>7, <2>3 DEF Flushed
  <2>5. Steady(call.dir, filt[call.dir])'
    BY <1>1, <1>3, <1>7, SteadySame
  <2>6. src' \in Data
    BY <1>1 DEF FilterInv, Types
  <2> QED
    BY <1>6, <1>7, <1>11, <2>1, <2>4, <2>5, <2>6 DEF Pending, Fine
<1>13. BackendInv'
  BY <1>1, <1>2 DEF FilterInv, BackendInv
<1>14. ~Ended(call, pc) /\ ~Broken(call, pc)
  BY <1>1, <1>3 DEF Ended, Broken
<1>15. Before' \o call'.out = Before \o call.out
  BY <1>3, <1>7, <1>11, Empties
<1>16. op.name = "write" => Writing'
  <2>1. SUFFICES ASSUME op.name = "write" PROVE Writing'
    OBVIOUS
  <2>2. op.block \in Block /\ Compresses(op.block, filt["zip"], call, src, pc)
    BY <1>1, <2>1 DEF FilterInv, StoreInv, Writing
  <2>3. Compresses(op.block, filt["zip"], call, src, pc)'
    BY <1>1, <1>7, <1>14, <1>15, <2>2 DEF Compresses
  <2> QED
    BY <1>1, <1>7, <2>2, <2>3 DEF Writing
<1>17. op.name = "read" => Reading'
  <2>1. SUFFICES ASSUME op.name = "read" PROVE Reading'
    OBVIOUS
  <2>2. Reading
    BY <1>1, <2>1 DEF FilterInv, StoreInv
  <2>3. CASE lib = "lzo"
    <3>1. PICK b \in Block : backend[op.key] = Lzo(b) /\ Restores(b, filt["unzip"], call, src)
      BY <2>2, <2>3 DEF Reading
    <3>2. Restores(b, filt["unzip"], call, src)'
      BY <1>1, <1>15, <3>1 DEF Restores
    <3> QED
      BY <1>1, <1>7, <2>2, <2>3, <3>1, <3>2 DEF Reading
  <2>4. CASE lib # "lzo"
    <3>1. CASE Decompresses(backend[op.key], filt["unzip"], call, src, pc)
      <4>1. Decompresses(backend[op.key], filt["unzip"], call, src, pc)'
        BY <1>1, <1>7, <1>14, <1>15, <3>1 DEF Decompresses
      <4> QED
        BY <1>1, <1>7, <2>2, <2>4, <4>1 DEF Reading
    <3>2. CASE Dead(filt["unzip"])
      <4>1. Dead(filt["unzip"])'
        BY <1>1, <3>2 DEF Dead
      <4> QED
        BY <1>1, <1>7, <2>2, <2>4, <4>1 DEF Reading
    <3> QED
      BY <2>2, <2>4, <3>1, <3>2 DEF Reading
  <2> QED
    BY <2>3, <2>4
<1>18. (\A e \in Direction : pc = "idle" \/ e # call.dir => Rested(e))'
  <2>1. \A e \in Direction : e # call.dir => Rested(e)
    BY DEF FilterInv, StoreInv
  <2> QED
    BY <1>1, <1>7, <2>1 DEF Rested, Clean, Dead
<1>19. StoreInv'
  BY <1>1, <1>16, <1>17, <1>18 DEF StoreInv
<1> QED
  BY <1>8, <1>9, <1>10, <1>12, <1>13, <1>19 DEF FilterInv

(* It ends. *)
Rests == Restored /\ lib' = lib /\ filt' = filt /\ failed' \in BOOLEAN

(* An operation that ends leaves its filter at rest. *)
LEMMA RestoredKeeps ==
  ASSUME FilterInv, client = "store", pc = "pulled", Rests,
         backend' \in [Key -> Data \cup {None}], BackendInv', failed => failed',
         NEW d0, d0 = call.dir, Rested(d0)', UNCHANGED <<streamVars, client>>
  PROVE  FilterInv'
<1>1. /\ handler' = "none" /\ src' = <<>> /\ pc' = "idle" /\ op' = NoOp /\ call' = NoCall
      /\ through' = [flush |-> FALSE, out |-> <<>>] /\ lib' = lib /\ filt' = filt
      /\ failed' \in BOOLEAN
  BY DEF Rests, Restored
<1>2. source' = source /\ strm' = strm /\ given' = given /\ client' = client
  BY DEF streamVars
<1>3. Types'
  <2>1. NoCall \in CallState
    <3>1. "ok" \in LibraryReturn /\ "ok" \in Outcome /\ 0 \in 0..SizeMax /\ "zip" \in Direction
      BY FilterAssumption DEF LibraryReturn, Outcome, Direction
    <3> QED
      BY <3>1, Nothing DEF NoCall, CallState
  <2>2. through' \in [flush : BOOLEAN, out : Data]
    BY <1>1, Nothing
  <2>3. op' \in Operation
    BY <1>1 DEF NoOp, Operation
  <2> QED
    BY <1>1, <1>2, <2>1, <2>2, <2>3, Nothing, SteadySame DEF FilterInv, Types
<1>4. StoreControl'
  BY <1>1, <1>2 DEF FilterInv, StoreControl
<1>5. StreamControl' /\ StreamInv'
  BY <1>2 DEF StreamControl, StreamInv
<1>6. Pending'
  BY <1>1 DEF Pending
<1>7. StoreInv'
  <2>1. \A d \in Direction : d # call.dir => Rested(d)
    BY DEF FilterInv, StoreInv
  <2>2. \A d \in Direction : d # call.dir => Rested(d)'
    BY <1>1, <2>1 DEF Rested, Clean, Dead
  <2>3. \A d \in Direction : Rested(d)'
    BY <2>2
  <2> QED
    BY <1>1, <2>3 DEF StoreInv
<1> QED
  BY <1>3, <1>4, <1>5, <1>6, <1>7 DEF FilterInv

(* Images are data. *)
LEMMA ImageData ==
  ASSUME NEW s \in Text
  PROVE  Image(lib, s, InputSize) \in Data
<1>1. Lzo(s) \in Data /\ Marked(s) \in Data
  BY LzoType, MarkedIs DEF IsMarked
<1> QED
  BY <1>1, ImageIs

(* It ends well: what was compressed is stored, or the block returned. *)
LEMMA ThroughEndsKeeps ==
  ASSUME FilterInv, client = "store", ThroughEnds, UNCHANGED <<streamVars, client>>
  PROVE  FilterInv'
<1>1. PICK fails \in BOOLEAN :
          /\ backend' = IF op.name = "write" /\ ~fails
                        THEN [backend EXCEPT ![op.key] = through.out] ELSE backend
          /\ failed' = (failed \/ fails)
  BY DEF ThroughEnds
<1>2. /\ pc = "pulled" /\ call.err = "empty" /\ through.flush /\ Restored
      /\ lib' = lib /\ filt' = filt
  BY DEF ThroughEnds
<1>3. failed \in BOOLEAN /\ backend \in [Key -> Data \cup {None}]
  BY DEF FilterInv, Types
<1>4. Rests /\ (failed => failed')
  BY <1>1, <1>2, <1>3 DEF Rests
<1>5. op.key \in Key /\ through.out \in Data
  BY <1>2, PulledIs
<1>6. backend' \in [Key -> Data \cup {None}] /\ BackendInv'
  <2>1. CASE op.name = "write" /\ ~fails
    <3>1. backend' = [backend EXCEPT ![op.key] = through.out]
      BY <1>1, <2>1
    <3>2. backend' \in [Key -> Data \cup {None}]
          /\ \A j \in Key : backend'[j] = IF j = op.key THEN through.out ELSE backend[j]
      BY <1>3, <1>5, <3>1
    <3>3. PICK b \in Block : through.out = Image(lib, b, InputSize)
      BY <1>2, <2>1, WrittenIs
    <3>4. b \in Text
      BY FilteredStoreAssumption DEF Text
    <3>5. \A j \in Key : j # op.key => backend'[j] = backend[j]
      BY <3>2
    <3>6. backend'[op.key] = through.out
      BY <1>5, <3>2
    <3>7. CASE lib = "lzo"
      <4>1. backend'[op.key] = Lzo(b)
        BY <3>3, <3>6, <3>7, ImageIs
      <4> QED
        BY <1>2, <3>2, <3>5, <3>7, <4>1 DEF FilterInv, BackendInv
    <3>8. CASE lib # "lzo"
      <4>1. backend'[op.key] = Marked(b)
        BY <3>3, <3>6, <3>8, ImageIs
      <4>2. Stems(Marked(b), Marked(b))
        <5>1. Marked(b) \in Data
          BY <3>4, MarkedIs DEF IsMarked
        <5>2. PICK m : m = Marked(b)
          OBVIOUS
        <5>3. Len(m) \in Nat
          BY <5>1, <5>2, DataLen
        <5> QED
          BY <5>2, <5>3 DEF Stems
      <4> QED
        BY <1>2, <3>2, <3>5, <3>8, <4>1, <4>2 DEF FilterInv, BackendInv
    <3> QED
      BY <3>7, <3>8
  <2>2. CASE ~(op.name = "write" /\ ~fails)
    BY <1>1, <1>2, <1>3, <2>2 DEF FilterInv, BackendInv
  <2> QED
    BY <2>1, <2>2
<1>7. PICK d0 : d0 = call.dir
  OBVIOUS
<1>8. Clean(filt[d0])
  BY <1>2, <1>7, AllFlushed DEF Current
<1>9. Rested(d0)'
  BY <1>2, <1>8 DEF Rested, Clean
<1> QED
  BY <1>2, <1>4, <1>6, <1>7, <1>9, RestoredKeeps

(* It fails: only decompression does. *)
LEMMA ThroughFailsKeeps ==
  ASSUME FilterInv, client = "store", ThroughFails, UNCHANGED <<streamVars, client>>
  PROVE  FilterInv'
<1>1. /\ pc = "pulled" /\ call.err \notin {"ok", "empty"} /\ failed' = TRUE /\ Restored
      /\ lib' = lib /\ filt' = filt /\ backend' = backend
  BY DEF ThroughFails
<1>2. Rests /\ backend' \in [Key -> Data \cup {None}] /\ BackendInv'
  BY <1>1 DEF Rests, FilterInv, Types, BackendInv
<1>3. Broken(call, pc)
  BY <1>1 DEF Broken
<1>4. op.name # "write"
  BY <1>1, <1>3 DEF FilterInv, StoreInv, Writing
<1>5. op.name = "read" /\ call.dir = "unzip"
  BY <1>1, <1>4, PulledIs
<1>6. Reading
  BY <1>1, <1>5 DEF FilterInv, StoreInv
<1>7. Dead(filt["unzip"])
  BY <1>3, <1>6 DEF Reading
<1>8. Rested("unzip")'
  BY <1>1, <1>7 DEF Rested, Dead
<1> QED
  BY <1>1, <1>2, <1>5, <1>8, RestoredKeeps

-----------------------------------------------------------------------------
(* What a stream has delivered is the start of the whole. *)
Begins(o, w) == o \in Data /\ Len(o) <= Len(w) /\ o = SubSeq(w, 1, Len(o))

(* A concatenation begins with its first part. *)
LEMMA JoinBegins ==
  ASSUME NEW o \in Data, NEW x \in Data
  PROVE  Begins(o, o \o x)
<1>1. PICK q : q = o \o x
  OBVIOUS
<1>2. IsCut(q, o, x)
  BY <1>1, JoinedParts
<1>3. Len(o) \in Nat /\ Len(x) \in Nat
  BY DataLen
<1>4. Len(q) = Len(o) + Len(x) /\ SubSeq(q, 1, Len(o)) = o
  BY <1>2 DEF IsCut
<1>5. Len(o) <= Len(q)
  BY <1>3, <1>4
<1> QED
  BY <1>1, <1>4, <1>5 DEF Begins

(* Everything begins with itself. *)
LEMMA BeginsAll ==
  ASSUME NEW w \in Data
  PROVE  Begins(w, w)
<1>1. Len(w) \in Nat /\ SubSeq(w, 1, Len(w)) = w
  BY DataLen, Ends
<1> QED
  BY <1>1 DEF Begins

(* Compression: the start of the marked text is out. *)
LEMMA ZippingBegins ==
  ASSUME NEW s \in Text, NEW o \in Data, NEW f, NEW r, Zipping(f, s, o, r)
  PROVE  Begins(o, Marked(s))
<1>1. o = SubSeq(Marked(s), 1, Len(o)) /\ Len(o) <= Len(s) + 1
  BY Zenon DEF Zipping
<1>2. Len(Marked(s)) = Len(s) + 1
  BY MarkedIs DEF IsMarked
<1> QED
  BY <1>1, <1>2 DEF Begins

(* Decompression: the start of the text is out. *)
LEMMA UnzippingBegins ==
  ASSUME NEW s \in Text, NEW o \in Data, NEW f \in FilterState, NEW r \in Data,
         f.next + f.avail <= Len(f.buf), Unzipping(f, Marked(s), o, r)
  PROVE  Begins(o, s)
<1>1. o \in Text
  BY DEF Unzipping, FilterState, LibraryState
<1>2. PICK x : x = Input(f) \o r
  OBVIOUS
<1>3. Input(f) \in Data
  BY InputIs
<1>4. x \in Data
  BY <1>2, <1>3, JoinedType
<1>5. \E y \in Data : Marked(s) = Codes(o) \o y
  <2>1. CASE Marked(s) = Codes(o) \o x
    BY <1>4, <2>1
  <2>2. CASE Marked(s) = Marked(o) \o x
    <3>1. Codes(o) \in Data /\ <<End(o)>> \in Data
      BY <1>1, Coded, MarkedIs DEF IsCoded
    <3>2. Marked(o) \o x = Codes(o) \o (<<End(o)>> \o x)
      BY <1>4, <3>1, Regroup DEF Marked
    <3>3. <<End(o)>> \o x \in Data
      BY <1>4, <3>1, JoinedType
    <3> QED
      BY <2>2, <3>2, <3>3
  <2> QED
    BY <1>2, <2>1, <2>2 DEF Unzipping
<1>6. Len(o) <= Len(s) /\ o = SubSeq(s, 1, Len(o))
  BY <1>1, <1>5, CodesInMarked
<1> QED
  BY <1>6 DEF Begins

(* Compression with LZO: the start of the image is out. *)
LEMMA LzoZipsBegins ==
  ASSUME NEW s \in Text, NEW o \in Data, NEW f \in FilterState, NEW r, LzoZips(f, s, o, r)
  PROVE  Begins(o, Lzo(s))
<1>1. PICK n \in 0..Len(s) : /\ o \o f.obuf = Lzo(SubSeq(s, 1, n))
                             /\ Multiple(n) \/ n = Len(s)
  BY DEF LzoZips
<1>2. s \in Data /\ Len(s) \in Nat /\ n \in Nat /\ n <= Len(s)
  BY TextData, DataLen
<1>3. PICK p \in Data : p = f.obuf
  BY DEF FilterState
<1>4. \E z \in Data : Lzo(s) = (o \o p) \o z
  <2>1. CASE Multiple(n)
    BY <1>1, <1>2, <1>3, <2>1, LzoPrefix
  <2>2. CASE n = Len(s)
    <3>1. Lzo(s) = o \o p
      BY <1>1, <1>2, <1>3, <2>2, Ends
    <3>2. o \o p = (o \o p) \o <<>>
      BY <1>3, JoinedType, Empties
    <3> QED
      BY <3>1, <3>2, Nothing
  <2> QED
    BY <1>1, <2>1, <2>2
<1>5. PICK z \in Data : Lzo(s) = (o \o p) \o z
  BY <1>4
<1>6. Lzo(s) = o \o (p \o z) /\ p \o z \in Data
  BY <1>5, Regroup, JoinedType, ZenonT(60)
<1> QED
  BY <1>6, JoinBegins

(* Decompression with LZO: the start of the text is out. *)
LEMMA LzoUnzipsBegins ==
  ASSUME NEW s \in Text, NEW o \in Data, NEW f \in FilterState, NEW r, LzoUnzips(f, s, o, r)
  PROVE  Begins(o, s)
<1>1. PICK n \in 0..Len(s) : o \o f.obuf = SubSeq(s, 1, n)
  BY DEF LzoUnzips
<1>2. s \in Data /\ Len(s) \in Nat /\ n \in Nat /\ n <= Len(s)
  BY TextData, DataLen
<1>3. PICK p \in Data : p = f.obuf
  BY DEF FilterState
<1>4. PICK z : z = SubSeq(s, n + 1, Len(s))
  OBVIOUS
<1>5. z \in Data
  BY <1>2, <1>4, Rest
<1>6. s = (o \o p) \o z
  BY <1>1, <1>2, <1>3, <1>4, Rejoined
<1>7. s = o \o (p \o z) /\ p \o z \in Data
  BY <1>5, <1>6, Regroup, JoinedType, SMTT(30)
<1> QED
  BY <1>7, JoinBegins

(* The types of a stream and its filter. *)
LEMMA StreamIs ==
  ASSUME FilterInv
  PROVE  /\ strm.dir \in Direction /\ filt[strm.dir] \in FilterState
         /\ filt[strm.dir].next + filt[strm.dir].avail <= Len(filt[strm.dir].buf)
         /\ source \in Text /\ given \in Data /\ strm.read \in Data /\ call.out \in Data
         /\ src \in Data /\ given \o strm.read \in Data
         /\ (given \o strm.read) \o call.out \in Data
         /\ strm.open \in BOOLEAN /\ strm.flushing \in BOOLEAN /\ strm.again \in BOOLEAN
         /\ strm.want \in 0..SizeMax
         /\ call \in CallState /\ call.err \in Outcome
<1>1. /\ strm.dir \in Direction /\ source \in Text /\ given \in Data /\ strm.read \in Data
      /\ strm.open \in BOOLEAN /\ strm.flushing \in BOOLEAN /\ strm.again \in BOOLEAN
      /\ strm.want \in 0..SizeMax /\ src \in Data /\ call \in CallState
  BY DEF FilterInv, Types
<1>2. call.out \in Data /\ call.err \in Outcome
  BY <1>1, CallFields
<1>3. filt[strm.dir] \in FilterState /\ Steady(strm.dir, filt[strm.dir])
  BY <1>1, FilterIs
<1>4. given \o strm.read \in Data /\ (given \o strm.read) \o call.out \in Data
  BY <1>1, <1>2, JoinedType
<1> QED
  BY <1>1, <1>2, <1>3, <1>4 DEF Steady

(* What a stream has to deliver. *)
LEMMA WholeIs ==
  ASSUME FilterInv
  PROVE  /\ Whole \in Data
         /\ Whole = IF strm.dir = "unzip" THEN source
                    ELSE IF lib = "lzo" THEN Lzo(source) ELSE Marked(source)
<1>1. strm.dir \in Direction /\ source \in Text
  BY StreamIs
<1>2. source \in Data /\ Image(lib, source, InputSize) \in Data
  BY <1>1, TextData, ImageData
<1>3. Image(lib, source, InputSize) = IF lib = "lzo" THEN Lzo(source) ELSE Marked(source)
  BY ImageIs
<1> QED
  BY <1>1, <1>2, <1>3 DEF Whole, Direction

(* What it has delivered is the start of it. *)
LEMMA StreamingBegins ==
  ASSUME FilterInv, client = "stream", Streaming, NEW o, o = Before \o call.out
  PROVE  Begins(o, Whole)
<1>1. Before = given \o strm.read
  BY DEF Before
<1>2. PICK f : f = filt[strm.dir]
  OBVIOUS
<1>3. /\ strm.dir \in Direction /\ f \in FilterState /\ f.next + f.avail <= Len(f.buf)
      /\ source \in Text /\ src \in Data /\ o \in Data
  BY <1>1, <1>2, StreamIs
<1>4. /\ Whole \in Data
      /\ Whole = IF strm.dir = "unzip" THEN source
                 ELSE IF lib = "lzo" THEN Lzo(source) ELSE Marked(source)
  BY WholeIs
<1>5. CASE strm.dir = "zip"
  <2>1. Compresses(source, f, call, src, pc)
    BY <1>2, <1>5 DEF Streaming
  <2>2. CASE lib = "lzo"
    <3>1. LzoZips(f, source, o, src)
      BY <2>1, <2>2 DEF Compresses
    <3> QED
      BY <1>3, <1>4, <1>5, <2>2, <3>1, LzoZipsBegins
  <2>3. CASE lib # "lzo"
    <3>1. CASE Ended(call, pc)
      <4>1. o = Marked(source)
        BY <2>1, <2>3, <3>1 DEF Compresses
      <4> QED
        BY <1>3, <1>4, <1>5, <2>3, <4>1, BeginsAll
    <3>2. CASE ~Ended(call, pc)
      <4>1. Zipping(f, source, o, src)
        BY <2>1, <2>3, <3>2 DEF Compresses
      <4> QED
        BY <1>3, <1>4, <1>5, <2>3, <4>1, ZippingBegins
    <3> QED
      BY <3>1, <3>2
  <2> QED
    BY <2>2, <2>3
<1>6. CASE strm.dir = "unzip"
  <2>1. Whole = source
    BY <1>4, <1>6
  <2>2. CASE lib = "lzo"
    <3>1. LzoUnzips(f, source, o, src)
      BY <1>2, <1>6, <2>2 DEF Streaming, Restores
    <3> QED
      BY <1>3, <2>1, <3>1, LzoUnzipsBegins
  <2>3. CASE lib # "lzo"
    <3>1. Decompresses(Marked(source), f, call, src, pc)
      BY <1>2, <1>6, <2>3 DEF Streaming
    <3>2. CASE Ended(call, pc)
      <4>1. o \in Text /\ Marked(source) = Marked(o)
        BY <3>1, <3>2 DEF Decompresses
      <4>2. o = source
        BY <1>3, <4>1, MarkedInjective
      <4> QED
        BY <1>3, <2>1, <4>2, BeginsAll
    <3>3. CASE ~Ended(call, pc)
      <4>1. Unzipping(f, Marked(source), o, src)
        BY <3>1, <3>3 DEF Decompresses
      <4> QED
        BY <1>3, <2>1, <4>1, UnzippingBegins
    <3> QED
      BY <3>2, <3>3
  <2> QED
    BY <2>2, <2>3
<1> QED
  BY <1>3, <1>5, <1>6 DEF Direction

-----------------------------------------------------------------------------
(* The steps of a filtered stream. *)
LEMMA StoreSame ==
  ASSUME UNCHANGED <<storeVars, client>>
  PROVE  /\ backend' = backend /\ op' = op /\ through' = through /\ ret' = ret
         /\ failed' = failed /\ client' = client
BY DEF storeVars

StreamObject ==
    [dir : Direction, open : BOOLEAN, flushing : BOOLEAN, finished : BOOLEAN,
     want : 0..SizeMax, again : BOOLEAN, read : Data, status : {"none", "end"} \cup Outcome]

(* The parts of the invariant that do not concern the stream. *)
LEMMA StreamTypes ==
  ASSUME FilterInv, client = "stream", UNCHANGED <<storeVars, client>>, lib' = lib,
         filt' = filt, call' \in CallState, src' \in Data,
         handler' \in {"none", "buffer", "stream"}, pc' \in {"idle", "pull", "pulled"},
         source' \in Text, given' \in Data, strm' \in StreamObject
  PROVE  Types' /\ StoreControl' /\ BackendInv' /\ StoreInv'
<1>1. /\ backend' = backend /\ op' = op /\ through' = through /\ failed' = failed
      /\ client' = client
  BY StoreSame
<1>2. Types'
  BY <1>1, SteadySame DEF FilterInv, Types, StreamObject
<1>3. StoreControl' /\ StoreInv'
  BY <1>1 DEF StoreControl, StoreInv
<1>4. BackendInv'
  BY <1>1 DEF FilterInv, BackendInv
<1> QED
  BY <1>2, <1>3, <1>4

(* No call is pending. *)
LEMMA NoCallIs ==
  /\ NoCall \in CallState /\ NoCall.out = <<>>
  /\ \A c : c = NoCall => ~Ended(c, "idle") /\ ~Broken(c, "idle")
<1>1. "ok" \in LibraryReturn /\ "ok" \in Outcome /\ 0 \in 0..SizeMax /\ "zip" \in Direction
  BY FilterAssumption DEF LibraryReturn, Outcome, Direction
<1>2. NoCall \in CallState /\ NoCall.out = <<>>
  BY <1>1, Nothing DEF NoCall, CallState
<1> QED
  BY <1>2 DEF Ended, Broken

(* A filter that was just opened is clean. *)
LEMMA OpenedClean ==
  /\ Opened \in FilterState /\ Clean(Opened)
<1>1. InputSize \in Nat
  BY FilterAssumption
<1> QED
  BY <1>1, Nothing, FreshIs DEF Opened, FilterState, Clean

(* chop_filtered_stream_open. *)
LEMMA StreamOpenKeeps ==
  ASSUME FilterInv, client = "stream", NEW d \in Direction, NEW s \in Sources,
         StreamOpen(d, s), UNCHANGED <<storeVars, client>>
  PROVE  FilterInv'
<1>1. /\ pc = "idle" /\ ~strm.open /\ strm.status = "none" /\ source' = s
      /\ src' = (IF d = "zip" THEN s ELSE Image(lib, s, InputSize)) /\ handler' = "stream"
      /\ strm' = [strm EXCEPT !.dir = d, !.open = TRUE]
      /\ lib' = lib /\ filt' = filt /\ call' = call /\ pc' = pc /\ given' = given
  BY DEF StreamOpen
<1>2. s \in Text
  BY StreamAssumption DEF Text
<1>3. s \in Data /\ Image(lib, s, InputSize) \in Data
  BY <1>2, TextData, ImageData
<1>4. /\ call = NoCall /\ strm.read = <<>> /\ given = <<>> /\ ~strm.flushing
      /\ \A e \in Direction : filt[e] = Opened
      /\ op = NoOp /\ failed = FALSE
  BY <1>1 DEF FilterInv, StreamControl
<1>5. strm \in StreamObject
  BY DEF FilterInv, Types, StreamObject
<1>6. /\ strm' \in StreamObject /\ strm'.dir = d /\ strm'.open = TRUE
      /\ strm'.read = <<>> /\ strm'.status = "none" /\ strm'.flushing = strm.flushing
      /\ strm'.again = strm.again
  BY <1>1, <1>4, <1>5 DEF StreamObject
<1>7. /\ backend' = backend /\ op' = op /\ failed' = failed /\ client' = client
  BY StoreSame
<1>8. src' \in Data
  BY <1>1, <1>3
<1>9. Types' /\ StoreControl' /\ BackendInv' /\ StoreInv'
  <2>1. call' \in CallState /\ given' \in Data
    BY <1>1, <1>4, NoCallIs, Nothing
  <2> QED
    BY <1>1, <1>2, <1>6, <1>8, <2>1, StreamTypes
<1>10. Pending'
  BY <1>1 DEF Pending
<1>11. StreamControl'
  BY <1>1, <1>4, <1>6, <1>7 DEF StreamControl
<1>12. Before' \o call'.out = <<>>
  <2>1. Before' = <<>> \o <<>>
    BY <1>1, <1>4, <1>6, <1>7 DEF Before
  <2> QED
    BY <1>1, <1>4, <2>1, NoCallIs, Nothing, Empties
<1>13. Opened \in FilterState /\ Clean(Opened) /\ filt'[strm'.dir] = Opened
  BY <1>1, <1>4, <1>6, OpenedClean
<1>14. ~Ended(call, pc)'
  BY <1>1 DEF Ended
<1>15. Streaming'
  <2>1. CASE d = "zip" /\ lib = "lzo"
    <3>1. LzoZips(Opened, s, <<>>, s)
      BY <1>2, <1>13, <2>1, CleanLzoZips
    <3> QED
      BY <1>1, <1>6, <1>12, <1>13, <2>1, <3>1 DEF Streaming, Compresses
  <2>2. CASE d = "zip" /\ lib # "lzo"
    <3>1. Zipping(Opened, s, <<>>, s)
      BY <1>2, <1>13, <2>2, CleanZips
    <3> QED
      BY <1>1, <1>6, <1>12, <1>13, <1>14, <2>2, <3>1 DEF Streaming, Compresses
  <2>3. CASE d = "unzip" /\ lib = "lzo"
    <3>1. LzoUnzips(Opened, s, <<>>, Lzo(s))
      BY <1>2, <1>13, <2>3, CleanLzoUnzips
    <3>2. src' = Lzo(s)
      BY <1>1, <2>3, ImageIs
    <3> QED
      BY <1>1, <1>6, <1>12, <1>13, <2>3, <3>1, <3>2 DEF Streaming, Restores
  <2>4. CASE d = "unzip" /\ lib # "lzo"
    <3>1. src' = Marked(s)
      BY <1>1, <2>4, ImageIs
    <3>2. Unzipping(Opened, Marked(s), <<>>, Marked(s))
      BY <1>8, <1>13, <2>4, <3>1, CleanUnzips
    <3> QED
      BY <1>1, <1>6, <1>12, <1>13, <1>14, <2>4, <3>1, <3>2 DEF Streaming, Decompresses
  <2> QED
    BY <2>1, <2>2, <2>3, <2>4 DEF Direction
<1>16. StreamInv'
  <2>1. Whole' \in Data
    BY <1>1, <1>3, <1>6 DEF Whole
  <2>2. given' = <<>> /\ Len(<<>>) = 0
    BY <1>1, <1>4, Nothing
  <2>3. Len(Whole') \in Nat /\ SubSeq(Whole', 1, 0) = <<>>
    BY <2>1, DataLen, Ends
  <2> QED
    BY <1>6, <1>15, <2>2, <2>3 DEF StreamInv
<1> QED
  BY <1>9, <1>10, <1>11, <1>16 DEF FilterInv

-----------------------------------------------------------------------------
(* A stream goes on when what came out is counted elsewhere. *)
LEMMA StreamingSame ==
  ASSUME Streaming, lib' = lib, filt' = filt, src' = src, strm'.dir = strm.dir,
         source' = source, Before' \o call'.out = Before \o call.out,
         lib = "lzo" \/ (~Ended(call, pc) /\ ~Ended(call, pc)')
  PROVE  Streaming'
<1>1. CASE lib = "lzo"
  BY <1>1 DEF Streaming, Compresses, Restores
<1>2. CASE lib # "lzo"
  <2>1. ~Ended(call, pc) /\ ~Ended(call, pc)'
    BY <1>2
  <2> QED
    BY <1>2, <2>1 DEF Streaming, Compresses, Decompresses
<1> QED
  BY <1>1, <1>2

(* filtered_stream_read starts. *)
LEMMA StreamReadKeeps ==
  ASSUME FilterInv, client = "stream", NEW n \in ReadSizes, StreamRead(n),
         UNCHANGED <<storeVars, client>>
  PROVE  FilterInv'
<1>1. /\ pc = "idle" /\ strm.open /\ strm.status \in {"none", "ok"}
      /\ strm' = [strm EXCEPT !.want = n, !.again = FALSE, !.read = <<>>]
      /\ Start(strm.dir, strm.flushing, n)
      /\ lib' = lib /\ filt' = filt /\ src' = src /\ handler' = handler
      /\ source' = source /\ given' = given
  BY DEF StreamRead
<1>2. n \in 0..SizeMax /\ n \in Nat
  BY StreamAssumption, FilterAssumption
<1>3. strm \in StreamObject
  BY DEF FilterInv, Types, StreamObject
<1>4. /\ strm' \in StreamObject /\ strm'.dir = strm.dir /\ strm'.open = strm.open
      /\ strm'.read = <<>> /\ strm'.status = strm.status /\ strm'.flushing = strm.flushing
      /\ strm'.again = FALSE /\ strm'.want = n
  BY <1>1, <1>2, <1>3, Nothing DEF StreamObject
<1>5. strm.dir \in Direction /\ strm.flushing \in BOOLEAN /\ src \in Data /\ given \in Data
      /\ source \in Text
  BY StreamIs
<1>6. /\ call' \in CallState /\ call'.dir = strm.dir /\ call'.flush = strm.flushing
      /\ call'.size = n /\ call'.room = n /\ call'.out = <<>> /\ call'.zret = "ok"
      /\ pc' = "pull"
      /\ ~Ended(call, pc)' /\ ~Broken(call, pc)'
  BY <1>1, <1>2, <1>5, StartIs
<1>7. /\ handler = "stream" /\ strm.read = <<>> /\ call = NoCall /\ op = NoOp
      /\ failed = FALSE /\ (strm.status = "none" => given = <<>>)
  BY <1>1 DEF FilterInv, StreamControl
<1>8. /\ backend' = backend /\ op' = op /\ failed' = failed /\ client' = client
  BY StoreSame
<1>9. Types' /\ StoreControl' /\ BackendInv' /\ StoreInv'
  BY <1>1, <1>4, <1>5, <1>6, <1>7, StreamTypes
<1>10. StreamControl'
  <2>1. handler' = "stream"
    BY <1>1, <1>7
  <2>2. strm'.status \in {"none", "ok"} /\ strm'.open
    BY <1>1, <1>4
  <2>3. strm'.status = "none" => given' = <<>>
    BY <1>1, <1>4, <1>7
  <2> QED
    BY <1>4, <1>6, <1>7, <1>8, <2>1, <2>2, <2>3 DEF StreamControl
<1>11. Request' = n /\ Before' = given \o <<>> /\ Before = given \o <<>>
  <2>1. Request' = n - Len(<<>>)
    BY <1>4, <1>8 DEF Request
  <2> QED
    BY <1>1, <1>2, <1>4, <1>7, <1>8, <2>1, Nothing DEF Before
<1>12. Pending'
  <2>1. SizesFit(filt[call.dir], call, src, pc)'
    <3>1. /\ call'.room = Request' /\ Len(call'.out) = 0 /\ call'.size = Request'
          /\ Request' \in Nat
      BY <1>2, <1>6, <1>11, Nothing
    <3>2. PICK r \in Nat : r = Request'
      BY <3>1
    <3>3. r <= r /\ 0 <= r /\ 0 + r = r
      OBVIOUS
    <3>4. call'.room = r /\ Len(call'.out) = 0 /\ call'.size = r
      BY <3>1, <3>2
    <3> QED
      BY <3>2, <3>3, <3>4 DEF SizesFit, Short, Ample
  <2>2. strm.flushing => Drained(strm.dir, filt[strm.dir], src)
    BY <1>1 DEF FilterInv, StreamControl
  <2>3. strm.flushing => Drained(call.dir, filt[call.dir], src)'
    BY <1>1, <1>6, <2>2 DEF Drained
  <2>4. Flushed(filt[call.dir], call, src, pc)'
    BY <1>6, <2>3 DEF Flushed
  <2>5. Steady(call.dir, filt[call.dir])'
    BY <1>1, <1>5, <1>6, SteadySame
  <2> QED
    BY <1>1, <1>2, <1>5, <1>6, <1>11, <2>1, <2>4, <2>5 DEF Pending, Fine
<1>13. Streaming'
  <2>1. ~Ended(call, pc) /\ ~Broken(call, pc)
    BY <1>1 DEF Ended, Broken
  <2>2. Streaming
    BY <1>1, <2>1 DEF FilterInv, StreamInv
  <2>3. Before' \o call'.out = Before \o call.out
    BY <1>6, <1>7, <1>11, NoCallIs
  <2> QED
    BY <1>1, <1>4, <1>6, <2>1, <2>2, <2>3, StreamingSame
<1>14. StreamInv'
  <2>1. Whole' = Whole
    BY <1>1, <1>4 DEF Whole
  <2>2. Len(given) <= Len(Whole) /\ given = SubSeq(Whole, 1, Len(given))
    BY DEF FilterInv, StreamInv
  <2>3. strm'.status # "end"
    BY <1>1, <1>4
  <2> QED
    BY <1>1, <1>13, <2>1, <2>2, <2>3 DEF StreamInv
<1> QED
  BY <1>9, <1>10, <1>12, <1>14 DEF FilterInv

(* It starts to flush, for the rest of the request. *)
LEMMA StreamFlushesKeeps ==
  ASSUME FilterInv, client = "stream", StreamFlushes, UNCHANGED <<storeVars, client>>
  PROVE  FilterInv'
<1>1. /\ pc = "pulled" /\ strm.open /\ call.err = "empty" /\ ~strm.flushing
      /\ strm' = [strm EXCEPT !.flushing = TRUE, !.again = TRUE, !.read = call.out]
      /\ Start(strm.dir, TRUE, Minus(strm.want, Len(call.out)))
      /\ lib' = lib /\ filt' = filt /\ src' = src /\ handler' = handler
      /\ source' = source /\ given' = given
  BY DEF StreamFlushes
<1>2. strm.dir \in Direction /\ call.out \in Data /\ src \in Data /\ given \in Data
      /\ source \in Text /\ strm.want \in 0..SizeMax /\ Len(call.out) \in Nat
      /\ call \in CallState /\ call.size \in 0..SizeMax
  BY StreamIs, DataLen, CallFields
<1>3. /\ handler = "stream" /\ op = NoOp /\ failed = FALSE
      /\ call.dir = strm.dir /\ call.flush = strm.flushing
      /\ strm.status \in {"none", "ok"} /\ ~strm.again
      /\ strm.read = <<>> /\ (strm.status = "none" => given = <<>>)
  BY <1>1 DEF FilterInv, StreamControl
<1>4. Fine(Current, call, src, pc) /\ Current = filt[strm.dir]
  BY <1>1, <1>3 DEF FilterInv, Pending, Current
<1>5. Request = strm.want
  <2>1. Request = strm.want - Len(<<>>)
    BY <1>3 DEF Request
  <2> QED
    BY <1>2, <2>1, Nothing
<1>6. Len(call.out) <= strm.want
  BY <1>2, <1>4, <1>5 DEF Fine, SizesFit, Short
<1>7. PICK n : n = strm.want - Len(call.out)
  OBVIOUS
<1>8. n \in 0..SizeMax /\ n \in Nat /\ Minus(strm.want, Len(call.out)) = n
  BY <1>2, <1>6, <1>7, FilterAssumption DEF Minus
<1>9. /\ call' \in CallState /\ call'.dir = strm.dir /\ call'.flush = TRUE
      /\ call'.size = n /\ call'.room = n /\ call'.out = <<>> /\ call'.zret = "ok"
      /\ pc' = "pull"
      /\ ~Ended(call, pc)' /\ ~Broken(call, pc)'
  <2>1. Start(strm.dir, TRUE, n)
    BY <1>1, <1>8
  <2> QED
    BY <1>2, <1>8, <2>1, StartIs
<1>10. strm \in StreamObject
  BY DEF FilterInv, Types, StreamObject
<1>11. /\ strm' \in StreamObject /\ strm'.dir = strm.dir /\ strm'.open = strm.open
       /\ strm'.read = call.out /\ strm'.status = strm.status /\ strm'.flushing = TRUE
       /\ strm'.again = TRUE /\ strm'.want = strm.want
  BY <1>1, <1>2, <1>10 DEF StreamObject
<1>12. /\ backend' = backend /\ op' = op /\ failed' = failed /\ client' = client
  BY StoreSame
<1>13. Types' /\ StoreControl' /\ BackendInv' /\ StoreInv'
  BY <1>1, <1>2, <1>3, <1>9, <1>11, StreamTypes
<1>14. Flushed(Current, call, src, pc)
  BY <1>4 DEF Fine
<1>15. Drained(strm.dir, filt[strm.dir], src) /\ (lib # "lzo" => call.out = <<>>)
  BY <1>1, <1>3, <1>4, <1>14 DEF Flushed
<1>16. StreamControl'
  <2>1. handler' = "stream"
    BY <1>1, <1>3
  <2>2. strm'.status \in {"none", "ok"} /\ strm'.open
    BY <1>1, <1>3, <1>11
  <2>3. strm'.status = "none" => given' = <<>>
    BY <1>1, <1>3, <1>11
  <2>4. lib' # "lzo" => strm'.read = <<>>
    BY <1>1, <1>11, <1>15
  <2> QED
    BY <1>3, <1>9, <1>11, <1>12, <2>1, <2>2, <2>3, <2>4 DEF StreamControl
<1>17. Request' = n /\ Before' = given \o call.out /\ Before = given \o <<>>
  BY <1>1, <1>3, <1>7, <1>11, <1>12 DEF Request, Before
<1>18. Pending'
  <2>1. SizesFit(filt[call.dir], call, src, pc)'
    BY <1>8, <1>9, <1>17, Nothing DEF SizesFit, Short, Ample
  <2>2. Drained(call.dir, filt[call.dir], src)'
    BY <1>1, <1>9, <1>15 DEF Drained
  <2>3. Flushed(filt[call.dir], call, src, pc)'
    BY <1>9, <2>2 DEF Flushed
  <2>4. Steady(call.dir, filt[call.dir])'
    BY <1>1, <1>2, <1>9, SteadySame
  <2> QED
    BY <1>1, <1>2, <1>8, <1>9, <1>17, <2>1, <2>3, <2>4 DEF Pending, Fine
<1>19. Streaming'
  <2>1. ~Ended(call, pc) /\ ~Broken(call, pc)
    BY <1>1, <1>3 DEF Ended, Broken
  <2>2. Streaming
    BY <1>1, <1>3, <2>1 DEF FilterInv, StreamInv
  <2>3. Before' \o call'.out = given \o call.out
    <3>1. given \o call.out \in Data
      BY <1>2, JoinedType
    <3> QED
      BY <1>9, <1>17, <3>1, Empties
  <2>4. Before \o call.out = given \o call.out
    BY <1>2, <1>17, Empties
  <2> QED
    BY <1>1, <1>9, <1>11, <2>1, <2>2, <2>3, <2>4, StreamingSame
<1>20. StreamInv'
  <2>1. Whole' = Whole
    BY <1>1, <1>11 DEF Whole
  <2>2. Len(given) <= Len(Whole) /\ given = SubSeq(Whole, 1, Len(given))
    BY DEF FilterInv, StreamInv
  <2>3. strm'.status # "end"
    BY <1>3, <1>11
  <2> QED
    BY <1>1, <1>19, <2>1, <2>2, <2>3 DEF StreamInv
<1> QED
  BY <1>13, <1>16, <1>18, <1>20 DEF FilterInv

-----------------------------------------------------------------------------
(* A stream that was flushed has delivered the whole. *)
LEMMA StreamedAll ==
  ASSUME FilterInv, client = "stream", Streaming, Ended(call, pc), call.dir = strm.dir,
         Fine(filt[strm.dir], call, src, pc), NEW o, o = Before \o call.out
  PROVE  /\ o = Whole /\ Clean(filt[strm.dir]) /\ call.out = <<>>
<1>1. PICK f : f = filt[strm.dir]
  OBVIOUS
<1>2. Before = given \o strm.read
  BY DEF Before
<1>3. strm.dir \in Direction /\ f \in FilterState /\ source \in Text /\ o \in Data
  BY <1>1, <1>2, StreamIs
<1>4. call.flush /\ call.err = "empty" /\ pc = "pulled"
  BY DEF Ended
<1>5. Flushed(f, call, src, pc)
  BY <1>1 DEF Fine
<1>6. Clean(f) /\ call.out = <<>> /\ src = <<>>
  BY <1>4, <1>5 DEF Flushed, Drained
<1>7. f.avail = 0 /\ f.obuf = <<>>
  BY <1>6 DEF Clean
<1>8. Whole = IF strm.dir = "unzip" THEN source
              ELSE IF lib = "lzo" THEN Lzo(source) ELSE Marked(source)
  BY WholeIs
<1>9. CASE strm.dir = "zip" /\ lib = "lzo"
  <2>1. LzoZips(f, source, o, <<>>)
    BY <1>1, <1>6, <1>9 DEF Streaming, Compresses
  <2>2. o = Lzo(source)
    BY <1>3, <1>7, <2>1, AllZipped
  <2> QED
    BY <1>1, <1>6, <1>8, <1>9, <2>2
<1>10. CASE strm.dir = "zip" /\ lib # "lzo"
  <2>1. o = Marked(source)
    BY <1>10 DEF Streaming, Compresses
  <2> QED
    BY <1>1, <1>6, <1>8, <1>10, <2>1
<1>11. CASE strm.dir = "unzip" /\ lib = "lzo"
  <2>1. LzoUnzips(f, source, o, <<>>)
    BY <1>1, <1>6, <1>11 DEF Streaming, Restores
  <2>2. o = source
    BY <1>3, <1>7, <2>1, AllUnzipped
  <2> QED
    BY <1>1, <1>6, <1>8, <1>11, <2>2
<1>12. CASE strm.dir = "unzip" /\ lib # "lzo"
  <2>1. o \in Text /\ Marked(source) = Marked(o)
    BY <1>12 DEF Streaming, Decompresses
  <2>2. o = source
    BY <1>3, <2>1, MarkedInjective
  <2> QED
    BY <1>1, <1>6, <1>8, <1>12, <2>2
<1> QED
  BY <1>3, <1>9, <1>10, <1>11, <1>12 DEF Direction

(* A read that returns leaves the stream at rest. *)
Answers(f, e, g) ==
    /\ strm' = [strm EXCEPT !.finished = f, !.read = <<>>, !.status = e]
    /\ given' = g

(* A read that returns leaves the stream at rest. *)
LEMMA StreamAnswers ==
  ASSUME FilterInv, client = "stream", UNCHANGED <<storeVars, client>>,
         pc = "pulled", strm.open, pc' = "idle", call' = NoCall, lib' = lib, filt' = filt,
         src' = src, handler' = handler, source' = source,
         NEW fin \in BOOLEAN, NEW e \in {"ok", "end", "filter_error", "read_error"},
         NEW g, Answers(fin, e, g), Begins(g, Whole),
         e = "end" => g = Whole /\ Clean(filt[strm.dir]),
         e = "ok" => Streaming'
  PROVE  FilterInv'
<1>1. strm' = [strm EXCEPT !.finished = fin, !.read = <<>>, !.status = e] /\ given' = g
  BY DEF Answers
<1>2. strm \in StreamObject
  BY DEF FilterInv, Types, StreamObject
<1>3. e \in {"none", "end"} \cup Outcome
  BY DEF Outcome
<1>4. /\ strm' \in StreamObject /\ strm'.dir = strm.dir /\ strm'.open = strm.open
      /\ strm'.read = <<>> /\ strm'.status = e /\ strm'.flushing = strm.flushing
  BY <1>1, <1>2, <1>3, Nothing DEF StreamObject
<1>5. g \in Data /\ Len(g) <= Len(Whole) /\ g = SubSeq(Whole, 1, Len(g))
  BY DEF Begins
<1>6. /\ handler = "stream" /\ op = NoOp /\ failed = FALSE
      /\ call.dir = strm.dir /\ call.flush = strm.flushing
  BY DEF FilterInv, StreamControl
<1>7. Fine(filt[strm.dir], call, src, pc)
  BY <1>6 DEF FilterInv, Pending
<1>8. src \in Data /\ source \in Text
  BY StreamIs
<1>9. /\ op' = op /\ failed' = failed /\ client' = client
  BY StoreSame
<1>10. Types' /\ StoreControl' /\ BackendInv' /\ StoreInv'
  BY <1>1, <1>4, <1>5, <1>6, <1>8, NoCallIs, StreamTypes
<1>11. Pending'
  BY DEF Pending
<1>12. StreamControl'
  <2>1. strm.flushing => Drained(strm.dir, filt[strm.dir], src)
    BY <1>6, <1>7 DEF Fine, Flushed
  <2>2. strm'.flushing => Drained(strm.dir, filt[strm.dir], src)'
    BY <1>4, <2>1 DEF Drained
  <2>3. strm'.status # "none"
    BY <1>4
  <2> QED
    BY <1>4, <1>6, <1>9, <2>2, <2>3 DEF StreamControl
<1>13. StreamInv'
  <2>1. Whole' = Whole
    BY <1>4 DEF Whole
  <2>2. strm'.status = "end" => given' = Whole /\ Clean(filt[strm.dir])'
    BY <1>1, <1>4 DEF Clean
  <2>3. strm'.status \in {"none", "ok"} => Streaming'
    BY <1>4
  <2> QED
    BY <1>1, <1>5, <2>1, <2>2, <2>3 DEF StreamInv
<1> QED
  BY <1>10, <1>11, <1>12, <1>13 DEF FilterInv

(* It returns: data, the end or an error. *)
LEMMA StreamReturnsKeeps ==
  ASSUME FilterInv, client = "stream", StreamReturns, UNCHANGED <<storeVars, client>>
  PROVE  FilterInv'
<1> DEFINE read == IF strm.again /\ call.err = "ok" THEN strm.read \o call.out
                   ELSE IF strm.again THEN strm.read ELSE call.out
           end  == call.err = "empty" /\ read = <<>>
           err  == IF call.err = "empty" THEN "ok" ELSE call.err
           o    == Before \o call.out
<1>1. /\ pc = "pulled" /\ strm.open /\ (strm.flushing \/ call.err # "empty")
      /\ strm' = [strm EXCEPT !.finished = end, !.read = <<>>,
                              !.status = IF end THEN "end" ELSE err]
      /\ given' = IF ~end /\ err = "ok" THEN given \o read ELSE given
      /\ pc' = "idle" /\ call' = NoCall
      /\ lib' = lib /\ filt' = filt /\ src' = src /\ handler' = handler /\ source' = source
  BY DEF StreamReturns
<1>2. /\ given \in Data /\ strm.read \in Data /\ call.out \in Data /\ strm.again \in BOOLEAN
      /\ call.err \in Outcome /\ given \o strm.read \in Data /\ o \in Data
  BY StreamIs DEF Before
<1>3. /\ call.dir = strm.dir /\ call.flush = strm.flushing /\ strm.status \in {"none", "ok"}
      /\ (~strm.again => strm.read = <<>>) /\ (lib # "lzo" => strm.read = <<>>)
  BY <1>1 DEF FilterInv, StreamControl
<1>4. Fine(filt[strm.dir], call, src, pc)
  BY <1>1, <1>3 DEF FilterInv, Pending
<1>5. Before = given \o strm.read
  BY DEF Before
<1>6. ~Broken(call, pc) => Streaming
  BY <1>1, <1>3 DEF FilterInv, StreamInv
<1>7. Begins(given, Whole)
  BY <1>2 DEF FilterInv, StreamInv, Begins
<1>8. ~Ended(call, pc)' /\ NoCall.out = <<>> /\ strm'.dir = strm.dir
  <2>1. strm \in StreamObject
    BY DEF FilterInv, Types, StreamObject
  <2> QED
    BY <1>1, <2>1, NoCallIs DEF Ended, StreamObject
<1> HIDE DEF read, end, err, o
<1>9. ASSUME strm'.read = <<>>, given' = o
      PROVE  Before' \o call'.out = o
  <2>1. Before' = given' \o <<>>
    BY <1>9, StoreSame DEF Before
  <2> QED
    BY <1>1, <1>2, <1>8, <1>9, <2>1, Empties
<1>10. CASE call.err = "ok"
  <2>1. ~Broken(call, pc) /\ ~Ended(call, pc)
    BY <1>10 DEF Broken, Ended
  <2>2. Streaming /\ Begins(o, Whole)
    BY <1>6, <2>1, StreamingBegins DEF o
  <2>3. given \o read = o
    <3>1. CASE strm.again
      <4>1. given \o (strm.read \o call.out) = (given \o strm.read) \o call.out
        BY <1>2, Regroup, ZenonT(60)
      <4> QED
        BY <1>5, <1>10, <3>1, <4>1 DEF read, o
    <3>2. CASE ~strm.again
      <4>1. given \o strm.read = given
        BY <1>2, <1>3, <3>2, Empties
      <4> QED
        BY <1>5, <3>2, <4>1 DEF read, o
    <3> QED
      BY <3>1, <3>2
  <2>4. end = FALSE /\ err = "ok"
    BY <1>10 DEF end, err
  <2>5. Answers(FALSE, "ok", o)
    BY <1>1, <2>3, <2>4 DEF Answers
  <2>6. strm'.read = <<>> /\ given' = o
    <3>1. strm \in StreamObject
      BY DEF FilterInv, Types, StreamObject
    <3> QED
      BY <2>5, <3>1 DEF Answers, StreamObject
  <2>7. Before' \o call'.out = Before \o call.out
    BY <1>9, <2>6 DEF o
  <2>8. Streaming'
    BY <1>1, <1>8, <2>1, <2>2, <2>7, StreamingSame
  <2> QED
    BY <1>1, <2>2, <2>5, <2>8, StreamAnswers
<1>11. CASE call.err = "empty"
  <2>1. Ended(call, pc) /\ ~Broken(call, pc) /\ Streaming
    BY <1>1, <1>3, <1>6, <1>11 DEF Ended, Broken
  <2>2. o = Whole /\ Clean(filt[strm.dir]) /\ call.out = <<>>
    BY <1>3, <1>4, <2>1, StreamedAll DEF o
  <2>3. o = given \o strm.read
    BY <1>2, <1>5, <2>2, Empties DEF o
  <2>4. read = strm.read
    BY <1>3, <1>11, <2>2 DEF read
  <2>5. err = "ok" /\ (end = (strm.read = <<>>))
    BY <1>11, <2>4 DEF err, end
  <2>6. CASE strm.read = <<>>
    <3>1. given = Whole
      BY <1>2, <2>2, <2>3, <2>6, Empties
    <3>2. end = TRUE
      BY <2>5, <2>6
    <3>3. Answers(TRUE, "end", given)
      BY <1>1, <3>2 DEF Answers
    <3> QED
      BY <1>1, <1>7, <2>2, <3>1, <3>3, StreamAnswers
  <2>7. CASE strm.read # <<>>
    <3>1. end = FALSE /\ lib = "lzo"
      BY <1>3, <2>5, <2>7
    <3>2. Answers(FALSE, "ok", o)
      BY <1>1, <2>3, <2>4, <2>5, <3>1 DEF Answers
    <3>3. strm'.read = <<>> /\ given' = o
      <4>1. strm \in StreamObject
        BY DEF FilterInv, Types, StreamObject
      <4> QED
        BY <3>2, <4>1 DEF Answers, StreamObject
    <3>4. Before' \o call'.out = Before \o call.out
      BY <1>9, <3>3 DEF o
    <3>5. Streaming'
      BY <1>1, <1>8, <2>1, <3>1, <3>4, StreamingSame
    <3>6. Begins(o, Whole)
      BY <1>2, <2>2, BeginsAll
    <3> QED
      BY <1>1, <3>2, <3>5, <3>6, StreamAnswers
  <2> QED
    BY <2>6, <2>7
<1>12. CASE call.err \in {"filter_error", "read_error"}
  <2>1. end = FALSE /\ err = call.err
    BY <1>12 DEF end, err
  <2>2. PICK e \in {"filter_error", "read_error"} : e = call.err
    BY <1>12
  <2>3. Answers(FALSE, e, given)
    BY <1>1, <2>1, <2>2 DEF Answers
  <2> QED
    BY <1>1, <1>7, <2>3, StreamAnswers
<1> QED
  BY <1>2, <1>10, <1>11, <1>12 DEF Outcome

(* filtered_stream_close. *)
LEMMA StreamCloseKeeps ==
  ASSUME FilterInv, client = "stream", StreamClose, UNCHANGED <<storeVars, client>>
  PROVE  FilterInv'
<1>1. /\ pc = "idle" /\ strm.open /\ strm' = [strm EXCEPT !.open = FALSE]
      /\ handler' = "none" /\ src' = <<>> /\ lib' = lib /\ filt' = filt /\ call' = call
      /\ pc' = pc /\ source' = source /\ given' = given
  BY DEF StreamClose
<1>2. strm \in StreamObject
  BY DEF FilterInv, Types, StreamObject
<1>3. /\ strm' \in StreamObject /\ strm'.dir = strm.dir /\ strm'.open = FALSE
      /\ strm'.read = strm.read /\ strm'.status = strm.status
      /\ strm'.flushing = strm.flushing /\ strm'.again = strm.again
  BY <1>1, <1>2 DEF StreamObject
<1>4. source \in Text /\ given \in Data /\ call \in CallState
  BY StreamIs
<1>5. Types' /\ StoreControl' /\ BackendInv' /\ StoreInv'
  BY <1>1, <1>3, <1>4, Nothing, StreamTypes
<1>6. Pending'
  BY <1>1 DEF Pending
<1>7. op' = op /\ failed' = failed /\ client' = client
  BY StoreSame
<1>8. /\ op = NoOp /\ failed = FALSE /\ strm.read = <<>> /\ call = NoCall
      /\ strm.status = "none" =>
           given = <<>> /\ ~strm.flushing /\ \A d \in Direction : filt[d] = Opened
  BY <1>1 DEF FilterInv, StreamControl
<1>9. StreamControl'
  BY <1>1, <1>3, <1>7, <1>8 DEF StreamControl
<1>10. StreamInv'
  <2>1. Whole' = Whole
    BY <1>1, <1>3 DEF Whole
  <2>2. /\ Len(given) <= Len(Whole) /\ given = SubSeq(Whole, 1, Len(given))
        /\ strm.status = "end" => given = Whole /\ Clean(filt[strm.dir])
    BY DEF FilterInv, StreamInv
  <2>3. strm'.status = "end" => given' = Whole /\ Clean(filt[strm.dir])'
    BY <1>1, <1>3, <2>2 DEF Clean
  <2> QED
    BY <1>1, <1>3, <2>1, <2>2, <2>3 DEF StreamInv
<1> QED
  BY <1>5, <1>6, <1>9, <1>10 DEF FilterInv

-----------------------------------------------------------------------------
(* The invariant holds initially. *)
LEMMA FilterInvInit == Init => FilterInv
<1> SUFFICES ASSUME Init PROVE FilterInv
  OBVIOUS
<1>1. /\ lib \in Library /\ filt = [d \in Direction |-> Opened] /\ call = NoCall
      /\ src = <<>> /\ handler = "none" /\ pc = "idle"
  BY DEF Init, FilterInit
<1>2. /\ backend = [k \in Key |-> None] /\ op = NoOp /\ failed = FALSE
      /\ through = [flush |-> FALSE, out |-> <<>>]
  BY DEF Init, StoreInit
<1>3. /\ source = <<>> /\ given = <<>>
      /\ strm = [dir |-> "zip", open |-> FALSE, flushing |-> FALSE,
                 finished |-> FALSE, want |-> 0, again |-> FALSE, read |-> <<>>,
                 status |-> "none"]
  BY DEF Init, StreamInit
<1>4. client \in {"store", "stream"}
  BY DEF Init
<1>5. Opened \in FilterState /\ Clean(Opened) /\ \A d \in Direction : filt[d] = Opened
  BY <1>1, OpenedClean
<1>6. strm \in StreamObject /\ ~strm.open /\ strm.status = "none" /\ strm.read = <<>>
      /\ ~strm.flushing /\ strm.dir = "zip"
  BY <1>3, FilterAssumption, Nothing DEF StreamObject, Direction
<1>7. Types
  <2>1. \A d \in Direction : Steady(d, Opened)
    BY <1>5, FilterAssumption, Nothing DEF Steady, Opened
  <2>2. filt \in [Direction -> FilterState] /\ \A d \in Direction : Steady(d, filt[d])
    BY <1>1, <1>5, <2>1
  <2>3. backend \in [Key -> Data \cup {None}]
    BY <1>2
  <2>4. op \in Operation
    BY <1>2 DEF NoOp, Operation
  <2>5. through \in [flush : BOOLEAN, out : Data]
    BY <1>2, Nothing
  <2> QED
    BY <1>1, <1>2, <1>3, <1>4, <1>6, <2>2, <2>3, <2>4, <2>5, NoCallIs, Nothing
       DEF Types, StreamObject
<1>8. StoreControl /\ StreamControl /\ Pending
  BY <1>1, <1>2, <1>3, <1>5, <1>6 DEF StoreControl, StreamControl, Pending
<1>9. BackendInv
  BY <1>2 DEF BackendInv
<1>10. StoreInv
  BY <1>1, <1>5 DEF StoreInv, Rested
<1>11. StreamInv
  <2>1. Whole \in Data
    BY <1>3, <1>6, Nothing, ImageData DEF Whole
  <2>2. Len(Whole) \in Nat /\ SubSeq(Whole, 1, 0) = <<>> /\ Len(<<>>) = 0
    BY <2>1, DataLen, Ends, Nothing
  <2> QED
    BY <1>3, <1>6, <2>2 DEF StreamInv
<1> QED
  BY <1>7, <1>8, <1>9, <1>10, <1>11 DEF FilterInv

(* Every step keeps it, unless a pull overruns its caller's buffer. *)
LEMMA FilterInvNext ==
  ASSUME FilterInv, [Next]_vars, pc' # "overrun"
  PROVE  FilterInv'
<1>1. CASE client = "store" /\ StoreNext /\ UNCHANGED <<streamVars, client>>
  <2>1. ASSUME NEW k \in Key, NEW b \in Block, WriteBlock(k, b) PROVE FilterInv'
    BY <1>1, <2>1, WriteBlockKeeps
  <2>2. ASSUME NEW k \in Key, ReadBlock(k) PROVE FilterInv'
    BY <1>1, <2>2, ReadBlockKeeps
  <2>3. ASSUME NEW k \in Key, DeleteBlock(k) PROVE FilterInv'
    BY <1>1, <2>3, DeleteBlockKeeps
  <2>4. ASSUME NEW k \in Key, DamageBlock(k) PROVE FilterInv'
    BY <1>1, <2>4, DamageBlockKeeps
  <2>5. ASSUME NEW k \in Key, ReadBackendFails(k) PROVE FilterInv'
    BY <1>1, <2>5, ReadBackendFailsKeeps
  <2>6. CASE ThroughContinues
    BY <1>1, <2>6, ThroughContinuesKeeps
  <2>7. CASE ThroughEnds
    BY <1>1, <2>7, ThroughEndsKeeps
  <2>8. CASE ThroughFails
    BY <1>1, <2>8, ThroughFailsKeeps
  <2> QED
    BY <1>1, <2>1, <2>2, <2>3, <2>4, <2>5, <2>6, <2>7, <2>8 DEF StoreNext, StoreStep
<1>2. CASE client = "stream" /\ StreamNext /\ UNCHANGED <<storeVars, client>>
  <2>1. ASSUME NEW d \in Direction, NEW s \in Sources, StreamOpen(d, s) PROVE FilterInv'
    BY <1>2, <2>1, StreamOpenKeeps
  <2>2. ASSUME NEW n \in ReadSizes, StreamRead(n) PROVE FilterInv'
    BY <1>2, <2>2, StreamReadKeeps
  <2>3. CASE StreamFlushes
    BY <1>2, <2>3, StreamFlushesKeeps
  <2>4. CASE StreamReturns
    BY <1>2, <2>4, StreamReturnsKeeps
  <2>5. CASE StreamClose
    BY <1>2, <2>5, StreamCloseKeeps
  <2> QED
    BY <1>2, <2>1, <2>2, <2>3, <2>4, <2>5 DEF StreamNext, StreamStep
<1>3. CASE Pull /\ UNCHANGED <<storeVars, streamVars, client>>
  BY <1>3, PullKeeps DEF Clients
<1>4. CASE UNCHANGED vars
  <2>1. /\ lib' = lib /\ filt' = filt /\ call' = call /\ src' = src /\ handler' = handler
        /\ pc' = pc /\ backend' = backend /\ op' = op /\ through' = through
        /\ failed' = failed /\ source' = source /\ strm' = strm /\ given' = given
        /\ client' = client
    BY <1>4 DEF vars, filterVars, storeVars, streamVars
  <2>2. Before' = Before /\ Request' = Request /\ Whole' = Whole
    BY <2>1 DEF Before, Request, Whole
  <2>3. Types' /\ StoreControl' /\ BackendInv'
    BY <2>1, SteadySame DEF FilterInv, Types, StoreControl, BackendInv
  <2>4. StreamControl'
    BY <2>1 DEF FilterInv, StreamControl, Drained
  <2>5. Pending'
    BY <2>1, <2>2 DEF FilterInv, Pending, Fine, Steady, SizesFit, Short, Ample, Flushed, Drained,
       Clean
  <2>6. Broken(call, pc)' = Broken(call, pc) /\ Ended(call, pc)' = Ended(call, pc)
    BY <2>1 DEF Broken, Ended
  <2>7. Writing => Writing'
    BY <2>1, <2>2, <2>6 DEF Writing, Compresses
  <2>8. Reading => Reading'
    BY <2>1, <2>2, <2>6 DEF Reading, Decompresses, Restores, Dead
  <2>9. \A d \in Direction : Rested(d) => Rested(d)'
    BY <2>1 DEF Rested, Clean, Dead
  <2>10. StoreInv'
    BY <2>1, <2>7, <2>8, <2>9 DEF FilterInv, StoreInv
  <2>11. Streaming => Streaming'
    BY <2>1, <2>2, <2>6 DEF Streaming, Compresses, Decompresses, Restores
  <2>12. StreamInv'
    BY <2>1, <2>2, <2>6, <2>11 DEF FilterInv, StreamInv, Clean
  <2> QED
    BY <2>3, <2>4, <2>5, <2>10, <2>12 DEF FilterInv
<1> QED
  BY <1>1, <1>2, <1>3, <1>4 DEF Next

-----------------------------------------------------------------------------
(* What the invariant says of the properties. *)
LEMMA TypeFollows ==
  ASSUME FilterInv
  PROVE  TypeOK
<1>1. ASSUME NEW d \in Direction
      PROVE  /\ filt[d].avail \in 0..filt[d].isize
             /\ filt[d].next + filt[d].avail <= Len(filt[d].buf)
             /\ filt[d].z.mode \in {"run", "finish", "done", "bad"}
  <2>1. PICK f \in FilterState : f = filt[d] /\ Steady(d, f)
    BY FilterIs
  <2>2. f.avail \in Nat /\ f.isize \in Nat /\ f.z \in LibraryState
    BY DEF FilterState
  <2>3. f.z.mode \in {"run", "finish", "done", "bad"}
    BY <2>2 DEF LibraryState
  <2>4. f.avail <= f.isize /\ f.next + f.avail <= Len(f.buf)
    BY <2>1 DEF Steady
  <2>5. f.avail \in 0..f.isize
    BY <2>2, <2>4
  <2> QED
    BY <2>1, <2>3, <2>4, <2>5
<1>2. call.dir \in Direction /\ call.flush \in BOOLEAN /\ call.size \in 0..SizeMax
  BY CallFields DEF FilterInv, Types
<1>3. /\ lib \in Library /\ client \in {"store", "stream"}
      /\ pc \in {"idle", "pull", "pulled", "aborted", "stuck", "overrun"}
      /\ handler \in {"none", "buffer", "stream"}
  BY DEF FilterInv, Types
<1>4. /\ pc = "idle" => op = NoOp
      /\ pc = "idle" /\ client = "store" => handler = "none"
  BY <1>3 DEF FilterInv, StoreControl, StreamControl
<1> QED
  BY <1>1, <1>2, <1>3, <1>4 DEF TypeOK

(* Filters at rest are clean. *)
LEMMA NothingLeft ==
  ASSUME FilterInv
  PROVE  NothingLeftBehind
<1>1. client \in {"store", "stream"} /\ pc \in {"idle", "pull", "pulled"}
  BY DEF FilterInv, Types
<1>2. pc = "idle" /\ client = "store" /\ ~failed => \A d \in Direction : Clean(filt[d])
  BY DEF FilterInv, StoreInv, Rested
<1>3. strm.status = "end" => Clean(filt[strm.dir])
  <2>1. client = "store" => strm.status # "end"
    BY DEF FilterInv, StoreControl
  <2> QED
    BY <1>1, <2>1 DEF FilterInv, StreamInv
<1> QED
  BY <1>1, <1>2, <1>3 DEF NothingLeftBehind

(* What was delivered is the start of the whole. *)
LEMMA StreamFollows ==
  ASSUME FilterInv
  PROVE  StreamFaithful
BY DEF FilterInv, StreamInv, StreamFaithful, Whole

(* What was pulled fits. *)
LEMMA FitsRequest ==
  ASSUME FilterInv
  PROVE  WithinRequest
<1>1. pc # "overrun"
  BY DEF FilterInv, Types
<1>2. ASSUME pc = "pulled" PROVE Len(call.out) <= Request
  BY <1>2 DEF FilterInv, Pending, Fine, SizesFit
<1> QED
  BY <1>1, <1>2 DEF WithinRequest, Request

-----------------------------------------------------------------------------
(***************************************************************************)
(* The state in which a pull has overrun its caller's buffer: a reader of  *)
(* an LZO decompressing stream asked for less than two headers less two.   *)
(* Nothing follows it.                                                     *)
(***************************************************************************)
Overrun ==
    /\ pc = "overrun" /\ client = "stream" /\ lib = "lzo" /\ call.dir = "unzip"
    /\ ~call.flush /\ strm.want < 2 * HeaderSize - 2
    /\ TypeOK /\ NothingLeftBehind /\ StreamFaithful

(* A fault, a pull that goes on and one that returns overrun nothing. *)
LEMMA FaultsDoNot ==
  ASSUME pc = "pull"
  PROVE  /\ \A f, c : Continue(f, c) => pc' # "overrun"
         /\ \A f, c, e : PullReturns(f, c, e) => pc' # "overrun"
         /\ \A n, e : Fault(n, e) => pc' # "overrun"
         /\ \A f, c, e : AfterProcess(f, c, e) => pc' # "overrun"
<1>1. \A f, c : Continue(f, c) => pc' # "overrun"
  BY DEF Continue
<1>2. \A f, c, e : PullReturns(f, c, e) => pc' # "overrun"
  BY DEF PullReturns
<1>3. \A n, e : Fault(n, e) => pc' # "overrun"
  <2> TAKE n, e
  <2> HAVE Fault(n, e)
  <2>1. PICK r : IF r.err = "ok" THEN Continue(r.f, call)
                 ELSE PullReturns(r.f, call, IF r.err = "unhandled" THEN e ELSE r.err)
    BY Zenon DEF Fault
  <2> QED
    BY <1>1, <1>2, <2>1
<1>4. \A f, c, e : AfterProcess(f, c, e) => pc' # "overrun"
  BY <1>1, <1>2 DEF AfterProcess
<1> QED
  BY <1>1, <1>2, <1>3, <1>4

(* Only a delivery overruns. *)
LEMMA OnlyDeliveries ==
  ASSUME Pull, pc = "pull", pc' = "overrun"
  PROVE  LzoDelivers
<1>1. ~PullFilled
  BY FaultsDoNot DEF PullFilled
<1>2. ~ZipFaults /\ ~LzoZipFaults /\ ~LzoHeaderFault
  BY FaultsDoNot DEF ZipFaults, LzoZipFaults, LzoHeaderFault
<1>3. ~ZipProcess
  <2> SUFFICES ASSUME ZipProcess PROVE FALSE
    OBVIOUS
  <2>1. PICK f, c, e : AfterProcess(f, c, e)
    BY Zenon DEF ZipProcess
  <2> QED
    BY <2>1, FaultsDoNot
<1>4. ~LzoCompress /\ ~LzoUnzipFlushed
  BY FaultsDoNot DEF LzoCompress, LzoUnzipFlushed
<1>5. ~LzoDecompress
  <2> SUFFICES ASSUME LzoDecompress PROVE FALSE
    OBVIOUS
  <2>1. (\E f, c : Continue(f, c)) \/ (\E f, c, e : PullReturns(f, c, e))
    BY ZenonT(60) DEF LzoDecompress
  <2> QED
    BY <2>1, FaultsDoNot
<1> QED
  BY <1>1, <1>2, <1>3, <1>4, <1>5 DEF Pull

(* How the buffer of a caller is overrun. *)
LEMMA OverrunReached ==
  ASSUME FilterInv, Pull, Clients, pc' = "overrun"
  PROVE  Overrun'
<1>1. Ready
  BY PullIsReady
<1>2. LzoDelivers
  BY <1>1, OnlyDeliveries DEF Ready
<1>3. /\ Short(call) /\ lib' = lib /\ filt' = filt /\ call' = call /\ src' = src
      /\ handler' = handler
  BY <1>1, <1>2, DeliversOverrun
<1>4. /\ backend' = backend /\ op' = op /\ through' = through /\ failed' = failed
      /\ source' = source /\ strm' = strm /\ given' = given /\ client' = client
  BY <1>3, ClientsSame
<1>5. /\ lib = "lzo" /\ call.dir = "unzip" /\ ~call.flush /\ Request < 2 * HeaderSize - 2
  BY <1>3 DEF Short, Enough
<1>6. client = "stream"
  <2>1. OutputSize >= 2 * HeaderSize - 2 /\ OutputSize \in Nat /\ HeaderSize \in Nat
    BY FilteredStoreAssumption, HeaderCost, FilterAssumption
  <2>2. client \in {"store", "stream"}
    BY DEF FilterInv, Types
  <2> QED
    BY <1>5, <2>1, <2>2 DEF Request
<1>7. strm.want < 2 * HeaderSize - 2
  <2>1. strm.read = <<>>
    BY <1>1, <1>5, <1>6 DEF FilterInv, StreamControl, Ready
  <2>2. strm.want \in 0..SizeMax
    BY DEF FilterInv, Types
  <2>3. Request = strm.want - Len(<<>>)
    BY <1>6, <2>1 DEF Request
  <2> QED
    BY <1>5, <2>2, <2>3, HeaderCost, Nothing
<1>8. TypeOK'
  <2>1. TypeOK
    BY TypeFollows
  <2> QED
    BY <1>3, <1>4, <2>1 DEF TypeOK
<1>9. NothingLeftBehind'
  <2>1. NothingLeftBehind
    BY NothingLeft
  <2> QED
    BY <1>3, <1>4, <2>1 DEF NothingLeftBehind, Clean
<1>10. StreamFaithful'
  <2>1. StreamFaithful
    BY StreamFollows
  <2> QED
    BY <1>3, <1>4, <2>1 DEF StreamFaithful
<1> QED
  BY <1>3, <1>4, <1>5, <1>6, <1>7, <1>8, <1>9, <1>10 DEF Overrun

(* Nothing happens any more. *)
LEMMA OverrunStops ==
  ASSUME pc = "overrun", client = "stream", [Next]_vars
  PROVE  UNCHANGED vars
<1>1. ~StreamNext
  BY Zenon DEF StreamNext, StreamStep, StreamOpen, StreamRead, StreamFlushes, StreamReturns,
         StreamClose
<1>2. ~Pull
  BY DEF Pull, PullFilled, ZipFaults, ZipProcess, LzoDelivers, LzoZipFaults, LzoCompress,
         LzoUnzipFlushed, LzoHeaderFault, LzoDecompress, LzoZipping, LzoUnzipping, Wanting
<1> QED
  BY <1>1, <1>2 DEF Next

(* So the state stays as it is. *)
LEMMA OverrunNext ==
  ASSUME Overrun, UNCHANGED vars
  PROVE  Overrun'
<1>1. /\ lib' = lib /\ filt' = filt /\ call' = call /\ src' = src /\ handler' = handler
      /\ pc' = pc /\ op' = op /\ failed' = failed /\ source' = source /\ strm' = strm
      /\ given' = given /\ client' = client
  BY DEF vars, filterVars, storeVars, streamVars
<1>2. TypeOK' /\ NothingLeftBehind'
  BY <1>1 DEF Overrun, TypeOK, NothingLeftBehind, Clean
<1>3. StreamFaithful'
  BY <1>1 DEF Overrun, StreamFaithful
<1> QED
  BY <1>1, <1>2, <1>3 DEF Overrun

(* A step into it is a pull. *)
LEMMA OverrunByPull ==
  ASSUME FilterInv, [Next]_vars, pc' = "overrun"
  PROVE  Pull /\ Clients
<1>1. pc # "overrun" /\ UNCHANGED vars => pc' # "overrun"
  BY DEF vars, filterVars
<1>2. pc # "overrun"
  BY DEF FilterInv, Types
<1>3. ~StoreNext
  BY <1>2, Zenon DEF StoreNext, StoreStep, WriteBlock, ReadBlock, ReadBackendFails,
         DeleteBlock, DamageBlock, ThroughContinues, ThroughEnds, ThroughFails, Restored,
         FilterThrough, Start, filterVars
<1>4. ~StreamNext
  BY <1>2, Zenon DEF StreamNext, StreamStep, StreamOpen, StreamRead, StreamFlushes,
         StreamReturns, StreamClose, Start
<1> QED
  BY <1>1, <1>2, <1>3, <1>4 DEF Next, Clients

FiltersSafe == FilterInv \/ Overrun

(* The invariant, or the overrun, always. *)
LEMMA FiltersSafeAlways == Spec => []FiltersSafe
<1>1. Init => FiltersSafe
  BY FilterInvInit DEF FiltersSafe
<1>2. FiltersSafe /\ [Next]_vars => FiltersSafe'
  <2> SUFFICES ASSUME FiltersSafe, [Next]_vars PROVE FiltersSafe'
    OBVIOUS
  <2>1. CASE FilterInv /\ pc' # "overrun"
    BY <2>1, FilterInvNext DEF FiltersSafe
  <2>2. CASE FilterInv /\ pc' = "overrun"
    BY <2>2, OverrunByPull, OverrunReached DEF FiltersSafe
  <2>3. CASE Overrun
    <3>1. UNCHANGED vars
      BY <2>3, OverrunStops DEF Overrun
    <3> QED
      BY <2>3, <3>1, OverrunNext DEF FiltersSafe
  <2> QED
    BY <2>1, <2>2, <2>3 DEF FiltersSafe
<1> QED
  BY <1>1, <1>2, PTL DEF Spec

-----------------------------------------------------------------------------
(***************************************************************************)
(* The input a filter has still to read lies within its buffer, whatever   *)
(* is pushed and pulled, and no fault handler outlives the operation that  *)
(* installed it (filter-zip-push-pull.c, filter-lzo-*.c, filters.c).       *)
(***************************************************************************)
THEOREM FilterTypeCorrect == Spec => []TypeOK
<1>1. FiltersSafe => TypeOK
  BY TypeFollows DEF FiltersSafe, Overrun
<1> QED
  BY <1>1, FiltersSafeAlways, PTL

(***************************************************************************)
(* Between two operations of a filtered store of which none failed both    *)
(* filters are as good as new, and no push ever aborts or waits for ever:  *)
(* the flush of pull resets the library exactly when all was pulled.       *)
(***************************************************************************)
THEOREM NothingLeftBehindCorrect == Spec => []NothingLeftBehind
<1>1. FiltersSafe => NothingLeftBehind
  BY NothingLeft DEF FiltersSafe, Overrun
<1> QED
  BY <1>1, FiltersSafeAlways, PTL

(***************************************************************************)
(* pull writes past its caller's buffer only where filter-lzo-unzip.c:156  *)
(* subtracts a header from less: in a read of an LZO decompressing stream  *)
(* that asked for less than two headers less two, never in a filtered      *)
(* store, never when what is left is flushed, and never in any other       *)
(* filter.                                                                 *)
(***************************************************************************)
THEOREM WithinRequestCorrect == Spec => []WithinRequest
<1>1. FiltersSafe => WithinRequest
  <2>1. Overrun => WithinRequest
    BY DEF Overrun, WithinRequest
  <2> QED
    BY <2>1, FitsRequest DEF FiltersSafe
<1> QED
  BY <1>1, FiltersSafeAlways, PTL

(***************************************************************************)
(* A filtered stream delivers the image of its backend from the start, in  *)
(* order and without gaps, across the read that starts to flush, and it    *)
(* ends only when all was delivered (filtered_stream_read).                *)
(***************************************************************************)
THEOREM StreamFaithfulCorrect == Spec => []StreamFaithful
<1>1. FiltersSafe => StreamFaithful
  BY StreamFollows DEF FiltersSafe, Overrun
<1> QED
  BY <1>1, FiltersSafeAlways, PTL

-----------------------------------------------------------------------------
(* Different texts have different images. *)
LEMMA ImageInjective ==
  ASSUME NEW s \in Text, NEW t \in Text,
         Image(lib, s, InputSize) = Image(lib, t, InputSize)
  PROVE  s = t
<1>1. CASE lib = "lzo"
  <2>1. Lzo(s) = Lzo(t)
    BY <1>1, ImageIs
  <2> QED
    BY <2>1, LzoInjective
<1>2. CASE lib # "lzo"
  <2>1. Marked(s) = Marked(t)
    BY <1>2, ImageIs
  <2> QED
    BY <2>1, MarkedInjective
<1> QED
  BY <1>1, <1>2

(* Blocks are texts, and no block or image is None. *)
LEMMA BlockIs ==
  ASSUME NEW b \in Block
  PROVE  b \in Text /\ b # None /\ Image(lib, b, InputSize) # None
<1>1. b \in Text /\ None \notin Data
  BY FilteredStoreAssumption DEF Text, Data
<1>2. b \in Data /\ Image(lib, b, InputSize) \in Data
  BY <1>1, TextData, ImageData
<1> QED
  BY <1>1, <1>2

(* The image of a block decodes to it. *)
LEMMA DecodedIs ==
  ASSUME NEW b \in Block, NEW c, c = Image(lib, b, InputSize)
  PROVE  Decoded(c) = b
<1>1. \A a \in Block : c = Image(lib, a, InputSize) => a = b
  BY BlockIs, ImageInjective
<1> QED
  BY <1>1 DEF Decoded

(* Whatever is stored decodes to a block or to nothing. *)
LEMMA DecodedType ==
  ASSUME NEW c
  PROVE  Decoded(c) \in Block \cup {None}
BY DEF Decoded

(* Steps that leave the backend alone stutter. *)
LEMMA BlocksSame ==
  ASSUME lib' = lib, backend' = backend
  PROVE  Blocks' = Blocks /\ (op' = op /\ ret' = ret => UNCHANGED Abstract!vars)
BY DEF Blocks, Decoded, Abstract!vars

(* One block of the backend changes. *)
LEMMA BlocksNext ==
  ASSUME FilterInv, NEW k \in Key, NEW c, c \in Data \cup {None}, lib' = lib,
         backend' = [backend EXCEPT ![k] = c]
  PROVE  Blocks' = [Blocks EXCEPT ![k] = IF c = None THEN None ELSE Decoded(c)]
<1>1. backend \in [Key -> Data \cup {None}]
  BY DEF FilterInv, Types
<1>2. \A j \in Key : backend'[j] = IF j = k THEN c ELSE backend[j]
  BY <1>1
<1> DEFINE D(x) == IF \E b \in Block : x = Image(lib, b, InputSize)
                   THEN CHOOSE b \in Block : x = Image(lib, b, InputSize) ELSE None
<1>3. Blocks = [j \in Key |-> IF backend[j] = None THEN None ELSE D(backend[j])]
      /\ D(c) = Decoded(c)
  BY DEF Blocks, Decoded
<1>4. Blocks' = [j \in Key |-> IF backend'[j] = None THEN None ELSE D(backend'[j])]
  BY DEF Blocks, Decoded
<1> HIDE DEF D
<1> QED
  BY <1>2, <1>3, <1>4

(* A damaged image of a block is the image of none. *)
LEMMA DamagedNoImage ==
  ASSUME NEW b \in Block, lib # "lzo", NEW w, w = Marked(b), NEW c \in Damaged(w)
  PROVE  Decoded(c) = None /\ c \in Data
<1>1. b \in Text /\ IsMarked(w, b) /\ w \in Data /\ Len(w) \in Nat
  BY BlockIs, MarkedIs, DataLen DEF IsMarked
<1>2. Stems(w, w)
  BY DEF Stems
<1>3. c \in Data /\ Stems(c, w)
  BY <1>1, <1>2, DamagedStems
<1>4. \A i \in 1..Len(w) : w[i] # Noise
  <2> TAKE i \in 1..Len(w)
  <2>1. PICK n \in Nat : n = Len(b) /\ Len(w) = n + 1
    BY <1>1, MarkedIs DEF IsMarked
  <2>2. CASE i = n + 1
    BY <1>1, <2>1, <2>2, EndIs DEF IsMarked
  <2>3. CASE i # n + 1
    <3>1. i \in 1..n
      BY <2>1, <2>3
    <3>2. w[i] = Code(b[i]) /\ b[i] \in PlainUnit
      BY <1>1, <2>1, <3>1, TextData DEF IsMarked
    <3> QED
      BY <3>2, CodeIs
  <2> QED
    BY <2>2, <2>3
<1>5. c # w
  <2>1. ASSUME NEW n \in 0..(Len(w) - 1), c = SubSeq(w, 1, n) PROVE c # w
    <3>1. n \in Nat /\ n <= Len(w) /\ n # Len(w)
      BY <1>1
    <3>2. Len(c) = n
      BY <1>1, <2>1, <3>1, Head1
    <3> QED
      BY <3>1, <3>2
  <2>2. ASSUME NEW i \in 1..Len(w), c = [w EXCEPT ![i] = Noise] PROVE c # w
    <3>1. c[i] = Noise
      BY <1>1, <2>2 DEF Data
    <3> QED
      BY <1>4, <3>1
  <2>3. ASSUME c = Append(w, Noise) PROVE c # w
    <3>1. Len(c) = Len(w) + 1
      BY <1>1, <2>3, NoiseIs, AppendProperties DEF Data
    <3> QED
      BY <1>1, <3>1
  <2> QED
    BY <2>1, <2>2, <2>3 DEF Damaged
<1>6. ASSUME NEW a \in Block, c = Image(lib, a, InputSize) PROVE FALSE
  <2>1. a \in Text /\ c = Marked(a)
    BY <1>6, BlockIs, ImageIs
  <2>2. IsMarked(c, a)
    BY <2>1, MarkedIs
  <2>3. a = b
    BY <1>1, <1>3, <2>1, <2>2, WholeStem
  <2> QED
    BY <1>5, <2>1, <2>3
<1> QED
  BY <1>3, <1>6 DEF Decoded

(* The operations of the filtered store as a block store sees them. *)
LEMMA OpsAre ==
  /\ Abstract!NoOp = NoOp
  /\ \A k, b : Abstract!Writing(k, b) = [name |-> "write", key |-> k, block |-> b]
  /\ \A k : Abstract!Reading(k) = [name |-> "read", key |-> k, block |-> None]
BY DEF Abstract!NoOp, Abstract!Writing, Abstract!Reading, NoOp

(* Every step of the filtered store is one of a block store. *)
LEMMA StoreStepAbstract ==
  ASSUME FilterInv, client = "store", StoreNext
  PROVE  [Abstract!Next]_(Abstract!vars)
<1>1. pc = "idle" => op = NoOp
  BY DEF FilterInv, StoreControl
<1>2. ASSUME NEW k \in Key, NEW b \in Block, WriteBlock(k, b)
      PROVE  Abstract!Next
  <2>1. /\ pc = "idle" /\ op' = [name |-> "write", key |-> k, block |-> b]
        /\ lib' = lib /\ backend' = backend /\ ret' = ret
    BY <1>2 DEF WriteBlock
  <2>2. Blocks' = Blocks
    BY <2>1, BlocksSame
  <2>3. Abstract!Begins(Abstract!Writing(k, b))
    BY <1>1, <2>1, <2>2, OpsAre DEF Abstract!Begins
  <2> QED
    BY <2>3 DEF Abstract!Next
<1>3. ASSUME NEW k \in Key, ReadBlock(k)
      PROVE  Abstract!Next
  <2>1. /\ pc = "idle" /\ op' = [name |-> "read", key |-> k, block |-> None]
        /\ lib' = lib /\ backend' = backend /\ ret' = ret
    BY <1>3 DEF ReadBlock
  <2>2. Blocks' = Blocks
    BY <2>1, BlocksSame
  <2>3. Abstract!Begins(Abstract!Reading(k))
    BY <1>1, <2>1, <2>2, OpsAre DEF Abstract!Begins
  <2> QED
    BY <2>3 DEF Abstract!Next
<1>4. ASSUME NEW k \in Key, ReadBackendFails(k)
      PROVE  Abstract!Next
  <2>1. /\ pc = "idle" /\ op' = op /\ lib' = lib /\ backend' = backend
        /\ ret' = [op |-> [name |-> "read", key |-> k, block |-> None], ok |-> FALSE]
    BY <1>4 DEF ReadBackendFails, filterVars
  <2>2. Blocks' = Blocks
    BY <2>1, BlocksSame
  <2>3. Abstract!Refuses(k)
    BY <1>1, <2>1, <2>2, OpsAre DEF Abstract!Refuses, Abstract!Returns
  <2> QED
    BY <2>3 DEF Abstract!Next
<1>5. ASSUME NEW k \in Key, DeleteBlock(k)
      PROVE  Abstract!Next
  <2>1. /\ pc = "idle" /\ backend' = [backend EXCEPT ![k] = None] /\ lib' = lib
        /\ ret' = ret /\ op' = op
    BY <1>5 DEF DeleteBlock, filterVars
  <2>2. Blocks' = [Blocks EXCEPT ![k] = None]
    BY <2>1, BlocksNext
  <2>3. Abstract!Remove(k)
    BY <1>1, <2>1, <2>2, OpsAre DEF Abstract!Remove
  <2> QED
    BY <2>3 DEF Abstract!Next
<1>6. ASSUME NEW k \in Key, DamageBlock(k)
      PROVE  Abstract!Next
  <2>1. PICK c \in Damaged(backend[k]) : backend' = [backend EXCEPT ![k] = c]
    BY <1>6 DEF DamageBlock
  <2>2. /\ pc = "idle" /\ lib' = lib /\ ret' = ret /\ op' = op /\ Blocks[k] # None
        /\ lib # "lzo"
    BY <1>6, FilteredStoreAssumption DEF DamageBlock, filterVars, Stream
  <2>3. PICK b \in Block : backend[k] = Marked(b)
    <3>1. Decoded(backend[k]) # None
      BY <2>2 DEF Blocks
    <3>2. PICK b \in Block : backend[k] = Image(lib, b, InputSize)
      BY <3>1 DEF Decoded
    <3> QED
      BY <2>2, <3>2, ImageIs
  <2>4. Decoded(c) = None /\ c \in Data
    BY <2>1, <2>2, <2>3, DamagedNoImage
  <2>5. Blocks' = [Blocks EXCEPT ![k] = None]
    BY <2>1, <2>2, <2>4, BlocksNext
  <2>6. Abstract!Remove(k)
    BY <1>1, <2>2, <2>5, OpsAre DEF Abstract!Remove
  <2> QED
    BY <2>6 DEF Abstract!Next
<1>7. CASE ThroughContinues
  BY <1>7, BlocksSame DEF ThroughContinues
<1>8. CASE ThroughFails
  <2>1. /\ op # NoOp /\ op' = NoOp /\ lib' = lib /\ backend' = backend
        /\ ret' = [op |-> op, ok |-> FALSE]
    BY <1>8 DEF ThroughFails, Restored
  <2>2. Abstract!Fails
    BY <2>1, BlocksSame, OpsAre DEF Abstract!Fails, Abstract!Returns
  <2> QED
    BY <2>2 DEF Abstract!Next
<1>9. CASE ThroughEnds
  <2>1. PICK fails \in BOOLEAN :
          /\ fails => op.name = "write"
          /\ backend' = IF op.name = "write" /\ ~fails
                        THEN [backend EXCEPT ![op.key] = through.out] ELSE backend
          /\ ret' = [op |-> Completed, ok |-> ~fails]
    BY <1>9 DEF ThroughEnds
  <2>2. /\ pc = "pulled" /\ call.err = "empty" /\ through.flush /\ lib' = lib
        /\ op # NoOp /\ op' = NoOp
    BY <1>9 DEF ThroughEnds, Restored
  <2>3. op.key \in Key /\ through.out \in Data /\ op.name \in {"read", "write"}
    BY <2>2, PulledIs
  <2>4. CASE op.name = "write" /\ ~fails
    <3>1. /\ backend' = [backend EXCEPT ![op.key] = through.out]
          /\ ret' = [op |-> op, ok |-> TRUE]
      BY <2>1, <2>4 DEF Completed
    <3>2. op.block \in Block /\ through.out = Image(lib, op.block, InputSize)
      BY <2>2, <2>4, WrittenIs
    <3>3. Decoded(through.out) = op.block /\ through.out # None
      BY <3>2, DecodedIs, BlockIs
    <3>4. Blocks' = [Blocks EXCEPT ![op.key] = op.block]
      BY <2>2, <2>3, <3>1, <3>3, BlocksNext
    <3>5. Abstract!Write
      BY <2>2, <2>4, <3>1, <3>4, OpsAre DEF Abstract!Write, Abstract!Returns
    <3> QED
      BY <3>5 DEF Abstract!Next
  <2>5. CASE op.name = "write" /\ fails
    <3>1. backend' = backend /\ ret' = [op |-> op, ok |-> FALSE]
      BY <2>1, <2>5 DEF Completed
    <3>2. Abstract!Fails
      BY <2>2, <3>1, BlocksSame, OpsAre DEF Abstract!Fails, Abstract!Returns
    <3> QED
      BY <3>2 DEF Abstract!Next
  <2>6. CASE op.name = "read"
    <3>1. /\ backend' = backend
          /\ ret' = [op |-> [op EXCEPT !.block = through.out], ok |-> TRUE]
      BY <2>1, <2>6 DEF Completed
    <3>2. through.out \in Block /\ backend[op.key] = Image(lib, through.out, InputSize)
      BY <2>2, <2>6, ReadIs
    <3>3. Decoded(backend[op.key]) = through.out /\ through.out # None
          /\ backend[op.key] # None
      BY <3>2, DecodedIs, BlockIs
    <3>4. Blocks[op.key] = through.out
      BY <2>3, <3>3 DEF Blocks
    <3>5. Blocks' = Blocks
      BY <2>2, <3>1, BlocksSame
    <3>6. Abstract!Read
      BY <2>2, <2>6, <3>1, <3>3, <3>4, <3>5, OpsAre DEF Abstract!Read, Abstract!Returns
    <3> QED
      BY <3>6 DEF Abstract!Next
  <2> QED
    BY <2>3, <2>4, <2>5, <2>6
<1> QED
  BY <1>2, <1>3, <1>4, <1>5, <1>6, <1>7, <1>8, <1>9 DEF StoreNext, StoreStep

(* So is every step of the filters and their clients. *)
LEMMA StepAbstract ==
  ASSUME FiltersSafe, [Next]_vars
  PROVE  [Abstract!Next]_(Abstract!vars)
<1>1. CASE FilterInv /\ client = "store" /\ StoreNext /\ UNCHANGED <<streamVars, client>>
  BY <1>1, StoreStepAbstract
<1>2. CASE client = "stream" /\ StreamNext /\ UNCHANGED <<storeVars, client>>
  <2>1. lib' = lib
    BY <1>2, ZenonT(60) DEF StreamNext, StreamStep, StreamOpen, StreamRead, StreamFlushes,
                StreamReturns, StreamClose
  <2> QED
    BY <1>2, <2>1, BlocksSame, StoreSame, SMTT(30)
<1>3. CASE Pull /\ UNCHANGED <<storeVars, streamVars, client>>
  <2>1. lib' = lib
    BY <1>3 DEF Pull, PullFilled, ZipFaults, ZipProcess, LzoDelivers, LzoZipFaults,
                LzoCompress, LzoUnzipFlushed, LzoHeaderFault, LzoDecompress
  <2> QED
    BY <1>3, <2>1, BlocksSame, StoreSame, SMTT(30)
<1>4. CASE UNCHANGED vars
  BY <1>4, BlocksSame DEF vars, filterVars, storeVars
<1>5. CASE Overrun
  <2>1. UNCHANGED vars
    BY <1>5, OverrunStops DEF Overrun
  <2> QED
    BY <1>4, <2>1
<1> QED
  BY <1>1, <1>2, <1>3, <1>4, <1>5 DEF Next, FiltersSafe

(***************************************************************************)
(* The filtered store implements a block store, for every library, every   *)
(* sequence of operations and failures, and damage to zlib and bzip2       *)
(* blocks: a write that returns 0 stored the block it was given, one that  *)
(* fails stored nothing, and a read that returns 0 returned the block      *)
(* under the key (store-filtered.c).                                       *)
(***************************************************************************)
THEOREM FilteredStoreIsBlockStore == Spec => IsBlockStore
<1>1. Init => Abstract!Init
  <2> SUFFICES ASSUME Init PROVE Abstract!Init
    OBVIOUS
  <2>1. backend = [k \in Key |-> None] /\ op = NoOp /\ ret = [op |-> NoOp, ok |-> TRUE]
    BY DEF Init, StoreInit
  <2> QED
    BY <2>1, OpsAre DEF Abstract!Init, Blocks
<1>2. FiltersSafe /\ [Next]_vars => [Abstract!Next]_(Abstract!vars)
  BY StepAbstract
<1> QED
  BY <1>1, <1>2, FiltersSafeAlways, PTL DEF Spec, IsBlockStore, Abstract!Spec
=============================================================================
