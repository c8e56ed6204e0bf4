---------------------------- MODULE FramingProofs ----------------------------
(***************************************************************************)
(* Theorems about Framing, for any payloads and any number of frames.      *)
(***************************************************************************)
EXTENDS Framing, SequenceTheorems, TLAPS

-----------------------------------------------------------------------------
(* Division, and the four digits of a length. *)
LEMMA DivMod ==
  ASSUME NEW v \in Nat, NEW a \in Nat \ {0}
  PROVE  /\ v \div a \in Nat /\ v % a \in 0 .. a - 1 /\ v = a * (v \div a) + (v % a)
  OBVIOUS

LEMMA DivUnique ==
  ASSUME NEW v \in Nat, NEW a \in Nat \ {0}, NEW q \in Nat, NEW r \in 0 .. a - 1, v = a * q + r
  PROVE  v \div a = q /\ v % a = r
  <1> DEFINE p == v \div a
             s == v % a
  <1>1. p \in Nat /\ s \in 0 .. a - 1 /\ v = a * p + s
    BY DivMod
  <1> HIDE DEF p, s
  <1>2. CASE p > q
    <2>1. a * (p - q) >= a /\ a * (p - q) = r - s
      BY <1>1, <1>2
    <2>2. QED
      BY <2>1, <1>1
  <1>3. CASE p < q
    <2>1. a * (q - p) >= a /\ a * (q - p) = s - r
      BY <1>1, <1>3
    <2>2. QED
      BY <2>1, <1>1
  <1>4. p = q
    BY <1>1, <1>2, <1>3
  <1>5. s = r
    BY <1>1, <1>4
  <1>6. QED
    BY <1>4, <1>5 DEF p, s

LEMMA DivDiv ==
  ASSUME NEW v \in Nat, NEW a \in Nat \ {0}, NEW b \in Nat \ {0}
  PROVE  v \div (a * b) = (v \div a) \div b
  <1> DEFINE p == v \div a
             s == v % a
             q == p \div b
             r == p % b
             ab == a * b
             ar == a * r
  <1>1. p \in Nat /\ s \in 0 .. a - 1 /\ v = a * p + s
    BY DivMod
  <1>2. q \in Nat /\ r \in 0 .. b - 1 /\ p = b * q + r
    BY DivMod, <1>1
  <1> HIDE DEF p, s, q, r
  <1>3. ab \in Nat \ {0} /\ v = ab * q + (ar + s)
    BY <1>1, <1>2
  <1>4. ar + s \in 0 .. ab - 1
    <2> DEFINE ar1 == a * (r + 1)
    <2>1. ar1 <= ab /\ ar1 \in Int
      BY <1>2
    <2>2. ar + s < ar1 /\ ar >= 0 /\ ar \in Int
      BY <1>1, <1>2
    <2> HIDE DEF ar, ar1, ab
    <2>3. QED
      BY <2>1, <2>2, <1>1, <1>3
  <1>5. v \div ab = q
    BY <1>3, <1>4, <1>2, DivUnique
  <1>6. QED
    BY <1>5 DEF p, q

LEMMA BaseType ==
  /\ Base \in Nat \ {0} /\ Base * Base \in Nat \ {0} /\ Base * Base * Base \in Nat \ {0}
  /\ Span \in Nat /\ Span > 4
  <1> DEFINE B2 == Base * Base
  <1>1. Base \in Nat /\ Base >= 2
    BY FramingAssumption
  <1>2. B2 \in Nat /\ B2 >= 4
    BY <1>1
  <1>3. B2 * Base \in Nat /\ B2 * Base >= 8
    BY <1>1, <1>2
  <1>4. (B2 * Base) * Base \in Nat /\ (B2 * Base) * Base >= 16
    BY <1>1, <1>3
  <1>5. QED
    BY <1>1, <1>2, <1>3, <1>4 DEF Span

(* A header is four bytes, and they stand for the length they were made from. *)
LEMMA PutType ==
  ASSUME NEW v \in Nat
  PROVE  PutUint(v) \in Seq(Bytes) /\ Len(PutUint(v)) = HeaderLen
  <1>1. \A a \in Nat \ {0} : (v \div a) % Base \in Bytes
    BY DivMod, BaseType DEF Bytes
  <1>2. v % Base \in Bytes
    BY DivMod, BaseType DEF Bytes
  <1>3. QED
    BY <1>1, <1>2, BaseType DEF PutUint, HeaderLen

LEMMA UintPut ==
  ASSUME NEW v \in 0 .. Span - 1
  PROVE  Uint(PutUint(v)) = v
  <1> DEFINE q1 == v \div Base
             q2 == q1 \div Base
             q3 == q2 \div Base
             d1 == v % Base
             d2 == q1 % Base
             d3 == q2 % Base
  <1>1. v \in Nat /\ q1 \in Nat /\ q2 \in Nat /\ q3 \in Nat
    BY BaseType, DivMod
  <1>2. v = Base * q1 + d1 /\ q1 = Base * q2 + d2 /\ q2 = Base * q3 + d3
    BY BaseType, DivMod, <1>1
  <1>3. d1 \in 0 .. Base - 1 /\ d2 \in 0 .. Base - 1 /\ d3 \in 0 .. Base - 1
    BY BaseType, DivMod, <1>1
  <1>4. v \div (Base * Base) = q2
    <2>1. Base \in Nat \ {0} /\ v \in Nat
      BY BaseType, <1>1
    <2>2. QED
      BY DivDiv, <2>1
  <1>5. v \div (Base * Base * Base) = q3
    <2>1. PICK a \in Nat \ {0} : a = Base * Base
      BY BaseType
    <2>2. Base \in Nat \ {0} /\ v \in Nat
      BY BaseType, <1>1
    <2>3. v \div (a * Base) = (v \div a) \div Base
      BY DivDiv, <2>2
    <2>4. QED
      BY <2>1, <2>3, <1>4
  <1>6. PutUint(v) = <<q3 % Base, d3, d2, d1>>
    BY <1>4, <1>5 DEF PutUint
  <1> HIDE DEF q1, q2, q3, d1, d2, d3
  <1>7. q3 < Base
    <2> DEFINE B3 == Base * Base * Base
    <2>1. v >= B3 * q3
      <3>1. q1 >= Base * q2 /\ q2 >= Base * q3 /\ v >= Base * q1
        BY <1>1, <1>2, <1>3, BaseType
      <3>2. Base * q2 >= Base * (Base * q3)
        BY <3>1, <1>1, BaseType
      <3>3. Base * q1 >= Base * (Base * (Base * q3))
        BY <3>1, <3>2, <1>1, BaseType
      <3>4. Base * (Base * (Base * q3)) = B3 * q3
        BY <1>1, BaseType
      <3>5. QED
        BY <3>1, <3>3, <3>4, <1>1, BaseType
    <2>2. v < B3 * Base
      BY BaseType DEF Span
    <2>3. B3 \in Nat \ {0}
      BY BaseType
    <2> HIDE DEF B3
    <2>4. ASSUME q3 >= Base PROVE FALSE
      <3>1. B3 * q3 >= B3 * Base
        BY <2>3, <2>4, <1>1, BaseType
      <3>2. QED
        BY <2>1, <2>2, <2>3, <3>1, <1>1, BaseType
    <2>5. QED
      BY <2>4, <1>1, BaseType
  <1>8. q3 % Base = q3
    <2>1. q3 = Base * 0 + q3 /\ q3 \in 0 .. Base - 1
      BY <1>7, <1>1, BaseType
    <2>2. q3 \div Base = 0
      BY <2>1, DivUnique, BaseType, <1>1
    <2>3. q3 = Base * (q3 \div Base) + (q3 % Base) /\ q3 % Base \in Int
      BY DivMod, <1>1, BaseType
    <2>4. QED
      BY <2>2, <2>3, BaseType, <1>1
  <1>9. Uint(PutUint(v)) = ((q3 * Base + d3) * Base + d2) * Base + d1
    BY <1>6, <1>8 DEF Uint
  <1>10. q3 * Base + d3 = q2 /\ q2 * Base + d2 = q1 /\ q1 * Base + d1 = v
    BY <1>1, <1>2, <1>3, BaseType
  <1>11. QED
    BY <1>9, <1>10

LEMMA HeaderBytes ==
  ASSUME NEW h \in Seq(Bytes), Len(h) = HeaderLen
  PROVE  h[1] \in Bytes /\ h[2] \in Bytes /\ h[3] \in Bytes /\ h[4] \in Bytes
  <1>1. \A i \in 1 .. Len(h) : h[i] \in Bytes
    BY ElementOfSeq
  <1>2. Len(h) = 4
    BY DEF HeaderLen
  <1> HIDE DEF Bytes
  <1>3. \A i \in 1 .. 4 : h[i] \in Bytes
    BY <1>1, <1>2
  <1>4. QED
    BY <1>3

LEMMA UintType ==
  ASSUME NEW h \in Seq(Bytes), Len(h) = HeaderLen
  PROVE  Uint(h) \in 0 .. Span - 1
  <1>1. h[1] \in Bytes /\ h[2] \in Bytes /\ h[3] \in Bytes /\ h[4] \in Bytes
    BY HeaderBytes
  <1>2. Base \in Nat \ {0}
    BY BaseType
  <1>3. ASSUME NEW x \in Nat, NEW m \in Nat \ {0}, x <= m - 1, NEW d \in Bytes
        PROVE  x * Base + d \in Nat /\ x * Base + d <= m * Base - 1 /\ m * Base \in Nat \ {0}
    <2>1. d \in Nat /\ d <= Base - 1
      BY <1>2 DEF Bytes
    <2>2. (x + 1) * Base <= m * Base /\ (x + 1) * Base = x * Base + Base
      BY <1>2, <1>3
    <2>3. x * Base \in Nat /\ m * Base \in Nat \ {0}
      BY <1>2
    <2> DEFINE xb == x * Base
               mb == m * Base
               xb1 == (x + 1) * Base
    <2>4. xb \in Nat /\ mb \in Nat \ {0} /\ xb1 <= mb /\ xb1 = xb + Base
      BY <2>2, <2>3
    <2> HIDE DEF xb, mb, xb1
    <2>5. xb + d \in Nat /\ xb + d <= mb - 1
      BY <2>1, <2>4, <1>2
    <2>6. QED
      BY <2>4, <2>5 DEF xb, mb
  <1>4. h[1] \in Nat /\ h[1] <= Base - 1
    BY <1>1, <1>2 DEF Bytes
  <1> DEFINE x2 == h[1] * Base + h[2]
             x3 == x2 * Base + h[3]
             x4 == x3 * Base + h[4]
  <1>5. x2 \in Nat /\ x2 <= Base * Base - 1 /\ Base * Base \in Nat \ {0}
    BY <1>1, <1>2, <1>3, <1>4
  <1> HIDE DEF x2
  <1>6. x3 \in Nat /\ x3 <= Base * Base * Base - 1 /\ Base * Base * Base \in Nat \ {0}
    BY <1>1, <1>2, <1>3, <1>5
  <1> HIDE DEF x3
  <1>7. x4 \in Nat /\ x4 <= Span - 1 /\ Span \in Nat
    BY <1>1, <1>2, <1>3, <1>6 DEF Span
  <1>8. Uint(h) = x4
    BY DEF Uint, x2, x3
  <1>9. QED
    BY <1>7, <1>8

(* Two headers with the same bytes carry the same length. *)
LEMMA SameHeader ==
  ASSUME NEW v \in 0 .. Span - 1, NEW h, \A i \in 1 .. HeaderLen : h[i] = PutUint(v)[i]
  PROVE  Uint(h) = v
  <1>1. h[1] = PutUint(v)[1] /\ h[2] = PutUint(v)[2] /\ h[3] = PutUint(v)[3]
          /\ h[4] = PutUint(v)[4]
    BY DEF HeaderLen
  <1>2. Uint(h) = Uint(PutUint(v))
    BY <1>1 DEF Uint
  <1>3. QED
    BY <1>2, UintPut

(* The header that was read is the one that stands for its length. *)
LEMMA PutOfUint ==
  ASSUME NEW h \in Seq(Bytes), Len(h) = HeaderLen
  PROVE  PutUint(Uint(h)) = h
  <1> DEFINE a == h[1]
             b == h[2]
             c == h[3]
             d == h[4]
             x2 == a * Base + b
             x3 == x2 * Base + c
             x4 == x3 * Base + d
  <1>1. a \in 0 .. Base - 1 /\ b \in 0 .. Base - 1 /\ c \in 0 .. Base - 1 /\ d \in 0 .. Base - 1
    BY HeaderBytes DEF Bytes
  <1>2. Base \in Nat \ {0} /\ Base * Base \in Nat \ {0}
    BY BaseType
  <1>3. h = <<a, b, c, d>>
    <2>1. <<a, b, c, d>> \in Seq(Bytes) /\ Len(<<a, b, c, d>>) = 4
      BY <1>1 DEF Bytes
    <2>2. ASSUME NEW i \in 1 .. 4 PROVE h[i] = <<a, b, c, d>>[i]
      <3>1. i = 1 \/ i = 2 \/ i = 3 \/ i = 4
        OBVIOUS
      <3>2. QED
        BY <3>1
    <2>3. QED
      BY <2>1, <2>2, SeqEqual DEF HeaderLen
  <1>4. Uint(h) = x4
    BY DEF Uint
  <1> HIDE DEF a, b, c, d
  <1>5. x2 \in Nat
    BY <1>1, <1>2
  <1>6. x2 \div Base = a /\ x2 % Base = b
    BY <1>1, <1>2, <1>5, DivUnique
  <1> HIDE DEF x2
  <1>7. x3 \in Nat
    BY <1>1, <1>2, <1>5
  <1>8. x3 \div Base = x2 /\ x3 % Base = c
    BY <1>1, <1>2, <1>5, <1>7, DivUnique
  <1> HIDE DEF x3
  <1>9. x4 \in Nat
    BY <1>1, <1>2, <1>7
  <1>10. x4 \div Base = x3 /\ x4 % Base = d
    BY <1>1, <1>2, <1>7, <1>9, DivUnique
  <1> HIDE DEF x4
  <1>11. x4 \div (Base * Base) = x2
    BY <1>2, <1>8, <1>9, <1>10, DivDiv
  <1>12. x4 \div (Base * Base * Base) = a
    BY <1>2, <1>6, <1>9, <1>11, DivDiv
  <1>13. a % Base = a
    <2>1. a = Base * 0 + a
      BY <1>1, <1>2
    <2>2. QED
      BY <2>1, <1>1, <1>2, DivUnique
  <1>14. QED
    BY <1>3, <1>4, <1>6, <1>8, <1>10, <1>11, <1>12, <1>13 DEF PutUint
-----------------------------------------------------------------------------
(* Sequences of bytes. *)
LEMMA Joined ==
  ASSUME NEW S, NEW s \in Seq(S), NEW t \in Seq(S)
  PROVE  /\ s \o t \in Seq(S) /\ Len(s \o t) = Len(s) + Len(t)
         /\ Len(s) \in Nat /\ Len(t) \in Nat
         /\ \A i \in 1 .. Len(s) : (s \o t)[i] = s[i]
         /\ \A i \in 1 .. Len(t) : (s \o t)[Len(s) + i] = t[i]
  <1>1. Len(s) \in Nat /\ Len(t) \in Nat
    BY LenProperties
  <1>2. /\ s \o t \in Seq(S) /\ Len(s \o t) = Len(s) + Len(t)
        /\ \A i \in 1 .. Len(s) + Len(t) :
             (s \o t)[i] = IF i <= Len(s) THEN s[i] ELSE t[i - Len(s)]
    BY ConcatProperties
  <1>3. \A i \in 1 .. Len(s) : (s \o t)[i] = s[i]
    BY <1>1, <1>2
  <1>4. ASSUME NEW i \in 1 .. Len(t) PROVE (s \o t)[Len(s) + i] = t[i]
    <2>1. Len(s) + i \in 1 .. Len(s) + Len(t) /\ ~(Len(s) + i <= Len(s))
            /\ (Len(s) + i) - Len(s) = i
      BY <1>1
    <2>2. QED
      BY <1>2, <2>1
  <1>5. QED
    BY <1>1, <1>2, <1>3, <1>4

(* Arithmetic that the frames need. *)
LEMMA Uncounted ==
  ASSUME NEW n \in Nat, NEW l \in Nat, NEW e \in Nat, n + 4 = l + 4 + e
  PROVE  n = l + e
  OBVIOUS

LEMMA FallsShort ==
  ASSUME NEW at \in Nat, NEW l \in Nat, NEW e \in Nat \ {0}
  PROVE  at + l < at + (l + e)
  OBVIOUS

LEMMA Moved ==
  ASSUME NEW at \in Nat, NEW x \in Nat, NEW l \in Nat
  PROVE  at + (x + l) = (at + x) + l
  OBVIOUS

(* Joining byte sequences is associative. *)
LEMMA Regrouped ==
  ASSUME NEW a \in Seq(Bytes), NEW b \in Seq(Bytes), NEW c \in Seq(Bytes)
  PROVE  (a \o b) \o c = a \o (b \o c)
  BY ConcatAssociative

(* Cutting a stream and joining it again. *)
LEMMA CutAndJoin ==
  ASSUME NEW x \in Seq(Bytes), NEW s \in Seq(Bytes), NEW n \in 1 .. Len(s)
  PROVE  /\ SubSeq(s, 1, n) \in Seq(Bytes) /\ SubSeq(s, n + 1, Len(s)) \in Seq(Bytes)
         /\ Len(SubSeq(s, 1, n)) = n
         /\ (x \o SubSeq(s, 1, n)) \o SubSeq(s, n + 1, Len(s)) = x \o s
  <1>1. Len(s) \in Nat /\ \A i \in 1 .. Len(s) : s[i] \in Bytes
    BY LenProperties, ElementOfSeq
  <1>2. SubSeq(s, 1, n) \in Seq(Bytes) /\ Len(SubSeq(s, 1, n)) = n
    <2>1. \A i \in 1 .. n : s[i] \in Bytes
      BY <1>1
    <2>2. QED
      BY <1>1, <2>1, SubSeqProperties
  <1>3. SubSeq(s, n + 1, Len(s)) \in Seq(Bytes)
    <2>1. \A i \in n + 1 .. Len(s) : s[i] \in Bytes
      BY <1>1
    <2>2. QED
      BY <1>1, <2>1, SubSeqProperties
  <1>4. SubSeq(s, 1, n) \o SubSeq(s, n + 1, Len(s)) = s
    <2>1. SubSeq(s, 1, n) \o SubSeq(s, n + 1, Len(s)) = SubSeq(s, 1, Len(s))
      <3>1. 1 \in 1 .. Len(s) + 1 /\ n \in 1 - 1 .. Len(s) /\ Len(s) \in n .. Len(s)
        BY <1>1
      <3>2. QED
        BY <3>1, ConcatAdjacentSubSeq
    <2>2. QED
      BY <2>1, SubSeqFull
  <1>5. (x \o SubSeq(s, 1, n)) \o SubSeq(s, n + 1, Len(s))
          = x \o (SubSeq(s, 1, n) \o SubSeq(s, n + 1, Len(s)))
    <2>1. \A t, r \in Seq(Bytes) : (x \o t) \o r = x \o (t \o r)
      BY Regrouped
    <2>2. QED
      BY <1>2, <1>3, <2>1
  <1>6. QED
    BY <1>2, <1>3, <1>4, <1>5

LEMMA PrefixFacts ==
  ASSUME NEW S, NEW s \in Seq(S), NEW t \in Prefixes(s)
  PROVE  t \in Seq(S) /\ Len(t) \in Nat /\ Len(t) <= Len(s) /\ \A i \in 1 .. Len(t) : t[i] = s[i]
  <1>1. PICK l \in 0 .. Len(s) : t = SubSeq(s, 1, l)
    BY DEF Prefixes
  <1>2. Len(s) \in Nat /\ \A i \in 1 .. Len(s) : s[i] \in S
    BY LenProperties, ElementOfSeq
  <1>3. /\ t \in Seq(S) /\ Len(t) = IF 1 <= l THEN l - 1 + 1 ELSE 0
        /\ \A i \in 1 .. l - 1 + 1 : t[i] = s[1 + i - 1]
    <2>1. \A i \in 1 .. l : s[i] \in S
      BY <1>2
    <2>2. QED
      BY <1>1, <1>2, <2>1, SubSeqProperties
  <1>4. QED
    BY <1>2, <1>3

-----------------------------------------------------------------------------
(***************************************************************************)
(* What was ever written.  Some flow w of bytes is what the writer has     *)
(* put on the connection.  Its first m frames are cut at c[0], c[1], ...,  *)
(* c[m], and carry the first m outcomes owed to the reader.  After them    *)
(* comes nothing, a header whose payload is still owed, a header that      *)
(* claims too much before the connection ended, or a header that no RRI    *)
(* reader goes beyond.                                                     *)
(***************************************************************************)
Extra(pr) == IF pr = "EPP" THEN HeaderLen ELSE 0

Rejects(pr, v) ==
  IF pr = "EPP" THEN v < HeaderLen ELSE v = 0 \/ v > MaxPayload

Takes(pr, o) ==
  IF pr = "EPP" THEN o \in Payloads \cup {Refusal} ELSE o \in Payloads /\ Len(o) \in 1 .. MaxPayload

Frame(pr, o) == IF o = Refusal THEN PutUint(1) ELSE PutUint(Len(o) + Extra(pr)) \o o

(* The bytes s stand in w after the first at. *)
Holds(w, at, s) ==
  at + Len(s) <= Len(w) /\ \A j \in 1 .. Len(s) : w[at + j] = s[j]

Laid(pr, outs, w, c, m) ==
  /\ w \in Seq(Bytes) /\ c \in [Nat -> Nat] /\ m \in 0 .. Len(outs) /\ c[0] = 0
  /\ \A i \in 1 .. m : /\ Takes(pr, outs[i])
                       /\ c[i] = c[i - 1] + Len(Frame(pr, outs[i]))
                       /\ Holds(w, c[i - 1], Frame(pr, outs[i]))

NothingMore(pr, outs, ow, ln, w, c, m) ==
  m = Len(outs) /\ ow = <<>> /\ Len(w) = c[m]

PayloadOwed(pr, outs, ow, ln, w, c, m) ==
  /\ m = Len(outs)
  /\ \E p \in Payloads :
       /\ ow = <<p>> /\ p # <<>> /\ Takes(pr, p)
       /\ Holds(w, c[m], PutUint(Len(p) + Extra(pr))) /\ Len(w) = c[m] + HeaderLen

Overclaimed(pr, outs, ow, ln, w, c, m) ==
  /\ m = Len(outs) /\ ln # "open" /\ pr = "EPP"
  /\ \E p \in Payloads :
       /\ Holds(w, c[m], PutUint(Len(p) + HeaderLen + Overclaim))
       /\ Len(w) = c[m] + HeaderLen + Len(p)

Hopeless(pr, outs, ow, ln, w, c, m) ==
  /\ m < Len(outs) /\ pr = "RRI" /\ outs[m + 1] = Refusal
  /\ \E v \in 0 .. Span - 1 : Rejects(pr, v) /\ Holds(w, c[m], PutUint(v))

Ends(pr, outs, ow, ln, w, c, m) ==
  \/ NothingMore(pr, outs, ow, ln, w, c, m)
  \/ PayloadOwed(pr, outs, ow, ln, w, c, m)
  \/ Overclaimed(pr, outs, ow, ln, w, c, m)
  \/ Hopeless(pr, outs, ow, ln, w, c, m)

(* A reader that has returned k outcomes still has the bytes u before it:
   all that follows cut k, unless the end of it is lost.                   *)
Before(ln, k, u, w, c, m) ==
  /\ k \in 0 .. m
  /\ Holds(w, c[k], u)
  /\ ln = "open" => Len(w) = c[k] + Len(u)

Flow(pr, outs, ow, ln, k, u, live) ==
  \E w, c, m : /\ Laid(pr, outs, w, c, m)
               /\ Ends(pr, outs, ow, ln, w, c, m)
               /\ live => Before(ln, k, u, w, c, m)

-----------------------------------------------------------------------------
(* Frames. *)
LEMMA FrameType ==
  ASSUME NEW pr, NEW o, Takes(pr, o)
  PROVE  Frame(pr, o) \in Seq(Bytes) /\ Len(Frame(pr, o)) \in Nat
  <1>1. CASE o = Refusal
    BY <1>1, PutType, LenProperties DEF Frame
  <1>2. CASE o # Refusal
    <2>1. o \in Seq(Bytes) /\ Len(o) + Extra(pr) \in Nat
      <3>1. o \in Payloads
        BY <1>2 DEF Takes
      <3>2. o \in Seq(Bytes) /\ Len(o) \in Nat
        BY <3>1, FramingAssumption, LenProperties
      <3>3. QED
        BY <3>2 DEF Extra, HeaderLen
    <2>2. PutUint(Len(o) + Extra(pr)) \in Seq(Bytes)
      BY <2>1, PutType
    <2>3. Frame(pr, o) = PutUint(Len(o) + Extra(pr)) \o o
      BY <1>2 DEF Frame
    <2>4. QED
      BY <2>1, <2>2, <2>3, Joined
  <1>3. QED
    BY <1>1, <1>2

LEMMA PayloadFrame ==
  ASSUME NEW pr, NEW p \in Payloads
  PROVE  /\ p \in Seq(Bytes) /\ Len(p) \in Nat /\ p # Refusal
         /\ Len(p) + Extra(pr) \in 0 .. Span - 1
         /\ Len(p) + HeaderLen + Overclaim \in 0 .. Span - 1
         /\ Frame(pr, p) = PutUint(Len(p) + Extra(pr)) \o p
         /\ Len(Frame(pr, p)) = HeaderLen + Len(p)
         /\ \A j \in 1 .. HeaderLen : Frame(pr, p)[j] = PutUint(Len(p) + Extra(pr))[j]
         /\ \A j \in 1 .. Len(p) : Frame(pr, p)[HeaderLen + j] = p[j]
  <1>1. p \in Seq(Bytes) /\ Len(p) \in Nat /\ p # Refusal
    BY FramingAssumption, LenProperties
  <1>2. Len(p) + HeaderLen + Overclaim \in 0 .. Span - 1 /\ Len(p) + Extra(pr) \in 0 .. Span - 1
    BY <1>1, FramingAssumption, BaseType DEF Extra, HeaderLen
  <1>3. Frame(pr, p) = PutUint(Len(p) + Extra(pr)) \o p
    BY <1>1 DEF Frame
  <1>4. /\ PutUint(Len(p) + Extra(pr)) \in Seq(Bytes)
        /\ Len(PutUint(Len(p) + Extra(pr))) = HeaderLen
    <2>1. Len(p) + Extra(pr) \in Nat
      BY <1>2, BaseType
    <2>2. QED
      BY <2>1, PutType
  <1> DEFINE h == PutUint(Len(p) + Extra(pr))
  <1> HIDE DEF h
  <1>5. /\ Len(h \o p) = Len(h) + Len(p)
        /\ \A j \in 1 .. Len(h) : (h \o p)[j] = h[j]
        /\ \A j \in 1 .. Len(p) : (h \o p)[Len(h) + j] = p[j]
    BY <1>1, <1>4, Joined DEF h
  <1>6. Len(h) = HeaderLen /\ Frame(pr, p) = h \o p
    BY <1>3, <1>4 DEF h
  <1>7. /\ Len(Frame(pr, p)) = HeaderLen + Len(p)
        /\ \A j \in 1 .. HeaderLen : Frame(pr, p)[j] = h[j]
        /\ \A j \in 1 .. Len(p) : Frame(pr, p)[HeaderLen + j] = p[j]
    BY <1>5, <1>6
  <1>8. QED
    BY <1>1, <1>2, <1>3, <1>7 DEF h

(* What stands in a flow stands in a longer one, and what is added stands
   after it.                                                               *)
LEMMA Extended ==
  ASSUME NEW w \in Seq(Bytes), NEW s \in Seq(Bytes), NEW w2, w2 = w \o s
  PROVE  /\ w2 \in Seq(Bytes) /\ Len(w2) = Len(w) + Len(s) /\ Len(w) \in Nat /\ Len(s) \in Nat
         /\ \A at \in Nat : \A t \in Seq(Bytes) : Holds(w, at, t) => Holds(w2, at, t)
         /\ Holds(w2, Len(w), s)
  <1>1. /\ w2 \in Seq(Bytes) /\ Len(w2) = Len(w) + Len(s) /\ Len(w) \in Nat /\ Len(s) \in Nat
        /\ \A i \in 1 .. Len(w) : w2[i] = w[i]
        /\ \A i \in 1 .. Len(s) : w2[Len(w) + i] = s[i]
    BY Joined
  <1>2. ASSUME NEW at \in Nat, NEW t \in Seq(Bytes), Holds(w, at, t) PROVE Holds(w2, at, t)
    <2>1. Len(t) \in Nat /\ at + Len(t) <= Len(w) /\ \A j \in 1 .. Len(t) : w[at + j] = t[j]
      BY <1>2, LenProperties DEF Holds
    <2>2. \A j \in 1 .. Len(t) : at + j \in 1 .. Len(w)
      BY <1>1, <2>1
    <2>3. QED
      BY <1>1, <2>1, <2>2 DEF Holds
  <1>3. Holds(w2, Len(w), s)
    BY <1>1 DEF Holds
  <1>4. QED
    BY <1>1, <1>2, <1>3

(* Two pieces that stand one after the other. *)
LEMMA HoldsBoth ==
  ASSUME NEW w \in Seq(Bytes), NEW at \in Nat, NEW s \in Seq(Bytes), NEW t \in Seq(Bytes)
  PROVE  Holds(w, at, s \o t) <=> Holds(w, at, s) /\ Holds(w, at + Len(s), t)
  <1> DEFINE st == s \o t
  <1>1. /\ Len(st) = Len(s) + Len(t) /\ Len(s) \in Nat /\ Len(t) \in Nat /\ Len(w) \in Nat
        /\ \A i \in 1 .. Len(s) : st[i] = s[i]
        /\ \A i \in 1 .. Len(t) : st[Len(s) + i] = t[i]
    BY Joined, LenProperties
  <1> HIDE DEF st
  <1>2. ASSUME Holds(w, at, st) PROVE Holds(w, at, s) /\ Holds(w, at + Len(s), t)
    <2>1. at + Len(st) <= Len(w) /\ \A j \in 1 .. Len(st) : w[at + j] = st[j]
      BY <1>2 DEF Holds
    <2>2. \A j \in 1 .. Len(s) : j \in 1 .. Len(st)
      BY <1>1
    <2>3. \A j \in 1 .. Len(t) : Len(s) + j \in 1 .. Len(st) /\ (at + Len(s)) + j = at + (Len(s) + j)
      BY <1>1
    <2>4. \A j \in 1 .. Len(s) : w[at + j] = s[j]
      BY <1>1, <2>1, <2>2
    <2>5. \A j \in 1 .. Len(t) : w[(at + Len(s)) + j] = t[j]
      BY <1>1, <2>1, <2>3
    <2>6. QED
      BY <1>1, <2>1, <2>4, <2>5 DEF Holds
  <1>3. ASSUME Holds(w, at, s), Holds(w, at + Len(s), t) PROVE Holds(w, at, st)
    <2>1. /\ \A j \in 1 .. Len(s) : w[at + j] = s[j]
          /\ \A j \in 1 .. Len(t) : w[(at + Len(s)) + j] = t[j]
          /\ (at + Len(s)) + Len(t) <= Len(w)
      BY <1>3 DEF Holds
    <2>2. ASSUME NEW j \in 1 .. Len(st) PROVE w[at + j] = st[j]
      <3>1. CASE j <= Len(s)
        BY <3>1, <1>1, <2>1
      <3>2. CASE j > Len(s)
        <4>1. PICK i \in 1 .. Len(t) : j = Len(s) + i
          <5>1. j - Len(s) \in 1 .. Len(t) /\ j = Len(s) + (j - Len(s))
            BY <3>2, <1>1
          <5>2. QED
            BY <5>1
        <4>2. (at + Len(s)) + i = at + j
          BY <4>1, <1>1
        <4>3. QED
          BY <4>1, <4>2, <1>1, <2>1
      <3>3. QED
        BY <3>1, <3>2, <1>1
    <2>3. QED
      BY <1>1, <2>1, <2>2 DEF Holds
  <1>4. QED
    BY <1>2, <1>3 DEF st

-----------------------------------------------------------------------------
(* What the writer does to the flow. *)
LEMMA LaidFacts ==
  ASSUME NEW pr, NEW outs \in Seq(Payloads \cup {Refusal}), NEW w, NEW c, NEW m, Laid(pr, outs, w, c, m)
  PROVE  /\ w \in Seq(Bytes) /\ Len(w) \in Nat /\ Len(outs) \in Nat
         /\ c \in [Nat -> Nat] /\ m \in Nat /\ m <= Len(outs) /\ c[m] \in Nat /\ c[0] = 0
         /\ \A i \in 1 .. m : i \in 1 .. Len(outs) /\ i - 1 \in Nat /\ c[i - 1] \in Nat /\ c[i] \in Nat
  <1>1. w \in Seq(Bytes) /\ c \in [Nat -> Nat] /\ m \in 0 .. Len(outs) /\ c[0] = 0
    BY DEF Laid
  <1>2. Len(w) \in Nat /\ Len(outs) \in Nat
    BY <1>1, LenProperties
  <1>3. m \in Nat /\ m <= Len(outs) /\ c[m] \in Nat
    BY <1>1, <1>2
  <1>4. ASSUME NEW i \in 1 .. m
        PROVE  i \in 1 .. Len(outs) /\ i - 1 \in Nat /\ c[i - 1] \in Nat /\ c[i] \in Nat
    <2>1. i \in 1 .. Len(outs) /\ i - 1 \in Nat /\ i \in Nat
      BY <1>2, <1>3
    <2>2. QED
      BY <1>1, <2>1
  <1>5. QED
    BY <1>1, <1>2, <1>3, <1>4

(* Bytes are added, the cuts stay. *)
LEMMA LaidOn ==
  ASSUME NEW pr, NEW outs \in Seq(Payloads \cup {Refusal}), NEW w, NEW c, NEW m, Laid(pr, outs, w, c, m),
         NEW s \in Seq(Bytes), NEW w2, w2 = w \o s,
         NEW outs2, Len(outs2) \in Nat, Len(outs) <= Len(outs2),
         \A i \in 1 .. Len(outs) : outs2[i] = outs[i]
  PROVE  Laid(pr, outs2, w2, c, m)
  <1>1. /\ w \in Seq(Bytes) /\ Len(outs) \in Nat
        /\ c \in [Nat -> Nat] /\ m \in Nat /\ m <= Len(outs) /\ c[0] = 0
        /\ \A i \in 1 .. m : i \in 1 .. Len(outs) /\ c[i - 1] \in Nat
    BY LaidFacts
  <1>2. w2 \in Seq(Bytes) /\ \A at \in Nat : \A t \in Seq(Bytes) : Holds(w, at, t) => Holds(w2, at, t)
    BY <1>1, Extended
  <1>3. ASSUME NEW i \in 1 .. m
        PROVE  /\ Takes(pr, outs2[i])
               /\ c[i] = c[i - 1] + Len(Frame(pr, outs2[i]))
               /\ Holds(w2, c[i - 1], Frame(pr, outs2[i]))
    <2>1. outs2[i] = outs[i]
      BY <1>1
    <2>2. /\ Takes(pr, outs[i])
          /\ c[i] = c[i - 1] + Len(Frame(pr, outs[i]))
          /\ Holds(w, c[i - 1], Frame(pr, outs[i]))
      BY DEF Laid
    <2>3. Frame(pr, outs[i]) \in Seq(Bytes)
      BY <2>2, FrameType
    <2>4. Holds(w2, c[i - 1], Frame(pr, outs[i]))
      BY <1>1, <1>2, <2>2, <2>3
    <2>5. QED
      BY <2>1, <2>2, <2>4
  <1>4. m \in 0 .. Len(outs2)
    BY <1>1
  <1>5. QED
    BY <1>1, <1>2, <1>3, <1>4 DEF Laid

NextCut(c, n, x, d) ==
  d \in [Nat -> Nat] /\ d[n + 1] = x /\ \A i \in 0 .. n : d[i] = c[i]

LEMMA CutAdded ==
  ASSUME NEW c \in [Nat -> Nat], NEW n \in Nat, NEW x \in Nat
  PROVE  \E d : NextCut(c, n, x, d)
  <1> DEFINE d == [c EXCEPT ![n + 1] = x]
  <1>1. d \in [Nat -> Nat] /\ d[n + 1] = x /\ \A i \in 0 .. n : d[i] = c[i]
    OBVIOUS
  <1> HIDE DEF d
  <1>2. QED
    BY <1>1 DEF NextCut

LEMMA OneMore ==
  ASSUME NEW n \in Nat, NEW i \in 1 .. n + 1
  PROVE  i \in 1 .. n \/ i = n + 1
  OBVIOUS

LEMMA PlusAssociative ==
  ASSUME NEW a \in Nat, NEW b \in Nat
  PROVE  a + (HeaderLen + b) = (a + HeaderLen) + b
  BY DEF HeaderLen

LEMMA InRange ==
  ASSUME NEW m \in Nat, NEW k \in 0 .. m
  PROVE  k \in Nat
  OBVIOUS

LEMMA NotBoth ==
  ASSUME NEW a \in Nat, NEW b \in Nat, a < b, b <= a
  PROVE  FALSE
  OBVIOUS

LEMMA Successor ==
  ASSUME NEW n \in Nat
  PROVE  n + 1 \in Nat /\ n <= n + 1
  OBVIOUS

(* All that is owed is laid, and a piece at the end of the flow. *)
AllLaid(pr, outs, w, c, m) == m = Len(outs) /\ Laid(pr, outs, w, c, m)
EndsWith(w, at, s) == Holds(w, at, s) /\ Len(w) = at + Len(s)

(* One outcome more is owed. *)
OneMoreOf(outs, o, outs2) ==
  /\ Len(outs2) \in Nat /\ Len(outs2) = Len(outs) + 1 /\ outs2[Len(outs) + 1] = o
  /\ Len(outs) <= Len(outs2) /\ \A i \in 1 .. Len(outs) : outs2[i] = outs[i]

LEMMA Appended ==
  ASSUME NEW S, NEW s \in Seq(S), NEW e \in S
  PROVE  Append(s, e) \in Seq(S) /\ OneMoreOf(s, e, Append(s, e))
  <1>1. /\ Append(s, e) \in Seq(S) /\ Len(Append(s, e)) = Len(s) + 1
        /\ Append(s, e)[Len(s) + 1] = e
        /\ \A i \in 1 .. Len(s) : Append(s, e)[i] = s[i]
    BY AppendProperties
  <1>2. Len(s) \in Nat
    BY LenProperties
  <1>3. QED
    BY <1>1, <1>2 DEF OneMoreOf

NextLaid(pr, outs, w, c, m, o, outs2, d) ==
  /\ outs \in Seq(Payloads \cup {Refusal}) /\ AllLaid(pr, outs, w, c, m) /\ Takes(pr, o)
  /\ EndsWith(w, c[m], Frame(pr, o)) /\ OneMoreOf(outs, o, outs2) /\ NextCut(c, m, Len(w), d)

(* A frame is complete: the next cut is at the end of the flow. *)
LEMMA LaidNext ==
  ASSUME NEW pr, NEW outs, NEW w, NEW c, NEW n, NEW o, NEW outs2, NEW d,
         NextLaid(pr, outs, w, c, n, o, outs2, d)
  PROVE  Laid(pr, outs2, w, d, n + 1) /\ Len(outs2) = n + 1
  <1>0. /\ outs \in Seq(Payloads \cup {Refusal}) /\ AllLaid(pr, outs, w, c, n) /\ Takes(pr, o)
        /\ EndsWith(w, c[n], Frame(pr, o)) /\ OneMoreOf(outs, o, outs2) /\ NextCut(c, n, Len(w), d)
    BY DEF NextLaid
  <1>1. /\ w \in Seq(Bytes) /\ Len(w) \in Nat /\ n \in Nat
        /\ c \in [Nat -> Nat] /\ c[0] = 0 /\ n = Len(outs) /\ Laid(pr, outs, w, c, n)
        /\ d \in [Nat -> Nat] /\ d[n + 1] = Len(w) /\ \A i \in 0 .. n : d[i] = c[i]
        /\ Holds(w, c[n], Frame(pr, o)) /\ Len(w) = c[n] + Len(Frame(pr, o))
    BY <1>0, LaidFacts DEF AllLaid, NextCut, EndsWith
  <1>2. /\ Len(outs2) = n + 1 /\ outs2[n + 1] = o
        /\ \A i \in 1 .. n : outs2[i] = outs[i]
    BY <1>0, <1>1 DEF OneMoreOf
  <1>3. ASSUME NEW i \in 1 .. n + 1
        PROVE  /\ Takes(pr, outs2[i])
               /\ d[i] = d[i - 1] + Len(Frame(pr, outs2[i]))
               /\ Holds(w, d[i - 1], Frame(pr, outs2[i]))
    <2>1. CASE i \in 1 .. n
      <3>0. i \in 0 .. n /\ i - 1 \in 0 .. n
        BY <1>1, <2>1
      <3>1. outs2[i] = outs[i] /\ d[i] = c[i] /\ d[i - 1] = c[i - 1]
        BY <1>1, <1>2, <2>1, <3>0
      <3>2. /\ Takes(pr, outs[i])
            /\ c[i] = c[i - 1] + Len(Frame(pr, outs[i]))
            /\ Holds(w, c[i - 1], Frame(pr, outs[i]))
        BY <1>1, <2>1 DEF Laid
      <3>3. QED
        BY <3>1, <3>2
    <2>2. CASE i = n + 1
      <3>0. i - 1 = n /\ n \in 0 .. n
        BY <1>1, <2>2
      <3>1. outs2[i] = o /\ d[i] = Len(w) /\ d[i - 1] = c[n]
        BY <1>1, <1>2, <2>2, <3>0
      <3>2. QED
        BY <1>0, <1>1, <3>1
    <2>3. i \in 1 .. n \/ i = n + 1
      BY <1>1, OneMore
    <2>4. QED
      BY <2>1, <2>2, <2>3
  <1>4. d[0] = 0 /\ n + 1 \in 0 .. Len(outs2)
    BY <1>1, <1>2
  <1>5. QED
    BY <1>1, <1>2, <1>3, <1>4 DEF Laid

(* The reader has what was added before it as well. *)
LEMMA BeforeOn ==
  ASSUME NEW k, NEW m \in Nat, NEW u \in Seq(Bytes), NEW w \in Seq(Bytes), NEW c \in [Nat -> Nat],
         Before("open", k, u, w, c, m),
         NEW s \in Seq(Bytes), NEW w2, w2 = w \o s, NEW u2, u2 = u \o s,
         NEW m2 \in Nat, m <= m2, NEW c2, \A i \in 0 .. m : c2[i] = c[i], NEW ln
  PROVE  Before(ln, k, u2, w2, c2, m2)
  <1>1. k \in 0 .. m /\ Holds(w, c[k], u) /\ Len(w) = c[k] + Len(u) /\ c2[k] = c[k] /\ c[k] \in Nat
    BY DEF Before
  <1>2. /\ w2 \in Seq(Bytes) /\ Len(w2) = Len(w) + Len(s) /\ Len(w) \in Nat /\ Len(s) \in Nat
        /\ Holds(w2, Len(w), s)
        /\ \A at \in Nat : \A t \in Seq(Bytes) : Holds(w, at, t) => Holds(w2, at, t)
    BY Extended
  <1>3. Holds(w2, c[k], u)
    BY <1>1, <1>2
  <1>4. Holds(w2, c[k] + Len(u), s)
    BY <1>1, <1>2
  <1>5. Holds(w2, c[k], u \o s)
    BY <1>1, <1>2, <1>3, <1>4, HoldsBoth
  <1>6. Len(u2) = Len(u) + Len(s) /\ Len(u) \in Nat
    BY Joined
  <1>7. Len(w2) = c[k] + Len(u2)
    BY <1>1, <1>2, <1>6
  <1>8. k \in 0 .. m2
    BY <1>1
  <1>9. QED
    BY <1>1, <1>5, <1>7, <1>8 DEF Before

(* A flow that is past saving stays so. *)
LEMMA StaysHopeless ==
  ASSUME NEW pr, NEW outs \in Seq(Payloads \cup {Refusal}), NEW ow, NEW w, NEW c, NEW m,
         Laid(pr, outs, w, c, m), NEW ln, Hopeless(pr, outs, ow, ln, w, c, m),
         NEW s \in Seq(Bytes), NEW w2, w2 = w \o s,
         NEW outs2, Len(outs2) \in Nat, Len(outs) <= Len(outs2),
         \A i \in 1 .. Len(outs) : outs2[i] = outs[i], NEW ow2, NEW ln2
  PROVE  Hopeless(pr, outs2, ow2, ln2, w2, c, m)
  <1>1. /\ w \in Seq(Bytes) /\ Len(outs) \in Nat /\ m \in Nat /\ m <= Len(outs) /\ c[m] \in Nat
    BY LaidFacts
  <1>2. m < Len(outs) /\ pr = "RRI" /\ outs[m + 1] = Refusal
    BY DEF Hopeless
  <1>3. PICK v \in 0 .. Span - 1 : Rejects(pr, v) /\ Holds(w, c[m], PutUint(v))
    BY DEF Hopeless
  <1>4. PutUint(v) \in Seq(Bytes)
    BY PutType, BaseType
  <1>5. Holds(w2, c[m], PutUint(v))
    BY <1>1, <1>3, <1>4, Extended
  <1>6. m < Len(outs2) /\ outs2[m + 1] = Refusal
    <2>1. m + 1 \in 1 .. Len(outs) /\ m < Len(outs2)
      BY <1>1, <1>2
    <2>2. QED
      BY <1>2, <2>1
  <1>7. QED
    BY <1>2, <1>3, <1>5, <1>6 DEF Hopeless

LEMMA FlowOnward ==
  ASSUME NEW pr, NEW outs \in Seq(Payloads \cup {Refusal}), NEW w, NEW c, NEW m,
         Laid(pr, outs, w, c, m), NEW s \in Seq(Bytes), NEW k, NEW u \in Seq(Bytes), NEW live,
         live => Before("open", k, u, w, c, m),
         NEW outs2, Len(outs2) \in Nat, Len(outs) <= Len(outs2),
         \A i \in 1 .. Len(outs) : outs2[i] = outs[i], NEW ow2, NEW ln2,
         Ends(pr, outs2, ow2, ln2, w \o s, c, m), NEW u2, u2 = u \o s
  PROVE  Flow(pr, outs2, ow2, ln2, k, u2, live)
  <1>1. PICK w2 : w2 = w \o s
    OBVIOUS
  <1>2. w \in Seq(Bytes) /\ c \in [Nat -> Nat] /\ m \in Nat
    BY LaidFacts
  <1>3. Laid(pr, outs2, w2, c, m)
    BY <1>1, LaidOn
  <1>4. ASSUME live PROVE Before(ln2, k, u2, w2, c, m)
    <2>1. Before("open", k, u, w, c, m) /\ m <= m /\ \A i \in 0 .. m : c[i] = c[i]
      BY <1>2, <1>4
    <2>2. QED
      BY <1>1, <1>2, <2>1, BeforeOn
  <1>5. Ends(pr, outs2, ow2, ln2, w2, c, m)
    BY <1>1
  <1>6. QED
    BY <1>3, <1>4, <1>5 DEF Flow

LEMMA FlowHopeless ==
  ASSUME NEW pr, NEW outs \in Seq(Payloads \cup {Refusal}), NEW ow, NEW w, NEW c, NEW m, NEW ln,
         Laid(pr, outs, w, c, m), Hopeless(pr, outs, ow, ln, w, c, m),
         NEW s \in Seq(Bytes), NEW k, NEW u \in Seq(Bytes), NEW live,
         live => Before("open", k, u, w, c, m),
         NEW outs2, Len(outs2) \in Nat, Len(outs) <= Len(outs2),
         \A i \in 1 .. Len(outs) : outs2[i] = outs[i], NEW ow2, NEW ln2, NEW u2, u2 = u \o s
  PROVE  Flow(pr, outs2, ow2, ln2, k, u2, live)
  <1>1. PICK w2 : w2 = w \o s
    OBVIOUS
  <1>2. Hopeless(pr, outs2, ow2, ln2, w2, c, m)
    BY <1>1, StaysHopeless
  <1>3. Ends(pr, outs2, ow2, ln2, w \o s, c, m)
    BY <1>1, <1>2 DEF Ends
  <1>4. QED
    BY <1>3, FlowOnward

LEMMA FlowCompletes ==
  ASSUME NEW pr, NEW outs \in Seq(Payloads \cup {Refusal}), NEW w, NEW c, NEW m,
         AllLaid(pr, outs, w, c, m), NEW s \in Seq(Bytes), NEW k, NEW u \in Seq(Bytes), NEW live,
         live => Before("open", k, u, w, c, m),
         NEW o, Takes(pr, o), NEW w2, w2 = w \o s, EndsWith(w2, c[m], Frame(pr, o)),
         NEW outs2, OneMoreOf(outs, o, outs2), NEW u2, u2 = u \o s
  PROVE  Flow(pr, outs2, <<>>, "open", k, u2, live)
  <1>0. Laid(pr, outs, w, c, m)
    BY DEF AllLaid
  <1>1. w \in Seq(Bytes) /\ c \in [Nat -> Nat] /\ m \in Nat /\ m + 1 \in Nat /\ m <= m + 1
    <2>1. w \in Seq(Bytes) /\ c \in [Nat -> Nat] /\ m \in Nat
      BY <1>0, LaidFacts
    <2>2. QED
      BY <2>1, Successor
  <1>2. w2 \in Seq(Bytes) /\ Len(w2) \in Nat
    BY <1>1, Extended, LenProperties
  <1>3. PICK d : NextCut(c, m, Len(w2), d)
    BY <1>1, <1>2, CutAdded
  <1>4. AllLaid(pr, outs, w2, c, m)
    <2>1. m = Len(outs) /\ Len(outs) \in Nat /\ Len(outs) <= Len(outs)
      BY LenProperties DEF AllLaid
    <2>2. \A i \in 1 .. Len(outs) : outs[i] = outs[i]
      OBVIOUS
    <2>3. Laid(pr, outs, w2, c, m)
      BY <1>0, <2>1, <2>2, LaidOn
    <2>4. QED
      BY <2>1, <2>3 DEF AllLaid
  <1>5. Laid(pr, outs2, w2, d, m + 1) /\ Len(outs2) = m + 1
    <2>1. NextLaid(pr, outs, w2, c, m, o, outs2, d)
      BY <1>3, <1>4 DEF NextLaid
    <2>2. QED
      BY <2>1, LaidNext
  <1>6. Ends(pr, outs2, <<>>, "open", w2, d, m + 1)
    <2>1. m + 1 = Len(outs2) /\ Len(w2) = d[m + 1]
      BY <1>3, <1>5 DEF NextCut
    <2>2. NothingMore(pr, outs2, <<>>, "open", w2, d, m + 1)
      BY <2>1 DEF NothingMore
    <2>3. QED
      BY <2>2 DEF Ends
  <1>7. ASSUME live PROVE Before("open", k, u2, w2, d, m + 1)
    <2>1. Before("open", k, u, w, c, m) /\ \A i \in 0 .. m : d[i] = c[i]
      BY <1>3, <1>7 DEF NextCut
    <2>2. QED
      BY <1>1, <2>1, BeforeOn
  <1>8. QED
    BY <1>5, <1>6, <1>7 DEF Flow

(* The first Write of a frame. *)
LEMMA FlowHeader ==
  ASSUME NEW pr \in {"EPP", "RRI"}, NEW outs \in Seq(Payloads \cup {Refusal}), NEW k,
         NEW u \in Seq(Bytes), NEW live, Flow(pr, outs, <<>>, "open", k, u, live),
         NEW p \in Payloads, NEW u2, u2 = u \o PutUint(Len(p) + Extra(pr)),
         NEW outs2, IF ~Takes(pr, p) THEN OneMoreOf(outs, Refusal, outs2)
                    ELSE IF p = <<>> THEN OneMoreOf(outs, p, outs2) ELSE outs2 = outs,
         NEW ow2, ow2 = IF p = <<>> THEN <<>> ELSE <<p>>
  PROVE  Flow(pr, outs2, ow2, "open", k, u2, live)
  <1>1. PICK w, c, m : /\ Laid(pr, outs, w, c, m)
                       /\ Ends(pr, outs, <<>>, "open", w, c, m)
                       /\ live => Before("open", k, u, w, c, m)
    BY DEF Flow
  <1>2. /\ w \in Seq(Bytes) /\ Len(w) \in Nat /\ Len(outs) \in Nat
        /\ c \in [Nat -> Nat] /\ m \in Nat /\ m <= Len(outs) /\ c[m] \in Nat
    BY <1>1, LaidFacts
  <1>3. PICK v : v = Len(p) + Extra(pr)
    OBVIOUS
  <1>4. PICK s : s = PutUint(v)
    OBVIOUS
  <1>5. v \in 0 .. Span - 1 /\ v \in Nat /\ s \in Seq(Bytes) /\ Len(s) = HeaderLen
    <2>1. v \in 0 .. Span - 1
      BY <1>3, PayloadFrame
    <2>2. v \in Nat
      BY <2>1, BaseType
    <2>3. QED
      BY <1>4, <2>1, <2>2, PutType
  <1>6. PICK w2 : w2 = w \o s
    OBVIOUS
  <1>7. u2 = u \o s
    BY <1>3, <1>4
  <1>8. /\ w2 \in Seq(Bytes) /\ Len(w2) = Len(w) + HeaderLen /\ Holds(w2, Len(w), s)
    BY <1>2, <1>5, <1>6, Extended
  <1>9. /\ Len(outs2) \in Nat /\ Len(outs) <= Len(outs2)
        /\ \A i \in 1 .. Len(outs) : outs2[i] = outs[i]
        /\ ~Takes(pr, p) => Len(outs2) = Len(outs) + 1 /\ outs2[Len(outs) + 1] = Refusal
    <2>1. CASE ~Takes(pr, p)
      <3>1. OneMoreOf(outs, Refusal, outs2)
        BY <2>1
      <3>2. QED
        BY <3>1 DEF OneMoreOf
    <2>2. CASE Takes(pr, p) /\ p = <<>>
      <3>1. OneMoreOf(outs, p, outs2)
        BY <2>2
      <3>2. QED
        BY <2>2, <3>1 DEF OneMoreOf
    <2>3. CASE Takes(pr, p) /\ p # <<>>
      <3>1. outs2 = outs
        BY <2>3
      <3>2. QED
        BY <1>2, <2>3, <3>1
    <2>4. QED
      BY <2>1, <2>2, <2>3
  <1>10. NothingMore(pr, outs, <<>>, "open", w, c, m) \/ Hopeless(pr, outs, <<>>, "open", w, c, m)
    BY <1>1 DEF Ends, PayloadOwed, Overclaimed
  <1>11. CASE Hopeless(pr, outs, <<>>, "open", w, c, m)
    BY <1>1, <1>5, <1>7, <1>9, <1>11, FlowHopeless
  <1>12. CASE NothingMore(pr, outs, <<>>, "open", w, c, m)
    <2>1. m = Len(outs) /\ Len(w) = c[m]
      BY <1>12 DEF NothingMore
    <2>2. CASE ~Takes(pr, p)
      <3>1. pr = "RRI" /\ Rejects(pr, v)
        <4>1. pr = "RRI" /\ Len(p) \notin 1 .. MaxPayload
          BY <2>2 DEF Takes
        <4>2. v = Len(p) /\ v \in Nat /\ MaxPayload \in Nat
          BY <1>3, <1>5, <4>1, FramingAssumption DEF Extra
        <4>3. QED
          BY <4>1, <4>2 DEF Rejects
      <3>2. Holds(w2, c[m], PutUint(v))
        BY <1>4, <1>8, <2>1
      <3>3. m < Len(outs2) /\ outs2[m + 1] = Refusal
        BY <1>2, <1>9, <2>1, <2>2
      <3>4. Hopeless(pr, outs2, ow2, "open", w2, c, m)
        BY <1>5, <3>1, <3>2, <3>3 DEF Hopeless
      <3>5. Ends(pr, outs2, ow2, "open", w \o s, c, m)
        BY <1>6, <3>4 DEF Ends
      <3>6. QED
        BY <1>1, <1>5, <1>7, <1>9, <3>5, FlowOnward
    <2>3. CASE Takes(pr, p) /\ p = <<>>
      <3>1. Frame(pr, p) = s
        <4>1. p # Refusal /\ Frame(pr, p) = s \o p
          BY <1>3, <1>4, PayloadFrame
        <4>2. QED
          BY <1>5, <2>3, <4>1, ConcatEmptySeq
      <3>2. EndsWith(w2, c[m], Frame(pr, p)) /\ AllLaid(pr, outs, w, c, m)
        BY <1>1, <1>5, <1>8, <2>1, <3>1 DEF EndsWith, AllLaid
      <3>3. OneMoreOf(outs, p, outs2) /\ ow2 = <<>>
        BY <2>3
      <3>4. Flow(pr, outs2, <<>>, "open", k, u2, live)
        BY <1>1, <1>5, <1>6, <1>7, <2>1, <2>3, <3>2, <3>3, FlowCompletes
      <3>5. QED
        BY <3>3, <3>4
    <2>4. CASE Takes(pr, p) /\ p # <<>>
      <3>1. outs2 = outs /\ ow2 = <<p>>
        BY <2>4
      <3>2. /\ Holds(w2, c[m], PutUint(Len(p) + Extra(pr)))
            /\ Len(w2) = c[m] + HeaderLen
        BY <1>3, <1>4, <1>8, <2>1
      <3>3. PayloadOwed(pr, outs2, ow2, "open", w2, c, m)
        BY <2>1, <2>4, <3>1, <3>2 DEF PayloadOwed
      <3>4. Ends(pr, outs2, ow2, "open", w \o s, c, m)
        BY <1>6, <3>3 DEF Ends
      <3>5. QED
        BY <1>1, <1>5, <1>7, <1>9, <3>4, FlowOnward
    <2>5. QED
      BY <2>2, <2>3, <2>4
  <1>13. QED
    BY <1>10, <1>11, <1>12

(* The second. *)
LEMMA FlowPayload ==
  ASSUME NEW pr \in {"EPP", "RRI"}, NEW outs \in Seq(Payloads \cup {Refusal}), NEW k,
         NEW u \in Seq(Bytes), NEW live, NEW p \in Payloads,
         Flow(pr, outs, <<p>>, "open", k, u, live),
         NEW u2, u2 = u \o p,
         NEW outs2, IF ~Takes(pr, p) THEN outs2 = outs ELSE OneMoreOf(outs, p, outs2)
  PROVE  Flow(pr, outs2, <<>>, "open", k, u2, live)
  <1>1. PICK w, c, m : /\ Laid(pr, outs, w, c, m)
                       /\ Ends(pr, outs, <<p>>, "open", w, c, m)
                       /\ live => Before("open", k, u, w, c, m)
    BY DEF Flow
  <1>2. /\ w \in Seq(Bytes) /\ Len(outs) \in Nat /\ c[m] \in Nat
    BY <1>1, LaidFacts
  <1>3. p \in Seq(Bytes) /\ Len(p) \in Nat
    BY PayloadFrame
  <1>4. Len(outs2) \in Nat /\ Len(outs) <= Len(outs2) /\ \A i \in 1 .. Len(outs) : outs2[i] = outs[i]
    <2>1. CASE ~Takes(pr, p)
      <3>1. outs2 = outs
        BY <2>1
      <3>2. QED
        BY <1>2, <3>1
    <2>2. CASE Takes(pr, p)
      <3>1. OneMoreOf(outs, p, outs2)
        BY <2>2
      <3>2. QED
        BY <3>1 DEF OneMoreOf
    <2>3. QED
      BY <2>1, <2>2
  <1>5. PayloadOwed(pr, outs, <<p>>, "open", w, c, m) \/ Hopeless(pr, outs, <<p>>, "open", w, c, m)
    BY <1>1 DEF Ends, NothingMore, Overclaimed
  <1>6. CASE Hopeless(pr, outs, <<p>>, "open", w, c, m)
    BY <1>1, <1>3, <1>4, <1>6, FlowHopeless
  <1>7. CASE PayloadOwed(pr, outs, <<p>>, "open", w, c, m)
    <2>1. /\ m = Len(outs) /\ Takes(pr, p)
          /\ Holds(w, c[m], PutUint(Len(p) + Extra(pr))) /\ Len(w) = c[m] + HeaderLen
      <3>1. PICK q \in Payloads :
              /\ <<p>> = <<q>> /\ q # <<>> /\ Takes(pr, q)
              /\ Holds(w, c[m], PutUint(Len(q) + Extra(pr))) /\ Len(w) = c[m] + HeaderLen
        BY <1>7 DEF PayloadOwed
      <3>2. q = p
        BY <3>1
      <3>3. QED
        BY <1>7, <3>1, <3>2 DEF PayloadOwed
    <2>2. PICK h : h = PutUint(Len(p) + Extra(pr))
      OBVIOUS
    <2>3. h \in Seq(Bytes) /\ Len(h) = HeaderLen /\ Frame(pr, p) = h \o p
      <3>1. Len(p) + Extra(pr) \in Nat
        BY <1>3 DEF Extra, HeaderLen
      <3>2. QED
        BY <2>2, <3>1, PutType, PayloadFrame
    <2>4. PICK w2 : w2 = w \o p
      OBVIOUS
    <2>5. w2 \in Seq(Bytes) /\ Len(w2) = Len(w) + Len(p) /\ Holds(w2, Len(w), p)
            /\ Holds(w2, c[m], h)
      BY <1>2, <1>3, <2>1, <2>2, <2>3, <2>4, Extended
    <2>6. Holds(w2, c[m], h \o p)
      <3>1. Holds(w2, c[m] + Len(h), p)
        BY <2>1, <2>3, <2>5
      <3>2. QED
        BY <1>2, <1>3, <2>3, <2>5, <3>1, HoldsBoth
    <2>7. Len(w2) = c[m] + Len(h \o p)
      <3>1. Len(h \o p) = HeaderLen + Len(p)
        BY <1>3, <2>3, Joined
      <3>2. Len(w2) = (c[m] + HeaderLen) + Len(p)
        BY <2>1, <2>5
      <3>3. c[m] + (HeaderLen + Len(p)) = (c[m] + HeaderLen) + Len(p)
        BY <1>2, <1>3, PlusAssociative, Zenon
      <3>4. QED
        BY <3>1, <3>2, <3>3
    <2>8. EndsWith(w2, c[m], Frame(pr, p)) /\ AllLaid(pr, outs, w, c, m)
      BY <1>1, <2>1, <2>3, <2>6, <2>7 DEF EndsWith, AllLaid
    <2>9. OneMoreOf(outs, p, outs2)
      BY <2>1
    <2>10. QED
      BY <1>1, <1>3, <2>1, <2>4, <2>8, <2>9, FlowCompletes
  <1>8. QED
    BY <1>5, <1>6, <1>7

(* A bare header, which no reader takes. *)
LEMMA FlowBare ==
  ASSUME NEW pr \in {"EPP", "RRI"}, NEW outs \in Seq(Payloads \cup {Refusal}), NEW k,
         NEW u \in Seq(Bytes), NEW live, Flow(pr, outs, <<>>, "open", k, u, live),
         NEW u2, u2 = u \o PutUint(IF pr = "EPP" THEN 1 ELSE 0),
         NEW outs2, OneMoreOf(outs, Refusal, outs2)
  PROVE  Flow(pr, outs2, <<>>, "open", k, u2, live)
  <1>1. PICK w, c, m : /\ Laid(pr, outs, w, c, m)
                       /\ Ends(pr, outs, <<>>, "open", w, c, m)
                       /\ live => Before("open", k, u, w, c, m)
    BY DEF Flow
  <1>2. /\ w \in Seq(Bytes) /\ Len(outs) \in Nat /\ m \in Nat /\ c[m] \in Nat
    BY <1>1, LaidFacts
  <1>3. PICK v : v = IF pr = "EPP" THEN 1 ELSE 0
    OBVIOUS
  <1>4. PICK s : s = PutUint(v)
    OBVIOUS
  <1>5. v \in Nat /\ v \in 0 .. Span - 1 /\ s \in Seq(Bytes) /\ Len(s) = HeaderLen /\ u2 = u \o s
    <2>1. v \in Nat /\ v \in 0 .. Span - 1
      BY <1>3, BaseType
    <2>2. QED
      BY <1>3, <1>4, <2>1, PutType
  <1>6. PICK w2 : w2 = w \o s
    OBVIOUS
  <1>7. w2 \in Seq(Bytes) /\ Len(w2) = Len(w) + HeaderLen /\ Holds(w2, Len(w), s)
    BY <1>2, <1>5, <1>6, Extended
  <1>8. Len(outs2) \in Nat /\ Len(outs) <= Len(outs2) /\ \A i \in 1 .. Len(outs) : outs2[i] = outs[i]
    BY DEF OneMoreOf
  <1>9. NothingMore(pr, outs, <<>>, "open", w, c, m) \/ Hopeless(pr, outs, <<>>, "open", w, c, m)
    BY <1>1 DEF Ends, PayloadOwed, Overclaimed
  <1>10. CASE Hopeless(pr, outs, <<>>, "open", w, c, m)
    BY <1>1, <1>5, <1>8, <1>10, FlowHopeless
  <1>11. CASE NothingMore(pr, outs, <<>>, "open", w, c, m)
    <2>1. m = Len(outs) /\ Len(w) = c[m]
      BY <1>11 DEF NothingMore
    <2>2. CASE pr = "EPP"
      <3>1. Takes(pr, Refusal) /\ Frame(pr, Refusal) = s
        BY <1>3, <1>4, <2>2 DEF Takes, Frame
      <3>2. EndsWith(w2, c[m], Frame(pr, Refusal)) /\ AllLaid(pr, outs, w, c, m)
        BY <1>1, <1>5, <1>7, <2>1, <3>1 DEF EndsWith, AllLaid
      <3>3. QED
        BY <1>1, <1>5, <1>6, <3>1, <3>2, FlowCompletes
    <2>3. CASE pr = "RRI"
      <3>1. Rejects(pr, v)
        BY <1>3, <2>3 DEF Rejects
      <3>2. m < Len(outs2) /\ outs2[m + 1] = Refusal
        BY <1>2, <2>1 DEF OneMoreOf
      <3>3. Holds(w2, c[m], PutUint(v))
        BY <1>4, <1>7, <2>1
      <3>4. Hopeless(pr, outs2, <<>>, "open", w2, c, m)
        BY <1>5, <2>3, <3>1, <3>2, <3>3 DEF Hopeless
      <3>5. Ends(pr, outs2, <<>>, "open", w \o s, c, m)
        BY <1>6, <3>4 DEF Ends
      <3>6. QED
        BY <1>1, <1>5, <1>8, <3>5, FlowOnward
    <2>4. QED
      BY <2>2, <2>3
  <1>12. QED
    BY <1>9, <1>10, <1>11

(* A header that claims too much, and the end of the connection. *)
LEMMA FlowOverclaim ==
  ASSUME NEW outs \in Seq(Payloads \cup {Refusal}), NEW k,
         NEW u \in Seq(Bytes), NEW live, Flow("EPP", outs, <<>>, "open", k, u, live),
         NEW p \in Payloads, NEW u2, u2 = u \o (PutUint(Len(p) + HeaderLen + Overclaim) \o p)
  PROVE  Flow("EPP", outs, <<>>, "closed", k, u2, live)
  <1>1. PICK w, c, m : /\ Laid("EPP", outs, w, c, m)
                       /\ Ends("EPP", outs, <<>>, "open", w, c, m)
                       /\ live => Before("open", k, u, w, c, m)
    BY DEF Flow
  <1>2. /\ w \in Seq(Bytes) /\ Len(w) \in Nat /\ Len(outs) \in Nat /\ c[m] \in Nat
    BY <1>1, LaidFacts
  <1>3. PICK h : h = PutUint(Len(p) + HeaderLen + Overclaim)
    OBVIOUS
  <1>4. /\ p \in Seq(Bytes) /\ Len(p) \in Nat /\ h \in Seq(Bytes) /\ Len(h) = HeaderLen
    <2>1. Len(p) + HeaderLen + Overclaim \in 0 .. Span - 1 /\ p \in Seq(Bytes) /\ Len(p) \in Nat
      BY PayloadFrame
    <2>2. Len(p) + HeaderLen + Overclaim \in Nat
      BY <2>1, BaseType
    <2>3. QED
      BY <1>3, <2>1, <2>2, PutType
  <1>5. PICK s : s = h \o p
    OBVIOUS
  <1>6. s \in Seq(Bytes) /\ Len(s) = HeaderLen + Len(p)
    BY <1>4, <1>5, Joined
  <1>7. PICK w2 : w2 = w \o s
    OBVIOUS
  <1>8. w2 \in Seq(Bytes) /\ Len(w2) = Len(w) + Len(s) /\ Holds(w2, Len(w), s)
    BY <1>2, <1>6, <1>7, Extended
  <1>9. m = Len(outs) /\ Len(w) = c[m]
    BY <1>1 DEF Ends, NothingMore, PayloadOwed, Overclaimed, Hopeless
  <1>10. Holds(w2, c[m], h)
    BY <1>2, <1>4, <1>5, <1>8, <1>9, HoldsBoth
  <1>11. Len(w2) = c[m] + HeaderLen + Len(p)
    <2>1. Len(w2) = c[m] + (HeaderLen + Len(p))
      BY <1>6, <1>8, <1>9
    <2>2. c[m] + (HeaderLen + Len(p)) = (c[m] + HeaderLen) + Len(p)
      BY <1>2, <1>4, PlusAssociative, Zenon
    <2>3. QED
      BY <2>1, <2>2
  <1>12. Overclaimed("EPP", outs, <<>>, "closed", w2, c, m)
    BY <1>3, <1>9, <1>10, <1>11 DEF Overclaimed
  <1>13. Ends("EPP", outs, <<>>, "closed", w \o s, c, m)
    BY <1>7, <1>12 DEF Ends
  <1>14. \A i \in 1 .. Len(outs) : outs[i] = outs[i]
    OBVIOUS
  <1>15. u2 = u \o s /\ Len(outs) <= Len(outs)
    BY <1>2, <1>3, <1>5
  <1>16. QED
    BY <1>1, <1>2, <1>6, <1>13, <1>14, <1>15, FlowOnward

(* The connection ends: the reader keeps a part of what is before it. *)
LEMMA FlowCut ==
  ASSUME NEW pr, NEW outs \in Seq(Payloads \cup {Refusal}), NEW ow, NEW ln, NEW k,
         NEW u \in Seq(Bytes), NEW live, Flow(pr, outs, ow, ln, k, u, live),
         NEW u2 \in Seq(Bytes), Len(u2) <= Len(u), \A i \in 1 .. Len(u2) : u2[i] = u[i],
         NEW ln2, ln2 # "open"
  PROVE  Flow(pr, outs, ow, ln2, k, u2, live)
  <1>1. PICK w, c, m : /\ Laid(pr, outs, w, c, m)
                       /\ Ends(pr, outs, ow, ln, w, c, m)
                       /\ live => Before(ln, k, u, w, c, m)
    BY DEF Flow
  <1>2. Ends(pr, outs, ow, ln2, w, c, m)
    BY <1>1 DEF Ends, NothingMore, PayloadOwed, Overclaimed, Hopeless
  <1>3. ASSUME live PROVE Before(ln2, k, u2, w, c, m)
    <2>1. k \in 0 .. m /\ Holds(w, c[k], u)
      BY <1>1, <1>3 DEF Before
    <2>2. c[k] \in Nat /\ Len(w) \in Nat /\ Len(u) \in Nat /\ Len(u2) \in Nat
      <3>1. k \in Nat /\ c \in [Nat -> Nat]
        <4>1. m \in Nat /\ c \in [Nat -> Nat]
          BY <1>1, LaidFacts
        <4>2. QED
          BY <2>1, <4>1, InRange, Zenon
      <3>2. c[k] \in Nat
        BY <3>1
      <3>3. QED
        BY <1>1, <3>2, LaidFacts, LenProperties
    <2>3. c[k] + Len(u) <= Len(w) /\ \A i \in 1 .. Len(u) : w[c[k] + i] = u[i]
      BY <2>1 DEF Holds
    <2>4. c[k] + Len(u2) <= Len(w) /\ \A i \in 1 .. Len(u2) : i \in 1 .. Len(u)
      BY <2>2, <2>3
    <2>5. Holds(w, c[k], u2)
      BY <2>3, <2>4 DEF Holds
    <2>6. QED
      BY <2>1, <2>5 DEF Before
  <1>4. QED
    BY <1>1, <1>2, <1>3 DEF Flow

(* Nothing is asked about a reader that reads no more. *)
LEMMA FlowUnread ==
  ASSUME NEW pr, NEW outs, NEW ow, NEW ln, NEW k, NEW u, NEW live, Flow(pr, outs, ow, ln, k, u, live),
         NEW k2, NEW u2
  PROVE  Flow(pr, outs, ow, ln, k2, u2, FALSE)
  BY DEF Flow

LEMMA FlowStart ==
  ASSUME NEW pr, NEW live
  PROVE  Flow(pr, <<>>, <<>>, "open", 0, <<>>, live)
  <1> DEFINE c == [i \in Nat |-> 0]
  <1>1. Laid(pr, <<>>, <<>>, c, 0)
    <2>1. <<>> \in Seq(Bytes) /\ c \in [Nat -> Nat] /\ 0 \in 0 .. Len(<<>>) /\ c[0] = 0
      BY EmptySeq
    <2>2. \A i \in 1 .. 0 : FALSE
      OBVIOUS
    <2>3. QED
      BY <2>1, <2>2 DEF Laid
  <1>2. Ends(pr, <<>>, <<>>, "open", <<>>, c, 0)
    BY EmptySeq DEF Ends, NothingMore
  <1>3. Before("open", 0, <<>>, <<>>, c, 0)
    BY EmptySeq DEF Before, Holds
  <1> HIDE DEF c
  <1>4. QED
    BY <1>1, <1>2, <1>3 DEF Flow

-----------------------------------------------------------------------------
(* What the reader makes of the flow. *)
LEMMA SameBytes ==
  ASSUME NEW w, NEW at, NEW x \in 0 .. Span - 1, NEW h, Len(h) = HeaderLen,
         Holds(w, at, PutUint(x)), Holds(w, at, h)
  PROVE  Uint(h) = x
  <1>1. x \in Nat /\ Len(PutUint(x)) = HeaderLen
    BY BaseType, PutType
  <1>2. \A i \in 1 .. HeaderLen : h[i] = PutUint(x)[i]
    BY <1>1 DEF Holds
  <1>3. QED
    BY <1>2, SameHeader

(* The header at a cut: of a frame the reader refuses, of one it takes, of
   one that will never be complete, and one that no RRI reader takes.       *)
RefusedNext(pr, outs, c, m, k, v) ==
  k < m /\ outs[k + 1] = Refusal /\ pr = "EPP" /\ v = 1 /\ c[k + 1] = c[k] + HeaderLen

TakenNext(pr, outs, w, c, m, k, v) ==
  /\ k < m /\ outs[k + 1] \in Payloads /\ Takes(pr, outs[k + 1])
  /\ v = Len(outs[k + 1]) + Extra(pr)
  /\ c[k + 1] = c[k] + (HeaderLen + Len(outs[k + 1]))
  /\ Holds(w, c[k] + HeaderLen, outs[k + 1])

ShortNext(pr, w, c, m, k, v) ==
  /\ k = m /\ ~Rejects(pr, v)
  /\ \A n \in Nat : n + Extra(pr) = v => Len(w) < (c[k] + HeaderLen) + n

HopelessNext(pr, outs, m, k, v) ==
  k = m /\ k < Len(outs) /\ pr = "RRI" /\ Rejects(pr, v) /\ outs[k + 1] = Refusal

LEMMA TakenIsNotRejected ==
  ASSUME NEW pr \in {"EPP", "RRI"}, NEW p \in Payloads, Takes(pr, p)
  PROVE  ~Rejects(pr, Len(p) + Extra(pr))
  <1>1. Len(p) \in Nat /\ MaxPayload \in Nat
    BY PayloadFrame, FramingAssumption
  <1>2. CASE pr = "EPP"
    BY <1>1, <1>2 DEF Rejects, Extra, HeaderLen
  <1>3. CASE pr = "RRI"
    BY <1>1, <1>3 DEF Rejects, Extra, Takes
  <1>4. QED
    BY <1>2, <1>3

LEMMA NextFrame ==
  ASSUME NEW pr \in {"EPP", "RRI"}, NEW outs \in Seq(Payloads \cup {Refusal}), NEW ow, NEW ln,
         NEW w, NEW c, NEW m, Laid(pr, outs, w, c, m), Ends(pr, outs, ow, ln, w, c, m),
         NEW k \in 0 .. m, NEW h \in Seq(Bytes), Len(h) = HeaderLen, Holds(w, c[k], h)
  PROVE  \/ RefusedNext(pr, outs, c, m, k, Uint(h))
         \/ TakenNext(pr, outs, w, c, m, k, Uint(h))
         \/ ShortNext(pr, w, c, m, k, Uint(h))
         \/ HopelessNext(pr, outs, m, k, Uint(h))
  <1>1. /\ w \in Seq(Bytes) /\ Len(w) \in Nat /\ Len(outs) \in Nat /\ m \in Nat /\ c[m] \in Nat
        /\ c \in [Nat -> Nat]
    BY LaidFacts
  <1>2. k \in Nat /\ c[k] \in Nat
    BY <1>1
  <1>3. CASE k < m
    <2>1. k + 1 \in 1 .. m /\ (k + 1) - 1 = k
      BY <1>1, <1>2, <1>3
    <2>2. PICK o : o = outs[k + 1]
      OBVIOUS
    <2>3. Takes(pr, o) /\ c[k + 1] = c[k] + Len(Frame(pr, o)) /\ Holds(w, c[k], Frame(pr, o))
      BY <2>1, <2>2 DEF Laid
    <2>4. CASE o = Refusal
      <3>1. pr = "EPP"
        BY <2>3, <2>4, PayloadFrame DEF Takes
      <3>2. Frame(pr, o) = PutUint(1) /\ 1 \in 0 .. Span - 1 /\ 1 \in Nat
        BY <2>4, BaseType DEF Frame
      <3>3. Len(Frame(pr, o)) = HeaderLen /\ Uint(h) = 1
        BY <2>3, <3>2, PutType, SameBytes
      <3>4. QED
        BY <1>3, <2>2, <2>3, <2>4, <3>1, <3>3 DEF RefusedNext
    <2>5. CASE o # Refusal
      <3>1. o \in Payloads
        BY <2>3, <2>5 DEF Takes
      <3>2. PICK x : x = Len(o) + Extra(pr)
        OBVIOUS
      <3>3. /\ x \in 0 .. Span - 1 /\ o \in Seq(Bytes)
            /\ Frame(pr, o) = PutUint(x) \o o /\ Len(Frame(pr, o)) = HeaderLen + Len(o)
        BY <3>1, <3>2, PayloadFrame
      <3>4. PutUint(x) \in Seq(Bytes) /\ Len(PutUint(x)) = HeaderLen
        BY <3>3, BaseType, PutType
      <3>5. Holds(w, c[k], PutUint(x)) /\ Holds(w, c[k] + HeaderLen, o)
        <4>1. Holds(w, c[k], PutUint(x) \o o)
          BY <2>3, <3>3
        <4>2. QED
          BY <1>1, <1>2, <3>3, <3>4, <4>1, HoldsBoth
      <3>6. Uint(h) = x
        BY <3>3, <3>5, SameBytes
      <3>7. c[k + 1] = c[k] + (HeaderLen + Len(o))
        BY <2>3, <3>3
      <3>8. QED
        BY <1>3, <2>2, <2>3, <3>1, <3>2, <3>5, <3>6, <3>7 DEF TakenNext
    <2>6. QED
      BY <2>4, <2>5
  <1>4. CASE k = m
    <2>1. c[k] + HeaderLen <= Len(w)
      BY <1>4 DEF Holds
    <2>2. ~NothingMore(pr, outs, ow, ln, w, c, m)
      BY <1>1, <1>2, <1>4, <2>1 DEF NothingMore, HeaderLen
    <2>3. CASE PayloadOwed(pr, outs, ow, ln, w, c, m)
      <3>1. PICK p \in Payloads : /\ p # <<>> /\ Takes(pr, p)
                                  /\ Holds(w, c[m], PutUint(Len(p) + Extra(pr)))
                                  /\ Len(w) = c[m] + HeaderLen
        BY <2>3 DEF PayloadOwed
      <3>2. Len(p) + Extra(pr) \in 0 .. Span - 1 /\ p \in Seq(Bytes) /\ Len(p) \in Nat
        BY PayloadFrame
      <3>3. Uint(h) = Len(p) + Extra(pr) /\ ~Rejects(pr, Uint(h))
        <4>1. Uint(h) = Len(p) + Extra(pr)
          BY <1>4, <3>1, <3>2, SameBytes
        <4>2. QED
          BY <3>1, <4>1, TakenIsNotRejected
      <3>4. Len(p) # 0
        BY <3>1, <3>2, EmptySeq
      <3>5. Extra(pr) \in Nat
        BY DEF Extra, HeaderLen
      <3>6. ASSUME NEW n \in Nat, n + Extra(pr) = Uint(h) PROVE Len(w) < (c[k] + HeaderLen) + n
        <4>1. n = Len(p)
          BY <3>2, <3>3, <3>5, <3>6
        <4>2. QED
          BY <1>1, <1>2, <1>4, <3>1, <3>2, <3>4, <4>1
      <3>7. QED
        BY <1>4, <3>3, <3>6 DEF ShortNext
    <2>4. CASE Overclaimed(pr, outs, ow, ln, w, c, m)
      <3>1. pr = "EPP"
        BY <2>4 DEF Overclaimed
      <3>2. PICK p \in Payloads : /\ Holds(w, c[m], PutUint(Len(p) + HeaderLen + Overclaim))
                                  /\ Len(w) = c[m] + HeaderLen + Len(p)
        BY <2>4 DEF Overclaimed
      <3>3. /\ Len(p) + HeaderLen + Overclaim \in 0 .. Span - 1 /\ Len(p) \in Nat
            /\ Overclaim \in Nat \ {0}
        BY PayloadFrame, FramingAssumption
      <3>4. Uint(h) = Len(p) + HeaderLen + Overclaim
        BY <1>4, <3>2, <3>3, SameBytes
      <3>5. ~Rejects(pr, Uint(h))
        BY <3>1, <3>3, <3>4 DEF Rejects, HeaderLen
      <3>6. ASSUME NEW n \in Nat, n + Extra(pr) = Uint(h) PROVE Len(w) < (c[k] + HeaderLen) + n
        <4>1. n + 4 = Len(p) + 4 + Overclaim
          BY <3>1, <3>4, <3>6 DEF Extra, HeaderLen
        <4>2. n = Len(p) + Overclaim
          BY <3>3, <3>6, <4>1, Uncounted
        <4>3. Len(w) = (c[k] + HeaderLen) + Len(p)
          BY <1>4, <3>2
        <4>4. c[k] + HeaderLen \in Nat
          BY <1>2 DEF HeaderLen
        <4>5. QED
          BY <3>3, <4>2, <4>3, <4>4, FallsShort
      <3>7. QED
        BY <1>4, <3>5, <3>6 DEF ShortNext
    <2>5. CASE Hopeless(pr, outs, ow, ln, w, c, m)
      <3>1. m < Len(outs) /\ pr = "RRI" /\ outs[m + 1] = Refusal
        BY <2>5 DEF Hopeless
      <3>2. PICK v \in 0 .. Span - 1 : Rejects(pr, v) /\ Holds(w, c[m], PutUint(v))
        BY <2>5 DEF Hopeless
      <3>3. Uint(h) = v
        BY <1>4, <3>2, SameBytes
      <3>4. QED
        BY <1>4, <3>1, <3>2, <3>3 DEF HopelessNext
    <2>6. QED
      BY <2>2, <2>3, <2>4, <2>5 DEF Ends
  <1>5. QED
    BY <1>1, <1>2, <1>3, <1>4


(* The reader goes over a piece of what is before it. *)
LEMMA BeforeNext ==
  ASSUME NEW pr, NEW outs \in Seq(Payloads \cup {Refusal}), NEW w, NEW c, NEW m,
         Laid(pr, outs, w, c, m), NEW ln, NEW k, NEW u, Before(ln, k, u, w, c, m),
         NEW x \in Seq(Bytes), NEW s \in Seq(Bytes), u = x \o s, k < m, c[k + 1] = c[k] + Len(x)
  PROVE  Before(ln, k + 1, s, w, c, m)
  <1>1. w \in Seq(Bytes) /\ m \in Nat /\ c \in [Nat -> Nat]
    BY LaidFacts
  <1>2. k \in 0 .. m /\ Holds(w, c[k], x \o s) /\ (ln = "open" => Len(w) = c[k] + Len(x \o s))
    BY DEF Before
  <1>3. k \in Nat /\ c[k] \in Nat /\ k + 1 \in 0 .. m
    BY <1>1, <1>2
  <1>4. Holds(w, c[k + 1], s)
    <2>1. PICK at \in Nat : at = c[k]
      BY <1>3
    <2>2. Holds(w, at, x \o s)
      BY <1>2, <2>1
    <2>3. Holds(w, at + Len(x), s)
      BY <1>1, <2>2, HoldsBoth
    <2>4. QED
      BY <2>1, <2>3
  <1>5. ASSUME ln = "open" PROVE Len(w) = c[k + 1] + Len(s)
    <2>1. Len(w) = c[k] + (Len(x) + Len(s)) /\ Len(x) \in Nat /\ Len(s) \in Nat
      BY <1>2, <1>5, Joined
    <2>2. c[k] + (Len(x) + Len(s)) = (c[k] + Len(x)) + Len(s)
      BY <1>3, <2>1, Moved
    <2>3. QED
      BY <2>1, <2>2
  <1>6. QED
    BY <1>3, <1>4, <1>5 DEF Before

LEMMA FlowRefuse ==
  ASSUME NEW pr \in {"EPP", "RRI"}, NEW outs \in Seq(Payloads \cup {Refusal}), NEW ow, NEW ln, NEW k,
         NEW u, NEW live, live, Flow(pr, outs, ow, ln, k, u, live),
         NEW h \in Seq(Bytes), Len(h) = HeaderLen, NEW s \in Seq(Bytes), u = h \o s,
         Rejects(pr, Uint(h)), NEW live2, live2 => pr = "EPP"
  PROVE  /\ k < Len(outs) /\ outs[k + 1] = Refusal
         /\ Flow(pr, outs, ow, ln, k + 1, s, live2)
  <1>1. PICK w, c, m : /\ Laid(pr, outs, w, c, m)
                       /\ Ends(pr, outs, ow, ln, w, c, m)
                       /\ Before(ln, k, u, w, c, m)
    BY DEF Flow
  <1>2. /\ w \in Seq(Bytes) /\ Len(outs) \in Nat /\ m \in Nat /\ m <= Len(outs)
        /\ c \in [Nat -> Nat]
    BY <1>1, LaidFacts
  <1>3. k \in 0 .. m /\ Holds(w, c[k], h \o s)
    BY <1>1 DEF Before
  <1>4. k \in Nat /\ c[k] \in Nat
    BY <1>2, <1>3
  <1>5. Holds(w, c[k], h)
    BY <1>2, <1>3, <1>4, HoldsBoth
  <1>6. CASE RefusedNext(pr, outs, c, m, k, Uint(h))
    <2>1. k < m /\ outs[k + 1] = Refusal /\ pr = "EPP" /\ c[k + 1] = c[k] + Len(h)
      BY <1>6 DEF RefusedNext
    <2>2. Before(ln, k + 1, s, w, c, m)
      BY <1>1, <2>1, BeforeNext
    <2>3. k < Len(outs)
      BY <1>2, <1>4, <2>1
    <2>4. QED
      BY <1>1, <2>1, <2>2, <2>3 DEF Flow
  <1>7. CASE TakenNext(pr, outs, w, c, m, k, Uint(h))
    BY <1>7, TakenIsNotRejected DEF TakenNext
  <1>8. CASE ShortNext(pr, w, c, m, k, Uint(h))
    BY <1>8 DEF ShortNext
  <1>9. CASE HopelessNext(pr, outs, m, k, Uint(h))
    <2>1. k < Len(outs) /\ pr = "RRI" /\ outs[k + 1] = Refusal
      BY <1>9 DEF HopelessNext
    <2>2. Flow(pr, outs, ow, ln, k + 1, s, live2)
      BY <1>1, <2>1 DEF Flow
    <2>3. QED
      BY <2>1, <2>2
  <1>10. QED
    BY <1>1, <1>3, <1>5, <1>6, <1>7, <1>8, <1>9, NextFrame

Readable(pr, outs, ow, ln, k, u, h, b, s) ==
  /\ pr \in {"EPP", "RRI"} /\ outs \in Seq(Payloads \cup {Refusal}) /\ u = (h \o b) \o s
  /\ h \in Seq(Bytes) /\ Len(h) = HeaderLen /\ b \in Seq(Bytes) /\ s \in Seq(Bytes)
  /\ ~Rejects(pr, Uint(h)) /\ Len(b) + Extra(pr) = Uint(h)

LEMMA FlowRead ==
  ASSUME NEW pr, NEW outs, NEW ow, NEW ln, NEW k, NEW u, NEW live, NEW h, NEW b, NEW s,
         live, Flow(pr, outs, ow, ln, k, u, live), Readable(pr, outs, ow, ln, k, u, h, b, s)
  PROVE  k < Len(outs) /\ outs[k + 1] = b /\ Flow(pr, outs, ow, ln, k + 1, s, live)
  <1>0. /\ pr \in {"EPP", "RRI"} /\ outs \in Seq(Payloads \cup {Refusal}) /\ u = (h \o b) \o s
        /\ h \in Seq(Bytes) /\ Len(h) = HeaderLen /\ b \in Seq(Bytes) /\ s \in Seq(Bytes)
        /\ ~Rejects(pr, Uint(h)) /\ Len(b) + Extra(pr) = Uint(h)
    BY DEF Readable
  <1>1. PICK w, c, m : /\ Laid(pr, outs, w, c, m)
                       /\ Ends(pr, outs, ow, ln, w, c, m)
                       /\ Before(ln, k, u, w, c, m)
    BY <1>0 DEF Flow
  <1>2. /\ w \in Seq(Bytes) /\ Len(w) \in Nat /\ Len(outs) \in Nat /\ m \in Nat /\ m <= Len(outs)
        /\ c \in [Nat -> Nat]
    BY <1>0, <1>1, LaidFacts
  <1>3. PICK x : x = h \o b
    OBVIOUS
  <1>4. x \in Seq(Bytes) /\ Len(x) = HeaderLen + Len(b) /\ Len(b) \in Nat /\ u = x \o s
    BY <1>0, <1>3, Joined
  <1>5. k \in 0 .. m /\ Holds(w, c[k], x \o s)
    BY <1>0, <1>1, <1>4 DEF Before
  <1>6. k \in Nat /\ c[k] \in Nat
    BY <1>0, <1>2, <1>5
  <1>7. Holds(w, c[k], x)
    BY <1>0, <1>2, <1>4, <1>5, <1>6, HoldsBoth
  <1>8. Holds(w, c[k], h) /\ Holds(w, c[k] + HeaderLen, b)
    <2>1. Holds(w, c[k], h \o b)
      BY <1>0, <1>3, <1>7
    <2>2. QED
      BY <1>0, <1>2, <1>6, <2>1, HoldsBoth
  <1>9. CASE TakenNext(pr, outs, w, c, m, k, Uint(h))
    <2>1. PICK p \in Payloads : p = outs[k + 1]
      BY <1>0, <1>9 DEF TakenNext
    <2>2. /\ k < m /\ Uint(h) = Len(p) + Extra(pr) /\ c[k + 1] = c[k] + (HeaderLen + Len(p))
          /\ Holds(w, c[k] + HeaderLen, p)
      BY <1>0, <1>9, <2>1 DEF TakenNext
    <2>3. p \in Seq(Bytes) /\ Len(p) \in Nat /\ Extra(pr) \in Nat
      BY PayloadFrame DEF Extra, HeaderLen
    <2>4. Len(b) = Len(p)
      BY <1>0, <1>4, <2>2, <2>3
    <2>5. b = p
      <3>1. \A j \in 1 .. Len(b) : b[j] = p[j]
        BY <1>0, <1>8, <2>2, <2>4 DEF Holds
      <3>2. QED
        BY <1>0, <2>3, <2>4, <3>1, SeqEqual
    <2>6. Before(ln, k + 1, s, w, c, m)
      <3>1. c[k + 1] = c[k] + Len(x)
        BY <1>0, <1>4, <2>2, <2>4
      <3>2. QED
        BY <1>0, <1>1, <1>4, <2>2, <3>1, BeforeNext
    <2>7. k < Len(outs)
      BY <1>0, <1>2, <1>6, <2>2
    <2>8. QED
      BY <1>0, <1>1, <2>1, <2>5, <2>6, <2>7 DEF Flow
  <1>10. CASE ShortNext(pr, w, c, m, k, Uint(h))
    <2>1. Len(w) < (c[k] + HeaderLen) + Len(b)
      BY <1>0, <1>4, <1>10 DEF ShortNext
    <2>2. (c[k] + HeaderLen) + Len(b) <= Len(w)
      BY <1>0, <1>8 DEF Holds
    <2>3. (c[k] + HeaderLen) + Len(b) \in Nat
      BY <1>0, <1>4, <1>6 DEF HeaderLen
    <2>4. QED
      BY <1>0, <1>2, <2>1, <2>2, <2>3, NotBoth, Zenon
  <1>11. CASE RefusedNext(pr, outs, c, m, k, Uint(h))
    BY <1>0, <1>11 DEF RefusedNext, Rejects, HeaderLen
  <1>12. CASE HopelessNext(pr, outs, m, k, Uint(h))
    BY <1>0, <1>12 DEF HopelessNext
  <1>13. QED
    BY <1>0, <1>1, <1>5, <1>8, <1>9, <1>10, <1>11, <1>12, NextFrame

-----------------------------------------------------------------------------
(***************************************************************************)
(* The invariant.  Held is what the reader has taken of the frame it is    *)
(* reading, with the header it came under.                                 *)
(***************************************************************************)
Held ==
  CASE reader = "header" -> got
    [] reader = "body" -> PutUint(Len(got) + need + Counted) \o got
    [] OTHER -> <<>>

Unread == Held \o stream

(* RRI readers give up at a refusal. *)
Live == reader \in {"header", "body"} \/ (reader = "refused" /\ proto = "EPP")

Outcome == Payloads \cup {Refusal}

Types ==
  /\ proto \in {"EPP", "RRI"}
  /\ owed = <<>> \/ \E p \in Payloads : owed = <<p>>
  /\ stream \in Seq(Bytes)
  /\ line \in {"open", "closed", "lost"}
  /\ reader \in {"header", "body", "refused", "ended"}
  /\ need \in 0 .. Span
  /\ got \in Seq(Bytes)
  /\ sent \in Seq(Outcome)

(* How much the reader waits for. *)
ReaderInv ==
  /\ reader = "header" => need \in Nat \ {0} /\ Len(got) + need = HeaderLen
  /\ reader = "body" => /\ need \in Nat \ {0}
                        /\ Len(got) + need + Counted \in 0 .. Span - 1
                        /\ ~Refused(Len(got) + need + Counted)

ReadInv ==
  /\ read \in Seq(Outcome) /\ Len(read) <= Len(sent)
  /\ \A i \in 1 .. Len(read) : read[i] = sent[i]

FlowInv ==
  \E pr, outs, ow, ln, k, u, live :
    /\ pr = proto /\ outs = sent /\ ow = owed /\ ln = line /\ k = Len(read) /\ u = Unread
    /\ live = Live
    /\ Flow(pr, outs, ow, ln, k, u, live)

Inv == Types /\ ReaderInv /\ ReadInv /\ FlowInv

-----------------------------------------------------------------------------
LEMMA ExtraIsCounted ==
  ASSUME proto \in {"EPP", "RRI"}
  PROVE  /\ Counted = Extra(proto) /\ Counted \in Nat
         /\ \A p : Length(p) = Len(p) + Extra(proto)
         /\ \A v : Refused(v) <=> Rejects(proto, v)
         /\ \A p \in Payloads : Unfit(p) <=> ~Takes(proto, p)
  <1>1. Counted = Extra(proto) /\ Counted \in Nat
    BY DEF Counted, Extra, HeaderLen
  <1>2. \A p : Length(p) = Len(p) + Extra(proto)
    BY <1>1 DEF Length
  <1>3. \A v : Refused(v) <=> Rejects(proto, v)
    BY DEF Refused, Rejects
  <1>4. \A p \in Payloads : Unfit(p) <=> ~Takes(proto, p)
    BY DEF Unfit, Takes
  <1>5. QED
    BY <1>1, <1>2, <1>3, <1>4

LEMMA HeldType ==
  ASSUME Types, ReaderInv
  PROVE  Held \in Seq(Bytes) /\ Unread \in Seq(Bytes)
  <1>1. got \in Seq(Bytes) /\ stream \in Seq(Bytes) /\ <<>> \in Seq(Bytes)
    BY EmptySeq DEF Types
  <1>2. CASE reader = "header"
    <2>1. Held = got
      BY <1>2 DEF Held
    <2>2. QED
      BY <1>1, <2>1, Joined DEF Unread
  <1>3. CASE reader = "body"
    <2>1. Len(got) + need + Counted \in Nat
      BY <1>3, BaseType DEF ReaderInv
    <2>2. PutUint(Len(got) + need + Counted) \in Seq(Bytes)
      BY <2>1, PutType
    <2>3. Held = PutUint(Len(got) + need + Counted) \o got
      BY <1>3 DEF Held
    <2>4. Held \in Seq(Bytes)
      BY <1>1, <2>2, <2>3, Joined
    <2>5. QED
      BY <1>1, <2>4, Joined DEF Unread
  <1>4. CASE reader \notin {"header", "body"}
    <2>1. Held = <<>>
      BY <1>4 DEF Held
    <2>2. QED
      BY <1>1, <2>1, Joined DEF Unread
  <1>5. QED
    BY <1>2, <1>3, <1>4

(* What the writer does changes nothing the reader holds. *)
LEMMA HeldStays ==
  ASSUME UNCHANGED <<proto, reader, need, got>>
  PROVE  Held' = Held /\ Live' = Live /\ (ReaderInv => ReaderInv')
  <1>1. Counted' = Counted
    BY DEF Counted
  <1>2. Held' = Held
    BY <1>1 DEF Held
  <1>3. \A v : Refused(v)' <=> Refused(v)
    BY DEF Refused
  <1>4. ReaderInv => ReaderInv'
    BY <1>1 DEF ReaderInv, Refused
  <1>5. Live' = Live
    BY DEF Live
  <1>6. QED
    BY <1>2, <1>4, <1>5

LEMMA FlowOfInv ==
  ASSUME FlowInv
  PROVE  Flow(proto, sent, owed, line, Len(read), Unread, Live)
  BY DEF FlowInv

LEMMA InvOfFlow ==
  ASSUME NEW pr, NEW outs, NEW ow, NEW ln, NEW k, NEW u, NEW live,
         Flow(pr, outs, ow, ln, k, u, live),
         pr = proto', outs = sent', ow = owed', ln = line', k = Len(read'), u = Unread', live = Live'
  PROVE  FlowInv'
  BY DEF FlowInv

(* The writer adds the bytes s. *)
LEMMA UnreadGrows ==
  ASSUME Types, ReaderInv, UNCHANGED <<proto, reader, need, got>>,
         NEW s \in Seq(Bytes), stream' = stream \o s
  PROVE  Unread' = Unread \o s /\ stream' \in Seq(Bytes)
  <1>1. Held' = Held
    BY HeldStays
  <1>2. Held \in Seq(Bytes) /\ stream \in Seq(Bytes)
    BY HeldType DEF Types
  <1>3. (Held \o stream) \o s = Held \o (stream \o s)
    BY <1>2, Regrouped
  <1>4. stream \o s \in Seq(Bytes)
    BY <1>2, Joined
  <1>5. QED
    BY <1>1, <1>3, <1>4 DEF Unread

(* More is owed than before, and the reader has returned nothing. *)
LEMMA ReadStays ==
  ASSUME ReadInv, read' = read, NEW o, OneMoreOf(sent, o, sent') \/ sent' = sent
  PROVE  ReadInv'
  <1>1. /\ read \in Seq(Outcome) /\ Len(read) <= Len(sent)
        /\ \A i \in 1 .. Len(read) : read[i] = sent[i]
    BY DEF ReadInv
  <1>2. CASE sent' = sent
    BY <1>1, <1>2 DEF ReadInv, Outcome
  <1>3. CASE OneMoreOf(sent, o, sent')
    <2>1. /\ Len(sent') \in Nat /\ Len(sent') = Len(sent) + 1 /\ Len(sent) <= Len(sent')
          /\ \A i \in 1 .. Len(sent) : sent'[i] = sent[i]
      BY <1>3 DEF OneMoreOf
    <2>2. Len(read) \in Nat
      BY <1>1, LenProperties
    <2>3. QED
      BY <1>1, <2>1, <2>2 DEF ReadInv, Outcome
  <1>4. QED
    BY <1>2, <1>3

-----------------------------------------------------------------------------
(* Every step keeps the invariant: first those of the writer. *)
LEMMA OnWriteHeader ==
  ASSUME Inv, NEW p \in Payloads, WriteHeader(p)
  PROVE  Inv'
  <1>1. Types /\ ReaderInv /\ ReadInv /\ FlowInv
    BY DEF Inv
  <1>2. /\ line = "open" /\ owed = <<>> /\ UNCHANGED <<proto, line, reader, need, got, read>>
        /\ stream' = stream \o PutUint(Length(p))
        /\ sent' = IF Unfit(p) THEN Append(sent, Refusal)
                   ELSE IF p = <<>> THEN Append(sent, p) ELSE sent
        /\ owed' = IF p = <<>> THEN <<>> ELSE <<p>>
    BY DEF WriteHeader, CanWrite
  <1>3. proto \in {"EPP", "RRI"} /\ sent \in Seq(Outcome) /\ p \in Outcome /\ Refusal \in Outcome
    BY <1>1 DEF Types, Outcome
  <1>4. Length(p) = Len(p) + Extra(proto) /\ (Unfit(p) <=> ~Takes(proto, p))
    BY <1>3, ExtraIsCounted
  <1>5. PutUint(Length(p)) \in Seq(Bytes)
    <2>1. Len(p) + Extra(proto) \in 0 .. Span - 1
      BY PayloadFrame
    <2>2. Length(p) \in Nat
      BY <1>4, <2>1, BaseType
    <2>3. QED
      BY <2>2, PutType
  <1>6. Unread' = Unread \o PutUint(Length(p)) /\ stream' \in Seq(Bytes)
    BY <1>1, <1>2, <1>5, UnreadGrows
  <1>7. Live' = Live /\ ReaderInv'
    BY <1>1, <1>2, HeldStays
  <1>8. /\ sent' \in Seq(Outcome)
        /\ IF ~Takes(proto, p) THEN OneMoreOf(sent, Refusal, sent')
           ELSE IF p = <<>> THEN OneMoreOf(sent, p, sent') ELSE sent' = sent
    <2>1. \A o \in Outcome : Append(sent, o) \in Seq(Outcome) /\ OneMoreOf(sent, o, Append(sent, o))
      BY <1>3, Appended
    <2>2. QED
      BY <1>2, <1>3, <1>4, <2>1
  <1>9. ReadInv'
    <2>1. \E o : OneMoreOf(sent, o, sent') \/ sent' = sent
      BY <1>8
    <2>2. QED
      BY <1>1, <1>2, <2>1, ReadStays
  <1>10. Types'
    BY <1>1, <1>2, <1>6, <1>8 DEF Types
  <1>11. FlowInv'
    <2>1. PICK pr, outs, k, u, live :
            /\ pr = proto /\ outs = sent /\ k = Len(read) /\ u = Unread /\ live = Live
            /\ Flow(pr, outs, <<>>, "open", k, u, live)
      BY <1>1, <1>2, FlowOfInv
    <2>2. PICK outs2, ow2, u2 : outs2 = sent' /\ ow2 = owed' /\ u2 = Unread'
      OBVIOUS
    <2>3. pr \in {"EPP", "RRI"} /\ outs \in Seq(Payloads \cup {Refusal}) /\ u \in Seq(Bytes)
      BY <1>1, <1>3, <2>1, HeldType DEF Outcome
    <2>4. /\ u2 = u \o PutUint(Len(p) + Extra(pr))
          /\ IF ~Takes(pr, p) THEN OneMoreOf(outs, Refusal, outs2)
             ELSE IF p = <<>> THEN OneMoreOf(outs, p, outs2) ELSE outs2 = outs
          /\ ow2 = IF p = <<>> THEN <<>> ELSE <<p>>
      BY <1>2, <1>4, <1>6, <1>8, <2>1, <2>2
    <2>5. Flow(pr, outs2, ow2, "open", k, u2, live)
      BY <2>1, <2>3, <2>4, FlowHeader
    <2>6. pr = proto' /\ line' = "open" /\ k = Len(read') /\ live = Live'
      BY <1>2, <1>7, <2>1
    <2>7. QED
      BY <2>2, <2>5, <2>6, InvOfFlow
  <1>12. QED
    BY <1>7, <1>9, <1>10, <1>11 DEF Inv

LEMMA OnWritePayload ==
  ASSUME Inv, WritePayload
  PROVE  Inv'
  <1>1. Types /\ ReaderInv /\ ReadInv /\ FlowInv
    BY DEF Inv
  <1>2. PICK p \in Payloads : owed = <<p>>
    BY <1>1 DEF Types, WritePayload
  <1>3. /\ line = "open" /\ UNCHANGED <<proto, line, reader, need, got, read>>
        /\ stream' = stream \o p /\ owed' = <<>>
        /\ sent' = IF Unfit(p) THEN sent ELSE Append(sent, p)
    BY <1>2 DEF WritePayload
  <1>4. proto \in {"EPP", "RRI"} /\ sent \in Seq(Outcome) /\ p \in Outcome /\ p \in Seq(Bytes)
    BY <1>1, PayloadFrame DEF Types, Outcome
  <1>5. Unfit(p) <=> ~Takes(proto, p)
    BY <1>4, ExtraIsCounted
  <1>6. Unread' = Unread \o p /\ stream' \in Seq(Bytes)
    BY <1>1, <1>3, <1>4, UnreadGrows
  <1>7. Live' = Live /\ ReaderInv'
    BY <1>1, <1>3, HeldStays
  <1>8. /\ sent' \in Seq(Outcome)
        /\ IF ~Takes(proto, p) THEN sent' = sent ELSE OneMoreOf(sent, p, sent')
    <2>1. Append(sent, p) \in Seq(Outcome) /\ OneMoreOf(sent, p, Append(sent, p))
      BY <1>4, Appended
    <2>2. QED
      BY <1>3, <1>4, <1>5, <2>1
  <1>9. ReadInv'
    <2>1. OneMoreOf(sent, p, sent') \/ sent' = sent
      BY <1>8
    <2>2. QED
      BY <1>1, <1>3, <2>1, ReadStays
  <1>10. Types'
    BY <1>1, <1>3, <1>6, <1>8 DEF Types
  <1>11. FlowInv'
    <2>1. PICK pr, outs, k, u, live :
            /\ pr = proto /\ outs = sent /\ k = Len(read) /\ u = Unread /\ live = Live
            /\ Flow(pr, outs, <<p>>, "open", k, u, live)
      BY <1>1, <1>2, <1>3, FlowOfInv
    <2>2. PICK outs2, u2 : outs2 = sent' /\ u2 = Unread'
      OBVIOUS
    <2>3. pr \in {"EPP", "RRI"} /\ outs \in Seq(Payloads \cup {Refusal}) /\ u \in Seq(Bytes)
      BY <1>1, <1>4, <2>1, HeldType DEF Outcome
    <2>4. /\ u2 = u \o p
          /\ IF ~Takes(pr, p) THEN outs2 = outs ELSE OneMoreOf(outs, p, outs2)
      BY <1>6, <1>8, <2>1, <2>2
    <2>5. Flow(pr, outs2, <<>>, "open", k, u2, live)
      BY <2>1, <2>3, <2>4, FlowPayload
    <2>6. pr = proto' /\ owed' = <<>> /\ line' = "open" /\ k = Len(read') /\ live = Live'
      BY <1>3, <1>7, <2>1
    <2>7. QED
      BY <2>2, <2>5, <2>6, InvOfFlow
  <1>12. QED
    BY <1>7, <1>9, <1>10, <1>11 DEF Inv

LEMMA OnWriteBareHeader ==
  ASSUME Inv, WriteBareHeader
  PROVE  Inv'
  <1>1. Types /\ ReaderInv /\ ReadInv /\ FlowInv
    BY DEF Inv
  <1> DEFINE v == IF proto = "EPP" THEN 1 ELSE 0
  <1>2. /\ line = "open" /\ owed = <<>> /\ UNCHANGED <<proto, owed, line, reader, need, got, read>>
        /\ stream' = stream \o PutUint(v) /\ sent' = Append(sent, Refusal)
    BY DEF WriteBareHeader, CanWrite
  <1>3. proto \in {"EPP", "RRI"} /\ sent \in Seq(Outcome) /\ Refusal \in Outcome
    BY <1>1 DEF Types, Outcome
  <1>4. PutUint(v) \in Seq(Bytes)
    BY PutType
  <1> HIDE DEF v
  <1>5. Unread' = Unread \o PutUint(v) /\ stream' \in Seq(Bytes)
    BY <1>1, <1>2, <1>4, UnreadGrows
  <1>6. Live' = Live /\ ReaderInv'
    BY <1>1, <1>2, HeldStays
  <1>7. sent' \in Seq(Outcome) /\ OneMoreOf(sent, Refusal, sent')
    BY <1>2, <1>3, Appended
  <1>8. ReadInv'
    BY <1>1, <1>2, <1>7, ReadStays
  <1>9. Types'
    BY <1>1, <1>2, <1>5, <1>7 DEF Types
  <1>10. FlowInv'
    <2>1. PICK pr, outs, k, u, live :
            /\ pr = proto /\ outs = sent /\ k = Len(read) /\ u = Unread /\ live = Live
            /\ Flow(pr, outs, <<>>, "open", k, u, live)
      BY <1>1, <1>2, FlowOfInv
    <2>2. PICK outs2, u2 : outs2 = sent' /\ u2 = Unread'
      OBVIOUS
    <2>3. pr \in {"EPP", "RRI"} /\ outs \in Seq(Payloads \cup {Refusal}) /\ u \in Seq(Bytes)
      BY <1>1, <1>3, <2>1, HeldType DEF Outcome
    <2>4. u2 = u \o PutUint(IF pr = "EPP" THEN 1 ELSE 0) /\ OneMoreOf(outs, Refusal, outs2)
      BY <1>5, <1>7, <2>1, <2>2 DEF v
    <2>5. Flow(pr, outs2, <<>>, "open", k, u2, live)
      BY <2>1, <2>3, <2>4, FlowBare
    <2>6. pr = proto' /\ owed' = <<>> /\ line' = "open" /\ k = Len(read') /\ live = Live'
      BY <1>2, <1>6, <2>1
    <2>7. QED
      BY <2>2, <2>5, <2>6, InvOfFlow
  <1>11. QED
    BY <1>6, <1>8, <1>9, <1>10 DEF Inv

LEMMA OnWriteOverclaim ==
  ASSUME Inv, NEW p \in Payloads, WriteOverclaim(p)
  PROVE  Inv'
  <1>1. Types /\ ReaderInv /\ ReadInv /\ FlowInv
    BY DEF Inv
  <1>2. /\ line = "open" /\ owed = <<>> /\ proto = "EPP" /\ line' = "closed"
        /\ UNCHANGED <<proto, owed, sent, reader, need, got, read>>
        /\ stream' = stream \o PutUint(Len(p) + HeaderLen + Overclaim) \o p
    BY DEF WriteOverclaim, CanWrite, writing
  <1>3. PICK s : s = PutUint(Len(p) + HeaderLen + Overclaim) \o p
    OBVIOUS
  <1>4. s \in Seq(Bytes) /\ stream' = stream \o s
    <2>1. Len(p) + HeaderLen + Overclaim \in 0 .. Span - 1 /\ p \in Seq(Bytes)
      BY PayloadFrame
    <2>2. Len(p) + HeaderLen + Overclaim \in Nat
      BY <2>1, BaseType
    <2>3. PICK h \in Seq(Bytes) : h = PutUint(Len(p) + HeaderLen + Overclaim)
      BY <2>2, PutType
    <2>4. s = h \o p /\ stream' = (stream \o h) \o p /\ stream \in Seq(Bytes)
      BY <1>1, <1>2, <1>3, <2>3 DEF Types
    <2>5. s \in Seq(Bytes)
      BY <2>1, <2>4, Joined
    <2>6. (stream \o h) \o p = stream \o (h \o p)
      BY <2>1, <2>4, Regrouped
    <2>7. QED
      BY <2>4, <2>5, <2>6
  <1>5. Unread' = Unread \o s /\ stream' \in Seq(Bytes)
    BY <1>1, <1>2, <1>4, UnreadGrows
  <1>6. Live' = Live /\ ReaderInv'
    BY <1>1, <1>2, HeldStays
  <1>7. ReadInv'
    BY <1>1, <1>2, ReadStays
  <1>8. Types'
    BY <1>1, <1>2, <1>5 DEF Types
  <1>9. FlowInv'
    <2>1. PICK outs, k, u, live :
            /\ outs = sent /\ k = Len(read) /\ u = Unread /\ live = Live
            /\ Flow("EPP", outs, <<>>, "open", k, u, live)
      BY <1>1, <1>2, FlowOfInv
    <2>2. PICK u2 : u2 = Unread'
      OBVIOUS
    <2>3. outs \in Seq(Payloads \cup {Refusal}) /\ u \in Seq(Bytes)
      BY <1>1, <2>1, HeldType DEF Types, Outcome
    <2>4. u2 = u \o (PutUint(Len(p) + HeaderLen + Overclaim) \o p)
      BY <1>3, <1>5, <2>1, <2>2
    <2>5. Flow("EPP", outs, <<>>, "closed", k, u2, live)
      BY <2>1, <2>3, <2>4, FlowOverclaim
    <2>6. /\ proto' = "EPP" /\ outs = sent' /\ owed' = <<>> /\ line' = "closed"
          /\ k = Len(read') /\ live = Live'
      BY <1>2, <1>6, <2>1
    <2>7. QED
      BY <2>2, <2>5, <2>6, InvOfFlow
  <1>10. QED
    BY <1>6, <1>7, <1>8, <1>9 DEF Inv

(* The connection ends. *)
LEMMA OnLineEnds ==
  ASSUME Inv, UNCHANGED <<proto, owed, sent, reader, need, got, read>>,
         line' \in {"closed", "lost"}, stream' \in Prefixes(stream)
  PROVE  Inv'
  <1>1. Types /\ ReaderInv /\ ReadInv /\ FlowInv
    BY DEF Inv
  <1>2. /\ stream' \in Seq(Bytes) /\ Len(stream') \in Nat /\ Len(stream') <= Len(stream)
        /\ \A i \in 1 .. Len(stream') : stream'[i] = stream[i]
    BY <1>1, PrefixFacts DEF Types
  <1>3. Held' = Held /\ Live' = Live /\ ReaderInv'
    BY <1>1, HeldStays
  <1>4. ReadInv'
    BY <1>1, ReadStays
  <1>5. Types'
    BY <1>1, <1>2 DEF Types
  <1>6. /\ Unread' \in Seq(Bytes) /\ Len(Unread') <= Len(Unread)
        /\ \A i \in 1 .. Len(Unread') : Unread'[i] = Unread[i]
    <2>1. PICK x, t, t2 : x = Held /\ t = stream /\ t2 = stream'
      OBVIOUS
    <2>2. /\ x \in Seq(Bytes) /\ t \in Seq(Bytes) /\ t2 \in Seq(Bytes) /\ Len(t2) <= Len(t)
          /\ \A i \in 1 .. Len(t2) : t2[i] = t[i]
      BY <1>1, <1>2, <2>1, HeldType DEF Types
    <2>3. /\ x \o t2 \in Seq(Bytes) /\ Len(x \o t2) = Len(x) + Len(t2)
          /\ Len(x \o t) = Len(x) + Len(t) /\ Len(x) \in Nat /\ Len(t) \in Nat /\ Len(t2) \in Nat
          /\ \A i \in 1 .. Len(x) + Len(t2) :
               (x \o t2)[i] = IF i <= Len(x) THEN x[i] ELSE t2[i - Len(x)]
          /\ \A i \in 1 .. Len(x) + Len(t) :
               (x \o t)[i] = IF i <= Len(x) THEN x[i] ELSE t[i - Len(x)]
      BY <2>2, ConcatProperties, LenProperties
    <2>4. Len(x \o t2) <= Len(x \o t)
      BY <2>2, <2>3
    <2>5. ASSUME NEW i \in 1 .. Len(x \o t2) PROVE (x \o t2)[i] = (x \o t)[i]
      <3>1. i \in 1 .. Len(x) + Len(t2) /\ i \in 1 .. Len(x) + Len(t)
        BY <2>2, <2>3
      <3>2. CASE i <= Len(x)
        BY <2>3, <3>1, <3>2
      <3>3. CASE ~(i <= Len(x))
        <4>1. i - Len(x) \in 1 .. Len(t2)
          BY <2>3, <3>1, <3>3
        <4>2. QED
          BY <2>2, <2>3, <3>1, <3>3, <4>1
      <3>4. QED
        BY <3>2, <3>3
    <2>6. Unread' = x \o t2 /\ Unread = x \o t
      BY <1>3, <2>1 DEF Unread
    <2>7. QED
      BY <2>3, <2>4, <2>5, <2>6
  <1>7. FlowInv'
    <2>1. PICK pr, outs, ow, ln, k, u, live :
            /\ pr = proto /\ outs = sent /\ ow = owed /\ ln = line /\ k = Len(read) /\ u = Unread
            /\ live = Live /\ Flow(pr, outs, ow, ln, k, u, live)
      BY <1>1, FlowOfInv
    <2>2. PICK u2, ln2 : u2 = Unread' /\ ln2 = line'
      OBVIOUS
    <2>3. outs \in Seq(Payloads \cup {Refusal}) /\ u \in Seq(Bytes) /\ ln2 # "open"
      BY <1>1, <2>1, <2>2, HeldType DEF Types, Outcome
    <2>4. u2 \in Seq(Bytes) /\ Len(u2) <= Len(u) /\ \A i \in 1 .. Len(u2) : u2[i] = u[i]
      BY <1>6, <2>1, <2>2
    <2>5. Flow(pr, outs, ow, ln2, k, u2, live)
      BY <2>1, <2>3, <2>4, FlowCut
    <2>6. pr = proto' /\ outs = sent' /\ ow = owed' /\ k = Len(read') /\ live = Live'
      BY <1>3, <2>1
    <2>7. QED
      BY <2>2, <2>5, <2>6, InvOfFlow
  <1>8. QED
    BY <1>3, <1>4, <1>5, <1>7 DEF Inv

LEMMA OnCloseLine ==
  ASSUME Inv, CloseLine
  PROVE  Inv'
  <1>1. stream' \in Prefixes(stream)
    <2>1. stream \in Seq(Bytes)
      BY DEF Inv, Types
    <2>2. SubSeq(stream, 1, Len(stream)) = stream /\ Len(stream) \in 0 .. Len(stream)
      BY <2>1, SubSeqFull, LenProperties
    <2>3. QED
      BY <2>2 DEF Prefixes, CloseLine
  <1>2. QED
    BY <1>1, OnLineEnds DEF CloseLine, writing

LEMMA OnLoseLine ==
  ASSUME Inv, LoseLine
  PROVE  Inv'
  BY OnLineEnds DEF LoseLine, writing

-----------------------------------------------------------------------------
(* And those of the reader. *)
LEMMA Taken ==
  ASSUME Inv, NEW n \in 1 .. Len(stream), n <= need
  PROVE  /\ SubSeq(stream, 1, n) \in Seq(Bytes) /\ Len(SubSeq(stream, 1, n)) = n
         /\ SubSeq(stream, n + 1, Len(stream)) \in Seq(Bytes)
         /\ got \o SubSeq(stream, 1, n) \in Seq(Bytes)
         /\ Len(got \o SubSeq(stream, 1, n)) = Len(got) + n
         /\ Len(got) \in Nat /\ n \in Nat \ {0} /\ need \in Nat
         /\ Unread = (Held \o SubSeq(stream, 1, n)) \o SubSeq(stream, n + 1, Len(stream))
  <1>1. /\ stream \in Seq(Bytes) /\ got \in Seq(Bytes) /\ need \in Nat /\ n \in Nat \ {0}
        /\ Held \in Seq(Bytes)
    BY HeldType, BaseType DEF Inv, Types
  <1>2. /\ SubSeq(stream, 1, n) \in Seq(Bytes) /\ Len(SubSeq(stream, 1, n)) = n
        /\ SubSeq(stream, n + 1, Len(stream)) \in Seq(Bytes)
        /\ (Held \o SubSeq(stream, 1, n)) \o SubSeq(stream, n + 1, Len(stream)) = Held \o stream
    <2>1. PICK x \in Seq(Bytes), t \in Seq(Bytes) : x = Held /\ t = stream
      BY <1>1
    <2>2. n \in 1 .. Len(t)
      BY <2>1
    <2>3. /\ SubSeq(t, 1, n) \in Seq(Bytes) /\ Len(SubSeq(t, 1, n)) = n
          /\ SubSeq(t, n + 1, Len(t)) \in Seq(Bytes)
          /\ (x \o SubSeq(t, 1, n)) \o SubSeq(t, n + 1, Len(t)) = x \o t
      BY <2>2, CutAndJoin
    <2>4. QED
      BY <2>1, <2>3
  <1>3. /\ got \o SubSeq(stream, 1, n) \in Seq(Bytes) /\ Len(got) \in Nat
        /\ Len(got \o SubSeq(stream, 1, n)) = Len(got) + n
    BY <1>1, <1>2, Joined
  <1>4. QED
    BY <1>1, <1>2, <1>3 DEF Unread

(* Bytes are taken that do not complete what ReadFull waits for, or the
   header is complete and a body follows: all that is before the reader is
   what was before it.                                                     *)
LEMMA OnSameUnread ==
  ASSUME Inv, UNCHANGED <<proto, owed, sent, line, read>>, Unread' = Unread,
         reader \in {"header", "body"}, reader' \in {"header", "body"},
         ReaderInv', need' \in 0 .. Span, got' \in Seq(Bytes), stream' \in Seq(Bytes)
  PROVE  Inv'
  <1>1. Types /\ ReadInv /\ FlowInv
    BY DEF Inv
  <1>2. ReadInv'
    BY <1>1, ReadStays
  <1>3. Types'
    BY <1>1 DEF Types
  <1>4. FlowInv'
    <2>1. PICK pr, outs, ow, ln, k, u, live :
            /\ pr = proto /\ outs = sent /\ ow = owed /\ ln = line /\ k = Len(read) /\ u = Unread
            /\ live = Live /\ Flow(pr, outs, ow, ln, k, u, live)
      BY <1>1, FlowOfInv
    <2>2. Live' = Live
      BY DEF Live
    <2>3. /\ pr = proto' /\ outs = sent' /\ ow = owed' /\ ln = line' /\ k = Len(read')
          /\ u = Unread' /\ live = Live'
      BY <2>1, <2>2
    <2>4. QED
      BY <2>1, <2>3, InvOfFlow
  <1>5. QED
    BY <1>2, <1>3, <1>4 DEF Inv

LEMMA OnMoreNeeded ==
  ASSUME Inv, NEW n \in 1 .. Len(stream), n <= need, reader \in {"header", "body"},
         stream' = SubSeq(stream, n + 1, Len(stream)), UNCHANGED <<proto, owed, sent, line>>,
         MoreNeeded(n)
  PROVE  Inv'
  <1>1. /\ n < need /\ need' = need - n /\ got' = got \o SubSeq(stream, 1, n)
        /\ reader' = reader /\ read' = read
    BY DEF MoreNeeded
  <1>2. /\ SubSeq(stream, 1, n) \in Seq(Bytes)
        /\ stream' \in Seq(Bytes) /\ got' \in Seq(Bytes) /\ Len(got') = Len(got) + n
        /\ Len(got) \in Nat /\ n \in Nat \ {0} /\ need \in Nat /\ got \in Seq(Bytes)
        /\ Unread = (Held \o SubSeq(stream, 1, n)) \o stream'
    BY <1>1, Taken DEF Inv, Types
  <1>3. /\ need' \in Nat \ {0} /\ need' \in 0 .. Span /\ Len(got') + need' = Len(got) + need
        /\ Counted' = Counted
    <2>1. need \in 0 .. Span /\ Span \in Nat
      BY BaseType DEF Inv, Types
    <2>2. QED
      BY <1>1, <1>2, <2>1 DEF Counted
  <1>4. Len(got') + need' + Counted' = Len(got) + need + Counted
    BY <1>3
  <1>5. ReaderInv'
    <2>1. ReaderInv
      BY DEF Inv
    <2>2. \A v : Refused(v)' <=> Refused(v)
      BY DEF Refused
    <2>3. QED
      BY <1>1, <1>3, <1>4, <2>1, <2>2 DEF ReaderInv, Refused
  <1>6. Held' = Held \o SubSeq(stream, 1, n)
    <2>1. CASE reader = "header"
      BY <1>1, <2>1 DEF Held
    <2>2. CASE reader = "body"
      <3>1. PICK V \in Nat : V = Len(got) + need + Counted
        BY <2>2, BaseType DEF Inv, ReaderInv
      <3>2. PICK h \in Seq(Bytes) : h = PutUint(V)
        BY PutType
      <3>3. PICK x \in Seq(Bytes) : x = SubSeq(stream, 1, n)
        BY <1>2
      <3>4. (h \o got) \o x = h \o (got \o x)
        <4>1. got \in Seq(Bytes)
          BY <1>2
        <4>2. QED
          BY <4>1, Regrouped
      <3>5. Held = h \o got
        BY <2>2, <3>1, <3>2 DEF Held
      <3>6. Held' = h \o got'
        <4>1. V = Len(got') + need' + Counted' /\ reader' = "body"
          BY <1>1, <1>4, <2>2, <3>1
        <4>2. Held' = PutUint(Len(got') + need' + Counted') \o got'
          BY <4>1 DEF Held, PutUint
        <4>3. QED
          BY <3>2, <4>1, <4>2
      <3>7. QED
        BY <1>1, <3>3, <3>4, <3>5, <3>6
    <2>3. QED
      BY <2>1, <2>2
  <1>7. Unread' = Unread
    BY <1>2, <1>6 DEF Unread
  <1>8. QED
    BY <1>1, <1>2, <1>3, <1>5, <1>7, OnSameUnread

(* A call returns the outcome o, the next one owed. *)
LEMMA ReadOne ==
  ASSUME Inv, NEW o, read' = Append(read, o), sent' = sent,
         Len(read) < Len(sent), sent[Len(read) + 1] = o
  PROVE  ReadInv' /\ Len(read') = Len(read) + 1
  <1>1. /\ read \in Seq(Outcome) /\ sent \in Seq(Outcome) /\ Len(read) \in Nat /\ Len(sent) \in Nat
        /\ \A i \in 1 .. Len(read) : read[i] = sent[i]
    BY LenProperties DEF Inv, ReadInv, Types
  <1>2. Len(read) + 1 \in 1 .. Len(sent)
    BY <1>1
  <1>3. o \in Outcome
    BY <1>1, <1>2, ElementOfSeq
  <1>4. read' \in Seq(Outcome) /\ OneMoreOf(read, o, read')
    BY <1>1, <1>3, Appended
  <1>5. /\ Len(read') = Len(read) + 1 /\ read'[Len(read) + 1] = o
        /\ \A i \in 1 .. Len(read) : read'[i] = read[i]
    BY <1>4 DEF OneMoreOf
  <1>6. ASSUME NEW i \in 1 .. Len(read') PROVE read'[i] = sent[i]
    <2>1. i \in 1 .. Len(read) \/ i = Len(read) + 1
      BY <1>1, <1>5, OneMore
    <2>2. QED
      BY <1>1, <1>5, <2>1
  <1>7. Len(read') <= Len(sent)
    BY <1>1, <1>5
  <1>8. QED
    BY <1>4, <1>5, <1>6, <1>7 DEF ReadInv, Outcome

LEMMA RefusedLengths ==
  ASSUME proto \in {"EPP", "RRI"}, NEW v \in 0 .. Span - 1, ~Refused(v)
  PROVE  BodyLen(v) \in Nat /\ BodyLen(v) + Counted = v /\ BodyLen(v) \in 0 .. Span
  <1>1. Span \in Nat
    BY BaseType
  <1>2. CASE proto = "EPP"
    BY <1>1, <1>2 DEF Refused, BodyLen, Counted, HeaderLen
  <1>3. CASE proto = "RRI"
    BY <1>1, <1>3 DEF Refused, BodyLen, Counted
  <1>4. QED
    BY <1>2, <1>3

(* A frame is over, and the reader goes on with what follows it or gives up. *)
LEMMA OnFrameOver ==
  ASSUME Inv, UNCHANGED <<proto, owed, sent, line>>, NEW o, read' = Append(read, o),
         Len(read) < Len(sent), sent[Len(read) + 1] = o,
         Flow(proto, sent, owed, line, Len(read) + 1, stream', Live'),
         \/ reader' = "refused"
         \/ reader' = "header" /\ need' = HeaderLen,
         need' \in 0 .. Span, got' = <<>>, stream' \in Seq(Bytes)
  PROVE  Inv'
  <1>1. Types
    BY DEF Inv
  <1>2. ReadInv' /\ Len(read') = Len(read) + 1
    BY ReadOne
  <1>3. <<>> \in Seq(Bytes) /\ Len(<<>>) = 0
    BY EmptySeq
  <1>4. Types'
    BY <1>1, <1>3 DEF Types
  <1>5. ReaderInv'
    <2>1. Len(got') = 0
      BY <1>3
    <2>2. reader' # "body"
      OBVIOUS
    <2>3. reader' = "header" => need' \in Nat \ {0} /\ Len(got') + need' = HeaderLen
      BY <2>1 DEF HeaderLen
    <2>4. QED
      BY <2>2, <2>3 DEF ReaderInv
  <1>6. Unread' = stream'
    <2>1. Held' = <<>>
      BY DEF Held
    <2>2. <<>> \o stream' = stream'
      BY ConcatEmptySeq
    <2>3. QED
      BY <2>1, <2>2 DEF Unread
  <1>7. FlowInv'
    <2>1. PICK pr, outs, ow, ln, k, u, live :
            /\ pr = proto /\ outs = sent /\ ow = owed /\ ln = line /\ k = Len(read) + 1
            /\ u = stream' /\ live = Live' /\ Flow(pr, outs, ow, ln, k, u, live)
      OBVIOUS
    <2>2. /\ pr = proto' /\ outs = sent' /\ ow = owed' /\ ln = line' /\ k = Len(read')
          /\ u = Unread' /\ live = Live'
      BY <1>2, <1>6, <2>1
    <2>3. QED
      BY <2>1, <2>2, InvOfFlow
  <1>8. QED
    BY <1>2, <1>4, <1>5, <1>7 DEF Inv

LEMMA OnHeaderDone ==
  ASSUME Inv, NEW n \in 1 .. Len(stream), n <= need,
         stream' = SubSeq(stream, n + 1, Len(stream)), UNCHANGED <<proto, owed, sent, line>>,
         HeaderDone(n)
  PROVE  Inv'
  <1>1. PICK h : h = got \o SubSeq(stream, 1, n)
    OBVIOUS
  <1>2. n = need /\ reader = "header"
    BY DEF HeaderDone
  <1>3. /\ h \in Seq(Bytes) /\ Len(h) = HeaderLen /\ stream' \in Seq(Bytes)
        /\ Unread = h \o stream'
    <2>1. /\ h \in Seq(Bytes) /\ Len(h) = Len(got) + n /\ stream' \in Seq(Bytes)
          /\ Unread = (Held \o SubSeq(stream, 1, n)) \o stream'
      BY <1>1, Taken
    <2>2. Len(got) + need = HeaderLen
      BY <1>2 DEF Inv, ReaderInv
    <2>3. Held = got
      BY <1>2 DEF Held
    <2>4. QED
      BY <1>1, <1>2, <2>1, <2>2, <2>3
  <1>4. PICK v \in 0 .. Span - 1 : v = Uint(h)
    BY <1>3, UintType
  <1>5. /\ proto \in {"EPP", "RRI"} /\ sent \in Seq(Payloads \cup {Refusal})
        /\ Flow(proto, sent, owed, line, Len(read), Unread, Live)
    BY FlowOfInv DEF Inv, Types, Outcome
  <1>6. PICK pr, outs, ow, ln, k, u, s, live, live2 :
          /\ pr = proto /\ outs = sent /\ ow = owed /\ ln = line /\ k = Len(read)
          /\ u = Unread /\ s = stream' /\ live = Live /\ live2 = Live'
          /\ Flow(pr, outs, ow, ln, k, u, live)
    BY <1>5
  <1>7. /\ pr \in {"EPP", "RRI"} /\ outs \in Seq(Payloads \cup {Refusal}) /\ s \in Seq(Bytes)
        /\ u = h \o s /\ (Refused(v) <=> Rejects(pr, Uint(h))) /\ Counted = Extra(pr) /\ Span \in Nat
        /\ live
    <2>1. live
      BY <1>2, <1>6 DEF Live
    <2>2. QED
      BY <1>3, <1>4, <1>5, <1>6, <2>1, ExtraIsCounted, BaseType
  <1>8. CASE /\ Refused(v) /\ read' = Append(read, Refusal)
             /\ reader' = "refused" /\ need' = 0 /\ got' = <<>>
    <2>1. /\ k < Len(outs) /\ outs[k + 1] = Refusal
          /\ Flow(pr, outs, ow, ln, k + 1, s, live2)
      <3>1. live2 => pr = "EPP"
        BY <1>6, <1>8 DEF Live
      <3>2. Rejects(pr, Uint(h))
        BY <1>7, <1>8
      <3>3. QED
        BY <1>3, <1>6, <1>7, <3>1, <3>2, FlowRefuse
    <2>2. Flow(proto, sent, owed, line, Len(read) + 1, stream', Live')
      BY <1>6, <2>1
    <2>3. QED
      BY <1>3, <1>6, <1>7, <1>8, <2>1, <2>2, OnFrameOver
  <1>9. CASE /\ ~Refused(v) /\ BodyLen(v) = 0 /\ read' = Append(read, <<>>)
             /\ reader' = "header" /\ need' = HeaderLen /\ got' = <<>>
    <2>1. <<>> \in Seq(Bytes) /\ Len(<<>>) = 0 /\ u = (h \o <<>>) \o s
      BY <1>3, <1>7, EmptySeq, ConcatEmptySeq
    <2>2. Len(<<>>) + Extra(pr) = Uint(h)
      BY <1>4, <1>5, <1>7, <1>9, <2>1, RefusedLengths
    <2>3. k < Len(outs) /\ outs[k + 1] = <<>> /\ Flow(pr, outs, ow, ln, k + 1, s, live)
      <3>1. ~Rejects(pr, Uint(h))
        BY <1>7, <1>9
      <3>2. PICK b \in Seq(Bytes) : b = <<>>
        BY <2>1
      <3>3. Len(b) + Extra(pr) = Uint(h) /\ u = (h \o b) \o s
        BY <2>1, <2>2, <3>2
      <3>4. k < Len(outs) /\ outs[k + 1] = b /\ Flow(pr, outs, ow, ln, k + 1, s, live)
        <4>1. Readable(pr, outs, ow, ln, k, u, h, b, s)
          BY <1>3, <1>7, <3>1, <3>3 DEF Readable
        <4>2. QED
          <5>1. live /\ Flow(pr, outs, ow, ln, k, u, live)
            BY <1>6, <1>7
          <5>2. QED
            BY <4>1, <5>1, FlowRead
      <3>5. QED
        BY <3>2, <3>4
    <2>4. live = Live'
      BY <1>2, <1>6, <1>9 DEF Live
    <2>5. Flow(proto, sent, owed, line, Len(read) + 1, stream', Live')
      BY <1>6, <2>3, <2>4
    <2>6. need' \in 0 .. Span
      BY <1>9, BaseType DEF HeaderLen
    <2>7. QED
      BY <1>3, <1>6, <1>9, <2>3, <2>5, <2>6, OnFrameOver
  <1>10. CASE /\ ~Refused(v) /\ BodyLen(v) # 0 /\ reader' = "body" /\ need' = BodyLen(v)
              /\ got' = <<>> /\ UNCHANGED read
    <2>1. /\ need' \in Nat \ {0} /\ need' \in 0 .. Span /\ need' + Counted = v
          /\ <<>> \in Seq(Bytes) /\ Len(<<>>) = 0 /\ Counted' = Counted
      BY <1>5, <1>10, RefusedLengths, EmptySeq DEF Counted
    <2>2. Len(got') + need' + Counted' = v
      BY <1>7, <1>10, <2>1
    <2>3. ReaderInv'
      <3>1. \A x : Refused(x)' <=> Refused(x)
        BY DEF Refused
      <3>2. QED
        BY <1>10, <2>1, <2>2, <3>1 DEF ReaderInv, Refused
    <2>4. Held' = h
      <3>1. Held' = PutUint(v) \o <<>>
        BY <1>10, <2>2 DEF Held, PutUint
      <3>2. PutUint(v) = h
        BY <1>3, <1>4, PutOfUint
      <3>3. QED
        BY <1>3, <3>1, <3>2, ConcatEmptySeq
    <2>5. Unread' = Unread
      BY <1>3, <2>4 DEF Unread
    <2>6. QED
      BY <1>2, <1>3, <1>10, <2>1, <2>3, <2>5, OnSameUnread
  <1>11. QED
    BY <1>1, <1>4, <1>8, <1>9, <1>10 DEF HeaderDone, NextHeader

LEMMA OnBodyDone ==
  ASSUME Inv, NEW n \in 1 .. Len(stream), n <= need,
         stream' = SubSeq(stream, n + 1, Len(stream)), UNCHANGED <<proto, owed, sent, line>>,
         BodyDone(n)
  PROVE  Inv'
  <1>1. PICK b : b = got \o SubSeq(stream, 1, n)
    OBVIOUS
  <1>2. /\ n = need /\ reader = "body" /\ read' = Append(read, b)
        /\ reader' = "header" /\ need' = HeaderLen /\ got' = <<>>
    BY <1>1 DEF BodyDone, NextHeader
  <1>3. /\ b \in Seq(Bytes) /\ Len(b) = Len(got) + need /\ stream' \in Seq(Bytes)
        /\ SubSeq(stream, 1, n) \in Seq(Bytes)
        /\ Unread = (Held \o SubSeq(stream, 1, n)) \o stream'
    BY <1>1, <1>2, Taken
  <1>4. PICK v \in 0 .. Span - 1 : v = Len(got) + need + Counted /\ ~Refused(v)
    BY <1>2 DEF Inv, ReaderInv
  <1>5. PICK h \in Seq(Bytes) : h = PutUint(v) /\ Len(h) = HeaderLen /\ Uint(h) = v
    BY BaseType, PutType, UintPut
  <1>6. Unread = (h \o b) \o stream'
    <2>1. PICK x \in Seq(Bytes) : x = SubSeq(stream, 1, n)
      BY <1>3
    <2>2. got \in Seq(Bytes)
      BY DEF Inv, Types
    <2>3. Held = h \o got
      BY <1>2, <1>4, <1>5 DEF Held
    <2>4. (h \o got) \o x = h \o (got \o x)
      BY <2>2, Regrouped
    <2>5. QED
      BY <1>1, <1>3, <2>1, <2>3, <2>4
  <1>7. /\ proto \in {"EPP", "RRI"} /\ sent \in Seq(Payloads \cup {Refusal})
        /\ Flow(proto, sent, owed, line, Len(read), Unread, Live)
    BY FlowOfInv DEF Inv, Types, Outcome
  <1>8. PICK pr, outs, ow, ln, k, u, s, live, live2 :
          /\ pr = proto /\ outs = sent /\ ow = owed /\ ln = line /\ k = Len(read)
          /\ u = Unread /\ s = stream' /\ live = Live /\ live2 = Live'
          /\ Flow(pr, outs, ow, ln, k, u, live)
    BY <1>7
  <1>9. /\ pr \in {"EPP", "RRI"} /\ outs \in Seq(Payloads \cup {Refusal}) /\ s \in Seq(Bytes)
        /\ u = (h \o b) \o s /\ ~Rejects(pr, Uint(h)) /\ Len(b) + Extra(pr) = Uint(h)
        /\ live
    <2>1. live
      BY <1>2, <1>8 DEF Live
    <2>2. QED
      BY <1>3, <1>4, <1>5, <1>6, <1>7, <1>8, <2>1, ExtraIsCounted
  <1>10. k < Len(outs) /\ outs[k + 1] = b /\ Flow(pr, outs, ow, ln, k + 1, s, live)
    <2>1. Readable(pr, outs, ow, ln, k, u, h, b, s)
      BY <1>3, <1>5, <1>9 DEF Readable
    <2>2. QED
      <3>1. live /\ Flow(pr, outs, ow, ln, k, u, live)
        BY <1>8, <1>9
      <3>2. QED
        BY <2>1, <3>1, FlowRead
  <1>11. live = Live'
    BY <1>2, <1>8 DEF Live
  <1>12. Flow(proto, sent, owed, line, Len(read) + 1, stream', Live')
    BY <1>8, <1>10, <1>11
  <1>13. need' \in 0 .. Span
    BY <1>2, BaseType DEF HeaderLen
  <1>14. QED
    BY <1>2, <1>3, <1>8, <1>10, <1>12, <1>13, OnFrameOver

LEMMA OnArrive ==
  ASSUME Inv, NEW n \in 1 .. Len(stream), Arrive(n)
  PROVE  Inv'
  <1>1. /\ reader \in {"header", "body"} /\ n <= need
        /\ stream' = SubSeq(stream, n + 1, Len(stream)) /\ UNCHANGED <<proto, owed, sent, line>>
        /\ MoreNeeded(n) \/ HeaderDone(n) \/ BodyDone(n)
    BY DEF Arrive, writing
  <1>2. CASE MoreNeeded(n)
    BY <1>1, <1>2, OnMoreNeeded
  <1>3. CASE HeaderDone(n)
    BY <1>1, <1>3, OnHeaderDone
  <1>4. CASE BodyDone(n)
    BY <1>1, <1>4, OnBodyDone
  <1>5. QED
    BY <1>1, <1>2, <1>3, <1>4

LEMMA OnReadEnds ==
  ASSUME Inv, ReadEnds
  PROVE  Inv'
  <1>1. Types /\ ReadInv /\ FlowInv
    BY DEF Inv
  <1>2. /\ reader' = "ended"
        /\ UNCHANGED <<proto, owed, sent, stream, line, need, got, read>>
    BY DEF ReadEnds, writing
  <1>3. Types' /\ ReaderInv'
    BY <1>1, <1>2 DEF Types, ReaderInv
  <1>4. ReadInv'
    BY <1>1, <1>2, ReadStays
  <1>5. FlowInv'
    <2>1. PICK pr, outs, ow, ln, k, u, live :
            /\ pr = proto /\ outs = sent /\ ow = owed /\ ln = line
            /\ Flow(pr, outs, ow, ln, k, u, live)
      BY <1>1, FlowOfInv
    <2>2. PICK k2, u2 : k2 = Len(read') /\ u2 = Unread'
      OBVIOUS
    <2>3. Flow(pr, outs, ow, ln, k2, u2, FALSE)
      BY <2>1, FlowUnread
    <2>4. FALSE = Live'
      BY <1>2 DEF Live
    <2>5. pr = proto' /\ outs = sent' /\ ow = owed' /\ ln = line'
      BY <1>2, <2>1
    <2>6. QED
      BY <2>2, <2>3, <2>4, <2>5, InvOfFlow
  <1>6. QED
    BY <1>3, <1>4, <1>5 DEF Inv

LEMMA OnReadOn ==
  ASSUME Inv, ReadOn
  PROVE  Inv'
  <1>1. Types /\ ReadInv /\ FlowInv
    BY DEF Inv
  <1>2. /\ reader = "refused" /\ proto = "EPP" /\ reader' = "header" /\ need' = HeaderLen
        /\ got' = <<>> /\ UNCHANGED <<proto, owed, sent, stream, line, read>>
    BY DEF ReadOn, NextHeader, writing
  <1>3. <<>> \in Seq(Bytes) /\ Len(<<>>) = 0
    BY EmptySeq
  <1>4. Types' /\ ReaderInv'
    BY <1>1, <1>2, <1>3, BaseType DEF Types, ReaderInv, HeaderLen
  <1>5. ReadInv'
    BY <1>1, <1>2, ReadStays
  <1>6. Unread' = Unread /\ Live' = Live
    BY <1>2 DEF Unread, Held, Live
  <1>7. FlowInv'
    <2>1. PICK pr, outs, ow, ln, k, u, live :
            /\ pr = proto /\ outs = sent /\ ow = owed /\ ln = line /\ k = Len(read) /\ u = Unread
            /\ live = Live /\ Flow(pr, outs, ow, ln, k, u, live)
      BY <1>1, FlowOfInv
    <2>2. /\ pr = proto' /\ outs = sent' /\ ow = owed' /\ ln = line' /\ k = Len(read')
          /\ u = Unread' /\ live = Live'
      BY <1>2, <1>6, <2>1
    <2>3. QED
      BY <2>1, <2>2, InvOfFlow
  <1>8. QED
    BY <1>4, <1>5, <1>7 DEF Inv

-----------------------------------------------------------------------------
LEMMA InitInv == Init => Inv
  <1> SUFFICES ASSUME Init PROVE Inv
    OBVIOUS
  <1>1. /\ proto \in {"EPP", "RRI"} /\ owed = <<>> /\ stream = <<>> /\ line = "open"
        /\ reader = "header" /\ need = 4 /\ got = <<>> /\ sent = <<>> /\ read = <<>>
    BY DEF Init, HeaderLen
  <1>2. \A S : <<>> \in Seq(S) /\ Len(<<>>) = 0
    BY EmptySeq
  <1>3. Types /\ ReaderInv
    BY <1>1, <1>2, BaseType DEF Types, ReaderInv, HeaderLen
  <1>4. ReadInv
    BY <1>1, <1>2 DEF ReadInv
  <1>5. Unread = <<>>
    <2>1. <<>> \o <<>> = <<>>
      BY <1>2, ConcatEmptySeq
    <2>2. QED
      BY <1>1, <2>1 DEF Unread, Held
  <1>6. FlowInv
    <2>1. \A pr, live : Flow(pr, <<>>, <<>>, "open", 0, <<>>, live)
      BY FlowStart
    <2>2. QED
      BY <1>1, <1>2, <1>5, <2>1 DEF FlowInv
  <1>7. QED
    BY <1>3, <1>4, <1>6 DEF Inv

LEMMA NextInv == Inv /\ [Next]_vars => Inv'
  <1> SUFFICES ASSUME Inv, [Next]_vars PROVE Inv'
    OBVIOUS
  <1>1. ASSUME NEW p \in Payloads, WriteHeader(p) PROVE Inv'
    BY <1>1, OnWriteHeader
  <1>2. ASSUME NEW p \in Payloads, WriteOverclaim(p) PROVE Inv'
    BY <1>2, OnWriteOverclaim
  <1>3. CASE WritePayload
    BY <1>3, OnWritePayload
  <1>4. CASE WriteBareHeader
    BY <1>4, OnWriteBareHeader
  <1>5. CASE CloseLine
    BY <1>5, OnCloseLine
  <1>6. CASE LoseLine
    BY <1>6, OnLoseLine
  <1>7. ASSUME NEW n \in 1 .. Len(stream), Arrive(n) PROVE Inv'
    BY <1>7, OnArrive
  <1>8. CASE ReadEnds
    BY <1>8, OnReadEnds
  <1>9. CASE ReadOn
    BY <1>9, OnReadOn
  <1>10. CASE UNCHANGED vars
    <2>1. Types' /\ ReadInv' /\ ReaderInv' /\ Held' = Held /\ Live' = Live
      BY <1>10, HeldStays, ReadStays DEF vars, Inv, Types
    <2>2. PICK pr, outs, ow, ln, k, u, live :
            /\ pr = proto /\ outs = sent /\ ow = owed /\ ln = line /\ k = Len(read) /\ u = Unread
            /\ live = Live /\ Flow(pr, outs, ow, ln, k, u, live)
      BY FlowOfInv DEF Inv
    <2>3. /\ pr = proto' /\ outs = sent' /\ ow = owed' /\ ln = line' /\ k = Len(read')
          /\ u = Unread' /\ live = Live'
      BY <1>10, <2>1, <2>2 DEF vars, Unread
    <2>4. FlowInv'
      BY <2>2, <2>3, InvOfFlow
    <2>5. QED
      BY <2>1, <2>4 DEF Inv
  <1>11. QED
    BY <1>1, <1>2, <1>3, <1>4, <1>5, <1>6, <1>7, <1>8, <1>9, <1>10 DEF Next

LEMMA Invariance == FairSpec => []Inv
  <1>1. Init => Inv
    BY InitInv
  <1>2. Inv /\ [Next]_vars => Inv'
    BY NextInv
  <1>3. QED
    BY <1>1, <1>2, PTL DEF FairSpec

(* Every variable of a connection keeps its type: in particular ReadFull
   never waits for less than nothing or more than a header can claim.       *)
THEOREM FramingTypes == FairSpec => []TypeOK
  <1>1. Inv => TypeOK
    <2> SUFFICES ASSUME Inv PROVE TypeOK
      OBVIOUS
    <2>1. Types /\ ReadInv
      BY DEF Inv
    <2>2. owed \in BoundedSeq(Payloads, 1)
      <3>1. ASSUME NEW m \in 0 .. 1, owed \in [1 .. m -> Payloads]
            PROVE  owed \in BoundedSeq(Payloads, 1)
        BY <3>1 DEF BoundedSeq, SeqOf
      <3>2. CASE owed = <<>>
        <4>1. owed \in [1 .. 0 -> Payloads]
          BY <3>2, EmptySeq, LenProperties
        <4>2. QED
          BY <3>1, <4>1
      <3>3. ASSUME NEW p \in Payloads, owed = <<p>> PROVE owed \in BoundedSeq(Payloads, 1)
        <4>1. <<p>> \in Seq(Payloads) /\ Len(<<p>>) = 1
          OBVIOUS
        <4>2. owed \in [1 .. 1 -> Payloads]
          BY <3>3, <4>1, LenProperties
        <4>3. QED
          BY <3>1, <4>2
      <3>4. QED
        BY <2>1, <3>2, <3>3 DEF Types
    <2>3. QED
      BY <2>1, <2>2 DEF Types, ReadInv, Outcome, TypeOK
  <1>2. QED
    BY <1>1, Invariance, PTL

(* The calls of ReadFrame and ReadRRIFrame return what was written, each
   payload whole, in order, once, and refuse exactly the headers that
   deserve it, for any payloads and however the bytes are cut.              *)
THEOREM PayloadsArriveWhole == FairSpec => []FramesIntact
  <1>1. Inv => FramesIntact
    <2> SUFFICES ASSUME Inv PROVE FramesIntact
      OBVIOUS
    <2>1. /\ read \in Seq(Outcome) /\ sent \in Seq(Outcome) /\ Len(read) <= Len(sent)
          /\ \A i \in 1 .. Len(read) : read[i] = sent[i]
      BY DEF Inv, Types, ReadInv
    <2>2. Len(read) \in Nat /\ Len(sent) \in Nat
      BY <2>1, LenProperties
    <2>3. SubSeq(read, 1, Len(read)) = read
      BY <2>1, SubSeqFull
    <2>4. SubSeq(sent, 1, Len(read)) = read
      <3>1. \A i \in 1 .. Len(read) : sent[i] \in Outcome
        BY <2>1, <2>2, ElementOfSeq
      <3>2. /\ SubSeq(sent, 1, Len(read)) \in Seq(Outcome)
            /\ Len(SubSeq(sent, 1, Len(read))) = IF 1 <= Len(read) THEN Len(read) - 1 + 1 ELSE 0
            /\ \A i \in 1 .. Len(read) - 1 + 1 : SubSeq(sent, 1, Len(read))[i] = sent[1 + i - 1]
        BY <2>2, <3>1, SubSeqProperties
      <3>3. Len(SubSeq(sent, 1, Len(read))) = Len(read)
        BY <2>2, <3>2
      <3>4. \A i \in 1 .. Len(read) : SubSeq(sent, 1, Len(read))[i] = read[i]
        BY <2>1, <2>2, <3>2
      <3>5. QED
        BY <2>1, <3>2, <3>3, <3>4, SeqEqual
    <2>5. QED
      BY <2>1, <2>3, <2>4 DEF FramesIntact, IsPrefix
  <1>2. QED
    BY <1>1, Invariance, PTL
==============================================================================
