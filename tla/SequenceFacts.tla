--------------------------- MODULE SequenceFacts ---------------------------
(***************************************************************************)
(* What cutting a sequence, removing an element and inserting one give:    *)
(* the linked lists of the firmware are modelled as sequences; and what    *)
(* remainders are, of times and of the places in a ring.                   *)
(***************************************************************************)
EXTENDS Integers, SequencesExt, SequenceTheorems, WellFoundedInduction, TLAPS

LEMMA CutFacts ==
  ASSUME NEW S, NEW s \in Seq(S), NEW i \in 1 .. Len(s) + 1
  PROVE  /\ SubSeq(s, 1, i - 1) \in Seq(S) /\ Len(SubSeq(s, 1, i - 1)) = i - 1
         /\ \A j \in 1 .. i - 1 : SubSeq(s, 1, i - 1)[j] = s[j]
         /\ SubSeq(s, i, Len(s)) \in Seq(S) /\ Len(SubSeq(s, i, Len(s))) = Len(s) - i + 1
         /\ \A j \in 1 .. Len(s) - i + 1 : SubSeq(s, i, Len(s))[j] = s[i + j - 1]
<1>1. Len(s) \in Nat /\ \A j \in 1 .. Len(s) : s[j] \in S
  OBVIOUS
<1>2. /\ SubSeq(s, 1, i - 1) \in Seq(S) /\ Len(SubSeq(s, 1, i - 1)) = i - 1
      /\ \A j \in 1 .. i - 1 : SubSeq(s, 1, i - 1)[j] = s[j]
  BY <1>1, SubSeqProperties, SMTT(20)
<1>3. /\ SubSeq(s, i, Len(s)) \in Seq(S) /\ Len(SubSeq(s, i, Len(s))) = Len(s) - i + 1
      /\ \A j \in 1 .. Len(s) - i + 1 : SubSeq(s, i, Len(s))[j] = s[i + j - 1]
  BY <1>1, SubSeqProperties, SMTT(20)
<1> QED BY <1>2, <1>3

LEMMA JoinFacts ==
  ASSUME NEW S, NEW s \in Seq(S), NEW t \in Seq(S)
  PROVE  /\ s \o t \in Seq(S) /\ Len(s \o t) = Len(s) + Len(t)
         /\ \A i \in 1 .. Len(s) : (s \o t)[i] = s[i]
         /\ \A i \in 1 .. Len(t) : (s \o t)[Len(s) + i] = t[i]
<1>1. /\ s \o t \in Seq(S) /\ Len(s \o t) = Len(s) + Len(t)
      /\ \A i \in 1 .. Len(s) + Len(t) :
           (s \o t)[i] = IF i <= Len(s) THEN s[i] ELSE t[i - Len(s)]
  BY ConcatProperties
<1>2. Len(s) \in Nat /\ Len(t) \in Nat
  OBVIOUS
<1>3. ASSUME NEW i \in 1 .. Len(s) PROVE (s \o t)[i] = s[i]
  BY <1>1, <1>2
<1>4. ASSUME NEW i \in 1 .. Len(t) PROVE (s \o t)[Len(s) + i] = t[i]
  <2>1. /\ Len(s) + i \in 1 .. Len(s) + Len(t) /\ ~(Len(s) + i <= Len(s))
        /\ Len(s) + i - Len(s) = i
    BY <1>2
  <2> QED BY <1>1, <2>1
<1> QED BY <1>1, <1>3, <1>4

LEMMA RemoveAtFacts ==
  ASSUME NEW S, NEW s \in Seq(S), NEW i \in 1 .. Len(s)
  PROVE  /\ RemoveAt(s, i) \in Seq(S)
         /\ Len(RemoveAt(s, i)) = Len(s) - 1
         /\ \A j \in 1 .. Len(s) - 1 : RemoveAt(s, i)[j] = IF j < i THEN s[j] ELSE s[j + 1]
<1> DEFINE a == SubSeq(s, 1, i - 1)
           b == SubSeq(s, i + 1, Len(s))
<1>1. Len(s) \in Nat /\ i \in 1 .. Len(s) + 1 /\ i + 1 \in 1 .. Len(s) + 1
  OBVIOUS
<1>2. a \in Seq(S) /\ Len(a) = i - 1 /\ \A j \in 1 .. i - 1 : a[j] = s[j]
  BY <1>1, CutFacts
<1>3. /\ b \in Seq(S) /\ Len(b) = Len(s) - i
      /\ \A j \in 1 .. Len(s) - i : b[j] = s[i + j]
  BY <1>1, CutFacts
<1> HIDE DEF a, b
<1>4. /\ a \o b \in Seq(S) /\ Len(a \o b) = Len(s) - 1
      /\ \A j \in 1 .. Len(s) - 1 : (a \o b)[j] = IF j < i THEN s[j] ELSE s[j + 1]
  <2>0. /\ a \o b \in Seq(S) /\ Len(a \o b) = Len(a) + Len(b)
        /\ \A j \in 1 .. Len(a) + Len(b) :
             (a \o b)[j] = IF j <= Len(a) THEN a[j] ELSE b[j - Len(a)]
    BY <1>2, <1>3, ConcatProperties
  <2>1. /\ a \o b \in Seq(S) /\ Len(a \o b) = Len(s) - 1
        /\ \A j \in 1 .. Len(s) - 1 :
             (a \o b)[j] = IF j <= i - 1 THEN a[j] ELSE b[j - (i - 1)]
    BY <2>0, <1>1, <1>2, <1>3
  <2>2. ASSUME NEW j \in 1 .. Len(s) - 1
        PROVE  (a \o b)[j] = IF j < i THEN s[j] ELSE s[j + 1]
    <3>1. CASE j < i
      <4>1. j \in 1 .. i - 1 /\ j <= i - 1
        BY <3>1, <1>1
      <4>2. (a \o b)[j] = a[j]
        BY <4>1, <2>1
      <4> QED BY <4>1, <4>2, <3>1, <1>2
    <3>2. CASE ~(j < i)
      <4>1. j - (i - 1) \in 1 .. Len(s) - i /\ ~(j <= i - 1) /\ i + (j - (i - 1)) = j + 1
        BY <3>2, <1>1
      <4>2. (a \o b)[j] = b[j - (i - 1)]
        BY <4>1, <2>1
      <4> QED BY <4>1, <4>2, <3>2, <1>3
    <3> QED BY <3>1, <3>2
  <2> QED BY <2>1, <2>2
<1> QED BY <1>4 DEF RemoveAt, a, b

LEMMA InsertAtFacts ==
  ASSUME NEW S, NEW s \in Seq(S), NEW i \in 1 .. Len(s) + 1, NEW e \in S
  PROVE  /\ InsertAt(s, i, e) \in Seq(S)
         /\ Len(InsertAt(s, i, e)) = Len(s) + 1
         /\ \A j \in 1 .. Len(s) + 1 :
              InsertAt(s, i, e)[j] = IF j < i THEN s[j] ELSE IF j = i THEN e ELSE s[j - 1]
<1> DEFINE a == SubSeq(s, 1, i - 1)
           b == SubSeq(s, i, Len(s))
<1>1. Len(s) \in Nat /\ i \in 1 .. Len(s) + 1
  OBVIOUS
<1>2. a \in Seq(S) /\ Len(a) = i - 1 /\ \A j \in 1 .. i - 1 : a[j] = s[j]
  BY CutFacts
<1>3. /\ b \in Seq(S) /\ Len(b) = Len(s) - i + 1
      /\ \A j \in 1 .. Len(s) - i + 1 : b[j] = s[i + j - 1]
  BY CutFacts
<1> HIDE DEF a, b
<1>4. /\ a \o <<e>> \in Seq(S) /\ Len(a \o <<e>>) = i
      /\ \A j \in 1 .. i : (a \o <<e>>)[j] = IF j < i THEN s[j] ELSE e
  BY <1>1, <1>2
<1> DEFINE c == a \o <<e>>
<1> HIDE DEF c
<1>5. /\ c \o b \in Seq(S) /\ Len(c \o b) = Len(s) + 1
      /\ \A j \in 1 .. Len(s) + 1 :
           (c \o b)[j] = IF j < i THEN s[j] ELSE IF j = i THEN e ELSE s[j - 1]
  <2>1. /\ c \o b \in Seq(S) /\ Len(c \o b) = Len(s) + 1
        /\ \A j \in 1 .. Len(s) + 1 : (c \o b)[j] = IF j <= i THEN c[j] ELSE b[j - i]
    BY <1>1, <1>3, <1>4, ConcatProperties DEF c
  <2>2. \A j \in 1 .. i : c[j] = IF j < i THEN s[j] ELSE e
    BY <1>4 DEF c
  <2>3. ASSUME NEW j \in 1 .. Len(s) + 1
        PROVE  (c \o b)[j] = IF j < i THEN s[j] ELSE IF j = i THEN e ELSE s[j - 1]
    <3>1. CASE j <= i
      <4>1. j \in 1 .. i /\ (c \o b)[j] = c[j]
        BY <3>1, <2>1, <1>1
      <4> QED BY <4>1, <3>1, <2>2, <1>1
    <3>2. CASE ~(j <= i)
      <4>1. j - i \in 1 .. Len(s) - i + 1 /\ i + (j - i) - 1 = j - 1 /\ ~(j < i) /\ j # i
        BY <3>2, <1>1
      <4>2. (c \o b)[j] = b[j - i]
        BY <3>2, <2>1
      <4> QED BY <4>1, <4>2, <1>3
    <3> QED BY <3>1, <3>2
  <2> QED BY <2>1, <2>3
<1> QED BY <1>5 DEF InsertAt, a, b, c

(* A non-empty set of numbers has a smallest one.                          *)
LEMMA SmallestExists ==
  ASSUME NEW T \in SUBSET Nat, T # {}
  PROVE  \E k \in T : \A j \in T : k <= j
<1> DEFINE R == {ss \in Nat \X Nat : ss[1] < ss[2]}
<1>1. IsWellFoundedOn(R, Nat)
  BY NatLessThanWellFounded DEF OpToRel
<1>2. PICK k \in T : \A j \in T : ~ (<<j, k>> \in R)
  <2> HIDE DEF R
  <2> QED BY <1>1, WFMin
<1>3. \A j \in T : ~ (j < k)
  BY <1>2
<1> QED BY <1>3

-----------------------------------------------------------------------------
(* Remainders: times wrap at the word size and rings at their length.      *)

LEMMA ModRange ==
  ASSUME NEW W \in Nat \ {0}, NEW x \in Int
  PROVE  x % W \in 0 .. W - 1
  OBVIOUS

(* Division with remainder. *)
LEMMA ModQuotient ==
  ASSUME NEW W \in Nat \ {0}, NEW x \in Int
  PROVE  \E q \in Int : x = W * q + (x % W)
<1>1. x \div W \in Int /\ x = W * (x \div W) + (x % W)
  OBVIOUS
<1> QED BY <1>1

(* A number in range is the remainder of any number that differs from it by a
   multiple of the divisor. *)
LEMMA ModUnique ==
  ASSUME NEW W \in Nat \ {0}, NEW x \in Int, NEW q \in Int, NEW r \in 0 .. W - 1,
         x = W * q + r
  PROVE  x % W = r
<1> DEFINE p == x \div W
           s == x % W
<1>1. p \in Int /\ s \in 0 .. W - 1 /\ x = W * p + s
  OBVIOUS
<1> HIDE DEF p, s
<1>2. W * (p - q) = r - s
  BY <1>1
<1>3. p - q \in Int
  BY <1>1
<1>4. ASSUME p - q >= 1 PROVE FALSE
  <2>1. W * (p - q) >= W
    BY <1>3, <1>4
  <2> QED BY <2>1, <1>1, <1>2
<1>5. ASSUME p - q <= -1 PROVE FALSE
  <2>1. W * (p - q) <= -W
    BY <1>3, <1>5
  <2> QED BY <2>1, <1>1, <1>2
<1>6. p - q = 0
  BY <1>3, <1>4, <1>5
<1>7. r = s
  BY <1>1, <1>2, <1>6
<1> QED BY <1>7 DEF s

(* No remainder is above the number itself, and a number below the divisor
   is its own. *)
LEMMA ModAtMost ==
  ASSUME NEW W \in Nat \ {0}, NEW x \in Nat
  PROVE  x % W <= x /\ (x < W => x % W = x)
<1> DEFINE q == x \div W
           s == x % W
<1>1. q \in Int /\ s \in 0 .. W - 1 /\ x = W * q + s
  OBVIOUS
<1> HIDE DEF q, s
<1>2. ASSUME q <= -1 PROVE FALSE
  <2>1. W * q <= -W
    BY <1>1, <1>2
  <2> QED BY <1>1, <2>1
<1>3. W * q >= 0
  BY <1>1, <1>2
<1>4. s <= x
  BY <1>1, <1>3
<1>5. ASSUME x < W PROVE x % W = x
  <2>1. x \in Int /\ 0 \in Int /\ x \in 0 .. W - 1 /\ x = W * 0 + x
    BY <1>5
  <2> QED BY <2>1, ModUnique
<1> QED BY <1>4, <1>5 DEF s

=============================================================================
