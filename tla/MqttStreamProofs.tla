-------------------------- MODULE MqttStreamProofs --------------------------
(***************************************************************************)
(* The receive ring of MqttStream, for every size of ring, buffer, digit   *)
(* and reply and any numbers of messages, sessions and failures: as long   *)
(* as every reply ends with a packet and fits the ring, each length is     *)
(* decoded as it was encoded, and every message is handled once and in     *)
(* order.  The invariant sees the bytes that are in the ring, in the reply *)
(* being handed over and in the chip as one sequence that is cut into      *)
(* packets.  A message the client has not seen is then with the chip and     *)
(* asked for; and handing over a reply ends, whatever the reply is.        *)
(***************************************************************************)
EXTENDS MqttStream, SequenceFacts

-----------------------------------------------------------------------------
(* The ring.                                                               *)

LEMMA Sizes ==
  /\ RxSize \in Nat /\ RxSize > 0 /\ Base \in Nat /\ Base > 3
  /\ MaxMessages \in Nat /\ MaxMessages < 2 * Base
  /\ LenRange \in Nat /\ LenRange > 0 /\ BufferSize \in Nat
  /\ RxSize < LenRange /\ LenRange < BufferSize
<1>1. {Base, RxSize, LenRange, BufferSize, MaxReply, MaxMessages, MaxSessions}
        \subseteq Nat \ {0}
  BY StreamBounds
<1>2. /\ Base \in Nat \ {0} /\ RxSize \in Nat \ {0} /\ MaxMessages \in Nat \ {0}
      /\ LenRange \in Nat \ {0} /\ BufferSize \in Nat \ {0}
  BY <1>1
<1> QED BY <1>2, StreamBounds

LEMMA Wraps ==
  ASSUME NEW x \in 0 .. 2 * RxSize - 1
  PROVE  x % RxSize = IF x < RxSize THEN x ELSE x - RxSize
<1>0. RxSize \in Nat \ {0}
  BY Sizes
<1>1. CASE x < RxSize
  <2>1. x \in Int /\ 0 \in Int /\ x \in 0 .. RxSize - 1 /\ x = RxSize * 0 + x
    BY <1>0, <1>1
  <2>2. x % RxSize = x
    BY <1>0, <2>1, ModUnique
  <2> QED BY <1>1, <2>2
<1>2. CASE ~(x < RxSize)
  <2> DEFINE y == x - RxSize
  <2>1. x \in Int /\ 1 \in Int /\ y \in 0 .. RxSize - 1 /\ x = RxSize * 1 + y
    BY <1>0, <1>2
  <2> HIDE DEF y
  <2>2. x % RxSize = y
    BY <1>0, <2>1, ModUnique
  <2> QED BY <1>2, <2>2 DEF y
<1> QED BY <1>1, <1>2

(* The cell of the j-th unread byte, and that byte.                        *)
Place(r, j) == IF r.pointer + j - 1 < RxSize THEN r.pointer + j - 1
                                             ELSE r.pointer + j - 1 - RxSize
Item(r, j) == r.cells[Place(r, j)]

LEMMA RingFields ==
  ASSUME NEW r \in Ring
  PROVE  /\ r.cells \in [0 .. RxSize - 1 -> Bytes]
         /\ r.pointer \in 0 .. RxSize - 1 /\ r.datalen \in 0 .. RxSize
  BY DEF Ring

LEMMA PlaceRange ==
  ASSUME NEW r \in Ring, NEW j \in 1 .. RxSize
  PROVE  /\ Place(r, j) \in 0 .. RxSize - 1 /\ Item(r, j) \in Bytes
         /\ (r.pointer + j - 1) % RxSize = Place(r, j)
<1>1. RxSize \in Nat /\ RxSize > 0
  BY Sizes
<1> DEFINE x == r.pointer + j - 1
<1>2. x \in 0 .. 2 * RxSize - 1
  BY <1>1, RingFields
<1> HIDE DEF x
<1>5. x % RxSize = IF x < RxSize THEN x ELSE x - RxSize
  BY <1>2, Wraps
<1>6. (IF x < RxSize THEN x ELSE x - RxSize) = Place(r, j)
  BY <1>1, RingFields DEF x, Place
<1>7. x % RxSize = Place(r, j)
  BY <1>5, <1>6
<1>3. (r.pointer + j - 1) % RxSize = Place(r, j)
  BY <1>7, Zenon DEF x
<1>4. Place(r, j) \in 0 .. RxSize - 1
  BY <1>1, RingFields DEF Place
<1> QED
  BY <1>3, <1>4, RingFields DEF Item

(* What is popped are the first unread bytes.                              *)
LEMMA PoppedItems ==
  ASSUME NEW r \in Ring, NEW n \in Nat
  PROVE  /\ Popped(r, n) \in Seq(Bytes)
         /\ Len(Popped(r, n)) = Least(n, r.datalen)
         /\ DOMAIN Popped(r, n) = 1 .. Least(n, r.datalen)
         /\ \A i \in 1 .. Least(n, r.datalen) : Popped(r, n)[i] = Item(r, i)
<1> DEFINE k == Least(n, r.datalen)
<1>1. k \in Nat /\ k <= RxSize
  BY RingFields, Sizes DEF Least
<1>2. \A i \in 1 .. k : i \in 1 .. RxSize
  BY <1>1, Sizes
<1>3. Popped(r, n) = [i \in 1 .. k |-> Item(r, i)]
  BY <1>2, PlaceRange DEF Popped, Item
<1> HIDE DEF k
<1>4. \A i \in 1 .. k : Item(r, i) \in Bytes
  BY <1>2, PlaceRange
<1> QED
  BY <1>1, <1>3, <1>4 DEF k

(* Popping leaves the bytes after those popped.                            *)
LEMMA PopFacts ==
  ASSUME NEW r \in Ring, NEW n \in Nat
  PROVE  /\ CircPop(r, n) \in Ring
         /\ n <= r.datalen =>
              /\ CircPop(r, n).datalen = r.datalen - n
              /\ \A j \in 1 .. r.datalen - n : Item(CircPop(r, n), j) = Item(r, n + j)
<1> DEFINE k == Least(n, r.datalen)
           left(i) == (i + RxSize - r.pointer) % RxSize \in k .. r.datalen - 1
           cells == [i \in DOMAIN Blank |-> IF left(i) THEN r.cells[i] ELSE 0]
           pointer == (r.pointer + k) % RxSize
           s == CircPop(r, n)
<1>1. RxSize \in Nat \ {0} /\ RxSize > 0 /\ 0 \in Bytes
  BY Sizes DEF Bytes
<1>2. k \in Nat /\ k <= r.datalen /\ k <= RxSize
  BY RingFields, <1>1 DEF Least
<1>3. s.cells = cells /\ s.pointer = pointer /\ s.datalen = r.datalen - k
      /\ s = [cells |-> cells, pointer |-> pointer, datalen |-> r.datalen - k]
  BY DEF CircPop
<1>4. cells \in [0 .. RxSize - 1 -> Bytes]
      /\ \A i \in 0 .. RxSize - 1 : left(i) => cells[i] = r.cells[i]
  <2> HIDE DEF left
  <2> QED BY <1>1, RingFields DEF Blank
<1>5. pointer \in 0 .. RxSize - 1
  <2> DEFINE x == r.pointer + k
  <2>1. x \in Int
    BY <1>2, RingFields
  <2> HIDE DEF x
  <2>2. x % RxSize \in 0 .. RxSize - 1
    BY <1>1, <2>1, ModRange
  <2> QED BY <2>2, Zenon DEF x
<1>6. s \in Ring
  <2>1. r.datalen - k \in 0 .. RxSize
    BY <1>1, <1>2, RingFields, SMTT(60)
  <2> HIDE DEF k, left, cells, pointer, s
  <2> QED BY <1>3, <1>4, <1>5, <2>1 DEF Ring
<1>7. ASSUME n <= r.datalen, NEW j \in 1 .. r.datalen - n
      PROVE  Item(s, j) = Item(r, n + j)
  <2>1. k = n /\ j \in 1 .. RxSize /\ n + j \in 1 .. RxSize
    BY <1>1, <1>7, RingFields DEF Least
  <2> DEFINE i == Place(s, j)
  <2>2. i \in 0 .. RxSize - 1
    BY <1>6, <2>1, PlaceRange
  <2>3. pointer = IF r.pointer + n < RxSize THEN r.pointer + n ELSE r.pointer + n - RxSize
    <3> DEFINE x == r.pointer + n
    <3>1. x \in 0 .. 2 * RxSize - 1
      BY <1>1, <1>7, RingFields
    <3> HIDE DEF x
    <3>2. x % RxSize = IF x < RxSize THEN x ELSE x - RxSize
      BY <3>1, Wraps
    <3>3. x = r.pointer + k
      BY <2>1 DEF x
    <3>4. x % RxSize = IF r.pointer + n < RxSize THEN r.pointer + n
                                                ELSE r.pointer + n - RxSize
      BY <3>2, <1>1, <1>7, RingFields DEF x
    <3> QED BY <3>3, <3>4, Zenon
  <2>4. i = Place(r, n + j)
    <3> HIDE DEF pointer
    <3>1. s.pointer = pointer
      BY <1>3
    <3> QED BY <1>1, <1>5, <2>1, <2>3, <3>1, RingFields, SMTT(60) DEF Place
  <2>5. (i + RxSize - r.pointer) % RxSize = n + j - 1
    <3>1. i = IF r.pointer + (n + j) - 1 < RxSize THEN r.pointer + (n + j) - 1
                                                ELSE r.pointer + (n + j) - 1 - RxSize
      BY <2>4 DEF Place
    <3> DEFINE x == i + RxSize - r.pointer
    <3> HIDE DEF i
    <3>2. x \in 0 .. 2 * RxSize - 1
      BY <1>1, <2>2, RingFields
    <3>3. (IF x < RxSize THEN x ELSE x - RxSize) = n + j - 1
      BY <1>1, <1>7, <2>1, <3>1, RingFields
    <3> HIDE DEF x
    <3>4. x % RxSize = IF x < RxSize THEN x ELSE x - RxSize
      BY <3>2, Wraps
    <3>5. x % RxSize = n + j - 1
      BY <3>3, <3>4
    <3> QED BY <3>5, Zenon DEF x
  <2>6. left(i)
    <3> HIDE DEF i
    <3> QED BY <2>1, <2>5, <1>1, <1>7, RingFields
  <2>7. cells[i] = r.cells[i]
    BY <1>4, <2>2, <2>6
  <2> QED BY <1>3, <2>4, <2>7 DEF Item
<1>8. n <= r.datalen => k = n
  BY RingFields DEF Least
<1> QED
  BY <1>3, <1>6, <1>7, <1>8

LEMMA Turn ==
  ASSUME NEW R \in Nat, NEW p \in 0 .. R - 1, NEW d \in 0 .. R, NEW j \in 1 .. R,
         NEW i, i = IF p + j - 1 < R THEN p + j - 1 ELSE p + j - 1 - R,
         NEW e, e = IF p + d < R THEN p + d ELSE p + d - R
  PROVE  /\ i + R - e \in 0 .. 2 * R - 1
         /\ (IF i + R - e < R THEN i + R - e ELSE i - e)
              = IF j <= d THEN R - d + j - 1 ELSE j - d - 1
<1>1. CASE p + j - 1 < R /\ p + d < R
  BY <1>1
<1>2. CASE p + j - 1 < R /\ ~(p + d < R)
  BY <1>2
<1>3. CASE ~(p + j - 1 < R) /\ p + d < R
  BY <1>3
<1>4. CASE ~(p + j - 1 < R) /\ ~(p + d < R)
  BY <1>4
<1> QED
  BY <1>1, <1>2, <1>3, <1>4

(* Pushing what fits puts it behind the unread bytes.                      *)
LEMMA PushFacts ==
  ASSUME NEW r \in Ring, NEW data \in Seq(Bytes)
  PROVE  /\ CircPush(r, data) \in Ring
         /\ Len(data) <= RxSize - r.datalen =>
              /\ CircPush(r, data).datalen = r.datalen + Len(data)
              /\ \A j \in 1 .. r.datalen : Item(CircPush(r, data), j) = Item(r, j)
              /\ \A j \in 1 .. Len(data) : Item(CircPush(r, data), r.datalen + j) = data[j]
<1> DEFINE n == Least(Len(data), RxSize - r.datalen)
           dend == (r.pointer + r.datalen) % RxSize
           at(i) == (i + RxSize - dend) % RxSize
           cells == [i \in DOMAIN r.cells |-> IF at(i) < n THEN data[at(i) + 1] ELSE r.cells[i]]
           s == CircPush(r, data)
<1>1. RxSize \in Nat \ {0} /\ RxSize > 0
  BY Sizes
<1>2. n \in Nat /\ n <= Len(data) /\ r.datalen + n \in 0 .. RxSize
  BY RingFields, <1>1 DEF Least
<1>3. s = [r EXCEPT !.cells = cells, !.datalen = r.datalen + n]
  BY DEF CircPush
<1>4. \A i \in 0 .. RxSize - 1 : at(i) \in 0 .. RxSize - 1
  <2> DEFINE x == r.pointer + r.datalen
  <2>1. x \in Int
    BY RingFields
  <2> HIDE DEF x
  <2>2. x % RxSize \in 0 .. RxSize - 1
    BY <1>1, <2>1, ModRange
  <2>3. dend \in Int
    BY <2>2, <1>1 DEF x
  <2> HIDE DEF dend
  <2> TAKE i \in 0 .. RxSize - 1
  <2> DEFINE y == i + RxSize - dend
  <2>4. y \in Int
    BY <1>1, <2>3
  <2> HIDE DEF y
  <2>5. y % RxSize \in 0 .. RxSize - 1
    BY <1>1, <2>4, ModRange
  <2> QED BY <2>5, Zenon DEF y
<1>5. cells \in [0 .. RxSize - 1 -> Bytes]
      /\ \A i \in 0 .. RxSize - 1 :
           cells[i] = IF at(i) < n THEN data[at(i) + 1] ELSE r.cells[i]
  <2> HIDE DEF at, n
  <2>1. \A i \in 0 .. RxSize - 1 : at(i) < n => data[at(i) + 1] \in Bytes
    BY <1>2, <1>4
  <2> QED BY <2>1, RingFields
<1>6. s \in Ring /\ s.cells = cells /\ s.pointer = r.pointer /\ s.datalen = r.datalen + n
  <2> HIDE DEF cells, n, s
  <2> QED BY <1>2, <1>3, <1>5, RingFields DEF Ring
<1>7. ASSUME Len(data) <= RxSize - r.datalen, NEW j \in 1 .. r.datalen + Len(data)
      PROVE  Item(s, j) = IF j <= r.datalen THEN Item(r, j) ELSE data[j - r.datalen]
  <2>1. n = Len(data) /\ j \in 1 .. RxSize
    BY <1>1, <1>7, RingFields DEF Least
  <2> DEFINE i == Place(s, j)
  <2>2. i \in 0 .. RxSize - 1 /\ i = Place(r, j)
    BY <1>6, <2>1, PlaceRange DEF Place
  <2>3. dend = IF r.pointer + r.datalen < RxSize THEN r.pointer + r.datalen
                                                ELSE r.pointer + r.datalen - RxSize
    <3> DEFINE x == r.pointer + r.datalen
    <3>1. x \in 0 .. 2 * RxSize - 1
      BY <1>1, <1>7, RingFields, SMTT(60)
    <3> HIDE DEF x
    <3>2. x % RxSize = IF x < RxSize THEN x ELSE x - RxSize
      BY <3>1, Wraps
    <3>3. x % RxSize = IF r.pointer + r.datalen < RxSize THEN r.pointer + r.datalen
                                                ELSE r.pointer + r.datalen - RxSize
      BY <3>2, <1>1, RingFields DEF x
    <3> QED BY <3>3, Zenon DEF x
  <2>4. i = IF r.pointer + j - 1 < RxSize THEN r.pointer + j - 1
                                         ELSE r.pointer + j - 1 - RxSize
    BY <2>2 DEF Place
  <2>5. at(i) = IF j <= r.datalen THEN RxSize - r.datalen + j - 1 ELSE j - r.datalen - 1
    <3> DEFINE x == i + RxSize - dend
               t == IF j <= r.datalen THEN RxSize - r.datalen + j - 1 ELSE j - r.datalen - 1
    <3> HIDE DEF i, dend
    <3>1. r.pointer \in 0 .. RxSize - 1 /\ r.datalen \in 0 .. RxSize /\ RxSize \in Nat
      BY <1>1, RingFields
    <3>2. /\ x \in 0 .. 2 * RxSize - 1
          /\ (IF x < RxSize THEN x ELSE i - dend) = t
      <4> DEFINE p == r.pointer
                 d == r.datalen
      <4>1. p \in 0 .. RxSize - 1 /\ d \in 0 .. RxSize
        BY <3>1
      <4>2. i = IF p + j - 1 < RxSize THEN p + j - 1 ELSE p + j - 1 - RxSize
        BY <2>4
      <4>3. dend = IF p + d < RxSize THEN p + d ELSE p + d - RxSize
        BY <2>3
      <4>5. j \in 1 .. RxSize /\ RxSize \in Nat
        BY <2>1, <3>1
      <4> HIDE DEF p
      <4>4. /\ i + RxSize - dend \in 0 .. 2 * RxSize - 1
            /\ (IF i + RxSize - dend < RxSize THEN i + RxSize - dend ELSE i - dend)
                 = IF j <= d THEN RxSize - d + j - 1 ELSE j - d - 1
        <5> HIDE DEF d
        <5> QED BY <4>1, <4>2, <4>3, <4>5, Turn
      <4> QED BY <4>4, Zenon
    <3>3. i \in Int /\ dend \in Int
      BY <3>1, <2>2, <2>3
    <3>4. x - RxSize = i - dend
      BY <3>1, <3>3
    <3> HIDE DEF x, t
    <3>5. x % RxSize = t
      BY <3>2, <3>4, Wraps
    <3> QED BY <3>5, Zenon DEF x, t
  <2>6. cells[i] = IF j <= r.datalen THEN r.cells[i] ELSE data[j - r.datalen]
    <3>1. cells[i] = IF at(i) < n THEN data[at(i) + 1] ELSE r.cells[i]
      BY <1>5, <2>2
    <3> HIDE DEF at, n, cells, i
    <3>2. CASE j <= r.datalen
      <4>1. ~(at(i) < n)
        BY <1>1, <1>7, <2>1, <2>5, <3>2, RingFields
      <4> QED BY <3>1, <3>2, <4>1
    <3>3. CASE ~(j <= r.datalen)
      <4>1. at(i) < n /\ at(i) + 1 = j - r.datalen
        BY <1>1, <1>7, <2>1, <2>5, <3>3, RingFields
      <4> QED BY <3>1, <3>3, <4>1
    <3> QED BY <3>2, <3>3
  <2> QED BY <1>6, <2>2, <2>6 DEF Item
<1>8. ASSUME Len(data) <= RxSize - r.datalen
      PROVE  /\ s.datalen = r.datalen + Len(data)
             /\ \A j \in 1 .. r.datalen : Item(s, j) = Item(r, j)
             /\ \A j \in 1 .. Len(data) : Item(s, r.datalen + j) = data[j]
  <2>1. n = Len(data)
    BY <1>1, <1>8, RingFields DEF Least
  <2>2. ASSUME NEW j \in 1 .. r.datalen PROVE Item(s, j) = Item(r, j)
    <3>1. j \in 1 .. r.datalen + Len(data) /\ j <= r.datalen
      BY RingFields
    <3> QED BY <1>7, <1>8, <3>1
  <2>3. ASSUME NEW j \in 1 .. Len(data) PROVE Item(s, r.datalen + j) = data[j]
    <3> DEFINE t == r.datalen + j
    <3>1. t \in 1 .. r.datalen + Len(data) /\ ~(t <= r.datalen) /\ t - r.datalen = j
      BY RingFields
    <3> HIDE DEF t
    <3>2. Item(s, t) = data[j]
      BY <1>7, <1>8, <3>1
    <3> QED BY <3>2 DEF t
  <2> QED BY <1>6, <2>1, <2>2, <2>3
<1> QED
  BY <1>6, <1>8

-----------------------------------------------------------------------------
(* Lengths and packets.                                                    *)

(* A length that occurs is its own first digit, and a second one is 1.     *)
LEMMA EncodeFacts ==
  ASSUME NEW len \in 0 .. 2 * Base - 1
  PROVE  /\ EncodeLength(len) = IF len < Base THEN <<len>> ELSE <<len, 1>>
         /\ EncodeLength(len) \in Seq(Bytes)
         /\ Len(EncodeLength(len)) = IF len < Base THEN 1 ELSE 2
         /\ DecodeLength(EncodeLength(len)) = len
<1>0. Base \in Nat \ {0} /\ Base > 3
  BY Sizes
<1>1. CASE len < Base
  <2>1. len % Base = len
    <3>1. len \in Int /\ 0 \in Int /\ len \in 0 .. Base - 1 /\ len = Base * 0 + len
      BY <1>0, <1>1
    <3> QED BY <1>0, <3>1, ModUnique
  <2>2. EncodeLength(len) = <<len>> /\ len \in Bytes
    BY <1>0, <1>1 DEF EncodeLength, Bytes
  <2>3. DecodeLength(<<len>>) = len
    BY <2>1 DEF DecodeLength
  <2> QED BY <1>1, <2>2, <2>3
<1>2. CASE ~(len < Base)
  <2> DEFINE y == len - Base
  <2>1. len % Base = y
    <3>1. len \in Int /\ 1 \in Int /\ y \in 0 .. Base - 1 /\ len = Base * 1 + y
      BY <1>0, <1>2
    <3> HIDE DEF y
    <3> QED BY <1>0, <3>1, ModUnique
  <2>2. len \div Base = 1
    <3> DEFINE q == len \div Base
               s == len % Base
    <3>1. q \in Int /\ len = Base * q + s /\ s = len - Base
      BY <1>0, <2>1
    <3> HIDE DEF q, s
    <3>2. Base * q = Base
      BY <1>0, <3>1
    <3>3. ASSUME q >= 2 PROVE FALSE
      <4>1. Base * q >= Base * 2
        BY <1>0, <3>1, <3>3
      <4> QED BY <1>0, <3>2, <4>1
    <3>4. ASSUME q <= 0 PROVE FALSE
      <4>1. Base * q <= 0
        BY <1>0, <3>1, <3>4
      <4> QED BY <1>0, <3>2, <4>1
    <3>5. q = 1
      BY <3>1, <3>3, <3>4
    <3> QED BY <3>5 DEF q
  <2>3. 1 % Base = 1
    <3>1. 1 \in Int /\ 0 \in Int /\ 1 \in 0 .. Base - 1 /\ 1 = Base * 0 + 1
      BY <1>0
    <3> QED BY <1>0, <3>1, ModUnique
  <2>4. (len % Base) + Base = len
    BY <1>0, <2>1
  <2>5. EncodeLength(len) = <<len, 1>>
    BY <1>2, <2>2, <2>4, Zenon DEF EncodeLength
  <2>6. len \in Bytes /\ 1 \in Bytes
    BY <1>0 DEF Bytes
  <2>7. DecodeLength(<<len, 1>>) = len
    <3>1. DecodeLength(<<len, 1>>) = (len % Base) + (1 % Base) * Base
      BY DEF DecodeLength
    <3>2. (len % Base) + 1 * Base = len
      BY <1>0, <2>1
    <3> QED BY <2>3, <3>1, <3>2
  <2> QED BY <1>2, <2>5, <2>6, <2>7
<1> QED BY <1>1, <1>2

(* The bytes of a packet.                                                  *)
DigitCount(len) == IF len < Base THEN 1 ELSE 2

LEMMA BytifyFacts ==
  ASSUME NEW type \in Bytes, NEW body \in Seq(Bytes), Len(body) < 2 * Base
  PROVE  LET P == Bytify(type, body)
             d == DigitCount(Len(body))
         IN  /\ P \in Seq(Bytes) /\ Len(P) = 1 + d + Len(body)
             /\ P[1] = type /\ P[2] = Len(body) /\ (d = 2 => P[3] = 1)
             /\ \A i \in 1 .. Len(body) : P[1 + d + i] = body[i]
<1> DEFINE L == Len(body)
           d == DigitCount(L)
           e == EncodeLength(L)
           a == <<type>> \o e
           P == Bytify(type, body)
<1>1. L \in Nat /\ L \in 0 .. 2 * Base - 1
  BY Sizes
<1>2. /\ e \in Seq(Bytes) /\ Len(e) = d /\ d \in 1 .. 2
      /\ e[1] = L /\ (d = 2 => e[2] = 1)
  <2> HIDE DEF L
  <2> QED BY <1>1, EncodeFacts DEF DigitCount
<1>3. P = a \o body
  BY DEF Bytify
<1> HIDE DEF e, d, P
<1>4. <<type>> \in Seq(Bytes) /\ Len(<<type>>) = 1
  OBVIOUS
<1>5. /\ a \in Seq(Bytes) /\ Len(a) = 1 + d /\ a[1] = type
      /\ \A i \in 1 .. d : a[1 + i] = e[i]
  BY <1>2, <1>4
<1> HIDE DEF a
<1>6. /\ P \in Seq(Bytes) /\ Len(P) = 1 + d + L
      /\ \A i \in 1 .. 1 + d : P[i] = a[i]
      /\ \A i \in 1 .. L : P[1 + d + i] = body[i]
  BY <1>2, <1>3, <1>5
<1>7. a[2] = e[1] /\ (d = 2 => a[3] = e[2])
  <2>1. \A i \in 1 .. d : a[1 + i] = e[i]
    BY <1>5
  <2>2. a[1 + 1] = e[1] /\ (d = 2 => a[1 + 2] = e[2])
    BY <1>2, <2>1
  <2> QED BY <2>2
<1>8. P[1] = a[1] /\ P[2] = a[2] /\ (d = 2 => P[3] = a[3])
  BY <1>2, <1>6
<1> QED
  BY <1>2, <1>5, <1>6, <1>7, <1>8 DEF d, P

(* What the broker sends.                                                  *)
ConnackBody == <<0, IF accepted THEN 0 ELSE 1>>
MessageBody(k, padding) == Topic \o <<k>> \o Padding(padding)

LEMMA SmallBytes == {0, 1, 2, 3} \subseteq Bytes
  BY Sizes DEF Bytes

LEMMA AnswerBodies ==
  /\ ConnackBody \in Seq(Bytes) /\ Len(ConnackBody) = 2
  /\ ConnackBody[2] = IF accepted THEN 0 ELSE 1
  /\ <<0, 0>> \in Seq(Bytes) /\ Len(<<0, 0>>) = 2
<1>1. (IF accepted THEN 0 ELSE 1) \in Bytes /\ 0 \in Bytes
  BY SmallBytes
<1> QED BY <1>1 DEF ConnackBody

LEMMA MessageBodyFacts ==
  ASSUME NEW k \in Bytes, NEW padding \in {0, Base}
  PROVE  LET body == MessageBody(k, padding)
         IN  /\ body \in Seq(Bytes) /\ Len(body) = 3 + padding /\ Len(body) < 2 * Base
             /\ body[1] = 1 /\ body[3] = k
<1> DEFINE p == Padding(padding)
           a == Topic \o <<k>>
<1>1. padding \in Nat /\ 3 + padding < 2 * Base
  BY Sizes
<1>2. p \in Seq(Bytes) /\ Len(p) = padding
  BY <1>1, SmallBytes DEF Padding
<1>3. Topic \in Seq(Bytes) /\ Len(Topic) = 2 /\ Topic[1] = 1
  BY SmallBytes DEF Topic
<1>4. a \in Seq(Bytes) /\ Len(a) = 3 /\ a[1] = 1 /\ a[3] = k
  <2> DEFINE t == Topic
             u == <<k>>
  <2>1. u \in Seq(Bytes) /\ Len(u) = 1 /\ u[1] = k
    OBVIOUS
  <2>2. t \in Seq(Bytes) /\ Len(t) = 2 /\ t[1] = 1
    BY <1>3
  <2> HIDE DEF t, u
  <2>3. /\ t \o u \in Seq(Bytes) /\ Len(t \o u) = Len(t) + Len(u)
        /\ \A i \in 1 .. Len(t) : (t \o u)[i] = t[i]
        /\ \A i \in 1 .. Len(u) : (t \o u)[Len(t) + i] = u[i]
    BY <2>1, <2>2, JoinFacts, SMTT(60)
  <2>4. (t \o u)[1] = 1 /\ (t \o u)[2 + 1] = k
    BY <2>1, <2>2, <2>3
  <2> QED BY <2>1, <2>2, <2>3, <2>4 DEF t, u
<1> HIDE DEF a, p
<1>5. /\ a \o p \in Seq(Bytes) /\ Len(a \o p) = 3 + padding
      /\ (a \o p)[1] = a[1] /\ (a \o p)[3] = a[3]
  <2>1. /\ a \o p \in Seq(Bytes) /\ Len(a \o p) = Len(a) + Len(p)
        /\ \A i \in 1 .. Len(a) : (a \o p)[i] = a[i]
    BY <1>2, <1>4, JoinFacts, ZenonT(60)
  <2> QED BY <1>1, <1>2, <1>4, <2>1
<1> QED
  BY <1>1, <1>4, <1>5 DEF MessageBody, a, p

-----------------------------------------------------------------------------
(* The digits of a length in the ring.                                     *)

NextDigits(r, S) ==
  UNION {IF More(Last(d)) THEN {Append(d, b) : b \in At(Popped(r, 5), Len(d) + 1 + 1)}
                          ELSE {d} : d \in S}

LEMMA DigitsAre ==
  ASSUME NEW r
  PROVE  Digits(r) = NextDigits(r, NextDigits(r, NextDigits(r,
                       {<<d>> : d \in At(Popped(r, 5), 1 + 1)})))
  BY DEF Digits, NextDigits

DigitSeqs == {d \in Seq(Bytes) : Len(d) > 0}

LEMMA AtTyped ==
  ASSUME NEW body \in Seq(Bytes), NEW i
  PROVE  At(body, i) \subseteq Bytes
<1>1. i \in DOMAIN body => body[i] \in Bytes
  OBVIOUS
<1> QED BY <1>1 DEF At

LEMMA NextDigitsTyped ==
  ASSUME NEW r \in Ring, NEW S \in SUBSET DigitSeqs
  PROVE  NextDigits(r, S) \in SUBSET DigitSeqs
<1>1. ASSUME NEW d \in S, NEW b \in At(Popped(r, 5), Len(d) + 1 + 1)
      PROVE  Append(d, b) \in DigitSeqs
  <2>1. Popped(r, 5) \in Seq(Bytes)
    BY PoppedItems
  <2>2. b \in Bytes
    BY <2>1, AtTyped
  <2>3. d \in Seq(Bytes)
    BY DEF DigitSeqs
  <2> QED BY <2>2, <2>3 DEF DigitSeqs
<1>2. ASSUME NEW d \in S
      PROVE  (IF More(Last(d)) THEN {Append(d, b) : b \in At(Popped(r, 5), Len(d) + 1 + 1)}
                               ELSE {d}) \subseteq DigitSeqs
  BY <1>1
<1> QED BY <1>2 DEF NextDigits

LEMMA DigitsTyped ==
  ASSUME NEW r \in Ring
  PROVE  Digits(r) \in SUBSET DigitSeqs
<1>1. Popped(r, 5) \in Seq(Bytes)
  BY PoppedItems
<1>2. {<<d>> : d \in At(Popped(r, 5), 1 + 1)} \in SUBSET DigitSeqs
  <2>1. ASSUME NEW d \in At(Popped(r, 5), 1 + 1) PROVE <<d>> \in DigitSeqs
    <3>1. d \in Bytes
      BY <1>1, AtTyped
    <3> QED BY <3>1 DEF DigitSeqs
  <2> QED BY <2>1
<1> QED BY <1>2, DigitsAre, NextDigitsTyped

LEMMA DigitsEnd ==
  ASSUME NEW r, NEW d, ~More(Last(d))
  PROVE  NextDigits(r, {d}) = {d}
  BY DEF NextDigits

LEMMA DigitsGoOn ==
  ASSUME NEW r \in Ring, NEW d, More(Last(d)), Len(d) \in 1 .. 3, Len(d) + 2 <= r.datalen
  PROVE  NextDigits(r, {d}) = {Append(d, Item(r, Len(d) + 2))}
<1> DEFINE i == Len(d) + 1 + 1
<1>1. i = Len(d) + 2 /\ i \in 1 .. Least(5, r.datalen)
  <2>1. r.datalen \in Nat /\ Len(d) \in Nat
    BY RingFields
  <2> DEFINE n == Len(d)
  <2> HIDE DEF n
  <2>2. n \in 1 .. 3 /\ n + 2 <= r.datalen
    BY DEF n
  <2>3. n + 1 + 1 = n + 2 /\ n + 1 + 1 \in 1 .. Least(5, r.datalen)
    BY <2>1, <2>2 DEF Least
  <2> QED BY <2>3 DEF n
<1>2. At(Popped(r, 5), i) = {Item(r, Len(d) + 2)}
  <2> HIDE DEF i
  <2>1. i \in DOMAIN Popped(r, 5) /\ Popped(r, 5)[i] = Item(r, i)
    BY <1>1, PoppedItems
  <2> QED BY <1>1, <2>1 DEF At
<1>3. NextDigits(r, {d}) = {Append(d, b) : b \in At(Popped(r, 5), i)}
  BY DEF NextDigits
<1> QED BY <1>2, <1>3

(* A length whose digits have all arrived is read as it was written.       *)
LEMMA DigitsOfLength ==
  ASSUME NEW r \in Ring, NEW len \in 0 .. 2 * Base - 1,
         1 + DigitCount(len) <= r.datalen,
         Item(r, 2) = len, len >= Base => Item(r, 3) = 1
  PROVE  Digits(r) = {EncodeLength(len)}
<1>0. Base \in Nat /\ Base > 3 /\ r.datalen \in Nat
  BY Sizes, RingFields
<1>1. {<<d>> : d \in At(Popped(r, 5), 1 + 1)} = {<<len>>}
  <2>1. 2 \in 1 .. Least(5, r.datalen) /\ 5 \in Nat
    BY <1>0 DEF DigitCount, Least
  <2>2. 2 \in DOMAIN Popped(r, 5) /\ Popped(r, 5)[2] = Item(r, 2)
    BY <2>1, PoppedItems
  <2>3. At(Popped(r, 5), 2) = {len}
    BY <2>2 DEF At
  <2> QED BY <2>3
<1>2. Last(<<len>>) = len /\ Len(<<len>>) = 1
  BY DEF Last
<1>3. CASE len < Base
  <2>1. ~More(Last(<<len>>)) /\ EncodeLength(len) = <<len>>
    BY <1>0, <1>2, <1>3, EncodeFacts DEF More
  <2>2. NextDigits(r, {<<len>>}) = {<<len>>}
    BY <2>1, DigitsEnd
  <2>3. Digits(r) = {<<len>>}
    BY <1>1, <2>2, DigitsAre
  <2> QED BY <2>1, <2>3
<1>4. CASE ~(len < Base)
  <2>1. More(Last(<<len>>)) /\ EncodeLength(len) = <<len, 1>> /\ Item(r, 3) = 1
    BY <1>0, <1>2, <1>4, EncodeFacts DEF More
  <2>2. NextDigits(r, {<<len>>}) = {Append(<<len>>, Item(r, 3))}
    <3>1. Len(<<len>>) \in 1 .. 3 /\ Len(<<len>>) + 2 <= r.datalen /\ Len(<<len>>) + 2 = 3
      BY <1>0, <1>2, <1>4 DEF DigitCount
    <3> QED BY <2>1, <3>1, DigitsGoOn
  <2>3. NextDigits(r, {<<len>>}) = {<<len, 1>>}
    <3> DEFINE s == Append(<<len>>, 1)
               t == <<len, 1>>
    <3>1. /\ s \in Seq(Int) /\ Len(s) = 2 /\ s[1] = len /\ s[2] = 1
          /\ t \in Seq(Int) /\ Len(t) = 2 /\ t[1] = len /\ t[2] = 1
      OBVIOUS
    <3> HIDE DEF s, t
    <3>2. \A i \in 1 .. Len(s) : s[i] = t[i]
      BY <3>1
    <3>3. s = t
      BY <3>1, <3>2, SeqEqual
    <3>4. Append(<<len>>, 1) = <<len, 1>>
      BY <3>3 DEF s, t
    <3> QED BY <2>1, <2>2, <3>4
  <2>4. ~More(Last(<<len, 1>>))
    BY <1>0 DEF Last, More
  <2>5. NextDigits(r, {<<len, 1>>}) = {<<len, 1>>}
    BY <2>4, DigitsEnd
  <2>6. Digits(r) = {<<len, 1>>}
    BY <1>1, <2>3, <2>5, DigitsAre
  <2> QED BY <2>1, <2>6
<1> QED BY <1>3, <1>4

-----------------------------------------------------------------------------
(* Types.                                                                  *)

MarkedBytes == Seq([byte : Bytes, end : BOOLEAN])

LEMMA MarkedFacts ==
  ASSUME NEW P \in Seq(Bytes)
  PROVE  /\ Marked(P) \in MarkedBytes /\ Len(Marked(P)) = Len(P)
         /\ \A i \in 1 .. Len(P) : Marked(P)[i].byte = P[i] /\ Marked(P)[i].end = (i = Len(P))
<1> DEFINE R == [byte : Bytes, end : BOOLEAN]
           e(i) == [byte |-> P[i], end |-> i = Len(P)]
<1>1. Len(P) \in Nat /\ DOMAIN P = 1 .. Len(P)
  OBVIOUS
<1>2. ASSUME NEW i \in 1 .. Len(P) PROVE e(i) \in R
  <2>1. P[i] \in Bytes
    OBVIOUS
  <2>2. (i = Len(P)) \in BOOLEAN
    OBVIOUS
  <2> QED BY <2>1, <2>2
<1>3. Marked(P) = [i \in 1 .. Len(P) |-> e(i)]
  BY <1>1 DEF Marked
<1>4. \A i \in 1 .. Len(P) : e(i).byte = P[i] /\ e(i).end = (i = Len(P))
  OBVIOUS
<1> HIDE DEF e, R
<1>5. Marked(P) \in Seq(R) /\ Len(Marked(P)) = Len(P)
      /\ \A i \in 1 .. Len(P) : Marked(P)[i] = e(i)
  BY <1>1, <1>2, <1>3
<1> QED
  BY <1>4, <1>5 DEF MarkedBytes, R

LEMMA UnmarkedFacts ==
  ASSUME NEW s \in MarkedBytes
  PROVE  /\ Unmarked(s) \in Seq(Bytes) /\ Len(Unmarked(s)) = Len(s)
         /\ \A i \in 1 .. Len(s) : Unmarked(s)[i] = s[i].byte
<1>1. Len(s) \in Nat /\ DOMAIN s = 1 .. Len(s) /\ \A i \in 1 .. Len(s) : s[i].byte \in Bytes
  <2> DEFINE R == [byte : Bytes, end : BOOLEAN]
  <2>1. \A x \in R : x.byte \in Bytes
    OBVIOUS
  <2>2. s \in Seq(R)
    BY DEF MarkedBytes
  <2> HIDE DEF R
  <2>3. Len(s) \in Nat /\ DOMAIN s = 1 .. Len(s) /\ \A i \in 1 .. Len(s) : s[i] \in R
    BY <2>2
  <2> QED BY <2>1, <2>3
<1>2. Unmarked(s) = [i \in 1 .. Len(s) |-> s[i].byte]
  BY <1>1 DEF Unmarked
<1> QED BY <1>1, <1>2

(* What the broker sends are bytes.                                        *)
LEMMA PacketBytes ==
  /\ CONNACK \in Bytes /\ PUBLISH \in Bytes /\ SUBACK \in Bytes /\ 2 < 2 * Base
  BY SmallBytes, Sizes DEF CONNACK, PUBLISH, SUBACK

LEMMA InitTypes == Init => TypeOK
<1> SUFFICES ASSUME Init PROVE TypeOK
  OBVIOUS
<1>1. CircInit \in Ring
  <2>1. Blank \in [0 .. RxSize - 1 -> Bytes] /\ 0 \in 0 .. RxSize - 1 /\ 0 \in 0 .. RxSize
    BY SmallBytes, Sizes DEF Blank
  <2> QED BY <2>1 DEF CircInit, Ring
<1>2. <<>> \in Seq([byte : Bytes, end : BOOLEAN]) /\ <<>> \in Seq(Bytes)
      /\ <<>> \in Seq(1 .. MaxMessages)
  BY EmptySeq
<1> QED BY <1>1, <1>2 DEF Init, TypeOK

LEMMA SendTypes ==
  ASSUME TypeOK, NEW type \in Bytes, NEW body \in Seq(Bytes), Len(body) < 2 * Base,
         BrokerSends(type, body)
  PROVE  stream' \in MarkedBytes
<1>1. Bytify(type, body) \in Seq(Bytes)
  BY BytifyFacts
<1>2. Marked(Bytify(type, body)) \in MarkedBytes /\ stream \in MarkedBytes
  BY <1>1, MarkedFacts DEF TypeOK, MarkedBytes
<1> QED
  BY <1>2 DEF BrokerSends, MarkedBytes

LEMMA PublishTypes ==
  ASSUME TypeOK, NEW padding \in {0, Base}, PublishMessage(padding)
  PROVE  TypeOK'
<1> DEFINE k == Len(sent) + 1
<1>1. k \in 1 .. MaxMessages /\ k \in Bytes
  BY Sizes DEF TypeOK, PublishMessage, Bytes
<1>2. BrokerSends(PUBLISH, MessageBody(k, padding))
  BY DEF PublishMessage, MessageBody
<1> HIDE DEF k
<1>3. MessageBody(k, padding) \in Seq(Bytes) /\ Len(MessageBody(k, padding)) < 2 * Base
  BY <1>1, MessageBodyFacts
<1>4. stream' \in MarkedBytes
  BY <1>2, <1>3, PacketBytes, SendTypes
<1>5. sent' = Append(sent, k) /\ sent \in Seq(1 .. MaxMessages)
  BY DEF PublishMessage, TypeOK, k
<1>6. sent' \in Seq(1 .. MaxMessages)
  BY <1>1, <1>5
<1> QED
  BY <1>4, <1>6 DEF TypeOK, PublishMessage, socket, client, MarkedBytes

LEMMA SubackTypes == TypeOK /\ Suback => TypeOK'
<1> SUFFICES ASSUME TypeOK, Suback PROVE TypeOK'
  OBVIOUS
<1>1. stream' \in MarkedBytes
  BY AnswerBodies, PacketBytes, SendTypes DEF Suback
<1> QED
  BY <1>1 DEF TypeOK, Suback, socket, client, MarkedBytes

LEMMA ConnectTypes == TypeOK /\ Connect => TypeOK'
<1> SUFFICES ASSUME TypeOK, Connect PROVE TypeOK'
  OBVIOUS
<1> DEFINE body == <<0, IF accepted' THEN 0 ELSE 1>>
<1>1. body \in Seq(Bytes) /\ Len(body) = 2
  <2>1. (IF accepted' THEN 0 ELSE 1) \in Bytes /\ 0 \in Bytes
    BY SmallBytes
  <2> QED BY <2>1
<1>2. stream' = Marked(Bytify(CONNACK, body))
  BY DEF Connect
<1> HIDE DEF body
<1>3. Bytify(CONNACK, body) \in Seq(Bytes)
  BY <1>1, PacketBytes, BytifyFacts
<1>4. stream' \in MarkedBytes
  BY <1>2, <1>3, MarkedFacts
<1>5. CircInit \in Ring
  <2>1. Blank \in [0 .. RxSize - 1 -> Bytes] /\ 0 \in 0 .. RxSize - 1 /\ 0 \in 0 .. RxSize
    BY SmallBytes, Sizes DEF Blank
  <2> QED BY <2>1 DEF CircInit, Ring
<1>6. <<>> \in Seq(1 .. MaxMessages) /\ <<>> \in Seq(Bytes)
  OBVIOUS
<1>7. /\ sent' = <<>> /\ handled' = <<>> /\ rxbuff' = CircInit /\ state' = "CONNECTING"
      /\ accepted' \in BOOLEAN /\ closed' = FALSE /\ isUsed' = TRUE /\ bIsRecvPending' = FALSE
      /\ request' = FALSE /\ broken' = FALSE /\ UNCHANGED <<chunks, pc>>
  BY DEF Connect
<1> QED
  BY <1>4, <1>5, <1>6, <1>7 DEF TypeOK, MarkedBytes

LEMMA ReplyTypes ==
  ASSUME TypeOK, NEW n \in 1 .. MaxReply, Reply(n)
  PROVE  TypeOK'
<1>1. stream \in MarkedBytes /\ n \in 1 .. Len(stream)
  BY DEF TypeOK, MarkedBytes, Reply
<1>2. SubSeq(stream, 1, n) \in MarkedBytes /\ SubSeq(stream, n + 1, Len(stream)) \in MarkedBytes
  <2> DEFINE R == [byte : Bytes, end : BOOLEAN]
             i == n + 1
  <2>0. stream \in Seq(R) /\ i \in 1 .. Len(stream) + 1 /\ i - 1 = n
    BY <1>1 DEF MarkedBytes
  <2> HIDE DEF R, i
  <2>1. SubSeq(stream, 1, i - 1) \in Seq(R) /\ SubSeq(stream, i, Len(stream)) \in Seq(R)
    BY <2>0, CutFacts
  <2> QED BY <2>0, <2>1 DEF MarkedBytes, R, i
<1>3. chunks' \in Seq(Bytes) /\ stream' \in MarkedBytes
  BY <1>2, UnmarkedFacts DEF Reply
<1>4. broken' \in BOOLEAN
  BY Zenon DEF Reply
<1> QED
  BY <1>3, <1>4 DEF TypeOK, Reply, MarkedBytes, client

LEMMA ReceiveTypes == TypeOK /\ Receive => TypeOK'
<1> SUFFICES ASSUME TypeOK, Receive PROVE TypeOK'
  OBVIOUS
<1> DEFINE size == Least(Len(chunks), BufferSize)
           n == size % LenRange
<1>1. chunks \in Seq(Bytes) /\ size \in 0 .. Len(chunks) /\ LenRange \in Nat \ {0}
  BY Sizes DEF TypeOK, Least
<1>2. n \in Nat /\ n <= Len(chunks)
  <2> HIDE DEF size
  <2>1. size % LenRange \in 0 .. LenRange - 1 /\ size % LenRange <= size
    <3>1. size \in Nat /\ size \in Int
      BY <1>1
    <3> QED BY <1>1, <3>1, ModRange, ModAtMost
  <2> QED BY <1>1, <2>1, Sizes
<1>3. /\ rxbuff' = CircPush(rxbuff, SubSeq(chunks, 1, n))
      /\ chunks' = SubSeq(chunks, size + 1, Len(chunks))
  BY DEF Receive
<1> HIDE DEF size, n
<1>4. SubSeq(chunks, 1, n) \in Seq(Bytes) /\ SubSeq(chunks, size + 1, Len(chunks)) \in Seq(Bytes)
  <2> DEFINE i == n + 1
             j == size + 1
  <2>1. i \in 1 .. Len(chunks) + 1 /\ i - 1 = n /\ j \in 1 .. Len(chunks) + 1
    BY <1>1, <1>2
  <2> HIDE DEF i, j
  <2>2. SubSeq(chunks, 1, i - 1) \in Seq(Bytes) /\ SubSeq(chunks, j, Len(chunks)) \in Seq(Bytes)
    BY <1>1, <2>1, CutFacts
  <2> QED BY <2>1, <2>2 DEF j
<1>5. rxbuff' \in Ring /\ chunks' \in Seq(Bytes)
  BY <1>3, <1>4, PushFacts DEF TypeOK
<1> QED
  BY <1>5 DEF TypeOK, Receive, broker, socket

(* A length is a number, whatever bytes are taken for its digits.          *)
LEMMA DecodeIsNat ==
  ASSUME NEW digits \in Seq(Bytes), Len(digits) \in Nat, Len(digits) > 0
  PROVE  DecodeLength(digits) \in Nat
<1> DEFINE len == DecodeLength(digits)
<1>0. Base \in Nat \ {0}
  BY Sizes
<1>1. \A i \in 1 .. Len(digits) : digits[i] \in Int
  <2>1. \A b \in Bytes : b \in Int
    BY <1>0 DEF Bytes
  <2> QED BY <2>1
<1>2. \A i \in 1 .. Len(digits) : digits[i] % Base \in Nat
  <2> TAKE i \in 1 .. Len(digits)
  <2> DEFINE x == digits[i]
  <2>1. x \in Int
    BY <1>1
  <2> HIDE DEF x
  <2>2. x % Base \in 0 .. Base - 1
    BY <1>0, <2>1, ModRange
  <2>3. x % Base \in Nat
    BY <1>0, <2>2
  <2> QED BY <2>3, Zenon DEF x
<1>3. 1 \in 1 .. Len(digits) /\ (Len(digits) # 1 => 2 \in 1 .. Len(digits))
  <2> DEFINE n == Len(digits)
  <2>1. n \in Nat /\ n > 0
    OBVIOUS
  <2> HIDE DEF n
  <2>2. 1 \in 1 .. n /\ (n # 1 => 2 \in 1 .. n)
    BY <2>1
  <2> QED BY <2>2 DEF n
<1> DEFINE a == digits[1] % Base
           b == digits[2] % Base
<1>4. a \in Nat /\ (Len(digits) # 1 => b \in Nat)
  BY <1>2, <1>3
<1>5. len = IF Len(digits) = 1 THEN a ELSE a + b * Base
  BY DEF DecodeLength
<1> HIDE DEF len, a, b
<1>6. ASSUME Len(digits) = 1 PROVE len \in Nat
  BY <1>4, <1>5, <1>6
<1>7. ASSUME Len(digits) # 1 PROVE len \in Nat
  <2>1. b * Base \in Nat
    BY <1>0, <1>4, <1>7
  <2> QED BY <1>4, <1>5, <1>7, <2>1
<1> QED BY <1>6, <1>7 DEF len

LEMMA ProcessTypes == TypeOK /\ ProcessPacket => TypeOK'
<1> SUFFICES ASSUME TypeOK, ProcessPacket PROVE TypeOK'
  OBVIOUS
<1>0. Base \in Nat \ {0} /\ rxbuff \in Ring /\ handled \in Seq(Bytes)
  BY Sizes DEF TypeOK
<1>1. PICK digits \in Digits(rxbuff) :
        LET rest == CircPop(rxbuff, 1 + Len(digits))
            len  == DecodeLength(digits)
        IN  IF Len(digits) > 2
            THEN rxbuff' = rest /\ pc' = "undefined" /\ UNCHANGED <<state, handled>>
            ELSE /\ rxbuff' = CircPop(rest, len)
                 /\ PacketArrived(rxbuff.cells[rxbuff.pointer], Popped(rest, len), len)
  BY DEF ProcessPacket
<1> DEFINE rest == CircPop(rxbuff, 1 + Len(digits))
           len  == DecodeLength(digits)
           body == Popped(rest, len)
<1>2. digits \in Seq(Bytes) /\ Len(digits) \in Nat /\ Len(digits) > 0
  BY <1>0, DigitsTyped DEF DigitSeqs
<1>3. rest \in Ring
  <2>1. 1 + Len(digits) \in Nat
    BY <1>2
  <2> QED BY <1>0, <2>1, PopFacts
<1>4. CASE Len(digits) > 2
  BY <1>1, <1>3, <1>4 DEF TypeOK, ProcessPacket, broker, socket
<1>5. CASE ~(Len(digits) > 2)
  <2>1. len \in Nat
    BY <1>2, DecodeIsNat
  <2>2. /\ rxbuff' = CircPop(rest, len)
        /\ PacketArrived(rxbuff.cells[rxbuff.pointer], body, len)
    BY <1>1, <1>5
  <2> HIDE DEF rest, len
  <2>3. rxbuff' \in Ring /\ body \in Seq(Bytes)
    BY <1>3, <2>1, <2>2, PopFacts, PoppedItems
  <2> HIDE DEF body
  <2>4. /\ state' \in {"INIT", "CONNECTING", "CONNECTED", "FAILED"}
        /\ pc' \in {"loop", "process", "undefined"} /\ handled' \in Seq(Bytes)
    <3>1. ASSUME HandlePublish(body, len)
          PROVE  handled' \in Seq(Bytes) /\ pc' \in {"undefined", pc} /\ UNCHANGED state
      <4>1. PICK toplen \in At(body, 1) :
              \/ toplen >= len /\ pc' = "undefined" /\ UNCHANGED handled
              \/ /\ toplen < len
                 /\ \E id \in IF toplen + 1 = len THEN {0} ELSE At(body, toplen + 2) :
                      handled' = Append(handled, id)
                 /\ UNCHANGED pc
        BY <3>1 DEF HandlePublish
      <4>2. ASSUME NEW id \in IF toplen + 1 = len THEN {0} ELSE At(body, toplen + 2),
                   handled' = Append(handled, id)
            PROVE  handled' \in Seq(Bytes)
        <5>1. id \in Bytes
          BY <2>3, AtTyped, SmallBytes
        <5> QED BY <1>0, <4>2, <5>1
      <4>3. handled' \in Seq(Bytes)
        BY <1>0, <4>1, <4>2
      <4> QED BY <3>1, <4>1, <4>3 DEF HandlePublish
    <3> QED
      BY <2>2, <3>1, <1>0 DEF PacketArrived, TypeOK
  <2> QED
    BY <2>3, <2>4 DEF TypeOK, ProcessPacket, broker, socket
<1> QED
  BY <1>4, <1>5

LEMMA StepTypes == TypeOK /\ [Next]_vars => TypeOK'
<1> SUFFICES ASSUME TypeOK, [Next]_vars PROVE TypeOK'
  OBVIOUS
<1>1. ASSUME EndSession PROVE TypeOK'
  <2>1. <<>> \in MarkedBytes
    BY DEF MarkedBytes
  <2> QED BY <1>1, <2>1 DEF TypeOK, EndSession, socket, client, MarkedBytes
<1>2. ASSUME Recv PROVE TypeOK'
  BY <1>2 DEF TypeOK, Recv, broker, client
<1>3. ASSUME ReceiveError PROVE TypeOK'
  BY <1>3 DEF TypeOK, ReceiveError, broker, client
<1>4. ASSUME ProcessEnds PROVE TypeOK'
  BY <1>4 DEF TypeOK, ProcessEnds, broker, socket
<1>5. CASE UNCHANGED vars
  BY <1>5 DEF TypeOK, vars, broker, socket, client
<1>6. ASSUME ReceiveFails PROVE TypeOK'
  BY <1>6 DEF TypeOK, ReceiveFails, broker, socket, client
<1> QED
  BY <1>1, <1>2, <1>3, <1>4, <1>5, <1>6, PublishTypes, SubackTypes, ConnectTypes, ReplyTypes,
     ReceiveTypes, ProcessTypes DEF Next, Firmware, Chip

(* Every variable has its type, also where the code goes astray.           *)
THEOREM StreamTypes == Spec => []TypeOK
<1> QED BY InitTypes, StepTypes, PTL DEF Spec

-----------------------------------------------------------------------------
(* The packets under way.  The bytes in the ring, those of the reply being *)
(* handed over and those the chip holds are one sequence; while the        *)
(* session is not broken it is cut into packets of the broker, the chip    *)
(* hands over only whole ones, and the messages among them follow those    *)
(* that were handled.                                                      *)

Handed == rxbuff.datalen + Len(chunks)
Total == Handed + Len(stream)
ByteAt(j) == IF j <= rxbuff.datalen THEN Item(rxbuff, j)
             ELSE IF j <= Handed THEN chunks[j - rxbuff.datalen] ELSE stream[j - Handed].byte

(* P is a packet the broker sends after `before' messages of the session,  *)
(* with which it has sent `after' messages.                                *)
BrokerPacket(P, before, after) ==
  \/ P = Bytify(CONNACK, ConnackBody) /\ after = before
  \/ P = Bytify(SUBACK, <<0, 0>>) /\ after = before
  \/ /\ after = before + 1
     /\ \E padding \in {0, Base} : P = Bytify(PUBLISH, MessageBody(before + 1, padding))

(* The sequence is n packets, the i-th behind starts[i] bytes and count[i] *)
(* messages.                                                               *)
Framing(n, starts, packets, count) ==
  /\ starts \in [1 .. n + 1 -> 0 .. Total] /\ starts[1] = 0 /\ starts[n + 1] = Total
  /\ \A i, j \in 1 .. n + 1 : i < j => starts[i] < starts[j]
  /\ count \in [1 .. n + 1 -> 0 .. Len(sent)]
  /\ count[1] = Len(handled) /\ count[n + 1] = Len(sent)
  /\ \A i \in 1 .. n :
       /\ starts[i + 1] = starts[i] + Len(packets[i])
       /\ \A j \in 1 .. Len(packets[i]) : ByteAt(starts[i] + j) = packets[i][j]
       /\ BrokerPacket(packets[i], count[i], count[i + 1])
  /\ \E i \in 1 .. n + 1 : starts[i] = Handed
  /\ \A j \in 1 .. Len(stream) : stream[j].end => \E i \in 1 .. n + 1 : starts[i] = Handed + j

Framed == \E n \in Nat : \E starts, packets, count : Framing(n, starts, packets, count)

Numbered(s) == s = [i \in 1 .. Len(s) |-> i]

Whole ==
  /\ Framed /\ Numbered(sent) /\ Numbered(handled)
  /\ pc # "undefined" /\ Len(chunks) <= RxSize
  /\ pc = "loop" => rxbuff.datalen = 0
  /\ pc = "process" => chunks = <<>>
  /\ state = "CONNECTED" /\ isUsed => accepted

StreamInv ==
  /\ ~isUsed => chunks = <<>> /\ ~request
  /\ ~broken => Whole

LEMMA Lengths ==
  ASSUME TypeOK
  PROVE  /\ rxbuff.datalen \in Nat /\ Len(chunks) \in Nat /\ Len(stream) \in Nat
         /\ Handed \in Nat /\ Total \in Nat /\ Handed <= Total /\ rxbuff.datalen <= Handed
         /\ Len(sent) \in Nat /\ Len(handled) \in Nat
<1>1. /\ rxbuff.datalen \in Nat /\ Len(chunks) \in Nat /\ Len(stream) \in Nat
      /\ Len(sent) \in Nat /\ Len(handled) \in Nat
  BY RingFields DEF TypeOK
<1>2. Handed \in Nat /\ rxbuff.datalen <= Handed
  BY <1>1 DEF Handed
<1> QED
  BY <1>1, <1>2 DEF Total

(* A packet has a type, a length and a body.                               *)
LEMMA BrokerPacketFacts ==
  ASSUME NEW P, NEW before \in Nat, NEW after \in 0 .. MaxMessages,
         BrokerPacket(P, before, after)
  PROVE  \E type \in Bytes, body \in Seq(Bytes) :
           /\ P = Bytify(type, body) /\ Len(body) < 2 * Base
           /\ P \in Seq(Bytes) /\ Len(P) = 1 + DigitCount(Len(body)) + Len(body) /\ Len(P) >= 2
           /\ P[1] = type /\ P[2] = Len(body) /\ (Len(body) >= Base => P[3] = 1)
           /\ \A i \in 1 .. Len(body) : P[1 + DigitCount(Len(body)) + i] = body[i]
           /\ \/ /\ type = CONNACK /\ Len(body) = 2 /\ after = before
                 /\ body[2] = IF accepted THEN 0 ELSE 1
              \/ type = SUBACK /\ after = before
              \/ /\ type = PUBLISH /\ Len(body) >= 3 /\ after = before + 1
                 /\ body[1] = 1 /\ body[3] = before + 1
<1> DEFINE Kind(type, body) ==
             \/ /\ type = CONNACK /\ Len(body) = 2 /\ after = before
                /\ body[2] = IF accepted THEN 0 ELSE 1
             \/ type = SUBACK /\ after = before
             \/ /\ type = PUBLISH /\ Len(body) >= 3 /\ after = before + 1
                /\ body[1] = 1 /\ body[3] = before + 1
<1>0. Base \in Nat /\ Base > 3
  BY Sizes
<1>1. \E type \in Bytes, body \in Seq(Bytes) :
        P = Bytify(type, body) /\ Len(body) < 2 * Base /\ Kind(type, body)
  <2>1. CASE P = Bytify(CONNACK, ConnackBody) /\ after = before
    <3>1. ConnackBody \in Seq(Bytes) /\ Len(ConnackBody) < 2 * Base /\ Kind(CONNACK, ConnackBody)
      BY <2>1, AnswerBodies, PacketBytes
    <3> QED BY <2>1, <3>1, PacketBytes
  <2>2. CASE P = Bytify(SUBACK, <<0, 0>>) /\ after = before
    <3>1. <<0, 0>> \in Seq(Bytes) /\ Len(<<0, 0>>) < 2 * Base /\ Kind(SUBACK, <<0, 0>>)
      BY <2>2, AnswerBodies, PacketBytes
    <3> HIDE DEF Kind
    <3> QED BY <2>2, <3>1, PacketBytes
  <2>3. ASSUME after = before + 1, NEW padding \in {0, Base},
               P = Bytify(PUBLISH, MessageBody(before + 1, padding))
        PROVE  \E type \in Bytes, body \in Seq(Bytes) :
                 P = Bytify(type, body) /\ Len(body) < 2 * Base /\ Kind(type, body)
    <3>1. before + 1 \in Bytes
      BY <2>3, Sizes DEF Bytes
    <3> DEFINE body == MessageBody(before + 1, padding)
    <3>2. /\ body \in Seq(Bytes) /\ Len(body) = 3 + padding /\ Len(body) < 2 * Base
          /\ body[1] = 1 /\ body[3] = before + 1
      BY <3>1, MessageBodyFacts
    <3> HIDE DEF body
    <3>3. Len(body) >= 3
      BY <3>2, <1>0
    <3>4. Kind(PUBLISH, body)
      BY <2>3, <3>2, <3>3
    <3>5. P = Bytify(PUBLISH, body)
      BY <2>3 DEF body
    <3> QED BY <3>2, <3>4, <3>5, PacketBytes
  <2> QED BY <2>1, <2>2, <2>3 DEF BrokerPacket
<1>2. PICK type \in Bytes, body \in Seq(Bytes) :
        P = Bytify(type, body) /\ Len(body) < 2 * Base /\ Kind(type, body)
  BY <1>1
<1>3. /\ P \in Seq(Bytes) /\ Len(P) = 1 + DigitCount(Len(body)) + Len(body)
      /\ P[1] = type /\ P[2] = Len(body) /\ (DigitCount(Len(body)) = 2 => P[3] = 1)
      /\ \A i \in 1 .. Len(body) : P[1 + DigitCount(Len(body)) + i] = body[i]
  BY <1>2, BytifyFacts
<1>4. Len(P) >= 2 /\ (Len(body) >= Base => DigitCount(Len(body)) = 2)
  <2>1. Len(body) \in Nat
    OBVIOUS
  <2> QED BY <1>0, <1>3, <2>1 DEF DigitCount
<1> HIDE DEF Kind
<1>5. /\ P = Bytify(type, body) /\ Len(body) < 2 * Base
      /\ P \in Seq(Bytes) /\ Len(P) = 1 + DigitCount(Len(body)) + Len(body) /\ Len(P) >= 2
      /\ P[1] = type /\ P[2] = Len(body) /\ (Len(body) >= Base => P[3] = 1)
      /\ \A i \in 1 .. Len(body) : P[1 + DigitCount(Len(body)) + i] = body[i]
      /\ Kind(type, body)
  BY <1>2, <1>3, <1>4
<1> QED BY <1>5 DEF Kind

(* Counts in a framing are those of messages.                              *)
LEMMA FramingRange ==
  ASSUME TypeOK, Numbered(sent), NEW n \in Nat, NEW starts, NEW packets, NEW count,
         Framing(n, starts, packets, count), NEW i \in 1 .. n
  PROVE  /\ i \in 1 .. n + 1 /\ i + 1 \in 1 .. n + 1 /\ i < i + 1
         /\ starts[i] \in 0 .. Total /\ starts[i + 1] \in 0 .. Total
         /\ count[i] \in Nat /\ count[i + 1] \in 0 .. MaxMessages
         /\ packets[i] \in Seq(Bytes) /\ Len(packets[i]) \in Nat /\ Len(packets[i]) >= 2
<1>1. i \in 1 .. n + 1 /\ i + 1 \in 1 .. n + 1 /\ i < i + 1
  OBVIOUS
<1>2. Len(sent) \in 0 .. MaxMessages
  <2>1. Len(sent) # 0 => Len(sent) \in 1 .. Len(sent)
    BY Lengths
  <2>2. Len(sent) # 0 => sent[Len(sent)] = Len(sent)
    BY <2>1 DEF Numbered
  <2>3. Len(sent) # 0 => sent[Len(sent)] \in 1 .. MaxMessages
    <3>1. sent \in Seq(1 .. MaxMessages)
      BY DEF TypeOK
    <3> QED BY <2>1, <3>1, ElementOfSeq
  <2> QED BY <2>2, <2>3, Lengths, Sizes
<1>3. /\ starts[i] \in 0 .. Total /\ starts[i + 1] \in 0 .. Total
      /\ count[i] \in 0 .. Len(sent) /\ count[i + 1] \in 0 .. Len(sent)
      /\ BrokerPacket(packets[i], count[i], count[i + 1])
  BY <1>1 DEF Framing
<1>4. count[i] \in Nat /\ count[i + 1] \in 0 .. MaxMessages
  BY <1>2, <1>3, Lengths, Sizes, SMTT(60)
<1>5. packets[i] \in Seq(Bytes) /\ Len(packets[i]) >= 2
  BY <1>3, <1>4, BrokerPacketFacts
<1> QED BY <1>1, <1>3, <1>4, <1>5

(* A step that moves bytes along the sequence keeps the framing.           *)
LEMMA FramingStays ==
  ASSUME TypeOK, Numbered(sent), NEW n \in Nat, NEW starts, NEW packets, NEW count,
         Framing(n, starts, packets, count),
         Total' = Total, \A j \in 1 .. Total : ByteAt(j)' = ByteAt(j),
         UNCHANGED <<sent, handled, accepted>>,
         \E i \in 1 .. n + 1 : starts[i] = Handed',
         \A j \in 1 .. Len(stream') :
           stream'[j].end => \E i \in 1 .. n + 1 : starts[i] = Handed' + j
  PROVE  Framed'
<1>1. ASSUME NEW i \in 1 .. n
      PROVE  /\ starts[i + 1] = starts[i] + Len(packets[i])
             /\ \A j \in 1 .. Len(packets[i]) : ByteAt(starts[i] + j)' = packets[i][j]
             /\ BrokerPacket(packets[i], count[i], count[i + 1])'
  <2>1. /\ starts[i + 1] = starts[i] + Len(packets[i])
        /\ \A j \in 1 .. Len(packets[i]) : ByteAt(starts[i] + j) = packets[i][j]
        /\ BrokerPacket(packets[i], count[i], count[i + 1])
    BY DEF Framing
  <2>2. BrokerPacket(packets[i], count[i], count[i + 1])'
    BY <2>1 DEF BrokerPacket, ConnackBody
  <2>3. ASSUME NEW j \in 1 .. Len(packets[i])
        PROVE  ByteAt(starts[i] + j)' = packets[i][j]
    <3> DEFINE k == starts[i] + j
    <3>1. k \in 1 .. Total
      <4> DEFINE a == starts[i]
                 b == starts[i + 1]
                 l == Len(packets[i])
      <4>1. a \in 0 .. Total /\ b \in 0 .. Total /\ l \in Nat
        BY FramingRange
      <4>2. b = a + l /\ j \in 1 .. l /\ Total \in Nat
        BY <2>1, Lengths
      <4> HIDE DEF a, b, l
      <4>3. a + j \in 1 .. Total
        BY <4>1, <4>2
      <4> QED BY <4>3 DEF a
    <3>2. ByteAt(k) = packets[i][j]
      BY <2>1
    <3> HIDE DEF k
    <3>3. ByteAt(k)' = packets[i][j]
      BY <3>1, <3>2
    <3> QED BY <3>3 DEF k
  <2> QED BY <2>1, <2>2, <2>3
<1>2. /\ starts \in [1 .. n + 1 -> 0 .. Total'] /\ starts[1] = 0 /\ starts[n + 1] = Total'
      /\ \A i, j \in 1 .. n + 1 : i < j => starts[i] < starts[j]
      /\ count \in [1 .. n + 1 -> 0 .. Len(sent')]
      /\ count[1] = Len(handled') /\ count[n + 1] = Len(sent')
  BY DEF Framing
<1>3. Framing(n, starts, packets, count)'
  BY <1>1, <1>2 DEF Framing
<1> QED BY <1>3 DEF Framed

(* A packet the broker sends goes behind the others.                       *)
LEMMA FramingGrows ==
  ASSUME TypeOK, Numbered(sent), Framed, NEW P \in Seq(Bytes), Len(P) > 0,
         stream' = stream \o Marked(P), UNCHANGED <<rxbuff, chunks, handled, accepted>>,
         NEW T, T = Total, NEW before, before = Len(sent), NEW after \in Nat, after = Len(sent'),
         before <= after, BrokerPacket(P, before, after)
  PROVE  Framed'
<1>0. PICK n \in Nat : \E starts, packets, count : Framing(n, starts, packets, count)
  BY DEF Framed
<1>1. PICK starts, packets, count : Framing(n, starts, packets, count)
  BY <1>0
<1> DEFINE L == Len(P)
           m == n + 1
           s == [i \in 1 .. m + 1 |-> IF i <= n + 1 THEN starts[i] ELSE T + L]
           p == [i \in 1 .. m |-> IF i <= n THEN packets[i] ELSE P]
           c == [i \in 1 .. m + 1 |-> IF i <= n + 1 THEN count[i] ELSE after]
<1>2. /\ stream \in MarkedBytes /\ Marked(P) \in MarkedBytes /\ Len(Marked(P)) = L /\ L \in Nat
      /\ \A j \in 1 .. L : Marked(P)[j].byte = P[j] /\ Marked(P)[j].end = (j = L)
  <2>1. stream \in MarkedBytes
    BY DEF TypeOK, MarkedBytes
  <2>2. L \in Nat
    OBVIOUS
  <2> QED BY <2>1, <2>2, MarkedFacts
<1>3. /\ Len(stream') = Len(stream) + L
      /\ \A j \in 1 .. Len(stream) : stream'[j] = stream[j]
      /\ \A j \in 1 .. L : stream'[Len(stream) + j] = Marked(P)[j]
  <2> DEFINE R == [byte : Bytes, end : BOOLEAN]
             q == Marked(P)
             a == stream
  <2>1. a \in Seq(R) /\ q \in Seq(R) /\ Len(q) = L
    BY <1>2 DEF MarkedBytes
  <2> HIDE DEF R, q, L, a
  <2>2. /\ Len(a \o q) = Len(a) + Len(q)
        /\ \A j \in 1 .. Len(a) : (a \o q)[j] = a[j]
        /\ \A j \in 1 .. Len(q) : (a \o q)[Len(a) + j] = q[j]
    <3>1. Len(a \o q) = Len(a) + Len(q) /\ \A j \in 1 .. Len(a) : (a \o q)[j] = a[j]
      BY <2>1, JoinFacts
    <3>2. \A j \in 1 .. Len(q) : (a \o q)[Len(a) + j] = q[j]
      BY <2>1, JoinFacts
    <3> QED BY <3>1, <3>2
  <2>3. stream' = a \o q
    BY DEF a, q
  <2> QED BY <2>1, <2>2, <2>3 DEF q, a
<1>4. Handed' = Handed /\ Total' = Total + L
  BY <1>2, <1>3, Lengths, SMTT(60) DEF Handed, Total
<1>5. ASSUME NEW j \in 1 .. T PROVE ByteAt(j)' = ByteAt(j)
  <2>1. j > Handed => j - Handed \in 1 .. Len(stream)
    BY Lengths, SMTT(60) DEF Total
  <2>2. j > Handed => stream'[j - Handed] = stream[j - Handed]
    BY <1>3, <2>1
  <2>3. j \in Int /\ Handed \in Int
    BY Lengths
  <2>4. UNCHANGED <<rxbuff, chunks, Handed>>
    BY <1>4
  <2>5. CASE j <= Handed
    BY <2>4, <2>5 DEF ByteAt
  <2>6. CASE ~(j <= Handed)
    <3>1. stream'[j - Handed] = stream[j - Handed]
      <4>1. j > Handed
        BY <2>3, <2>6
      <4> QED BY <2>2, <4>1, Zenon
    <3>2. stream'[j - Handed'] = stream[j - Handed]
      BY <2>4, <3>1
    <3> QED BY <2>4, <2>6, <3>2 DEF ByteAt
  <2> QED BY <2>5, <2>6
<1>6. ASSUME NEW j \in 1 .. L PROVE ByteAt(T + j)' = P[j]
  <2> DEFINE k == T + j
  <2>1. k \in Int /\ ~(k <= Handed) /\ ~(k <= rxbuff.datalen) /\ k - Handed = Len(stream) + j
    BY Lengths, <1>2, SMTT(60) DEF Total
  <2> HIDE DEF k
  <2>2. ByteAt(k)' = stream'[k - Handed].byte
    BY <1>4, <2>1 DEF ByteAt
  <2>3. ByteAt(k)' = P[j]
    BY <1>2, <1>3, <2>1, <2>2, SMTT(60)
  <2> QED BY <2>3 DEF k
<1>7. /\ starts \in [1 .. n + 1 -> 0 .. Total] /\ starts[1] = 0 /\ starts[n + 1] = Total
      /\ \A i, j \in 1 .. n + 1 : i < j => starts[i] < starts[j]
      /\ count \in [1 .. n + 1 -> 0 .. Len(sent)]
      /\ count[1] = Len(handled) /\ count[n + 1] = Len(sent)
      /\ Total \in Nat /\ Len(sent) \in Nat
  BY <1>1, Lengths DEF Framing
<1> HIDE DEF L
<1>8. L \in Nat /\ L > 0 /\ m \in Nat
  BY <1>2 DEF L
<1>9. /\ s \in [1 .. m + 1 -> 0 .. Total'] /\ s[1] = 0 /\ s[m + 1] = Total'
      /\ c \in [1 .. m + 1 -> 0 .. Len(sent')]
      /\ c[1] = Len(handled') /\ c[m + 1] = Len(sent')
  <2>1. ASSUME NEW i \in 1 .. m + 1
        PROVE  /\ (IF i <= n + 1 THEN starts[i] ELSE T + L) \in 0 .. Total'
               /\ (IF i <= n + 1 THEN count[i] ELSE after) \in 0 .. Len(sent')
    BY <1>4, <1>7, <1>8
  <2>2. 1 \in 1 .. m + 1 /\ m + 1 \in 1 .. m + 1 /\ 1 <= n + 1 /\ ~(m + 1 <= n + 1)
    BY <1>8
  <2> QED BY <1>4, <1>7, <2>1, <2>2
<1>10. ASSUME NEW i \in 1 .. m + 1, NEW j \in 1 .. m + 1, i < j PROVE s[i] < s[j]
  <2>1. i \in 1 .. n + 1 /\ s[i] = starts[i] /\ starts[i] \in 0 .. Total
    BY <1>7, <1>8, <1>10
  <2>2. CASE j <= n + 1
    BY <1>7, <1>10, <2>1, <2>2
  <2>3. CASE ~(j <= n + 1)
    <3>1. s[j] = T + L
      BY <2>3
    <3> HIDE DEF s, m
    <3> QED BY <1>7, <1>8, <2>1, <3>1
  <2> QED BY <2>2, <2>3
<1>11. ASSUME NEW i \in 1 .. m
       PROVE  /\ s[i + 1] = s[i] + Len(p[i])
              /\ \A j \in 1 .. Len(p[i]) : ByteAt(s[i] + j)' = p[i][j]
              /\ BrokerPacket(p[i], c[i], c[i + 1])'
  <2>1. CASE i <= n
    <3>1. /\ i \in 1 .. n /\ s[i] = starts[i] /\ s[i + 1] = starts[i + 1] /\ p[i] = packets[i]
          /\ c[i] = count[i] /\ c[i + 1] = count[i + 1]
      BY <1>8, <2>1
    <3> HIDE DEF s, p, c, m
    <3>2. /\ starts[i + 1] = starts[i] + Len(packets[i])
          /\ \A j \in 1 .. Len(packets[i]) : ByteAt(starts[i] + j) = packets[i][j]
          /\ BrokerPacket(packets[i], count[i], count[i + 1])
      BY <1>1, <3>1 DEF Framing
    <3>3. BrokerPacket(packets[i], count[i], count[i + 1])'
      BY <3>2 DEF BrokerPacket, ConnackBody
    <3>4. ASSUME NEW j \in 1 .. Len(packets[i])
          PROVE  ByteAt(starts[i] + j)' = packets[i][j]
      <4> DEFINE k == starts[i] + j
      <4>1. k \in 1 .. T
        <5> DEFINE a == starts[i]
                   b == starts[i + 1]
                   l == Len(packets[i])
        <5>1. a \in 0 .. Total /\ b \in 0 .. Total /\ l \in Nat
          BY <1>1, <3>1, FramingRange
        <5>2. b = a + l /\ j \in 1 .. l /\ Total \in Nat
          BY <3>2, <1>7
        <5> HIDE DEF a, b, l
        <5>3. a + j \in 1 .. T
          BY <5>1, <5>2
        <5> QED BY <5>3 DEF a
      <4>2. ByteAt(k) = packets[i][j]
        BY <3>2
      <4> HIDE DEF k
      <4>3. ByteAt(k)' = packets[i][j]
        BY <1>5, <4>1, <4>2
      <4> QED BY <4>3 DEF k
    <3> QED BY <3>1, <3>2, <3>3, <3>4
  <2>2. CASE ~(i <= n)
    <3>1. /\ i = n + 1 /\ s[i] = T /\ s[i + 1] = T + L /\ p[i] = P
          /\ c[i] = before /\ c[i + 1] = after
      BY <1>7, <1>8, <2>2, SMTT(60)
    <3>2. BrokerPacket(P, before, after)'
      BY DEF BrokerPacket, ConnackBody
    <3>3. \A j \in 1 .. Len(P) : ByteAt(T + j)' = P[j]
      BY <1>6 DEF L
    <3> HIDE DEF s, p, c, m
    <3>4. BrokerPacket(p[i], c[i], c[i + 1])'
      BY <3>1, <3>2 DEF BrokerPacket, ConnackBody
    <3>5. \A j \in 1 .. Len(p[i]) : ByteAt(s[i] + j)' = p[i][j]
      BY <3>1, <3>3
    <3> QED BY <3>1, <3>4, <3>5 DEF L
  <2> QED BY <2>1, <2>2
<1>12. \E i \in 1 .. m + 1 : s[i] = Handed'
  <2>1. PICK i \in 1 .. n + 1 : starts[i] = Handed
    BY <1>1 DEF Framing
  <2>2. i \in 1 .. m + 1 /\ s[i] = starts[i]
    BY <1>8
  <2> QED BY <1>4, <2>1, <2>2
<1>13. ASSUME NEW j \in 1 .. Len(stream'), stream'[j].end
       PROVE  \E i \in 1 .. m + 1 : s[i] = Handed' + j
  <2>1. CASE j <= Len(stream)
    <3>1. j \in 1 .. Len(stream) /\ stream[j].end
      BY <1>3, <1>13, <2>1, Lengths
    <3>2. PICK i \in 1 .. n + 1 : starts[i] = Handed + j
      BY <1>1, <3>1 DEF Framing
    <3>3. i \in 1 .. m + 1 /\ s[i] = starts[i]
      BY <1>8
    <3> QED BY <1>4, <3>2, <3>3
  <2>2. CASE ~(j <= Len(stream))
    <3> DEFINE k == j - Len(stream)
    <3>1. k \in 1 .. L /\ j = Len(stream) + k /\ j \in Int
      BY <1>3, <1>8, <2>2, Lengths
    <3> HIDE DEF k
    <3>2. k = L
      BY <1>2, <1>3, <1>13, <3>1 DEF L
    <3>3. Handed' + j = T + L
      BY <1>4, <1>8, <3>1, <3>2, Lengths, SMTT(60) DEF Total
    <3>4. m + 1 \in 1 .. m + 1 /\ s[m + 1] = T + L
      BY <1>8
    <3> QED BY <3>3, <3>4
  <2> QED BY <2>1, <2>2
<1> HIDE DEF s, p, c, m
<1>14. Framing(m, s, p, c)'
  BY <1>9, <1>10, <1>11, <1>12, <1>13 DEF Framing
<1> QED BY <1>8, <1>14 DEF Framed

(* The client takes the first packet away.                                 *)
LEMMA FramingShrinks ==
  ASSUME TypeOK, Numbered(sent), NEW n \in Nat \ {0}, NEW starts, NEW packets, NEW count,
         Framing(n, starts, packets, count), NEW L, L = Len(packets[1]), L <= Handed,
         Total' = Total - L, Handed' = Handed - L,
         \A j \in 1 .. Total - L : ByteAt(j)' = ByteAt(L + j),
         UNCHANGED <<stream, sent, accepted>>, Len(handled') = count[2]
  PROVE  Framed'
<1> DEFINE m == n - 1
           s == [i \in 1 .. m + 1 |-> starts[i + 1] - L]
           p == [i \in 1 .. m |-> packets[i + 1]]
           c == [i \in 1 .. m + 1 |-> count[i + 1]]
<1>1. /\ starts \in [1 .. n + 1 -> 0 .. Total] /\ starts[1] = 0 /\ starts[n + 1] = Total
      /\ \A i, j \in 1 .. n + 1 : i < j => starts[i] < starts[j]
      /\ count \in [1 .. n + 1 -> 0 .. Len(sent)] /\ count[n + 1] = Len(sent)
      /\ Total \in Nat /\ Handed \in Nat /\ Handed <= Total
  BY Lengths DEF Framing
<1>2. 1 \in 1 .. n /\ L \in Nat /\ L > 0 /\ starts[2] = L
  <2>1. 1 \in 1 .. n
    OBVIOUS
  <2>2. n \in Nat /\ starts[1 + 1] = starts[1] + Len(packets[1])
    BY <2>1 DEF Framing
  <2>3. Len(packets[1]) \in Nat /\ Len(packets[1]) >= 2
    BY <2>1, <2>2, FramingRange
  <2> QED BY <1>1, <2>1, <2>2, <2>3
<1>3. m \in Nat /\ m + 1 = n
  OBVIOUS
<1>4. ASSUME NEW i \in 1 .. m + 1
      PROVE  /\ i + 1 \in 1 .. n + 1 /\ s[i] = starts[i + 1] - L /\ c[i] = count[i + 1]
             /\ starts[i + 1] \in Int /\ s[i] \in 0 .. Total - L
  <2>1. i + 1 \in 1 .. n + 1 /\ 2 \in 1 .. n + 1 /\ (i + 1 = 2 \/ 2 < i + 1)
    BY <1>3
  <2>2. starts[i + 1] \in 0 .. Total /\ starts[2] <= starts[i + 1]
    <3>1. starts[i + 1] \in 0 .. Total /\ starts[2] \in 0 .. Total
      BY <1>1, <2>1
    <3>2. 2 < i + 1 => starts[2] < starts[i + 1]
      BY <1>1, <2>1
    <3>3. i + 1 = 2 => starts[2] = starts[i + 1]
      OBVIOUS
    <3> DEFINE a == starts[2]
               b == starts[i + 1]
    <3>4. a \in Int /\ b \in Int /\ (a < b \/ a = b)
      BY <2>1, <3>1, <3>2, <3>3
    <3> HIDE DEF a, b
    <3>5. a <= b
      BY <3>4
    <3> QED BY <3>1, <3>5 DEF a, b
  <2>3. s[i] = starts[i + 1] - L /\ c[i] = count[i + 1]
    OBVIOUS
  <2> HIDE DEF s, c, m
  <2>4. starts[i + 1] - L \in 0 .. Total - L
    <3> DEFINE a == starts[i + 1]
               t == Total
    <3>1. a \in 0 .. t /\ t \in Nat /\ L <= a /\ L \in Nat
      BY <1>1, <1>2, <2>2
    <3> HIDE DEF a, t
    <3>2. a - L \in 0 .. t - L
      BY <3>1
    <3> QED BY <3>2 DEF a, t
  <2> QED BY <2>1, <2>2, <2>3, <2>4
<1>5. /\ s \in [1 .. m + 1 -> 0 .. Total'] /\ s[1] = 0 /\ s[m + 1] = Total'
      /\ c \in [1 .. m + 1 -> 0 .. Len(sent')]
      /\ c[1] = Len(handled') /\ c[m + 1] = Len(sent')
  <2>1. \A i \in 1 .. m + 1 : s[i] \in 0 .. Total' /\ c[i] \in 0 .. Len(sent')
    BY <1>1, <1>4
  <2>2. 1 \in 1 .. m + 1 /\ m + 1 \in 1 .. m + 1 /\ 1 + 1 = 2 /\ m + 1 + 1 = n + 1
    BY <1>3
  <2>3. s[1] = starts[2] - L /\ s[m + 1] = starts[n + 1] - L
        /\ c[1] = count[2] /\ c[m + 1] = count[n + 1]
    BY <1>4, <2>2
  <2>4. s[1] = 0 /\ s[m + 1] = Total'
    BY <1>1, <1>2, <2>3
  <2> QED BY <1>1, <2>1, <2>3, <2>4
<1>6. ASSUME NEW i \in 1 .. m + 1, NEW j \in 1 .. m + 1, i < j PROVE s[i] < s[j]
  <2>1. i + 1 \in 1 .. n + 1 /\ j + 1 \in 1 .. n + 1 /\ i + 1 < j + 1
    BY <1>3, <1>6
  <2>2. starts[i + 1] < starts[j + 1]
    BY <1>1, <2>1
  <2>3. /\ s[i] = starts[i + 1] - L /\ s[j] = starts[j + 1] - L
        /\ starts[i + 1] \in Int /\ starts[j + 1] \in Int
    BY <1>4
  <2> HIDE DEF s, m
  <2> QED BY <1>2, <2>2, <2>3, SMTT(60)
<1>7. ASSUME NEW i \in 1 .. m
      PROVE  /\ s[i + 1] = s[i] + Len(p[i])
             /\ \A j \in 1 .. Len(p[i]) : ByteAt(s[i] + j)' = p[i][j]
             /\ BrokerPacket(p[i], c[i], c[i + 1])'
  <2> DEFINE h == i + 1
  <2>1. h \in 1 .. n /\ i \in 1 .. m + 1 /\ i + 1 \in 1 .. m + 1 /\ p[i] = packets[h]
    BY <1>3
  <2>2. /\ s[i] = starts[h] - L /\ s[i + 1] = starts[h + 1] - L
        /\ c[i] = count[h] /\ c[i + 1] = count[h + 1]
    BY <1>4, <2>1
  <2> HIDE DEF h, s, p, c
  <2>3. /\ starts[h + 1] = starts[h] + Len(packets[h])
        /\ \A j \in 1 .. Len(packets[h]) : ByteAt(starts[h] + j) = packets[h][j]
        /\ BrokerPacket(packets[h], count[h], count[h + 1])
    BY <2>1 DEF Framing
  <2>4. /\ starts[h] \in 0 .. Total /\ starts[h + 1] \in 0 .. Total
        /\ Len(packets[h]) \in Nat
    BY <2>1, FramingRange
  <2>5. s[i + 1] = s[i] + Len(p[i])
    BY <1>2, <2>1, <2>2, <2>3, <2>4, SMTT(60)
  <2>6. BrokerPacket(packets[h], count[h], count[h + 1])'
    BY <2>3 DEF BrokerPacket, ConnackBody
  <2>7. BrokerPacket(p[i], c[i], c[i + 1])'
    BY <2>1, <2>2, <2>6 DEF BrokerPacket, ConnackBody
  <2>8. ASSUME NEW j \in 1 .. Len(p[i]) PROVE ByteAt(s[i] + j)' = p[i][j]
    <3> DEFINE k == s[i] + j
    <3>1. s[i] \in 0 .. Total - L
      BY <1>4, <2>1
    <3>2. k \in 1 .. Total - L /\ L + k = starts[h] + j
      <4> DEFINE a == starts[h]
                 b == starts[h + 1]
                 l == Len(packets[h])
      <4>1. a \in 0 .. Total /\ b \in 0 .. Total /\ l \in Nat /\ b = a + l /\ j \in 1 .. l
        BY <2>1, <2>3, <2>4
      <4>2. k = a - L + j
        BY <2>2
      <4> DEFINE t == Total
      <4> HIDE DEF a, b, l, k
      <4>3. a - L \in 0 .. Total - L
        BY <2>2, <3>1 DEF a
      <4>4. k \in 1 .. Total - L /\ L + k = a + j
        <5>1. t \in Nat /\ b \in 0 .. t /\ a - L \in 0 .. t - L /\ a \in Int /\ l \in Nat
          BY <1>1, <4>1, <4>3
        <5> HIDE DEF t
        <5>2. k \in 1 .. t - L /\ L + k = a + j
          BY <1>2, <4>1, <4>2, <5>1
        <5> QED BY <5>2 DEF t
      <4> QED BY <4>4 DEF a
    <3> HIDE DEF k
    <3>3. ByteAt(k)' = ByteAt(L + k)
      BY <3>2
    <3>4. ByteAt(starts[h] + j) = packets[h][j]
      BY <2>1, <2>3
    <3>5. ByteAt(k)' = p[i][j]
      BY <2>1, <3>2, <3>3, <3>4
    <3> QED BY <3>5 DEF k
  <2> QED BY <2>5, <2>7, <2>8
<1>8. ASSUME NEW d \in Nat, \E i \in 1 .. n + 1 : starts[i] = Handed + d
      PROVE  \E i \in 1 .. m + 1 : s[i] = Handed' + d
  <2>1. PICK i \in 1 .. n + 1 : starts[i] = Handed + d
    BY <1>8
  <2>2. i # 1
    BY <1>1, <1>2, <2>1
  <2> DEFINE h == i - 1
  <2>3. h \in 1 .. m + 1 /\ h + 1 = i
    BY <2>2
  <2> HIDE DEF h
  <2>4. s[h] = starts[i] - L
    BY <1>4, <2>3
  <2> HIDE DEF s, m
  <2>5. s[h] = Handed' + d
    BY <1>1, <1>2, <2>1, <2>4
  <2> QED BY <2>3, <2>5
<1>9. \E i \in 1 .. m + 1 : s[i] = Handed'
  <2>1. \E i \in 1 .. n + 1 : starts[i] = Handed + 0
    BY <1>1 DEF Framing
  <2>2. \E i \in 1 .. m + 1 : s[i] = Handed' + 0
    BY <1>8, <2>1
  <2>3. Handed' + 0 = Handed'
    BY <1>1, <1>2
  <2> QED BY <2>2, <2>3
<1>10. ASSUME NEW j \in 1 .. Len(stream'), stream'[j].end
       PROVE  \E i \in 1 .. m + 1 : s[i] = Handed' + j
  <2>1. \E i \in 1 .. n + 1 : starts[i] = Handed + j
    BY <1>10 DEF Framing
  <2>2. j \in Nat
    BY Lengths
  <2> QED BY <1>8, <2>1, <2>2
<1> HIDE DEF s, p, c, m
<1>11. Framing(m, s, p, c)'
  BY <1>5, <1>6, <1>7, <1>9, <1>10 DEF Framing
<1> QED BY <1>3, <1>11 DEF Framed

LEMMA FramingSame ==
  ASSUME Framed, UNCHANGED <<rxbuff, chunks, stream, sent, handled, accepted>>
  PROVE  Framed'
<1>1. UNCHANGED <<Handed, Total>> /\ \A j : ByteAt(j)' = ByteAt(j)
  BY DEF Handed, Total, ByteAt
<1>2. \A P, before, after : BrokerPacket(P, before, after)' = BrokerPacket(P, before, after)
  BY DEF BrokerPacket, ConnackBody
<1>3. ASSUME NEW n \in Nat, NEW starts, NEW packets, NEW count, Framing(n, starts, packets, count)
      PROVE  Framing(n, starts, packets, count)'
  BY <1>1, <1>2, <1>3 DEF Framing
<1> QED BY <1>3 DEF Framed

(* A session starts with one packet, the answer to CONNECT.                *)
LEMMA FramingStarts ==
  ASSUME NEW P \in Seq(Bytes), Len(P) > 0, BrokerPacket(P, 0, 0)',
         rxbuff'.datalen = 0, chunks' = <<>>, sent' = <<>>, handled' = <<>>,
         stream' = Marked(P)
  PROVE  Framed'
<1> DEFINE L == Len(P)
           starts == [i \in 1 .. 2 |-> IF i = 1 THEN 0 ELSE L]
           packets == [i \in 1 .. 1 |-> P]
           count == [i \in 1 .. 2 |-> 0]
<1>1. /\ L \in Nat /\ L > 0 /\ Len(stream') = L
      /\ \A j \in 1 .. L : stream'[j].byte = P[j] /\ stream'[j].end = (j = L)
  BY MarkedFacts
<1>2. Handed' = 0 /\ Total' = L /\ Len(sent') = 0 /\ Len(handled') = 0
  BY <1>1 DEF Handed, Total
<1>3. ASSUME NEW j \in 1 .. L PROVE ByteAt(0 + j)' = P[j]
  <2>1. ByteAt(j)' = stream'[j].byte
    <3>1. ~(j <= rxbuff'.datalen) /\ ~(j <= Handed') /\ j - Handed' = j
      BY <1>2
    <3> QED BY <3>1 DEF ByteAt
  <2>2. 0 + j = j
    BY <1>1
  <2> QED BY <1>1, <2>1, <2>2
<1>4. /\ starts \in [1 .. 1 + 1 -> 0 .. Total'] /\ starts[1] = 0 /\ starts[1 + 1] = Total'
      /\ \A i, j \in 1 .. 1 + 1 : i < j => starts[i] < starts[j]
      /\ count \in [1 .. 1 + 1 -> 0 .. Len(sent')] /\ count[1] = Len(handled')
      /\ count[1 + 1] = Len(sent')
  <2> HIDE DEF L
  <2> QED BY <1>1, <1>2 DEF L
<1>5. ASSUME NEW i \in 1 .. 1
      PROVE  /\ starts[i + 1] = starts[i] + Len(packets[i])
             /\ \A j \in 1 .. Len(packets[i]) : ByteAt(starts[i] + j)' = packets[i][j]
             /\ BrokerPacket(packets[i], count[i], count[i + 1])'
  <2>1. /\ i = 1 /\ starts[i] = 0 /\ starts[i + 1] = L /\ packets[i] = P
        /\ count[i] = 0 /\ count[i + 1] = 0
    OBVIOUS
  <2> HIDE DEF starts, packets, count
  <2>2. BrokerPacket(packets[i], count[i], count[i + 1])'
    BY <2>1 DEF BrokerPacket, ConnackBody
  <2>3. \A j \in 1 .. Len(packets[i]) : ByteAt(starts[i] + j)' = packets[i][j]
    BY <1>3, <2>1
  <2> QED BY <1>1, <2>1, <2>2, <2>3
<1>6. \E i \in 1 .. 1 + 1 : starts[i] = Handed'
  <2>1. 1 \in 1 .. 1 + 1 /\ starts[1] = Handed'
    BY <1>2
  <2> QED BY <2>1
<1>7. ASSUME NEW j \in 1 .. Len(stream'), stream'[j].end
      PROVE  \E i \in 1 .. 1 + 1 : starts[i] = Handed' + j
  <2>1. j = L
    <3>1. j \in 1 .. L
      BY <1>1
    <3> HIDE DEF L, starts, packets, count
    <3> QED BY <1>1, <1>7, <3>1
  <2>2. 2 \in 1 .. 1 + 1 /\ starts[2] = L
    OBVIOUS
  <2>3. Handed' + j = L
    <3> HIDE DEF L, starts, packets, count
    <3> QED BY <1>1, <1>2, <2>1
  <2> QED BY <2>1, <2>2, <2>3
<1> HIDE DEF starts, packets, count
<1>8. Framing(1, starts, packets, count)'
  BY <1>4, <1>5, <1>6, <1>7 DEF Framing
<1> QED BY <1>8 DEF Framed

-----------------------------------------------------------------------------
(* Messages are numbered in the order they are sent.                       *)

LEMMA NumberedEmpty == Numbered(<<>>)
<1>1. <<>> = [i \in 1 .. 0 |-> i]
  OBVIOUS
<1> QED BY <1>1 DEF Numbered

LEMMA NumberedAppend ==
  ASSUME NEW s \in Seq(Int), Numbered(s), NEW k, k = Len(s) + 1
  PROVE  Numbered(Append(s, k)) /\ Len(Append(s, k)) = k
<1> DEFINE n == Len(s)
           a == Append(s, k)
           b == [i \in 1 .. k |-> i]
<1>1. n \in Nat /\ k \in Nat /\ k = n + 1
  OBVIOUS
<1>2. a \in Seq(Int) /\ Len(a) = k /\ a[k] = k /\ \A i \in 1 .. n : a[i] = s[i]
  BY <1>1
<1>3. \A i \in 1 .. n : s[i] = i
  BY DEF Numbered
<1>4. b \in Seq(Int) /\ Len(b) = k /\ \A i \in 1 .. k : b[i] = i
  BY <1>1
<1> HIDE DEF a, b, n
<1>5. \A i \in 1 .. Len(a) : a[i] = b[i]
  <2> TAKE i \in 1 .. Len(a)
  <2>1. i = k \/ i \in 1 .. n
    BY <1>1, <1>2
  <2> QED BY <1>2, <1>3, <1>4, <2>1, SMTT(60)
<1>6. a = b
  BY <1>2, <1>4, <1>5, SeqEqual
<1> QED BY <1>2, <1>6 DEF Numbered, a, b

LEMMA TypedSequences ==
  ASSUME TypeOK
  PROVE  sent \in Seq(Int) /\ handled \in Seq(Int)
<1>1. 1 .. MaxMessages \subseteq Int /\ Bytes \subseteq Int
  BY Sizes DEF Bytes
<1> QED BY <1>1, SeqMonotonic DEF TypeOK

-----------------------------------------------------------------------------
(* The broker and the chip.                                                *)

LEMMA StartInv == Init => StreamInv
<1> SUFFICES ASSUME Init PROVE StreamInv
  OBVIOUS
<1>1. /\ rxbuff.datalen = 0 /\ chunks = <<>> /\ stream = <<>> /\ sent = <<>> /\ handled = <<>>
      /\ pc = "loop" /\ state = "INIT" /\ ~request
  BY DEF Init, CircInit
<1>2. Handed = 0 /\ Total = 0 /\ Len(sent) = 0 /\ Len(handled) = 0 /\ Len(stream) = 0
  BY <1>1 DEF Handed, Total
<1> DEFINE starts == [i \in 1 .. 1 |-> 0]
<1>3. /\ starts \in [1 .. 0 + 1 -> 0 .. Total] /\ starts[1] = 0 /\ starts[0 + 1] = Total
      /\ \A i, j \in 1 .. 0 + 1 : i < j => starts[i] < starts[j]
      /\ starts \in [1 .. 0 + 1 -> 0 .. Len(sent)]
      /\ starts[1] = Len(handled) /\ starts[0 + 1] = Len(sent)
      /\ \E i \in 1 .. 0 + 1 : starts[i] = Handed
  BY <1>2
<1>4. Framing(0, starts, <<>>, starts)
  <2> HIDE DEF starts
  <2> QED BY <1>2, <1>3 DEF Framing
<1>5. Framed
  <2> HIDE DEF starts
  <2> QED BY <1>4 DEF Framed
<1>6. Len(chunks) <= RxSize
  BY <1>1, Sizes
<1> QED BY <1>1, <1>5, <1>6, NumberedEmpty DEF StreamInv, Whole

(* The broker adds a packet to a session that is whole.                    *)
LEMMA SendsWhole ==
  ASSUME TypeOK, StreamInv, NEW type \in Bytes, NEW body \in Seq(Bytes), Len(body) < 2 * Base,
         BrokerSends(type, body), UNCHANGED <<accepted, socket, chunks, client, broken>>,
         NEW before, before = Len(sent), NEW after \in Nat, after = Len(sent'),
         before <= after, BrokerPacket(Bytify(type, body), before, after), Numbered(sent) => Numbered(sent')
  PROVE  StreamInv'
<1> DEFINE P == Bytify(type, body)
<1>1. P \in Seq(Bytes) /\ Len(P) > 0
  <2>1. P \in Seq(Bytes) /\ Len(P) = 1 + DigitCount(Len(body)) + Len(body) /\ Len(body) \in Nat
    BY BytifyFacts
  <2> QED BY <2>1 DEF DigitCount
<1>2. stream' = stream \o Marked(P) /\ isUsed
  BY DEF BrokerSends
<1> HIDE DEF P
<1>3. ASSUME Whole PROVE Framed'
  <2>1. BrokerPacket(P, before, after)
    BY DEF P
  <2>2. Framed /\ Numbered(sent) /\ UNCHANGED <<rxbuff, chunks, handled, accepted>>
    BY <1>3 DEF Whole, client
  <2> QED BY <1>1, <1>2, <2>1, <2>2, FramingGrows
<1>4. ASSUME Whole PROVE Whole'
  <2>1. Numbered(handled)'
    BY <1>4 DEF Whole, client, Numbered
  <2>2. Numbered(sent)'
    BY <1>4 DEF Whole, Numbered
  <2> QED BY <1>3, <1>4, <2>1, <2>2 DEF Whole, client, socket
<1> QED BY <1>2, <1>4 DEF StreamInv, socket, client

LEMMA PublishWhole ==
  ASSUME TypeOK, StreamInv, NEW padding \in {0, Base}, PublishMessage(padding)
  PROVE  StreamInv'
<1> DEFINE k == Len(sent) + 1
           body == MessageBody(k, padding)
<1>1. k \in 1 .. MaxMessages /\ k \in Bytes /\ k \in Nat /\ Len(sent) \in Nat
  BY Sizes, Lengths DEF TypeOK, PublishMessage, Bytes
<1>2. BrokerSends(PUBLISH, body) /\ sent' = Append(sent, k)
      /\ UNCHANGED <<accepted, socket, chunks, client, broken>>
  BY DEF PublishMessage, MessageBody
<1>3. sent \in Seq(Int)
  BY TypedSequences
<1>4. Len(sent') = k /\ (Numbered(sent) => Numbered(sent'))
  <2>1. Len(sent') = k
    BY <1>2, <1>3, <1>1
  <2>2. ASSUME Numbered(sent) PROVE Numbered(sent')
    <3> HIDE DEF k
    <3>1. k = Len(sent) + 1
      BY DEF k
    <3>2. Numbered(Append(sent, k))
      BY <1>3, <2>2, <3>1, NumberedAppend
    <3> QED BY <1>2, <3>2
  <2> QED BY <2>1, <2>2
<1>5. body \in Seq(Bytes) /\ Len(body) < 2 * Base
  <2> HIDE DEF k
  <2> QED BY <1>1, MessageBodyFacts
<1>6. BrokerPacket(Bytify(PUBLISH, body), Len(sent), k)
  BY DEF BrokerPacket
<1>7. Len(sent) <= k
  BY <1>1
<1> HIDE DEF k, body
<1> QED BY <1>1, <1>2, <1>4, <1>5, <1>6, <1>7, PacketBytes, SendsWhole

LEMMA SubackWhole ==
  ASSUME TypeOK, StreamInv, Suback
  PROVE  StreamInv'
<1> DEFINE body == <<0, 0>>
<1>1. BrokerSends(SUBACK, body) /\ UNCHANGED <<sent, accepted, socket, chunks, client, broken>>
  BY DEF Suback
<1>2. body \in Seq(Bytes) /\ Len(body) < 2 * Base
  BY AnswerBodies, PacketBytes
<1>3. BrokerPacket(Bytify(SUBACK, body), Len(sent), Len(sent))
  BY DEF BrokerPacket
<1>4. Len(sent) \in Nat /\ Len(sent) <= Len(sent) /\ Len(sent') = Len(sent)
      /\ (Numbered(sent) => Numbered(sent'))
  BY <1>1, Lengths DEF Numbered
<1> HIDE DEF body
<1> QED BY <1>1, <1>2, <1>3, <1>4, PacketBytes, SendsWhole

LEMMA EndWhole ==
  ASSUME StreamInv, EndSession
  PROVE  StreamInv'
<1>1. UNCHANGED <<sent, accepted, socket, chunks, client>>
  BY DEF EndSession
<1>2. ASSUME UNCHANGED <<stream, broken>>, Whole PROVE Whole'
  <2>1. Framed'
    BY <1>1, <1>2, FramingSame DEF Whole, client
  <2> QED BY <1>1, <1>2, <2>1 DEF Whole, client, socket, Numbered
<1> QED BY <1>1, <1>2 DEF StreamInv, EndSession, socket

LEMMA ConnectWhole ==
  ASSUME TypeOK, StreamInv, Connect
  PROVE  StreamInv'
<1> DEFINE body == <<0, IF accepted' THEN 0 ELSE 1>>
           P == Bytify(CONNACK, body)
<1>1. /\ sent' = <<>> /\ handled' = <<>> /\ rxbuff' = CircInit /\ state' = "CONNECTING"
      /\ isUsed' /\ pc' = "loop" /\ UNCHANGED chunks /\ chunks = <<>> /\ stream' = Marked(P)
  BY DEF Connect, StreamInv
<1>2. body \in Seq(Bytes) /\ Len(body) = 2
  <2>1. (IF accepted' THEN 0 ELSE 1) \in Bytes /\ 0 \in Bytes
    BY SmallBytes
  <2> QED BY <2>1
<1>3. P \in Seq(Bytes) /\ Len(P) > 0
  <2> HIDE DEF body
  <2>1. P \in Seq(Bytes) /\ Len(P) = 1 + DigitCount(Len(body)) + Len(body)
    BY <1>2, PacketBytes, BytifyFacts, ZenonT(60)
  <2>2. DigitCount(Len(body)) \in Nat
    BY DEF DigitCount
  <2> QED BY <1>2, <2>1, <2>2
<1>4. \E Q \in Seq(Bytes) : Len(Q) > 0 /\ BrokerPacket(Q, 0, 0)' /\ stream' = Marked(Q)
  <2>1. PICK Q : Q = P
    OBVIOUS
  <2>2. BrokerPacket(Q, 0, 0)'
    BY <2>1 DEF BrokerPacket, ConnackBody
  <2> QED BY <1>1, <1>3, <2>1, <2>2
<1>5. rxbuff'.datalen = 0
  BY <1>1 DEF CircInit
<1> HIDE DEF P, body
<1>6. Framed'
  BY <1>1, <1>4, <1>5, FramingStarts
<1>7. Numbered(sent)' /\ Numbered(handled)'
  BY <1>1, NumberedEmpty DEF Numbered
<1>8. Len(chunks') <= RxSize
  BY <1>1, Sizes
<1> QED BY <1>1, <1>5, <1>6, <1>7, <1>8 DEF StreamInv, Whole

LEMMA RecvWhole ==
  ASSUME StreamInv, Recv
  PROVE  StreamInv'
<1>1. UNCHANGED <<broker, isUsed, chunks, client, broken>> /\ isUsed
  BY DEF Recv
<1>2. ASSUME Whole PROVE Whole'
  <2>1. Framed'
    BY <1>1, <1>2, FramingSame DEF Whole, client, broker
  <2> QED BY <1>1, <1>2, <2>1 DEF Whole, client, broker, Numbered
<1> QED BY <1>1, <1>2 DEF StreamInv

LEMMA ReceiveErrorWhole ==
  ASSUME StreamInv, ReceiveError
  PROVE  StreamInv'
<1>1. UNCHANGED <<broker, chunks, client, broken>> /\ chunks = <<>> /\ request' = FALSE
      /\ isUsed' = FALSE
  BY DEF ReceiveError
<1>2. ASSUME Whole PROVE Whole'
  <2>1. Framed'
    BY <1>1, <1>2, FramingSame DEF Whole, client, broker
  <2> QED BY <1>1, <1>2, <2>1 DEF Whole, client, broker, Numbered
<1> QED BY <1>1, <1>2 DEF StreamInv

(* The chip hands over bytes of the stream: they stay in the sequence.     *)
LEMMA ReplyWhole ==
  ASSUME TypeOK, StreamInv, NEW k \in 1 .. MaxReply, Reply(k)
  PROVE  StreamInv'
<1>1. /\ pc = "loop" /\ chunks = <<>> /\ request /\ isUsed /\ k <= Len(stream) /\ ~broken /\ Whole
      /\ chunks' = Unmarked(SubSeq(stream, 1, k)) /\ stream' = SubSeq(stream, k + 1, Len(stream))
      /\ UNCHANGED <<sent, accepted, isUsed, client>>
      /\ broken' = (broken \/ ~stream[k].end \/ k > RxSize)
  BY DEF Reply, StreamInv
<1>2. k \in Nat /\ k + 1 \in 1 .. Len(stream) + 1 /\ stream \in MarkedBytes /\ Len(stream) \in Nat
  BY <1>1, Lengths DEF TypeOK, MarkedBytes
<1>3. /\ Len(chunks') = k /\ Len(stream') = Len(stream) - k
      /\ \A j \in 1 .. k : chunks'[j] = stream[j].byte
      /\ \A j \in 1 .. Len(stream) - k : stream'[j] = stream[k + j]
  <2> DEFINE R == [byte : Bytes, end : BOOLEAN]
             i == k + 1
             l == Len(stream)
             a == SubSeq(stream, 1, i - 1)
             b == SubSeq(stream, i, l)
  <2>1. stream \in Seq(R) /\ i \in 1 .. l + 1 /\ l \in Nat /\ l = Len(stream)
    BY <1>2 DEF MarkedBytes
  <2> HIDE DEF R, i, l
  <2>2. /\ a \in Seq(R) /\ Len(a) = i - 1 /\ \A j \in 1 .. i - 1 : a[j] = stream[j]
        /\ Len(b) = l - i + 1 /\ \A j \in 1 .. l - i + 1 : b[j] = stream[i + j - 1]
    BY <2>1, CutFacts
  <2>3. i - 1 = k /\ l - i + 1 = l - k /\ \A j \in 1 .. l - k : i + j - 1 = k + j
    BY <1>2, <2>1 DEF i
  <2>4. chunks' = Unmarked(a) /\ stream' = b
    BY <1>1, <2>3 DEF i, l
  <2> HIDE DEF a, b
  <2>5. Len(chunks') = k /\ \A j \in 1 .. k : chunks'[j] = a[j].byte
    BY <2>2, <2>3, <2>4, UnmarkedFacts DEF MarkedBytes, R
  <2>6. \A j \in 1 .. k : chunks'[j] = stream[j].byte
    BY <2>2, <2>3, <2>5
  <2>7. \A j \in 1 .. l - k : stream'[j] = stream[k + j]
    BY <2>2, <2>3, <2>4
  <2> QED BY <2>1, <2>2, <2>3, <2>4, <2>5, <2>6, <2>7
<1>4. /\ rxbuff.datalen = 0 /\ UNCHANGED rxbuff /\ Handed = 0 /\ Handed' = k
      /\ Total = Len(stream) /\ Total' = Total
  <2>1. rxbuff.datalen = 0 /\ UNCHANGED rxbuff /\ Len(chunks) = 0
    BY <1>1 DEF Whole, client
  <2> QED BY <1>2, <1>3, <2>1 DEF Handed, Total
<1>5. ASSUME NEW j \in 1 .. Total PROVE ByteAt(j)' = ByteAt(j)
  <2>1. j \in Nat /\ ~(j <= rxbuff.datalen) /\ ~(j <= Handed) /\ j - Handed = j
        /\ j - rxbuff.datalen = j
    BY <1>2, <1>4
  <2>2. ByteAt(j) = stream[j].byte
    BY <2>1 DEF ByteAt
  <2>3. CASE j <= k
    <3>1. ByteAt(j)' = chunks'[j]
      BY <1>4, <2>1, <2>3 DEF ByteAt
    <3>2. j \in 1 .. k
      BY <2>3
    <3> QED BY <1>3, <2>2, <3>1, <3>2
  <2>4. CASE ~(j <= k)
    <3>1. ByteAt(j)' = stream'[j - k].byte
      BY <1>4, <2>1, <2>4 DEF ByteAt
    <3>2. j - k \in 1 .. Len(stream) - k /\ k + (j - k) = j
      BY <1>2, <1>4, <2>1, <2>4
    <3>3. stream'[j - k] = stream[k + (j - k)]
      BY <1>3, <3>2
    <3> QED BY <2>2, <3>1, <3>2, <3>3
  <2> QED BY <2>3, <2>4
<1>6. ASSUME ~broken' PROVE Framed'
  <2>1. stream[k].end /\ Numbered(sent)
    BY <1>1, <1>6 DEF Whole
  <2>0. PICK n \in Nat : \E starts, packets, count : Framing(n, starts, packets, count)
    BY <1>1 DEF Whole, Framed
  <2>2. PICK starts, packets, count : Framing(n, starts, packets, count)
    BY <2>0
  <2>3. \E i \in 1 .. n + 1 : starts[i] = Handed'
    <3>1. k \in 1 .. Len(stream) /\ Handed + k = k
      BY <1>1, <1>2, <1>4
    <3> QED BY <1>4, <2>1, <2>2, <3>1 DEF Framing
  <2>4. ASSUME NEW j \in 1 .. Len(stream'), stream'[j].end
        PROVE  \E i \in 1 .. n + 1 : starts[i] = Handed' + j
    <3>1. k + j \in 1 .. Len(stream) /\ stream'[j] = stream[k + j] /\ Handed + (k + j) = Handed' + j
      BY <1>1, <1>2, <1>3, <1>4
    <3>2. stream[k + j].end
      BY <2>4, <3>1
    <3>3. \E i \in 1 .. n + 1 : starts[i] = Handed + (k + j)
      BY <2>2, <3>1, <3>2 DEF Framing
    <3> QED BY <3>1, <3>3
  <2> QED BY <1>1, <1>4, <1>5, <2>1, <2>2, <2>3, <2>4, FramingStays DEF client
<1>7. ASSUME ~broken' PROVE Whole'
  <2>1. Len(chunks') <= RxSize
    <3>1. ~(k > RxSize)
      BY <1>1, <1>7, Zenon
    <3> QED BY <1>2, <1>3, <3>1, Sizes
  <2> QED BY <1>1, <1>6, <1>7, <2>1 DEF Whole, client, Numbered
<1> QED BY <1>1, <1>7 DEF StreamInv

-----------------------------------------------------------------------------
(* The client.                                                             *)

(* A reply that is lost breaks the session.                                *)
LEMMA ReceiveFailsWhole ==
  ASSUME StreamInv, ReceiveFails
  PROVE  StreamInv'
BY DEF StreamInv, ReceiveFails, Whole, socket, client

(* The chunk goes behind the ring's bytes, and it is the whole reply.      *)
LEMMA ReceiveWhole ==
  ASSUME TypeOK, StreamInv, Receive
  PROVE  StreamInv'
<1> DEFINE l == Len(chunks)
<1>1. UNCHANGED <<broker, socket, state, handled, broken>> /\ pc = "loop" /\ pc' = "process"
      /\ chunks # <<>>
  BY DEF Receive
<1>2. ASSUME Whole
      PROVE  /\ rxbuff.datalen = 0 /\ l \in Nat /\ l <= RxSize /\ rxbuff' = CircPush(rxbuff, chunks)
             /\ chunks' = <<>>
  <2>1. rxbuff.datalen = 0 /\ l \in Nat /\ l <= RxSize
    BY <1>1, <1>2, Lengths DEF Whole
  <2> DEFINE size == Least(l, BufferSize)
  <2>2. size = l
    BY <2>1, Sizes DEF Least
  <2>3. l % LenRange = l
    <3>1. l < LenRange /\ LenRange \in Nat \ {0}
      BY <2>1, Sizes
    <3> HIDE DEF l
    <3> QED BY <2>1, <3>1, ModAtMost
  <2>4. /\ rxbuff' = CircPush(rxbuff, SubSeq(chunks, 1, size % LenRange))
        /\ chunks' = SubSeq(chunks, size + 1, l)
    BY DEF Receive
  <2> HIDE DEF size
  <2>5. rxbuff' = CircPush(rxbuff, SubSeq(chunks, 1, l)) /\ chunks' = SubSeq(chunks, l + 1, l)
    BY <2>2, <2>3, <2>4
  <2>6. SubSeq(chunks, 1, l) = chunks /\ SubSeq(chunks, l + 1, l) = <<>>
    <3>1. chunks \in Seq(Bytes)
      BY DEF TypeOK
    <3> QED BY <3>1
  <2> QED BY <2>1, <2>5, <2>6
<1>3. ASSUME Whole
      PROVE  /\ rxbuff'.datalen = l /\ \A j \in 1 .. l : Item(rxbuff, j)' = chunks[j]
  <2>1. rxbuff \in Ring /\ chunks \in Seq(Bytes) /\ l <= RxSize - rxbuff.datalen
        /\ rxbuff.datalen + l = l /\ rxbuff' = CircPush(rxbuff, chunks)
        /\ \A j \in 1 .. l : rxbuff.datalen + j = j
    BY <1>2, <1>3, Sizes DEF TypeOK
  <2>2. /\ CircPush(rxbuff, chunks).datalen = rxbuff.datalen + l
        /\ \A j \in 1 .. l : Item(CircPush(rxbuff, chunks), rxbuff.datalen + j) = chunks[j]
    BY <2>1, PushFacts
  <2>3. \A j \in 1 .. l : Item(CircPush(rxbuff, chunks), j) = chunks[j]
    BY <2>1, <2>2
  <2>4. \A j : Item(rxbuff, j)' = Item(CircPush(rxbuff, chunks), j)
    BY <2>1 DEF Item, Place
  <2> QED BY <2>1, <2>2, <2>3, <2>4
<1>4. ASSUME Whole PROVE Framed'
  <2>1. /\ rxbuff.datalen = 0 /\ l \in Nat /\ chunks' = <<>> /\ Len(chunks') = 0 /\ rxbuff'.datalen = l
        /\ Handed = l /\ Handed' = l /\ Total' = Total /\ Total \in Nat
        /\ UNCHANGED <<stream, sent, accepted, handled>> /\ Numbered(sent)
    <3>1. rxbuff.datalen = 0 /\ l \in Nat /\ chunks' = <<>> /\ Len(chunks') = 0 /\ rxbuff'.datalen = l
          /\ UNCHANGED <<stream, sent, accepted, handled>> /\ Numbered(sent)
      BY <1>1, <1>2, <1>3, <1>4 DEF broker, Whole
    <3>2. Handed = l /\ Handed' = l
      BY <3>1 DEF Handed
    <3> QED BY <3>1, <3>2, Lengths DEF Total
  <2>2. ASSUME NEW j \in 1 .. Total PROVE ByteAt(j)' = ByteAt(j)
    <3>1. j \in Nat /\ ~(j <= rxbuff.datalen) /\ j - rxbuff.datalen = j
      BY <2>1
    <3>2. CASE j <= l
      <4>1. ByteAt(j) = chunks[j]
        BY <2>1, <3>1, <3>2 DEF ByteAt
      <4>2. ByteAt(j)' = Item(rxbuff, j)'
        BY <2>1, <3>2 DEF ByteAt
      <4>3. j \in 1 .. l
        BY <3>1, <3>2
      <4> QED BY <1>3, <1>4, <4>1, <4>2, <4>3
    <3>3. CASE ~(j <= l)
      BY <2>1, <3>1, <3>3 DEF ByteAt
    <3> QED BY <3>2, <3>3
  <2>3. PICK n \in Nat : \E starts, packets, count : Framing(n, starts, packets, count)
    BY <1>4 DEF Whole, Framed
  <2>4. PICK starts, packets, count : Framing(n, starts, packets, count)
    BY <2>3
  <2>5. /\ \E i \in 1 .. n + 1 : starts[i] = Handed'
        /\ \A j \in 1 .. Len(stream') :
             stream'[j].end => \E i \in 1 .. n + 1 : starts[i] = Handed' + j
    BY <2>1, <2>4 DEF Framing
  <2> QED BY <2>1, <2>2, <2>4, <2>5, FramingStays
<1>5. ASSUME Whole PROVE Whole'
  <2>1. chunks' = <<>> /\ Len(chunks') <= RxSize
    BY <1>2, <1>5, Sizes
  <2> QED BY <1>1, <1>4, <1>5, <2>1 DEF Whole, socket, broker, Numbered
<1>6. isUsed
  BY <1>1 DEF StreamInv
<1> QED BY <1>1, <1>5, <1>6 DEF StreamInv, socket

(* What is left in the ring is nothing: a packet has two bytes or more.    *)
LEMMA ProcessEndsWhole ==
  ASSUME TypeOK, StreamInv, ProcessEnds
  PROVE  StreamInv'
<1>1. UNCHANGED <<broker, socket, chunks, rxbuff, state, handled, broken>> /\ pc = "process"
      /\ pc' = "loop" /\ rxbuff.datalen < 2
  BY DEF ProcessEnds
<1>2. ASSUME Whole PROVE rxbuff.datalen = 0
  <2>1. rxbuff.datalen \in Nat /\ Handed = rxbuff.datalen /\ Numbered(sent)
    BY <1>1, <1>2, Lengths DEF Whole, Handed
  <2>2. PICK n \in Nat : \E starts, packets, count : Framing(n, starts, packets, count)
    BY <1>2 DEF Whole, Framed
  <2>3. PICK starts, packets, count : Framing(n, starts, packets, count)
    BY <2>2
  <2>4. PICK i \in 1 .. n + 1 : starts[i] = Handed
    BY <2>3 DEF Framing
  <2>5. ASSUME i # 1 PROVE FALSE
    <3>1. 1 \in 1 .. n /\ 2 \in 1 .. n + 1
      BY <2>5
    <3>2. /\ starts[1] = 0 /\ starts[1 + 1] = starts[1] + Len(packets[1])
          /\ (2 < i => starts[2] < starts[i])
      BY <2>3, <3>1 DEF Framing
    <3>3. Len(packets[1]) \in Nat /\ Len(packets[1]) >= 2
      BY <2>1, <2>3, <3>1, FramingRange
    <3> DEFINE a == Len(packets[1])
    <3>4. starts[2] = a /\ a \in Nat /\ a >= 2
      BY <3>2, <3>3
    <3>5. i = 2 \/ 2 < i
      BY <2>5
    <3> HIDE DEF a
    <3> QED BY <1>1, <2>1, <2>4, <3>2, <3>4, <3>5
  <2>6. starts[1] = 0
    BY <2>3 DEF Framing
  <2> QED BY <2>1, <2>4, <2>5, <2>6
<1>3. ASSUME Whole PROVE Whole'
  <2>1. Framed'
    BY <1>1, <1>3, FramingSame DEF Whole, broker
  <2> QED BY <1>1, <1>2, <1>3, <2>1 DEF Whole, broker, socket, Numbered
<1> QED BY <1>1, <1>3 DEF StreamInv, socket

(* When the client takes a packet, a whole one of the broker is at the     *)
(* front of the ring.                                                      *)
LEMMA FirstPacket ==
  ASSUME TypeOK, Whole, pc = "process", rxbuff.datalen >= 2
  PROVE  \E n \in Nat \ {0} : \E starts, packets, count :
           /\ Framing(n, starts, packets, count)
           /\ Len(packets[1]) <= rxbuff.datalen /\ Len(packets[1]) \in Nat
           /\ BrokerPacket(packets[1], Len(handled), count[2])
           /\ count[2] \in 0 .. MaxMessages
           /\ \A j \in 1 .. Len(packets[1]) : Item(rxbuff, j) = packets[1][j]
<1>1. rxbuff.datalen \in Nat /\ Handed = rxbuff.datalen /\ Numbered(sent) /\ chunks = <<>>
      /\ Total \in Nat /\ Handed <= Total
  <2>1. chunks = <<>> /\ Len(chunks) = 0 /\ Numbered(sent)
    BY DEF Whole
  <2> QED BY <2>1, Lengths DEF Handed
<1>2. PICK n \in Nat : \E starts, packets, count : Framing(n, starts, packets, count)
  BY DEF Whole, Framed
<1>3. PICK starts, packets, count : Framing(n, starts, packets, count)
  BY <1>2
<1>4. PICK i \in 1 .. n + 1 : starts[i] = Handed
  BY <1>3 DEF Framing
<1>5. starts[1] = 0 /\ i # 1 /\ n # 0
  BY <1>1, <1>3, <1>4 DEF Framing
<1>6. 1 \in 1 .. n /\ 2 \in 1 .. n + 1 /\ (i = 2 \/ 2 < i)
  BY <1>5
<1>7. /\ starts[1 + 1] = starts[1] + Len(packets[1]) /\ (2 < i => starts[2] < starts[i])
      /\ \A j \in 1 .. Len(packets[1]) : ByteAt(starts[1] + j) = packets[1][j]
      /\ BrokerPacket(packets[1], count[1], count[1 + 1]) /\ count[1] = Len(handled)
  BY <1>3, <1>6 DEF Framing
<1>8. Len(packets[1]) \in Nat /\ count[1 + 1] \in 0 .. MaxMessages
  BY <1>1, <1>3, <1>6, FramingRange
<1> DEFINE L == Len(packets[1])
<1>9. L <= rxbuff.datalen /\ L \in Nat
  <2>1. starts[2] = L /\ L \in Nat
    BY <1>5, <1>7, <1>8
  <2> HIDE DEF L
  <2> QED BY <1>1, <1>4, <1>6, <1>7, <2>1
<1>10. ASSUME NEW j \in 1 .. L PROVE Item(rxbuff, j) = packets[1][j]
  <2>1. starts[1] + j = j /\ j <= rxbuff.datalen
    BY <1>1, <1>5, <1>9
  <2>2. ByteAt(starts[1] + j) = packets[1][j]
    BY <1>7
  <2>3. ByteAt(j) = packets[1][j]
    BY <2>1, <2>2
  <2> QED BY <2>1, <2>3 DEF ByteAt
<1>11. n \in Nat \ {0}
  BY <1>5
<1> QED BY <1>3, <1>7, <1>8, <1>9, <1>10, <1>11

(* The client takes that packet, no more and no less, and decodes it right. *)
LEMMA TakesPacket ==
  ASSUME TypeOK, ProcessPacket, NEW type, NEW body \in Seq(Bytes), NEW len, len = Len(body),
         len < 2 * Base, NEW L, L = 1 + DigitCount(len) + len, L <= rxbuff.datalen,
         Item(rxbuff, 1) = type, Item(rxbuff, 2) = len, len >= Base => Item(rxbuff, 3) = 1,
         \A i \in 1 .. len : Item(rxbuff, 1 + DigitCount(len) + i) = body[i]
  PROVE  /\ rxbuff'.datalen = rxbuff.datalen - L
         /\ \A j \in 1 .. rxbuff.datalen - L : Item(rxbuff, j)' = Item(rxbuff, L + j)
         /\ PacketArrived(type, body, len)
<1> DEFINE d == DigitCount(len)
           D == rxbuff.datalen
           digits == EncodeLength(len)
           rest == CircPop(rxbuff, 1 + d)
<1>1. /\ len \in Nat /\ len \in 0 .. 2 * Base - 1 /\ d \in {1, 2} /\ 1 + d \in Nat /\ L = 1 + d + len
      /\ 1 + d <= D /\ D \in Nat /\ L \in Nat
  <2>1. len \in Nat /\ Base \in Nat /\ d \in {1, 2} /\ D \in Nat
    BY Sizes, Lengths DEF DigitCount
  <2> HIDE DEF d, D
  <2>2. L = 1 + d + len /\ L <= D
    BY DEF d, D
  <2> QED BY <2>1, <2>2
<1>2. Len(digits) = d /\ DecodeLength(digits) = len
  BY <1>1, EncodeFacts DEF DigitCount
<1>3. rxbuff \in Ring
  BY DEF TypeOK
<1>4. Digits(rxbuff) = {digits}
  BY <1>1, <1>3, DigitsOfLength
<1>5. rest \in Ring /\ rest.datalen = D - (1 + d)
      /\ \A j \in 1 .. D - (1 + d) : Item(rest, j) = Item(rxbuff, 1 + d + j)
  BY <1>1, <1>3, PopFacts
<1>6. /\ rxbuff' = CircPop(rest, len)
      /\ PacketArrived(rxbuff.cells[rxbuff.pointer], Popped(rest, len), len)
  <2> HIDE DEF digits, d
  <2>1. PICK g \in Digits(rxbuff) :
          IF Len(g) > 2
          THEN rxbuff' = CircPop(rxbuff, 1 + Len(g)) /\ pc' = "undefined" /\ UNCHANGED <<state, handled>>
          ELSE /\ rxbuff' = CircPop(CircPop(rxbuff, 1 + Len(g)), DecodeLength(g))
               /\ PacketArrived(rxbuff.cells[rxbuff.pointer],
                    Popped(CircPop(rxbuff, 1 + Len(g)), DecodeLength(g)), DecodeLength(g))
    BY DEF ProcessPacket
  <2>2. g = digits
    BY <1>4, <2>1
  <2>3. Len(g) = d /\ DecodeLength(g) = len
    BY <1>2, <2>2
  <2>4. ~(Len(g) > 2)
    BY <1>1, <2>3
  <2> QED BY <2>1, <2>3, <2>4
<1> HIDE DEF d, digits, rest
<1>7. len <= rest.datalen /\ rest.datalen - len = D - L /\ D - L \in Nat
  <2>1. L <= D
    OBVIOUS
  <2> HIDE DEF D
  <2> QED BY <1>1, <1>5, <2>1
<1>8. rxbuff'.datalen = D - L
      /\ \A j \in 1 .. D - L : Item(CircPop(rest, len), j) = Item(rest, len + j)
  <2>1. /\ CircPop(rest, len).datalen = rest.datalen - len
        /\ \A j \in 1 .. rest.datalen - len : Item(CircPop(rest, len), j) = Item(rest, len + j)
    BY <1>1, <1>5, <1>7, PopFacts
  <2> HIDE DEF D
  <2> QED BY <1>6, <1>7, <2>1
<1>9. ASSUME NEW j \in 1 .. D - L PROVE Item(rxbuff, j)' = Item(rxbuff, L + j)
  <2>1. Item(rxbuff, j)' = Item(CircPop(rest, len), j)
    BY <1>6 DEF Item, Place
  <2>2. len + j \in 1 .. D - (1 + d) /\ 1 + d + (len + j) = L + j
    <3> HIDE DEF D
    <3> QED BY <1>1, <1>7, SMTT(60)
  <2>3. Item(rest, len + j) = Item(rxbuff, 1 + d + (len + j))
    BY <1>5, <2>2
  <2> QED BY <1>8, <2>1, <2>2, <2>3
<1>10. rxbuff.cells[rxbuff.pointer] = type
  <2>1. rxbuff.pointer \in 0 .. RxSize - 1
    BY <1>3, RingFields
  <2>2. Place(rxbuff, 1) = rxbuff.pointer
    BY <2>1, Sizes DEF Place
  <2> QED BY <2>2 DEF Item
<1>11. Popped(rest, len) = body
  <2> DEFINE q == Popped(rest, len)
  <2>1. Least(len, rest.datalen) = len
    BY <1>1, <1>5, <1>7, RingFields, SMTT(60) DEF Least
  <2>2. q \in Seq(Bytes) /\ Len(q) = len /\ \A i \in 1 .. len : q[i] = Item(rest, i)
    BY <1>1, <1>5, <2>1, PoppedItems
  <2>3. ASSUME NEW i \in 1 .. len PROVE q[i] = body[i]
    <3>1. i \in 1 .. D - (1 + d)
      <4> HIDE DEF D
      <4> QED BY <1>1, <1>7
    <3>2. Item(rest, i) = Item(rxbuff, 1 + d + i)
      BY <1>5, <3>1
    <3>3. Item(rxbuff, 1 + d + i) = body[i]
      BY DEF d
    <3> QED BY <2>2, <3>2, <3>3
  <2> HIDE DEF q
  <2>4. q = body
    BY <2>2, <2>3, SeqEqual
  <2> QED BY <2>4 DEF q
<1> QED BY <1>6, <1>8, <1>9, <1>10, <1>11

(* What a packet of the broker does to the client.                         *)
LEMMA PacketDoes ==
  ASSUME TypeOK, NEW type, NEW body \in Seq(Bytes), NEW len, len = Len(body), len <= RxSize,
         PacketArrived(type, body, len), NEW before \in Nat, before = Len(handled),
         Numbered(handled), NEW after,
         \/ /\ type = CONNACK /\ len = 2 /\ after = before
            /\ body[2] = IF accepted THEN 0 ELSE 1
         \/ type = SUBACK /\ after = before
         \/ /\ type = PUBLISH /\ len >= 3 /\ after = before + 1
            /\ body[1] = 1 /\ body[3] = before + 1
  PROVE  /\ UNCHANGED pc /\ Len(handled') = after /\ Numbered(handled')
         /\ state' = state \/ (state' = "CONNECTED" => accepted)
<1>1. ~(len > RxSize) /\ len \in Nat
  BY Sizes
<1>2. DOMAIN body = 1 .. len
  OBVIOUS
<1>3. CASE type = CONNACK /\ len = 2 /\ after = before
           /\ body[2] = IF accepted THEN 0 ELSE 1
  <2>1. type # PUBLISH /\ type \in {CONNACK, PUBLISH}
    BY <1>3 DEF CONNACK, PUBLISH
  <2>2. At(body, 2) = {body[2]}
    BY <1>2, <1>3 DEF At
  <2>3. /\ \E rc \in At(body, 2) : state' = IF rc = 0 THEN "CONNECTED" ELSE "FAILED"
        /\ UNCHANGED <<pc, handled>>
    BY <1>1, <2>1 DEF PacketArrived
  <2>4. state' = "CONNECTED" => accepted
    <3>1. state' = IF body[2] = 0 THEN "CONNECTED" ELSE "FAILED"
      BY <2>2, <2>3
    <3>2. ~accepted => body[2] # 0
      BY <1>3
    <3> QED BY <3>1, <3>2
  <2> QED BY <1>3, <2>3, <2>4 DEF Numbered
<1>4. CASE type = SUBACK /\ after = before
  <2>1. type \notin {CONNACK, PUBLISH}
    BY <1>4 DEF CONNACK, PUBLISH, SUBACK
  <2>2. UNCHANGED <<state, pc, handled>>
    BY <1>1, <2>1 DEF PacketArrived
  <2> QED BY <1>4, <2>2 DEF Numbered
<1>5. CASE type = PUBLISH /\ len >= 3 /\ after = before + 1
           /\ body[1] = 1 /\ body[3] = before + 1
  <2>1. type # CONNACK /\ type \in {CONNACK, PUBLISH}
    BY <1>5 DEF CONNACK, PUBLISH
  <2>2. HandlePublish(body, len)
    BY <1>1, <2>1 DEF PacketArrived
  <2>3. At(body, 1) = {1} /\ At(body, 3) = {before + 1}
    BY <1>1, <1>2, <1>5 DEF At
  <2>4. PICK toplen \in At(body, 1) :
          \/ toplen >= len /\ pc' = "undefined" /\ UNCHANGED handled
          \/ /\ toplen < len
             /\ \E id \in IF toplen + 1 = len THEN {0} ELSE At(body, toplen + 2) :
                  handled' = Append(handled, id)
             /\ UNCHANGED pc
    BY <2>2 DEF HandlePublish
  <2>5. toplen = 1 /\ ~(toplen >= len) /\ toplen + 1 # len /\ toplen + 2 = 3
    BY <1>1, <1>5, <2>3, <2>4
  <2>6. handled' = Append(handled, before + 1) /\ UNCHANGED pc
    BY <2>3, <2>4, <2>5
  <2>7. Numbered(handled') /\ Len(handled') = before + 1
    <3>1. handled \in Seq(Int)
      BY TypedSequences
    <3> QED BY <2>6, <3>1, NumberedAppend
  <2> QED BY <1>5, <2>2, <2>6, <2>7 DEF HandlePublish
<1> QED BY <1>3, <1>4, <1>5

LEMMA ProcessWhole ==
  ASSUME TypeOK, StreamInv, ProcessPacket
  PROVE  StreamInv'
<1>1. UNCHANGED <<broker, session, socket, chunks, broken, failures>> /\ pc = "process"
      /\ rxbuff.datalen >= 2
  BY DEF ProcessPacket
<1>2. ASSUME Whole PROVE Whole'
  <2>0. PICK n \in Nat \ {0} : \E starts, packets, count :
           /\ Framing(n, starts, packets, count)
           /\ Len(packets[1]) <= rxbuff.datalen /\ Len(packets[1]) \in Nat
           /\ BrokerPacket(packets[1], Len(handled), count[2])
           /\ count[2] \in 0 .. MaxMessages
           /\ \A j \in 1 .. Len(packets[1]) : Item(rxbuff, j) = packets[1][j]
    BY <1>1, <1>2, FirstPacket
  <2>1. PICK starts, packets, count :
           /\ Framing(n, starts, packets, count)
           /\ Len(packets[1]) <= rxbuff.datalen /\ Len(packets[1]) \in Nat
           /\ BrokerPacket(packets[1], Len(handled), count[2])
           /\ count[2] \in 0 .. MaxMessages
           /\ \A j \in 1 .. Len(packets[1]) : Item(rxbuff, j) = packets[1][j]
    BY <2>0
  <2> DEFINE P == packets[1]
             L == Len(P)
             before == Len(handled)
             after == count[2]
  <2>2. /\ L <= rxbuff.datalen /\ L \in Nat /\ BrokerPacket(P, before, after)
        /\ after \in 0 .. MaxMessages /\ before \in Nat
        /\ \A j \in 1 .. L : Item(rxbuff, j) = P[j]
    BY <2>1, Lengths
  <2> HIDE DEF before, after, P
  <2>3. PICK type \in Bytes, body \in Seq(Bytes) :
           /\ P = Bytify(type, body) /\ Len(body) < 2 * Base
           /\ P \in Seq(Bytes) /\ Len(P) = 1 + DigitCount(Len(body)) + Len(body) /\ Len(P) >= 2
           /\ P[1] = type /\ P[2] = Len(body) /\ (Len(body) >= Base => P[3] = 1)
           /\ \A i \in 1 .. Len(body) : P[1 + DigitCount(Len(body)) + i] = body[i]
           /\ \/ /\ type = CONNACK /\ Len(body) = 2 /\ after = before
                 /\ body[2] = IF accepted THEN 0 ELSE 1
              \/ type = SUBACK /\ after = before
              \/ /\ type = PUBLISH /\ Len(body) >= 3 /\ after = before + 1
                 /\ body[1] = 1 /\ body[3] = before + 1
    BY <2>2, BrokerPacketFacts, SMTT(60)
  <2> DEFINE len == Len(body)
             d == DigitCount(len)
  <2>4. len \in Nat /\ d \in {1, 2} /\ L = 1 + d + len /\ len <= RxSize /\ (len >= Base => d = 2)
    <3>1. len \in Nat /\ d \in {1, 2} /\ (len >= Base => d = 2) /\ L = 1 + d + len
      BY <2>3, Sizes DEF DigitCount
    <3>2. rxbuff.datalen \in 0 .. RxSize
      BY RingFields DEF TypeOK
    <3> HIDE DEF len, d, L
    <3> QED BY <2>2, <3>1, <3>2, Sizes
  <2>5. /\ Item(rxbuff, 1) = type /\ Item(rxbuff, 2) = len
        /\ (len >= Base => Item(rxbuff, 3) = 1)
        /\ \A i \in 1 .. len : Item(rxbuff, 1 + d + i) = body[i]
    <3>1. Item(rxbuff, 1) = type /\ Item(rxbuff, 2) = len
      <4>1. 1 \in 1 .. L /\ 2 \in 1 .. L
        BY <2>2, <2>3
      <4> QED BY <2>2, <2>3, <4>1
    <3>2. len >= Base => Item(rxbuff, 3) = 1
      <4>1. len >= Base => 3 \in 1 .. L
        <5> HIDE DEF len, d, L
        <5> QED BY <2>4
      <4> QED BY <2>2, <2>3, <4>1
    <3>3. ASSUME NEW i \in 1 .. len PROVE Item(rxbuff, 1 + d + i) = body[i]
      <4>1. 1 + d + i \in 1 .. L
        <5> HIDE DEF len, d, L
        <5> QED BY <2>4
      <4>2. P[1 + d + i] = body[i]
        BY <2>3
      <4> QED BY <2>2, <4>1, <4>2
    <3> QED BY <3>1, <3>2, <3>3
  <2>6. /\ rxbuff'.datalen = rxbuff.datalen - L
        /\ \A j \in 1 .. rxbuff.datalen - L : Item(rxbuff, j)' = Item(rxbuff, L + j)
        /\ PacketArrived(type, body, len)
    <3>1. len < 2 * Base /\ L = 1 + DigitCount(len) + len /\ L <= rxbuff.datalen
      BY <2>2, <2>3
    <3>2. \A i \in 1 .. len : Item(rxbuff, 1 + DigitCount(len) + i) = body[i]
      BY <2>5
    <3>3. PICK l, K : l = len /\ K = L
      OBVIOUS
    <3> HIDE DEF len, d, L
    <3>4. l = Len(body)
      BY <3>3 DEF len
    <3> QED BY <2>5, <3>1, <3>2, <3>3, <3>4, TakesPacket
  <2>7. /\ UNCHANGED pc /\ Len(handled') = after /\ Numbered(handled')
        /\ state' = state \/ (state' = "CONNECTED" => accepted)
    <3>1. PICK l, a, b : l = len /\ a = after /\ b = before
      OBVIOUS
    <3>2. b = Len(handled) /\ b \in Nat /\ l = Len(body)
      BY <2>2, <3>1 DEF before
    <3>3. Numbered(handled)
      BY <1>2 DEF Whole
    <3>4. \/ /\ type = CONNACK /\ l = 2 /\ a = b
             /\ body[2] = IF accepted THEN 0 ELSE 1
          \/ type = SUBACK /\ a = b
          \/ /\ type = PUBLISH /\ l >= 3 /\ a = b + 1
             /\ body[1] = 1 /\ body[3] = b + 1
      BY <2>3, <3>1
    <3>5. PacketArrived(type, body, l) /\ l <= RxSize
      BY <2>4, <2>6, <3>1
    <3> HIDE DEF len
    <3>6. /\ UNCHANGED pc /\ Len(handled') = a /\ Numbered(handled')
          /\ state' = state \/ (state' = "CONNECTED" => accepted)
      <4>1. body \in Seq(Bytes)
        BY <2>3
      <4> QED BY <3>2, <3>3, <3>4, <3>5, <4>1, PacketDoes, ZenonT(60)
    <3> QED BY <3>1, <3>6
  <2>8. UNCHANGED <<stream, sent, accepted, isUsed, request, chunks, broken>> /\ chunks = <<>>
        /\ Numbered(sent)
    BY <1>1, <1>2 DEF broker, socket, Whole
  <2>9. /\ Handed = rxbuff.datalen /\ Handed' = Handed - L /\ Total' = Total - L
        /\ rxbuff.datalen \in Nat /\ Total \in Nat /\ Len(stream) \in Nat
        /\ Total = Handed + Len(stream) /\ L <= Handed /\ Handed' = rxbuff'.datalen
    <3>1. Len(chunks) = 0 /\ Len(chunks') = 0
      BY <2>8
    <3>2. Handed = rxbuff.datalen /\ Handed' = rxbuff'.datalen /\ rxbuff.datalen \in Nat
          /\ rxbuff'.datalen \in Int
      BY <2>2, <2>6, <3>1, Lengths DEF Handed
    <3>3. Total = Handed + Len(stream) /\ Total' = Handed' + Len(stream)
      BY <2>8 DEF Total
    <3> HIDE DEF L
    <3> QED BY <2>2, <2>6, <3>2, <3>3, Lengths, SMTT(60)
  <2>10. ASSUME NEW j \in 1 .. Total - L PROVE ByteAt(j)' = ByteAt(L + j)
    <3>1. CASE j <= rxbuff'.datalen
      <4>1. j \in 1 .. rxbuff.datalen - L /\ L + j <= rxbuff.datalen
        <5> HIDE DEF L
        <5> QED BY <2>2, <2>6, <2>9, <3>1, SMTT(60)
      <4>2. ByteAt(j)' = Item(rxbuff, j)'
        BY <3>1 DEF ByteAt
      <4>3. ByteAt(L + j) = Item(rxbuff, L + j)
        BY <4>1 DEF ByteAt
      <4> QED BY <2>6, <4>1, <4>2, <4>3
    <3>2. CASE ~(j <= rxbuff'.datalen)
      <4>1. ~(L + j <= rxbuff.datalen) /\ j - Handed' = (L + j) - Handed
        <5> HIDE DEF L
        <5> QED BY <2>2, <2>6, <2>9, <3>2, SMTT(60)
      <4>2. ByteAt(j)' = stream'[j - Handed'].byte
        BY <2>9, <3>2 DEF ByteAt
      <4>3. ByteAt(L + j) = stream[(L + j) - Handed].byte
        BY <2>9, <4>1 DEF ByteAt
      <4> QED BY <2>8, <4>1, <4>2, <4>3
    <3> QED BY <3>1, <3>2
  <2>11. Framed'
    <3>1. PICK K : K = L
      OBVIOUS
    <3>2. K = Len(packets[1]) /\ Len(handled') = count[2]
      BY <2>7, <3>1 DEF P, after
    <3>3. /\ K <= Handed /\ Total' = Total - K /\ Handed' = Handed - K
          /\ \A j \in 1 .. Total - K : ByteAt(j)' = ByteAt(K + j)
      BY <2>9, <2>10, <3>1
    <3> HIDE DEF L
    <3> QED BY <2>1, <2>8, <3>2, <3>3, FramingShrinks
  <2> QED BY <1>1, <1>2, <2>7, <2>8, <2>11 DEF Whole, Numbered
<1> QED BY <1>1, <1>2 DEF StreamInv, socket

-----------------------------------------------------------------------------
LEMMA StreamStep == TypeOK /\ StreamInv /\ [Next]_vars => StreamInv'
<1> SUFFICES ASSUME TypeOK, StreamInv, [Next]_vars PROVE StreamInv'
  OBVIOUS
<1>1. CASE UNCHANGED vars
  <2>1. UNCHANGED <<rxbuff, chunks, stream, sent, handled, accepted, isUsed, request, state, pc, broken>>
    BY <1>1 DEF vars, broker, socket, client
  <2>2. Whole => Whole'
    BY <2>1, FramingSame DEF Whole, Numbered
  <2> QED BY <2>1, <2>2 DEF StreamInv
<1>2. ASSUME NEW padding \in {0, Base}, PublishMessage(padding) PROVE StreamInv'
  BY <1>2, PublishWhole
<1>3. ASSUME NEW k \in 1 .. MaxReply, Reply(k) PROVE StreamInv'
  BY <1>3, ReplyWhole
<1>4. CASE Suback
  BY <1>4, SubackWhole
<1>5. CASE EndSession
  BY <1>5, EndWhole
<1>6. CASE Connect
  BY <1>6, ConnectWhole
<1>7. CASE Recv
  BY <1>7, RecvWhole
<1>8. CASE Receive
  BY <1>8, ReceiveWhole
<1>9. CASE ReceiveError
  BY <1>9, ReceiveErrorWhole
<1>10. CASE ProcessPacket
  BY <1>10, ProcessWhole
<1>11. CASE ProcessEnds
  BY <1>11, ProcessEndsWhole
<1>12. CASE ReceiveFails
  BY <1>12, ReceiveFailsWhole
<1> QED BY <1>1, <1>2, <1>3, <1>4, <1>5, <1>6, <1>7, <1>8, <1>9, <1>10, <1>11, <1>12
        DEF Next, Firmware, Chip

(* While no reply has broken the session, the unread bytes of the ring, of *)
(* the reply and of the stream are whole packets of the broker.            *)
THEOREM StreamInvariance == Spec => [](TypeOK /\ StreamInv)
<1>1. Init => TypeOK /\ StreamInv
  BY InitTypes, StartInv
<1>2. TypeOK /\ StreamInv /\ [Next]_vars => (TypeOK /\ StreamInv)'
  BY StepTypes, StreamStep
<1> QED BY <1>1, <1>2, PTL DEF Spec

(* The messages are handled in the order the broker sent them, each once.  *)
THEOREM MessagesInOrder == Spec => []HandledInOrder
<1>1. TypeOK /\ StreamInv => HandledInOrder
  <2> SUFFICES ASSUME TypeOK, Whole PROVE IsPrefix(handled, sent)
    BY DEF StreamInv, HandledInOrder
  <2>1. Len(handled) <= Len(sent) /\ Len(handled) \in Nat /\ Len(sent) \in Nat
    <3>0. PICK n \in Nat : \E starts, packets, count : Framing(n, starts, packets, count)
      BY DEF Whole, Framed
    <3>1. PICK starts, packets, count : Framing(n, starts, packets, count)
      BY <3>0
    <3>2. 1 \in 1 .. n + 1
      OBVIOUS
    <3>3. count[1] \in 0 .. Len(sent) /\ count[1] = Len(handled)
      BY <3>1, <3>2 DEF Framing
    <3> QED BY <3>3, Lengths
  <2> DEFINE k == Len(handled)
             a == SubSeq(handled, 1, k)
             b == SubSeq(sent, 1, k)
  <2>2. handled \in Seq(Int) /\ sent \in Seq(Int)
    BY TypedSequences
  <2>3. a \in Seq(Int) /\ Len(a) = k /\ \A i \in 1 .. k : a[i] = handled[i]
    BY <2>1, <2>2
  <2>4. b \in Seq(Int) /\ Len(b) = k /\ \A i \in 1 .. k : b[i] = sent[i]
    BY <2>1, <2>2
  <2>5. ASSUME NEW i \in 1 .. k PROVE handled[i] = i /\ sent[i] = i
    BY <2>1 DEF Whole, Numbered
  <2> HIDE DEF a, b
  <2>6. a = b
    BY <2>3, <2>4, <2>5, SeqEqual
  <2> QED BY <2>1, <2>6 DEF IsPrefix, a, b
<1> QED BY <1>1, StreamInvariance, PTL

(* Every length the client decodes is that of a packet, and the ring is    *)
(* empty between two replies.                                              *)
THEOREM FramingIsSound == Spec => []FramingSound
<1>1. StreamInv => FramingSound
  BY DEF StreamInv, Whole, FramingSound
<1> QED BY <1>1, StreamInvariance, PTL

(* A session that counts as set up was accepted by the broker.             *)
THEOREM SessionsAccepted == Spec => []ConnectedIsAccepted
<1>1. StreamInv => ConnectedIsAccepted
  BY DEF StreamInv, Whole, ConnectedIsAccepted
<1> QED BY <1>1, StreamInvariance, PTL

-----------------------------------------------------------------------------
(* Receiving                                                               *)

(* While an unbroken session has a message that is not handled, and the    *)
(* client is done with what it was handed, that message is with the chip,  *)
(* and the socket asks for it or can.                                      *)
UnreadIsAskedFor ==
  isUsed /\ ~broken /\ pc = "loop" /\ chunks = <<>> =>
    \/ handled = sent
    \/ stream # <<>> /\ (request \/ ~bIsRecvPending \/ failures > 0)

(* The flag of the socket is the chip's request, until one gets lost.      *)
Asks == failures \in Nat /\ (isUsed /\ failures = 0 => (bIsRecvPending <=> request))

LEMMA AsksNext == Asks /\ [Next]_vars => Asks'
<1> SUFFICES ASSUME Asks, [Next]_vars PROVE Asks'
  OBVIOUS
<1>1. CASE (\E padding \in {0, Base} : PublishMessage(padding)) \/ Suback \/ EndSession \/ Receive
             \/ ProcessPacket \/ ProcessEnds \/ UNCHANGED vars
  <2>1. UNCHANGED <<isUsed, bIsRecvPending, request, failures>>
    BY <1>1 DEF PublishMessage, Suback, EndSession, Receive, ProcessPacket, ProcessEnds, socket, vars
  <2> QED BY <2>1 DEF Asks
<1>2. CASE Connect BY <1>2 DEF Connect, Asks
<1>3. CASE Recv
  <2>1. CASE request' = TRUE /\ UNCHANGED failures
    BY <1>3, <2>1 DEF Recv, Asks
  <2>2. CASE failures' = failures + 1
    <3>1. failures' \in Nat /\ failures' # 0
      BY <2>2, SMT DEF Asks
    <3> QED BY <3>1 DEF Asks
  <2> QED BY <1>3, <2>1, <2>2 DEF Recv
<1>4. CASE Chip BY <1>4 DEF Chip, Reply, Asks
<1>5. CASE ReceiveError BY <1>5 DEF ReceiveError, Asks
<1>6. CASE ReceiveFails
  <2>1. failures' \in Nat /\ failures' # 0
    BY <1>6, SMT DEF ReceiveFails, Asks
  <2> QED BY <2>1 DEF Asks
<1> QED BY <1>1, <1>2, <1>3, <1>4, <1>5, <1>6 DEF Next, Firmware

(* Between two replies everything the broker sent and the chip handed over *)
(* is handled.                                                             *)
LEMMA ReadIsHandled ==
  ASSUME TypeOK, Whole, pc = "loop", chunks = <<>>, stream = <<>>
  PROVE  handled = sent
<1>1. Total = 0 /\ Len(handled) \in Nat /\ Len(sent) \in Nat
  BY Lengths DEF Whole, Handed, Total
<1>2. PICK n \in Nat : \E starts, packets, count : Framing(n, starts, packets, count)
  BY DEF Whole, Framed
<1>3. PICK starts, packets, count : Framing(n, starts, packets, count)
  BY <1>2
<1>4. n = 0
  <2> SUFFICES ASSUME n # 0 PROVE FALSE
    OBVIOUS
  <2>1. 1 \in 1 .. n + 1 /\ n + 1 \in 1 .. n + 1 /\ 1 < n + 1
    OBVIOUS
  <2>2. starts[1] < starts[n + 1] /\ starts[1] = 0 /\ starts[n + 1] = 0
    BY <1>1, <1>3, <2>1 DEF Framing
  <2> QED BY <2>2
<1>5. Len(handled) = Len(sent)
  <2>1. n + 1 = 1
    BY <1>4
  <2> QED BY <1>3, <2>1 DEF Framing
<1> QED BY <1>5 DEF Whole, Numbered

(* Socket_ReadSocketData, MQTT_CLIENT_receive and umqtt_process: nothing   *)
(* that was received stays behind in the client, and nothing stays with    *)
(* the chip because the socket has forgotten to ask for it.                *)
THEOREM NothingIsLeftBehind == Spec => []UnreadIsAskedFor
<1>1. Init => Asks
  BY DEF Init, Asks
<1>2. TypeOK /\ StreamInv /\ Asks => UnreadIsAskedFor
  <2> SUFFICES ASSUME TypeOK, StreamInv, Asks, isUsed, ~broken, pc = "loop", chunks = <<>>,
                      handled # sent
               PROVE  stream # <<>> /\ (request \/ ~bIsRecvPending \/ failures > 0)
    BY DEF UnreadIsAskedFor
  <2>1. stream # <<>>
    BY ReadIsHandled DEF StreamInv
  <2>2. request \/ ~bIsRecvPending \/ failures > 0
    <3>1. failures = 0 \/ failures > 0
      BY SMT DEF Asks
    <3> QED BY <3>1 DEF Asks
  <2> QED BY <2>1, <2>2
<1> QED BY <1>1, <1>2, AsksNext, StreamInvariance, PTL DEF Spec

(* What the client has left to do with a reply: push its chunks, take      *)
(* packets from the ring, and return from umqtt_process.                   *)
Busy == pc = "process" \/ chunks # <<>>
ToDo == (RxSize + 2) * Len(chunks) + rxbuff.datalen + (IF pc = "process" THEN 1 ELSE 0)

(* Whoever acts, a reply that is being handed over is left as it is, or    *)
(* there is less to do.                                                    *)
Advances == Busy => \/ UNCHANGED <<chunks, rxbuff, pc>>
                    \/ ToDo \in Nat /\ ToDo' \in Nat /\ ToDo' < ToDo
ReceivingEnds == [][Advances]_vars

LEMMA ToDoIsNat == TypeOK => ToDo \in Nat
<1> SUFFICES ASSUME TypeOK PROVE ToDo \in Nat
  OBVIOUS
<1>1. RxSize + 2 \in Nat /\ Len(chunks) \in Nat /\ rxbuff.datalen \in Nat
  BY Sizes, Lengths
<1>2. (RxSize + 2) * Len(chunks) \in Nat
  BY <1>1
<1> QED BY <1>1, <1>2 DEF ToDo

LEMMA ToDoIsNatNext == (TypeOK => ToDo \in Nat)'
  BY ToDoIsNat, PTL

LEMMA ReceiveAdvances ==
  ASSUME TypeOK, TypeOK', Receive
  PROVE  ToDo' < ToDo
<1> DEFINE size == Least(Len(chunks), BufferSize)
<1>0. RxSize \in Nat /\ BufferSize \in Nat /\ BufferSize > 0 /\ RxSize + 2 \in Nat
  BY Sizes
<1>1. /\ chunks # <<>> /\ chunks \in Seq(Bytes) /\ Len(chunks) \in Nat /\ Len(chunks) > 0
      /\ pc = "loop" /\ pc' = "process" /\ chunks' = SubSeq(chunks, size + 1, Len(chunks))
  BY DEF TypeOK, Receive
<1>2. size \in 1 .. Len(chunks)
  BY <1>0, <1>1 DEF Least
<1> HIDE DEF size
<1>3. Len(chunks') = Len(chunks) - size
  BY <1>1, <1>2
<1>4. rxbuff.datalen \in 0 .. RxSize /\ rxbuff'.datalen \in 0 .. RxSize
  BY DEF TypeOK, Ring
<1> DEFINE m == RxSize + 2
           a == Len(chunks)
           b == Len(chunks')
<1>5. m \in Nat /\ a \in Nat /\ b \in Nat /\ b + 1 <= a
  BY <1>0, <1>1, <1>2, <1>3
<1>6. m * b + m <= m * a
  <2> HIDE DEF m, a, b
  <2>1. a - (b + 1) \in Nat
    BY <1>5
  <2>2. m * (a - (b + 1)) \in Nat
    BY <1>5, <2>1
  <2>3. m * a = m * b + m + m * (a - (b + 1))
    BY <1>5
  <2>4. m * a \in Nat /\ m * b \in Nat
    BY <1>5
  <2> QED BY <1>5, <2>2, <2>3, <2>4
<1>7. m * a \in Int /\ m * b \in Int
  BY <1>5
<1> QED
  <2>1. ToDo = m * a + rxbuff.datalen /\ ToDo' = m * b + rxbuff'.datalen + 1
    <3>1. ToDo = m * a + rxbuff.datalen + 0
      BY <1>1 DEF ToDo
    <3>2. ToDo' = m * b + rxbuff'.datalen + 1
      BY <1>1 DEF ToDo
    <3> HIDE DEF m, a, b
    <3> QED BY <1>4, <1>7, <3>1, <3>2
  <2>2. m = RxSize + 2
    OBVIOUS
  <2> HIDE DEF m, a, b
  <2> QED BY <1>0, <1>4, <1>6, <1>7, <2>1, <2>2

LEMMA PopLeaves ==
  ASSUME NEW r \in Ring, NEW n \in Nat
  PROVE  /\ CircPop(r, n) \in Ring /\ CircPop(r, n).datalen <= r.datalen
         /\ n > 0 /\ r.datalen > 0 => CircPop(r, n).datalen < r.datalen
<1>1. r.datalen \in Nat
  BY RingFields
<1>2. CircPop(r, n).datalen = r.datalen - Least(n, r.datalen)
  BY DEF CircPop
<1>3. CircPop(r, n) \in Ring
  BY PopFacts
<1> QED BY <1>1, <1>2, <1>3 DEF Least

LEMMA ProcessAdvances ==
  ASSUME TypeOK, TypeOK', ProcessPacket
  PROVE  ToDo' < ToDo
<1>1. PICK digits \in Digits(rxbuff) :
        \/ rxbuff' = CircPop(rxbuff, 1 + Len(digits))
        \/ rxbuff' = CircPop(CircPop(rxbuff, 1 + Len(digits)), DecodeLength(digits))
  BY DEF ProcessPacket
<1>2. digits \in Seq(Bytes) /\ Len(digits) \in Nat /\ Len(digits) > 0 /\ rxbuff \in Ring
  BY DigitsTyped DEF DigitSeqs, TypeOK
<1>3. rxbuff.datalen \in Nat /\ rxbuff.datalen >= 2 /\ rxbuff'.datalen \in Nat
  BY <1>2, RingFields DEF ProcessPacket, TypeOK
<1> DEFINE rest == CircPop(rxbuff, 1 + Len(digits))
<1>4. rest \in Ring /\ rest.datalen < rxbuff.datalen
  <2>1. 1 + Len(digits) \in Nat /\ 1 + Len(digits) > 0 /\ rxbuff.datalen > 0
    BY <1>2, <1>3
  <2> QED BY <1>2, <2>1, PopLeaves
<1>5. rxbuff'.datalen <= rest.datalen
  <2>1. DecodeLength(digits) \in Nat
    BY <1>2, DecodeIsNat
  <2>2. CircPop(rest, DecodeLength(digits)).datalen <= rest.datalen
    BY <1>4, <2>1, PopLeaves
  <2>3. rest.datalen \in Nat
    BY <1>4, RingFields
  <2> QED BY <1>1, <2>2, <2>3
<1>6. rest.datalen \in Nat /\ (RxSize + 2) * Len(chunks) \in Nat
  <2>1. RxSize + 2 \in Nat /\ Len(chunks) \in Nat
    BY Sizes, Lengths
  <2> QED BY <1>4, <2>1, RingFields
<1> HIDE DEF rest
<1>7. pc = "process" /\ UNCHANGED chunks
  BY DEF ProcessPacket
<1> DEFINE c == (RxSize + 2) * Len(chunks)
<1>8. ToDo = c + rxbuff.datalen + 1 /\ ToDo' = c + rxbuff'.datalen + (IF pc' = "process" THEN 1 ELSE 0)
  BY <1>7 DEF ToDo
<1> HIDE DEF c
<1> QED BY <1>3, <1>4, <1>5, <1>6, <1>8 DEF c

(* Socket_ReadSocketData and umqtt_process: the client is done with every  *)
(* reply after finitely many steps, also when it decodes what is no packet *)
(* of the broker's, and whatever broker and chip do meanwhile.             *)
THEOREM HandingOverEnds == Spec => ReceivingEnds
<1>1. TypeOK /\ TypeOK' /\ StreamInv /\ [Next]_vars => [Advances]_vars
  <2> SUFFICES ASSUME TypeOK, TypeOK', StreamInv, Next, Busy
               PROVE  UNCHANGED <<chunks, rxbuff, pc>> \/ ToDo' < ToDo
    BY ToDoIsNat, ToDoIsNatNext DEF Advances
  <2>1. CASE (\E padding \in {0, Base} : PublishMessage(padding)) \/ Suback \/ EndSession
    BY <2>1 DEF PublishMessage, Suback, EndSession, client
  <2>2. ~Connect /\ ~Recv /\ ~ReceiveError /\ ~Chip
    BY DEF Busy, StreamInv, Connect, Recv, ReceiveError, Chip, Reply
  <2>3. CASE ProcessEnds
    <3>1. pc = "process" /\ pc' # "process" /\ UNCHANGED <<chunks, rxbuff>>
      BY <2>3 DEF ProcessEnds
    <3>2. (RxSize + 2) * Len(chunks) \in Nat /\ rxbuff.datalen \in Nat
      <4>1. RxSize + 2 \in Nat /\ Len(chunks) \in Nat
        BY Sizes, Lengths
      <4> QED BY <4>1, Lengths
    <3> DEFINE c == (RxSize + 2) * Len(chunks)
    <3>3. ToDo = c + rxbuff.datalen + 1 /\ ToDo' = c + rxbuff.datalen + 0
      BY <3>1 DEF ToDo
    <3> HIDE DEF c
    <3> QED BY <3>2, <3>3 DEF c
  <2>4. ASSUME ReceiveFails PROVE ToDo' < ToDo
    <3>1. /\ chunks # <<>> /\ chunks' = <<>> /\ pc = "loop" /\ UNCHANGED <<rxbuff, pc>>
          /\ chunks \in Seq(Bytes)
      BY <2>4 DEF ReceiveFails, client, TypeOK
    <3> DEFINE a == Len(chunks)
               m == RxSize + 2
    <3>2. m \in Nat /\ m > 0 /\ a \in Nat /\ a > 0 /\ rxbuff.datalen \in Nat
      BY <3>1, Sizes, Lengths
    <3>3. Len(chunks') = 0
      BY <3>1
    <3>4. ToDo = m * a + rxbuff.datalen + 0 /\ ToDo' = m * 0 + rxbuff.datalen + 0
      BY <3>1, <3>3 DEF ToDo
    <3> HIDE DEF a, m
    <3>5. m * a > 0 /\ m * a \in Int /\ m * 0 = 0
      BY <3>2
    <3> QED BY <3>2, <3>4, <3>5
  <2> QED BY <2>1, <2>2, <2>3, <2>4, ReceiveAdvances, ProcessAdvances DEF Next, Firmware
<1> QED BY <1>1, StreamInvariance, PTL DEF Spec, ReceivingEnds

=============================================================================
