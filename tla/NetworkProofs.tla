---------------------------- MODULE NetworkProofs ----------------------------
(***************************************************************************)
(* Theorems about Network, for any connections of either family, any       *)
(* texts, IP options and fragments that fit a datagram, and any TTLs: the  *)
(* connection IDs, what Serialize and ParseIPPacket make of a packet, and  *)
(* the checksums. Then what every step of a caller keeps.                  *)
(***************************************************************************)
EXTENDS Network, NumberLemmas, SequenceTheorems, TLAPS

(***************************************************************************)
(* What is hashed.                                                         *)
(***************************************************************************)
LEMMA ConcatTyped ==
  ASSUME NEW a \in Seq(Byte), NEW b \in Seq(Byte)
  PROVE  a \o b \in Seq(Byte) /\ Len(a \o b) = Len(a) + Len(b)
BY ConcatProperties

(* Two concatenations with first parts of one length agree in both parts.   *)
LEMMA ConcatSplit ==
  ASSUME NEW a \in Seq(Byte), NEW b \in Seq(Byte), NEW c \in Seq(Byte), NEW d \in Seq(Byte),
         Len(a) = Len(c), a \o b = c \o d
  PROVE  a = c /\ b = d
<1>1. /\ Len(a \o b) = Len(a) + Len(b) /\ Len(c \o d) = Len(c) + Len(d)
      /\ Len(a) \in Nat /\ Len(b) \in Nat /\ Len(d) \in Nat
  BY ConcatProperties, LenProperties
<1>2. Len(b) = Len(d)
  BY <1>1
<1>3. \A i \in 1..(Len(a) + Len(b)) :
          (a \o b)[i] = IF i <= Len(a) THEN a[i] ELSE b[i - Len(a)]
  BY ConcatProperties
<1>4. \A i \in 1..(Len(c) + Len(d)) :
          (c \o d)[i] = IF i <= Len(c) THEN c[i] ELSE d[i - Len(c)]
  BY ConcatProperties
<1>5. ASSUME NEW i \in 1..Len(a) PROVE a[i] = c[i]
  BY <1>1, <1>2, <1>3, <1>4
<1>6. ASSUME NEW i \in 1..Len(b) PROVE b[i] = d[i]
  <2>1. /\ i + Len(a) \in 1..(Len(a) + Len(b)) /\ i + Len(a) \in 1..(Len(c) + Len(d))
        /\ ~(i + Len(a) <= Len(a)) /\ (i + Len(a)) - Len(a) = i
    BY <1>1, <1>2
  <2>2. (a \o b)[i + Len(a)] = b[i]
    BY <1>3, <2>1
  <2>3. (c \o d)[i + Len(a)] = d[i]
    BY <1>4, <2>1
  <2> QED
    BY <2>2, <2>3
<1>7. a = c
  BY <1>5, SeqEqual
<1>8. b = d
  BY <1>2, <1>6, SeqEqual
<1> QED
  BY <1>7, <1>8

(* A word is a number below 2^16.                                           *)
LEMMA WordIsNumber ==
  ASSUME NEW w \in Word
  PROVE  w \in Int /\ 0 <= w /\ w <= 65535
<1>1. Word = 0..TopWord
  BY DEF Word
<1>2. TopWord \in Int
  BY DEF TopWord
<1>3. w \in Int /\ 0 <= w /\ w <= TopWord
  BY <1>1, <1>2
<1> QED
  BY <1>3 DEF TopWord

(* Its two bytes, which make it up again.                                   *)
LEMMA WordBytes ==
  ASSUME NEW q \in Word
  PROVE  q \div 256 \in Byte /\ q % 256 \in Byte /\ q = (256 * (q \div 256)) + (q % 256)
<1>1. q \in Int /\ 0 <= q /\ q <= 65535
  BY WordIsNumber
<1>2. q = (256 * (q \div 256)) + (q % 256) /\ q % 256 \in 0..255 /\ q \div 256 \in Int
  BY <1>1
<1>3. q \div 256 \in 0..255
  BY <1>1, <1>2
<1> QED
  BY <1>2, <1>3 DEF Byte

(* A port is two bytes, and those of no other port.                         *)
LEMMA PortBytes ==
  ASSUME NEW p \in Word
  PROVE  /\ PutUint16(p) \in Seq(Byte) /\ Len(PutUint16(p)) = 2
         /\ \A q \in Word : PutUint16(p) = PutUint16(q) => p = q
<1>1. \A q \in Word :
         q \div 256 \in Byte /\ q % 256 \in Byte /\ q = (256 * (q \div 256)) + (q % 256)
  BY WordBytes
<1>2. PutUint16(p) \in Seq(Byte) /\ Len(PutUint16(p)) = 2
  BY <1>1 DEF PutUint16
<1>3. ASSUME NEW q \in Word, PutUint16(p) = PutUint16(q) PROVE p = q
  <2>1. p \div 256 = q \div 256 /\ p % 256 = q % 256
    BY <1>3 DEF PutUint16
  <2>2. p = (256 * (p \div 256)) + (p % 256)
    BY <1>1
  <2>3. q = (256 * (q \div 256)) + (q % 256)
    BY <1>1
  <2> QED
    BY <2>1, <2>2, <2>3
<1> QED
  BY <1>2, <1>3

(* What is hashed says which endpoints there are, in their order.           *)
LEMMA HashedTells ==
  ASSUME NEW a \in Seq(Byte), NEW b \in Seq(Byte), Len(a) = Len(b),
         NEW c \in Seq(Byte), NEW d \in Seq(Byte), Len(c) = Len(d),
         NEW p \in Word, NEW q \in Word, NEW r \in Word, NEW s \in Word,
         Hashed(a, p, b, q) = Hashed(c, r, d, s)
  PROVE  a = c /\ p = r /\ b = d /\ q = s
<1> DEFINE P == PutUint16(p)
           Q == PutUint16(q)
           R == PutUint16(r)
           S == PutUint16(s)
<1>1. /\ P \in Seq(Byte) /\ Q \in Seq(Byte) /\ R \in Seq(Byte) /\ S \in Seq(Byte)
      /\ Len(P) = 2 /\ Len(Q) = 2 /\ Len(R) = 2 /\ Len(S) = 2
  BY PortBytes
<1>2. (P = R => p = r) /\ (Q = S => q = s)
  BY PortBytes
<1>3. ((a \o P) \o b) \o Q = ((c \o R) \o d) \o S
  BY DEF Hashed
<1> HIDE DEF P, Q, R, S
<1>4. /\ a \o P \in Seq(Byte) /\ Len(a \o P) = Len(a) + 2
      /\ c \o R \in Seq(Byte) /\ Len(c \o R) = Len(c) + 2
  <2>1. a \o P \in Seq(Byte) /\ Len(a \o P) = Len(a) + Len(P)
    BY <1>1, ConcatTyped
  <2>2. c \o R \in Seq(Byte) /\ Len(c \o R) = Len(c) + Len(R)
    BY <1>1, ConcatTyped
  <2> QED
    BY <1>1, <2>1, <2>2
<1> DEFINE aP == a \o P
           cR == c \o R
<1>a. aP \in Seq(Byte) /\ cR \in Seq(Byte)
  BY <1>4
<1>b. (aP \o b) \o Q = (cR \o d) \o S
  BY <1>3
<1>c. Len(aP) = Len(a) + 2 /\ Len(cR) = Len(c) + 2
  BY <1>4
<1> HIDE DEF aP, cR
<1>5. /\ aP \o b \in Seq(Byte) /\ Len(aP \o b) = Len(aP) + Len(b)
      /\ cR \o d \in Seq(Byte) /\ Len(cR \o d) = Len(cR) + Len(d)
  BY <1>a, ConcatTyped
<1>6. /\ Len((aP \o b) \o Q) = Len(aP) + Len(b) + 2
      /\ Len((cR \o d) \o S) = Len(cR) + Len(d) + 2
  <2>1. Len((aP \o b) \o Q) = Len(aP \o b) + Len(Q)
    BY <1>1, <1>5, ConcatTyped
  <2>2. Len((cR \o d) \o S) = Len(cR \o d) + Len(S)
    BY <1>1, <1>5, ConcatTyped
  <2> QED
    BY <1>1, <1>5, <2>1, <2>2
<1>7. Len(a) = Len(c) /\ Len(b) = Len(d)
  <2>1. Len(a) \in Nat /\ Len(c) \in Nat
    BY LenProperties
  <2> QED
    BY <1>b, <1>c, <1>6, <2>1
<1>8. aP \o b = cR \o d /\ Q = S
  <2> DEFINE u == aP \o b
             v == cR \o d
  <2>1. Len(u) = Len(v) /\ u \in Seq(Byte) /\ v \in Seq(Byte) /\ u \o Q = v \o S
    BY <1>5, <1>7, <1>c, <1>b
  <2> HIDE DEF u, v
  <2>2. Q \in Seq(Byte) /\ S \in Seq(Byte)
    BY <1>1
  <2>3. u = v /\ Q = S
    BY <2>1, <2>2, ConcatSplit
  <2> QED
    BY <2>3 DEF u, v
<1>9. aP = cR /\ b = d
  <2>1. Len(aP) = Len(cR) /\ aP \o b = cR \o d
    BY <1>c, <1>7, <1>8
  <2> QED
    BY <1>a, <2>1, ConcatSplit
<1>10. a = c /\ P = R
  <2>1. a \o P = c \o R
    BY <1>9 DEF aP, cR
  <2>2. P \in Seq(Byte) /\ R \in Seq(Byte) /\ Len(a) = Len(c)
    BY <1>1, <1>7
  <2> QED
    BY <2>1, <2>2, ConcatSplit
<1> QED
  BY <1>2, <1>8, <1>9, <1>10

(***************************************************************************)
(* Addresses and ports as the kernel gives them.                           *)
(***************************************************************************)
(* On a machine that stores the low byte first, reading the kernel's port   *)
(* and swapping its bytes gives the port.                                   *)
LEMMA PortReadBack ==
  ASSUME LittleEndian, NEW port \in Word
  PROVE  SwapBytes(RawPort(port)) = port
<1> DEFINE h == port \div 256
           l == port % 256
<1>1. h \in Byte /\ l \in Byte /\ port = (256 * h) + l
  <2>1. port \in Int /\ 0 <= port /\ port <= 65535
    BY WordIsNumber
  <2>2. port = (256 * h) + l /\ l \in 0..255 /\ h \in Int
    BY <2>1
  <2>3. h \in 0..255
    BY <2>1, <2>2
  <2> QED
    BY <2>2, <2>3 DEF Byte
<1>2. RawPort(port) = (256 * l) + h
  BY DEF RawPort
<1> HIDE DEF h, l
<1>3. ((256 * l) + h) \div 256 = l /\ ((256 * l) + h) % 256 = h
  BY <1>1 DEF Byte
<1>4. SwapBytes(RawPort(port)) = l + (256 * h)
  BY <1>2, <1>3 DEF SwapBytes
<1> QED
  BY <1>1, <1>4 DEF Byte

(* A concatenation can be taken apart again.                                *)
LEMMA TakeApart ==
  ASSUME NEW a \in Seq(Byte), NEW b \in Seq(Byte), NEW n \in Nat, n = Len(a) + Len(b)
  PROVE  SubSeq(a \o b, 1, Len(a)) = a /\ SubSeq(a \o b, Len(a) + 1, n) = b
<1> DEFINE m == a \o b
           k == Len(a)
           first == SubSeq(m, 1, k)
           second == SubSeq(m, k + 1, n)
<1>1. k \in Nat /\ Len(b) \in Nat /\ n = k + Len(b)
  BY LenProperties
<1>2. m \in Seq(Byte) /\ Len(m) = n
  BY ConcatProperties
<1>3. \A i \in 1..n : m[i] = IF i <= k THEN a[i] ELSE b[i - k]
  BY ConcatProperties
<1>4. \A i \in 1..n : m[i] \in Byte
  BY <1>2, ElementOfSeq
<1> HIDE DEF m
<1>5. first \in Seq(Byte) /\ Len(first) = k /\ \A i \in 1..k : first[i] = m[i]
  <2>1. \A i \in 1..k : m[i] \in Byte
    BY <1>1, <1>4
  <2>2. first \in Seq(Byte) /\ Len(first) = (IF 1 <= k THEN k - 1 + 1 ELSE 0)
        /\ \A i \in 1..(k - 1 + 1) : first[i] = m[1 + i - 1]
    BY <1>1, <2>1, SubSeqProperties
  <2>3. k - 1 + 1 = k /\ \A i \in 1..k : 1 + i - 1 = i
    BY <1>1
  <2> QED
    BY <1>1, <2>2, <2>3
<1>6. second \in Seq(Byte) /\ Len(second) = Len(b) /\ \A i \in 1..Len(b) : second[i] = m[k + i]
  <2>1. \A i \in (k + 1)..n : m[i] \in Byte
    BY <1>1, <1>4
  <2>2. second \in Seq(Byte) /\ Len(second) = (IF k + 1 <= n THEN n - (k + 1) + 1 ELSE 0)
        /\ \A i \in 1..(n - (k + 1) + 1) : second[i] = m[(k + 1) + i - 1]
    BY <1>1, <2>1, SubSeqProperties
  <2>3. n - (k + 1) + 1 = Len(b) /\ \A i \in 1..Len(b) : (k + 1) + i - 1 = k + i
    BY <1>1
  <2> QED
    BY <1>1, <2>2, <2>3
<1> HIDE DEF first, second
<1>7. first = a
  <2>1. \A i \in 1..k : first[i] = a[i]
    BY <1>1, <1>3, <1>5
  <2> QED
    BY <1>5, <2>1, SeqEqual
<1>8. second = b
  <2>1. ASSUME NEW i \in 1..Len(b) PROVE second[i] = b[i]
    <3>1. k + i \in 1..n /\ ~(k + i <= k) /\ (k + i) - k = i
      BY <1>1
    <3> QED
      BY <1>3, <1>6, <3>1
  <2> QED
    BY <1>6, <2>1, SeqEqual
<1> QED
  BY <1>7, <1>8 DEF first, second, m

(* The 16-byte form of an IPv4 address is one, and gives the address back.  *)
LEMMA MappedBack ==
  ASSUME NEW ip \in Seq(Byte), Len(ip) = 4
  PROVE  /\ To16(ip) \in Seq(Byte) /\ Len(To16(ip)) = 16
         /\ To4(To16(ip)) = ip
<1>1. MappedPrefix \in Seq(Byte) /\ Len(MappedPrefix) = 12
  <2> DEFINE zeros == Zeros(10)
             ones == <<255, 255>>
  <2>1. zeros \in Seq(Byte) /\ Len(zeros) = 10
    BY DEF Zeros, Byte
  <2>2. ones \in Seq(Byte) /\ Len(ones) = 2
    BY DEF Byte
  <2>3. MappedPrefix = zeros \o ones
    BY DEF MappedPrefix
  <2> HIDE DEF zeros, ones
  <2>4. zeros \o ones \in Seq(Byte) /\ Len(zeros \o ones) = Len(zeros) + Len(ones)
    BY <2>1, <2>2, ConcatTyped
  <2> QED
    BY <2>1, <2>2, <2>3, <2>4
<1> DEFINE prefix == MappedPrefix
           m == To16(ip)
<1>2. m = prefix \o ip
  BY DEF To16
<1>3. prefix \in Seq(Byte) /\ Len(prefix) = 12
  BY <1>1
<1>4. prefix = MappedPrefix
  OBVIOUS
<1>5. To4(m) = IF Len(m) = 4 THEN m
               ELSE IF Len(m) = 16 /\ SubSeq(m, 1, 12) = prefix THEN SubSeq(m, 13, 16)
               ELSE None
  BY DEF To4
<1> HIDE DEF m, prefix
<1>6. m \in Seq(Byte) /\ Len(m) = Len(prefix) + Len(ip)
  BY <1>2, <1>3, ConcatTyped
<1>7. 16 \in Nat /\ 16 = Len(prefix) + Len(ip) /\ Len(prefix) + 1 = 13
  BY <1>3
<1>8. SubSeq(m, 1, 12) = prefix /\ SubSeq(m, 13, 16) = ip
  <2>1. ASSUME NEW n \in Nat, n = Len(prefix) + Len(ip)
        PROVE  /\ SubSeq(prefix \o ip, 1, Len(prefix)) = prefix
               /\ SubSeq(prefix \o ip, Len(prefix) + 1, n) = ip
    BY <1>3, <2>1, TakeApart, Zenon
  <2>2. /\ SubSeq(prefix \o ip, 1, Len(prefix)) = prefix
        /\ SubSeq(prefix \o ip, Len(prefix) + 1, 16) = ip
    BY <1>7, <2>1, Zenon
  <2> QED
    BY <1>2, <1>3, <1>7, <2>2
<1>9. To4(m) = ip
  BY <1>5, <1>6, <1>7, <1>8
<1> QED
  BY <1>6, <1>7, <1>9 DEF m

-----------------------------------------------------------------------------
(***************************************************************************)
(* The order of two endpoints.                                             *)
(***************************************************************************)
(* The bytes of an address are numbers.                                     *)
LEMMA BytesAreNumbers ==
  ASSUME NEW a \in Seq(Byte), NEW i \in 1..Len(a)
  PROVE  a[i] \in Int
<1>1. a[i] \in Byte
  BY ElementOfSeq
<1>2. \A x \in Byte : x \in Int
  BY DEF Byte
<1> QED
  BY <1>1, <1>2

(* Addresses of one length are ordered: by the first byte that differs.     *)
LEMMA BeforeOrders ==
  ASSUME NEW a \in Seq(Byte), NEW b \in Seq(Byte), Len(a) = Len(b)
  PROVE  /\ ~(Before(a, b) /\ Before(b, a))
         /\ a = b \/ Before(a, b) \/ Before(b, a)
<1> DEFINE n == Len(a)
           Less(x, y) == \E i \in 1..n : x[i] < y[i] /\ \A j \in 1..(i - 1) : x[j] = y[j]
<1>1. n \in Nat /\ \A i \in 1..n : a[i] \in Int /\ b[i] \in Int
  <2>1. n \in Nat
    BY LenProperties
  <2>2. ASSUME NEW i \in 1..n PROVE a[i] \in Int /\ b[i] \in Int
    BY BytesAreNumbers
  <2> QED
    BY <2>1, <2>2
<1>2. (Before(a, b) <=> Less(a, b)) /\ (Before(b, a) <=> Less(b, a))
  BY <1>1 DEF Before
<1> HIDE DEF n
<1>3. ~(Less(a, b) /\ Less(b, a))
  <2> SUFFICES ASSUME Less(a, b), Less(b, a) PROVE FALSE
    OBVIOUS
  <2>1. PICK i \in 1..n : a[i] < b[i] /\ \A j \in 1..(i - 1) : a[j] = b[j]
    OBVIOUS
  <2>2. PICK k \in 1..n : b[k] < a[k] /\ \A j \in 1..(k - 1) : b[j] = a[j]
    OBVIOUS
  <2>3. CASE i < k
    BY <1>1, <2>1, <2>2, <2>3
  <2>4. CASE k < i
    BY <1>1, <2>1, <2>2, <2>4
  <2>5. CASE i = k
    BY <1>1, <2>1, <2>2, <2>5
  <2> QED
    BY <1>1, <2>3, <2>4, <2>5
<1>4. ASSUME a # b PROVE Less(a, b) \/ Less(b, a)
  <2> DEFINE Differ == {i \in 1..n : a[i] # b[i]}
  <2>1. Differ \subseteq Nat
    BY <1>1
  <2>a. Differ # {}
    <3> SUFFICES ASSUME Differ = {} PROVE FALSE
      OBVIOUS
    <3>1. \A i \in 1..Len(a) : a[i] = b[i]
      BY DEF n
    <3>2. a = b
      BY <3>1, SeqEqual
    <3> QED
      BY <1>4, <3>2
  <2>2. PICK i \in Differ : \A j \in Differ : i <= j
    BY <2>1, <2>a, LeastExists
  <2>3. i \in 1..n /\ a[i] # b[i] /\ \A j \in 1..(i - 1) : a[j] = b[j]
    BY <1>1, <2>2
  <2>4. a[i] < b[i] \/ b[i] < a[i]
    BY <1>1, <2>3
  <2> QED
    BY <2>3, <2>4
<1> QED
  BY <1>2, <1>3, <1>4

(* Of two different endpoints one goes first, whichever is the source.      *)
LEMMA SwappedOnce ==
  ASSUME NEW a \in Seq(Byte), NEW b \in Seq(Byte), Len(a) = Len(b),
         NEW p \in Word, NEW q \in Word, ~(a = b /\ p = q)
  PROVE  Swapped(a, p, b, q) <=> ~Swapped(b, q, a, p)
<1>1. Swapped(a, p, b, q) <=> (Before(b, a) /\ ~Before(a, b))
                                \/ (~Before(a, b) /\ ~Before(b, a) /\ p > q)
  BY DEF Swapped, compareIPs
<1>2. Swapped(b, q, a, p) <=> (Before(a, b) /\ ~Before(b, a))
                                \/ (~Before(a, b) /\ ~Before(b, a) /\ q > p)
  BY DEF Swapped, compareIPs
<1>3. ~(Before(a, b) /\ Before(b, a)) /\ (a = b \/ Before(a, b) \/ Before(b, a))
  BY BeforeOrders
<1>4. CASE Before(a, b) \/ Before(b, a)
  BY <1>1, <1>2, <1>3, <1>4
<1>5. CASE ~Before(a, b) /\ ~Before(b, a)
  <2>1. p # q
    BY <1>3, <1>5
  <2>2. p \in Int /\ q \in Int
    BY WordIsNumber
  <2> QED
    BY <1>1, <1>2, <1>5, <2>1, <2>2
<1> QED
  BY <1>4, <1>5

-----------------------------------------------------------------------------
(***************************************************************************)
(* The ID.                                                                 *)
(***************************************************************************)
(* The ID of two endpoints with addresses of one family.                    *)
Named(a, p, b, q) ==
    IF Swapped(a, p, b, q) THEN Hashed(b, q, a, p) ELSE Hashed(a, p, b, q)

(* The ID is that of the two endpoints, in either direction, and of no      *)
(* other two.                                                               *)
LEMMA NamesEndpoints ==
  ASSUME NEW a \in Seq(Byte), NEW b \in Seq(Byte), Len(a) = Len(b),
         NEW c \in Seq(Byte), NEW d \in Seq(Byte), Len(c) = Len(d),
         NEW p \in Word, NEW q \in Word, NEW r \in Word, NEW s \in Word
  PROVE  Named(a, p, b, q) = Named(c, r, d, s)
           <=> \/ a = c /\ p = r /\ b = d /\ q = s
               \/ a = d /\ p = s /\ b = c /\ q = r
<1>1. ASSUME Named(a, p, b, q) = Named(c, r, d, s)
      PROVE  (a = c /\ p = r /\ b = d /\ q = s) \/ (a = d /\ p = s /\ b = c /\ q = r)
  <2>1. Hashed(a, p, b, q) = Hashed(c, r, d, s) => a = c /\ p = r /\ b = d /\ q = s
    BY HashedTells
  <2>2. Hashed(a, p, b, q) = Hashed(d, s, c, r) => a = d /\ p = s /\ b = c /\ q = r
    BY HashedTells
  <2>3. Hashed(b, q, a, p) = Hashed(c, r, d, s) => b = c /\ q = r /\ a = d /\ p = s
    BY HashedTells
  <2>4. Hashed(b, q, a, p) = Hashed(d, s, c, r) => b = d /\ q = s /\ a = c /\ p = r
    BY HashedTells
  <2> QED
    BY <1>1, <2>1, <2>2, <2>3, <2>4 DEF Named
<1>2. Named(a, p, b, q) = Named(b, q, a, p)
  <2>1. CASE a = b /\ p = q
    BY <2>1
  <2>2. CASE ~(a = b /\ p = q)
    BY <2>2, SwappedOnce DEF Named
  <2> QED
    BY <2>1, <2>2
<1> QED
  BY <1>1, <1>2

(* What applications connect.                                               *)
LEMMA ConnectionTyped ==
  ASSUME NEW c \in Connections
  PROVE  /\ c.SrcIP \in Seq(Byte) /\ c.DstIP \in Seq(Byte)
         /\ c.SrcPort \in Word /\ c.DstPort \in Word
         /\ c = [SrcIP |-> c.SrcIP, SrcPort |-> c.SrcPort, DstIP |-> c.DstIP, DstPort |-> c.DstPort]
         /\ Len(c.SrcIP) = Len(c.DstIP)
         /\ Len(c.SrcIP) = 4 \/ (Len(c.SrcIP) = 16 /\ To4(c.SrcIP) = None)
BY NetworkAssumption

(* The client's handler names a connection by its endpoints.                *)
LEMMA HandlerNames ==
  ASSUME LittleEndian, NEW c \in Connections
  PROVE  HandlerOf(c) = Named(c.SrcIP, c.SrcPort, c.DstIP, c.DstPort)
<1>1. /\ c.SrcIP \in Seq(Byte) /\ c.DstIP \in Seq(Byte)
      /\ c.SrcPort \in Word /\ c.DstPort \in Word /\ Len(c.SrcIP) = Len(c.DstIP)
  BY ConnectionTyped
<1>2. SwapBytes(RawPort(c.DstPort)) = c.DstPort
  BY <1>1, PortReadBack
<1>n. \A x \in Seq(Byte) : (Len(x) = 4 \/ Len(x) = 16) => x # None
  BY DEF None
<1>3. CASE Len(c.SrcIP) = 4
  <2>1. NatOf(c) = [family |-> "ip4", ip |-> c.DstIP, port |-> c.DstPort]
    BY <1>1, <1>3 DEF NatOf
  <2>2. getsockopt(NatOf(c), "ip4") = [ip |-> c.DstIP, port |-> RawPort(c.DstPort)]
    BY <2>1 DEF getsockopt
  <2>3. c.DstIP # None /\ c.SrcIP # None
    BY <1>1, <1>3, <1>n
  <2>4. GetOriginalDest(NatOf(c)) = [ip |-> To16(c.DstIP), port |-> c.DstPort]
    BY <1>2, <2>2, <2>3 DEF GetOriginalDest, NoDest
  <2>5. /\ To16(c.DstIP) \in Seq(Byte) /\ Len(To16(c.DstIP)) = 16
        /\ To4(To16(c.DstIP)) = c.DstIP
        /\ To4(To16(c.SrcIP)) = c.SrcIP
    BY <1>1, <1>3, MappedBack
  <2>6. GetOriginalDestAuto(NatOf(c)) = [ip |-> To16(c.DstIP), port |-> c.DstPort]
        /\ GetOriginalDestAuto(NatOf(c)) # NoDest
    <3>1. To16(c.DstIP) # None
      BY <2>5, <1>n
    <3> QED
      BY <2>4, <3>1 DEF GetOriginalDestAuto, NoDest
  <2>7. HandlerOf(c) = GenerateConnectionID(To16(c.SrcIP), c.SrcPort, To16(c.DstIP), c.DstPort)
    BY <2>6 DEF HandlerOf, HandlerID
  <2> QED
    BY <2>3, <2>5, <2>7 DEF GenerateConnectionID, Named
<1>4. CASE Len(c.SrcIP) = 16 /\ To4(c.SrcIP) = None
  <2>1. NatOf(c) = [family |-> "ip6", ip |-> c.DstIP, port |-> c.DstPort]
    BY <1>1, <1>4 DEF NatOf
  <2>2. /\ getsockopt(NatOf(c), "ip6") = [ip |-> c.DstIP, port |-> RawPort(c.DstPort)]
        /\ getsockopt(NatOf(c), "ip4") = NoDest
    BY <2>1 DEF getsockopt
  <2>3. c.DstIP # None
    BY <1>1, <1>4, <1>n
  <2>4. GetOriginalDestIPv6(NatOf(c)) = [ip |-> c.DstIP, port |-> c.DstPort]
        /\ GetOriginalDest(NatOf(c)) = NoDest
    BY <1>2, <2>2, <2>3 DEF GetOriginalDest, GetOriginalDestIPv6, NoDest
  <2>5. GetOriginalDestAuto(NatOf(c)) = [ip |-> c.DstIP, port |-> c.DstPort]
        /\ GetOriginalDestAuto(NatOf(c)) # NoDest
    BY <2>3, <2>4 DEF GetOriginalDestAuto, NoDest
  <2>6. To16(c.SrcIP) = c.SrcIP
    BY <1>4 DEF To16
  <2>7. HandlerOf(c) = GenerateConnectionID(c.SrcIP, c.SrcPort, c.DstIP, c.DstPort)
    BY <2>5, <2>6 DEF HandlerOf, HandlerID
  <2> QED
    BY <1>4, <2>7 DEF GenerateConnectionID, Named
<1> QED
  BY <1>3, <1>4, ConnectionTyped

(***************************************************************************)
(* On a machine that stores the low byte first, two connections have one   *)
(* ID if and only if they are one connection, seen from either end: for    *)
(* any addresses and ports of both families.                               *)
(***************************************************************************)
THEOREM OneIDPerConnection == LittleEndian => (Spec => []IDIsTheConnection)
<1> SUFFICES ASSUME LittleEndian PROVE Spec => []IDIsTheConnection
  OBVIOUS
<1> DEFINE Inv == conn \in Connections
<1>1. Init => Inv
  BY DEF Init
<1>2. Inv /\ [Next]_vars => Inv'
  <2> SUFFICES ASSUME Inv, [Next]_vars PROVE Inv'
    OBVIOUS
  <2>1. conn' = conn
    BY DEF Next, vars, Arrive, Parse, Send, SetTTL, SetText, RecalculateHeader,
           RecalculateTransport, StoreTransportChecksum
  <2> QED
    BY <2>1
<1>3. Inv => IDIsTheConnection
  <2> SUFFICES ASSUME conn \in Connections, NEW c \in Connections
               PROVE  HandlerOf(c) = HandlerOf(conn) <=> c \in {conn, Reverse(conn)}
    BY DEF IDIsTheConnection
  <2>1. /\ HandlerOf(c) = Named(c.SrcIP, c.SrcPort, c.DstIP, c.DstPort)
        /\ HandlerOf(conn) = Named(conn.SrcIP, conn.SrcPort, conn.DstIP, conn.DstPort)
    BY HandlerNames
  <2>2. HandlerOf(c) = HandlerOf(conn)
          <=> \/ /\ c.SrcIP = conn.SrcIP /\ c.SrcPort = conn.SrcPort
                 /\ c.DstIP = conn.DstIP /\ c.DstPort = conn.DstPort
              \/ /\ c.SrcIP = conn.DstIP /\ c.SrcPort = conn.DstPort
                 /\ c.DstIP = conn.SrcIP /\ c.DstPort = conn.SrcPort
    <3> DEFINE a == c.SrcIP
               p == c.SrcPort
               b == c.DstIP
               q == c.DstPort
               a1 == conn.SrcIP
               p1 == conn.SrcPort
               b1 == conn.DstIP
               q1 == conn.DstPort
    <3>1. /\ a \in Seq(Byte) /\ b \in Seq(Byte) /\ Len(a) = Len(b)
          /\ p \in Word /\ q \in Word
      BY ConnectionTyped
    <3>2. /\ a1 \in Seq(Byte) /\ b1 \in Seq(Byte) /\ Len(a1) = Len(b1)
          /\ p1 \in Word /\ q1 \in Word
      BY ConnectionTyped
    <3>3. HandlerOf(c) = Named(a, p, b, q) /\ HandlerOf(conn) = Named(a1, p1, b1, q1)
      BY <2>1
    <3> HIDE DEF a, p, b, q, a1, p1, b1, q1
    <3>4. Named(a, p, b, q) = Named(a1, p1, b1, q1)
            <=> \/ a = a1 /\ p = p1 /\ b = b1 /\ q = q1
                \/ a = b1 /\ p = q1 /\ b = a1 /\ q = p1
      BY <3>1, <3>2, NamesEndpoints
    <3> QED
      BY <3>3, <3>4 DEF a, p, b, q, a1, p1, b1, q1
  <2>3. /\ c = [SrcIP |-> c.SrcIP, SrcPort |-> c.SrcPort, DstIP |-> c.DstIP, DstPort |-> c.DstPort]
        /\ conn = [SrcIP |-> conn.SrcIP, SrcPort |-> conn.SrcPort,
                   DstIP |-> conn.DstIP, DstPort |-> conn.DstPort]
    BY ConnectionTyped
  <2>4. Reverse(conn) = [SrcIP |-> conn.DstIP, SrcPort |-> conn.DstPort,
                         DstIP |-> conn.SrcIP, DstPort |-> conn.SrcPort]
    BY DEF Reverse
  <2> QED
    BY <2>2, <2>3, <2>4
<1> QED
  BY <1>1, <1>2, <1>3, PTL DEF Spec

(***************************************************************************)
(* Bytes, and what is where in them.                                       *)
(***************************************************************************)

(* Where the bytes of two sequences are in their concatenation.             *)
LEMMA ConcatBytes ==
  ASSUME NEW a \in Seq(Byte), NEW b \in Seq(Byte)
  PROVE  /\ a \o b \in Seq(Byte) /\ Len(a \o b) = Len(a) + Len(b)
         /\ \A i \in 1..Len(a) : (a \o b)[i] = a[i]
         /\ \A i \in 1..Len(b) : (a \o b)[Len(a) + i] = b[i]
<1>1. /\ a \o b \in Seq(Byte) /\ Len(a \o b) = Len(a) + Len(b)
      /\ \A i \in 1..(Len(a) + Len(b)) : (a \o b)[i] = IF i <= Len(a) THEN a[i] ELSE b[i - Len(a)]
  BY ConcatProperties
<1>2. Len(a) \in Nat /\ Len(b) \in Nat
  BY LenProperties
<1>3. \A i \in 1..Len(a) : i \in 1..(Len(a) + Len(b)) /\ i <= Len(a)
  BY <1>2
<1>4. \A i \in 1..Len(b) : /\ Len(a) + i \in 1..(Len(a) + Len(b)) /\ ~(Len(a) + i <= Len(a))
                           /\ (Len(a) + i) - Len(a) = i
  BY <1>2
<1>5. \A i \in 1..Len(a) : (a \o b)[i] = a[i]
  BY <1>1, <1>3
<1>6. ASSUME NEW i \in 1..Len(b) PROVE (a \o b)[Len(a) + i] = b[i]
  BY <1>1, <1>4
<1> QED
  BY <1>1, <1>5, <1>6

(* s is n bytes; c is a followed by b.                                      *)
IsBytes(s, n) == s \in Seq(Byte) /\ Len(s) = n
Joins(c, a, b) == c = a \o b
JoinsAll(h, p1, p2, p3, p4, p5, p6) == h = p1 \o p2 \o p3 \o p4 \o p5 \o p6

(* The same of sequences whose lengths are known.                           *)
LEMMA Joined ==
  ASSUME NEW a, NEW b, NEW c, NEW n \in Nat, NEW m \in Nat,
         IsBytes(a, n), IsBytes(b, m), Joins(c, a, b)
  PROVE  /\ IsBytes(c, n + m)
         /\ \A i \in 1..n : c[i] = a[i]
         /\ \A i \in 1..m : c[n + i] = b[i]
<1>1. a \in Seq(Byte) /\ b \in Seq(Byte) /\ Len(a) = n /\ Len(b) = m /\ c = a \o b
  BY DEF IsBytes, Joins
<1>2. /\ a \o b \in Seq(Byte) /\ Len(a \o b) = n + m
      /\ \A i \in 1..n : (a \o b)[i] = a[i]
      /\ \A i \in 1..m : (a \o b)[n + i] = b[i]
  BY <1>1, ConcatBytes
<1> QED
  BY <1>1, <1>2 DEF IsBytes

(* The fixed part of a header, pair by pair.                                *)
LEMMA TwelveBytes ==
  ASSUME NEW p1, NEW p2, NEW p3, NEW p4, NEW p5, NEW p6, NEW h,
         JoinsAll(h, p1, p2, p3, p4, p5, p6),
         IsBytes(p1, 2), IsBytes(p2, 2), IsBytes(p3, 2),
         IsBytes(p4, 2), IsBytes(p5, 2), IsBytes(p6, 2)
  PROVE  /\ IsBytes(h, 12)
         /\ h[1] = p1[1] /\ h[2] = p1[2] /\ h[3] = p2[1] /\ h[4] = p2[2]
         /\ h[5] = p3[1] /\ h[6] = p3[2] /\ h[7] = p4[1] /\ h[8] = p4[2]
         /\ h[9] = p5[1] /\ h[10] = p5[2] /\ h[11] = p6[1] /\ h[12] = p6[2]
<1> DEFINE h2 == p1 \o p2
           h3 == h2 \o p3
           h4 == h3 \o p4
           h5 == h4 \o p5
<1>1. /\ Joins(h2, p1, p2) /\ Joins(h3, h2, p3) /\ Joins(h4, h3, p4)
      /\ Joins(h5, h4, p5) /\ Joins(h, h5, p6)
  BY DEF Joins, JoinsAll
<1> HIDE DEF h2, h3, h4, h5
<1>2. /\ IsBytes(h2, 4) /\ h2[3] = p2[1] /\ h2[4] = p2[2]
      /\ h2[1] = p1[1] /\ h2[2] = p1[2]
  BY <1>1, Joined
<1>3. /\ IsBytes(h3, 6) /\ h3[5] = p3[1] /\ h3[6] = p3[2]
      /\ \A i \in 1..4 : h3[i] = h2[i]
  BY <1>1, <1>2, Joined
<1>4. /\ IsBytes(h4, 8) /\ h4[7] = p4[1] /\ h4[8] = p4[2]
      /\ \A i \in 1..6 : h4[i] = h3[i]
  BY <1>1, <1>3, Joined
<1>5. /\ IsBytes(h5, 10) /\ h5[9] = p5[1] /\ h5[10] = p5[2]
      /\ \A i \in 1..8 : h5[i] = h4[i]
  BY <1>1, <1>4, Joined
<1>6. /\ IsBytes(h, 12) /\ h[11] = p6[1] /\ h[12] = p6[2]
      /\ \A i \in 1..10 : h[i] = h5[i]
  BY <1>1, <1>5, Joined
<1> QED
  BY <1>2, <1>3, <1>4, <1>5, <1>6

(* A number below 2^16 is a word.                                           *)
LEMMA NumberIsWord ==
  ASSUME NEW w \in Int, 0 <= w, w <= 65535
  PROVE  w \in Word
<1>1. w <= TopWord
  BY DEF TopWord
<1>2. TopWord \in Int
  BY DEF TopWord
<1>3. w \in 0..TopWord
  BY <1>1, <1>2
<1> QED
  BY <1>3 DEF Word

(* A word is written as its high byte and its low one.                      *)
LEMMA WordPair ==
  ASSUME NEW w \in Word
  PROVE  /\ IsBytes(PutUint16(w), 2)
         /\ PutUint16(w)[1] = w \div 256 /\ PutUint16(w)[2] = w % 256
<1>2. PutUint16(w)[1] = w \div 256 /\ PutUint16(w)[2] = w % 256
  BY DEF PutUint16
<1>3. IsBytes(PutUint16(w), 2)
  BY PortBytes DEF IsBytes
<1> QED
  BY <1>2, <1>3

(* Conversion to uint16 changes no word.                                    *)
LEMMA WordFits ==
  ASSUME NEW w \in Word
  PROVE  w % 65536 = w
<1>1. w \in Int /\ 0 <= w /\ w <= 65535
  BY WordIsNumber
<1> QED
  BY <1>1

(* Two bytes as a sequence.                                                 *)
LEMMA BytePair ==
  ASSUME NEW x \in Byte, NEW y \in Byte
  PROVE  IsBytes(<<x, y>>, 2) /\ <<x, y>>[1] = x /\ <<x, y>>[2] = y
BY DEF IsBytes

(* A copy into as many bytes is the same bytes.                             *)
LEMMA FitWhole ==
  ASSUME NEW s, NEW n \in Nat, IsBytes(s, n)
  PROVE  Fit(s, n) = s
<1>1. s \in [1..n -> Byte] /\ Len(s) = n
  BY LenProperties DEF IsBytes
<1>2. \A i \in 1..n : i <= Len(s)
  BY <1>1
<1> QED
  BY <1>1, <1>2 DEF Fit

(***************************************************************************)
(* Packets.                                                                *)
(***************************************************************************)
(* A packet as ParseIPPacket makes them and Serialize takes them.           *)
Wellformed(p) ==
    /\ p \in Packets /\ p.TotalLen # 0
    /\ Len(p.SrcIP) = 4 /\ Len(p.DstIP) = 4
    /\ p.HeaderLen = 20 + Len(p.Options) /\ p.HeaderLen % 4 = 0
    /\ p.HeaderLen + Len(p.Payload) <= TopWord

(* Its length is what Serialize writes: it was set after the last change.   *)
HasWholeLength(p) == p.TotalLen = SentLen(p)

(* The widths of a header's narrow fields, and its lengths in bytes.        *)
ThreeBits == 0..7
ThirteenBits == 0..8191
HeaderLens == {n \in 20..60 : n % 4 = 0}

(* What the other lemmas use of a packet, field by field.                   *)
LEMMA PacketFields ==
  ASSUME NEW p, Wellformed(p)
  PROVE  /\ p.Version = 4 /\ p.HeaderLen \in HeaderLens
         /\ p.HeaderLen - 20 \in Nat /\ p.HeaderLen = 20 + (p.HeaderLen - 20)
         /\ p.TOS \in Byte /\ p.TotalLen \in Word /\ p.TotalLen # 0
         /\ p.ID \in Word /\ p.Flags \in ThreeBits /\ p.FragOffset \in ThirteenBits /\ p.TTL \in Byte
         /\ p.Protocol \in Byte /\ p.Checksum \in Word
         /\ IsBytes(p.SrcIP, 4) /\ IsBytes(p.DstIP, 4)
         /\ IsBytes(p.Options, p.HeaderLen - 20)
         /\ p.Payload \in Seq(Byte) /\ Len(p.Payload) \in Nat
         /\ p.HeaderLen + Len(p.Payload) <= TopWord
         /\ p = [Version |-> p.Version, HeaderLen |-> p.HeaderLen, TOS |-> p.TOS,
                 TotalLen |-> p.TotalLen, ID |-> p.ID, Flags |-> p.Flags,
                 FragOffset |-> p.FragOffset, TTL |-> p.TTL, Protocol |-> p.Protocol,
                 Checksum |-> p.Checksum, SrcIP |-> p.SrcIP, DstIP |-> p.DstIP,
                 Options |-> p.Options, Payload |-> p.Payload]
<1>1. p \in Packets
  BY DEF Wellformed
<1> DEFINE Four == {4}
           Lens == 20..60
<1>b. p \in [Version : Four, HeaderLen : Lens, TOS : Byte, TotalLen : Word, ID : Word,
             Flags : ThreeBits, FragOffset : ThirteenBits, TTL : Byte, Protocol : Byte,
             Checksum : Word, SrcIP : Seq(Byte), DstIP : Seq(Byte), Options : Seq(Byte),
             Payload : Seq(Byte)]
  BY <1>1 DEF Packets, ThreeBits, ThirteenBits
<1> HIDE DEF Four, Lens
<1>c. /\ p.Version \in Four /\ p.HeaderLen \in Lens
      /\ p.TOS \in Byte /\ p.TotalLen \in Word
      /\ p.ID \in Word /\ p.Flags \in ThreeBits /\ p.FragOffset \in ThirteenBits /\ p.TTL \in Byte
      /\ p.Protocol \in Byte /\ p.Checksum \in Word
      /\ p.SrcIP \in Seq(Byte) /\ p.DstIP \in Seq(Byte) /\ p.Options \in Seq(Byte)
      /\ p.Payload \in Seq(Byte)
  BY <1>b
<1>d. p.Version = 4 /\ p.HeaderLen \in 20..60
  BY <1>c DEF Four, Lens
<1>2. /\ p.Version = 4 /\ p.HeaderLen \in 20..60
      /\ p.TOS \in Byte /\ p.TotalLen \in Word
      /\ p.ID \in Word /\ p.Flags \in ThreeBits /\ p.FragOffset \in ThirteenBits /\ p.TTL \in Byte
      /\ p.Protocol \in Byte /\ p.Checksum \in Word
      /\ p.SrcIP \in Seq(Byte) /\ p.DstIP \in Seq(Byte) /\ p.Options \in Seq(Byte)
      /\ p.Payload \in Seq(Byte)
  BY <1>c, <1>d
<1>3. p = [Version |-> p.Version, HeaderLen |-> p.HeaderLen, TOS |-> p.TOS,
           TotalLen |-> p.TotalLen, ID |-> p.ID, Flags |-> p.Flags,
           FragOffset |-> p.FragOffset, TTL |-> p.TTL, Protocol |-> p.Protocol,
           Checksum |-> p.Checksum, SrcIP |-> p.SrcIP, DstIP |-> p.DstIP,
           Options |-> p.Options, Payload |-> p.Payload]
  BY <1>b
<1>4. IsBytes(p.SrcIP, 4) /\ IsBytes(p.DstIP, 4)
  BY <1>2 DEF Wellformed, IsBytes
<1>5. Len(p.Payload) \in Nat /\ Len(p.Options) \in Nat
  BY <1>2, LenProperties
<1>6. Len(p.Options) = p.HeaderLen - 20
  BY <1>2, <1>5 DEF Wellformed
<1>7. IsBytes(p.Options, p.HeaderLen - 20)
  BY <1>2, <1>6 DEF IsBytes
<1>8. p.HeaderLen \in HeaderLens /\ p.HeaderLen + Len(p.Payload) <= TopWord
  BY <1>2 DEF Wellformed, HeaderLens
<1>a. p.HeaderLen \in 20..60
  BY <1>2
<1>9. p.HeaderLen - 20 \in Nat /\ p.HeaderLen = 20 + (p.HeaderLen - 20)
  BY <1>a
<1>e. p.TotalLen # 0
  BY DEF Wellformed
<1> QED
  BY <1>2, <1>3, <1>4, <1>5, <1>7, <1>8, <1>9, <1>e

(* The word of flags and fragment offset, and what it is made of.           *)
JoinFlags(f, o) == ((8192 * f) % 65536) + (o % 8192)
SplitsInto(w, f, o) == w \div 8192 = f /\ w % 8192 = o

(* Three bits of flags and thirteen of offset make one word, and come out   *)
(* of it again.                                                             *)
LEMMA FlagsSplit ==
  ASSUME NEW f \in ThreeBits, NEW o \in ThirteenBits
  PROVE  JoinFlags(f, o) \in Word /\ SplitsInto(JoinFlags(f, o), f, o)
<1>1. (8192 * f) + o \in Int /\ 0 <= (8192 * f) + o /\ (8192 * f) + o <= 65535
  BY DEF ThreeBits, ThirteenBits
<1>2. (8192 * f) + o \in Word
  BY <1>1, NumberIsWord
<1>3. (8192 * f) % 65536 = 8192 * f /\ o % 8192 = o
  BY DEF ThreeBits, ThirteenBits
<1>4. ((8192 * f) + o) \div 8192 = f /\ ((8192 * f) + o) % 8192 = o
  BY DEF ThreeBits, ThirteenBits
<1>5. JoinFlags(f, o) = (8192 * f) + o
  BY <1>3 DEF JoinFlags
<1>6. SplitsInto((8192 * f) + o, f, o)
  BY <1>4 DEF SplitsInto
<1> DEFINE w == (8192 * f) + o
<1>7. w \in Word /\ JoinFlags(f, o) = w /\ SplitsInto(w, f, o)
  BY <1>2, <1>5, <1>6
<1> HIDE DEF w
<1> QED
  BY <1>7

(* The word of a packet's flags and offset.                                 *)
FlagsWord(p) == JoinFlags(p.Flags, p.FragOffset)

(* The same of the flags and offset of a packet.                            *)
LEMMA FlagsWordFits ==
  ASSUME NEW p, Wellformed(p)
  PROVE  FlagsWord(p) \in Word /\ SplitsInto(FlagsWord(p), p.Flags, p.FragOffset)
<1>1. p.Flags \in ThreeBits /\ p.FragOffset \in ThirteenBits
  BY PacketFields
<1> QED
  BY <1>1, FlagsSplit DEF FlagsWord

(* The byte of version and header length, and what ParseIPPacket reads from *)
(* it.                                                                      *)
LEMMA FirstByte ==
  ASSUME NEW n \in HeaderLens
  PROVE  /\ 64 + (n \div 4) \in Byte /\ ((16 * 4) % 256) + (n \div 4) = 64 + (n \div 4)
         /\ (64 + (n \div 4)) \div 16 = 4
         /\ 4 * ((64 + (n \div 4)) % 16) = n
<1>1. n \div 4 \in 5..15 /\ 4 * (n \div 4) = n
  <2>1. n \in Int /\ 20 <= n /\ n <= 60 /\ n % 4 = 0
    BY DEF HeaderLens
  <2>2. n = (4 * (n \div 4)) + (n % 4) /\ n \div 4 \in Int
    BY <2>1
  <2>3. n = 4 * (n \div 4)
    BY <2>1, <2>2
  <2> QED
    BY <2>1, <2>2, <2>3
<1> DEFINE k == n \div 4
<1>2. k \in 5..15 /\ 4 * k = n
  BY <1>1
<1> HIDE DEF k
<1>3. 64 + k \in Byte /\ (64 + k) \div 16 = 4 /\ (64 + k) % 16 = k
  BY <1>2 DEF Byte
<1>4. (16 * 4) % 256 = 64
  OBVIOUS
<1> QED
  BY <1>2, <1>3, <1>4 DEF k

(* The version, shifted by four bits.                                       *)
LEMMA VersionByte ==
  ASSUME NEW v, v = 4, NEW k \in Int
  PROVE  ((16 * v) % 256) + k = 64 + k
<1>1. (16 * 4) % 256 = 64
  OBVIOUS
<1> QED
  BY <1>1

(***************************************************************************)
(* A packet as bytes.                                                      *)
(***************************************************************************)

(* What is where in a header.                                               *)
HeaderIs(h, p, t, c) ==
    /\ IsBytes(h, p.HeaderLen)
    /\ h[1] = 64 + (p.HeaderLen \div 4) /\ h[2] = p.TOS
    /\ h[3] = t \div 256 /\ h[4] = t % 256
    /\ h[5] = p.ID \div 256 /\ h[6] = p.ID % 256
    /\ h[7] = FlagsWord(p) \div 256 /\ h[8] = FlagsWord(p) % 256
    /\ h[9] = p.TTL /\ h[10] = p.Protocol
    /\ h[11] = c \div 256 /\ h[12] = c % 256
    /\ \A i \in 1..4 : h[12 + i] = p.SrcIP[i] /\ h[16 + i] = p.DstIP[i]
    /\ \A i \in 1..(p.HeaderLen - 20) : h[20 + i] = p.Options[i]

(* A header without the conversions that change nothing.                    *)
PlainHeader(p, t, c) ==
    <<64 + (p.HeaderLen \div 4), p.TOS>> \o PutUint16(t) \o PutUint16(p.ID)
        \o PutUint16(FlagsWord(p)) \o <<p.TTL, p.Protocol>> \o PutUint16(c)
        \o p.SrcIP \o p.DstIP \o p.Options

(* The conversions in Serialize change nothing of a packet.                 *)
LEMMA HeaderPlain ==
  ASSUME NEW p, Wellformed(p), NEW t \in Word, NEW c
  PROVE  Header(p, t, c) = PlainHeader(p, t, c)
<1> DEFINE n == p.HeaderLen
           f == ((8192 * p.Flags) % 65536) + (p.FragOffset % 8192)
           v == ((16 * p.Version) % 256) + (n \div 4)
           s == t % 65536
<1>1. p.Version = 4 /\ n \in HeaderLens /\ n - 20 \in Nat
  BY PacketFields
<1>2. IsBytes(p.SrcIP, 4) /\ IsBytes(p.DstIP, 4) /\ IsBytes(p.Options, n - 20)
  BY PacketFields
<1>3. Fit(To4(p.SrcIP), 4) = p.SrcIP /\ Fit(To4(p.DstIP), 4) = p.DstIP
  <2>1. To4(p.SrcIP) = p.SrcIP /\ To4(p.DstIP) = p.DstIP
    BY <1>2 DEF To4, IsBytes
  <2> QED
    BY <1>2, <2>1, FitWhole
<1>4. Fit(p.Options, n - 20) = p.Options
  BY <1>1, <1>2, FitWhole
<1>5. s = t
  BY WordFits
<1>6. v = 64 + (n \div 4)
  <2> DEFINE k == n \div 4
             four == p.Version
  <2>1. k \in Int
    BY <1>1 DEF HeaderLens
  <2>2. four = 4
    BY <1>1
  <2> HIDE DEF k, four
  <2>3. ((16 * four) % 256) + k = 64 + k
    BY <2>1, <2>2, VersionByte
  <2> QED
    BY <2>3 DEF k, four
<1>7. f = FlagsWord(p)
  BY DEF FlagsWord, JoinFlags
<1>8. Header(p, t, c) = <<v, p.TOS>> \o PutUint16(s) \o PutUint16(p.ID) \o PutUint16(f)
                          \o <<p.TTL, p.Protocol>> \o PutUint16(c)
                          \o Fit(To4(p.SrcIP), 4) \o Fit(To4(p.DstIP), 4) \o Fit(p.Options, n - 20)
  BY DEF Header
<1> HIDE DEF v, f, s
<1>9. Header(p, t, c) = <<64 + (n \div 4), p.TOS>> \o PutUint16(t) \o PutUint16(p.ID)
                          \o PutUint16(FlagsWord(p)) \o <<p.TTL, p.Protocol>> \o PutUint16(c)
                          \o p.SrcIP \o p.DstIP \o p.Options
  BY <1>3, <1>4, <1>5, <1>6, <1>7, <1>8, Zenon
<1> QED
  BY <1>9 DEF PlainHeader

(* What Serialize puts where.                                               *)
LEMMA HeaderBytes ==
  ASSUME NEW p, Wellformed(p), NEW t \in Word, NEW c \in Word
  PROVE  HeaderIs(Header(p, t, c), p, t, c)
<1> DEFINE n == p.HeaderLen
           o == n - 20
           v == 64 + (n \div 4)
           w == FlagsWord(p)
           p1 == <<v, p.TOS>>
           p2 == PutUint16(t)
           p3 == PutUint16(p.ID)
           p4 == PutUint16(w)
           p5 == <<p.TTL, p.Protocol>>
           p6 == PutUint16(c)
           h12 == p1 \o p2 \o p3 \o p4 \o p5 \o p6
           h16 == h12 \o p.SrcIP
           h20 == h16 \o p.DstIP
           h == h20 \o p.Options
<1>1. n \in HeaderLens /\ o \in Nat /\ n = 20 + o
  BY PacketFields
<1>a. p.TOS \in Byte /\ p.TTL \in Byte /\ p.Protocol \in Byte /\ p.ID \in Word
  BY PacketFields
<1>b. IsBytes(p.SrcIP, 4) /\ IsBytes(p.DstIP, 4) /\ IsBytes(p.Options, o)
  BY PacketFields
<1>2. v \in Byte
  BY <1>1, FirstByte
<1>3. w \in Word
  BY FlagsWordFits
<1>c. Header(p, t, c) = PlainHeader(p, t, c)
  BY HeaderPlain
<1>4. Header(p, t, c) = h
  BY <1>c DEF PlainHeader
<1>5. IsBytes(p1, 2) /\ p1[1] = v /\ p1[2] = p.TOS
  BY <1>a, <1>2, BytePair
<1>6. IsBytes(p5, 2) /\ p5[1] = p.TTL /\ p5[2] = p.Protocol
  BY <1>a, BytePair
<1>7. /\ IsBytes(p2, 2) /\ p2[1] = t \div 256 /\ p2[2] = t % 256
      /\ IsBytes(p3, 2) /\ p3[1] = p.ID \div 256 /\ p3[2] = p.ID % 256
      /\ IsBytes(p4, 2) /\ p4[1] = w \div 256 /\ p4[2] = w % 256
      /\ IsBytes(p6, 2) /\ p6[1] = c \div 256 /\ p6[2] = c % 256
  <2>1. IsBytes(p2, 2) /\ p2[1] = t \div 256 /\ p2[2] = t % 256
    BY WordPair, Zenon
  <2>2. IsBytes(p3, 2) /\ p3[1] = p.ID \div 256 /\ p3[2] = p.ID % 256
    BY <1>a, WordPair, Zenon
  <2>3. IsBytes(p4, 2) /\ p4[1] = w \div 256 /\ p4[2] = w % 256
    BY <1>3, WordPair, Zenon
  <2>4. IsBytes(p6, 2) /\ p6[1] = c \div 256 /\ p6[2] = c % 256
    BY WordPair, Zenon
  <2> QED
    BY <2>1, <2>2, <2>3, <2>4
<1>8. /\ JoinsAll(h12, p1, p2, p3, p4, p5, p6) /\ Joins(h16, h12, p.SrcIP)
      /\ Joins(h20, h16, p.DstIP) /\ Joins(h, h20, p.Options)
  BY DEF Joins, JoinsAll
<1> HIDE DEF p1, p2, p3, p4, p5, p6, h12, h16, h20, h, w, v
<1>9. /\ IsBytes(h12, 12)
      /\ h12[1] = p1[1] /\ h12[2] = p1[2] /\ h12[3] = p2[1] /\ h12[4] = p2[2]
      /\ h12[5] = p3[1] /\ h12[6] = p3[2] /\ h12[7] = p4[1] /\ h12[8] = p4[2]
      /\ h12[9] = p5[1] /\ h12[10] = p5[2] /\ h12[11] = p6[1] /\ h12[12] = p6[2]
  <2>1. /\ IsBytes(p1, 2) /\ IsBytes(p2, 2) /\ IsBytes(p3, 2)
        /\ IsBytes(p4, 2) /\ IsBytes(p5, 2) /\ IsBytes(p6, 2)
    BY <1>5, <1>6, <1>7
  <2>2. JoinsAll(h12, p1, p2, p3, p4, p5, p6)
    BY <1>8
  <2> QED
    BY <2>2, <2>1, TwelveBytes
<1>10. /\ IsBytes(h16, 16) /\ \A i \in 1..12 : h16[i] = h12[i]
       /\ \A i \in 1..4 : h16[12 + i] = p.SrcIP[i]
  BY <1>b, <1>8, <1>9, Joined
<1>11. /\ IsBytes(h20, 20) /\ \A i \in 1..16 : h20[i] = h16[i]
       /\ \A i \in 1..4 : h20[16 + i] = p.DstIP[i]
  BY <1>b, <1>8, <1>10, Joined
<1>12. /\ IsBytes(h, n) /\ \A i \in 1..20 : h[i] = h20[i]
       /\ \A i \in 1..o : h[20 + i] = p.Options[i]
  BY <1>1, <1>b, <1>8, <1>11, Joined
<1> HIDE DEF n, o
<1>13. \A i \in 1..12 : h[i] = h12[i]
  BY <1>10, <1>11, <1>12
<1>14. \A i \in 1..4 : h[12 + i] = p.SrcIP[i] /\ h[16 + i] = p.DstIP[i]
  BY <1>10, <1>11, <1>12
<1>15. /\ h[1] = v /\ h[2] = p.TOS /\ h[3] = t \div 256 /\ h[4] = t % 256
       /\ h[5] = p.ID \div 256 /\ h[6] = p.ID % 256 /\ h[7] = w \div 256 /\ h[8] = w % 256
       /\ h[9] = p.TTL /\ h[10] = p.Protocol /\ h[11] = c \div 256 /\ h[12] = c % 256
  BY <1>5, <1>6, <1>7, <1>9, <1>13
<1> QED
  BY <1>4, <1>12, <1>14, <1>15 DEF HeaderIs, n, o, v, w

(* The k bytes of s are those of d after the first m.                       *)
LiesAfter(s, k, d, m) == \A i \in 1..k : d[m + i] = s[i]

(* A slice of d is what lies there.                                         *)
LEMMA TakenOut ==
  ASSUME NEW d, NEW s, NEW m \in Nat, NEW k \in Nat, IsBytes(s, k), LiesAfter(s, k, d, m)
  PROVE  SubSeq(d, m + 1, m + k) = s
<1>0. \A i \in 1..k : d[m + i] = s[i]
  BY DEF LiesAfter
<1>1. s \in Seq(Byte) /\ Len(s) = k /\ \A i \in 1..k : s[i] \in Byte
  BY ElementOfSeq DEF IsBytes
<1>2. \A i \in (m + 1)..(m + k) : i - m \in 1..k /\ m + (i - m) = i
  OBVIOUS
<1>3. \A i \in (m + 1)..(m + k) : d[i] \in Byte
  BY <1>0, <1>1, <1>2
<1>4. /\ m + 1 \in Int /\ m + k \in Int /\ (m + k) - (m + 1) + 1 = k
      /\ (IF m + 1 <= m + k THEN (m + k) - (m + 1) + 1 ELSE 0) = k
      /\ \A i \in 1..k : (m + 1) + i - 1 = m + i
  OBVIOUS
<1> DEFINE a == m + 1
           b == m + k
           t == SubSeq(d, a, b)
<1>5. /\ t \in Seq(Byte) /\ Len(t) = (IF a <= b THEN b - a + 1 ELSE 0)
      /\ \A i \in 1..(b - a + 1) : t[i] = d[a + i - 1]
  <2>1. a \in Int /\ b \in Int /\ \A i \in a..b : d[i] \in Byte
    BY <1>3
  <2> HIDE DEF a, b
  <2> QED
    BY <2>1, SubSeqProperties
<1>6. t \in Seq(Byte) /\ Len(t) = k /\ \A i \in 1..k : t[i] = d[m + i]
  <2> HIDE DEF t
  <2> QED
    BY <1>4, <1>5 DEF a, b
<1>7. \A i \in 1..k : t[i] = s[i]
  BY <1>0, <1>6
<1> HIDE DEF t
<1>8. t = s
  BY <1>1, <1>6, <1>7, SeqEqual
<1> QED
  BY <1>8 DEF t

(* A word is read as it was written.                                        *)
LEMMA PairRead ==
  ASSUME NEW w \in Word, NEW d, NEW i \in Nat, d[i] = w \div 256, d[i + 1] = w % 256
  PROVE  Uint16(d, i) = w
BY WordBytes DEF Uint16

PacketOf(version, headerLen, tos, totalLen, id, flags, offset, ttl, protocol, checksum,
         src, dst, options, payload) ==
    [Version |-> version, HeaderLen |-> headerLen, TOS |-> tos, TotalLen |-> totalLen, ID |-> id,
     Flags |-> flags, FragOffset |-> offset, TTL |-> ttl, Protocol |-> protocol,
     Checksum |-> checksum, SrcIP |-> src, DstIP |-> dst, Options |-> options, Payload |-> payload]

(***************************************************************************)
(* Whatever has the bytes of a packet at its front is parsed as the packet.*)
(***************************************************************************)
LEMMA ParsedBack ==
  ASSUME NEW p, NEW h, NEW d, NEW l \in Nat,
         Wellformed(p), HeaderIs(h, p, p.TotalLen, p.Checksum), IsBytes(d, l),
         (IF p.TotalLen <= l THEN p.TotalLen ELSE l) = p.HeaderLen + Len(p.Payload),
         \A i \in 1..p.HeaderLen : d[i] = h[i],
         \A i \in 1..Len(p.Payload) : d[p.HeaderLen + i] = p.Payload[i]
  PROVE  ParseIPPacket(d) = p
<1> DEFINE n == p.HeaderLen
           o == n - 20
           k == Len(p.Payload)
           t == p.TotalLen
           c == p.Checksum
           w == FlagsWord(p)
           first == 64 + (n \div 4)
           hl == 4 * (d[1] % 16)
           tl == Uint16(d, 3)
           fo == Uint16(d, 7)
<1>1. n \in HeaderLens /\ o \in Nat /\ n = 20 + o /\ k \in Nat
  BY PacketFields
<1>2. t \in Word /\ c \in Word /\ p.ID \in Word /\ w \in Word
  BY PacketFields, FlagsWordFits
<1>3. IsBytes(p.SrcIP, 4) /\ IsBytes(p.DstIP, 4) /\ IsBytes(p.Options, o) /\ IsBytes(p.Payload, k)
  BY PacketFields DEF IsBytes
<1>4. /\ (IF t <= Len(d) THEN t ELSE Len(d)) = n + k /\ n <= l /\ 20 <= l /\ Len(d) = l
      /\ ~(t <= Len(d) /\ t < n)
  <2>1. (IF t <= l THEN t ELSE l) = n + k
    OBVIOUS
  <2>2. Len(d) = l
    BY DEF IsBytes
  <2>3. t \in Nat
    BY <1>2, WordIsNumber
  <2> HIDE DEF n, o, k, t
  <2>4. n \in Nat
    BY <1>1
  <2> QED
    BY <1>1, <2>1, <2>2, <2>3, <2>4
<1>5. first \div 16 = 4 /\ 4 * (first % 16) = n
  BY <1>1, FirstByte
<1>6. SplitsInto(w, p.Flags, p.FragOffset)
  BY FlagsWordFits
<1> HIDE DEF first, w, c
<1>7. /\ h[1] = first /\ h[2] = p.TOS
      /\ h[3] = t \div 256 /\ h[4] = t % 256
      /\ h[5] = p.ID \div 256 /\ h[6] = p.ID % 256
      /\ h[7] = w \div 256 /\ h[8] = w % 256
      /\ h[9] = p.TTL /\ h[10] = p.Protocol
      /\ h[11] = c \div 256 /\ h[12] = c % 256
  BY DEF HeaderIs, first, w, c
<1>8. /\ \A i \in 1..4 : h[12 + i] = p.SrcIP[i] /\ h[16 + i] = p.DstIP[i]
      /\ \A i \in 1..o : h[20 + i] = p.Options[i]
  BY DEF HeaderIs
<1>9. \A i \in 1..20 : d[i] = h[i]
  BY <1>1
<1>10. \A i \in 1..o : d[20 + i] = h[20 + i]
  <2>1. \A i \in 1..o : 20 + i \in 1..n
    BY <1>1
  <2> QED
    BY <2>1
<1> HIDE DEF n, o, k, t, hl, tl, fo
<1>11. /\ d[1] = first /\ d[2] = p.TOS /\ d[9] = p.TTL /\ d[10] = p.Protocol
       /\ d[3] = t \div 256 /\ d[4] = t % 256
       /\ d[5] = p.ID \div 256 /\ d[6] = p.ID % 256
       /\ d[7] = w \div 256 /\ d[8] = w % 256
       /\ d[11] = c \div 256 /\ d[12] = c % 256
  BY <1>7, <1>9
<1>12. tl = t /\ Uint16(d, 5) = p.ID /\ fo = w /\ Uint16(d, 11) = c
  <2>1. tl = t
    BY <1>2, <1>11, PairRead DEF tl
  <2>2. Uint16(d, 5) = p.ID
    BY <1>2, <1>11, PairRead
  <2>3. fo = w
    BY <1>2, <1>11, PairRead DEF fo
  <2>4. Uint16(d, 11) = c
    BY <1>2, <1>11, PairRead
  <2> QED
    BY <2>1, <2>2, <2>3, <2>4
<1>13. SubSeq(d, 13, 16) = p.SrcIP
  <2> DEFINE m == 12
             j == 4
             s == p.SrcIP
  <2>1. LiesAfter(s, j, d, m)
    BY <1>8, <1>9 DEF LiesAfter
  <2>2. m \in Nat /\ j \in Nat /\ m + 1 = 13 /\ m + j = 16
    OBVIOUS
  <2>3. IsBytes(s, j)
    BY <1>3
  <2> HIDE DEF m, j, s
  <2>4. SubSeq(d, m + 1, m + j) = s
    BY <2>1, <2>2, <2>3, TakenOut
  <2> QED
    BY <2>2, <2>4 DEF s
<1>14. SubSeq(d, 17, 20) = p.DstIP
  <2> DEFINE m == 16
             j == 4
             s == p.DstIP
  <2>1. LiesAfter(s, j, d, m)
    BY <1>8, <1>9 DEF LiesAfter
  <2>2. m \in Nat /\ j \in Nat /\ m + 1 = 17 /\ m + j = 20
    OBVIOUS
  <2>3. IsBytes(s, j)
    BY <1>3
  <2> HIDE DEF m, j, s
  <2>4. SubSeq(d, m + 1, m + j) = s
    BY <2>1, <2>2, <2>3, TakenOut
  <2> QED
    BY <2>2, <2>4 DEF s
<1>15. SubSeq(d, 21, n) = p.Options
  <2> DEFINE m == 20
             s == p.Options
  <2>1. LiesAfter(s, o, d, m)
    BY <1>8, <1>10 DEF LiesAfter
  <2>2. m \in Nat /\ m + 1 = 21 /\ m + o = n /\ o \in Nat
    BY <1>1
  <2>3. IsBytes(s, o)
    BY <1>3
  <2> HIDE DEF m, s
  <2>4. SubSeq(d, m + 1, m + o) = s
    BY <2>1, <2>2, <2>3, TakenOut
  <2> QED
    BY <2>2, <2>4 DEF s
<1>16. SubSeq(d, n + 1, IF t <= Len(d) THEN t ELSE Len(d)) = p.Payload
  <2> DEFINE s == p.Payload
  <2>1. LiesAfter(s, k, d, n)
    BY DEF n, k, LiesAfter
  <2>2. n \in Nat
    BY <1>1 DEF HeaderLens
  <2>3. IsBytes(s, k) /\ k \in Nat
    BY <1>1, <1>3
  <2> HIDE DEF s
  <2>4. SubSeq(d, n + 1, n + k) = s
    BY <2>1, <2>2, <2>3, TakenOut
  <2>5. (IF t <= Len(d) THEN t ELSE Len(d)) = n + k
    BY <1>4
  <2> QED
    BY <2>4, <2>5, Zenon DEF s
<1>17. hl = n /\ d[1] \div 16 = 4
  BY <1>5, <1>11 DEF hl
<1>18. fo \div 8192 = p.Flags /\ fo % 8192 = p.FragOffset
  BY <1>6, <1>12 DEF SplitsInto
<1> DEFINE f == fo \div 8192
           g == fo % 8192
           v == d[1] \div 16
           b == SubSeq(d, hl + 1, IF tl <= Len(d) THEN tl ELSE Len(d))
           Short == Len(d) < 20 \/ v # 4 \/ Len(d) < hl
           Within == tl <= Len(d) /\ tl < hl
<1>19. ParseIPPacket(d) =
         IF Short THEN Error
         ELSE IF Within THEN Panic
         ELSE PacketOf(v, hl, d[2], tl, Uint16(d, 5), f, g, d[9], d[10], Uint16(d, 11),
                       SubSeq(d, 13, 16), SubSeq(d, 17, 20), SubSeq(d, 21, hl), b)
  BY DEF ParseIPPacket, PacketOf, hl, tl, fo
<1>20. ~Short /\ ~Within
  <2>1. n \in Int
    BY <1>1 DEF HeaderLens
  <2>2. ~Within
    BY <1>4, <1>12, <1>17
  <2> QED
    BY <1>4, <1>17, <2>1, <2>2
<1>21. f = p.Flags /\ g = p.FragOffset /\ v = 4
  BY <1>17, <1>18
<1>22. b = p.Payload
  BY <1>12, <1>16, <1>17, Zenon
<1> HIDE DEF f, g, v, b, Short, Within
<1>23. ParseIPPacket(d) =
         PacketOf(v, hl, d[2], tl, Uint16(d, 5), f, g, d[9], d[10], Uint16(d, 11),
                  SubSeq(d, 13, 16), SubSeq(d, 17, 20), SubSeq(d, 21, hl), b)
  BY <1>19, <1>20, Zenon
<1>24. p = PacketOf(p.Version, n, p.TOS, t, p.ID, p.Flags, p.FragOffset, p.TTL, p.Protocol, c,
                    p.SrcIP, p.DstIP, p.Options, p.Payload)
  BY PacketFields, Zenon DEF PacketOf, n, t, c
<1>25. p.Version = 4
  BY PacketFields
<1>26. hl = n /\ tl = t /\ Uint16(d, 5) = p.ID /\ Uint16(d, 11) = c
  BY <1>12, <1>17
<1>27. d[2] = p.TOS /\ d[9] = p.TTL /\ d[10] = p.Protocol
  BY <1>11
<1>28. SubSeq(d, 21, hl) = p.Options
  BY <1>15, <1>17, Zenon
<1> QED
  BY <1>13, <1>14, <1>21, <1>22, <1>23, <1>24, <1>25, <1>26, <1>27, <1>28, Zenon

(* What a serialised packet looks like.                                     *)
LEMMA SentBytes ==
  ASSUME NEW p, Wellformed(p)
  PROVE  LET h == Header(p, SentLen(p), p.Checksum)
             s == Serialize(p)
         IN  /\ SentLen(p) \in Word /\ SentLen(p) \in Nat /\ SentLen(p) # 0
             /\ p.HeaderLen \in Nat /\ Len(p.Payload) \in Nat
             /\ SentLen(p) = p.HeaderLen + Len(p.Payload)
             /\ IsBytes(h, p.HeaderLen) /\ IsBytes(s, SentLen(p))
             /\ \A i \in 1..p.HeaderLen : s[i] = h[i]
             /\ \A i \in 1..Len(p.Payload) : s[p.HeaderLen + i] = p.Payload[i]
<1> DEFINE n == p.HeaderLen
           k == Len(p.Payload)
           w == SentLen(p)
           h == Header(p, w, p.Checksum)
           s == Serialize(p)
<1>1. n \in HeaderLens /\ k \in Nat /\ n + k <= TopWord /\ p.Checksum \in Word
      /\ IsBytes(p.Payload, k)
  BY PacketFields DEF IsBytes
<1>2. n \in Nat /\ 20 <= n
  <2> HIDE DEF n
  <2> QED
    BY <1>1 DEF HeaderLens
<1>3. w = n + k
  BY DEF SentLen
<1>4. Joins(s, h, p.Payload)
  BY DEF Joins, Serialize, SentLen
<1> HIDE DEF n, k, w, s
<1>5. w \in Word /\ w \in Nat /\ w # 0
  BY <1>1, <1>2, <1>3 DEF Word
<1>6. IsBytes(h, n)
  <2>1. HeaderIs(h, p, w, p.Checksum)
    BY <1>1, <1>5, HeaderBytes
  <2> QED
    BY <2>1 DEF HeaderIs, n
<1> HIDE DEF h
<1>7. /\ IsBytes(s, n + k) /\ \A i \in 1..n : s[i] = h[i]
      /\ \A i \in 1..k : s[n + i] = p.Payload[i]
  BY <1>1, <1>2, <1>4, <1>6, Joined
<1> QED
  BY <1>1, <1>2, <1>3, <1>5, <1>6, <1>7 DEF n, k, w, h, s

(* The same with padding after it.                                          *)
LEMMA PaddedBytes ==
  ASSUME NEW p, NEW pad \in Nat, Wellformed(p)
  PROVE  LET h == Header(p, SentLen(p), p.Checksum)
             l == SentLen(p) + pad
             d == Serialize(p) \o Zeros(pad)
         IN  /\ l \in Nat /\ IsBytes(d, l)
             /\ \A i \in 1..p.HeaderLen : d[i] = h[i]
             /\ \A i \in 1..Len(p.Payload) : d[p.HeaderLen + i] = p.Payload[i]
<1> DEFINE n == p.HeaderLen
           k == Len(p.Payload)
           w == SentLen(p)
           h == Header(p, w, p.Checksum)
           s == Serialize(p)
           z == Zeros(pad)
           d == s \o z
<1>1. /\ w \in Nat /\ n \in Nat /\ k \in Nat /\ w = n + k /\ IsBytes(s, w)
      /\ \A i \in 1..n : s[i] = h[i]
      /\ \A i \in 1..k : s[n + i] = p.Payload[i]
  BY SentBytes
<1>2. IsBytes(z, pad)
  <2>1. z \in [1..pad -> Byte]
    BY DEF Zeros, Byte
  <2> QED
    BY <2>1 DEF IsBytes
<1>3. Joins(d, s, z)
  BY DEF Joins
<1> HIDE DEF n, k, w, h, s, z, d
<1>4. IsBytes(d, w + pad) /\ \A i \in 1..w : d[i] = s[i]
  BY <1>1, <1>2, <1>3, Joined
<1>5. \A i \in 1..n : i \in 1..w
  BY <1>1
<1>6. \A i \in 1..k : n + i \in 1..w
  BY <1>1
<1>7. \A i \in 1..n : d[i] = h[i]
  BY <1>1, <1>4, <1>5
<1>8. \A i \in 1..k : d[n + i] = p.Payload[i]
  BY <1>1, <1>4, <1>6
<1>9. w + pad \in Nat
  BY <1>1
<1> QED
  BY <1>4, <1>7, <1>8, <1>9 DEF n, k, w, h, d, s, z

(***************************************************************************)
(* Whatever the fields, the options, the payload and the padding:          *)
(* ParseIPPacket reads from what Serialize wrote of a packet whose length  *)
(* is set the packet itself.                                               *)
(***************************************************************************)
THEOREM RoundTrip ==
  ASSUME NEW p, NEW pad \in Nat, Wellformed(p), HasWholeLength(p)
  PROVE  ParseIPPacket(Serialize(p) \o Zeros(pad)) = p
<1> DEFINE n == p.HeaderLen
           k == Len(p.Payload)
           t == p.TotalLen
           c == p.Checksum
           h == Header(p, SentLen(p), c)
           l == SentLen(p) + pad
           d == Serialize(p) \o Zeros(pad)
<1>1. /\ l \in Nat /\ IsBytes(d, l)
      /\ \A i \in 1..n : d[i] = h[i]
      /\ \A i \in 1..k : d[n + i] = p.Payload[i]
  BY PaddedBytes
<1>2. t = SentLen(p) /\ t = n + k /\ t \in Word /\ c \in Word
  BY PacketFields DEF HasWholeLength, SentLen
<1>3. HeaderIs(Header(p, t, c), p, t, c)
  BY <1>2, HeaderBytes
<1>4. HeaderIs(h, p, t, c)
  BY <1>2, <1>3
<1>5. (IF t <= l THEN t ELSE l) = n + k
  <2>1. t \in Nat /\ l = t + pad
    BY <1>2, SentBytes
  <2> HIDE DEF n, k, t, l
  <2> QED
    BY <1>2, <2>1
<1> HIDE DEF h, l, d
<1>6. ParseIPPacket(d) = p
  BY <1>1, <1>4, <1>5, ParsedBack
<1> QED
  BY <1>6 DEF d

(* The first bytes of a sequence.                                           *)
LEMMA Front ==
  ASSUME NEW d, NEW k \in Nat, IsBytes(d, k), NEW m \in Nat, m <= k
  PROVE  IsBytes(SubSeq(d, 1, m), m) /\ \A i \in 1..m : SubSeq(d, 1, m)[i] = d[i]
<1>1. \A i \in 1..m : d[i] \in Byte
  <2>1. d \in Seq(Byte) /\ Len(d) = k /\ \A i \in 1..m : i \in 1..k
    BY DEF IsBytes
  <2> QED
    BY <2>1, ElementOfSeq
<1> DEFINE one == 1
           x == SubSeq(d, one, m)
<1>2. one \in Int /\ m \in Int /\ \A i \in one..m : d[i] \in Byte
  BY <1>1
<1>3. /\ (IF one <= m THEN m - one + 1 ELSE 0) = m /\ m - one + 1 = m
      /\ \A i \in 1..m : one + i - 1 = i
  OBVIOUS
<1> HIDE DEF one
<1>4. /\ x \in Seq(Byte) /\ Len(x) = (IF one <= m THEN m - one + 1 ELSE 0)
      /\ \A i \in 1..(m - one + 1) : x[i] = d[one + i - 1]
  BY <1>2, SubSeqProperties
<1> HIDE DEF x
<1>5. IsBytes(x, m) /\ \A i \in 1..m : x[i] = d[i]
  BY <1>3, <1>4 DEF IsBytes
<1> QED
  BY <1>5 DEF x, one

(***************************************************************************)
(* A segment, parsed and serialised.                                       *)
(***************************************************************************)

(* x is what d has after its first m bytes, up to its n-th.                 *)
Cut(d, m, n, x) ==
    /\ d \in Seq(Byte) /\ m \in Nat /\ n \in Nat /\ m <= n /\ n <= Len(d)
    /\ x = SubSeq(d, m + 1, n)

(* Two neighbouring pieces are one piece.                                   *)
LEMMA CutTogether ==
  ASSUME NEW d, NEW m, NEW k, NEW n, NEW x, NEW y, NEW z,
         Cut(d, m, k, x), Cut(d, k, n, y), Joins(z, x, y)
  PROVE  Cut(d, m, n, z)
<1>1. /\ d \in Seq(Byte) /\ m \in Nat /\ k \in Nat /\ n \in Nat /\ m <= k /\ k <= n /\ n <= Len(d)
      /\ x = SubSeq(d, m + 1, k) /\ y = SubSeq(d, k + 1, n)
  BY DEF Cut
<1>2. Len(d) \in Nat
  BY <1>1, LenProperties
<1>3. /\ m + 1 \in 1..(Len(d) + 1) /\ k \in ((m + 1) - 1)..Len(d) /\ n \in k..Len(d)
      /\ m <= n
  BY <1>1, <1>2
<1>4. SubSeq(d, m + 1, k) \o SubSeq(d, k + 1, n) = SubSeq(d, m + 1, n)
  <2> DEFINE a == m + 1
  <2>1. a \in 1..(Len(d) + 1) /\ k \in (a - 1)..Len(d) /\ n \in k..Len(d)
    BY <1>3
  <2> HIDE DEF a
  <2>2. SubSeq(d, a, k) \o SubSeq(d, k + 1, n) = SubSeq(d, a, n)
    BY <1>1, <2>1, ConcatAdjacentSubSeq
  <2> QED
    BY <2>2 DEF a
<1> QED
  BY <1>1, <1>3, <1>4 DEF Cut, Joins

(* Two bytes of d.                                                          *)
LEMMA CutPair ==
  ASSUME NEW d \in Seq(Byte), NEW m \in Nat, m + 2 <= Len(d), NEW a, NEW b,
         d[m + 1] = a, d[m + 2] = b
  PROVE  Cut(d, m, m + 2, <<a, b>>)
<1>1. Len(d) \in Nat /\ m + 1 \in 1..Len(d) /\ m + 2 \in 1..Len(d)
  BY LenProperties
<1>2. a \in Byte /\ b \in Byte
  BY <1>1, ElementOfSeq
<1> DEFINE s == <<a, b>>
<1>3. LiesAfter(s, 2, d, m) /\ IsBytes(s, 2)
  BY <1>2 DEF LiesAfter, IsBytes
<1> HIDE DEF s
<1>4. SubSeq(d, m + 1, m + 2) = s
  <2> DEFINE k == 2
  <2>1. k \in Nat /\ LiesAfter(s, k, d, m) /\ IsBytes(s, k)
    BY <1>3
  <2> HIDE DEF k
  <2>2. SubSeq(d, m + 1, m + k) = s
    BY <2>1, TakenOut
  <2> QED
    BY <2>2 DEF k
<1>5. m + 2 \in Nat /\ m <= m + 2
  OBVIOUS
<1> QED
  BY <1>4, <1>5 DEF Cut, s

(* Two bytes make one word, which is written as the two bytes.              *)
LEMMA WordOfBytes ==
  ASSUME NEW a \in Byte, NEW b \in Byte
  PROVE  /\ (256 * a) + b \in Word /\ PutUint16((256 * a) + b) = <<a, b>>
         /\ ((256 * a) + b) \div 256 = a /\ ((256 * a) + b) % 256 = b
<1>1. a \in Int /\ b \in Int /\ 0 <= a /\ a <= 255 /\ 0 <= b /\ b <= 255
  BY DEF Byte
<1> DEFINE w == (256 * a) + b
<1>2. w \in Int /\ 0 <= w /\ w <= 65535
  BY <1>1
<1>3. w \div 256 = a /\ w % 256 = b
  BY <1>1
<1> HIDE DEF w
<1>4. w \in Word
  BY <1>2, NumberIsWord
<1>5. PutUint16(w) = <<a, b>>
  BY <1>3 DEF PutUint16
<1> QED
  BY <1>3, <1>4, <1>5 DEF w

(* A word that is read and written again is the two bytes it was.           *)
LEMMA CutWord ==
  ASSUME NEW d \in Seq(Byte), NEW m \in Nat, NEW i, i = m + 1, NEW n, n = m + 2, n <= Len(d)
  PROVE  Cut(d, m, n, PutUint16(Uint16(d, i)))
<1>1. Len(d) \in Nat /\ i \in 1..Len(d) /\ i + 1 \in 1..Len(d) /\ m + 2 <= Len(d)
  BY LenProperties
<1>2. d[i] \in Byte /\ d[i + 1] \in Byte
  BY <1>1, ElementOfSeq
<1>3. PutUint16(Uint16(d, i)) = <<d[i], d[i + 1]>>
  BY <1>2, WordOfBytes DEF Uint16
<1> DEFINE a == d[i]
           b == d[i + 1]
<1>4. d[m + 1] = a /\ d[m + 2] = b
  BY <1>1
<1> HIDE DEF a, b
<1>5. Cut(d, m, m + 2, <<a, b>>)
  BY <1>1, <1>4, CutPair
<1> QED
  BY <1>3, <1>5 DEF a, b

(* A piece of d is one of every sequence that agrees with d there.          *)
LEMMA CutAgrees ==
  ASSUME NEW d, NEW e \in Seq(Byte), Len(e) = Len(d), NEW m, NEW n, NEW x, Cut(d, m, n, x),
         \A i \in (m + 1)..n : e[i] = d[i]
  PROVE  Cut(e, m, n, x)
<1>1. /\ d \in Seq(Byte) /\ m \in Nat /\ n \in Nat /\ m <= n /\ n <= Len(d) /\ Len(d) \in Nat
      /\ x = SubSeq(d, m + 1, n)
  BY LenProperties DEF Cut
<1> DEFINE k == n - m
           a == m + 1
<1>2. /\ k \in Nat /\ m + k = n /\ a \in Int /\ (IF a <= n THEN n - a + 1 ELSE 0) = k
      /\ n - a + 1 = k /\ \A i \in 1..k : a + i - 1 = m + i /\ m + i \in (m + 1)..n
  BY <1>1
<1>3. \A i \in a..n : d[i] \in Byte
  <2>1. \A i \in a..n : i \in 1..Len(d)
    BY <1>1
  <2> QED
    BY <1>1, <2>1, ElementOfSeq
<1> HIDE DEF k
<1>4. /\ x \in Seq(Byte) /\ Len(x) = (IF a <= n THEN n - a + 1 ELSE 0)
      /\ \A i \in 1..(n - a + 1) : x[i] = d[a + i - 1]
  <2>1. x = SubSeq(d, a, n)
    BY <1>1
  <2> HIDE DEF a
  <2> QED
    BY <1>1, <1>2, <1>3, <2>1, SubSeqProperties
<1>5. IsBytes(x, k) /\ LiesAfter(x, k, e, m)
  BY <1>2, <1>4 DEF IsBytes, LiesAfter
<1>6. SubSeq(e, m + 1, m + k) = x
  BY <1>1, <1>2, <1>5, TakenOut
<1> QED
  BY <1>1, <1>2, <1>6 DEF Cut

(* e is d without the four bits after the data offset of six words and the  *)
(* two highest flags.                                                       *)
Unmarked(e, d) ==
    /\ e \in Seq(Byte) /\ Len(e) = Len(d) /\ e[13] = 96 /\ e[14] = d[14] % 64
    /\ \A i \in 1..Len(d) : i # 13 /\ i # 14 => e[i] = d[i]

(* What a segment with six words of header says survives parsing but for    *)
(* these bits.                                                              *)
LEMMA SegmentRoundTrip ==
  ASSUME NEW d \in Seq(Byte), 24 <= Len(d), d[13] \div 16 = 6, NEW e, Unmarked(e, d)
  PROVE  SerializeTCP(ParseTCPPacket(d)) = e
<1> DEFINE l == Len(d)
           t == ParseTCPPacket(d)
           flags == d[14] % 64
           w1 == PutUint16(Uint16(d, 1))
           w2 == PutUint16(Uint16(d, 3))
           q1 == SubSeq(d, 5, 8)
           q2 == SubSeq(d, 9, 12)
           w3 == <<96, flags>>
           w4 == PutUint16(Uint16(d, 15))
           w5 == PutUint16(Uint16(d, 17))
           w6 == PutUint16(Uint16(d, 19))
           q3 == SubSeq(d, 21, 24)
           q4 == SubSeq(d, 25, l)
<1>0. l \in Nat /\ 24 <= l
  BY LenProperties
<1>1. t = [SrcPort |-> Uint16(d, 1), DstPort |-> Uint16(d, 3), SeqNum |-> q1, AckNum |-> q2,
           DataOffset |-> 24, Flags |-> flags, Window |-> Uint16(d, 15),
           Checksum |-> Uint16(d, 17),
           Urgent |-> Uint16(d, 19), Options |-> q3, Payload |-> q4]
  <2> DEFINE offset == 4 * (d[13] \div 16)
  <2>1. offset = 24
    OBVIOUS
  <2>2. t = IF l < 20 \/ (offset > 20 /\ l < offset) THEN Error
            ELSE [SrcPort |-> Uint16(d, 1), DstPort |-> Uint16(d, 3), SeqNum |-> q1, AckNum |-> q2,
           DataOffset |-> offset, Flags |-> flags, Window |-> Uint16(d, 15),
           Checksum |-> Uint16(d, 17),
           Urgent |-> Uint16(d, 19), Options |-> SubSeq(d, 21, offset),
           Payload |-> SubSeq(d, offset + 1, l)]
    BY DEF ParseTCPPacket, Drop
  <2>3. ~(l < 20 \/ (offset > 20 /\ l < offset)) /\ offset + 1 = 25
    BY <1>0, <2>1
  <2> HIDE DEF offset, flags, t, l
  <2> QED
    BY <2>1, <2>2, <2>3
(* the pieces of d that are pieces of e *)
<1>e. e \in Seq(Byte) /\ Len(e) = l /\ e[13] = 96 /\ e[14] = flags
  BY DEF Unmarked
<1>f. ASSUME NEW m \in Nat, NEW n \in Nat, n <= l, n <= 12 \/ 14 <= m, NEW x, Cut(d, m, n, x)
      PROVE  Cut(e, m, n, x)
  <2>1. \A i \in (m + 1)..n : i \in 1..l /\ i # 13 /\ i # 14
    BY <1>0, <1>f
  <2>2. \A i \in (m + 1)..n : e[i] = d[i]
    BY <2>1 DEF Unmarked
  <2> QED
    BY <1>e, <1>f, <2>2, CutAgrees
<1>2. Cut(e, 0, 2, w1) /\ Cut(e, 2, 4, w2)
  <2>1. Cut(d, 0, 2, w1) /\ Cut(d, 2, 4, w2)
    BY <1>0, CutWord
  <2> HIDE DEF l, w1, w2
  <2> QED
    BY <1>0, <1>f, <2>1
<1>3. Cut(e, 14, 16, w4) /\ Cut(e, 16, 18, w5) /\ Cut(e, 18, 20, w6)
  <2>1. Cut(d, 14, 16, w4) /\ Cut(d, 16, 18, w5) /\ Cut(d, 18, 20, w6)
    BY <1>0, CutWord
  <2> HIDE DEF l, w4, w5, w6
  <2> QED
    BY <1>0, <1>f, <2>1
<1>4. Cut(e, 4, 8, q1) /\ Cut(e, 8, 12, q2) /\ Cut(e, 20, 24, q3) /\ Cut(e, 24, l, q4)
  <2>1. Cut(d, 4, 8, q1) /\ Cut(d, 8, 12, q2) /\ Cut(d, 20, 24, q3) /\ Cut(d, 24, l, q4)
    BY <1>0 DEF Cut
  <2> HIDE DEF l, q1, q2, q3, q4
  <2> QED
    BY <1>0, <1>f, <2>1
<1>5. Cut(e, 12, 14, w3)
  <2> HIDE DEF l, flags
  <2>1. Cut(e, 12, 12 + 2, <<96, flags>>)
    BY <1>0, <1>e, CutPair
  <2> QED
    BY <2>1
<1>6. Fit(q3, 4) = q3
  <2>1. \A i \in 21..24 : d[i] \in Byte
    BY <1>0, ElementOfSeq
  <2>2. IsBytes(q3, 4)
    BY <2>1, SubSeqProperties DEF IsBytes
  <2> HIDE DEF q3
  <2> QED
    BY <2>2, FitWhole
<1>7. SerializeTCP(t) = w1 \o w2 \o q1 \o q2 \o w3 \o w4 \o w5 \o w6 \o q3 \o q4
  <2>1. SerializeTCP(t) = PutUint16(t.SrcPort) \o PutUint16(t.DstPort) \o t.SeqNum \o t.AckNum
        \o <<16 * (t.DataOffset \div 4), t.Flags>>
        \o PutUint16(t.Window) \o PutUint16(t.Checksum) \o PutUint16(t.Urgent)
        \o Fit(t.Options, t.DataOffset - 20)
        \o t.Payload
    BY DEF SerializeTCP
  <2>2. <<16 * (t.DataOffset \div 4), t.Flags>> = w3
    <3>1. t.DataOffset = 24 /\ t.Flags = flags
      BY <1>1
    <3> HIDE DEF t, flags
    <3> QED
      BY <3>1
  <2>3. Fit(t.Options, t.DataOffset - 20) = q3
    BY <1>1, <1>6
  <2>4. PutUint16(t.SrcPort) = w1 /\ PutUint16(t.DstPort) = w2 /\ PutUint16(t.Window) = w4
        /\ PutUint16(t.Checksum) = w5 /\ PutUint16(t.Urgent) = w6
        /\ t.SeqNum = q1 /\ t.AckNum = q2 /\ t.Payload = q4
    BY <1>1
  <2> HIDE DEF t, w1, w2, w3, w4, w5, w6, q1, q2, q3, q4
  <2> QED
    BY <2>1, <2>2, <2>3, <2>4, Zenon
<1> HIDE DEF flags, w1, w2, w3, w4, w5, w6, q1, q2, q3, q4, l
<1> DEFINE j1 == w1 \o w2
           j2 == j1 \o q1
           j3 == j2 \o q2
           j4 == j3 \o w3
           j5 == j4 \o w4
           j6 == j5 \o w5
           j7 == j6 \o w6
           j8 == j7 \o q3
           j9 == j8 \o q4
<1>a. /\ Joins(j1, w1, w2)
      /\ Joins(j2, j1, q1)
      /\ Joins(j3, j2, q2)
      /\ Joins(j4, j3, w3)
      /\ Joins(j5, j4, w4)
      /\ Joins(j6, j5, w5)
      /\ Joins(j7, j6, w6)
      /\ Joins(j8, j7, q3)
      /\ Joins(j9, j8, q4)
  BY DEF Joins
<1>b. SerializeTCP(t) = j9
  BY <1>7
<1> HIDE DEF j1, j2, j3, j4, j5, j6, j7, j8, j9
<1>8. Cut(e, 0, 4, j1)
  BY <1>2, <1>a, CutTogether
<1>9. Cut(e, 0, 8, j2)
  BY <1>4, <1>8, <1>a, CutTogether
<1>10. Cut(e, 0, 12, j3)
  BY <1>4, <1>9, <1>a, CutTogether
<1>11. Cut(e, 0, 14, j4)
  BY <1>5, <1>10, <1>a, CutTogether
<1>12. Cut(e, 0, 16, j5)
  BY <1>3, <1>11, <1>a, CutTogether
<1>13. Cut(e, 0, 18, j6)
  BY <1>3, <1>12, <1>a, CutTogether
<1>14. Cut(e, 0, 20, j7)
  BY <1>3, <1>13, <1>a, CutTogether
<1>15. Cut(e, 0, 24, j8)
  BY <1>4, <1>14, <1>a, CutTogether
<1>16. Cut(e, 0, l, j9)
  BY <1>4, <1>15, <1>a, CutTogether
<1>17. j9 = e
  <2>1. j9 = SubSeq(e, 0 + 1, l) /\ l = Len(e)
    BY <1>e, <1>16 DEF Cut
  <2> QED
    BY <1>e, <2>1, SubSeqFull
<1> QED
  BY <1>b, <1>17

(* Six bits of a byte.                                                      *)
LEMMA SixBits == \A b \in Byte : b % 64 \in Byte
BY DEF Byte

(* What the assignments of the two bytes make of a segment.                 *)
LEMMA UnmarkedIs ==
  ASSUME NEW d \in Seq(Byte), 24 <= Len(d), d[13] \div 16 = 6
  PROVE  Unmarked([d EXCEPT ![13] = 16 * (@ \div 16), ![14] = @ % 64], d)
<1> DEFINE l == Len(d)
           x == 16 * (d[13] \div 16)
           y == d[14] % 64
           e == [d EXCEPT ![13] = x, ![14] = y]
<1>1. l \in Nat /\ 13 \in 1..l /\ 14 \in 1..l /\ d \in [1..l -> Byte]
  BY LenProperties
<1>2. x = 96 /\ x \in Byte
  BY DEF Byte
<1>3. y \in Byte
  <2>1. d[14] \in Byte
    BY <1>1
  <2> QED
    BY <2>1, SixBits
<1> HIDE DEF l, x, y
<1>4. /\ e \in [1..l -> Byte] /\ e[13] = x /\ e[14] = y
      /\ \A i \in 1..l : i # 13 /\ i # 14 => e[i] = d[i]
  BY <1>1, <1>2, <1>3
<1>5. e \in Seq(Byte) /\ Len(e) = l
  <2> HIDE DEF e
  <2> QED
    BY <1>1, <1>4
<1> HIDE DEF e
<1>6. Unmarked(e, d)
  BY <1>2, <1>4, <1>5 DEF Unmarked, l, y
<1> QED
  BY <1>6 DEF e, x, y

(***************************************************************************)
(* Checksums.                                                              *)
(***************************************************************************)

(* What each byte counts in a sum of words.                                 *)
Weights(data, n) == [i \in 1..n |-> IF i % 2 = 1 THEN 256 * data[i] ELSE data[i]]

(* No byte counts for more than a word.                                     *)
LEMMA WeightsAreNumbers ==
  ASSUME NEW d, NEW n \in Nat, IsBytes(d, n)
  PROVE  \A i \in 1..n : Weights(d, n)[i] \in Nat /\ Weights(d, n)[i] <= TopWord
<1> SUFFICES ASSUME NEW i \in 1..n
             PROVE  Weights(d, n)[i] \in Nat /\ Weights(d, n)[i] <= TopWord
  OBVIOUS
<1>1. d[i] \in Byte
  BY ElementOfSeq DEF IsBytes
<1>2. d[i] \in Nat /\ d[i] <= 255
  BY <1>1 DEF Byte
<1>3. Weights(d, n)[i] = IF i % 2 = 1 THEN 256 * d[i] ELSE d[i]
  BY DEF Weights
<1>4. Weights(d, n)[i] \in Nat /\ Weights(d, n)[i] <= 65280
  BY <1>2, <1>3
<1> QED
  BY <1>4 DEF TopWord

(* WordSum is the sum of what the bytes count.                              *)
LEMMA WordSumIs ==
  ASSUME NEW d, NEW n \in Nat, IsBytes(d, n)
  PROVE  \E f : SumsUp(f, Weights(d, n), n) /\ WordSum(d) = f[n]
<1> DEFINE Same(s) == s = [i \in 0..Len(d) |->
                              IF i = 0 THEN 0
                              ELSE s[i - 1] + (IF i % 2 = 1 THEN 256 * d[i] ELSE d[i])]
           S == CHOOSE s : Same(s)
<1>1. Len(d) = n
  BY DEF IsBytes
<1>2. WordSum(d) = S[Len(d)]
  BY DEF WordSum
<1>3. \A s : SumsUp(s, Weights(d, n), n) <=> Same(s)
  <2> SUFFICES ASSUME NEW s PROVE SumsUp(s, Weights(d, n), n) <=> Same(s)
    OBVIOUS
  <2>1. \A i \in 1..n : Weights(d, n)[i] = IF i % 2 = 1 THEN 256 * d[i] ELSE d[i]
    BY DEF Weights
  <2>2. [i \in 0..n |-> IF i = 0 THEN 0 ELSE s[i - 1] + Weights(d, n)[i]]
          = [i \in 0..n |-> IF i = 0 THEN 0
                            ELSE s[i - 1] + (IF i % 2 = 1 THEN 256 * d[i] ELSE d[i])]
    BY <2>1
  <2> QED
    BY <1>1, <2>2 DEF SumsUp
<1>4. \E s : SumsUp(s, Weights(d, n), n)
  BY SumsExist
<1> HIDE DEF Same
<1>5. Same(S)
  BY <1>3, <1>4
<1> HIDE DEF S
<1>6. SumsUp(S, Weights(d, n), n) /\ WordSum(d) = S[n]
  BY <1>1, <1>2, <1>3, <1>5
<1> QED
  BY <1>6

(***************************************************************************)
(* The carry.                                                              *)
(***************************************************************************)
(* x is z and a multiple of 65535.                                          *)
Times(k) == 65535 * k
Leaves(x, z) == \E k \in Nat : x = Times(k) + z

(* A round of the carry takes away a multiple of 65535, and never all of    *)
(* it.                                                                      *)
LEMMA FoldedOnce ==
  ASSUME NEW x \in Nat
  PROVE  FoldOnce(x) \in Nat /\ Leaves(x, FoldOnce(x)) /\ (FoldOnce(x) = 0 => x = 0)
<1> DEFINE q == x \div 65536
           r == x % 65536
<1>1. x = (65536 * q) + r /\ q \in Nat /\ r \in Nat
  OBVIOUS
<1>2. CASE x > 65535
  <2>1. FoldOnce(x) = r + q
    BY <1>2 DEF FoldOnce
  <2>2. x = (65535 * q) + (r + q)
    BY <1>1
  <2>3. q + r = 0 => x = 0
    BY <1>1
  <2> HIDE DEF q, r
  <2>4. r + q \in Nat /\ (r + q = 0 => x = 0)
    BY <1>1, <2>3
  <2>5. x = Times(q) + FoldOnce(x)
    BY <2>1, <2>2 DEF Times
  <2>a. q \in Nat
    BY <1>1
  <2>6. Leaves(x, FoldOnce(x))
    BY <2>a, <2>5, Zenon DEF Leaves
  <2>7. FoldOnce(x) \in Nat /\ (FoldOnce(x) = 0 => x = 0)
    BY <2>1, <2>4
  <2> QED
    BY <2>6, <2>7
<1>3. CASE ~(x > 65535)
  <2>1. FoldOnce(x) = x
    BY <1>3 DEF FoldOnce
  <2>2. x = Times(0) + FoldOnce(x) /\ 0 \in Nat
    BY <2>1 DEF Times
  <2>3. Leaves(x, FoldOnce(x))
    BY <2>2, Zenon DEF Leaves
  <2> QED
    BY <2>1, <2>3
<1> QED
  BY <1>2, <1>3

(* Two rounds of it leave a word, of any sum of 65535 words.                *)
LEMMA CarryIsWord ==
  ASSUME NEW x \in Nat, x <= TopWord * TopWord
  PROVE  FoldCarry(x) \in Word
<1>1. x <= 65535 * 65535
  BY DEF TopWord
<1> DEFINE y == FoldOnce(x)
<1>2. y \in Nat /\ y <= 131070
  <2> DEFINE q == x \div 65536
             r == x % 65536
  <2>1. x = (65536 * q) + r /\ q \in Nat /\ r \in Nat /\ r <= 65535
    OBVIOUS
  <2>2. y = IF x > 65535 THEN r + q ELSE x
    BY DEF FoldOnce
  <2> HIDE DEF q, r, y
  <2>3. q <= 65535
    BY <1>1, <2>1
  <2> QED
    BY <2>1, <2>2, <2>3
<1> HIDE DEF y
<1>3. FoldOnce(y) \in Nat /\ FoldOnce(y) <= 65535
  <2> DEFINE q == y \div 65536
             r == y % 65536
  <2>1. y = (65536 * q) + r /\ q \in Nat /\ r \in Nat /\ r <= 65535
    BY <1>2
  <2>2. FoldOnce(y) = IF y > 65535 THEN r + q ELSE y
    BY DEF FoldOnce
  <2> HIDE DEF q, r
  <2>3. q <= 1 /\ (q = 1 => r <= 65534)
    BY <1>2, <2>1
  <2> QED
    BY <1>2, <2>1, <2>2, <2>3
<1>4. FoldOnce(y) \in Word
  <2> DEFINE z == FoldOnce(y)
  <2>1. z \in Int /\ 0 <= z /\ z <= 65535
    BY <1>3
  <2> HIDE DEF z
  <2>2. z \in Word
    BY <2>1, NumberIsWord
  <2> QED
    BY <2>2 DEF z
<1> QED
  BY <1>4 DEF FoldCarry, y

(* Two rounds of it take away a multiple of 65535, and never all of it.     *)
LEMMA CarryKeepsRemainder ==
  ASSUME NEW x \in Nat
  PROVE  FoldCarry(x) \in Nat /\ Leaves(x, FoldCarry(x)) /\ (FoldCarry(x) = 0 => x = 0)
<1> DEFINE y == FoldOnce(x)
           z == FoldOnce(y)
<1>1. y \in Nat /\ (y = 0 => x = 0)
  BY FoldedOnce
<1>2. PICK k \in Nat : x = Times(k) + y
  BY FoldedOnce DEF Leaves
<1> HIDE DEF y
<1>3. z \in Nat /\ (z = 0 => y = 0)
  BY <1>1, FoldedOnce
<1>4. PICK j \in Nat : y = Times(j) + z
  BY <1>1, FoldedOnce DEF Leaves
<1> HIDE DEF z
<1> DEFINE i == k + j
<1>5. i \in Nat /\ Times(i) = Times(k) + Times(j) /\ Times(k) \in Nat /\ Times(j) \in Nat
  BY DEF Times
<1> HIDE DEF i
<1>6. x = Times(i) + z
  BY <1>2, <1>3, <1>4, <1>5
<1>7. FoldCarry(x) = z
  BY DEF FoldCarry, y, z
<1>8. Leaves(x, z)
  BY <1>5, <1>6, Zenon DEF Leaves
<1> QED
  BY <1>1, <1>3, <1>7, <1>8

(* The sum of a datagram's words stays within what two rounds fold.         *)
LEMMA WordSumBounded ==
  ASSUME NEW d, NEW n \in Nat, IsBytes(d, n), n <= TopWord
  PROVE  WordSum(d) \in Nat /\ WordSum(d) <= TopWord * TopWord
<1> DEFINE g == Weights(d, n)
<1>1. PICK f : SumsUp(f, g, n) /\ WordSum(d) = f[n]
  BY WordSumIs
<1>2. TopWord \in Nat
  BY DEF TopWord
<1>3. \A i \in 1..n : g[i] \in Nat /\ g[i] <= TopWord
  BY WeightsAreNumbers
<1> HIDE DEF g
<1>4. \A i \in 0..n : f[i] \in Nat /\ f[i] <= TopWord * i
  BY <1>1, <1>2, <1>3, SumsBounded
<1>5. f[n] \in Nat /\ f[n] <= TopWord * n
  BY <1>4
<1>6. TopWord * n <= TopWord * TopWord /\ TopWord * n \in Nat /\ TopWord * TopWord \in Nat
  <2> DEFINE m == TopWord - n
  <2>1. m \in Nat /\ TopWord = n + m
    BY <1>2
  <2>2. TopWord * m \in Nat /\ TopWord * n \in Nat
    BY <1>2, <2>1
  <2>3. TopWord * (n + m) = (TopWord * n) + (TopWord * m)
    BY <1>2, <2>1
  <2> HIDE DEF m
  <2> QED
    BY <2>1, <2>2, <2>3
<1> DEFINE x == TopWord * n
           y == TopWord * TopWord
<1>7. x <= y /\ x \in Nat /\ y \in Nat /\ f[n] <= x
  BY <1>5, <1>6
<1> HIDE DEF x, y
<1>8. f[n] <= y
  BY <1>5, <1>7
<1> QED
  BY <1>1, <1>5, <1>8 DEF y

(* The checksum of a datagram's bytes fits its field.                       *)
LEMMA ChecksumIsWord ==
  ASSUME NEW d, NEW n \in Nat, IsBytes(d, n), n <= TopWord
  PROVE  CalculateChecksum(d) \in Word
<1> DEFINE c == FoldCarry(WordSum(d))
<1>1. c \in Word
  BY WordSumBounded, CarryIsWord
<1> HIDE DEF c
<1>2. c \in Int /\ 0 <= c /\ c <= 65535
  BY <1>1, WordIsNumber
<1> DEFINE z == 65535 - c
<1>3. z \in Int /\ 0 <= z /\ z <= 65535
  BY <1>2
<1> HIDE DEF z
<1>4. z \in Word
  BY <1>3, NumberIsWord
<1> QED
  BY <1>4 DEF CalculateChecksum, c, z

(***************************************************************************)
(* The sum a receiver takes is the sum the sender took.                    *)
(***************************************************************************)
(* The words a receiver adds up.                                            *)
Words(data, n) == [k \in 1..((n + 1) \div 2) |-> Uint16(data \o <<0>>, 2 * k - 1)]

(* ReceiverSum is the sum of the words.                                     *)
LEMMA ReceiverSumIs ==
  ASSUME NEW d, NEW n \in Nat, IsBytes(d, n)
  PROVE  \E s : SumsUp(s, Words(d, n), (n + 1) \div 2) /\ ReceiverSum(d) = s[(n + 1) \div 2]
<1> DEFINE m == (Len(d) + 1) \div 2
           Same(s) == s = [k \in 0..m |->
                              IF k = 0 THEN 0 ELSE s[k - 1] + Uint16(d \o <<0>>, 2 * k - 1)]
           S == CHOOSE s : Same(s)
<1>1. Len(d) = n
  BY DEF IsBytes
<1>2. ReceiverSum(d) = S[m]
  BY DEF ReceiverSum
<1>3. \A s : SumsUp(s, Words(d, n), m) <=> Same(s)
  <2> SUFFICES ASSUME NEW s PROVE SumsUp(s, Words(d, n), m) <=> Same(s)
    OBVIOUS
  <2>1. m = (n + 1) \div 2
    BY <1>1
  <2> HIDE DEF m
  <2>2. \A k \in 1..m : Words(d, n)[k] = Uint16(d \o <<0>>, 2 * k - 1)
    BY <2>1 DEF Words
  <2>3. [k \in 0..m |-> IF k = 0 THEN 0 ELSE s[k - 1] + Words(d, n)[k]]
          = [k \in 0..m |-> IF k = 0 THEN 0 ELSE s[k - 1] + Uint16(d \o <<0>>, 2 * k - 1)]
    BY <2>2
  <2> QED
    BY <2>3 DEF SumsUp
<1>4. m \in Nat /\ m = (n + 1) \div 2
  BY <1>1
<1> HIDE DEF Same, m
<1>5. \E s : SumsUp(s, Words(d, n), m)
  BY <1>4, SumsExist
<1>6. Same(S)
  BY <1>3, <1>5
<1> HIDE DEF S
<1>7. SumsUp(S, Words(d, n), m) /\ ReceiverSum(d) = S[m]
  BY <1>2, <1>3, <1>6
<1> QED
  BY <1>4, <1>7

(* Two bytes at a time, or one and a zero at the end.                       *)
LEMMA ReceiverSumsWords ==
  ASSUME NEW d, NEW n \in Nat, IsBytes(d, n)
  PROVE  ReceiverSum(d) = WordSum(d)
<1> DEFINE g == Weights(d, n)
           w == Words(d, n)
           m == (n + 1) \div 2
           z == <<0>>
           b == d \o z
<1>1. PICK f : SumsUp(f, g, n) /\ WordSum(d) = f[n]
  BY WordSumIs
<1>2. PICK s : SumsUp(s, w, m) /\ ReceiverSum(d) = s[m]
  BY ReceiverSumIs
<1>3. m \in Nat /\ 2 * m <= n + 1 /\ n <= 2 * m
  OBVIOUS
<1>4. /\ \A i \in 0..n : f[i] = IF i = 0 THEN 0 ELSE f[i - 1] + g[i]
      /\ \A k \in 0..m : s[k] = IF k = 0 THEN 0 ELSE s[k - 1] + w[k]
  BY <1>1, <1>2 DEF SumsUp
<1>5. /\ \A i \in 1..n : b[i] = d[i]
      /\ b[n + 1] = 0
  <2>1. IsBytes(z, 1) /\ z[1] = 0
    BY DEF IsBytes, Byte
  <2>2. Joins(b, d, z)
    BY DEF Joins
  <2> HIDE DEF b, z
  <2>3. (\A i \in 1..n : b[i] = d[i]) /\ (\A i \in 1..1 : b[n + i] = z[i])
    BY <2>1, <2>2, Joined
  <2> QED
    BY <2>1, <2>3
<1>6. \A i \in 1..n : /\ d[i] \in Nat /\ g[i] \in Nat
                      /\ g[i] = IF i % 2 = 1 THEN 256 * d[i] ELSE d[i]
  <2>1. \A i \in 1..n : d[i] \in Byte
    BY ElementOfSeq DEF IsBytes
  <2>2. \A i \in 1..n : d[i] \in Nat
    BY <2>1 DEF Byte
  <2>3. \A i \in 1..n : g[i] = IF i % 2 = 1 THEN 256 * d[i] ELSE d[i]
    BY DEF Weights
  <2>4. \A i \in 1..n : g[i] \in Nat
    BY WeightsAreNumbers
  <2> HIDE DEF g
  <2> QED
    BY <2>2, <2>3, <2>4
<1>7. \A k \in 1..m : w[k] = 256 * b[2 * k - 1] + b[2 * k]
  <2> SUFFICES ASSUME NEW k \in 1..m PROVE w[k] = 256 * b[2 * k - 1] + b[2 * k]
    OBVIOUS
  <2>1. w[k] = Uint16(b, 2 * k - 1)
    BY DEF Words
  <2>2. (2 * k - 1) + 1 = 2 * k
    OBVIOUS
  <2> HIDE DEF w, b
  <2> QED
    BY <2>1, <2>2 DEF Uint16
<1>8. \A i \in 0..n : f[i] \in Nat
  <2> HIDE DEF g
  <2>1. TopWord \in Nat /\ \A i \in 1..n : g[i] \in Nat /\ g[i] <= TopWord
    BY WeightsAreNumbers DEF g, TopWord
  <2> QED
    BY <1>1, <2>1, SumsBounded
<1> HIDE DEF g, w, b, m
<1> DEFINE T == {k \in Nat : k <= m => /\ 2 * k <= n => s[k] = f[2 * k]
                                       /\ 2 * k = n + 1 => s[k] = f[n]}
<1>9. 0 \in T
  <2>1. s[0] = 0 /\ f[0] = 0 /\ 2 * 0 = 0 /\ 0 # n + 1
    BY <1>3, <1>4
  <2> QED
    BY <2>1
<1>10. ASSUME NEW k \in Nat, k \in T PROVE k + 1 \in T
  <2> DEFINE j == k + 1
             x == 2 * k + 1
             y == 2 * k + 2
  <2> SUFFICES ASSUME j <= m PROVE (2 * j <= n => s[j] = f[2 * j]) /\ (2 * j = n + 1 => s[j] = f[n])
    OBVIOUS
  <2>1. /\ j \in 1..m /\ j \in 0..m /\ j # 0 /\ j - 1 = k /\ k <= m /\ 2 * j = y /\ 2 * j - 1 = x
        /\ 2 * k <= n /\ 2 * k \in 0..n /\ x \in 1..n /\ x \in 0..n /\ x # 0 /\ x - 1 = 2 * k /\ x % 2 = 1
        /\ y % 2 = 0 /\ y - 1 = x /\ y # 0 /\ y \in Nat
    BY <1>3
  <2>2. s[k] = f[2 * k]
    BY <1>10, <2>1
  <2>3. s[j] = s[k] + w[j]
    BY <1>4, <2>1
  <2>4. w[j] = 256 * b[x] + b[y]
    BY <1>7, <2>1
  <2>5. f[x] = f[2 * k] + g[x]
    BY <1>4, <2>1
  <2>6. b[x] = d[x] /\ g[x] = 256 * d[x] /\ d[x] \in Nat /\ f[2 * k] \in Nat
    BY <1>5, <1>6, <1>8, <2>1
  <2>7. CASE y <= n
    <3>1. y \in 1..n /\ y \in 0..n /\ y # n + 1
      BY <2>1, <2>7
    <3>2. f[y] = f[x] + g[y]
      BY <1>4, <2>1, <3>1
    <3>3. b[y] = d[y] /\ g[y] = d[y] /\ d[y] \in Nat
      BY <1>5, <1>6, <2>1, <3>1
    <3> DEFINE u == f[2 * k]
               v == d[x]
               t == d[y]
    <3>4. u \in Nat /\ v \in Nat /\ t \in Nat
      BY <2>6, <3>3
    <3>5. s[j] = u + (256 * v + t) /\ f[y] = (u + 256 * v) + t
      BY <2>2, <2>3, <2>4, <2>5, <2>6, <3>2, <3>3
    <3> HIDE DEF u, v, t
    <3>6. s[j] = f[y]
      BY <3>4, <3>5
    <3> QED
      BY <2>1, <3>1, <3>6
  <2>8. CASE y = n + 1
    <3>1. b[y] = 0 /\ x = n /\ ~(y <= n)
      BY <1>5, <2>1, <2>8
    <3> DEFINE u == f[2 * k]
               v == d[x]
    <3>2. s[j] = u + (256 * v + 0) /\ f[x] = u + 256 * v /\ u \in Nat /\ v \in Nat
      BY <2>2, <2>3, <2>4, <2>5, <2>6, <3>1
    <3> HIDE DEF u, v
    <3>3. s[j] = f[x]
      BY <3>2
    <3> QED
      BY <2>1, <3>1, <3>3
  <2>9. CASE ~(y <= n) /\ y # n + 1
    BY <2>1, <2>9
  <2> QED
    BY <2>7, <2>8, <2>9
<1> HIDE DEF T
<1>11. m \in T
  BY <1>3, <1>9, <1>10, Induction
<1>12. s[m] = f[n]
  <2>1. (2 * m <= n => s[m] = f[2 * m]) /\ (2 * m = n + 1 => s[m] = f[n])
    BY <1>11 DEF T
  <2>2. CASE 2 * m = n
    BY <2>1, <2>2
  <2>3. CASE 2 * m = n + 1
    BY <2>1, <2>3
  <2> QED
    BY <1>3, <2>2, <2>3
<1> QED
  BY <1>1, <1>2, <1>12

(* A word put where there was none adds itself to the sum.                  *)
LEMMA WordAdded ==
  ASSUME NEW n \in Nat, NEW b, NEW z, NEW at \in 1..n, NEW c \in Word,
         IsBytes(b, n), IsBytes(z, n), at + 1 \in 1..n, at % 2 = 1,
         \A i \in 1..n : i # at /\ i # at + 1 => b[i] = z[i],
         z[at] = 0, z[at + 1] = 0, b[at] = c \div 256, b[at + 1] = c % 256
  PROVE  WordSum(b) = WordSum(z) + c
<1> DEFINE g == Weights(b, n)
           h == Weights(z, n)
<1>1. PICK f : SumsUp(f, g, n) /\ WordSum(b) = f[n]
  BY WordSumIs
<1>2. PICK e : SumsUp(e, h, n) /\ WordSum(z) = e[n]
  BY WordSumIs
<1>3. /\ \A i \in 1..n : g[i] = IF i % 2 = 1 THEN 256 * b[i] ELSE b[i]
      /\ \A i \in 1..n : h[i] = IF i % 2 = 1 THEN 256 * z[i] ELSE z[i]
  BY DEF Weights
<1>4. \A i \in 1..n : g[i] \in Nat /\ h[i] \in Nat
  BY WeightsAreNumbers
<1> HIDE DEF g, h
<1>5. \A i \in 1..n : i # at /\ i # at + 1 => g[i] = h[i]
  BY <1>3
<1>6. (at + 1) % 2 = 0
  OBVIOUS
<1>7. h[at] = 0 /\ h[at + 1] = 0
  BY <1>3, <1>6
<1>8. f[n] = e[n] + (g[at] + g[at + 1])
  BY <1>1, <1>2, <1>4, <1>5, <1>7, SumsDiffer
<1>9. g[at] = 256 * (c \div 256) /\ g[at + 1] = c % 256
  BY <1>3, <1>6
<1>10. c = (256 * (c \div 256)) + (c % 256)
  BY WordBytes
<1> QED
  BY <1>1, <1>2, <1>8, <1>9, <1>10

(***************************************************************************)
(* CalculateChecksum and what a receiver does fit each other for any       *)
(* bytes: if z is b with a zero word at an odd place, and b has the        *)
(* checksum of z there (or all ones where that is zero, as                 *)
(* CalculateUDPChecksum has it), the words of b sum up to all ones,        *)
(* whether the length is even or odd.                                      *)
(***************************************************************************)
THEOREM ChecksumVerifies ==
  ASSUME NEW n \in Nat, NEW b, NEW z, NEW at \in 1..n, NEW c \in Word,
         n <= TopWord, IsBytes(b, n), IsBytes(z, n), at + 1 \in 1..n, at % 2 = 1,
         \A i \in 1..n : i # at /\ i # at + 1 => b[i] = z[i],
         z[at] = 0, z[at + 1] = 0, b[at] = c \div 256, b[at + 1] = c % 256,
         c = CalculateChecksum(z) \/ (CalculateChecksum(z) = 0 /\ c = TopWord)
  PROVE  Verifies(b)
<1>11. WordSum(b) = WordSum(z) + c
  BY WordAdded
<1> DEFINE x == WordSum(z)
           r == FoldCarry(x)
<1>12. x \in Nat
  BY WordSumBounded
<1>13. r \in Nat /\ Leaves(x, r) 
  BY <1>12, CarryKeepsRemainder
<1>14. c \in Nat /\ (c = 65535 - r \/ (65535 - r = 0 /\ c = 65535))
  <2>1. c \in Nat
    BY WordIsNumber
  <2>2. CalculateChecksum(z) = 65535 - r
    BY DEF CalculateChecksum
  <2> HIDE DEF r
  <2> QED
    BY <2>1, <2>2 DEF TopWord
<1> HIDE DEF x, r
<1>15. PICK k \in Nat : x = Times(k) + r
  BY <1>13 DEF Leaves
<1>16. x + c = 65535 * (k + 1) \/ x + c = 65535 * (k + 2)
  BY <1>12, <1>13, <1>14, <1>15 DEF Times
<1>17. (x + c) % 65535 = 0
  BY <1>16
<1>18. ReceiverSum(b) = x + c
  BY <1>11, ReceiverSumsWords DEF x
<1> QED
  BY <1>17, <1>18 DEF Verifies

(***************************************************************************)
(* Checksums of a packet.                                                  *)
(***************************************************************************)
(* Two bytes written over others, and what is left of those.                *)
LEMMA Overwritten ==
  ASSUME NEW d, NEW n \in Nat, NEW at \in Nat, NEW a \in Byte, NEW b \in Byte, IsBytes(d, n)
  PROVE  /\ IsBytes(Overwrite(d, at, <<a, b>>), n)
         /\ \A i \in 1..n : Overwrite(d, at, <<a, b>>)[i] =
                               IF i = at THEN a ELSE IF i = at + 1 THEN b ELSE d[i]
<1> DEFINE w == <<a, b>>
           o == Overwrite(d, at, w)
<1>1. Len(d) = n /\ \A i \in 1..n : d[i] \in Byte
  BY ElementOfSeq DEF IsBytes
<1>2. Len(w) = 2 /\ w[1] = a /\ w[2] = b
  OBVIOUS
<1> HIDE DEF w
<1>3. o = [i \in 1..n |-> IF i \in at..(at + 2 - 1) THEN w[i - at + 1] ELSE d[i]]
  BY <1>1, <1>2 DEF Overwrite
<1>4. ASSUME NEW i \in 1..n
      PROVE  o[i] = IF i = at THEN a ELSE IF i = at + 1 THEN b ELSE d[i]
  <2>1. o[i] = IF i \in at..(at + 2 - 1) THEN w[i - at + 1] ELSE d[i]
    BY <1>3
  <2>2. i \in at..(at + 2 - 1) <=> i = at \/ i = at + 1
    OBVIOUS
  <2>3. CASE i = at
    <3>1. i - at + 1 = 1
      BY <2>3
    <3> QED
      BY <1>2, <2>1, <2>2, <2>3, <3>1
  <2>4. CASE i = at + 1
    <3>1. i - at + 1 = 2 /\ i # at
      BY <2>4
    <3> QED
      BY <1>2, <2>1, <2>2, <2>4, <3>1
  <2>5. CASE i # at /\ i # at + 1
    BY <2>1, <2>2, <2>5
  <2> QED
    BY <2>3, <2>4, <2>5
<1>5. o = [i \in 1..n |-> o[i]]
  BY <1>3
<1> HIDE DEF o
<1>6. \A i \in 1..n : o[i] \in Byte
  BY <1>1, <1>4
<1>7. o \in [1..n -> Byte]
  BY <1>5, <1>6
<1>8. IsBytes(o, n)
  BY <1>7 DEF IsBytes
<1> QED
  BY <1>4, <1>8 DEF o, w

(* What a checksum field is cleared with.                                   *)
LEMMA ZeroByte == 0 \in Byte
BY DEF Byte

(* The pseudo header of two IPv4 addresses is twelve bytes.                 *)
LEMMA PseudoHeaderBytes ==
  ASSUME NEW s, NEW d, NEW protocol \in Byte, NEW l \in Word, IsBytes(s, 4), IsBytes(d, 4)
  PROVE  /\ PseudoHeader(s, d, protocol, l) = s \o d \o <<0, protocol>> \o PutUint16(l)
         /\ IsBytes(PseudoHeader(s, d, protocol, l), 12)
<1> DEFINE q == <<0, protocol>>
           w == PutUint16(l)
           j1 == s \o d
           j2 == j1 \o q
           j3 == j2 \o w
<1>1. Fit(To4(s), 4) = s /\ Fit(To4(d), 4) = d
  <2>1. To4(s) = s /\ To4(d) = d
    BY DEF To4, IsBytes
  <2> QED
    BY <2>1, FitWhole
<1>2. PseudoHeader(s, d, protocol, l) = j3
  <2> DEFINE m == l % 65536
  <2>1. m = l
    BY WordFits
  <2>2. PseudoHeader(s, d, protocol, l)
          = Fit(To4(s), 4) \o Fit(To4(d), 4) \o q \o PutUint16(m)
    BY DEF PseudoHeader
  <2> HIDE DEF m
  <2> QED
    BY <1>1, <2>1, <2>2, Zenon
<1>3. IsBytes(q, 2) /\ IsBytes(w, 2)
  BY ZeroByte, BytePair, WordPair
<1>4. Joins(j1, s, d) /\ Joins(j2, j1, q) /\ Joins(j3, j2, w)
  BY DEF Joins
<1> HIDE DEF q, w, j1, j2, j3
<1>5. IsBytes(j1, 8)
  BY <1>4, Joined
<1>6. IsBytes(j2, 10)
  BY <1>3, <1>4, <1>5, Joined
<1>7. IsBytes(j3, 12)
  BY <1>3, <1>4, <1>6, Joined
<1> QED
  BY <1>2, <1>7 DEF j1, j2, j3, q, w

(* What a transport checksum is calculated over, and how much it is.        *)
LEMMA SegmentBytes ==
  ASSUME NEW p, Wellformed(p), NEW protocol \in Byte, NEW at \in Nat
  PROVE  LET x == PseudoHeader(p.SrcIP, p.DstIP, protocol, Len(p.Payload))
             y == Overwrite(p.Payload, at, <<0, 0>>)
         IN  /\ IsBytes(x, 12) /\ IsBytes(y, Len(p.Payload))
             /\ IsBytes(x \o y, 12 + Len(p.Payload)) /\ 12 + Len(p.Payload) <= TopWord
             /\ Len(p.Payload) \in Nat /\ Len(p.Payload) \in Word
<1> DEFINE n == p.HeaderLen
           k == Len(p.Payload)
           x == PseudoHeader(p.SrcIP, p.DstIP, protocol, k)
           y == Overwrite(p.Payload, at, <<0, 0>>)
           z == x \o y
<1>1. k \in Nat /\ IsBytes(p.Payload, k)
  BY PacketFields DEF IsBytes
<1>2. n \in HeaderLens
  BY PacketFields
<1>3. n + k <= TopWord
  BY PacketFields
<1>4. 12 + k <= TopWord /\ k \in Word
  <2>1. n \in Nat /\ 20 <= n /\ TopWord \in Nat
    BY <1>2 DEF HeaderLens, TopWord
  <2> HIDE DEF n, k
  <2> QED
    BY <1>1, <1>3, <2>1 DEF Word
<1>5. IsBytes(p.SrcIP, 4) /\ IsBytes(p.DstIP, 4)
  BY PacketFields
<1>6. IsBytes(x, 12)
  BY <1>4, <1>5, PseudoHeaderBytes
<1>7. IsBytes(y, k)
  BY <1>1, ZeroByte, Overwritten
<1>8. Joins(z, x, y)
  BY DEF Joins
<1> HIDE DEF k, x, y, z
<1>9. IsBytes(z, 12 + k)
  BY <1>1, <1>6, <1>7, <1>8, Joined
<1> QED
  BY <1>1, <1>4, <1>6, <1>7, <1>9 DEF k, x, y, z

(* Transport checksums of segments that hold them fit their field.          *)
LEMMA TransportChecksumsFit ==
  ASSUME NEW p, Wellformed(p)
  PROVE  /\ 18 <= Len(p.Payload) => CalculateTCPChecksum(p.SrcIP, p.DstIP, p.Payload) \in Word
         /\ 8 <= Len(p.Payload) => CalculateUDPChecksum(p.SrcIP, p.DstIP, p.Payload) \in Word
<1> DEFINE k == Len(p.Payload)
           x(protocol) == PseudoHeader(p.SrcIP, p.DstIP, protocol, k)
           y(at) == Overwrite(p.Payload, at, <<0, 0>>)
           c(protocol, at) == CalculateChecksum(x(protocol) \o y(at))
<1>1. ASSUME NEW protocol \in Byte, NEW at \in Nat PROVE c(protocol, at) \in Word
  <2> DEFINE z == x(protocol) \o y(at)
             n == 12 + k
  <2>1. IsBytes(z, n) /\ n <= TopWord /\ k \in Nat
    BY SegmentBytes
  <2>2. n \in Nat
    BY <2>1
  <2> HIDE DEF z, n
  <2>3. CalculateChecksum(z) \in Word
    BY <2>1, <2>2, ChecksumIsWord
  <2> QED
    BY <2>3 DEF z
<1>2. TCP \in Byte /\ UDP \in Byte
  BY DEF TCP, UDP, Byte
<1>3. c(TCP, 17) \in Word /\ c(UDP, 7) \in Word
  <2> HIDE DEF c
  <2> QED
    BY <1>1, <1>2
<1>4. 65535 \in Word
  BY NumberIsWord
<1>k. k \in Nat
  BY PacketFields
<1>5. 18 <= k => CalculateTCPChecksum(p.SrcIP, p.DstIP, p.Payload) = c(TCP, 17)
  BY <1>k DEF CalculateTCPChecksum
<1>6. 8 <= k => CalculateUDPChecksum(p.SrcIP, p.DstIP, p.Payload)
                  = IF c(UDP, 7) = 0 THEN 65535 ELSE c(UDP, 7)
  BY <1>k DEF CalculateUDPChecksum
<1> DEFINE all == 65535
<1> HIDE DEF c
<1>7. 18 <= k => CalculateTCPChecksum(p.SrcIP, p.DstIP, p.Payload) \in Word
  BY <1>3, <1>5
<1>8. 8 <= k => CalculateUDPChecksum(p.SrcIP, p.DstIP, p.Payload) \in Word
  <2>1. all \in Word /\ (8 <= k => CalculateUDPChecksum(p.SrcIP, p.DstIP, p.Payload)
                                      = IF c(UDP, 7) = 0 THEN all ELSE c(UDP, 7))
    BY <1>4, <1>6
  <2> HIDE DEF all
  <2> QED
    BY <1>3, <2>1
<1> QED
  BY <1>7, <1>8

(* Header checksums fit their field.                                        *)
LEMMA HeaderChecksumFits ==
  ASSUME NEW p, Wellformed(p)
  PROVE  CalculateIPChecksum(Header(p, p.TotalLen, 0)) \in Word
<1> DEFINE h == Header(p, p.TotalLen, 0)
           o == Overwrite(h, 11, <<0, 0>>)
           n == p.HeaderLen
<1>1. 0 \in Word /\ p.TotalLen \in Word
  BY NumberIsWord, PacketFields
<1>2. IsBytes(h, n)
  <2>1. HeaderIs(h, p, p.TotalLen, 0)
    BY <1>1, HeaderBytes
  <2> QED
    BY <2>1 DEF HeaderIs
<1>3. n \in HeaderLens
  BY PacketFields
<1>4. n \in Nat /\ n <= TopWord
  BY <1>3 DEF HeaderLens, TopWord
<1> HIDE DEF h, n
<1>5. IsBytes(o, n)
  BY <1>2, <1>4, ZeroByte, Overwritten
<1> HIDE DEF o
<1>6. CalculateChecksum(o) \in Word
  BY <1>4, <1>5, ChecksumIsWord
<1> QED
  BY <1>6 DEF CalculateIPChecksum, o, h

(***************************************************************************)
(* Packets that differ in what callers change.                             *)
(***************************************************************************)
(* q has the fields of p that no caller changes.                            *)
Like(q, p) ==
    /\ q.Version = p.Version /\ q.HeaderLen = p.HeaderLen /\ q.TOS = p.TOS /\ q.ID = p.ID
    /\ q.Flags = p.Flags /\ q.FragOffset = p.FragOffset /\ q.Protocol = p.Protocol
    /\ q.SrcIP = p.SrcIP /\ q.DstIP = p.DstIP /\ q.Options = p.Options

(* p with other values in the rest.                                         *)
With(p, totalLen, ttl, checksum, payload) ==
    PacketOf(p.Version, p.HeaderLen, p.TOS, totalLen, p.ID, p.Flags, p.FragOffset, ttl,
             p.Protocol, checksum, p.SrcIP, p.DstIP, p.Options, payload)

(* What is a packet by its fields.                                          *)
LEMMA PacketOfTyped ==
  ASSUME NEW version, NEW headerLen, NEW tos, NEW totalLen, NEW id, NEW flags, NEW offset,
         NEW ttl, NEW protocol, NEW checksum, NEW src, NEW dst, NEW options, NEW payload,
         version = 4, headerLen \in HeaderLens, tos \in Byte, totalLen \in Word, totalLen # 0,
         id \in Word,
         flags \in ThreeBits, offset \in ThirteenBits, ttl \in Byte, protocol \in Byte,
         checksum \in Word, IsBytes(src, 4), IsBytes(dst, 4), IsBytes(options, headerLen - 20),
         payload \in Seq(Byte), headerLen + Len(payload) <= TopWord
  PROVE  Wellformed(PacketOf(version, headerLen, tos, totalLen, id, flags, offset, ttl, protocol,
                             checksum, src, dst, options, payload))
<1> DEFINE p == PacketOf(version, headerLen, tos, totalLen, id, flags, offset, ttl, protocol,
                         checksum, src, dst, options, payload)
           lens == 20..60
<1>1. headerLen \in lens /\ headerLen \in Int /\ headerLen % 4 = 0
  BY DEF HeaderLens
<1>2. /\ src \in Seq(Byte) /\ Len(src) = 4 /\ dst \in Seq(Byte) /\ Len(dst) = 4
      /\ options \in Seq(Byte) /\ Len(options) = headerLen - 20
  BY DEF IsBytes
<1>3. Packets = [Version : {4}, HeaderLen : lens, TOS : Byte, TotalLen : Word, ID : Word,
                 Flags : ThreeBits, FragOffset : ThirteenBits, TTL : Byte, Protocol : Byte,
                 Checksum : Word, SrcIP : Seq(Byte), DstIP : Seq(Byte), Options : Seq(Byte),
                 Payload : Seq(Byte)]
  BY DEF Packets, ThreeBits, ThirteenBits
<1> HIDE DEF lens
<1>4. p \in Packets
  BY <1>1, <1>2, <1>3 DEF PacketOf
<1>5. /\ p.HeaderLen = headerLen /\ p.SrcIP = src /\ p.DstIP = dst /\ p.Options = options
      /\ p.Payload = payload /\ p.TotalLen # 0
  BY DEF PacketOf
<1> HIDE DEF p
<1>6. headerLen = 20 + Len(options)
  BY <1>1, <1>2
<1>7. Wellformed(p)
  BY <1>1, <1>2, <1>4, <1>5, <1>6 DEF Wellformed
<1> QED
  BY <1>7 DEF p

(* The fields of such a packet.                                             *)
LEMMA WithFields ==
  ASSUME NEW p, NEW totalLen, NEW ttl, NEW checksum, NEW payload
  PROVE  LET q == With(p, totalLen, ttl, checksum, payload)
         IN  /\ Like(q, p) /\ q.TotalLen = totalLen /\ q.TTL = ttl /\ q.Checksum = checksum
             /\ q.Payload = payload
BY DEF With, PacketOf, Like

(* It is a packet if they have their types and the datagram its size.       *)
LEMMA WithTyped ==
  ASSUME NEW p, Wellformed(p), NEW totalLen \in Word, NEW ttl \in Byte, NEW checksum \in Word,
         NEW payload \in Seq(Byte), totalLen # 0, p.HeaderLen + Len(payload) <= TopWord
  PROVE  Wellformed(With(p, totalLen, ttl, checksum, payload))
<1>1. /\ p.Version = 4 /\ p.HeaderLen \in HeaderLens /\ p.TOS \in Byte /\ p.ID \in Word
      /\ p.Flags \in ThreeBits /\ p.FragOffset \in ThirteenBits /\ p.Protocol \in Byte
      /\ IsBytes(p.SrcIP, 4) /\ IsBytes(p.DstIP, 4) /\ IsBytes(p.Options, p.HeaderLen - 20)
  BY PacketFields
<1> QED
  BY <1>1, PacketOfTyped DEF With

(* The assignments of the code.                                             *)
LEMMA WithIsExcept ==
  ASSUME NEW p, Wellformed(p), NEW x
  PROVE  /\ [p EXCEPT !.TotalLen = x] = With(p, x, p.TTL, p.Checksum, p.Payload)
         /\ [p EXCEPT !.TTL = x] = With(p, p.TotalLen, x, p.Checksum, p.Payload)
         /\ [p EXCEPT !.Checksum = x] = With(p, p.TotalLen, p.TTL, x, p.Payload)
         /\ [p EXCEPT !.Payload = x] = With(p, p.TotalLen, p.TTL, p.Checksum, x)
         /\ p = With(p, p.TotalLen, p.TTL, p.Checksum, p.Payload)
<1> DEFINE R(a1, a2, a3, a4, a5, a6, a7, a8, a9, a10, a11, a12, a13, a14) ==
             [Version |-> a1, HeaderLen |-> a2, TOS |-> a3, TotalLen |-> a4, ID |-> a5,
              Flags |-> a6, FragOffset |-> a7, TTL |-> a8, Protocol |-> a9, Checksum |-> a10,
              SrcIP |-> a11, DstIP |-> a12, Options |-> a13, Payload |-> a14]
<1>1. p = R(p.Version, p.HeaderLen, p.TOS, p.TotalLen, p.ID, p.Flags, p.FragOffset, p.TTL,
            p.Protocol, p.Checksum, p.SrcIP, p.DstIP, p.Options, p.Payload)
  BY PacketFields
<1>2. [p EXCEPT !.TotalLen = x] = With(p, x, p.TTL, p.Checksum, p.Payload)
  BY <1>1 DEF With, PacketOf
<1>3. [p EXCEPT !.TTL = x] = With(p, p.TotalLen, x, p.Checksum, p.Payload)
  BY <1>1 DEF With, PacketOf
<1>4. [p EXCEPT !.Checksum = x] = With(p, p.TotalLen, p.TTL, x, p.Payload)
  BY <1>1 DEF With, PacketOf
<1>5. [p EXCEPT !.Payload = x] = With(p, p.TotalLen, p.TTL, p.Checksum, x)
  BY <1>1 DEF With, PacketOf
<1>7. p = With(p, p.TotalLen, p.TTL, p.Checksum, p.Payload)
  BY <1>1 DEF With, PacketOf
<1> QED
  BY <1>2, <1>3, <1>4, <1>5, <1>7, Zenon

(* A packet is none of the values for what is not one.                      *)
LEMMA WithIsNoPanic ==
  ASSUME NEW p, NEW totalLen, NEW ttl, NEW checksum, NEW payload
  PROVE  With(p, totalLen, ttl, checksum, payload) # Panic
<1> DEFINE q == With(p, totalLen, ttl, checksum, payload)
<1>1. "Version" \in DOMAIN q
  BY DEF With, PacketOf
<1>2. "Version" \notin DOMAIN Panic
  BY DEF Panic
<1> HIDE DEF q
<1>3. q # Panic
  BY <1>1, <1>2
<1> QED
  BY <1>3 DEF q

(* A new payload and a new length after it.                                 *)
LEMMA WithBoth ==
  ASSUME NEW p, Wellformed(p), NEW y, NEW whole, NEW r, r = [p EXCEPT !.Payload = y]
  PROVE  [r EXCEPT !.TotalLen = whole] = With(p, whole, p.TTL, p.Checksum, y)
<1> DEFINE u == With(p, p.TotalLen, p.TTL, p.Checksum, y)
<1>1. r = u
  BY WithIsExcept
<1>2. [u EXCEPT !.TotalLen = whole] = With(p, whole, p.TTL, p.Checksum, y)
  BY DEF With, PacketOf
<1> HIDE DEF u
<1> QED
  BY <1>1, <1>2

(***************************************************************************)
(* What the invariant says of a packet.                                    *)
(***************************************************************************)
(* The endpoints and ports that a packet shows.                             *)
Shown(p) == [SrcIP |-> p.SrcIP, SrcPort |-> Uint16(p.Payload, 1),
             DstIP |-> p.DstIP, DstPort |-> Uint16(p.Payload, 3)]

(* The first fragment of a segment shows the connection ft from one end.    *)
Belongs(p, ft) ==
    FirstFragment(p) =>
        /\ Shown(p) \in {ft, Reverse(ft)}
        /\ 8 <= Len(p.Payload)
        /\ p.Protocol = TCP => 24 <= Len(p.Payload) /\ p.Payload[13] \div 16 = 6

(* The header is as it was when its checksum was calculated.                *)
HeaderSealed(p) == p.Checksum = CalculateIPChecksum(Header(p, p.TotalLen, 0))

(* The checksum that the code calculates for a packet's segment.            *)
TransportChecksum(p) ==
    IF p.Protocol = TCP THEN CalculateTCPChecksum(p.SrcIP, p.DstIP, p.Payload)
    ELSE CalculateUDPChecksum(p.SrcIP, p.DstIP, p.Payload)

(* The segment has the checksum of the rest of it.                          *)
SegmentSummed(p) ==
    FirstFragment(p) /\ Uint16(p.Payload, TransportAt(p)) = TransportChecksum(p)

(* Packets that agree on what no caller changes, and on the TTL, have one   *)
(* header.                                                                  *)
LEMMA LikeHeader ==
  ASSUME NEW p, NEW q, Like(q, p), q.TTL = p.TTL, NEW t, NEW c
  PROVE  Header(q, t, c) = Header(p, t, c)
BY DEF Header, Like

(* They have the same kind of segment, or none, between the same endpoints. *)
LEMMA LikeFirst ==
  ASSUME NEW p, NEW q, Like(q, p)
  PROVE  /\ FirstFragment(q) <=> FirstFragment(p)
         /\ q.Protocol = p.Protocol /\ TransportAt(q) = TransportAt(p)
         /\ q.SrcIP = p.SrcIP /\ q.DstIP = p.DstIP /\ q.HeaderLen = p.HeaderLen
BY DEF FirstFragment, TransportAt, Like

(* With one payload they belong to one connection.                          *)
LEMMA LikeBelongs ==
  ASSUME NEW p, NEW q, Like(q, p), q.Payload = p.Payload, NEW ft, Belongs(p, ft)
  PROVE  Belongs(q, ft)
<1>1. Shown(q) = Shown(p)
  BY DEF Shown, Like
<1> QED
  BY <1>1, LikeFirst DEF Belongs

(* With one length the header of one is sealed if that of the other is.     *)
LEMMA LikeSealed ==
  ASSUME NEW p, NEW q, Like(q, p), q.TTL = p.TTL, q.TotalLen = p.TotalLen,
         q.Checksum = p.Checksum, HeaderSealed(p)
  PROVE  HeaderSealed(q)
<1>1. Header(q, p.TotalLen, 0) = Header(p, p.TotalLen, 0)
  BY LikeHeader
<1> QED
  BY <1>1 DEF HeaderSealed

(* With one payload the segment of one is summed if that of the other is.   *)
LEMMA LikeSummed ==
  ASSUME NEW p, NEW q, Like(q, p), q.Payload = p.Payload, SegmentSummed(p)
  PROVE  SegmentSummed(q)
BY LikeFirst DEF SegmentSummed, TransportChecksum

(***************************************************************************)
(* The steps of callers, one at a time.                                    *)
(***************************************************************************)
(* A new TTL changes nothing of the segment.                                *)
LEMMA TTLSet ==
  ASSUME NEW p, Wellformed(p), NEW ft, Belongs(p, ft), NEW ttl \in Byte
  PROVE  LET q == [p EXCEPT !.TTL = ttl]
         IN  /\ Wellformed(q) /\ Belongs(q, ft)
             /\ SegmentSummed(p) => SegmentSummed(q)
<1> DEFINE q == [p EXCEPT !.TTL = ttl]
           r == With(p, p.TotalLen, ttl, p.Checksum, p.Payload)
<1>1. q = r
  BY WithIsExcept
<1>2. /\ p.TotalLen \in Word /\ p.TotalLen # 0 /\ p.Checksum \in Word /\ p.Payload \in Seq(Byte)
      /\ p.HeaderLen + Len(p.Payload) <= TopWord
  BY PacketFields
<1>3. Wellformed(r)
  BY <1>2, WithTyped
<1>4. Like(r, p) /\ r.Payload = p.Payload
  BY WithFields
<1> HIDE DEF q, r
<1>5. Belongs(r, ft) /\ (SegmentSummed(p) => SegmentSummed(r))
  BY <1>4, LikeBelongs, LikeSummed
<1> QED
  BY <1>1, <1>3, <1>5 DEF q

(* Nor does a new header checksum.                                          *)
LEMMA ChecksumSet ==
  ASSUME NEW p, Wellformed(p), NEW ft, Belongs(p, ft), NEW c \in Word
  PROVE  LET q == [p EXCEPT !.Checksum = c]
         IN  /\ Wellformed(q) /\ Belongs(q, ft)
             /\ Like(q, p) /\ q.TTL = p.TTL /\ q.TotalLen = p.TotalLen /\ q.Checksum = c
             /\ q.Payload = p.Payload
             /\ SegmentSummed(p) => SegmentSummed(q)
<1> DEFINE q == [p EXCEPT !.Checksum = c]
           r == With(p, p.TotalLen, p.TTL, c, p.Payload)
<1>1. q = r
  BY WithIsExcept
<1>2. /\ p.TotalLen \in Word /\ p.TotalLen # 0 /\ p.TTL \in Byte /\ p.Payload \in Seq(Byte)
      /\ p.HeaderLen + Len(p.Payload) <= TopWord
  BY PacketFields
<1>3. Wellformed(r)
  BY <1>2, WithTyped
<1>4. /\ Like(r, p) /\ r.Payload = p.Payload /\ r.TTL = p.TTL /\ r.TotalLen = p.TotalLen
      /\ r.Checksum = c
  BY WithFields
<1> HIDE DEF q, r
<1>5. Belongs(r, ft) /\ (SegmentSummed(p) => SegmentSummed(r))
  BY <1>4, LikeBelongs, LikeSummed
<1> QED
  BY <1>1, <1>3, <1>4, <1>5 DEF q

(* RecalculateIPChecksum                                                    *)
LEMMA HeaderRecalculated ==
  ASSUME NEW p, Wellformed(p), NEW ft, Belongs(p, ft)
  PROVE  LET q == RecalculateIPChecksum(p)
         IN  /\ Wellformed(q) /\ Belongs(q, ft)
             /\ SegmentSummed(p) => SegmentSummed(q)
             /\ HeaderSealed(q)
<1> DEFINE c == CalculateIPChecksum(Header(p, p.TotalLen, 0))
           q == [p EXCEPT !.Checksum = c]
<1>1. c \in Word
  BY HeaderChecksumFits
<1>2. RecalculateIPChecksum(p) = q
  BY DEF RecalculateIPChecksum
<1>c. c = CalculateIPChecksum(Header(p, p.TotalLen, 0))
  OBVIOUS
<1> HIDE DEF c
<1>3. /\ Wellformed(q) /\ Belongs(q, ft)
      /\ Like(q, p) /\ q.TTL = p.TTL /\ q.TotalLen = p.TotalLen /\ q.Checksum = c
      /\ q.Payload = p.Payload
      /\ SegmentSummed(p) => SegmentSummed(q)
  BY <1>1, ChecksumSet
<1> HIDE DEF q
<1>4. Header(q, p.TotalLen, 0) = Header(p, p.TotalLen, 0)
  BY <1>3, LikeHeader
<1>5. HeaderSealed(q)
  BY <1>c, <1>3, <1>4 DEF HeaderSealed
<1> QED
  BY <1>2, <1>3, <1>5

(* RecalculateTCPChecksum and RecalculateUDPChecksum                        *)
LEMMA TransportRecalculated ==
  ASSUME NEW p, Wellformed(p), FirstFragment(p), NEW ft, Belongs(p, ft),
         NEW q \in {RecalculateTCPChecksum(p), RecalculateUDPChecksum(p)}
  PROVE  /\ Wellformed(q) /\ Belongs(q, ft)
         /\ SegmentSummed(p) => SegmentSummed(q)
<1> DEFINE c == CalculateTCPChecksum(p.SrcIP, p.DstIP, p.Payload)
           d == CalculateUDPChecksum(p.SrcIP, p.DstIP, p.Payload)
           k == Len(p.Payload)
<1>1. k \in Nat /\ 8 <= k /\ (p.Protocol = TCP => 24 <= k)
  BY PacketFields DEF Belongs
<1>2. (p.Protocol = TCP => c \in Word) /\ d \in Word
  <2>1. p.Protocol = TCP => 18 <= k
    BY <1>1
  <2> QED
    BY <1>1, <2>1, TransportChecksumsFit
<1> HIDE DEF c, d
<1>3. \/ q = p
      \/ p.Protocol = TCP /\ q = [p EXCEPT !.Checksum = c]
      \/ q = [p EXCEPT !.Checksum = d]
  <2>1. RecalculateTCPChecksum(p) =
          IF p.Protocol # TCP THEN p ELSE IF k < 18 THEN Panic ELSE [p EXCEPT !.Checksum = c]
    BY DEF RecalculateTCPChecksum, c
  <2>2. RecalculateUDPChecksum(p) =
          IF p.Protocol # UDP THEN p ELSE IF k < 8 THEN Panic ELSE [p EXCEPT !.Checksum = d]
    BY DEF RecalculateUDPChecksum, d
  <2>3. ~(k < 8) /\ (p.Protocol = TCP => ~(k < 18))
    BY <1>1
  <2> HIDE DEF k
  <2> QED
    BY <2>1, <2>2, <2>3, Zenon
<1>4. ASSUME NEW x \in Word, q = [p EXCEPT !.Checksum = x]
      PROVE  /\ Wellformed(q) /\ Belongs(q, ft)
             /\ SegmentSummed(p) => SegmentSummed(q)
  BY <1>4, ChecksumSet
<1> QED
  BY <1>2, <1>3, <1>4

(* RecalculateChecksums of a packet whose segment holds its checksum, or    *)
(* needs none                                                               *)
LEMMA AllRecalculated ==
  ASSUME NEW p, Wellformed(p), NEW ft, Belongs(p, ft), FirstFragment(p) \/ p.Protocol = ICMP
  PROVE  LET q == RecalculateChecksums(p)
         IN  /\ Wellformed(q) /\ Belongs(q, ft)
             /\ SegmentSummed(p) => SegmentSummed(q)
             /\ HeaderSealed(q)
<1> DEFINE r == RecalculateTransportChecksum(p)
           q == RecalculateIPChecksum(r)
<1>1. Wellformed(r) /\ Belongs(r, ft) /\ (SegmentSummed(p) => SegmentSummed(r))
  <2>1. CASE FirstFragment(p)
    <3>1. r \in {RecalculateTCPChecksum(p), RecalculateUDPChecksum(p)}
      BY DEF RecalculateTransportChecksum
    <3> QED
      BY <2>1, <3>1, TransportRecalculated
  <2>2. CASE p.Protocol = ICMP
    <3>1. p.Protocol # TCP /\ p.Protocol # UDP
      BY <2>2 DEF TCP, UDP, ICMP
    <3>2. r = p
      BY <3>1 DEF RecalculateTransportChecksum, RecalculateUDPChecksum
    <3> QED
      BY <3>2
  <2> QED
    BY <2>1, <2>2
<1>2. r # Panic
  <2> HIDE DEF r
  <2>1. [r EXCEPT !.TTL = 0] = With(r, r.TotalLen, 0, r.Checksum, r.Payload)
        /\ r = With(r, r.TotalLen, r.TTL, r.Checksum, r.Payload)
    BY <1>1, WithIsExcept
  <2>2. With(r, r.TotalLen, r.TTL, r.Checksum, r.Payload) # Panic
    BY WithIsNoPanic
  <2> QED
    BY <2>1, <2>2
<1>3. RecalculateChecksums(p) = q
  BY <1>2 DEF RecalculateChecksums
<1> HIDE DEF r
<1>4. /\ Wellformed(q) /\ Belongs(q, ft) /\ (SegmentSummed(r) => SegmentSummed(q))
      /\ HeaderSealed(q)
  BY <1>1, HeaderRecalculated
<1> HIDE DEF q
<1> QED
  BY <1>1, <1>3, <1>4

(* A payload that keeps what the connection is known by.                    *)
LEMMA PayloadSet ==
  ASSUME NEW p, Wellformed(p), FirstFragment(p), NEW ft, Belongs(p, ft),
         NEW total \in Word, total # 0, NEW payload \in Seq(Byte),
         p.HeaderLen + Len(payload) <= TopWord,
         8 <= Len(payload), \A i \in 1..4 : payload[i] = p.Payload[i],
         p.Protocol = TCP => 24 <= Len(payload) /\ payload[13] = p.Payload[13]
  PROVE  LET q == With(p, total, p.TTL, p.Checksum, payload)
         IN  Wellformed(q) /\ FirstFragment(q) /\ Belongs(q, ft)
<1> DEFINE q == With(p, total, p.TTL, p.Checksum, payload)
<1>1. p.TTL \in Byte /\ p.Checksum \in Word
  BY PacketFields
<1>2. Wellformed(q)
  BY <1>1, WithTyped
<1>3. Like(q, p) /\ q.Payload = payload
  BY WithFields
<1> HIDE DEF q
<1>4. FirstFragment(q) /\ q.Protocol = p.Protocol /\ q.SrcIP = p.SrcIP /\ q.DstIP = p.DstIP
  BY <1>3, LikeFirst
<1>5. /\ Shown(p) \in {ft, Reverse(ft)}
      /\ p.Protocol = TCP => p.Payload[13] \div 16 = 6
  BY DEF Belongs
<1>6. Uint16(payload, 1) = Uint16(p.Payload, 1) /\ Uint16(payload, 3) = Uint16(p.Payload, 3)
  <2>1. /\ payload[1] = p.Payload[1] /\ payload[2] = p.Payload[2]
        /\ payload[3] = p.Payload[3] /\ payload[4] = p.Payload[4]
    OBVIOUS
  <2>2. Uint16(payload, 1) = 256 * payload[1] + payload[2]
        /\ Uint16(payload, 3) = 256 * payload[3] + payload[4]
    BY DEF Uint16
  <2>3. Uint16(p.Payload, 1) = 256 * p.Payload[1] + p.Payload[2]
        /\ Uint16(p.Payload, 3) = 256 * p.Payload[3] + p.Payload[4]
    BY DEF Uint16
  <2> QED
    BY <2>1, <2>2, <2>3
<1>7. Shown(q) = Shown(p)
  BY <1>3, <1>4, <1>6 DEF Shown
<1>8. Belongs(q, ft)
  BY <1>3, <1>4, <1>5, <1>7 DEF Belongs
<1> QED
  BY <1>2, <1>4, <1>8 DEF q

(* A header whose text another one replaces.                                *)
LEMMA TextSet ==
  ASSUME NEW p, Wellformed(p), FirstFragment(p), NEW ft, Belongs(p, ft), NEW text \in Texts
  PROVE  LET r == [p EXCEPT !.Payload = SubSeq(p.Payload, 1, TextAt(p.Protocol)) \o text]
             s == [r EXCEPT !.TotalLen = SentLen(r)]
         IN  Wellformed(r) /\ Belongs(r, ft) /\ Wellformed(s) /\ Belongs(s, ft)
<1> DEFINE head == TextAt(p.Protocol)
           d == p.Payload
           x == SubSeq(d, 1, head)
           y == x \o text
           r == [p EXCEPT !.Payload = y]
           whole == SentLen(r)
           s == [r EXCEPT !.TotalLen = whole]
           k == Len(text)
           n == p.HeaderLen
<1>1. /\ 8 <= Len(d)
      /\ p.Protocol = TCP => 24 <= Len(d)
  BY DEF Belongs
<1>2. d \in Seq(Byte) /\ Len(d) \in Nat /\ n \in HeaderLens /\ p.TotalLen \in Word /\ p.TotalLen # 0
  BY PacketFields
<1>3. text \in Seq(Byte) /\ k \in Nat /\ k + 84 <= TopWord
  BY NetworkAssumption, LenProperties
<1>4. head \in Nat /\ 8 <= head /\ head <= 24 /\ head <= Len(d) /\ (p.Protocol = TCP => head = 24)
  BY <1>1 DEF TextAt
<1> HIDE DEF head
<1>5. IsBytes(x, head) /\ \A i \in 1..head : x[i] = d[i]
  <2> DEFINE l == Len(d)
  <2>1. IsBytes(d, l) /\ l \in Nat /\ head <= l
    BY <1>2, <1>4 DEF IsBytes
  <2> HIDE DEF d, l
  <2> QED
    BY <1>4, <2>1, Front
<1>6. IsBytes(y, head + k) /\ \A i \in 1..head : y[i] = x[i]
  <2>1. Joins(y, x, text) /\ IsBytes(text, k)
    BY <1>3 DEF Joins, IsBytes
  <2> HIDE DEF x, y, k
  <2> QED
    BY <1>3, <1>4, <1>5, <2>1, Joined
<1>7. y \in Seq(Byte) /\ Len(y) = head + k
  BY <1>6 DEF IsBytes
<1>8. n \in Nat /\ n <= 60 /\ TopWord \in Nat
  <2>1. n \in HeaderLens
    BY <1>2
  <2> HIDE DEF n
  <2> QED
    BY <2>1 DEF HeaderLens, TopWord
<1>9. /\ n + Len(y) <= TopWord /\ n + Len(y) \in Word /\ n + Len(y) # 0 /\ 8 <= Len(y)
      /\ p.Protocol = TCP => 24 <= Len(y)
  <2> HIDE DEF n, k, y
  <2> QED
    BY <1>3, <1>4, <1>7, <1>8 DEF Word
<1>10. \A i \in 1..head : y[i] = d[i]
  BY <1>5, <1>6
<1>11. \A i \in 1..4 : y[i] = d[i]
  BY <1>4, <1>10
<1>12. p.Protocol = TCP => y[13] = d[13]
  BY <1>4, <1>10
<1> HIDE DEF y
<1>13. r = With(p, p.TotalLen, p.TTL, p.Checksum, y)
  BY WithIsExcept
<1>14. Wellformed(r) /\ Belongs(r, ft)
  <2>1. LET q == With(p, p.TotalLen, p.TTL, p.Checksum, y)
        IN  Wellformed(q) /\ FirstFragment(q) /\ Belongs(q, ft)
    BY <1>2, <1>7, <1>9, <1>11, <1>12, PayloadSet
  <2> QED
    BY <1>13, <2>1
<1>15. r.HeaderLen = n /\ r.Payload = y
  BY <1>13, WithFields DEF Like
<1>16. whole = n + Len(y)
  BY <1>15 DEF SentLen
<1> HIDE DEF whole
<1>17. s = With(p, whole, p.TTL, p.Checksum, y)
  <2>1. s = [r EXCEPT !.TotalLen = whole] /\ r = [p EXCEPT !.Payload = y]
    OBVIOUS
  <2> HIDE DEF s, r
  <2> QED
    BY <2>1, WithBoth
<1>18. Wellformed(s) /\ Belongs(s, ft)
  <2>1. LET q == With(p, whole, p.TTL, p.Checksum, y)
        IN  Wellformed(q) /\ FirstFragment(q) /\ Belongs(q, ft)
    BY <1>7, <1>9, <1>11, <1>12, <1>16, PayloadSet
  <2> QED
    BY <1>17, <2>1
<1> HIDE DEF r, s
<1> QED
  BY <1>14, <1>18 DEF r, s, y, whole, head

(* A checksum in its place in a segment.                                    *)
LEMMA ChecksumStored ==
  ASSUME NEW p, Wellformed(p), FirstFragment(p), NEW ft, Belongs(p, ft)
  PROVE  LET q == [p EXCEPT !.Payload =
                       Overwrite(@, TransportAt(p), PutUint16(TransportChecksum(p)))]
         IN  /\ Wellformed(q) /\ Belongs(q, ft) /\ SegmentSummed(q)
             /\ HeaderSealed(p) => HeaderSealed(q)
<1> DEFINE at == TransportAt(p)
           c == TransportChecksum(p)
           d == p.Payload
           n == Len(d)
           y == Overwrite(d, at, PutUint16(c))
           q == With(p, p.TotalLen, p.TTL, p.Checksum, y)
           hi == c \div 256
           lo == c % 256
<1>1. /\ 8 <= n /\ (p.Protocol = TCP => 24 <= n) /\ d \in Seq(Byte) /\ n \in Nat /\ IsBytes(d, n)
  BY PacketFields DEF Belongs, IsBytes
<1>2. c \in Word
  <2>1. p.Protocol = TCP => 18 <= n
    BY <1>1
  <2> QED
    BY <1>1, <2>1, TransportChecksumsFit DEF TransportChecksum
<1>3. /\ at \in Nat /\ 7 <= at /\ at + 1 <= n
      /\ (p.Protocol = TCP => at = 17)
  BY <1>1 DEF TransportAt
<1> HIDE DEF at, c
<1>4. hi \in Byte /\ lo \in Byte /\ PutUint16(c) = <<hi, lo>> /\ c = (256 * hi) + lo
  BY <1>2, WordBytes DEF PutUint16
<1> HIDE DEF hi, lo
<1>5. /\ IsBytes(y, n)
      /\ \A i \in 1..n : y[i] = IF i = at THEN hi ELSE IF i = at + 1 THEN lo ELSE d[i]
  <2>1. y = Overwrite(d, at, <<hi, lo>>)
    BY <1>4
  <2>2. IsBytes(d, n) /\ n \in Nat /\ at \in Nat /\ hi \in Byte /\ lo \in Byte
    BY <1>1, <1>3, <1>4
  <2> HIDE DEF y, n, d
  <2>3. /\ IsBytes(Overwrite(d, at, <<hi, lo>>), n)
        /\ \A i \in 1..n : Overwrite(d, at, <<hi, lo>>)[i] =
                               IF i = at THEN hi ELSE IF i = at + 1 THEN lo ELSE d[i]
    BY <2>2, Overwritten
  <2> QED
    BY <2>1, <2>3, Zenon
<1>6. Overwrite(y, at, <<0, 0>>) = Overwrite(d, at, <<0, 0>>)
  <2> DEFINE o1 == Overwrite(y, at, <<0, 0>>)
             o2 == Overwrite(d, at, <<0, 0>>)
  <2> HIDE DEF y, d, n
  <2>1. /\ IsBytes(o1, n)
        /\ \A i \in 1..n : o1[i] = IF i = at THEN 0 ELSE IF i = at + 1 THEN 0 ELSE y[i]
    BY <1>1, <1>3, <1>5, ZeroByte, Overwritten
  <2>2. /\ IsBytes(o2, n)
        /\ \A i \in 1..n : o2[i] = IF i = at THEN 0 ELSE IF i = at + 1 THEN 0 ELSE d[i]
    BY <1>1, <1>3, ZeroByte, Overwritten
  <2> HIDE DEF o1, o2
  <2>3. \A i \in 1..n : o1[i] = o2[i]
    BY <1>5, <2>1, <2>2
  <2>4. /\ o1 \in Seq(Byte) /\ o2 \in Seq(Byte) /\ Len(o1) = Len(o2) /\ Len(o1) = n
    BY <2>1, <2>2 DEF IsBytes
  <2>5. o1 = o2
    BY <2>3, <2>4, SeqEqual
  <2> QED
    BY <2>5 DEF o1, o2
<1>7. y \in Seq(Byte) /\ Len(y) = n
  BY <1>5 DEF IsBytes
<1>8. (\A i \in 1..4 : y[i] = d[i]) /\ (p.Protocol = TCP => y[13] = d[13])
  <2> HIDE DEF y, d, n
  <2>1. \A i \in 1..4 : i \in 1..n /\ i # at /\ i # at + 1
    BY <1>1, <1>3
  <2>2. p.Protocol = TCP => 13 \in 1..n /\ 13 # at /\ 13 # at + 1
    BY <1>1, <1>3
  <2> QED
    BY <1>5, <2>1, <2>2
<1>9. y[at] = hi /\ y[at + 1] = lo
  <2> HIDE DEF y, d, n
  <2>1. at \in 1..n /\ at + 1 \in 1..n /\ at + 1 # at
    BY <1>1, <1>3
  <2> QED
    BY <1>5, <2>1
<1>10. Uint16(y, at) = c
  BY <1>4, <1>9 DEF Uint16
<1>11. p.TotalLen \in Word /\ p.TotalLen # 0 /\ p.HeaderLen + Len(y) <= TopWord
  BY <1>7, PacketFields
<1> HIDE DEF y
<1>12. Wellformed(q) /\ FirstFragment(q) /\ Belongs(q, ft)
  <2>1. /\ p.TotalLen \in Word /\ p.TotalLen # 0 /\ y \in Seq(Byte) /\ p.HeaderLen + Len(y) <= TopWord
        /\ 8 <= Len(y) /\ (p.Protocol = TCP => 24 <= Len(y))
    BY <1>1, <1>7, <1>11
  <2> QED
    BY <1>8, <2>1, PayloadSet
<1>13. /\ Like(q, p) /\ q.Payload = y /\ q.TotalLen = p.TotalLen /\ q.TTL = p.TTL
       /\ q.Checksum = p.Checksum
  BY WithFields
<1> HIDE DEF q
<1>14. q.Protocol = p.Protocol /\ TransportAt(q) = at /\ q.SrcIP = p.SrcIP /\ q.DstIP = p.DstIP
  BY <1>13, LikeFirst DEF at
<1>15. TransportChecksum(q) = c
  <2>1. Len(y) = Len(d)
    BY <1>7
  <2>2. CASE p.Protocol = TCP
    <3>1. at = 17
      BY <1>3, <2>2
    <3>2. CalculateTCPChecksum(p.SrcIP, p.DstIP, y) = CalculateTCPChecksum(p.SrcIP, p.DstIP, d)
      BY <1>6, <2>1, <3>1 DEF CalculateTCPChecksum
    <3> QED
      BY <1>13, <1>14, <2>2, <3>2 DEF TransportChecksum, c
  <2>3. CASE p.Protocol # TCP
    <3>1. at = 7
      BY <2>3 DEF at, TransportAt
    <3>2. CalculateUDPChecksum(p.SrcIP, p.DstIP, y) = CalculateUDPChecksum(p.SrcIP, p.DstIP, d)
      BY <1>6, <2>1, <3>1 DEF CalculateUDPChecksum
    <3> QED
      BY <1>13, <1>14, <2>3, <3>2 DEF TransportChecksum, c
  <2> QED
    BY <2>2, <2>3
<1>16. SegmentSummed(q)
  BY <1>10, <1>12, <1>13, <1>14, <1>15 DEF SegmentSummed
<1>17. HeaderSealed(p) => HeaderSealed(q)
  BY <1>7, <1>13, LikeSealed
<1>18. q = [p EXCEPT !.Payload = y]
  BY WithIsExcept DEF q
<1>19. [p EXCEPT !.Payload = y] =
         [p EXCEPT !.Payload = Overwrite(@, TransportAt(p), PutUint16(TransportChecksum(p)))]
  BY DEF y, at, c
<1> QED
  BY <1>12, <1>16, <1>17, <1>18, <1>19

(***************************************************************************)
(* The wire.                                                               *)
(***************************************************************************)
LEMMA SerializedBytes ==
  ASSUME NEW p, Wellformed(p)
  PROVE  Serialize(p) \in Seq(Byte) /\ Serialize(p) # None
<1> DEFINE s == Serialize(p)
           w == SentLen(p)
<1>1. IsBytes(s, w) /\ w # 0
  BY SentBytes
<1> HIDE DEF s, w
<1>2. s \in Seq(Byte) /\ s # None
  BY <1>1 DEF IsBytes, None
<1> QED
  BY <1>2 DEF s

(* What is sent is the packet with its length set.                          *)
LEMMA PacketSent ==
  ASSUME NEW p, Wellformed(p), NEW ft, Belongs(p, ft)
  PROVE  LET q == [p EXCEPT !.TotalLen = SentLen(p)]
         IN  /\ Wellformed(q) /\ Belongs(q, ft) /\ HasWholeLength(q)
             /\ Serialize(p) = Serialize(q)
             /\ HeaderSealed(p) /\ HasWholeLength(p) => HeaderSealed(q)
             /\ SegmentSummed(p) => SegmentSummed(q)
<1> DEFINE whole == SentLen(p)
           q == [p EXCEPT !.TotalLen = whole]
           r == With(p, whole, p.TTL, p.Checksum, p.Payload)
<1>1. whole \in Word /\ whole # 0
  BY SentBytes
<1>w. whole = p.HeaderLen + Len(p.Payload)
  BY DEF SentLen
<1>s. HasWholeLength(p) => p.TotalLen = whole
  BY DEF HasWholeLength
<1>r. Serialize(p) = Header(p, whole, p.Checksum) \o p.Payload
  BY DEF Serialize, SentLen
<1> HIDE DEF whole
<1>2. /\ p.TTL \in Byte /\ p.Checksum \in Word /\ p.Payload \in Seq(Byte)
      /\ p.HeaderLen + Len(p.Payload) <= TopWord
  BY PacketFields
<1>3. Wellformed(r)
  BY <1>1, <1>2, WithTyped
<1>4. /\ Like(r, p) /\ r.TotalLen = whole /\ r.TTL = p.TTL /\ r.Checksum = p.Checksum
      /\ r.Payload = p.Payload
  BY WithFields
<1>q. q = r
  BY WithIsExcept
<1> HIDE DEF q, r
<1>5. Belongs(r, ft) /\ (SegmentSummed(p) => SegmentSummed(r))
  BY <1>4, LikeBelongs, LikeSummed
<1>6. r.HeaderLen = p.HeaderLen
  BY <1>4, LikeFirst
<1>7. HasWholeLength(r) /\ SentLen(r) = whole
  BY <1>w, <1>4, <1>6 DEF HasWholeLength, SentLen
<1>8. Header(r, whole, p.Checksum) = Header(p, whole, p.Checksum)
  BY <1>4, LikeHeader
<1>9. Serialize(p) = Serialize(r)
  BY <1>r, <1>4, <1>7, <1>8 DEF Serialize, SentLen
<1>10. HeaderSealed(p) /\ HasWholeLength(p) => HeaderSealed(r)
  BY <1>s, <1>4, LikeSealed
<1> QED
  BY <1>q, <1>3, <1>5, <1>7, <1>9, <1>10 DEF q, whole

(* A frame that was cut behind the header of its segment is parsed as the   *)
(* packet with the rest of its payload, whose header still says the length  *)
(* that was sent.                                                           *)
LEMMA CutBack ==
  ASSUME NEW p, Wellformed(p), HasWholeLength(p), NEW ft, Belongs(p, ft),
         NEW m \in Nat, TextAt(p.Protocol) <= m, m <= Len(p.Payload)
  PROVE  LET q == With(p, p.TotalLen, p.TTL, p.Checksum, SubSeq(p.Payload, 1, m))
         IN  /\ Wellformed(q) /\ Belongs(q, ft)
             /\ HeaderSealed(p) => HeaderSealed(q)
             /\ ParseIPPacket(SubSeq(Serialize(p), 1, p.HeaderLen + m)) = q
<1> DEFINE n == p.HeaderLen
           k == Len(p.Payload)
           w == SentLen(p)
           t == p.TotalLen
           c == p.Checksum
           h == Header(p, w, c)
           s == Serialize(p)
           d == SubSeq(s, 1, n + m)
           y == SubSeq(p.Payload, 1, m)
           q == With(p, t, p.TTL, c, y)
<1>1. /\ n \in Nat /\ k \in Nat /\ w \in Nat /\ w = n + k /\ IsBytes(s, w)
      /\ \A i \in 1..n : s[i] = h[i]
      /\ \A i \in 1..k : s[n + i] = p.Payload[i]
  BY SentBytes
<1>2. /\ t = w /\ t \in Word /\ t # 0 /\ c \in Word /\ p.TTL \in Byte /\ IsBytes(p.Payload, k)
      /\ n + k <= TopWord
  BY PacketFields DEF HasWholeLength, IsBytes
<1>3. IsBytes(y, m) /\ \A i \in 1..m : y[i] = p.Payload[i]
  <2> DEFINE x == p.Payload
  <2>1. IsBytes(x, k) /\ m <= k
    BY <1>2
  <2> HIDE DEF x, k
  <2>2. IsBytes(SubSeq(x, 1, m), m) /\ \A i \in 1..m : SubSeq(x, 1, m)[i] = x[i]
    BY <1>1, <2>1, Front
  <2> QED
    BY <2>2 DEF x
<1>4. IsBytes(d, n + m) /\ \A i \in 1..(n + m) : d[i] = s[i]
  <2> DEFINE l == n + m
  <2>1. l \in Nat /\ l <= w
    BY <1>1
  <2> HIDE DEF l, s, w, n
  <2>2. IsBytes(SubSeq(s, 1, l), l) /\ \A i \in 1..l : SubSeq(s, 1, l)[i] = s[i]
    BY <1>1, <2>1, Front
  <2> QED
    BY <2>2 DEF l
<1>5. y \in Seq(Byte) /\ Len(y) = m
  BY <1>3 DEF IsBytes
<1> HIDE DEF y
<1>6. n + Len(y) <= TopWord
  <2>1. TopWord \in Nat /\ m <= k
    BY DEF TopWord
  <2> HIDE DEF n, k
  <2> QED
    BY <1>1, <1>2, <1>5, <2>1
<1>7. Wellformed(q)
  BY <1>2, <1>5, <1>6, WithTyped
<1>8. Like(q, p) /\ q.Payload = y /\ q.TotalLen = t /\ q.TTL = p.TTL /\ q.Checksum = c
  BY WithFields
<1>9. q.HeaderLen = n
  BY <1>8, LikeFirst
<1>10. Belongs(q, ft)
  <2>1. CASE FirstFragment(p)
    <3>1. 8 <= Len(y) /\ (p.Protocol = TCP => 24 <= Len(y))
      BY <1>5 DEF TextAt
    <3>2. (\A i \in 1..4 : y[i] = p.Payload[i]) /\ (p.Protocol = TCP => y[13] = p.Payload[13])
      BY <1>3, <1>5, <3>1
    <3> HIDE DEF q
    <3>3. LET r == With(p, t, p.TTL, p.Checksum, y)
          IN  Wellformed(r) /\ FirstFragment(r) /\ Belongs(r, ft)
      BY <1>2, <1>5, <1>6, <2>1, <3>1, <3>2, PayloadSet
    <3> QED
      BY <3>3 DEF q
  <2>2. CASE ~FirstFragment(p)
    <3> HIDE DEF q
    <3> QED
      BY <1>8, <2>2, LikeFirst DEF Belongs
  <2> QED
    BY <2>1, <2>2
<1> HIDE DEF q
<1>11. HeaderSealed(p) => HeaderSealed(q)
  BY <1>8, LikeSealed
<1>12. HeaderIs(h, q, q.TotalLen, q.Checksum)
  <2>1. HeaderIs(Header(q, t, c), q, t, c)
    BY <1>2, <1>7, HeaderBytes
  <2>2. Header(q, t, c) = Header(p, t, c)
    BY <1>8, LikeHeader
  <2> QED
    BY <1>2, <1>8, <2>1, <2>2
<1> HIDE DEF h, s, d, w, t, c, n, k
<1>13. (\A i \in 1..q.HeaderLen : d[i] = h[i])
       /\ (\A i \in 1..Len(q.Payload) : d[q.HeaderLen + i] = q.Payload[i])
  <2>1. \A i \in 1..n : i \in 1..(n + m)
    BY <1>1
  <2>2. \A i \in 1..m : i \in 1..k /\ n + i \in 1..(n + m)
    BY <1>1 DEF k
  <2>3. \A i \in 1..n : d[i] = h[i]
    BY <1>1, <1>4, <2>1
  <2>4. \A i \in 1..m : d[n + i] = y[i]
    BY <1>1, <1>3, <1>4, <2>2
  <2> QED
    BY <1>5, <1>8, <1>9, <2>3, <2>4
<1>14. (IF q.TotalLen <= n + m THEN q.TotalLen ELSE n + m) = q.HeaderLen + Len(q.Payload)
  <2>1. m <= k
    BY DEF k
  <2>2. n \in Nat /\ k \in Nat
    BY <1>1
  <2>3. (IF n + k <= n + m THEN n + k ELSE n + m) = n + m
    BY <2>1, <2>2
  <2>4. q.TotalLen = n + k /\ Len(q.Payload) = m
    BY <1>1, <1>2, <1>5, <1>8
  <2> QED
    BY <1>9, <2>3, <2>4
<1>15. n + m \in Nat
  BY <1>1
<1>16. ParseIPPacket(d) = q
  <2> DEFINE l == n + m
  <2>1. /\ l \in Nat /\ IsBytes(d, l)
        /\ (IF q.TotalLen <= l THEN q.TotalLen ELSE l) = q.HeaderLen + Len(q.Payload)
    BY <1>4, <1>14, <1>15
  <2> HIDE DEF l
  <2> QED
    BY <1>7, <1>12, <1>13, <2>1, ParsedBack
<1> QED
  BY <1>7, <1>10, <1>11, <1>16 DEF q, d, s, n, y, t, c

(* What a receiver of a frame reads of it before it knows how much there    *)
(* is.                                                                      *)
LEMMA FrameSays ==
  ASSUME NEW p, Wellformed(p)
  PROVE  /\ 4 * (Serialize(p)[1] % 16) = p.HeaderLen
         /\ Serialize(p)[10] = p.Protocol
         /\ Len(Serialize(p)) = p.HeaderLen + Len(p.Payload)
<1> DEFINE n == p.HeaderLen
           w == SentLen(p)
           h == Header(p, w, p.Checksum)
           s == Serialize(p)
<1>1. /\ w \in Word /\ w = n + Len(p.Payload) /\ IsBytes(s, w) /\ \A i \in 1..n : s[i] = h[i]
  BY SentBytes
<1>2. n \in HeaderLens /\ p.Checksum \in Word
  BY PacketFields
<1>3. HeaderIs(h, p, w, p.Checksum)
  BY <1>1, <1>2, HeaderBytes
<1>4. h[1] = 64 + (n \div 4) /\ h[10] = p.Protocol
  BY <1>3 DEF HeaderIs
<1>5. 4 * ((64 + (n \div 4)) % 16) = n
  BY <1>2, FirstByte
<1>6. 1 \in 1..n /\ 10 \in 1..n
  <2> HIDE DEF n
  <2> QED
    BY <1>2 DEF HeaderLens
<1>7. Len(s) = w
  BY <1>1 DEF IsBytes
<1> HIDE DEF h, s, w
<1> QED
  BY <1>1, <1>4, <1>5, <1>6, <1>7 DEF s

(***************************************************************************)
(* What arrives.                                                           *)
(***************************************************************************)
(* An end of a connection.                                                  *)
Endpoints(ft) ==
    /\ ft.SrcIP \in Seq(Byte) /\ ft.DstIP \in Seq(Byte)
    /\ ft.SrcPort \in Word /\ ft.DstPort \in Word
    /\ ft = [SrcIP |-> ft.SrcIP, SrcPort |-> ft.SrcPort, DstIP |-> ft.DstIP, DstPort |-> ft.DstPort]
    /\ Len(ft.SrcIP) = Len(ft.DstIP) /\ (Len(ft.SrcIP) = 4 \/ Len(ft.SrcIP) = 16)

(* A connection seen from either side has endpoints.                        *)
LEMMA EitherEnd ==
  ASSUME NEW c \in Connections, NEW ft \in {c, Reverse(c)}
  PROVE  Endpoints(ft)
<1>1. Endpoints(c)
  BY ConnectionTyped DEF Endpoints
<1>2. Endpoints(Reverse(c))
  BY <1>1 DEF Endpoints, Reverse
<1> QED
  BY <1>1, <1>2

(* The sequence numbers of a TCP header that the environment sends.         *)
LEMMA EightLiteral ==
  ASSUME NEW x, x = <<0, 1, 2, 255, 255, 254, 1, 0>>
  PROVE  IsBytes(x, 8)
BY DEF IsBytes, Byte

(* Its data offset of six words, its flags and its window.                  *)
LEMMA MarkedLiteral ==
  ASSUME NEW a \in 0..15, NEW f \in Byte, NEW x, x = <<96 + a, f, 2, 1>>
  PROVE  IsBytes(x, 4) /\ x[1] \div 16 = 6
<1>1. 96 + a \in Byte /\ (96 + a) \div 16 = 6 /\ 2 \in Byte /\ 1 \in Byte
  BY DEF Byte
<1> QED
  BY <1>1 DEF IsBytes

(* The rest of it.                                                          *)
LEMMA OptionLiteral ==
  ASSUME NEW x, x = <<0, 0, 0, 7, 1, 3, 3, 7>>
  PROVE  IsBytes(x, 8)
BY DEF IsBytes, Byte

(* A segment the environment sends.                                         *)
SegmentOK(s, ft, protocol, k) ==
    /\ s \in Seq(Byte) /\ Len(s) <= 24 + k
    /\ protocol \in {TCP, UDP} =>
        8 <= Len(s) /\ Uint16(s, 1) = ft.SrcPort /\ Uint16(s, 3) = ft.DstPort
    /\ protocol = TCP => 24 <= Len(s) /\ s[13] \div 16 = 6

(* It is one, whatever the connection, the protocol and the text.           *)
LEMMA SegmentLaid ==
  ASSUME NEW ft, Endpoints(ft), NEW protocol \in {TCP, UDP, ICMP},
         NEW marks \in (0..15) \X Byte, NEW text, NEW k \in Nat, IsBytes(text, k), 8 + k \in Word
  PROVE  SegmentOK(Segment(ft, protocol, marks, text), ft, protocol, k)
<1> DEFINE ports == PutUint16(ft.SrcPort) \o PutUint16(ft.DstPort)
           s == Segment(ft, protocol, marks, text)
<1>p. TCP # UDP /\ TCP # ICMP /\ UDP # ICMP
  BY DEF TCP, UDP, ICMP
<1>t. IsBytes(ports, 4) /\ Uint16(ports, 1) = ft.SrcPort /\ Uint16(ports, 3) = ft.DstPort
  <2> DEFINE a == PutUint16(ft.SrcPort)
             b == PutUint16(ft.DstPort)
             j == a \o b
  <2>1. ft.SrcPort \in Word /\ ft.DstPort \in Word
    BY DEF Endpoints
  <2>2. /\ IsBytes(a, 2) /\ a[1] = ft.SrcPort \div 256 /\ a[2] = ft.SrcPort % 256
        /\ IsBytes(b, 2) /\ b[1] = ft.DstPort \div 256 /\ b[2] = ft.DstPort % 256
    BY <2>1, WordPair
  <2>3. Joins(j, a, b)
    BY DEF Joins
  <2> HIDE DEF a, b, j
  <2>4. IsBytes(j, 4) /\ (\A i \in 1..2 : j[i] = a[i]) /\ (\A i \in 1..2 : j[2 + i] = b[i])
    BY <2>2, <2>3, Joined
  <2>5. j[1] = a[1] /\ j[2] = a[2] /\ j[3] = b[1] /\ j[4] = b[2]
    BY <2>4
  <2>6. Uint16(j, 1) = ft.SrcPort
    BY <2>1, <2>2, <2>5, PairRead
  <2>7. Uint16(j, 3) = ft.DstPort
    BY <2>1, <2>2, <2>5, PairRead
  <2> QED
    BY <2>4, <2>6, <2>7 DEF j, a, b
<1> HIDE DEF ports
(* the words of the front are those of any bytes that begin with it *)
<1>w. ASSUME NEW r, \A i \in 1..4 : r[i] = ports[i]
      PROVE  Uint16(r, 1) = ft.SrcPort /\ Uint16(r, 3) = ft.DstPort
  <2>1. r[1] = ports[1] /\ r[2] = ports[2] /\ r[3] = ports[3] /\ r[4] = ports[4]
    BY <1>w
  <2>2. /\ Uint16(r, 1) = 256 * r[1] + r[2] /\ Uint16(r, 3) = 256 * r[3] + r[4]
        /\ Uint16(ports, 1) = 256 * ports[1] + ports[2]
        /\ Uint16(ports, 3) = 256 * ports[3] + ports[4]
    BY DEF Uint16
  <2> QED
    BY <1>t, <2>1, <2>2
<1>1. CASE protocol = TCP
  <2> DEFINE a == marks[1]
             f == marks[2]
             x == <<0, 1, 2, 255, 255, 254, 1, 0>>
             w == <<96 + a, f, 2, 1>>
             y == <<0, 0, 0, 7, 1, 3, 3, 7>>
             j0 == ports \o x
             j1 == j0 \o w
             j2 == j1 \o y
             j3 == j2 \o text
  <2>1. s = j3
    BY <1>1, <1>p DEF Segment, ports
  <2>2. Joins(j0, ports, x) /\ Joins(j1, j0, w) /\ Joins(j2, j1, y) /\ Joins(j3, j2, text)
    BY DEF Joins
  <2>m. a \in 0..15 /\ f \in Byte
    OBVIOUS
  <2> HIDE DEF a, f
  <2>3. IsBytes(x, 8) /\ IsBytes(w, 4) /\ w[1] \div 16 = 6 /\ IsBytes(y, 8)
    BY <2>m, EightLiteral, MarkedLiteral, OptionLiteral
  <2> HIDE DEF x, y, w, j0, j1, j2, j3, s
  <2>0. IsBytes(j0, 12) /\ (\A i \in 1..4 : j0[i] = ports[i])
    BY <1>t, <2>2, <2>3, Joined
  <2>4. IsBytes(j1, 16) /\ (\A i \in 1..12 : j1[i] = j0[i]) /\ (\A i \in 1..4 : j1[12 + i] = w[i])
    BY <2>0, <2>2, <2>3, Joined
  <2>5. IsBytes(j2, 24) /\ (\A i \in 1..16 : j2[i] = j1[i])
    BY <2>2, <2>3, <2>4, Joined
  <2>6. IsBytes(j3, 24 + k) /\ (\A i \in 1..24 : j3[i] = j2[i])
    BY <2>2, <2>5, Joined
  <2>7. \A i \in 1..4 : j3[i] = ports[i]
    BY <2>0, <2>4, <2>5, <2>6
  <2>8. j3[13] \div 16 = 6
    <3>1. j3[13] = j2[13] /\ j2[13] = j1[13]
      BY <2>5, <2>6
    <3>2. j1[12 + 1] = w[1]
      BY <2>4
    <3> QED
      BY <2>3, <3>1, <3>2
  <2>9. Uint16(j3, 1) = ft.SrcPort /\ Uint16(j3, 3) = ft.DstPort
    BY <1>w, <2>7
  <2>10. j3 \in Seq(Byte) /\ Len(j3) = 24 + k
    BY <2>6 DEF IsBytes
  <2> QED
    BY <1>1, <2>1, <2>8, <2>9, <2>10 DEF SegmentOK, s
<1>2. CASE protocol = UDP
  <2> DEFINE x == PutUint16(8 + Len(text))
             y == <<0, 0>>
             j1 == ports \o x
             j2 == j1 \o y
             j3 == j2 \o text
  <2>1. s = j3
    BY <1>2, <1>p DEF Segment, ports
  <2>2. Joins(j1, ports, x) /\ Joins(j2, j1, y) /\ Joins(j3, j2, text)
    BY DEF Joins
  <2>3. IsBytes(x, 2) /\ IsBytes(y, 2)
    <3>1. 8 + Len(text) \in Word
      BY DEF IsBytes
    <3> QED
      BY <3>1, ZeroByte, BytePair, WordPair
  <2> HIDE DEF x, y, j1, j2, j3, s
  <2>4. IsBytes(j1, 6) /\ (\A i \in 1..4 : j1[i] = ports[i])
    BY <1>t, <2>2, <2>3, Joined
  <2>5. IsBytes(j2, 8) /\ (\A i \in 1..6 : j2[i] = j1[i])
    BY <2>2, <2>3, <2>4, Joined
  <2>6. IsBytes(j3, 8 + k) /\ (\A i \in 1..8 : j3[i] = j2[i])
    BY <2>2, <2>5, Joined
  <2>7. \A i \in 1..4 : j3[i] = ports[i]
    BY <2>4, <2>5, <2>6
  <2>9. Uint16(j3, 1) = ft.SrcPort /\ Uint16(j3, 3) = ft.DstPort
    BY <1>w, <2>7
  <2>10. j3 \in Seq(Byte) /\ Len(j3) = 8 + k
    BY <2>6 DEF IsBytes
  <2> QED
    BY <1>2, <1>p, <2>1, <2>9, <2>10 DEF SegmentOK, s
<1>3. CASE protocol = ICMP
  <2> DEFINE x == <<8, 0, 0, 0>>
             j == x \o text
  <2>1. s = j
    BY <1>3, <1>p DEF Segment
  <2>2. Joins(j, x, text)
    BY DEF Joins
  <2>3. IsBytes(x, 4)
    BY DEF IsBytes, Byte
  <2> HIDE DEF x, j, s
  <2>4. IsBytes(j, 4 + k)
    BY <2>2, <2>3, Joined
  <2>5. j \in Seq(Byte) /\ Len(j) = 4 + k
    BY <2>4 DEF IsBytes
  <2> QED
    BY <1>3, <1>p, <2>1, <2>5 DEF SegmentOK, s
<1> QED
  BY <1>1, <1>2, <1>3

(* A word is the flags and the offset that ParseIPPacket takes it apart     *)
(* into.                                                                    *)
LEMMA FlagsRejoin ==
  ASSUME NEW w \in Word
  PROVE  /\ w \div 8192 \in ThreeBits /\ w % 8192 \in ThirteenBits
         /\ JoinFlags(w \div 8192, w % 8192) = w
<1>1. w \in Int /\ 0 <= w /\ w <= 65535
  BY WordIsNumber
<1> DEFINE f == w \div 8192
           o == w % 8192
<1>2. f \in Int /\ 0 <= f /\ f <= 7 /\ o \in Int /\ 0 <= o /\ o <= 8191 /\ w = 8192 * f + o
  BY <1>1
<1> HIDE DEF f, o
<1>3. f \in ThreeBits /\ o \in ThirteenBits
  BY <1>2 DEF ThreeBits, ThirteenBits
<1>4. (8192 * f) % 65536 = 8192 * f /\ o % 8192 = o
  BY <1>2
<1>5. JoinFlags(f, o) = w
  BY <1>2, <1>4 DEF JoinFlags
<1> QED
  BY <1>3, <1>5 DEF f, o

(* The ID and the checksum of what the environment sends.                   *)
LEMMA LiteralPairs ==
  258 \in Word /\ PutUint16(258) = <<1, 2>> /\ 0 \in Word /\ PutUint16(0) = <<0, 0>>
<1>1. 258 \in Word /\ 0 \in Word
  BY NumberIsWord
<1>2. 258 \div 256 = 1 /\ 258 % 256 = 2 /\ 0 \div 256 = 0 /\ 0 % 256 = 0
  OBVIOUS
<1> QED
  BY <1>1, <1>2 DEF PutUint16

(* A datagram between endpoints of IPv4, given its payload.                 *)
LaidOut(ft, protocol, options, fragment, ttl, payload) ==
    LET headerLen == 20 + Len(options)
    IN  <<64 + (headerLen \div 4), 0>> \o PutUint16(headerLen + Len(payload))
            \o <<1, 2>> \o PutUint16(fragment) \o <<ttl, protocol>> \o <<0, 0>>
            \o ft.SrcIP \o ft.DstIP \o options \o payload

(* Every such datagram is what Serialize makes of some packet of whole      *)
(* length.                                                                  *)
LEMMA LaidOutIsPacket ==
  ASSUME NEW ft, NEW protocol \in Byte, NEW options, NEW fragment \in Word, NEW ttl \in Byte,
         NEW payload, Endpoints(ft), Len(ft.SrcIP) = 4,
         options \in Seq(Byte), Len(options) % 4 = 0, Len(options) <= 40,
         payload \in Seq(Byte), 20 + Len(options) + Len(payload) <= TopWord
  PROVE  \E p : /\ Wellformed(p) /\ HasWholeLength(p)
                /\ LaidOut(ft, protocol, options, fragment, ttl, payload) = Serialize(p)
                /\ p.Protocol = protocol /\ p.FragOffset = fragment % 8192
                /\ p.SrcIP = ft.SrcIP /\ p.DstIP = ft.DstIP /\ p.Payload = payload
<1> DEFINE o == Len(options)
           n == 20 + o
           k == Len(payload)
           whole == n + k
           f == fragment \div 8192
           g == fragment % 8192
           id == 258
           zero == 0
           p == PacketOf(4, n, zero, whole, id, f, g, ttl, protocol, zero,
                         ft.SrcIP, ft.DstIP, options, payload)
<1>1. o \in Nat /\ k \in Nat /\ o % 4 = 0 /\ o <= 40 /\ IsBytes(options, o)
  BY LenProperties DEF IsBytes
<1>2. n \in HeaderLens /\ n - 20 = o
  <2> HIDE DEF o
  <2>1. n % 4 = 0 /\ n \in 20..60
    BY <1>1
  <2> QED
    BY <1>1, <2>1 DEF HeaderLens
<1>3. whole \in Word /\ whole # 0 /\ n + k <= TopWord
  <2>1. TopWord \in Nat /\ n + k <= TopWord
    BY DEF TopWord
  <2> HIDE DEF o, k
  <2> QED
    BY <1>1, <2>1 DEF Word
<1>4. f \in ThreeBits /\ g \in ThirteenBits /\ JoinFlags(f, g) = fragment
  BY FlagsRejoin
<1>5. id \in Word /\ zero \in Word /\ zero \in Byte
      /\ PutUint16(id) = <<1, 2>> /\ PutUint16(zero) = <<0, 0>>
  BY LiteralPairs, ZeroByte
<1>6. IsBytes(ft.SrcIP, 4) /\ IsBytes(ft.DstIP, 4)
  BY DEF Endpoints, IsBytes
<1> HIDE DEF f, g, id, zero
<1>7. Wellformed(p)
  <2>1. IsBytes(options, n - 20)
    BY <1>1, <1>2
  <2> DEFINE four == 4
  <2>2. four = 4
    OBVIOUS
  <2> HIDE DEF n, whole, o, k, four
  <2>3. n + Len(payload) <= TopWord
    BY <1>3 DEF k
  <2>4. Wellformed(PacketOf(four, n, zero, whole, id, f, g, ttl, protocol, zero,
                         ft.SrcIP, ft.DstIP, options, payload))
    BY <1>2, <1>3, <1>4, <1>5, <1>6, <2>1, <2>2, <2>3, PacketOfTyped
  <2> QED
    BY <2>4 DEF four
<1>8. /\ p.Version = 4 /\ p.HeaderLen = n /\ p.TOS = zero /\ p.TotalLen = whole /\ p.ID = id
      /\ p.Flags = f /\ p.FragOffset = g /\ p.TTL = ttl /\ p.Protocol = protocol
      /\ p.Checksum = zero /\ p.SrcIP = ft.SrcIP /\ p.DstIP = ft.DstIP /\ p.Options = options
      /\ p.Payload = payload
  <2> HIDE DEF n, whole
  <2> QED
    BY DEF PacketOf
<1> HIDE DEF p
<1>9. HasWholeLength(p) /\ SentLen(p) = whole
  BY <1>8 DEF HasWholeLength, SentLen
<1>10. FlagsWord(p) = fragment
  BY <1>4, <1>8 DEF FlagsWord
<1>11. Serialize(p) = Header(p, whole, zero) \o payload
  BY <1>8, <1>9 DEF Serialize, SentLen
<1>12. Header(p, whole, zero) = PlainHeader(p, whole, zero)
  BY <1>3, <1>7, HeaderPlain
<1>13. PlainHeader(p, whole, zero) =
         <<64 + (n \div 4), 0>> \o PutUint16(whole) \o <<1, 2>> \o PutUint16(fragment)
            \o <<ttl, protocol>> \o <<0, 0>> \o ft.SrcIP \o ft.DstIP \o options
  <2>1. PlainHeader(p, whole, zero) =
          <<64 + (p.HeaderLen \div 4), p.TOS>> \o PutUint16(whole) \o PutUint16(p.ID)
            \o PutUint16(FlagsWord(p)) \o <<p.TTL, p.Protocol>> \o PutUint16(zero)
            \o p.SrcIP \o p.DstIP \o p.Options
    BY DEF PlainHeader
  <2> HIDE DEF n, whole
  <2>2. PlainHeader(p, whole, zero) =
          <<64 + (n \div 4), zero>> \o PutUint16(whole) \o PutUint16(id)
            \o PutUint16(fragment) \o <<ttl, protocol>> \o PutUint16(zero)
            \o ft.SrcIP \o ft.DstIP \o options
    BY <1>8, <1>10, <2>1, Zenon
  <2> QED
    BY <1>5, <2>2 DEF zero
<1>14. Serialize(p) = LaidOut(ft, protocol, options, fragment, ttl, payload)
  BY <1>11, <1>12, <1>13, Zenon DEF LaidOut, n, whole, o, k
<1> QED
  BY <1>7, <1>8, <1>9, <1>14 DEF g

(* Every datagram that arrives is one of IPv6, or a packet of the           *)
(* connection.                                                              *)
LEMMA DatagramArrives ==
  ASSUME NEW c \in Connections, NEW ft \in {c, Reverse(c)}, NEW protocol \in {TCP, UDP, ICMP},
         NEW marks \in Marks, NEW options \in OptionLists, NEW fragment \in Fragments, NEW ttl \in TTLs,
         NEW text \in Texts
  PROVE  LET d == Datagram(ft, protocol, marks, options, fragment, ttl, text)
         IN  \/ d = Zeros(40)
             \/ \E p : Wellformed(p) /\ Belongs(p, c) /\ HasWholeLength(p) /\ d = Serialize(p)
<1> DEFINE d == Datagram(ft, protocol, marks, options, fragment, ttl, text)
           segment == Segment(ft, protocol, marks, text)
           payload == IF fragment % 8192 # 0 THEN text ELSE segment
           k == Len(text)
<1>1. Endpoints(ft)
  BY EitherEnd
<1>2. CASE Len(ft.SrcIP) = 16
  BY <1>2 DEF Datagram
<1>3. CASE Len(ft.SrcIP) = 4
  <2>1. d = LaidOut(ft, protocol, options, fragment, ttl, payload)
    BY <1>3 DEF Datagram, LaidOut
  <2>2. text \in Seq(Byte) /\ k \in Nat /\ k + 84 <= TopWord /\ IsBytes(text, k)
    BY NetworkAssumption, LenProperties DEF IsBytes
  <2>3. /\ options \in Seq(Byte) /\ Len(options) % 4 = 0 /\ Len(options) <= 40
        /\ fragment \in Word /\ ttl \in Byte /\ Len(options) \in Nat
    BY NetworkAssumption, LenProperties
  <2>4. protocol \in Byte
    BY DEF TCP, UDP, ICMP, Byte
  <2>m. marks \in (0..15) \X Byte
    BY NetworkAssumption
  <2>5. 8 + k \in Word
    <3>1. TopWord \in Nat
      BY DEF TopWord
    <3> HIDE DEF k
    <3> QED
      BY <2>2, <3>1 DEF Word
  <2>6. SegmentOK(segment, ft, protocol, k)
    BY <1>1, <2>2, <2>5, <2>m, SegmentLaid
  <2> HIDE DEF segment
  <2>7. payload \in Seq(Byte) /\ Len(payload) <= 24 + k
    <3>1. segment \in Seq(Byte) /\ Len(segment) <= 24 + k
      BY <2>6 DEF SegmentOK
    <3>2. text \in Seq(Byte) /\ Len(text) <= 24 + k
      BY <2>2
    <3> QED
      BY <3>1, <3>2
  <2>p. payload = IF fragment % 8192 # 0 THEN text ELSE segment
    OBVIOUS
  <2> HIDE DEF payload, d
  <2>8. 20 + Len(options) + Len(payload) <= TopWord
    <3> DEFINE x == Len(options)
               y == Len(payload)
    <3>1. y \in Nat /\ TopWord \in Nat
      BY <2>7, LenProperties DEF TopWord
    <3>2. x \in Nat /\ x <= 40 /\ y <= 24 + k /\ k \in Nat /\ k + 84 <= TopWord
      BY <2>2, <2>3, <2>7
    <3> HIDE DEF x, y, k
    <3>3. 20 + x + y <= TopWord
      BY <3>1, <3>2
    <3> QED
      BY <3>3 DEF x, y
  <2>9. PICK p : /\ Wellformed(p) /\ HasWholeLength(p)
                 /\ LaidOut(ft, protocol, options, fragment, ttl, payload) = Serialize(p)
                 /\ p.Protocol = protocol /\ p.FragOffset = fragment % 8192
                 /\ p.SrcIP = ft.SrcIP /\ p.DstIP = ft.DstIP /\ p.Payload = payload
    BY <1>1, <1>3, <2>3, <2>4, <2>7, <2>8, LaidOutIsPacket
  <2>10. Belongs(p, c)
    <3> SUFFICES ASSUME FirstFragment(p)
                 PROVE  /\ Shown(p) \in {c, Reverse(c)}
                        /\ 8 <= Len(p.Payload)
                        /\ p.Protocol = TCP => 24 <= Len(p.Payload) /\ p.Payload[13] \div 16 = 6
      BY DEF Belongs
    <3>1. fragment % 8192 = 0 /\ protocol \in {TCP, UDP}
      BY <2>9 DEF FirstFragment
    <3>2. p.Payload = segment
      BY <2>9, <2>p, <3>1
    <3>3. /\ 8 <= Len(segment) /\ Uint16(segment, 1) = ft.SrcPort /\ Uint16(segment, 3) = ft.DstPort
          /\ protocol = TCP => 24 <= Len(segment) /\ segment[13] \div 16 = 6
      BY <2>6, <3>1 DEF SegmentOK
    <3>4. Shown(p) = ft
      <4>1. Shown(p) = [SrcIP |-> ft.SrcIP, SrcPort |-> ft.SrcPort,
                        DstIP |-> ft.DstIP, DstPort |-> ft.DstPort]
        BY <2>9, <3>2, <3>3 DEF Shown
      <4> QED
        BY <1>1, <4>1 DEF Endpoints
    <3> QED
      BY <2>9, <3>2, <3>3, <3>4
  <2> QED
    BY <2>1, <2>9, <2>10 DEF d
<1> QED
  BY <1>1, <1>2, <1>3 DEF Endpoints

(***************************************************************************)
(* The inductive invariant.                                                *)
(***************************************************************************)
PacketOK ==
    pkt # Error =>
        /\ Wellformed(pkt) /\ Belongs(pkt, conn)
        /\ sealed => HeaderSealed(pkt)
        /\ summed => SegmentSummed(pkt)

(* What is on the wire was laid out by the environment or by Serialize.     *)
WireOK ==
    wire # None =>
        \/ wire = Zeros(40)
        \/ \E p : /\ Wellformed(p) /\ Belongs(p, conn) /\ HasWholeLength(p)
                  /\ wire = Serialize(p)
                  /\ sealed => HeaderSealed(p)
                  /\ summed => SegmentSummed(p)

(* A packet is on the wire or in a caller's hands, never both.              *)
OnePlace == wire = None \/ pkt = Error

(* The connection and the two history variables.                            *)
Kinds == conn \in Connections /\ sealed \in BOOLEAN /\ summed \in BOOLEAN

(* The inductive invariant: what the properties follow from.                *)
NetworkInv == Kinds /\ OnePlace /\ PacketOK /\ WireOK

(* It holds at the start, and every action keeps it.                        *)
LEMMA InitNetwork == Init => NetworkInv
BY DEF Init, NetworkInv, Kinds, OnePlace, PacketOK, WireOK

(* Arrive: the environment lays out a datagram.                             *)
LEMMA ArriveKeeps == NetworkInv /\ Arrive => NetworkInv'
<1> SUFFICES ASSUME NetworkInv, Arrive PROVE NetworkInv'
  OBVIOUS
<1>1. /\ conn' = conn /\ conn \in Connections /\ pkt' = pkt /\ pkt = Error
      /\ sealed' = FALSE /\ summed' = FALSE
  BY DEF Arrive, NetworkInv, Kinds
<1>2. PICK ft \in {conn, Reverse(conn)}, protocol \in {TCP, UDP, ICMP}, marks \in Marks,
           options \in OptionLists, fragment \in Fragments, ttl \in TTLs, text \in Texts :
         wire' = Datagram(ft, protocol, marks, options, fragment, ttl, text)
  BY DEF Arrive
<1> DEFINE d == Datagram(ft, protocol, marks, options, fragment, ttl, text)
<1>3. \/ d = Zeros(40)
      \/ \E p : Wellformed(p) /\ Belongs(p, conn) /\ HasWholeLength(p) /\ d = Serialize(p)
  BY <1>1, DatagramArrives
<1>d. wire' = d
  BY <1>2
<1> HIDE DEF d
<1>4. WireOK'
  BY <1>1, <1>3, <1>d DEF WireOK
<1>5. Kinds' /\ OnePlace' /\ PacketOK'
  BY <1>1 DEF Kinds, OnePlace, PacketOK
<1> QED
  BY <1>4, <1>5 DEF NetworkInv

(* A datagram of IPv6 is refused, with any padding after it or cut          *)
(* anywhere.                                                                *)
LEMMA ZerosAreNoPacket ==
  /\ \A pad \in Nat : ParseIPPacket(Zeros(40) \o Zeros(pad)) = Error
  /\ \A l \in 1..40 : ParseIPPacket(SubSeq(Zeros(40), 1, l)) = Error
<1> DEFINE z == Zeros(40)
<1>1. IsBytes(z, 40) /\ z[1] = 0
  BY ZeroByte DEF IsBytes, Zeros
<1> HIDE DEF z
<1>2. ASSUME NEW d, d[1] = 0 PROVE ParseIPPacket(d) = Error
  <2>1. d[1] \div 16 # 4
    BY <1>2
  <2> QED
    BY <2>1 DEF ParseIPPacket
<1>3. ASSUME NEW pad \in Nat PROVE ParseIPPacket(z \o Zeros(pad)) = Error
  <2> DEFINE y == Zeros(pad)
             d == z \o y
  <2>1. IsBytes(y, pad) /\ Joins(d, z, y)
    BY ZeroByte DEF IsBytes, Zeros, Joins
  <2> HIDE DEF y, d
  <2>2. \A i \in 1..40 : d[i] = z[i]
    BY <1>1, <2>1, Joined
  <2>3. ParseIPPacket(d) = Error
    BY <1>1, <1>2, <2>2
  <2> QED
    BY <2>3 DEF d, y
<1>4. ASSUME NEW l \in 1..40 PROVE ParseIPPacket(SubSeq(z, 1, l)) = Error
  <2> DEFINE k == 40
             d == SubSeq(z, 1, l)
  <2>1. IsBytes(z, k) /\ k \in Nat /\ l \in Nat /\ l <= k /\ 1 \in 1..l
    BY <1>1
  <2> HIDE DEF k
  <2>2. \A i \in 1..l : d[i] = z[i]
    BY <2>1, Front
  <2> HIDE DEF d
  <2>3. ParseIPPacket(d) = Error
    BY <1>1, <1>2, <2>1, <2>2
  <2> QED
    BY <2>3 DEF d
<1> QED
  BY <1>3, <1>4 DEF z

(* Parse: ParseIPPacket reads the packet that Serialize or the environment  *)
(* laid out, or what is left of it.                                         *)
LEMMA ParseKeeps == NetworkInv /\ Parse => NetworkInv'
<1> SUFFICES ASSUME NetworkInv, Parse PROVE NetworkInv'
  OBVIOUS
<1>1. /\ conn' = conn /\ conn \in Connections /\ wire # None /\ wire' = None
      /\ sealed' = sealed /\ sealed \in BOOLEAN /\ summed \in BOOLEAN /\ summed' \in BOOLEAN
  BY DEF Parse, NetworkInv, Kinds
<1>2. \/ \E pad \in {0, 6} : pkt' = ParseIPPacket(wire \o Zeros(pad)) /\ summed' = summed
      \/ \E l \in 4 * (wire[1] % 16) + TextAt(wire[10]) .. Len(wire) - 1 :
            pkt' = ParseIPPacket(SubSeq(wire, 1, l)) /\ summed' = FALSE
  BY DEF Parse
<1>4. Kinds' /\ OnePlace' /\ WireOK'
  BY <1>1 DEF Kinds, OnePlace, WireOK
<1>5. PacketOK'
  <2>1. CASE wire = Zeros(40)
    <3>1. TextAt(wire[10]) \in {8, 24}
      BY DEF TextAt
    <3>2. wire[1] = 0 /\ Len(wire) = 40
      BY <2>1 DEF Zeros
    <3>3. \A l \in 4 * (wire[1] % 16) + TextAt(wire[10]) .. Len(wire) - 1 : l \in 1..40
      BY <3>1, <3>2
    <3>4. ASSUME NEW pad \in {0, 6}, pkt' = ParseIPPacket(wire \o Zeros(pad)) PROVE pkt' = Error
      <4>1. pad \in Nat
        OBVIOUS
      <4> QED
        BY <2>1, <3>4, <4>1, ZerosAreNoPacket, Zenon
    <3>5. ASSUME NEW l \in 1..40, pkt' = ParseIPPacket(SubSeq(wire, 1, l)) PROVE pkt' = Error
      BY <2>1, <3>5, ZerosAreNoPacket, Zenon
    <3>6. pkt' = Error
      BY <1>2, <3>3, <3>4, <3>5, Zenon
    <3> QED
      BY <3>6 DEF PacketOK
  <2>2. CASE wire # Zeros(40)
    <3>1. PICK p : /\ Wellformed(p) /\ Belongs(p, conn) /\ HasWholeLength(p)
                   /\ wire = Serialize(p)
                   /\ sealed => HeaderSealed(p)
                   /\ summed => SegmentSummed(p)
      BY <1>1, <2>2 DEF NetworkInv, WireOK
    <3>2. CASE \E pad \in {0, 6} : pkt' = ParseIPPacket(wire \o Zeros(pad)) /\ summed' = summed
      <4>1. PICK pad \in {0, 6} : pkt' = ParseIPPacket(wire \o Zeros(pad)) /\ summed' = summed
        BY <3>2
      <4>2. pad \in Nat
        OBVIOUS
      <4>3. pkt' = p
        BY <3>1, <4>1, <4>2, RoundTrip
      <4> QED
        BY <1>1, <3>1, <4>1, <4>3 DEF PacketOK
    <3>3. CASE \E l \in 4 * (wire[1] % 16) + TextAt(wire[10]) .. Len(wire) - 1 :
                 pkt' = ParseIPPacket(SubSeq(wire, 1, l)) /\ summed' = FALSE
      <4>1. PICK l \in 4 * (wire[1] % 16) + TextAt(wire[10]) .. Len(wire) - 1 :
              pkt' = ParseIPPacket(SubSeq(wire, 1, l)) /\ summed' = FALSE
        BY <3>3
      <4> DEFINE n == p.HeaderLen
                 k == Len(p.Payload)
                 m == l - n
                 q == With(p, p.TotalLen, p.TTL, p.Checksum, SubSeq(p.Payload, 1, m))
      <4>2. /\ 4 * (wire[1] % 16) = n /\ wire[10] = p.Protocol /\ Len(wire) = n + k
        BY <3>1, FrameSays
      <4>3. n \in Nat /\ k \in Nat /\ TextAt(p.Protocol) \in {8, 24}
        BY <3>1, SentBytes DEF TextAt
      <4>4. m \in Nat /\ TextAt(p.Protocol) <= m /\ m <= k /\ l = n + m
        <5> DEFINE first == 4 * (wire[1] % 16)
                   at == TextAt(wire[10])
        <5>1. first = n /\ at = TextAt(p.Protocol) /\ Len(wire) = n + k
          BY <4>2
        <5>2. l \in first + at .. Len(wire) - 1
          BY <4>1
        <5> HIDE DEF n, k, first, at
        <5> QED
          BY <4>3, <5>1, <5>2
      <4> HIDE DEF m
      <4>5. /\ Wellformed(q) /\ Belongs(q, conn)
            /\ HeaderSealed(p) => HeaderSealed(q)
            /\ ParseIPPacket(SubSeq(Serialize(p), 1, n + m)) = q
        BY <3>1, <4>4, CutBack
      <4> HIDE DEF q
      <4>6. pkt' = q
        BY <3>1, <4>1, <4>4, <4>5
      <4> QED
        BY <1>1, <3>1, <4>1, <4>5, <4>6 DEF PacketOK
    <3> QED
      BY <1>2, <3>2, <3>3
  <2> QED
    BY <2>1, <2>2
<1> QED
  BY <1>4, <1>5 DEF NetworkInv

(* Send: Serialize lays out the packet.                                     *)
LEMMA SendKeeps == NetworkInv /\ Send => NetworkInv'
<1> SUFFICES ASSUME NetworkInv, Send PROVE NetworkInv'
  OBVIOUS
<1>1. /\ conn' = conn /\ conn \in Connections /\ pkt # Error /\ pkt' = Error
      /\ wire' = Serialize(pkt)
      /\ sealed' = (sealed /\ pkt.TotalLen = SentLen(pkt))
      /\ summed' = summed /\ sealed \in BOOLEAN /\ summed \in BOOLEAN
  BY DEF Send, NetworkInv, Kinds
<1>2. /\ Wellformed(pkt) /\ Belongs(pkt, conn)
      /\ sealed => HeaderSealed(pkt)
      /\ summed => SegmentSummed(pkt)
  BY <1>1 DEF NetworkInv, PacketOK
<1> DEFINE q == [pkt EXCEPT !.TotalLen = SentLen(pkt)]
<1>3. /\ Wellformed(q) /\ Belongs(q, conn) /\ HasWholeLength(q)
      /\ Serialize(pkt) = Serialize(q)
      /\ HeaderSealed(pkt) /\ HasWholeLength(pkt) => HeaderSealed(q)
      /\ SegmentSummed(pkt) => SegmentSummed(q)
  BY <1>2, PacketSent
<1> HIDE DEF q
<1>4. sealed' => HeaderSealed(q)
  BY <1>1, <1>2, <1>3 DEF HasWholeLength
<1>5. WireOK'
  BY <1>1, <1>2, <1>3, <1>4 DEF WireOK
<1>6. Kinds' /\ OnePlace' /\ PacketOK'
  BY <1>1 DEF Kinds, OnePlace, PacketOK
<1> QED
  BY <1>5, <1>6 DEF NetworkInv

(* What callers do to a packet leaves the wire empty.                       *)
LEMMA CallerKeeps ==
  ASSUME NetworkInv, pkt # Error, UNCHANGED <<conn, wire>>,
         sealed' \in BOOLEAN, summed' \in BOOLEAN,
         Wellformed(pkt'), Belongs(pkt', conn),
         sealed' => HeaderSealed(pkt'), summed' => SegmentSummed(pkt')
  PROVE  NetworkInv'
<1>1. wire' = None /\ conn' = conn /\ conn \in Connections
  BY DEF NetworkInv, OnePlace, Kinds
<1>2. Kinds' /\ OnePlace' /\ WireOK'
  BY <1>1 DEF Kinds, OnePlace, WireOK
<1>3. PacketOK'
  BY <1>1 DEF PacketOK
<1> QED
  BY <1>2, <1>3 DEF NetworkInv

(* The invariant of the packet a caller has.                                *)
LEMMA PacketSound ==
  ASSUME NetworkInv, pkt # Error
  PROVE  /\ conn \in Connections /\ sealed \in BOOLEAN /\ summed \in BOOLEAN
         /\ Wellformed(pkt) /\ Belongs(pkt, conn)
         /\ sealed => HeaderSealed(pkt)
         /\ summed => SegmentSummed(pkt)
BY DEF NetworkInv, PacketOK, Kinds

(* SetTTL: a caller assigns a TTL.                                          *)
LEMMA SetTTLKeeps ==
  ASSUME NetworkInv, NEW ttl \in TTLs, SetTTL(ttl)
  PROVE  NetworkInv'
<1>1. /\ pkt # Error /\ pkt' = [pkt EXCEPT !.TTL = ttl] /\ sealed' = FALSE
      /\ UNCHANGED <<conn, wire>> /\ summed' = summed /\ ttl \in Byte
  BY NetworkAssumption DEF SetTTL
<1>2. /\ summed \in BOOLEAN /\ Wellformed(pkt) /\ Belongs(pkt, conn)
      /\ summed => SegmentSummed(pkt)
  BY <1>1, PacketSound
<1>3. /\ Wellformed(pkt') /\ Belongs(pkt', conn)
      /\ SegmentSummed(pkt) => SegmentSummed(pkt')
  BY <1>1, <1>2, TTLSet
<1> QED
  BY <1>1, <1>2, <1>3, CallerKeeps

(* SetText: a caller assigns a payload, and the length or not.              *)
LEMMA SetTextKeeps ==
  ASSUME NetworkInv, NEW text \in Texts, NEW length \in BOOLEAN, SetText(text, length)
  PROVE  NetworkInv'
<1> DEFINE r == [pkt EXCEPT !.Payload = SubSeq(pkt.Payload, 1, TextAt(pkt.Protocol)) \o text]
           s == [r EXCEPT !.TotalLen = SentLen(r)]
<1>1. /\ pkt # Error /\ FirstFragment(pkt) /\ pkt' \in {r, s} /\ sealed' = FALSE /\ summed' = FALSE
      /\ UNCHANGED <<conn, wire>>
  BY DEF SetText
<1>2. Wellformed(pkt) /\ Belongs(pkt, conn)
  BY <1>1, PacketSound
<1>3. Wellformed(r) /\ Belongs(r, conn) /\ Wellformed(s) /\ Belongs(s, conn)
  BY <1>1, <1>2, TextSet
<1> HIDE DEF r, s
<1>4. Wellformed(pkt') /\ Belongs(pkt', conn)
  BY <1>1, <1>3
<1> QED
  BY <1>1, <1>4, CallerKeeps

(* RecalculateHeader: RecalculateIPChecksum seals the header.               *)
LEMMA RecalculateHeaderKeeps ==
  ASSUME NetworkInv, RecalculateHeader
  PROVE  NetworkInv'
<1>1. /\ pkt # Error
      /\ \/ pkt' = RecalculateIPChecksum(pkt)
         \/ /\ FirstFragment(pkt) \/ pkt.Protocol = ICMP
            /\ pkt' = RecalculateChecksums(pkt)
      /\ sealed' = TRUE /\ UNCHANGED <<conn, wire>> /\ summed' = summed
  BY DEF RecalculateHeader
<1>2. /\ summed \in BOOLEAN /\ Wellformed(pkt) /\ Belongs(pkt, conn)
      /\ summed => SegmentSummed(pkt)
  BY <1>1, PacketSound
<1>3. /\ Wellformed(pkt') /\ Belongs(pkt', conn)
      /\ SegmentSummed(pkt) => SegmentSummed(pkt')
      /\ HeaderSealed(pkt')
  BY <1>1, <1>2, HeaderRecalculated, AllRecalculated
<1> QED
  BY <1>1, <1>2, <1>3, CallerKeeps

(* RecalculateTransport: what RecalculateTCPChecksum and its like change    *)
(* leaves the segment as it is.                                             *)
LEMMA RecalculateTransportKeeps ==
  ASSUME NetworkInv, RecalculateTransport
  PROVE  NetworkInv'
<1>1. /\ pkt # Error /\ FirstFragment(pkt)
      /\ pkt' \in {RecalculateTCPChecksum(pkt), RecalculateUDPChecksum(pkt)}
      /\ sealed' = (sealed /\ pkt' = pkt) /\ UNCHANGED <<conn, wire>> /\ summed' = summed
  BY DEF RecalculateTransport
<1>2. /\ summed \in BOOLEAN /\ sealed \in BOOLEAN /\ Wellformed(pkt) /\ Belongs(pkt, conn)
      /\ summed => SegmentSummed(pkt)
      /\ sealed => HeaderSealed(pkt)
  BY <1>1, PacketSound
<1>3. /\ Wellformed(pkt') /\ Belongs(pkt', conn)
      /\ SegmentSummed(pkt) => SegmentSummed(pkt')
  BY <1>1, <1>2, TransportRecalculated
<1>4. sealed' \in BOOLEAN /\ (sealed' => HeaderSealed(pkt'))
  BY <1>1, <1>2
<1> QED
  BY <1>1, <1>2, <1>3, <1>4, CallerKeeps

(* StoreTransportChecksum: the segment has the checksum of the rest of it.  *)
LEMMA StoreKeeps ==
  ASSUME NetworkInv, StoreTransportChecksum
  PROVE  NetworkInv'
<1>1. /\ pkt # Error /\ FirstFragment(pkt)
      /\ pkt' = [pkt EXCEPT !.Payload =
                   Overwrite(@, TransportAt(pkt), PutUint16(TransportChecksum(pkt)))]
      /\ sealed' = sealed /\ UNCHANGED <<conn, wire>> /\ summed' = TRUE
  BY DEF StoreTransportChecksum, TransportChecksum
<1>2. /\ sealed \in BOOLEAN /\ Wellformed(pkt) /\ Belongs(pkt, conn)
      /\ sealed => HeaderSealed(pkt)
  BY <1>1, PacketSound
<1>3. /\ Wellformed(pkt') /\ Belongs(pkt', conn) /\ SegmentSummed(pkt')
      /\ HeaderSealed(pkt) => HeaderSealed(pkt')
  BY <1>1, <1>2, ChecksumStored
<1> QED
  BY <1>1, <1>2, <1>3, CallerKeeps

(* So every step keeps it,                                                  *)
LEMMA NextKeeps == NetworkInv /\ [Next]_vars => NetworkInv'
<1> SUFFICES ASSUME NetworkInv, [Next]_vars PROVE NetworkInv'
  OBVIOUS
<1>1. CASE Arrive
  BY <1>1, ArriveKeeps
<1>2. CASE Parse
  BY <1>2, ParseKeeps
<1>3. CASE Send
  BY <1>3, SendKeeps
<1>4. CASE \E ttl \in TTLs : SetTTL(ttl)
  BY <1>4, SetTTLKeeps
<1>5. CASE \E text \in Texts, length \in BOOLEAN : SetText(text, length)
  BY <1>5, SetTextKeeps
<1>6. CASE RecalculateHeader
  BY <1>6, RecalculateHeaderKeeps
<1>7. CASE RecalculateTransport
  BY <1>7, RecalculateTransportKeeps
<1>8. CASE StoreTransportChecksum
  BY <1>8, StoreKeeps
<1>9. CASE UNCHANGED vars
  BY <1>9 DEF vars, NetworkInv, Kinds, OnePlace, PacketOK, WireOK
<1> QED
  BY <1>1, <1>2, <1>3, <1>4, <1>5, <1>6, <1>7, <1>8, <1>9 DEF Next

(* and it always holds.                                                     *)
LEMMA NetworkInvariant == Spec => []NetworkInv
BY InitNetwork, NextKeeps, PTL DEF Spec

(***************************************************************************)
(* What ParseIPPacket returns and what callers of the Recalculate          *)
(* functions make of it always has the types of IPPacket's fields: every   *)
(* field within its width, the header 20 to 60 bytes and no datagram above *)
(* 65535; and the wire holds bytes.                                        *)
(***************************************************************************)
THEOREM NetworkTyped == Spec => []TypeOK
<1>1. NetworkInv => TypeOK
  <2> SUFFICES ASSUME NetworkInv PROVE TypeOK
    OBVIOUS
  <2>1. wire \in Seq(Byte)
    <3>1. CASE wire = None
      BY <3>1 DEF None
    <3>2. CASE wire = Zeros(40)
      <4>1. Zeros(40) \in Seq(Byte)
        BY ZeroByte DEF Zeros
      <4> QED
        BY <3>2, <4>1
    <3>3. CASE wire # None /\ wire # Zeros(40)
      <4>1. PICK p : Wellformed(p) /\ wire = Serialize(p)
        BY <3>3 DEF NetworkInv, WireOK
      <4> QED
        BY <4>1, SerializedBytes
    <3> QED
      BY <3>1, <3>2, <3>3
  <2>2. pkt # Error => pkt \in Packets
    BY PacketSound DEF Wellformed
  <2>3. conn \in Connections /\ sealed \in BOOLEAN /\ summed \in BOOLEAN
    BY DEF NetworkInv, Kinds
  <2> QED
    BY <2>1, <2>2, <2>3 DEF TypeOK
<1> QED
  BY <1>1, NetworkInvariant, PTL

(***************************************************************************)
(* A packet that is serialised, and parsed again with or without padding   *)
(* after it, is the same packet in every field, options and payload        *)
(* included, but for its length, which is then the real one.  A TCP        *)
(* segment in it, with the options that arrive here and any flags, loses   *)
(* through ParseTCPPacket and Serialize the four bits after its data       *)
(* offset and its two highest flags, and nothing else.  It holds of        *)
(* packets of any size, of frames that were cut too, whatever callers      *)
(* assigned and recalculated.                                              *)
(***************************************************************************)
THEOREM PacketsSurviveTheWire == Spec => []SurvivesTheWire
<1>1. NetworkInv => SurvivesTheWire
  <2> DEFINE q == [pkt EXCEPT !.TotalLen = SentLen(pkt)]
             e == [pkt.Payload EXCEPT ![13] = 16 * (@ \div 16), ![14] = @ % 64]
  <2> SUFFICES ASSUME NetworkInv, pkt # Error
               PROVE  /\ \A pad \in {0, 6} : ParseIPPacket(Serialize(pkt) \o Zeros(pad)) = q
                      /\ (FirstFragment(pkt) /\ pkt.Protocol = TCP) =>
                              SerializeTCP(ParseTCPPacket(pkt.Payload)) = e
    BY DEF SurvivesTheWire
  <2>1. Wellformed(pkt) /\ Belongs(pkt, conn)
    BY PacketSound
  <2>2. ASSUME NEW pad \in {0, 6} PROVE ParseIPPacket(Serialize(pkt) \o Zeros(pad)) = q
    <3>1. Wellformed(q) /\ HasWholeLength(q) /\ Serialize(pkt) = Serialize(q)
      BY <2>1, PacketSent
    <3>2. pad \in Nat
      OBVIOUS
    <3> HIDE DEF q
    <3>3. ParseIPPacket(Serialize(q) \o Zeros(pad)) = q
      BY <3>1, <3>2, RoundTrip
    <3> QED
      BY <3>1, <3>3
  <2>3. ASSUME FirstFragment(pkt), pkt.Protocol = TCP
        PROVE  SerializeTCP(ParseTCPPacket(pkt.Payload)) = e
    <3> DEFINE d == pkt.Payload
    <3>1. d \in Seq(Byte) /\ 24 <= Len(d) /\ d[13] \div 16 = 6
      BY <2>1, <2>3, PacketFields DEF Belongs
    <3>2. Unmarked(e, d)
      BY <3>1, UnmarkedIs
    <3> HIDE DEF d, e
    <3>3. SerializeTCP(ParseTCPPacket(d)) = e
      BY <3>1, <3>2, SegmentRoundTrip
    <3> QED
      BY <3>3 DEF d
  <2> QED
    BY <2>2, <2>3
<1> QED
  BY <1>1, NetworkInvariant, PTL

(***************************************************************************)
(* GenerateConnectionIDFromPacket gives the first fragment of every packet *)
(* of a connection the ID that the client's handler gave the connection    *)
(* when it accepted it, in both directions, for IPv4 endpoints and any     *)
(* ports, whatever callers did to the packet in between.                   *)
(***************************************************************************)
THEOREM EveryPacketHasTheID == LittleEndian => (Spec => []PacketsHaveTheID)
<1> SUFFICES ASSUME LittleEndian PROVE Spec => []PacketsHaveTheID
  OBVIOUS
<1>1. NetworkInv => PacketsHaveTheID
  <2> SUFFICES ASSUME NetworkInv, pkt # Error, FirstFragment(pkt)
               PROVE  GenerateConnectionIDFromPacket(pkt) = HandlerOf(conn)
    BY DEF PacketsHaveTheID
  <2> DEFINE s == pkt.SrcIP
             d == pkt.DstIP
             x == Uint16(pkt.Payload, 1)
             y == Uint16(pkt.Payload, 3)
             a == conn.SrcIP
             b == conn.DstIP
             p == conn.SrcPort
             q == conn.DstPort
  <2>1. conn \in Connections /\ Wellformed(pkt) /\ Belongs(pkt, conn)
    BY PacketSound
  <2>2. Shown(pkt) \in {conn, Reverse(conn)} /\ 8 <= Len(pkt.Payload)
    BY <2>1 DEF Belongs
  <2>3. /\ a \in Seq(Byte) /\ b \in Seq(Byte) /\ p \in Word /\ q \in Word /\ Len(a) = Len(b)
    BY <2>1, ConnectionTyped
  <2>4. \/ s = a /\ x = p /\ d = b /\ y = q
        \/ s = b /\ x = q /\ d = a /\ y = p
    BY <2>2 DEF Shown, Reverse
  <2>5. HandlerOf(conn) = Named(a, p, b, q)
    BY <2>1, HandlerNames
  <2>6. NewConnectionTupleFromPacket(pkt) = [SrcIP |-> s, SrcPort |-> x, DstIP |-> d, DstPort |-> y]
    <3>1. pkt.Protocol \in {TCP, UDP} /\ ~(Len(pkt.Payload) < 4)
      <4>1. Len(pkt.Payload) \in Nat
        BY <2>1, PacketFields
      <4> QED
        BY <2>2, <4>1 DEF FirstFragment
    <3> QED
      BY <3>1 DEF NewConnectionTupleFromPacket
  <2>7. Len(s) = 4 /\ Len(d) = 4 /\ s \in Seq(Byte) /\ d \in Seq(Byte)
    BY <2>1, PacketFields DEF IsBytes
  <2> HIDE DEF s, d, x, y, a, b, p, q
  <2>8. [SrcIP |-> s, SrcPort |-> x, DstIP |-> d, DstPort |-> y] # Error
    BY DEF Error
  <2>9. GenerateConnectionIDFromPacket(pkt) = GenerateConnectionID(s, x, d, y)
    BY <2>6, <2>8 DEF GenerateConnectionIDFromPacket, GenerateConnectionIDFromTuple
  <2>10. To4(s) = s /\ To4(d) = d /\ s # None /\ d # None
    BY <2>7 DEF To4, None
  <2>11. GenerateConnectionID(s, x, d, y) = Named(s, x, d, y)
    BY <2>10 DEF GenerateConnectionID, Named
  <2>12. Named(s, x, d, y) = Named(a, p, b, q)
    <3>1. CASE s = a /\ x = p /\ d = b /\ y = q
      BY <3>1
    <3>2. CASE s = b /\ x = q /\ d = a /\ y = p
      <4>1. Named(b, q, a, p) = Named(a, p, b, q)
        BY <2>3, NamesEndpoints
      <4> QED
        BY <3>2, <4>1
    <3> QED
      BY <2>4, <3>1, <3>2
  <2> QED
    BY <2>5, <2>9, <2>11, <2>12
<1> QED
  BY <1>1, NetworkInvariant, PTL

(* Headers of one packet agree on all bytes but those of the length and the *)
(* checksum, and on each of these if they have it in common.                *)
LEMMA HeadersAgree ==
  ASSUME NEW p, NEW n \in Nat, n = p.HeaderLen, 20 <= n,
         NEW h, NEW t, NEW c, HeaderIs(h, p, t, c), NEW e, NEW u, NEW d, HeaderIs(e, p, u, d)
  PROVE  /\ \A i \in 1..n : i \notin {3, 4, 11, 12} => h[i] = e[i]
         /\ t = u => h[3] = e[3] /\ h[4] = e[4]
         /\ c = d => h[11] = e[11] /\ h[12] = e[12]
<1> DEFINE o == n - 20
<1>1. /\ h[1] = e[1] /\ h[2] = e[2] /\ h[5] = e[5]
      /\ h[6] = e[6] /\ h[7] = e[7] /\ h[8] = e[8] /\ h[9] = e[9] /\ h[10] = e[10]
      /\ \A i \in 1..4 : h[12 + i] = e[12 + i] /\ h[16 + i] = e[16 + i]
      /\ \A i \in 1..o : h[20 + i] = e[20 + i]
      /\ t = u => h[3] = e[3] /\ h[4] = e[4]
      /\ c = d => h[11] = e[11] /\ h[12] = e[12]
  BY DEF HeaderIs
<1>2. ASSUME NEW i \in 1..n, i \notin {3, 4, 11, 12} PROVE h[i] = e[i]
  <2>1. CASE i <= 12
    BY <1>1, <1>2, <2>1
  <2>2. CASE i \in 13..16
    <3>1. i - 12 \in 1..4 /\ 12 + (i - 12) = i
      BY <2>2
    <3> QED
      BY <1>1, <3>1
  <2>3. CASE i \in 17..20
    <3>1. i - 16 \in 1..4 /\ 16 + (i - 16) = i
      BY <2>3
    <3> QED
      BY <1>1, <3>1
  <2>4. CASE i > 20
    <3>1. i - 20 \in 1..o /\ 20 + (i - 20) = i
      BY <2>4
    <3> QED
      BY <1>1, <3>1
  <2> QED
    BY <2>1, <2>2, <2>3, <2>4
<1> QED
  BY <1>1, <1>2

(* A header counts its length once.                                         *)
LEMMA LengthCounts ==
  ASSUME NEW p, Wellformed(p), NEW t \in Word, NEW c \in Word
  PROVE  /\ IsBytes(Header(p, t, c), p.HeaderLen)
         /\ WordSum(Header(p, 0, c)) \in Nat
         /\ WordSum(Header(p, t, c)) = WordSum(Header(p, 0, c)) + t
<1> DEFINE n == p.HeaderLen
           h == Header(p, t, c)
           z == Header(p, 0, c)
           at == 3
<1>1. n \in HeaderLens /\ 0 \in Word
  BY PacketFields, NumberIsWord
<1>2. n \in Nat /\ 20 <= n /\ n <= TopWord
  <2> HIDE DEF n
  <2> QED
    BY <1>1 DEF HeaderLens, TopWord
<1>3. HeaderIs(h, p, t, c) /\ HeaderIs(z, p, 0, c)
  BY <1>1, HeaderBytes
<1>4. /\ IsBytes(h, n) /\ h[3] = t \div 256 /\ h[4] = t % 256
      /\ IsBytes(z, n) /\ z[3] = 0 /\ z[4] = 0
  <2>1. z[3] = 0 \div 256 /\ z[4] = 0 % 256
    BY <1>3 DEF HeaderIs
  <2> HIDE DEF h, z
  <2> QED
    BY <1>3, <2>1 DEF HeaderIs
<1> HIDE DEF h, z
<1>5. /\ \A i \in 1..n : i \notin {3, 4, 11, 12} => h[i] = z[i]
      /\ h[11] = z[11] /\ h[12] = z[12]
  <2>1. n = p.HeaderLen
    OBVIOUS
  <2> HIDE DEF n
  <2> QED
    BY <1>2, <1>3, <2>1, HeadersAgree
<1> HIDE DEF n
<1>6. at \in 1..n /\ at + 1 \in 1..n /\ at + 1 = 4 /\ at % 2 = 1
  BY <1>2
<1>7. \A i \in 1..n : i # at /\ i # at + 1 => h[i] = z[i]
  BY <1>5
<1>8. h[at] = t \div 256 /\ h[at + 1] = t % 256 /\ z[at] = 0 /\ z[at + 1] = 0
  BY <1>4
<1> HIDE DEF at
<1>9. WordSum(h) = WordSum(z) + t
  BY <1>2, <1>4, <1>6, <1>7, <1>8, WordAdded
<1>10. WordSum(z) \in Nat
  BY <1>2, <1>4, WordSumBounded
<1> QED
  BY <1>4, <1>9, <1>10 DEF n, h, z

(* A sealed header verifies with the length its packet says it has.         *)
LEMMA SealedVerifies ==
  ASSUME NEW p, Wellformed(p), HeaderSealed(p)
  PROVE  Verifies(Header(p, p.TotalLen, p.Checksum))
<1> DEFINE n == p.HeaderLen
           t == p.TotalLen
           c == p.Checksum
           h == Header(p, t, c)
           e == Header(p, t, 0)
           z == Overwrite(e, 11, <<0, 0>>)
<1>1. c = CalculateChecksum(z)
  BY DEF HeaderSealed, CalculateIPChecksum
<1>2. t \in Word /\ c \in Word /\ 0 \in Word /\ n \in HeaderLens
  BY PacketFields, NumberIsWord
<1>3. n \in Nat /\ 20 <= n /\ n <= TopWord
  <2> HIDE DEF n
  <2> QED
    BY <1>2 DEF HeaderLens, TopWord
<1>4. HeaderIs(h, p, t, c) /\ HeaderIs(e, p, t, 0)
  BY <1>2, HeaderBytes
<1>5. IsBytes(h, n) /\ IsBytes(e, n) /\ h[11] = c \div 256 /\ h[12] = c % 256
  BY <1>4 DEF HeaderIs
<1> HIDE DEF t, c, h, e
<1>6. /\ \A i \in 1..n : i \notin {3, 4, 11, 12} => h[i] = e[i]
      /\ h[3] = e[3] /\ h[4] = e[4]
  <2>1. n = p.HeaderLen
    OBVIOUS
  <2> HIDE DEF n
  <2> QED
    BY <1>3, <1>4, <2>1, HeadersAgree
<1> HIDE DEF n
<1> DEFINE at == 11
<1>7. at \in Nat /\ at \in 1..n /\ at + 1 \in 1..n /\ at + 1 = 12 /\ at % 2 = 1 /\ at + 1 # at
  BY <1>3
<1>8. /\ IsBytes(z, n)
      /\ \A i \in 1..n : z[i] = IF i = at THEN 0 ELSE IF i = at + 1 THEN 0 ELSE e[i]
  <2>1. z = Overwrite(e, at, <<0, 0>>)
    OBVIOUS
  <2> HIDE DEF z, at
  <2> QED
    BY <1>3, <1>5, <1>7, <2>1, ZeroByte, Overwritten
<1>9. /\ h[at] = c \div 256 /\ h[at + 1] = c % 256
      /\ \A i \in 1..n : i # at /\ i # at + 1 => h[i] = e[i]
  BY <1>5, <1>6
<1> HIDE DEF z, at
<1>10. \A i \in 1..n : i # at /\ i # at + 1 => h[i] = z[i]
  BY <1>8, <1>9
<1>11. z[at] = 0 /\ z[at + 1] = 0
  BY <1>7, <1>8
<1>12. Verifies(h)
  BY <1>1, <1>2, <1>3, <1>5, <1>7, <1>8, <1>9, <1>10, <1>11, ChecksumVerifies
<1> QED
  BY <1>12 DEF h, t, c

(* Of the 65535 numbers that may be added to a number one makes it a        *)
(* multiple of 65535.                                                      *)
LEMMA OneMultiple ==
  ASSUME NEW S \in Nat, NEW t \in Int, NEW w \in Int,
         0 < t, t <= 65535, 0 < w, w <= 65535, (S + t) % 65535 = 0
  PROVE  (S + w) % 65535 = 0 <=> t = w
<1>1. ASSUME (S + w) % 65535 = 0 PROVE t = w
  <2> DEFINE i == (S + t) \div 65535
             j == (S + w) \div 65535
  <2>1. i \in Int /\ j \in Int /\ S + t = 65535 * i /\ S + w = 65535 * j
    BY <1>1
  <2> HIDE DEF i, j
  <2>2. t - w = 65535 * (i - j) /\ i - j \in Int
    BY <2>1
  <2> QED
    BY <2>2
<1> QED
  BY <1>1

(***************************************************************************)
(* RecalculateIPChecksum and RecalculateChecksums leave a header that any  *)
(* receiver accepts if it is sent with the length that TotalLen said then, *)
(* with options or without: the sum of all its words, carries folded in,   *)
(* is all ones.  It stays one through Serialize and ParseIPPacket until a  *)
(* caller changes the packet.  Where TotalLen is stale, Serialize sends    *)
(* another length than the checksum was calculated with, and no receiver   *)
(* accepts the header, whichever two lengths these are.                    *)
(***************************************************************************)
THEOREM SealedHeadersVerify == Spec => []HeaderVerifies
<1>1. NetworkInv => HeaderVerifies
  <2> SUFFICES ASSUME NetworkInv, sealed, pkt # Error
               PROVE  Verifies(SubSeq(Serialize(pkt), 1, pkt.HeaderLen))
                        <=> pkt.TotalLen = SentLen(pkt)
    BY DEF HeaderVerifies
  <2> DEFINE n == pkt.HeaderLen
             w == SentLen(pkt)
             t == pkt.TotalLen
             c == pkt.Checksum
             s == Serialize(pkt)
             S == WordSum(Header(pkt, 0, c))
  <2>1. Wellformed(pkt) /\ HeaderSealed(pkt)
    BY PacketSound
  <2>2. /\ w \in Word /\ w \in Nat /\ w # 0 /\ n \in Nat /\ n <= w /\ IsBytes(s, w)
        /\ IsBytes(Header(pkt, w, c), n) /\ \A i \in 1..n : s[i] = Header(pkt, w, c)[i]
    <3>1. /\ w \in Word /\ w \in Nat /\ w # 0 /\ n \in Nat /\ IsBytes(s, w)
          /\ IsBytes(Header(pkt, w, c), n) /\ \A i \in 1..n : s[i] = Header(pkt, w, c)[i]
          /\ Len(pkt.Payload) \in Nat /\ w = n + Len(pkt.Payload)
      BY <2>1, SentBytes
    <3> HIDE DEF n, w, s, c
    <3>2. n <= w
      BY <3>1
    <3> QED
      BY <3>1, <3>2
  <2>3. t \in Word /\ t # 0 /\ c \in Word
    BY <2>1, PacketFields
  <2>4. Verifies(Header(pkt, t, c))
    BY <2>1, SealedVerifies
  <2> HIDE DEF n, w, t, c, s
  <2>5. SubSeq(s, 1, n) = Header(pkt, w, c)
    <3> DEFINE h == Header(pkt, w, c)
               x == SubSeq(s, 1, n)
    <3>1. IsBytes(x, n) /\ \A i \in 1..n : x[i] = s[i]
      BY <2>2, Front
    <3>2. IsBytes(h, n) /\ \A i \in 1..n : s[i] = h[i]
      BY <2>2
    <3> HIDE DEF h, x
    <3>3. x = h
      BY <3>1, <3>2, SeqEqual DEF IsBytes
    <3> QED
      BY <3>3 DEF h, x
  <2>6. /\ S \in Nat
        /\ ReceiverSum(Header(pkt, t, c)) = S + t
        /\ ReceiverSum(Header(pkt, w, c)) = S + w
    <3>1. ASSUME NEW u \in Word PROVE S \in Nat /\ ReceiverSum(Header(pkt, u, c)) = S + u
      <4> DEFINE h == Header(pkt, u, c)
      <4>1. IsBytes(h, n) /\ S \in Nat /\ WordSum(h) = S + u
        BY <2>1, <2>3, LengthCounts DEF n
      <4> HIDE DEF h, S
      <4>2. ReceiverSum(h) = WordSum(h)
        BY <2>2, <4>1, ReceiverSumsWords
      <4> QED
        BY <4>1, <4>2 DEF h
    <3> QED
      BY <2>2, <2>3, <3>1
  <2> HIDE DEF S
  <2>7. (S + t) % 65535 = 0
    BY <2>4, <2>6 DEF Verifies
  <2>8. /\ t \in Int /\ 0 < t /\ t <= 65535
        /\ w \in Int /\ 0 < w /\ w <= 65535
    <3>1. t \in Int /\ 0 <= t /\ t <= 65535
      BY <2>3, WordIsNumber
    <3>2. w \in Int /\ 0 <= w /\ w <= 65535
      BY <2>2, WordIsNumber
    <3> QED
      BY <2>2, <2>3, <3>1, <3>2
  <2>9. (S + w) % 65535 = 0 <=> t = w
    BY <2>6, <2>7, <2>8, OneMultiple
  <2>10. Verifies(Header(pkt, w, c)) <=> t = w
    BY <2>6, <2>9 DEF Verifies
  <2>11. Verifies(SubSeq(s, 1, n)) <=> t = w
    <3>1. Verifies(SubSeq(s, 1, n)) <=> Verifies(Header(pkt, w, c))
      BY ONLY <2>5, Zenon
    <3> QED
      BY ONLY <2>10, <3>1, Zenon
  <2> QED
    BY ONLY <2>11 DEF n, s, t, w
<1> QED
  BY <1>1, NetworkInvariant, PTL

(***************************************************************************)
(* A segment whose field got what CalculateTCPChecksum or                  *)
(* CalculateUDPChecksum returned is one that a receiver accepts, of odd    *)
(* and even length up to that of a datagram: its words and those of the    *)
(* pseudo header sum up to all ones. A UDP datagram never says it has no   *)
(* checksum: where the sum comes out as zero the code sends all ones.      *)
(***************************************************************************)
THEOREM SummedSegmentsVerify == Spec => []SegmentVerifies
<1>1. NetworkInv => SegmentVerifies
  <2> SUFFICES ASSUME NetworkInv, summed, pkt # Error
               PROVE  /\ Verifies(pkt.SrcIP \o pkt.DstIP \o <<0, pkt.Protocol>>
                                  \o PutUint16(Len(pkt.Payload)) \o pkt.Payload)
                      /\ pkt.Protocol = UDP => Uint16(pkt.Payload, 7) # 0
    BY DEF SegmentVerifies
  <2> DEFINE k == Len(pkt.Payload)
             d == pkt.Payload
             at == TransportAt(pkt)
             x == PseudoHeader(pkt.SrcIP, pkt.DstIP, pkt.Protocol, k)
             y == Overwrite(d, at, <<0, 0>>)
             z == x \o y
             b == x \o d
             c == TransportChecksum(pkt)
             n == 12 + k
             i0 == 12 + at
  <2>1. /\ Wellformed(pkt) /\ FirstFragment(pkt) /\ Belongs(pkt, conn)
        /\ Uint16(d, at) = c
    BY PacketSound DEF SegmentSummed
  <2>2. /\ 8 <= k /\ (pkt.Protocol = TCP => 24 <= k)
        /\ pkt.Protocol \in {TCP, UDP} /\ pkt.Protocol \in Byte
    BY <2>1, PacketFields DEF Belongs, FirstFragment
  <2>p. TCP # UDP
    BY DEF TCP, UDP
  <2>3. (pkt.Protocol = TCP /\ at = 17) \/ (pkt.Protocol = UDP /\ at = 7)
    BY <2>2, <2>p DEF TransportAt
  <2>4. at \in Nat
    BY <2>3
  <2>5. /\ IsBytes(x, 12) /\ IsBytes(y, k) /\ IsBytes(z, n) /\ n <= TopWord
        /\ k \in Nat /\ k \in Word
    BY <2>1, <2>2, <2>4, SegmentBytes
  <2>6. IsBytes(d, k)
    BY <2>1, PacketFields DEF IsBytes
  <2>7. at \in 1..k /\ at + 1 \in 1..k /\ i0 \in 1..n /\ i0 + 1 \in 1..n /\ i0 % 2 = 1 /\ n \in Nat
    <3> HIDE DEF k, at
    <3> QED
      BY <2>2, <2>3, <2>5
  <2>8. c \in Word
    <3>1. 8 <= k /\ (pkt.Protocol = TCP => 18 <= k)
      BY <2>2, <2>5
    <3> QED
      BY <2>1, <3>1, TransportChecksumsFit DEF TransportChecksum
  <2>9. pkt.SrcIP \o pkt.DstIP \o <<0, pkt.Protocol>> \o PutUint16(k) = x
    <3>1. IsBytes(pkt.SrcIP, 4) /\ IsBytes(pkt.DstIP, 4)
      BY <2>1, PacketFields
    <3>2. pkt.Protocol \in Byte
      BY <2>2
    <3>3. k \in Word
      BY <2>5
    <3> DEFINE q == pkt.Protocol
               s == pkt.SrcIP
               r == pkt.DstIP
    <3> HIDE DEF k, q, s, r
    <3>4. q \in Byte /\ IsBytes(s, 4) /\ IsBytes(r, 4)
      BY <3>1, <3>2 DEF q, s, r
    <3>5. PseudoHeader(s, r, q, k) = s \o r \o <<0, q>> \o PutUint16(k)
      BY <3>3, <3>4, PseudoHeaderBytes
    <3> QED
      BY <3>5 DEF q, s, r
  <2>10. Joins(b, x, d) /\ Joins(z, x, y)
    BY DEF Joins
  (* the checksum is that of the rest, or all ones for zero *)
  <2>11. c = CalculateChecksum(z) \/ (CalculateChecksum(z) = 0 /\ c = TopWord)
    <3>1. CASE pkt.Protocol = TCP
      <4>1. at = 17
        BY <2>3, <3>1, <2>p
      <4>2. c = CalculateChecksum(PseudoHeader(pkt.SrcIP, pkt.DstIP, TCP, Len(d))
                                  \o Overwrite(d, 17, <<0, 0>>))
        <5>1. ~(Len(d) < 18)
          BY <2>2, <2>5, <3>1
        <5> QED
          BY <3>1, <5>1 DEF TransportChecksum, CalculateTCPChecksum
      <4> QED
        BY <3>1, <4>1, <4>2
    <3>2. CASE pkt.Protocol = UDP
      <4>1. at = 7
        BY <2>3, <3>2, <2>p
      <4> DEFINE w == CalculateChecksum(PseudoHeader(pkt.SrcIP, pkt.DstIP, UDP, Len(d))
                                        \o Overwrite(d, 7, <<0, 0>>))
      <4>s. ~(Len(d) < 8)
        BY <2>2, <2>5
      <4>2. c = IF w = 0 THEN 65535 ELSE w
        BY <3>2, <4>s, <2>p DEF TransportChecksum, CalculateUDPChecksum
      <4>3. w = CalculateChecksum(z)
        BY <3>2, <4>1
      <4> HIDE DEF w, c, z
      <4> QED
        BY <4>2, <4>3 DEF TopWord
    <3> QED
      BY <2>3, <3>1, <3>2
  <2>12. pkt.Protocol = UDP => c # 0
    <3> SUFFICES ASSUME pkt.Protocol = UDP PROVE c # 0
      OBVIOUS
    <3> DEFINE w == CalculateChecksum(PseudoHeader(pkt.SrcIP, pkt.DstIP, UDP, Len(d))
                                      \o Overwrite(d, 7, <<0, 0>>))
    <3>s. ~(Len(d) < 8)
      BY <2>2, <2>5
    <3>1. c = IF w = 0 THEN 65535 ELSE w
      BY <3>s, <2>p DEF TransportChecksum, CalculateUDPChecksum
    <3> HIDE DEF w, c
    <3> QED
      BY <3>1
  <2>13. pkt.Protocol = UDP => Uint16(d, 7) # 0
    BY <2>1, <2>3, <2>12, <2>p
  <2> HIDE DEF k, d, at, x, y, z, b, c
  <2>14. /\ IsBytes(b, n) /\ (\A i \in 1..12 : b[i] = x[i]) /\ (\A i \in 1..k : b[12 + i] = d[i])
    BY <2>5, <2>6, <2>10, Joined
  <2>15. (\A i \in 1..12 : z[i] = x[i]) /\ (\A i \in 1..k : z[12 + i] = y[i])
    BY <2>5, <2>10, Joined
  <2>16. \A i \in 1..k : y[i] = IF i = at THEN 0 ELSE IF i = at + 1 THEN 0 ELSE d[i]
    BY <2>4, <2>5, <2>6, ZeroByte, Overwritten DEF y
  <2>17. \A i \in 1..n : i # i0 /\ i # i0 + 1 => b[i] = z[i]
    <3> SUFFICES ASSUME NEW i \in 1..n, i # i0, i # i0 + 1 PROVE b[i] = z[i]
      OBVIOUS
    <3>1. CASE i <= 12
      <4>1. i \in 1..12
        BY <3>1
      <4> QED
        BY <2>14, <2>15, <4>1
    <3>2. CASE i > 12
      <4> DEFINE j == i - 12
      <4>1. j \in 1..k /\ 12 + j = i /\ j # at /\ j # at + 1
        BY <2>4, <2>5, <3>2
      <4> HIDE DEF j
      <4>2. b[12 + j] = d[j] /\ z[12 + j] = y[j] /\ y[j] = d[j]
        BY <2>14, <2>15, <2>16, <4>1
      <4> QED
        BY <4>1, <4>2
    <3> QED
      BY <3>1, <3>2
  <2>18. z[i0] = 0 /\ z[i0 + 1] = 0
    <3>1. z[12 + at] = 0
      BY <2>7, <2>15, <2>16
    <3>2. z[12 + (at + 1)] = 0 /\ 12 + (at + 1) = i0 + 1
      BY <2>4, <2>7, <2>15, <2>16
    <3> QED
      BY <3>1, <3>2
  <2>19. b[i0] = c \div 256 /\ b[i0 + 1] = c % 256
    <3>1. b[12 + at] = d[at]
      BY <2>7, <2>14
    <3>2. b[12 + (at + 1)] = d[at + 1] /\ 12 + (at + 1) = i0 + 1
      BY <2>4, <2>7, <2>14
    <3>3. d[at] \in Byte /\ d[at + 1] \in Byte
      BY <2>6, <2>7, ElementOfSeq DEF IsBytes
    <3> DEFINE u == d[at]
               v == d[at + 1]
    <3>4. c = (256 * u) + v /\ u \in Byte /\ v \in Byte
      BY <2>1, <3>3 DEF Uint16
    <3> HIDE DEF u, v
    <3>5. c \div 256 = u /\ c % 256 = v
      BY <3>4, WordOfBytes
    <3> QED
      BY <3>1, <3>2, <3>5 DEF u, v
  <2> HIDE DEF n, i0
  <2>20. Verifies(b)
    <3>1. n \in Nat /\ n <= TopWord
      BY <2>5, <2>7
    <3>2. i0 \in 1..n /\ i0 + 1 \in 1..n /\ i0 % 2 = 1
      BY <2>7
    <3>3. IsBytes(b, n) /\ IsBytes(z, n)
      BY <2>5, <2>14
    <3> QED
      BY <2>8, <2>11, <2>17, <2>18, <2>19, <3>1, <3>2, <3>3, ChecksumVerifies
  <2>21. pkt.SrcIP \o pkt.DstIP \o <<0, pkt.Protocol>> \o PutUint16(Len(pkt.Payload)) \o pkt.Payload = b
    BY <2>9 DEF b, x, k, d
  <2>22. pkt.Protocol = UDP => Uint16(pkt.Payload, 7) # 0
    BY <2>13 DEF d
  <2> QED
    BY <2>20, <2>21, <2>22
<1> QED
  BY <1>1, NetworkInvariant, PTL
=============================================================================
