--------------------------- MODULE FramingProofs ---------------------------
(***************************************************************************)
(* The fallback framing, for every base and every data: the buffer stays   *)
(* within four bytes, each call of proto_detect_packet finds what one scan *)
(* of its bytes finds, and what is made is analysed back.                  *)
(***************************************************************************)
EXTENDS Framing, SequenceTheorems, TLAPS

\* The smallest of a set is the one that has none below it.
LEMMA MinIs ==
  ASSUME NEW S \in SUBSET Nat, NEW m \in S, \A k \in S : m <= k
  PROVE  Min(S) = m
  <1>1. \E x \in S : \A y \in S : x <= y
    OBVIOUS
  <1>2. Min(S) \in S /\ \A y \in S : Min(S) <= y
    BY <1>1, Zenon DEF Min
  <1>3. Min(S) <= m /\ m <= Min(S) /\ Min(S) \in Nat
    BY <1>2
  <1>4. QED BY ONLY <1>3, m \in Nat

LEMMA MinOfTwo ==
  ASSUME NEW a \in Nat, NEW b \in Nat
  PROVE  Min({a, b}) = IF a <= b THEN a ELSE b
  <1>1. CASE a <= b
    BY <1>1, MinIs, \A k \in {a, b} : a <= k
  <1>2. CASE ~(a <= b)
    BY <1>2, MinIs, \A k \in {a, b} : b <= k
  <1>3. QED BY <1>1, <1>2
-----------------------------------------------------------------------------
(* A packet is made and taken apart *)

\* Two quotients and remainders of the same number are the same.
LEMMA UniqueRemainder ==
  ASSUME NEW d \in Nat \ {0}, NEW q \in Int, NEW p \in Int,
         NEW r \in 0..d-1, NEW s \in 0..d-1, q * d + r = p * d + s
  PROVE  r = s
  <1>1. (q - p) * d = s - r /\ (p - q) * d = r - s
    OBVIOUS
  <1>2. CASE q - p >= 1
    <2>1. (q - p) * d >= d
      BY <1>2
    <2>2. QED BY <1>1, <2>1
  <1>3. CASE p - q >= 1
    <2>1. (p - q) * d >= d
      BY <1>3
    <2>2. QED BY <1>1, <2>1
  <1>4. CASE q = p
    BY <1>4
  <1>5. QED BY <1>2, <1>3, <1>4

LEMMA Division ==
  ASSUME NEW d \in Nat \ {0}, NEW n \in Nat
  PROVE  /\ n \div d \in Nat /\ n % d \in 0..d-1
         /\ n = (n \div d) * d + (n % d)
  OBVIOUS

\* The two bytes of a length, put together, are the length below Base * Base.
LEMMA TwoBytes ==
  ASSUME NEW n \in Nat
  PROVE  /\ (n % Base) + Base * ((n \div Base) % Base) = n % (Base * Base)
         /\ n % (Base * Base) \in 0..n
  <1> DEFINE q == n \div Base
             r == n % Base
             u == q \div Base
             v == q % Base
             D == Base * Base
             p == n \div D
             s == n % D
  <1>1. Base \in Nat \ {0}
    BY BytesAssumption
  <1>2. D \in Nat \ {0}
    BY <1>1
  <1>3. q \in Nat /\ r \in 0..Base-1 /\ n = q * Base + r
    BY <1>1, Division
  <1>4. u \in Nat /\ v \in 0..Base-1 /\ q = u * Base + v
    BY <1>1, <1>3, Division
  <1>5. p \in Nat /\ s \in 0..D-1 /\ n = p * D + s
    BY <1>2, Division
  <1> HIDE DEF q, r, u, v, p, s
  <1>6. q * Base = u * D + Base * v
    BY <1>1, <1>4
  <1>7. v * Base <= (Base - 1) * Base
    BY <1>1, <1>4
  <1>8. r + Base * v \in 0..D-1
    <2>1. Base * v = v * Base /\ Base * v \in Nat /\ (Base - 1) * Base = D - Base
      BY <1>1, <1>4
    <2> HIDE DEF D
    <2>2. QED BY <1>1, <1>2, <1>3, <1>7, <2>1
  <1>9. u * D + (r + Base * v) = p * D + s
    BY <1>1, <1>3, <1>4, <1>5, <1>6
  <1>10. r + Base * v = s
    <2> DEFINE t == r + Base * v
    <2>1. u \in Int /\ p \in Int /\ t \in 0..D-1 /\ s \in 0..D-1 /\ u * D + t = p * D + s
      BY <1>4, <1>5, <1>8, <1>9
    <2> HIDE DEF D, t
    <2>2. t = s
      BY ONLY <1>2, <2>1, UniqueRemainder
    <2>3. QED BY <2>2 DEF t
  <1>11. p * D \in Nat
    BY <1>2, <1>5
  <1>12. s \in 0..n
    <2> HIDE DEF D
    <2> QED BY <1>5, <1>11
  <1>13. QED BY <1>10, <1>12 DEF q, r, u, v, s

\* What is made is a string of bytes, and analysed it gives back its command
\* and its data, as many of them as two bytes count.
LEMMA AnalyOfMakeup ==
  ASSUME NEW cmd \in Bytes, NEW data \in Seq(Bytes)
  PROVE  /\ proto_makeup_packet(cmd, data) \in Seq(Bytes)
         /\ LET len == Len(data) % (Base * Base)
            IN  proto_analy_packet(proto_makeup_packet(cmd, data)) =
                  [cmd |-> cmd, len |-> len, data |-> SubSeq(data, 1, len)]
  <1> DEFINE low == Len(data) % Base
             high == (Len(data) \div Base) % Base
             head == <<Mark, Verify, 0, cmd, low, high>>
             pack == proto_makeup_packet(cmd, data)
             len == Len(data) % (Base * Base)
  <1>1. Len(data) \in Nat
    OBVIOUS
  <1>2. low \in Bytes /\ high \in Bytes /\ 0 \in Bytes
    <2>1. Base \in Nat \ {0}
      BY BytesAssumption
    <2>2. low \in 0..Base-1 /\ Len(data) \div Base \in Nat
      BY <1>1, <2>1, Division
    <2>3. high \in 0..Base-1
      BY <2>1, <2>2, Division
    <2>4. QED BY <2>1, <2>2, <2>3 DEF Bytes
  <1>3. low + Base * high = len /\ len \in 0..Len(data)
    BY <1>1, TwoBytes
  <1>4. Mark \in Bytes /\ Verify \in Bytes /\ End \in Bytes
    BY BytesAssumption
  <1> HIDE DEF low, high, len
  <1>5. head \in Seq(Bytes) /\ Len(head) = 6
    BY <1>2, <1>4
  <1>6. head[4] = cmd /\ head[5] = low /\ head[6] = high
    OBVIOUS
  <1>7. pack = (head \o data) \o <<End>>
    BY DEF proto_makeup_packet, low, high
  <1> HIDE DEF head, pack
  <1>8. /\ head \o data \in Seq(Bytes) /\ Len(head \o data) = 6 + Len(data)
        /\ \A i \in 1..6 + Len(data) :
             (head \o data)[i] = IF i <= 6 THEN head[i] ELSE data[i - 6]
    <2>1. /\ head \o data \in Seq(Bytes) /\ Len(head \o data) = Len(head) + Len(data)
          /\ \A i \in 1..Len(head) + Len(data) :
               (head \o data)[i] = IF i <= Len(head) THEN head[i] ELSE data[i - Len(head)]
      BY ONLY <1>5, data \in Seq(Bytes), ConcatProperties
    <2>2. QED BY ONLY <1>5, <2>1
  <1>9. <<End>> \in Seq(Bytes) /\ Len(<<End>>) = 1
    BY <1>4
  <1>10. /\ pack \in Seq(Bytes)
         /\ \A i \in 1..6 + Len(data) : pack[i] = (head \o data)[i]
    BY <1>1, <1>7, <1>8, <1>9, ConcatProperties
  <1>11. pack[4] = cmd /\ pack[5] = low /\ pack[6] = high
    <2>1. \A i \in {4, 5, 6} : i \in 1..6 + Len(data) /\ i <= 6
      BY <1>1
    <2>2. QED BY ONLY <1>6, <1>8, <1>10, <2>1
  <1>12. SubSeq(pack, 7, 6 + len) = SubSeq(data, 1, len)
    <2>1. \A i \in 1..len : pack[6 + i] = data[i]
      <3>1. \A i \in 1..len : 6 + i \in 1..6 + Len(data) /\ ~(6 + i <= 6) /\ (6 + i) - 6 = i
        BY ONLY <1>1, <1>3
      <3>2. QED BY ONLY <1>8, <1>10, <3>1
    <2>2. len \in Nat
      BY <1>3
    <2>3. /\ \A i \in 7..6 + len : pack[i] \in Bytes
          /\ \A i \in 1..len : data[i] \in Bytes
      <3>1. \A i \in 1..len : data[i] \in Bytes
        BY <1>1, <1>3
      <3>2. \A i \in 7..6 + len : i - 6 \in 1..len /\ i = 6 + (i - 6)
        BY <2>2
      <3>3. QED BY <2>1, <3>1, <3>2
    <2>4. /\ SubSeq(pack, 7, 6 + len) \in Seq(Bytes) /\ Len(SubSeq(pack, 7, 6 + len)) = len
          /\ \A i \in 1..len : SubSeq(pack, 7, 6 + len)[i] = pack[6 + i]
      <3>1. 7 \in Int /\ 6 + len \in Int /\ (6 + len) - 7 + 1 = len
            /\ \A i \in 1..len : 7 + i - 1 = 6 + i
        BY <2>2
      <3>2. /\ SubSeq(pack, 7, 6 + len) \in Seq(Bytes)
            /\ Len(SubSeq(pack, 7, 6 + len)) = IF 7 <= 6 + len THEN (6 + len) - 7 + 1 ELSE 0
            /\ \A i \in 1..(6 + len) - 7 + 1 : SubSeq(pack, 7, 6 + len)[i] = pack[7 + i - 1]
        BY <2>3, <3>1, SubSeqProperties
      <3>3. QED BY <2>2, <3>1, <3>2
    <2>5. /\ SubSeq(data, 1, len) \in Seq(Bytes) /\ Len(SubSeq(data, 1, len)) = len
          /\ \A i \in 1..len : SubSeq(data, 1, len)[i] = data[i]
      BY <2>2, <2>3, SubSeqProperties
    <2>6. QED BY <2>1, <2>4, <2>5, SeqEqual
  <1>13. QED BY <1>3, <1>10, <1>11, <1>12 DEF proto_analy_packet, len, pack
-----------------------------------------------------------------------------
(* The search, step by step *)

\* How far the call has read the bytes it found.
Read == Len(found) - Len(recv_ringbuf)

\* A call reads from the front; while it looks for the head no Mark has
\* passed; while it looks for the verify byte a Mark has, and no Verify after
\* it; and behind the first such Verify it reads the rest.
Searched ==
  /\ pc \in {"head", "verify", "rest"} =>
       Read \in Nat /\ recv_ringbuf = SubSeq(found, Read + 1, Len(found))
  /\ pc = "head" => \A k \in 1..Read : found[k] # Mark
  /\ pc = "verify" => /\ tmp_protoLen = 1 /\ proto_data[0] = Mark
                      /\ \E h \in 1..Read : found[h] = Mark
                      /\ \A v \in Verified(found) : v > Read
  /\ pc = "rest" => /\ tmp_protoLen = 2 /\ proto_data[0] = Mark /\ proto_data[1] = Verify
                    /\ Read \in Verified(found)
                    /\ \A v \in Verified(found) : v >= Read
  /\ pc = "handle" => ret = 0

\* What was made last is remembered as it was made.
Remembered ==
  \/ made = <<>>
  \/ \E cmd \in Cmds, data \in Data :
       made = [cmd |-> cmd, data |-> data, pack |-> proto_makeup_packet(cmd, data)]

\* The invariant.
IInv == TypeOK /\ DetectIsScan /\ Searched /\ Remembered

\* What is left of a string behind its first p bytes, when something is.
LEMMA Behind ==
  ASSUME NEW s \in Seq(Bytes), NEW p \in 0..Len(s)-1
  PROVE  LET t == SubSeq(s, p + 1, Len(s))
         IN  /\ Head(t) = s[p + 1] /\ s[p + 1] \in Bytes
             /\ Tail(t) = SubSeq(s, p + 2, Len(s))
  <1>1. p + 1 \in 1..Len(s) /\ Len(s) \in p + 1..Len(s)
    OBVIOUS
  <1>2. /\ Head(SubSeq(s, p + 1, Len(s))) = s[p + 1]
        /\ Tail(SubSeq(s, p + 1, Len(s))) = SubSeq(s, (p + 1) + 1, Len(s))
    BY ONLY <1>1, s \in Seq(Bytes), HeadTailOfSubSeq
  <1>3. s[p + 1] \in Bytes /\ (p + 1) + 1 = p + 2
    BY <1>1
  <1>4. QED BY <1>2, <1>3

\* A byte is taken off the ring.
LEMMA TakeByte ==
  ASSUME TypeOK, Searched, pc \in {"head", "verify"}, recv_ringbuf # <<>>,
         recv_ringbuf' = Tail(recv_ringbuf), found' = found
  PROVE  /\ Read \in Nat /\ Read' = Read + 1 /\ Read + 1 \in 1..Len(found)
         /\ byte = found[Read + 1] /\ byte \in Bytes
         /\ recv_ringbuf' \in Seq(Bytes)
         /\ recv_ringbuf' = SubSeq(found, Read' + 1, Len(found))
  <1>1. recv_ringbuf \in Seq(Bytes) /\ found \in Seq(Bytes)
    BY DEF TypeOK
  <1>2. Read \in Nat /\ recv_ringbuf = SubSeq(found, Read + 1, Len(found))
    BY DEF Searched
  <1>3. recv_ringbuf' \in Seq(Bytes) /\ Len(recv_ringbuf') = Len(recv_ringbuf) - 1
        /\ Len(recv_ringbuf) \in Nat \ {0}
    BY ONLY <1>1, recv_ringbuf # <<>>, recv_ringbuf' = Tail(recv_ringbuf), HeadTailProperties,
            EmptySeq
  <1>4. Read' = Read + 1 /\ Read \in 0..Len(found)-1
    BY <1>1, <1>2, <1>3 DEF Read
  <1>5. /\ Head(recv_ringbuf) = found[Read + 1] /\ found[Read + 1] \in Bytes
        /\ Tail(recv_ringbuf) = SubSeq(found, Read + 2, Len(found))
    BY ONLY <1>1, <1>2, <1>4, Behind
  <1>6. Read' + 1 = Read + 2 /\ Read + 1 \in 1..Len(found)
    BY <1>1, <1>2, <1>4
  <1>7. QED BY <1>2, <1>3, <1>4, <1>5, <1>6 DEF byte

\* The empty string holds nothing, and nothing of it is left.
LEMMA NothingInNothing == Scan(<<>>) = [pack |-> <<>>, left |-> <<>>]
  <1>1. Verified(<<>>) = {}
    BY DEF Verified
  <1>2. QED BY <1>1 DEF Scan

\* The first Verify that follows a Mark is where the scan begins.
LEMMA FirstVerified ==
  ASSUME NEW s \in Seq(Bytes), NEW v \in Verified(s), \A w \in Verified(s) : w >= v
  PROVE  Min(Verified(s)) = v /\ v \in 1..Len(s) /\ Verified(s) # {}
  <1>1. v \in 1..Len(s) /\ Verified(s) \in SUBSET Nat
    BY DEF Verified
  <1>2. \A w \in Verified(s) : v <= w
    BY <1>1
  <1>3. QED BY <1>1, <1>2, MinIs

LEMMA FramingInit == Init => IInv
  <1> SUFFICES ASSUME Init PROVE IInv
    OBVIOUS
  <1>1. 0 \in Bytes /\ <<>> \in Seq(Bytes)
    BY BytesAssumption DEF Bytes
  <1>2. TypeOK
    <2>1. proto_data \in [0..5 -> Bytes] /\ proto_data[4] = 0 /\ proto_data[5] = 0
      BY <1>1 DEF Init
    <2>2. QED BY <1>1, <2>1 DEF Init, TypeOK
  <1>3. DetectIsScan
    BY NothingInNothing DEF Init, DetectIsScan
  <1>4. Searched /\ Remembered
    BY DEF Init, Searched, Remembered
  <1>5. QED BY <1>2, <1>3, <1>4 DEF IInv

\* The other program's sending disturbs nothing the receiving thread knows.
LEMMA SendPacketStep == IInv /\ SendPacket => IInv'
  <1> SUFFICES ASSUME IInv, SendPacket PROVE IInv'
    OBVIOUS
  <1>1. PICK cmd \in Cmds, data \in Data :
          /\ made' = [cmd |-> cmd, data |-> data, pack |-> proto_makeup_packet(cmd, data)]
          /\ network' = network \o made'.pack
    BY DEF SendPacket
  <1>2. network' \in Seq(Bytes)
    <2>1. cmd \in Bytes /\ data \in Seq(Bytes) /\ network \in Seq(Bytes)
      BY BytesAssumption DEF IInv, TypeOK
    <2>2. made'.pack \in Seq(Bytes)
      BY <1>1, <2>1, AnalyOfMakeup
    <2>3. QED BY ONLY <1>1, <2>1, <2>2, ConcatProperties
  <1>3. Remembered'
    BY <1>1 DEF Remembered
  <1>4. made'.cmd \in Cmds /\ made'.data \in Data
    BY <1>1
  <1>5. UNCHANGED <<recv_ringbuf, proto_data, proto_len, tmp_protoLen, pc, ret, found>>
    BY DEF SendPacket
  <1>6. TypeOK'
    BY <1>2, <1>4, <1>5 DEF IInv, TypeOK
  <1>7. DetectIsScan'
    BY <1>5 DEF IInv, DetectIsScan, Packet
  <1>8. Searched'
    BY <1>5 DEF IInv, Searched, Read
  <1>9. QED BY <1>3, <1>6, <1>7, <1>8 DEF IInv

LEMMA ReceiveStep == IInv /\ Receive => IInv'
  <1> SUFFICES ASSUME IInv, Receive PROVE IInv'
    OBVIOUS
  <1>1. PICK n \in 0..Len(network) :
          /\ recv_ringbuf' = recv_ringbuf \o SubSeq(network, 1, n)
          /\ network' = SubSeq(network, n + 1, Len(network))
    BY DEF Receive
  <1>2. network \in Seq(Bytes) /\ recv_ringbuf \in Seq(Bytes)
    BY DEF IInv, TypeOK
  <1>3. SubSeq(network, 1, n) \in Seq(Bytes) /\ network' \in Seq(Bytes)
    BY <1>1, <1>2
  <1>4. recv_ringbuf' \in Seq(Bytes)
    BY ONLY <1>1, <1>2, <1>3, ConcatProperties
  <1>5. /\ found' = recv_ringbuf' /\ pc' = "head" /\ tmp_protoLen' = proto_len
        /\ UNCHANGED <<proto_data, proto_len, ret, made>>
    BY DEF Receive, Goto
  <1>6. TypeOK'
    BY <1>3, <1>4, <1>5 DEF IInv, TypeOK
  <1>7. DetectIsScan'
    BY <1>5 DEF DetectIsScan
  <1>8. Searched'
    <2>1. Read' = 0
      BY <1>4, <1>5 DEF Read
    <2>2. SubSeq(found', 1, Len(found')) = found'
      BY <1>4, <1>5, SubSeqFull
    <2>3. \A k \in 1..0 : FALSE
      OBVIOUS
    <2>4. Read' + 1 = 1 /\ Read' \in Nat
      BY <2>1
    <2>5. QED BY <1>5, <2>1, <2>2, <2>3, <2>4 DEF Searched
  <1>9. Remembered'
    BY <1>5 DEF IInv, Remembered
  <1>10. QED BY <1>6, <1>7, <1>8, <1>9 DEF IInv

\* The ring is empty before a packet is found: the scan finds none either.
LEMMA DrainedStep == IInv /\ Drained => IInv'
  <1> SUFFICES ASSUME IInv, Drained PROVE IInv'
    OBVIOUS
  <1>1. /\ pc \in {"head", "verify", "rest"} /\ recv_ringbuf = <<>>
        /\ pc' = "receive" /\ proto_len' = tmp_protoLen /\ ret' = -1
        /\ UNCHANGED <<network, recv_ringbuf, proto_data, tmp_protoLen, found, made>>
    BY DEF Drained
  <1>2. TypeOK'
    BY <1>1 DEF IInv, TypeOK
  <1>3. Searched' /\ Remembered'
    BY <1>1 DEF IInv, Searched, Remembered
  <1>4. Scan(found) = [pack |-> <<>>, left |-> <<>>]
    <2>1. found \in Seq(Bytes) /\ Searched
      BY DEF IInv, TypeOK
    <2>2. Read = Len(found) /\ DOMAIN found = 1..Len(found) /\ Len(found) \in Nat
      BY <1>1, <2>1 DEF Read
    <2>3. CASE pc = "head"
      <3>1. \A k \in 1..Len(found) : found[k] # Mark
        BY <2>1, <2>2, <2>3 DEF Searched
      <3>2. Verified(found) = {}
        BY <2>2, <3>1 DEF Verified
      <3>3. QED BY <3>2 DEF Scan
    <2>4. CASE pc = "verify"
      <3>1. \A v \in Verified(found) : v > Len(found)
        BY <2>1, <2>2, <2>4 DEF Searched
      <3>2. Verified(found) = {}
        BY <2>2, <3>1 DEF Verified
      <3>3. QED BY <3>2 DEF Scan
    <2>5. CASE pc = "rest"
      <3>1. Len(found) \in Verified(found) /\ \A v \in Verified(found) : v >= Len(found)
        BY <2>1, <2>2, <2>5 DEF Searched
      <3>2. Min(Verified(found)) = Len(found)
        BY <2>1, <3>1, FirstVerified
      <3>3. QED BY <3>2 DEF Scan
    <2>6. QED BY <1>1, <2>3, <2>4, <2>5
  <1>5. DetectIsScan'
    BY <1>1, <1>4 DEF DetectIsScan
  <1>6. QED BY <1>2, <1>3, <1>5 DEF IInv

\* The byte put into the buffer leaves it a buffer.
LEMMA BufferByte ==
  ASSUME TypeOK, NEW k \in 0..3, NEW b \in Bytes, proto_data' = [proto_data EXCEPT ![k] = b]
  PROVE  /\ proto_data' \in [0..5 -> Bytes] /\ proto_data'[4] = 0 /\ proto_data'[5] = 0
         /\ proto_data'[k] = b
         /\ \A j \in 0..3 : j # k => proto_data'[j] = proto_data[j]
  BY DEF TypeOK

LEMMA CheckHeadStep == IInv /\ CheckHead => IInv'
  <1> SUFFICES ASSUME IInv, CheckHead PROVE IInv'
    OBVIOUS
  <1>1. /\ pc = "head" /\ recv_ringbuf # <<>> /\ recv_ringbuf' = Tail(recv_ringbuf)
        /\ UNCHANGED <<network, proto_len, ret, found, made>>
    BY DEF CheckHead
  <1>2. TypeOK /\ Searched
    BY DEF IInv
  <1>3. /\ Read \in Nat /\ Read' = Read + 1 /\ Read + 1 \in 1..Len(found)
        /\ byte = found[Read + 1] /\ byte \in Bytes
        /\ recv_ringbuf' \in Seq(Bytes)
        /\ recv_ringbuf' = SubSeq(found, Read' + 1, Len(found))
    BY <1>1, <1>2, TakeByte
  <1>4. \A k \in 1..Read : found[k] # Mark
    BY <1>1, <1>2 DEF Searched
  <1>5. Remembered'
    BY <1>1 DEF IInv, Remembered
  <1>6. CASE byte = Mark
    <2>1. proto_data' = [proto_data EXCEPT ![0] = byte] /\ tmp_protoLen' = 1 /\ pc' = "verify"
      BY <1>6 DEF CheckHead
    <2>2. /\ proto_data' \in [0..5 -> Bytes] /\ proto_data'[4] = 0 /\ proto_data'[5] = 0
          /\ proto_data'[0] = Mark
      BY ONLY <1>2, <1>3, <1>6, <2>1, BufferByte, 0 \in 0..3
    <2>3. TypeOK'
      BY <1>1, <1>2, <1>3, <2>1, <2>2 DEF TypeOK
    <2>4. DetectIsScan'
      BY <2>1 DEF DetectIsScan
    <2>5. Read + 1 \in 1..Read' /\ found[Read + 1] = Mark
      BY <1>3, <1>6
    <2>6. ASSUME NEW v \in Verified(found) PROVE v > Read'
      <3>1. v \in Nat
        BY <1>2 DEF Verified, TypeOK
      <3>2. PICK h \in 1..v-1 : found[h] = Mark
        BY DEF Verified
      <3>3. ~(h <= Read)
        BY <1>4, <3>1, <3>2
      <3>4. QED BY <1>3, <3>1, <3>3
    <2>7. Searched'
      <3>1. pc' = "verify" /\ found' = found /\ Read' \in Nat
        BY <1>1, <1>3, <2>1
      <3>2. QED BY ONLY <1>3, <2>1, <2>2, <2>5, <2>6, <3>1 DEF Searched
    <2>8. QED BY <1>5, <2>3, <2>4, <2>7 DEF IInv
  <1>7. CASE byte # Mark
    <2>1. UNCHANGED <<proto_data, tmp_protoLen, pc>>
      BY <1>7 DEF CheckHead
    <2>2. TypeOK'
      BY <1>1, <1>2, <1>3, <2>1 DEF TypeOK
    <2>3. DetectIsScan'
      BY <1>1, <2>1 DEF DetectIsScan
    <2>4. \A k \in 1..Read' : found[k] # Mark
      BY <1>3, <1>4, <1>7
    <2>5. Searched'
      <3>1. pc' = "head" /\ found' = found /\ Read' \in Nat
        BY <1>1, <1>3, <2>1
      <3>2. QED BY ONLY <1>3, <2>4, <3>1 DEF Searched
    <2>6. QED BY <1>5, <2>2, <2>3, <2>5 DEF IInv
  <1>8. QED BY <1>6, <1>7

LEMMA CheckVerifyStep == IInv /\ CheckVerify => IInv'
  <1> SUFFICES ASSUME IInv, CheckVerify PROVE IInv'
    OBVIOUS
  <1>1. /\ pc = "verify" /\ recv_ringbuf # <<>> /\ recv_ringbuf' = Tail(recv_ringbuf)
        /\ UNCHANGED <<network, proto_len, ret, found, made>>
    BY DEF CheckVerify
  <1>2. TypeOK /\ Searched
    BY DEF IInv
  <1>3. /\ Read \in Nat /\ Read' = Read + 1 /\ Read + 1 \in 1..Len(found)
        /\ byte = found[Read + 1] /\ byte \in Bytes
        /\ recv_ringbuf' \in Seq(Bytes)
        /\ recv_ringbuf' = SubSeq(found, Read' + 1, Len(found))
    BY <1>1, <1>2, TakeByte
  <1>4. /\ tmp_protoLen = 1 /\ proto_data[0] = Mark
        /\ \A v \in Verified(found) : v > Read
    BY <1>1, <1>2 DEF Searched
  <1>5. PICK h \in 1..Read : found[h] = Mark
    BY <1>1, <1>2 DEF Searched
  <1>6. Remembered'
    BY <1>1 DEF IInv, Remembered
  <1>7. \A v \in Verified(found) : v \in Nat /\ found[v] = Verify
    BY <1>2 DEF Verified, TypeOK
  <1>8. CASE byte = Verify /\ pc' = "rest"
    <2>1. proto_data' = [proto_data EXCEPT ![1] = byte] /\ tmp_protoLen' = 2
      BY <1>1, <1>4, <1>8 DEF CheckVerify
    <2>2. /\ proto_data' \in [0..5 -> Bytes] /\ proto_data'[4] = 0 /\ proto_data'[5] = 0
          /\ proto_data'[0] = Mark /\ proto_data'[1] = Verify
      <3>1. 0 \in 0..3 /\ 1 \in 0..3 /\ 0 # 1
        OBVIOUS
      <3>2. /\ proto_data' \in [0..5 -> Bytes] /\ proto_data'[4] = 0 /\ proto_data'[5] = 0
            /\ proto_data'[1] = byte
            /\ \A j \in 0..3 : j # 1 => proto_data'[j] = proto_data[j]
        BY ONLY <1>2, <1>3, <2>1, <3>1, BufferByte
      <3>3. QED BY ONLY <1>4, <1>8, <3>1, <3>2
    <2>3. TypeOK'
      BY <1>1, <1>2, <1>3, <1>8, <2>1, <2>2 DEF TypeOK
    <2>4. Read' \in Verified(found)
      <3>1. Read + 1 \in DOMAIN found
        BY <1>2, <1>3 DEF TypeOK
      <3>2. h \in 1..(Read + 1) - 1
        BY <1>3
      <3>3. QED BY <1>3, <1>5, <1>8, <3>1, <3>2 DEF Verified
    <2>5. \A v \in Verified(found) : v >= Read'
      BY <1>3, <1>4, <1>7
    <2>6. Searched'
      <3>1. pc' = "rest" /\ found' = found /\ Read' \in Nat
        BY <1>1, <1>3, <1>8
      <3>2. QED BY ONLY <1>3, <2>1, <2>2, <2>4, <2>5, <3>1 DEF Searched
    <2>7. DetectIsScan'
      BY <1>8 DEF DetectIsScan
    <2>8. QED BY <1>6, <2>3, <2>6, <2>7 DEF IInv
  <1>9. CASE byte # Verify /\ UNCHANGED pc
    <2>1. tmp_protoLen' = 1 /\ (proto_data' = [proto_data EXCEPT ![0] = Mark] \/ UNCHANGED proto_data)
      BY <1>4, <1>9 DEF CheckVerify
    <2>2. /\ proto_data' \in [0..5 -> Bytes] /\ proto_data'[4] = 0 /\ proto_data'[5] = 0
          /\ proto_data'[0] = Mark
      <3>1. CASE UNCHANGED proto_data
        BY <1>2, <1>4, <3>1 DEF TypeOK
      <3>2. CASE proto_data' = [proto_data EXCEPT ![0] = Mark]
        BY ONLY <1>2, <3>2, BufferByte, 0 \in 0..3, BytesAssumption
      <3>3. QED BY <2>1, <3>1, <3>2
    <2>3. TypeOK'
      BY <1>1, <1>2, <1>3, <1>9, <2>1, <2>2 DEF TypeOK
    <2>4. h \in 1..Read' /\ found[h] = Mark
      BY <1>3, <1>5
    <2>5. \A v \in Verified(found) : v > Read'
      BY <1>3, <1>4, <1>7, <1>9
    <2>6. Searched'
      <3>1. pc' = "verify" /\ found' = found /\ Read' \in Nat
        BY <1>1, <1>3, <1>9
      <3>2. QED BY ONLY <1>3, <2>1, <2>2, <2>4, <2>5, <3>1 DEF Searched
    <2>7. DetectIsScan'
      BY <1>1, <1>9 DEF DetectIsScan
    <2>8. QED BY <1>6, <2>3, <2>6, <2>7 DEF IInv
  <1>10. byte = Verify => pc' = "rest"
    BY BytesAssumption DEF CheckVerify
  <1>11. byte # Verify => UNCHANGED pc
    BY DEF CheckVerify
  <1>12. QED BY <1>8, <1>9, <1>10, <1>11

LEMMA HandleStep == IInv /\ Handle => IInv'
  <1> SUFFICES ASSUME IInv, Handle PROVE IInv'
    OBVIOUS
  <1>1. /\ pc = "handle" /\ pc' \in {"receive", "crashed"}
        /\ UNCHANGED <<network, recv_ringbuf, proto_data, proto_len, tmp_protoLen, ret, found, made>>
    BY DEF Handle, Goto
  <1>2. ret = 0
    BY <1>1 DEF IInv, Searched
  <1>3. TypeOK'
    BY <1>1 DEF IInv, TypeOK
  <1>4. DetectIsScan'
    BY <1>1, <1>2 DEF DetectIsScan
  <1>5. Searched' /\ Remembered'
    BY <1>1 DEF IInv, Searched, Remembered
  <1>6. QED BY <1>3, <1>4, <1>5 DEF IInv
-----------------------------------------------------------------------------
(* The rest is read *)

\* What follows the first p bytes of s.
From(s, p) == SubSeq(s, p + 1, Len(s))

\* String r is s behind its first v bytes, and n of it are read.
RestRead(s, v, r, n) ==
  /\ s \in Seq(Bytes) /\ v \in 1..Len(s)-1 /\ r \in Seq(Bytes) /\ n \in Nat
  /\ r = SubSeq(s, v + 1, Len(s))
  /\ n = IF 2 <= Len(r) THEN 2 ELSE Len(r)

\* What is read after the first v bytes of s is what the scan takes after them.
LEMMA TwoMore ==
  ASSUME NEW s, NEW v, NEW r, NEW n, RestRead(s, v, r, n)
  PROVE  /\ n \in {1, 2} /\ Len(r) = Len(s) - v /\ n <= Len(r)
         /\ \A i \in 1..n : r[i] = s[v + i] /\ s[v + i] \in Bytes
  <1>a. s \in Seq(Bytes) /\ v \in 1..Len(s)-1 /\ r \in Seq(Bytes) /\ n \in Nat
    BY DEF RestRead
  <1>b. r = SubSeq(s, v + 1, Len(s))
    BY DEF RestRead
  <1>c. n = IF 2 <= Len(r) THEN 2 ELSE Len(r)
    BY DEF RestRead
  <1> USE <1>a, <1>b, <1>c
  <1>1. Len(s) \in Nat /\ v \in Nat /\ v + 1 <= Len(s)
    OBVIOUS
  <1>2. /\ Len(r) = Len(s) - v
        /\ \A i \in 1..Len(s) - v : r[i] = s[v + i]
    <2>1. \A i \in v + 1..Len(s) : s[i] \in Bytes
      BY <1>1
    <2>2. v + 1 \in Int /\ Len(s) \in Int /\ Len(s) - (v + 1) + 1 = Len(s) - v
          /\ \A i \in 1..Len(s) - v : (v + 1) + i - 1 = v + i
      BY <1>1
    <2>3. /\ Len(r) = (IF v + 1 <= Len(s) THEN Len(s) - (v + 1) + 1 ELSE 0)
          /\ \A i \in 1..Len(s) - (v + 1) + 1 : r[i] = s[(v + 1) + i - 1]
      BY ONLY <1>b, <2>1, <2>2, SubSeqProperties
    <2>4. QED BY <1>1, <2>2, <2>3
  <1>3. n = IF 2 <= Len(r) THEN 2 ELSE Len(r)
    OBVIOUS
  <1>4. n \in {1, 2} /\ n <= Len(r)
    BY ONLY <1>1, <1>2, <1>3
  <1>5. \A i \in 1..n : r[i] = s[v + i] /\ s[v + i] \in Bytes
    <2>1. \A i \in 1..n : i \in 1..Len(s) - v /\ v + i \in 1..Len(s)
      BY ONLY <1>1, <1>2, <1>4
    <2>2. \A i \in 1..Len(s) : s[i] \in Bytes
      OBVIOUS
    <2>3. QED BY ONLY <1>2, <2>1, <2>2
  <1>6. QED BY ONLY <1>2, <1>4, <1>5

\* The rest of the rest is where the scan leaves it.
LEMMA LeftBehind ==
  ASSUME NEW s \in Seq(Bytes), NEW v \in Nat, NEW r \in Seq(Bytes), NEW n \in Nat,
         RestRead(s, v, r, n)
  PROVE  From(r, n) = From(s, v + n)
  <1>a. s \in Seq(Bytes) /\ v \in 1..Len(s)-1 /\ r \in Seq(Bytes) /\ n \in Nat
    BY DEF RestRead
  <1>b. r = SubSeq(s, v + 1, Len(s))
    BY DEF RestRead
  <1>1. Len(s) \in Nat /\ v \in Nat /\ v + 1 <= Len(s)
    BY <1>a
  <1>2. n \in {1, 2} /\ Len(r) = Len(s) - v /\ n <= Len(r)
    BY TwoMore, Zenon
  <1>3. SubSeq(r, n + 1, Len(r)) = SubSeq(s, v + n + 1, Len(s))
    <2>1. CASE n = Len(r)
      <3>1. n + 1 \in Int /\ Len(r) \in Int /\ Len(r) < n + 1 /\ v + n + 1 \in Int
            /\ Len(s) \in Int /\ Len(s) < v + n + 1
        BY ONLY <1>1, <1>2, <2>1
      <3>2. SubSeq(r, n + 1, Len(r)) = <<>> /\ SubSeq(s, v + n + 1, Len(s)) = <<>>
        BY ONLY <3>1, SubSeqEmpty
      <3>3. QED BY <3>2
    <2>2. CASE n < Len(r)
      <3>1. v + 1 \in 1..Len(s) /\ Len(s) \in 1..Len(s) /\ n + 1 \in 1..Len(s) - (v + 1) + 1
            /\ Len(r) \in 1..Len(s) - (v + 1) + 1
            /\ (v + 1) + (n + 1) - 1 = v + n + 1 /\ (v + 1) + Len(r) - 1 = Len(s)
        BY ONLY <1>1, <1>2, <2>2
      <3>2. SubSeq(SubSeq(s, v + 1, Len(s)), n + 1, Len(r))
              = SubSeq(s, (v + 1) + (n + 1) - 1, (v + 1) + Len(r) - 1)
        BY ONLY <3>1, <1>a, SubSeqOfSubSeq
      <3>3. QED BY ONLY <3>1, <3>2, <1>b, Zenon
    <2>3. n = Len(r) \/ n < Len(r)
      BY ONLY <1>1, <1>2
    <2>4. QED BY ONLY <2>1, <2>2, <2>3
  <1>4. QED BY <1>3 DEF From

\* The rest put into the buffer behind its first two bytes.
LEMMA CopiedRest ==
  ASSUME TypeOK, NEW r \in Seq(Bytes), NEW n \in {1, 2}, n <= Len(r),
         proto_data' = Copied(proto_data, 2, SubSeq(r, 1, n))
  PROVE  /\ proto_data' \in [0..5 -> Bytes] /\ proto_data'[4] = 0 /\ proto_data'[5] = 0
         /\ proto_data'[0] = proto_data[0] /\ proto_data'[1] = proto_data[1]
         /\ \A i \in 1..n : proto_data'[1 + i] = r[i]
  <1> DEFINE t == SubSeq(r, 1, n)
  <1>1. Len(r) \in Nat /\ n \in Nat
    OBVIOUS
  <1>2. \A i \in 1..n : r[i] \in Bytes
    BY <1>1
  <1>3. t \in Seq(Bytes) /\ Len(t) = n /\ \A i \in 1..n : t[i] = r[i]
    BY <1>1, <1>2, SubSeqProperties
  <1> HIDE DEF t
  <1>4. DOMAIN t = 1..n
    BY <1>3
  <1>5. proto_data \in [0..5 -> Bytes] /\ proto_data[4] = 0 /\ proto_data[5] = 0
    BY DEF TypeOK
  <1>6. proto_data' = [k \in 0..5 |-> IF k - 1 \in 1..n THEN r[k - 1] ELSE proto_data[k]]
    <2>1. proto_data' = [k \in 0..5 |-> IF k - 2 + 1 \in DOMAIN t THEN t[k - 2 + 1] ELSE proto_data[k]]
      BY <1>5 DEF Copied, t
    <2>2. \A k \in 0..5 : k - 2 + 1 = k - 1
      OBVIOUS
    <2>3. QED BY ONLY <1>3, <1>4, <2>1, <2>2
  <1>7. \A k \in 0..5 : (IF k - 1 \in 1..n THEN r[k - 1] ELSE proto_data[k]) \in Bytes
    BY ONLY <1>2, <1>5
  <1>8. proto_data' \in [0..5 -> Bytes]
    BY ONLY <1>6, <1>7
  <1>9. /\ \A k \in {0, 1, 4, 5} : k \in 0..5 /\ ~(k - 1 \in 1..n)
        /\ \A i \in 1..n : 1 + i \in 0..5 /\ (1 + i) - 1 = i
    OBVIOUS
  <1>10. QED BY ONLY <1>5, <1>6, <1>8, <1>9

\* The buffer of two bytes and the n that follow, as a string.
LEMMA PacketRead ==
  ASSUME NEW s \in Seq(Bytes), NEW v \in Nat, NEW n \in {1, 2}, v + n <= Len(s),
         NEW d \in [0..5 -> Bytes], d[0] = Mark, d[1] = Verify,
         \A i \in 1..n : d[1 + i] = s[v + i]
  PROVE  [k \in 1..2 + n |-> d[k - 1]] = <<Mark, Verify>> \o SubSeq(s, v + 1, v + n)
  <1> DEFINE p == [k \in 1..2 + n |-> d[k - 1]]
             h == <<Mark, Verify>>
             t == SubSeq(s, v + 1, v + n)
  <1>1. Len(s) \in Nat /\ n \in Nat
    OBVIOUS
  <1>2. \A i \in v + 1..v + n : s[i] \in Bytes
    BY <1>1
  <1>3. v + 1 \in Int /\ v + n \in Int /\ v + 1 <= v + n /\ (v + n) - (v + 1) + 1 = n
        /\ \A i \in 1..n : (v + 1) + i - 1 = v + i
    BY <1>1
  <1>4. /\ t \in Seq(Bytes) /\ Len(t) = (IF v + 1 <= v + n THEN (v + n) - (v + 1) + 1 ELSE 0)
        /\ \A i \in 1..(v + n) - (v + 1) + 1 : t[i] = s[(v + 1) + i - 1]
    BY ONLY <1>2, <1>3, SubSeqProperties
  <1>5. Len(t) = n /\ \A i \in 1..n : t[i] = s[v + i]
    BY ONLY <1>3, <1>4
  <1>6. h \in Seq(Bytes) /\ Len(h) = 2 /\ h[1] = Mark /\ h[2] = Verify
    BY BytesAssumption
  <1>7. p \in [1..2 + n -> Bytes] /\ \A k \in 1..2 + n : p[k] = d[k - 1]
    OBVIOUS
  <1>8. p \in Seq(Bytes) /\ Len(p) = 2 + n
    BY <1>1, <1>7
  <1> HIDE DEF p, h, t
  <1>9. /\ h \o t \in Seq(Bytes) /\ Len(h \o t) = 2 + n
        /\ \A i \in 1..2 + n : (h \o t)[i] = IF i <= 2 THEN h[i] ELSE t[i - 2]
    <2>1. /\ h \o t \in Seq(Bytes) /\ Len(h \o t) = Len(h) + Len(t)
          /\ \A i \in 1..Len(h) + Len(t) : (h \o t)[i] = IF i <= Len(h) THEN h[i] ELSE t[i - Len(h)]
      BY ONLY <1>4, <1>6, ConcatProperties
    <2>2. QED BY ONLY <1>5, <1>6, <2>1
  <1>10. ASSUME NEW i \in 1..2 + n PROVE p[i] = (h \o t)[i]
    <2>1. CASE i <= 2
      <3>1. i = 1 \/ i = 2
        BY <2>1
      <3>2. QED BY <1>6, <1>7, <1>9, <2>1, <3>1
    <2>2. CASE i > 2
      <3>1. i - 2 \in 1..n /\ 1 + (i - 2) = i - 1 /\ ~(i <= 2)
        BY <1>1, <2>2
      <3>2. QED BY <1>5, <1>7, <1>9, <3>1
    <2>3. i <= 2 \/ i > 2
      OBVIOUS
    <2>4. QED BY ONLY <2>1, <2>2, <2>3
  <1>11. p = h \o t
    BY ONLY <1>8, <1>9, <1>10, SeqEqual
  <1>12. QED BY <1>11 DEF p, h, t

\* What is read decides as the scan decides.
LEMMA ReadRestStep == IInv /\ ReadRest => IInv'
  <1> SUFFICES ASSUME IInv, ReadRest PROVE IInv'
    OBVIOUS
  <1> DEFINE v == Read
             n == Min({2, Len(recv_ringbuf)})
  <1>1. TypeOK /\ Searched /\ pc = "rest" /\ recv_ringbuf # <<>>
    BY DEF IInv, ReadRest
  <1>2. found \in Seq(Bytes) /\ recv_ringbuf \in Seq(Bytes)
    BY <1>1 DEF TypeOK
  <1>3. /\ v \in Nat /\ recv_ringbuf = SubSeq(found, v + 1, Len(found))
        /\ tmp_protoLen = 2 /\ proto_data[0] = Mark /\ proto_data[1] = Verify
        /\ v \in Verified(found) /\ \A w \in Verified(found) : w >= v
    BY <1>1 DEF Searched
  <1>4. Min(Verified(found)) = v /\ v \in 1..Len(found) /\ Verified(found) # {}
    BY ONLY <1>2, <1>3, FirstVerified
  <1>5. v \in 1..Len(found)-1
    <2>1. Len(recv_ringbuf) \in Nat \ {0}
      BY <1>1, <1>2, EmptySeq
    <2>2. QED BY <1>2, <1>4, <2>1 DEF Read
  <1>6. n \in Nat
    <2>1. Len(recv_ringbuf) \in Nat
      BY <1>2
    <2>2. QED BY ONLY <2>1, MinOfTwo, 2 \in Nat
  <1>7. /\ UNCHANGED <<network, found, made>> /\ proto_len' = tmp_protoLen'
        /\ proto_data' = Copied(proto_data, 2, SubSeq(recv_ringbuf, 1, n))
        /\ recv_ringbuf' = SubSeq(recv_ringbuf, n + 1, Len(recv_ringbuf))
        /\ \/ proto_data'[(2 + n) - 1] = End /\ tmp_protoLen' = 2 + n /\ pc' = "handle" /\ ret' = 0
           \/ proto_data'[(2 + n) - 1] # End /\ tmp_protoLen' = 0 /\ pc' = "receive" /\ ret' = -1
    <2> DEFINE m == Min({tmp_protoLen, Len(recv_ringbuf)})
    <2> HIDE DEF n
    <2>1. /\ UNCHANGED <<network, found, made>> /\ proto_len' = tmp_protoLen'
          /\ proto_data' = Copied(proto_data, tmp_protoLen, SubSeq(recv_ringbuf, 1, m))
          /\ recv_ringbuf' = SubSeq(recv_ringbuf, m + 1, Len(recv_ringbuf))
      BY Zenon DEF ReadRest
    <2> DEFINE e == proto_data'[(tmp_protoLen + m) - 1]
    <2>4. \/ e = End /\ tmp_protoLen' = tmp_protoLen + m /\ pc' = "handle" /\ ret' = 0
          \/ e # End /\ tmp_protoLen' = 0 /\ pc' = "receive" /\ ret' = -1
      BY DEF ReadRest
    <2>2. m = n
      BY ONLY <1>3 DEF n
    <2> HIDE DEF m
    <2>3. QED BY ONLY <1>3, <2>1, <2>2, <2>4
  <1> HIDE DEF v, n
  <1>8. /\ n \in {1, 2} /\ n <= Len(recv_ringbuf)
        /\ Min({v + 2, Len(found)}) = v + n
        /\ Len(recv_ringbuf) = Len(found) - v
        /\ \A i \in 1..n : recv_ringbuf[i] = found[v + i] /\ found[v + i] \in Bytes
        /\ recv_ringbuf' = SubSeq(found, v + n + 1, Len(found))
    <2>1. n = IF 2 <= Len(recv_ringbuf) THEN 2 ELSE Len(recv_ringbuf)
      <3>1. Len(recv_ringbuf) \in Nat /\ 2 \in Nat
        BY <1>2
      <3>2. QED BY <3>1, MinOfTwo DEF n
    <2>2. recv_ringbuf = SubSeq(found, v + 1, Len(found))
      BY <1>3
    <2>3. /\ n \in {1, 2} /\ Len(recv_ringbuf) = Len(found) - v /\ n <= Len(recv_ringbuf)
          /\ Min({v + 2, Len(found)}) = v + n
          /\ \A i \in 1..n : recv_ringbuf[i] = found[v + i] /\ found[v + i] \in Bytes
          /\ From(recv_ringbuf, n) = From(found, v + n)
      <3>1. RestRead(found, v, recv_ringbuf, n)
        BY ONLY <1>2, <1>5, <1>6, <2>1, <2>2 DEF RestRead
      <3>2. v \in Nat
        BY <1>3
      <3>3. n \in {1, 2} /\ Len(recv_ringbuf) = Len(found) - v /\ n <= Len(recv_ringbuf)
        BY ONLY <3>1, TwoMore, Zenon
      <3>4. Min({v + 2, Len(found)}) = v + n
        <4>1. v + n = IF v + 2 <= Len(found) THEN v + 2 ELSE Len(found)
          <5>1. Len(found) \in Nat
            BY <1>2
          <5>2. QED BY ONLY <1>6, <3>1, <3>2, <3>3, <5>1, <2>1
        <4>2. v + 2 \in Nat /\ Len(found) \in Nat
          BY <1>2, <3>2
        <4>3. QED BY ONLY <4>1, <4>2, MinOfTwo
      <3>5. \A i \in 1..n : recv_ringbuf[i] = found[v + i] /\ found[v + i] \in Bytes
        BY ONLY <3>1, TwoMore, Zenon
      <3>6. From(recv_ringbuf, n) = From(found, v + n)
        BY ONLY <1>2, <1>6, <3>1, <3>2, LeftBehind
      <3>7. QED BY ONLY <3>3, <3>4, <3>5, <3>6
    <2>4. recv_ringbuf' = SubSeq(found, v + n + 1, Len(found))
      BY ONLY <1>7, <2>3 DEF From
    <2>5. QED BY ONLY <2>3, <2>4
  <1>9. /\ proto_data' \in [0..5 -> Bytes] /\ proto_data'[4] = 0 /\ proto_data'[5] = 0
        /\ proto_data'[0] = proto_data[0] /\ proto_data'[1] = proto_data[1]
        /\ \A i \in 1..n : proto_data'[1 + i] = recv_ringbuf[i]
    BY ONLY <1>1, <1>2, <1>7, <1>8, CopiedRest
  <1>10. /\ proto_data'[(2 + n) - 1] = found[v + n]
         /\ \A i \in 1..n : proto_data'[1 + i] = found[v + i]
         /\ v + n <= Len(found) /\ Len(found) \in Nat
    <2>1. n \in 1..n /\ 1 + n = (2 + n) - 1
      BY <1>8
    <2>2. v + n <= Len(found) /\ Len(found) \in Nat
      BY <1>2, <1>3, <1>8
    <2>3. QED BY ONLY <1>8, <1>9, <2>1, <2>2
  <1>11. recv_ringbuf' \in Seq(Bytes)
    BY <1>2, <1>6, <1>7
  <1>12. Remembered'
    BY <1>7 DEF IInv, Remembered
  <1>13. v # Len(found) /\ 2 + n \in 0..4
    BY <1>5, <1>8
  <1>14. TypeOK'
    BY <1>1, <1>7, <1>9, <1>11, <1>13 DEF TypeOK
  <1>15. Searched'
    BY <1>7 DEF Searched
  <1>16. Scan(found) =
           [pack |-> IF found[v + n] = End
                       THEN <<Mark, Verify>> \o SubSeq(found, v + 1, v + n) ELSE <<>>,
            left |-> recv_ringbuf']
    BY <1>4, <1>8, <1>13 DEF Scan
  <1>17. CASE proto_data'[(2 + n) - 1] = End
    <2>1. proto_len' = 2 + n /\ pc' = "handle" /\ found' = found
      BY <1>7, <1>17
    <2>2. Packet' = [k \in 1..2 + n |-> proto_data'[k - 1]]
      BY <2>1 DEF Packet
    <2>3. Packet' = <<Mark, Verify>> \o SubSeq(found, v + 1, v + n)
      <3>1. proto_data'[0] = Mark /\ proto_data'[1] = Verify /\ proto_data' \in [0..5 -> Bytes]
        BY <1>3, <1>9
      <3>2. [k \in 1..2 + n |-> proto_data'[k - 1]]
              = <<Mark, Verify>> \o SubSeq(found, v + 1, v + n)
        BY ONLY <1>2, <1>3, <1>8, <1>10, <3>1, PacketRead
      <3>3. QED BY ONLY <2>2, <3>2
    <2>4. Scan(found) = [pack |-> Packet', left |-> recv_ringbuf']
      BY <1>10, <1>16, <1>17, <2>3
    <2>5. DetectIsScan'
      BY ONLY <2>1, <2>4 DEF DetectIsScan
    <2>6. QED BY <1>12, <1>14, <1>15, <2>5 DEF IInv
  <1>18. CASE proto_data'[(2 + n) - 1] # End
    <2>1. pc' = "receive" /\ found' = found
      BY <1>7, <1>18
    <2>2. Scan(found) = [pack |-> <<>>, left |-> recv_ringbuf']
      BY <1>10, <1>16, <1>18
    <2>3. DetectIsScan'
      BY ONLY <2>1, <2>2 DEF DetectIsScan
    <2>4. QED BY <1>12, <1>14, <1>15, <2>3 DEF IInv
  <1>19. QED BY <1>17, <1>18
-----------------------------------------------------------------------------
(* The theorems *)

LEMMA FramingNext == IInv /\ [Next]_vars => IInv'
  <1> SUFFICES ASSUME IInv, [Next]_vars PROVE IInv'
    OBVIOUS
  <1>1. CASE UNCHANGED vars
    <2>1. UNCHANGED <<network, recv_ringbuf, proto_data, proto_len, tmp_protoLen, pc, ret, found, made>>
      BY <1>1 DEF vars
    <2>2. TypeOK' /\ DetectIsScan'
      BY <2>1 DEF IInv, TypeOK, DetectIsScan, Packet
    <2>3. Searched' /\ Remembered'
      BY <2>1 DEF IInv, Searched, Remembered, Read
    <2>4. QED BY <2>2, <2>3 DEF IInv
  <1>2. QED BY <1>1, SendPacketStep, ReceiveStep, DrainedStep, CheckHeadStep, CheckVerifyStep,
               ReadRestStep, HandleStep DEF Next

LEMMA FramingInvariant == Spec => []IInv
  <1>1. QED BY FramingInit, FramingNext, PTL DEF Spec

\* Whatever arrives and however it is cut, bytes stay bytes and no packet is
\* longer than four: the rest of the buffer is never written.
THEOREM FramingTypeCorrect == Spec => []TypeOK
  <1>1. IInv => TypeOK
    BY DEF IInv
  <1>2. QED BY FramingInvariant, <1>1, PTL

\* A call of proto_detect_packet, loop turn by loop turn and with what earlier
\* calls left in the buffer, finds what one scan of its bytes finds, and
\* leaves in the ring what the scan leaves.
THEOREM DetectCorrect == Spec => []DetectIsScan
  <1>1. IInv => DetectIsScan
    BY DEF IInv
  <1>2. QED BY FramingInvariant, <1>1, PTL

\* Whatever is made is analysed back, the length cut to two bytes.
THEOREM AnalyCorrect == Spec => []AnalyUndoesMakeup
  <1>1. IInv => AnalyUndoesMakeup
    <2> SUFFICES ASSUME IInv, made # <<>> PROVE AnalyUndoesMakeup
      BY DEF AnalyUndoesMakeup
    <2>1. PICK cmd \in Cmds, data \in Data :
            made = [cmd |-> cmd, data |-> data, pack |-> proto_makeup_packet(cmd, data)]
      BY DEF IInv, Remembered
    <2>2. cmd \in Bytes /\ data \in Seq(Bytes)
      BY BytesAssumption
    <2>3. QED BY <2>1, <2>2, AnalyOfMakeup DEF AnalyUndoesMakeup
  <1>2. QED BY FramingInvariant, <1>1, PTL
=============================================================================
