----------------------------- MODULE LinkProofs -----------------------------
(***************************************************************************)
(* For every size of packet, connection and ring: what the platform has    *)
(* yet to read is whole packets one after the other, though frames and     *)
(* acks are sent in parts by two threads; every heartbeat is accounted for *)
(* until its answer is read; the programs wait for each other in a circle  *)
(* only when both ways are full; and the monitor's window shows whole      *)
(* plates.                                                                 *)
(***************************************************************************)
EXTENDS Link, SequenceTheorems, FiniteSetTheorems, TLAPS

Units == {"frame", "ack"} \X (1..Parts)

StreamTypes ==
  /\ capture \in {"camera", "lock", "send"}
  /\ task \in {"loop", "lock", "send", "plate", "rest", "raise"}
  /\ send_mutex \in Senders \cup {"free"}
  /\ sent \in 0..Parts
  /\ down \in Seq(Units)
  /\ recv_ringbuf \in Seq(Units)

\* The mutex is held by the thread in the loop, and nothing is sent outside.
Holder ==
  /\ \A s \in Senders : At(s) = "send" <=> send_mutex = s
  /\ send_mutex = "free" => sent = 0

InTurn(u) ==
  \A k \in 1..Len(u) :
    /\ u[k][2] = ((k - 1) % Parts) + 1
    /\ u[k][2] > 1 => u[k - 1][1] = u[k][1]

\* The last unit is the last one sent by the thread in the loop.
LastOf(u) ==
  /\ Len(u) % Parts = sent % Parts
  /\ Len(u) % Parts > 0 => u[Len(u)] = <<Unit(send_mutex)[1], sent>>

Begun ==
  /\ tcp_state = "exited" => down = <<>> /\ recv_ringbuf = <<>>
  /\ tcp_state # "exited" => LastOf(Unread)

IInv == StreamTypes /\ Holder /\ InTurn(Unread) /\ Begun
-----------------------------------------------------------------------------
(* Division: what is known of k % Parts *)

LEMMA PartsType == Parts \in Nat \ {0}
  BY SizesAssumption

LEMMA Remainder == \A k \in Nat : k % Parts \in 0..Parts-1 /\ k % Parts \in Nat /\ k \div Parts \in Int
  BY PartsType

LEMMA Quotient == \A k \in Nat : k = (k \div Parts) * Parts + (k % Parts)
  BY PartsType

LEMMA SmallRemainder == \A k \in 0..Parts-1 : k % Parts = k
  BY PartsType

LEMMA NoRemainder == 0 % Parts = 0
  BY PartsType

LEMMA UniqueRemainder ==
  ASSUME NEW q \in Int, NEW p \in Int, NEW r \in 0..Parts-1, NEW s \in 0..Parts-1,
         q * Parts + r = p * Parts + s
  PROVE  r = s
  <1> USE PartsType
  <1>1. (q - p) * Parts = s - r /\ (p - q) * Parts = r - s
    OBVIOUS
  <1>2. CASE q - p >= 1
    <2>1. (q - p) * Parts >= Parts
      BY <1>2
    <2>2. QED BY <1>1, <2>1
  <1>3. CASE p - q >= 1
    <2>1. (p - q) * Parts >= Parts
      BY <1>3
    <2>2. QED BY <1>1, <2>1
  <1>4. CASE q = p
    BY <1>4
  <1>5. QED BY <1>2, <1>3, <1>4

LEMMA ShiftRemainder == \A k \in Nat : (k + Parts) % Parts = k % Parts
  <1> SUFFICES ASSUME NEW k \in Nat PROVE (k + Parts) % Parts = k % Parts
    OBVIOUS
  <1> DEFINE q == k \div Parts
             r == k % Parts
             p == (k + Parts) \div Parts
             s == (k + Parts) % Parts
  <1>1. q \in Int /\ p \in Int /\ r \in 0..Parts-1 /\ s \in 0..Parts-1
    BY PartsType, Remainder
  <1>2. k = q * Parts + r
    BY Quotient
  <1>3. k + Parts = p * Parts + s
    BY PartsType, Quotient
  <1> HIDE DEF q, r, p, s
  <1>4. (q + 1) * Parts + r = p * Parts + s
    BY <1>1, <1>2, <1>3, PartsType
  <1>5. q + 1 \in Int
    BY <1>1
  <1>6. r = s
    BY <1>1, <1>4, <1>5, UniqueRemainder
  <1>7. QED BY <1>6 DEF r, s

LEMMA NextRemainder ==
  \A k \in Nat : (k + 1) % Parts = IF k % Parts = Parts - 1 THEN 0 ELSE (k % Parts) + 1
  <1> SUFFICES ASSUME NEW k \in Nat
               PROVE  (k + 1) % Parts = IF k % Parts = Parts - 1 THEN 0 ELSE (k % Parts) + 1
    OBVIOUS
  <1> DEFINE q == k \div Parts
             r == k % Parts
             p == (k + 1) \div Parts
             s == (k + 1) % Parts
  <1>1. q \in Int /\ p \in Int /\ r \in 0..Parts-1 /\ s \in 0..Parts-1
    BY PartsType, Remainder
  <1>2. k = q * Parts + r
    BY Quotient
  <1>3. k + 1 = p * Parts + s
    BY PartsType, Quotient
  <1> HIDE DEF q, r, p, s
  <1>4. CASE r = Parts - 1
    <2>1. (q + 1) * Parts + 0 = p * Parts + s
      BY <1>1, <1>2, <1>3, <1>4, PartsType
    <2>2. q + 1 \in Int /\ 0 \in 0..Parts-1
      BY <1>1, PartsType
    <2>3. s = 0
      BY <1>1, <2>1, <2>2, UniqueRemainder
    <2>4. QED BY <1>4, <2>3 DEF r, s
  <1>5. CASE r # Parts - 1
    <2>1. q * Parts + (r + 1) = p * Parts + s
      BY <1>1, <1>2, <1>3, PartsType
    <2>2. r + 1 \in 0..Parts-1
      BY <1>1, <1>5, PartsType
    <2>3. s = r + 1
      BY <1>1, <2>1, <2>2, UniqueRemainder
    <2>4. QED BY <1>5, <2>3 DEF r, s
  <1>6. QED BY <1>4, <1>5
-----------------------------------------------------------------------------
(* Streams in turn *)

\* The places of b follow those of a.
LEMMA Joined ==
  ASSUME NEW a \in Seq(Units), NEW b \in Seq(Units)
  PROVE  /\ a \o b \in Seq(Units) /\ Len(a \o b) = Len(a) + Len(b)
         /\ Len(a) \in Nat /\ Len(b) \in Nat
         /\ \A k \in 1..Len(a) : (a \o b)[k] = a[k]
         /\ \A k \in 1..Len(b) : (a \o b)[k + Len(a)] = b[k]
  <1>1. Len(a) \in Nat /\ Len(b) \in Nat
    BY LenProperties
  <1>2. a \o b \in Seq(Units) /\ Len(a \o b) = Len(a) + Len(b)
    BY ConcatProperties
  <1>3. \A k \in 1..Len(a) + Len(b) : (a \o b)[k] = IF k <= Len(a) THEN a[k] ELSE b[k - Len(a)]
    BY ConcatProperties
  <1>4. ASSUME NEW k \in 1..Len(b) PROVE (a \o b)[k + Len(a)] = b[k]
    <2>1. k + Len(a) \in 1..Len(a) + Len(b) /\ ~(k + Len(a) <= Len(a)) /\ (k + Len(a)) - Len(a) = k
      BY <1>1
    <2>2. (a \o b)[k + Len(a)] = b[(k + Len(a)) - Len(a)]
      BY <1>3, <2>1
    <2>3. QED BY <2>1, <2>2
  <1>5. QED BY <1>1, <1>2, <1>3, <1>4

\* A packet taken from the front leaves a packet in front.
LEMMA InTurnDrop ==
  ASSUME NEW a \in Seq(Units), NEW b \in Seq(Units), Len(a) = Parts, InTurn(a \o b)
  PROVE  InTurn(b)
  <1> SUFFICES ASSUME NEW k \in 1..Len(b)
               PROVE  /\ b[k][2] = ((k - 1) % Parts) + 1
                      /\ b[k][2] > 1 => b[k - 1][1] = b[k][1]
    BY DEF InTurn
  <1>1. Parts \in Nat \ {0} /\ Len(b) \in Nat /\ k \in Nat /\ k - 1 \in Nat
    BY PartsType, Joined
  <1>2. k + Parts \in 1..Len(a \o b) /\ (a \o b)[k + Parts] = b[k]
    BY <1>1, Joined
  <1> DEFINE u == a \o b
             m == k + Parts
  <1>3. /\ b[k][2] = ((m - 1) % Parts) + 1
        /\ b[k][2] > 1 => u[m - 1][1] = b[k][1]
    <2>1. m \in 1..Len(u) /\ u[m] = b[k]
      BY <1>2
    <2>2. InTurn(u)
      OBVIOUS
    <2> HIDE DEF u, m
    <2>3. QED BY <2>1, <2>2 DEF InTurn
  <1>4. m - 1 = (k - 1) + Parts
    BY <1>1
  <1>5. (m - 1) % Parts = (k - 1) % Parts
    BY <1>1, <1>4, ShiftRemainder
  <1>6. CASE k = 1
    <2>1. b[k][2] = 1
      BY <1>3, <1>5, <1>6, NoRemainder
    <2>2. QED BY <1>3, <1>5, <2>1
  <1>7. CASE k # 1
    <2>1. k - 1 \in 1..Len(b)
      BY <1>1, <1>7
    <2>2. (a \o b)[(k - 1) + Parts] = b[k - 1]
      BY <2>1, Joined
    <2>3. QED BY <1>3, <1>4, <1>5, <2>2
  <1>8. QED BY <1>6, <1>7

\* Taking a packet does not change which unit comes last.
LEMMA LastDrop ==
  ASSUME NEW a \in Seq(Units), NEW b \in Seq(Units), Len(a) = Parts, LastOf(a \o b)
  PROVE  LastOf(b)
  <1>0. Parts \in Nat \ {0} /\ Len(b) \in Nat /\ Len(a \o b) = Len(a) + Len(b)
    BY PartsType, Joined
  <1>1. Parts \in Nat \ {0} /\ Len(b) \in Nat /\ Len(a \o b) = Len(b) + Parts
    BY <1>0
  <1>2. Len(a \o b) % Parts = Len(b) % Parts
    BY <1>1, ShiftRemainder
  <1>3. Len(b) % Parts > 0 => Len(b) \in 1..Len(b)
    BY <1>1, NoRemainder
  <1>4. Len(b) % Parts > 0 => (a \o b)[Len(b) + Parts] = b[Len(b)]
    BY <1>3, Joined
  <1>5. QED BY <1>1, <1>2, <1>4 DEF LastOf

\* The last unit of a packet is in the ring only with all before it.
LEMMA PacketWhole ==
  ASSUME NEW a \in Seq(Units), NEW b \in Seq(Units), InTurn(a \o b), WholePacket(a)
  PROVE  Len(a) >= Parts
  <1>1. PICK k \in 1..Len(a) : a[k][2] = Parts
    BY LenProperties DEF WholePacket
  <1>2. Parts \in Nat \ {0} /\ Len(a) \in Nat /\ k \in 1..Len(a \o b) /\ (a \o b)[k] = a[k]
    BY PartsType, Joined
  <1>3. ((k - 1) % Parts) + 1 = Parts
    BY <1>1, <1>2 DEF InTurn
  <1>4. k - 1 \in 0..Parts-1 => k - 1 = Parts - 1
    BY <1>2, <1>3, SmallRemainder
  <1>5. QED BY <1>2, <1>4

\* The unit that is sent next is the one due.
LEMMA InTurnNext ==
  ASSUME NEW u \in Seq(Units), InTurn(u), LastOf(u), sent \in 0..Parts, sent < Parts
  PROVE  /\ InTurn(Append(u, Unit(send_mutex)))
         /\ Len(Append(u, Unit(send_mutex))) % Parts = (sent + 1) % Parts
         /\ Append(u, Unit(send_mutex))[Len(u) + 1] = Unit(send_mutex)
  <1> DEFINE x == Unit(send_mutex)
             v == Append(u, x)
  <1>1. Len(u) \in Nat /\ Parts \in Nat \ {0} /\ sent \in 0..Parts-1
    BY LenProperties, PartsType
  <1>2. Len(u) % Parts = sent /\ sent % Parts = sent
    BY <1>1, SmallRemainder DEF LastOf
  <1>3. /\ Len(v) = Len(u) + 1
        /\ \A k \in 1..Len(u) : v[k] = u[k]
        /\ v[Len(u) + 1] = x
    BY AppendProperties
  <1>4. Len(v) % Parts = (sent + 1) % Parts
    <2> DEFINE n == Len(u)
    <2>1. n \in Nat /\ sent \in Nat /\ n % Parts = sent % Parts
      BY <1>1, <1>2
    <2> HIDE DEF n
    <2>2. (n + 1) % Parts = (sent + 1) % Parts
      <3>1. (n + 1) % Parts = IF n % Parts = Parts - 1 THEN 0 ELSE (n % Parts) + 1
        BY <2>1, NextRemainder
      <3>2. (sent + 1) % Parts = IF sent % Parts = Parts - 1 THEN 0 ELSE (sent % Parts) + 1
        BY <2>1, NextRemainder
      <3>3. QED BY <2>1, <3>1, <3>2
    <2> USE DEF n
    <2>3. QED BY <1>3, <2>2
  <1>5. x[2] = sent + 1
    BY DEF Unit
  <1>6. ASSUME NEW k \in 1..Len(v)
        PROVE  /\ v[k][2] = ((k - 1) % Parts) + 1
               /\ v[k][2] > 1 => v[k - 1][1] = v[k][1]
    <2>1. CASE k = Len(u) + 1
      <3>1. v[k][2] = ((k - 1) % Parts) + 1
        BY <1>1, <1>2, <1>3, <1>5, <2>1
      <3>2. CASE sent > 0
        <4>1. Len(u) # 0
          BY <1>1, <1>2, <3>2, NoRemainder
        <4>2. v[Len(u)] = u[Len(u)]
          BY <1>1, <1>3, <4>1
        <4>3. u[Len(u)] = <<x[1], sent>>
          BY <1>2, <3>2 DEF LastOf
        <4>4. v[k - 1][1] = v[k][1]
          <5>1. k - 1 = Len(u)
            BY <1>1, <2>1
          <5>2. v[Len(u)][1] = x[1]
            BY <4>2, <4>3
          <5>3. v[k][1] = x[1]
            BY <1>3, <2>1
          <5>4. QED BY <5>1, <5>2, <5>3
        <4>5. QED BY <3>1, <4>4
      <3>3. CASE ~(sent > 0)
        BY <1>1, <1>3, <1>5, <2>1, <3>1, <3>3
      <3>4. QED BY <3>2, <3>3
    <2>2. CASE k # Len(u) + 1
      <3>1. k \in 1..Len(u)
        BY <1>1, <1>3, <2>2
      <3>2. CASE k = 1
        <4>1. v[k] = u[k] /\ u[k][2] = ((k - 1) % Parts) + 1
          BY <1>3, <3>1 DEF InTurn
        <4>2. v[k][2] = 1
          BY <3>2, <4>1, NoRemainder
        <4>3. QED BY <4>1, <4>2
      <3>3. CASE k # 1
        <4>1. k - 1 \in 1..Len(u)
          BY <1>1, <3>1, <3>3
        <4>2. QED BY <1>3, <3>1, <4>1 DEF InTurn
      <3>4. QED BY <3>2, <3>3
    <2>3. QED BY <2>1, <2>2
  <1>7. QED BY <1>3, <1>4, <1>6 DEF InTurn
-----------------------------------------------------------------------------
(* Counting in a sequence *)

Places(u, x) == {k \in 1..Len(u) : u[k] = x}
Count(u, x) == Cardinality(Places(u, x))

LEMMA CountType ==
  ASSUME NEW S, NEW u \in Seq(S), NEW x
  PROVE  IsFiniteSet(Places(u, x)) /\ Count(u, x) \in Nat
  <1>1. IsFiniteSet(1..Len(u))
    <2>1. 1 \in Int /\ Len(u) \in Int
      OBVIOUS
    <2>2. QED BY ONLY <2>1, FS_Interval
  <1>2. Places(u, x) \in SUBSET (1..Len(u))
    BY DEF Places
  <1>3. IsFiniteSet(Places(u, x))
    BY ONLY <1>1, <1>2, FS_Subset
  <1>4. QED BY <1>3, FS_CardinalityType DEF Count

LEMMA CountNone ==
  ASSUME NEW u, NEW x, \A k \in 1..Len(u) : u[k] # x
  PROVE  Count(u, x) = 0
  <1>1. Places(u, x) = {}
    BY DEF Places
  <1>2. QED BY <1>1, FS_EmptySet DEF Count

\* One more at the end.
LEMMA CountAppend ==
  ASSUME NEW S, NEW u \in Seq(S), NEW e \in S, NEW x
  PROVE  Count(Append(u, e), x) = IF e = x THEN Count(u, x) + 1 ELSE Count(u, x)
  <1> DEFINE v == Append(u, e)
             n == Len(u)
  <1>1. n \in Nat /\ Len(v) = n + 1 /\ v[n + 1] = e /\ \A k \in 1..n : v[k] = u[k]
    BY AppendProperties
  <1>2. IsFiniteSet(Places(u, x))
    BY CountType
  <1>3. n + 1 \notin Places(u, x)
    BY <1>1 DEF Places
  <1> HIDE DEF v
  <1>4. CASE e = x
    <2>1. Places(v, x) = Places(u, x) \cup {n + 1}
      BY <1>1, <1>4 DEF Places
    <2>2. QED BY <1>2, <1>3, <1>4, <2>1, FS_AddElement DEF Count, v
  <1>5. CASE e # x
    <2>1. Places(v, x) = Places(u, x)
      BY <1>1, <1>5 DEF Places
    <2>2. QED BY <1>5, <2>1 DEF Count, v
  <1>6. QED BY <1>4, <1>5

\* Places that move by n are as many as they were.
LEMMA CountMoved ==
  ASSUME NEW P \in SUBSET Nat, NEW n \in Nat, IsFiniteSet(P)
  PROVE  LET M == {k \in Nat : k >= n /\ k - n \in P}
         IN  IsFiniteSet(M) /\ Cardinality(M) = Cardinality(P)
  <1> DEFINE M == {k \in Nat : k >= n /\ k - n \in P}
             f == [k \in P |-> k + n]
  <1>1. f \in [P -> M]
    BY DEF M
  <1>2. \A a, b \in P : f[a] = f[b] => a = b
    OBVIOUS
  <1>3. \A t \in M : \E k \in P : f[k] = t
    <2> SUFFICES ASSUME NEW t \in M PROVE f[t - n] = t /\ t - n \in P
      OBVIOUS
    <2>1. t - n \in P /\ t \in Nat /\ (t - n) + n = t
      OBVIOUS
    <2>2. QED BY <2>1
  <1>4. DOMAIN f = P
    OBVIOUS
  <1> HIDE DEF f, M
  <1>5. f \in Bijection(P, M)
    BY <1>1, <1>2, <1>3, <1>4 DEF Bijection, Injection, Surjection, IsInjective
  <1>6. ExistsBijection(P, M)
    BY <1>5 DEF ExistsBijection
  <1>7. IsFiniteSet(M) /\ Cardinality(M) = Cardinality(P)
    BY ONLY <1>6, IsFiniteSet(P), FS_Bijection
  <1>8. QED BY <1>7 DEF M

\* b is u without its first n, of which only the last may be an x.
Dropped(S, u, b, n, x) ==
  /\ u \in Seq(S) /\ b \in Seq(S) /\ n \in Nat \ {0}
  /\ Len(u) = Len(b) + n
  /\ \A k \in 1..Len(b) : u[k + n] = b[k]
  /\ \A k \in 1..n-1 : u[k] # x

LEMMA CountDrop ==
  ASSUME NEW S, NEW u, NEW b, NEW n, NEW x, Dropped(S, u, b, n, x)
  PROVE  Count(u, x) = IF u[n] = x THEN Count(b, x) + 1 ELSE Count(b, x)
  <1>a. /\ u \in Seq(S) /\ b \in Seq(S) /\ n \in Nat \ {0}
        /\ Len(u) = Len(b) + n
        /\ \A k \in 1..Len(b) : u[k + n] = b[k]
    BY DEF Dropped
  <1>b. \A k \in 1..n-1 : u[k] # x
    BY DEF Dropped
  <1> USE <1>a, <1>b
  <1> DEFINE P == Places(b, x)
             M == {k \in Nat : k >= n /\ k - n \in P}
  <1>1. IsFiniteSet(P) /\ P \in SUBSET Nat
    <2>1. IsFiniteSet(P)
      BY ONLY <1>a, CountType
    <2>2. QED BY <2>1 DEF Places
  <1>2. IsFiniteSet(M) /\ Cardinality(M) = Cardinality(P)
    <2> HIDE DEF P
    <2> QED BY ONLY <1>1, <1>a, CountMoved
  <1>3. Len(b) \in Nat /\ Len(u) \in Nat
    OBVIOUS
  <1>4. M = {k \in n+1..Len(u) : u[k] = x}
    <2>1. ASSUME NEW k \in M PROVE k \in n+1..Len(u) /\ u[k] = x
      <3>1. k \in Nat /\ k - n \in 1..Len(b) /\ b[k - n] = x
        BY DEF Places
      <3>2. k \in n+1..Len(u) /\ (k - n) + n = k
        BY <1>3, <3>1
      <3>3. u[(k - n) + n] = b[k - n]
        BY <3>1
      <3>4. QED BY <3>1, <3>2, <3>3
    <2>2. ASSUME NEW k \in n+1..Len(u), u[k] = x PROVE k \in M
      <3>1. k \in Nat /\ k >= n /\ k - n \in 1..Len(b) /\ (k - n) + n = k
        BY <1>3
      <3>2. b[k - n] = x
        BY <2>2, <3>1
      <3>3. QED BY <3>1, <3>2 DEF Places
    <2> HIDE DEF M
    <2>3. QED BY <2>1, <2>2
  <1> HIDE DEF M, P
  <1>5. CASE u[n] = x
    <2>1. Places(u, x) = M \cup {n}
      <3>1. ASSUME NEW k \in Places(u, x) PROVE k \in M \cup {n}
        <4>1. k \in 1..Len(u) /\ u[k] = x
          BY DEF Places
        <4>2. ~(k \in 1..n-1)
          BY <4>1
        <4>3. k = n \/ k \in n+1..Len(u)
          BY <1>3, <4>1, <4>2
        <4>4. QED BY <1>4, <4>1, <4>3
      <3>2. ASSUME NEW k \in M \cup {n} PROVE k \in Places(u, x)
        BY <1>3, <1>4, <1>5 DEF Places
      <3>3. QED BY <3>1, <3>2
    <2>2. n \notin M
      BY <1>4
    <2>3. Cardinality(M \cup {n}) = Cardinality(M) + 1
      BY ONLY <1>2, <2>2, FS_AddElement
    <2>4. QED BY <1>2, <1>5, <2>1, <2>3 DEF Count, P
  <1>6. CASE u[n] # x
    <2>1. Places(u, x) = M
      <3>1. ASSUME NEW k \in Places(u, x) PROVE k \in M
        <4>1. k \in 1..Len(u) /\ u[k] = x
          BY DEF Places
        <4>2. ~(k \in 1..n-1) /\ k # n
          BY <1>6, <4>1
        <4>3. k \in n+1..Len(u)
          BY <1>3, <4>1, <4>2
        <4>4. QED BY <1>4, <4>1, <4>3
      <3>2. ASSUME NEW k \in M PROVE k \in Places(u, x)
        BY <1>3, <1>4 DEF Places
      <3>3. QED BY <3>1, <3>2
    <2>2. QED BY <1>2, <1>6, <2>1 DEF Count, P
  <1>7. QED BY <1>5, <1>6
-----------------------------------------------------------------------------
LEMMA InitIInv == Init => IInv
  <1> SUFFICES ASSUME Init PROVE IInv
    OBVIOUS
  <1> USE DEF Init
  <1>1. StreamTypes
    BY PartsType DEF StreamTypes, Senders
  <1>2. Holder
    BY DEF Holder, At, Senders
  <1>3. Unread = <<>>
    BY ConcatEmptySeq DEF Unread
  <1>4. InTurn(Unread)
    BY <1>3 DEF InTurn
  <1>5. Begun
    BY <1>3, NoRemainder DEF Begun, LastOf
  <1>6. QED BY <1>1, <1>2, <1>4, <1>5 DEF IInv

LEMMA UnreadType == StreamTypes => Unread \in Seq(Units)
  BY Joined DEF StreamTypes, Unread

\* A step that leaves the stream, the packet and its sender alone.
LEMMA Untouched ==
  ASSUME IInv, StreamTypes', Holder',
         UNCHANGED <<sent, send_mutex, down, recv_ringbuf, tcp_state>>
  PROVE  IInv'
  <1>1. Unread' = Unread
    BY DEF Unread
  <1>2. InTurn(Unread)'
    BY <1>1 DEF IInv, InTurn
  <1>3. LastOf(Unread) => LastOf(Unread)'
    BY <1>1 DEF LastOf, Unit
  <1>4. Begun'
    BY <1>3 DEF IInv, Begun
  <1>5. QED BY <1>2, <1>4 DEF IInv

\* send() puts a unit behind the last.
LEMMA UnreadGrows ==
  ASSUME StreamTypes, NEW s \in Senders, SendUnit(s)
  PROVE  Unread' = Append(Unread, Unit(s)) /\ Unit(s) \in Units
  <1>1. /\ sent \in 0..Parts /\ sent < Parts
        /\ down' = Append(down, Unit(s)) /\ recv_ringbuf' = recv_ringbuf
    BY DEF StreamTypes, SendUnit, platform, stored
  <1>2. down \in Seq(Units) /\ recv_ringbuf \in Seq(Units) /\ Unread \in Seq(Units)
    BY UnreadType DEF StreamTypes
  <1>3. Unit(s) \in Units /\ <<Unit(s)>> \in Seq(Units)
    BY <1>1, PartsType DEF Unit, Units
  <1>4. down' = down \o <<Unit(s)>>
    BY <1>1, <1>2, <1>3, AppendIsConcat
  <1>5. Unread' = recv_ringbuf \o (down \o <<Unit(s)>>)
    BY <1>1, <1>4 DEF Unread
  <1>6. Unread' = Unread \o <<Unit(s)>>
    BY <1>2, <1>3, <1>5, ConcatAssociative DEF Unread
  <1>7. QED BY <1>2, <1>3, <1>6, AppendIsConcat

\* It is the next of the packet under way.
LEMMA SendUnitStep ==
  ASSUME IInv, NEW s \in Senders, SendUnit(s)
  PROVE  IInv'
  <1>1. send_mutex = s /\ Unit(s) = Unit(send_mutex)
    BY DEF IInv, Holder, SendUnit
  <1>2. /\ sent \in 0..Parts /\ sent < Parts /\ sent' = sent + 1
        /\ UNCHANGED <<capture, task, send_mutex, recv_ringbuf, tcp_state>>
        /\ down' = Append(down, Unit(s)) /\ tcp_state # "exited"
    BY DEF IInv, StreamTypes, SendUnit, platform, stored
  <1>3. down \in Seq(Units) /\ recv_ringbuf \in Seq(Units) /\ Unread \in Seq(Units)
    BY UnreadType DEF IInv, StreamTypes
  <1>4. Unit(s) \in Units
    BY <1>2, PartsType DEF Unit, Units
  <1>5. down' \in Seq(Units)
    BY <1>2, <1>3, <1>4, AppendProperties
  <1>6. StreamTypes'
    BY <1>2, <1>3, <1>5, PartsType DEF IInv, StreamTypes
  <1>7. Holder'
    BY <1>1, <1>2 DEF IInv, Holder, At, Senders
  <1>8. Unread' = Append(Unread, Unit(s))
    BY UnreadGrows DEF IInv
  <1>9. InTurn(Unread) /\ LastOf(Unread)
    BY <1>2 DEF IInv, Begun
  <1> DEFINE v == Append(Unread, Unit(send_mutex))
  <1>10. /\ InTurn(v) /\ Len(v) % Parts = (sent + 1) % Parts
         /\ v[Len(Unread) + 1] = Unit(send_mutex)
    BY <1>2, <1>3, <1>9, InTurnNext
  <1>11. Len(v) = Len(Unread) + 1
    BY <1>3, AppendProperties
  <1>12. Unread' = v
    BY <1>1, <1>8
  <1>13. InTurn(Unread)'
    BY <1>10, <1>12 DEF InTurn
  <1>14. v[Len(v)] = <<Unit(send_mutex)[1], sent + 1>>
    BY <1>10, <1>11 DEF Unit
  <1>15. Unit(send_mutex)'[1] = Unit(send_mutex)[1]
    BY <1>2 DEF Unit
  <1>16. LastOf(Unread)'
    <2> HIDE DEF v
    <2>1. QED BY <1>2, <1>10, <1>12, <1>14, <1>15 DEF LastOf
  <1>17. Begun'
    BY <1>2, <1>16 DEF Begun
  <1>18. QED BY <1>6, <1>7, <1>13, <1>17 DEF IInv

\* recv moves units to the ring, and a packet is taken from its front.
LEMMA ReceiveTakes ==
  ASSUME IInv, Receive
  PROVE  /\ StreamTypes' /\ Len(down') <= Len(down) /\ Len(recv_ringbuf') <= RingSize
         /\ \/ Unread' = Unread /\ UNCHANGED <<hasFrame, owed>>
            \/ \E packet \in Seq(Units) :
                 /\ Len(packet) = Parts /\ Unread = packet \o Unread'
                 /\ hasFrame' = (hasFrame \/ packet[1][1] = "frame")
                 /\ owed' = IF packet[1][1] = "ack" THEN owed - 1 ELSE owed
  <1>1. PICK n \in 0..Len(down) :
          LET ring == recv_ringbuf \o SubSeq(down, 1, n)
          IN  /\ Len(ring) <= RingSize
              /\ down' = SubSeq(down, n + 1, Len(down))
              /\ \/ /\ WholePacket(ring)
                    /\ recv_ringbuf' = SubSeq(ring, Parts + 1, Len(ring))
                    /\ hasFrame' = (hasFrame \/ ring[1][1] = "frame")
                    /\ owed' = IF ring[1][1] = "ack" THEN owed - 1 ELSE owed
                 \/ /\ ~WholePacket(ring)
                    /\ recv_ringbuf' = ring
                    /\ UNCHANGED <<hasFrame, owed>>
    BY DEF Receive
  <1>2. UNCHANGED <<capture, task, send_mutex, sent, tcp_state>> /\ tcp_state = "CONNECTED"
    BY DEF Receive, monitor
  <1> DEFINE taken == SubSeq(down, 1, n)
             ring == recv_ringbuf \o taken
  <1>3. down \in Seq(Units) /\ recv_ringbuf \in Seq(Units) /\ Len(down) \in Nat
    BY LenProperties DEF IInv, StreamTypes
  <1>4. taken \in Seq(Units) /\ down' \in Seq(Units)
    <2>1. \A k \in 1..Len(down) : down[k] \in Units
      BY <1>3, ElementOfSeq
    <2>2. (\A k \in 1..n : down[k] \in Units) /\ (\A k \in n+1..Len(down) : down[k] \in Units)
      BY <1>3, <2>1
    <2>3. n \in Int /\ n + 1 \in Int /\ Len(down) \in Int
      BY <1>3
    <2>4. SubSeq(down, 1, n) \in Seq(Units)
      BY <2>2, <2>3, SubSeqProperties
    <2>5. SubSeq(down, n + 1, Len(down)) \in Seq(Units)
      BY <2>2, <2>3, SubSeqProperties
    <2>6. QED BY <1>1, <2>4, <2>5
  <1>5. down = taken \o down'
    <2>1. SubSeq(down, 1, n) \o SubSeq(down, n + 1, Len(down)) = SubSeq(down, 1, Len(down))
      <3>1. 1 \in 1..Len(down)+1 /\ n \in 1-1..Len(down) /\ Len(down) \in n..Len(down)
        BY <1>3
      <3>2. QED BY <1>3, <3>1, ConcatAdjacentSubSeq
    <2>2. SubSeq(down, 1, Len(down)) = down
      BY <1>3, SubSeqFull
    <2>3. QED BY <1>1, <2>1, <2>2
  <1>6. ring \in Seq(Units) /\ Len(ring) \in Nat
    BY <1>3, <1>4, ConcatProperties, LenProperties
  <1>7. Unread = ring \o down'
    <2> HIDE DEF taken
    <2>1. (recv_ringbuf \o taken) \o down' = recv_ringbuf \o (taken \o down')
      BY <1>3, <1>4, ConcatAssociative
    <2>2. recv_ringbuf \o (taken \o down') = Unread
      BY <1>5 DEF Unread
    <2>3. QED BY <2>1, <2>2
  <1>8. InTurn(Unread) /\ LastOf(Unread)
    BY <1>2 DEF IInv, Begun
  <1>9. Len(down') <= Len(down) /\ Len(ring) <= RingSize
    <2>1. Len(down) = Len(taken) + Len(down') /\ Len(taken) \in Nat /\ Len(down') \in Nat
      BY ONLY <1>4, <1>5, Joined
    <2>2. Len(ring) <= RingSize
      BY <1>1
    <2>3. QED BY ONLY <1>3, <2>1, <2>2
  <1> HIDE DEF taken, ring
  <1>10. CASE ~WholePacket(ring) /\ recv_ringbuf' = ring /\ UNCHANGED <<hasFrame, owed>>
    <2>1. Unread' = Unread
      BY <1>7, <1>10 DEF Unread
    <2>2. StreamTypes'
      BY <1>2, <1>4, <1>6, <1>10 DEF IInv, StreamTypes
    <2>3. Len(recv_ringbuf') <= RingSize
      BY <1>9, <1>10
    <2>4. QED BY ONLY <1>9, <1>10, <2>1, <2>2, <2>3
  <1>11. CASE /\ WholePacket(ring) /\ recv_ringbuf' = SubSeq(ring, Parts + 1, Len(ring))
              /\ hasFrame' = (hasFrame \/ ring[1][1] = "frame")
              /\ owed' = IF ring[1][1] = "ack" THEN owed - 1 ELSE owed
    <2> DEFINE packet == SubSeq(ring, 1, Parts)
    <2>1. Parts <= Len(ring) /\ Parts \in Nat \ {0}
      BY <1>4, <1>6, <1>7, <1>8, <1>11, PacketWhole, PartsType
    <2>2. \A k \in 1..Len(ring) : ring[k] \in Units
      BY <1>6, ElementOfSeq
    <2>3. packet \in Seq(Units) /\ Len(packet) = Parts
      <3>1. 1 \in Int /\ Parts \in Int /\ \A k \in 1..Parts : ring[k] \in Units
        BY <1>6, <2>1, <2>2
      <3>2. /\ SubSeq(ring, 1, Parts) \in Seq(Units)
            /\ Len(SubSeq(ring, 1, Parts)) = IF 1 <= Parts THEN Parts - 1 + 1 ELSE 0
        BY <3>1, SubSeqProperties
      <3>3. QED BY <2>1, <3>2
    <2>4. recv_ringbuf' \in Seq(Units)
      <3>1. Parts + 1 \in Int /\ Len(ring) \in Int /\ \A k \in Parts+1..Len(ring) : ring[k] \in Units
        BY <1>6, <2>1, <2>2
      <3>2. SubSeq(ring, Parts + 1, Len(ring)) \in Seq(Units)
        BY <3>1, SubSeqProperties
      <3>3. QED BY <1>11, <3>2
    <2>5. ring = packet \o recv_ringbuf'
      <3>1. 1 \in 1..Len(ring)+1 /\ Parts \in 1-1..Len(ring) /\ Len(ring) \in Parts..Len(ring)
        BY <1>6, <2>1
      <3>2. SubSeq(ring, 1, Parts) \o SubSeq(ring, Parts + 1, Len(ring)) = SubSeq(ring, 1, Len(ring))
        BY <1>6, <3>1, ConcatAdjacentSubSeq
      <3>3. SubSeq(ring, 1, Len(ring)) = ring
        BY <1>6, SubSeqFull
      <3>4. QED BY <1>11, <3>2, <3>3
    <2> HIDE DEF packet
    <2>6. Unread = packet \o Unread'
      <3>1. (packet \o recv_ringbuf') \o down' = packet \o (recv_ringbuf' \o down')
        BY <1>4, <2>3, <2>4, ConcatAssociative, SMTT(20)
      <3>2. Unread = (packet \o recv_ringbuf') \o down'
        BY <1>7, <2>5
      <3>3. QED BY <3>1, <3>2 DEF Unread
    <2>7. packet[1] = ring[1]
      <3>1. 1 \in 1..Len(packet)
        BY <2>1, <2>3
      <3>2. (packet \o recv_ringbuf')[1] = packet[1]
        BY ONLY <2>3, <2>4, <3>1, Joined
      <3>3. QED BY <2>5, <3>2
    <2>8. Len(recv_ringbuf') <= RingSize
      <3>1. Len(ring) = Len(packet) + Len(recv_ringbuf') /\ Len(recv_ringbuf') \in Nat
        BY ONLY <2>3, <2>4, <2>5, Joined
      <3>2. QED BY ONLY <1>6, <1>9, <2>1, <2>3, <3>1, SizesAssumption
    <2>9. StreamTypes'
      BY <1>2, <1>4, <2>4 DEF IInv, StreamTypes
    <2>10. /\ hasFrame' = (hasFrame \/ packet[1][1] = "frame")
           /\ owed' = IF packet[1][1] = "ack" THEN owed - 1 ELSE owed
      BY ONLY <1>11, <2>7
    <2>11. QED BY ONLY <1>9, <2>3, <2>6, <2>8, <2>9, <2>10
  <1>12. QED BY <1>1, <1>10, <1>11 DEF ring, taken

LEMMA ReceiveStep == IInv /\ Receive => IInv'
  <1> SUFFICES ASSUME IInv, Receive PROVE IInv'
    OBVIOUS
  <1>1. UNCHANGED <<capture, task, send_mutex, sent, tcp_state>> /\ tcp_state = "CONNECTED"
    BY DEF Receive, monitor
  <1>2. StreamTypes' /\ Holder'
    BY <1>1, ReceiveTakes DEF IInv, Holder, At
  <1>3. InTurn(Unread) /\ LastOf(Unread)
    BY <1>1 DEF IInv, Begun
  <1>4. InTurn(Unread') /\ LastOf(Unread')
    <2>1. CASE Unread' = Unread
      BY <1>3, <2>1
    <2>2. ASSUME NEW packet \in Seq(Units), Len(packet) = Parts, Unread = packet \o Unread'
          PROVE  InTurn(Unread') /\ LastOf(Unread')
      <3>1. Unread' \in Seq(Units)
        BY <1>2, Joined DEF StreamTypes, Unread
      <3>2. QED BY ONLY <1>3, <2>2, <3>1, InTurnDrop, LastDrop
    <2>3. QED BY <2>1, <2>2, ReceiveTakes
  <1>5. InTurn(Unread)' /\ LastOf(Unread)'
    BY <1>1, <1>4 DEF InTurn, LastOf, Unit
  <1>6. Begun'
    BY <1>1, <1>5 DEF Begun
  <1>7. QED BY <1>2, <1>5, <1>6 DEF IInv

\* The other steps of the monitor: the loop is entered with the mutex free
\* and left with the packet sent.
LEMMA MonitorStepKeeps == IInv /\ MonitorStep => IInv'
  <1> SUFFICES ASSUME IInv, MonitorStep PROVE IInv'
    OBVIOUS
  <1>1. StreamTypes /\ Holder
    BY DEF IInv
  <1>2. CASE Frame
    BY <1>1, <1>2, Untouched DEF Frame, platform, stored, StreamTypes, Holder, At
  <1>3. CASE Handle
    BY <1>1, <1>3, Untouched DEF Handle, platform, stored, StreamTypes, Holder, At
  <1>4. CASE CopyFirst \/ CopyRest \/ Raise
    BY <1>1, <1>4, Untouched DEF CopyFirst, CopyRest, Raise, Goto, TaskOnly, platform, stored, StreamTypes,
                                 Holder, At
  <1>5. CASE Look
    BY <1>1, <1>5, Untouched DEF Look, platform, stored, StreamTypes, Holder, At
  <1>6. CASE ShowPlate
    BY <1>1, <1>6, Untouched DEF ShowPlate, platform, stored, StreamTypes, Holder, At
  <1>7. ASSUME NEW s \in Senders, Lock(s) \/ SendUnit(s) \/ SigPipe(s) \/ Unlock(s)
        PROVE  IInv'
    <2>1. CASE SendUnit(s)
      BY <2>1, SendUnitStep
    <2>2. CASE SigPipe(s)
      BY <1>1, <2>2, Untouched DEF SigPipe, platform, stored, StreamTypes, Holder, At
    <2>3. CASE Lock(s)
      <3>1. /\ UNCHANGED <<sent, down, recv_ringbuf, tcp_state>> /\ sent = 0
            /\ StreamTypes' /\ Holder'
        BY <1>1, <2>3 DEF Lock, Move, platform, stored, StreamTypes, Holder, At, Senders
      <3>2. Unread' = Unread
        BY <3>1 DEF Unread
      <3>3. LastOf(Unread) => LastOf(Unread)'
        BY <3>1, <3>2, NoRemainder DEF LastOf
      <3>4. InTurn(Unread)' /\ Begun'
        BY <3>1, <3>2, <3>3 DEF IInv, InTurn, Begun
      <3>5. QED BY <3>1, <3>4 DEF IInv
    <2>4. CASE Unlock(s)
      <3>1. /\ UNCHANGED <<down, recv_ringbuf, tcp_state>> /\ sent = Parts /\ sent' = 0
            /\ StreamTypes' /\ Holder'
        BY <1>1, <2>4, PartsType DEF Unlock, Move, platform, stored, StreamTypes, Holder, At, Senders
      <3>2. Unread' = Unread
        BY <3>1 DEF Unread
      <3>3. Parts % Parts = 0
        BY PartsType, NoRemainder, ShiftRemainder
      <3>4. LastOf(Unread) => LastOf(Unread)'
        BY <3>1, <3>2, <3>3, NoRemainder DEF LastOf
      <3>5. InTurn(Unread)' /\ Begun'
        BY <3>1, <3>2, <3>4 DEF IInv, InTurn, Begun
      <3>6. QED BY <3>1, <3>5 DEF IInv
    <2>5. QED BY <1>7, <2>1, <2>2, <2>3, <2>4
  <1>8. QED BY <1>2, <1>3, <1>4, <1>5, <1>6, <1>7 DEF MonitorStep

\* The steps of the platform towards the monitor.
Request == Heartbeat \/ Recognise \/ \E t \in Uploaders : LockUp(t) \/ SendUp(t)

\* The other steps of the platform: only its exit empties the stream.
LEMMA PlatformStepKeeps == IInv /\ (Request \/ Disconnect \/ Exit) => IInv'
  <1> SUFFICES ASSUME IInv, Request \/ Disconnect \/ Exit PROVE IInv'
    OBVIOUS
  <1>1. StreamTypes /\ Holder
    BY DEF IInv
  <1>2. CASE Request
    BY <1>1, <1>2, Untouched DEF Request, Heartbeat, Recognise, LockUp, SendUp, monitor, stored,
                                 StreamTypes, Holder, At
  <1>3. CASE Disconnect
    <2>1. /\ UNCHANGED <<capture, task, send_mutex, sent, down, recv_ringbuf>>
          /\ tcp_state # "exited" /\ tcp_state' # "exited"
      BY <1>3 DEF Disconnect, monitor
    <2>2. StreamTypes' /\ Holder' /\ Unread' = Unread
      BY <1>1, <2>1 DEF StreamTypes, Holder, At, Unread
    <2>3. InTurn(Unread)' /\ LastOf(Unread)'
      BY <2>1, <2>2 DEF IInv, Begun, InTurn, LastOf, Unit
    <2>4. QED BY <2>1, <2>2, <2>3 DEF IInv, Begun
  <1>4. CASE Exit
    <2>1. /\ UNCHANGED <<capture, task, send_mutex, sent>>
          /\ down' = <<>> /\ recv_ringbuf' = <<>> /\ tcp_state' = "exited"
      BY <1>4 DEF Exit, monitor
    <2>2. StreamTypes' /\ Holder' /\ Begun'
      BY <1>1, <2>1 DEF StreamTypes, Holder, At, Begun
    <2>3. Unread' = <<>>
      BY <2>1, ConcatEmptySeq DEF Unread
    <2>4. InTurn(Unread)'
      BY <2>3 DEF InTurn
    <2>5. QED BY <2>2, <2>4 DEF IInv
  <1>5. QED BY <1>2, <1>3, <1>4

LEMMA NextIInv == IInv /\ [Next]_vars => IInv'
  <1>1. ASSUME IInv, Next PROVE IInv'
    BY <1>1, MonitorStepKeeps, PlatformStepKeeps, ReceiveStep DEF Next, Request
  <1>2. ASSUME IInv, UNCHANGED vars PROVE IInv'
    <2>1. StreamTypes' /\ Holder'
      BY <1>2 DEF vars, monitor, platform, stored, IInv, StreamTypes, Holder, At
    <2>2. QED BY <1>2, <2>1, Untouched DEF vars, monitor, platform, stored
  <1>3. QED BY <1>1, <1>2

LEMMA SpecIInv == Spec => []IInv
  BY InitIInv, NextIInv, PTL DEF Spec

\* Both programs together: the platform never reads a unit of one packet
\* inside another, however the sends of frames and acks are cut up and
\* wherever the ring and the connection are full.
THEOREM StreamStaysWhole == Spec => []StreamWhole
  <1>1. IInv => StreamWhole
    <2> SUFFICES ASSUME IInv PROVE StreamWhole
      OBVIOUS
    <2>1. Unread \in Seq(Units)
      BY UnreadType DEF IInv
    <2>2. DOMAIN Unread = 1..Len(Unread) /\ Len(Unread) \in Nat
      BY <2>1, LenProperties
    <2>3. ASSUME Len(Unread) % Parts > 0
          PROVE  \E s \in Senders : At(s) = "send" /\ Unread[Len(Unread)] = <<Unit(s)[1], sent>>
      <3>1. tcp_state # "exited"
        <4>1. CASE tcp_state = "exited"
          <5>1. Unread = <<>>
            BY <4>1, ConcatEmptySeq DEF IInv, Begun, Unread
          <5>2. QED BY <2>3, <5>1, NoRemainder
        <4>2. QED BY <4>1
      <3>2. Unread[Len(Unread)] = <<Unit(send_mutex)[1], sent>> /\ sent % Parts > 0
        BY <2>3, <3>1 DEF IInv, Begun, LastOf
      <3>3. send_mutex # "free"
        BY <3>2, NoRemainder DEF IInv, Holder
      <3>4. send_mutex \in Senders /\ At(send_mutex) = "send"
        BY <3>3 DEF IInv, StreamTypes, Holder
      <3>5. QED BY <3>2, <3>4
    <2>4. QED BY <2>2, <2>3 DEF IInv, InTurn, StreamWhole
  <1>2. QED BY <1>1, SpecIInv, PTL
-----------------------------------------------------------------------------
(* Answers *)

\* The units up to the k-th, as many as its number, are of its packet.
SamePacket(u) ==
  \A k \in 1..Len(u) : \A j \in 1..k : k - j < u[k][2] => u[j][1] = u[k][1]

\* The unit that ends an answer, and the answer the task has in hand.
LastAck == <<"ack", Parts>>
Answering == IF task = "lock" \/ (task = "send" /\ sent < Parts) THEN 1 ELSE 0

\* A heartbeat not answered is on its way up, or its answer is in the task's
\* hand or on its way down, and nothing else is an answer.
Accounted ==
  tcp_state # "exited" =>
    owed = Count(up, "heartbeat") + Answering + Count(Unread, LastAck)

\* TypeOK, but for the stream and what is owed.
Bounded ==
  /\ plate \in Plates \cup {Blank}
  /\ fresh \in BOOLEAN /\ alive \in BOOLEAN /\ hasFrame \in BOOLEAN
  /\ Len(down) <= Room /\ Len(recv_ringbuf) <= RingSize
  /\ tcp_state \in {"CONNECTED", "CLOSE", "exited"}
  /\ up \in Seq(Plates \cup {"heartbeat"}) /\ Len(up) <= UpRoom
  /\ Box!TypeOK(Plates)

\* The platform's mutex is held by the thread that sends, and a heartbeat
\* under way is within the bound.
UpInv ==
  /\ client \in {"loop", "lock", "send"} /\ recogn \in {"idle", "lock", "send"}
  /\ client_mutex \in Uploaders \cup {"free"}
  /\ recognised \in 0..MaxPlates
  /\ \A t \in Uploaders : PlaceOf(t) = "send" <=> client_mutex = t
  /\ client # "loop" => owed < MaxOwed

\* The invariant.
LInv == IInv /\ SamePacket(Unread) /\ Accounted /\ Bounded /\ UpInv /\ owed \in 0..MaxOwed

LEMMA SameNext ==
  ASSUME NEW u \in Seq(Units), InTurn(u), LastOf(u), SamePacket(u),
         sent \in 0..Parts, sent < Parts
  PROVE  SamePacket(Append(u, Unit(send_mutex)))
  <1> DEFINE x == Unit(send_mutex)
             v == Append(u, x)
             n == Len(u)
  <1>1. n \in Nat /\ Len(v) = n + 1 /\ v[n + 1] = x /\ \A k \in 1..n : v[k] = u[k]
    BY AppendProperties
  <1>2. x[2] = sent + 1 /\ sent \in Nat
    BY DEF Unit
  <1>3. n % Parts = sent /\ (n % Parts > 0 => u[n] = <<x[1], sent>>)
    <2>1. sent \in 0..Parts-1
      BY PartsType
    <2>2. sent % Parts = sent
      BY ONLY <2>1, SmallRemainder
    <2>3. QED BY <2>2 DEF LastOf
  <1> HIDE DEF v, n, x
  <1>4. ASSUME NEW k \in 1..n, NEW j \in 1..k, k - j < v[k][2] PROVE v[j][1] = v[k][1]
    <2>1. j \in 1..n /\ v[k] = u[k] /\ v[j] = u[j]
      BY <1>1
    <2>2. k \in 1..Len(u)
      BY DEF n
    <2>3. QED BY <1>4, <2>1, <2>2 DEF SamePacket
  <1>5. ASSUME NEW j \in 1..n+1, (n + 1) - j < sent + 1 PROVE v[j][1] = x[1]
    <2>1. CASE j = n + 1
      BY <1>1, <2>1
    <2>2. CASE j # n + 1
      <3>1. j \in 1..n /\ n \in 1..n /\ n - j < sent /\ sent > 0
        BY <1>1, <1>2, <1>5, <2>2
      <3>2. u[n] = <<x[1], sent>>
        BY ONLY <1>3, <3>1
      <3>3. u[n][1] = x[1] /\ u[n][2] = sent
        BY <3>2
      <3>4. n \in 1..Len(u)
        BY <3>1 DEF n
      <3>5. u[j][1] = u[n][1]
        BY ONLY <3>1, <3>3, <3>4, SamePacket(u) DEF SamePacket
      <3>6. QED BY <1>1, <3>1, <3>3, <3>5
    <2>3. QED BY <2>1, <2>2
  <1>6. ASSUME NEW k \in 1..Len(v), NEW j \in 1..k, k - j < v[k][2] PROVE v[j][1] = v[k][1]
    <2>1. CASE k \in 1..n
      BY <1>4, <1>6, <2>1
    <2>2. CASE k = n + 1
      <3>1. j \in 1..n+1 /\ v[k] = x
        BY <1>1, <2>2
      <3>2. QED BY <1>2, <1>5, <1>6, <2>2, <3>1
    <2>3. k \in 1..n \/ k = n + 1
      BY <1>1
    <2>4. QED BY ONLY <2>1, <2>2, <2>3
  <1>7. SamePacket(v)
    BY <1>6 DEF SamePacket
  <1>8. QED BY <1>7 DEF v, x

LEMMA SameDrop ==
  ASSUME NEW a \in Seq(Units), NEW b \in Seq(Units), SamePacket(a \o b)
  PROVE  SamePacket(b)
  <1> DEFINE u == a \o b
             n == Len(a)
  <1>1. n \in Nat /\ Len(b) \in Nat /\ Len(u) = n + Len(b) /\ \A k \in 1..Len(b) : u[k + n] = b[k]
    BY Joined
  <1>2. SamePacket(u)
    OBVIOUS
  <1> HIDE DEF u, n
  <1>3. ASSUME NEW k \in 1..Len(b), NEW j \in 1..k, k - j < b[k][2] PROVE b[j][1] = b[k][1]
    <2>1. /\ k + n \in 1..Len(u) /\ j + n \in 1..k + n /\ j \in 1..Len(b)
          /\ (k + n) - (j + n) = k - j
      BY <1>1
    <2>2. u[k + n] = b[k] /\ u[j + n] = b[j]
      BY <1>1, <2>1
    <2>3. u[j + n][1] = u[k + n][1]
      BY ONLY <1>2, <1>3, <2>1, <2>2 DEF SamePacket
    <2>4. QED BY <2>2, <2>3
  <1>4. QED BY <1>3 DEF SamePacket

\* The packet in front is one answer, or none.
LEMMA PacketCount ==
  ASSUME NEW a \in Seq(Units), NEW b \in Seq(Units), Len(a) = Parts,
         InTurn(a \o b), SamePacket(a \o b)
  PROVE  Count(a \o b, LastAck)
           = IF a[1][1] = "ack" THEN Count(b, LastAck) + 1 ELSE Count(b, LastAck)
  <1> DEFINE u == a \o b
  <1>1. /\ Parts \in Nat \ {0} /\ Len(b) \in Nat /\ Len(u) = Parts + Len(b)
        /\ u \in Seq(Units)
        /\ \A k \in 1..Parts : u[k] = a[k]
        /\ \A k \in 1..Len(b) : u[k + Parts] = b[k]
    BY Joined, PartsType
  <1>2. InTurn(u) /\ SamePacket(u)
    OBVIOUS
  <1> HIDE DEF u
  <1>3. \A k \in 1..Parts : u[k][2] = k
    <2>1. \A k \in 1..Parts : k \in 1..Len(u) /\ k - 1 \in 0..Parts-1
      BY <1>1
    <2>2. \A k \in 1..Parts : (k - 1) % Parts = k - 1
      BY <2>1, SmallRemainder
    <2>3. \A k \in 1..Parts : u[k][2] = (k - 1) + 1
      BY ONLY <1>2, <2>1, <2>2 DEF InTurn
    <2>4. QED BY <2>3
  <1>4. \A k \in 1..Parts-1 : u[k] # LastAck
    <2>1. \A k \in 1..Parts-1 : k \in 1..Parts /\ k # Parts
      BY <1>1
    <2>2. LastAck[2] = Parts
      BY DEF LastAck
    <2>3. QED BY <1>3, <2>1, <2>2
  <1>5. Parts \in 1..Parts /\ 1 \in 1..Parts /\ Parts - 1 < Parts /\ Parts \in 1..Len(u)
    BY <1>1
  <1>6. u[1][1] = u[Parts][1] /\ u[Parts][2] = Parts
    BY ONLY <1>2, <1>3, <1>5 DEF SamePacket
  <1>7. u[Parts] = LastAck <=> a[1][1] = "ack"
    <2>1. u[Parts] \in Units /\ u[1] = a[1]
      BY <1>1, <1>5
    <2>2. u[Parts] = <<a[1][1], Parts>>
      BY <1>6, <2>1 DEF Units
    <2>3. QED BY <2>2 DEF LastAck
  <1>8. Len(u) = Len(b) + Parts
    BY <1>1
  <1>9. Count(u, LastAck) = IF u[Parts] = LastAck THEN Count(b, LastAck) + 1 ELSE Count(b, LastAck)
    <2>1. /\ Parts \in Nat \ {0} /\ u \in Seq(Units) /\ b \in Seq(Units)
          /\ \A k \in 1..Len(b) : u[k + Parts] = b[k]
      BY <1>1
    <2>2. Dropped(Units, u, b, Parts, LastAck)
      BY ONLY <1>4, <1>8, <2>1 DEF Dropped
    <2>3. QED BY ONLY <2>2, CountDrop
  <1>10. QED BY <1>7, <1>9 DEF u
-----------------------------------------------------------------------------
LEMMA TypeParts ==
  ASSUME StreamTypes, Bounded, UpInv, owed \in 0..MaxOwed
  PROVE  TypeOK
  BY DEF TypeOK, StreamTypes, Bounded, UpInv, Units

\* What the mailbox holds is of its type: what is copied is a plate.
LEMMA MailboxStep ==
  ASSUME Bounded, MonitorStep, plate' \in Plates \cup {Blank}
  PROVE  Box!TypeOK(Plates)'
  <1> USE DEF Bounded, Box!TypeOK
  <1>1. CASE CopyFirst
    <2>1. /\ g_carplate_str' = <<plate, g_carplate_str[2]>>
          /\ hurried' = (g_carplate_update \/ window # "idle")
          /\ UNCHANGED <<g_carplate_update, window, carplateLab>>
      BY <1>1 DEF CopyFirst, Box!Begin
    <2>2. g_carplate_str' \in (Plates \cup {Blank}) \X (Plates \cup {Blank})
      BY <2>1
    <2>3. hurried' \in BOOLEAN
      BY <2>1
    <2>4. QED BY <2>1, <2>2, <2>3
  <1>2. CASE CopyRest
    BY <1>2 DEF CopyRest, Box!Copy, Box!Whole
  <1>3. CASE Raise
    BY <1>3 DEF Raise, Box!Raise
  <1>4. CASE Look \/ ShowPlate
    BY <1>4 DEF Look, ShowPlate, Box!Look, Box!Show, Box!Lower, mailbox
  <1>5. CASE Frame \/ Handle \/ \E s \in Senders : Lock(s) \/ SendUnit(s) \/ SigPipe(s) \/ Unlock(s)
    BY <1>5 DEF Frame, Handle, Lock, SendUnit, SigPipe, Unlock, mailbox
  <1>6. QED BY <1>1, <1>2, <1>3, <1>4, <1>5 DEF MonitorStep

LEMMA BoundedMonitor ==
  ASSUME StreamTypes, Bounded, MonitorStep
  PROVE  Bounded'
  <1>1. plate' \in Plates \cup {Blank}
    BY DEF Bounded, MonitorStep, Frame, Handle, CopyFirst, CopyRest, Raise, Lock, SendUnit, SigPipe,
           Unlock, Look, ShowPlate, TaskOnly
  <1>2. Box!TypeOK(Plates)'
    BY <1>1, MailboxStep
  <1>3. fresh' \in BOOLEAN /\ alive' \in BOOLEAN /\ UNCHANGED platform
    BY DEF Bounded, MonitorStep, Frame, Handle, CopyFirst, CopyRest, Raise, Lock, SendUnit, SigPipe,
           Unlock, Look, ShowPlate, TaskOnly
  <1>4. Len(down') <= Room
    <2>1. CASE UNCHANGED down
      BY <2>1 DEF Bounded
    <2>2. ASSUME NEW s \in Senders, SendUnit(s) PROVE Len(down') <= Room
      <3>1. down' = Append(down, Unit(s)) /\ Len(down) < Room /\ Len(down) \in Nat
        BY <2>2 DEF SendUnit, StreamTypes
      <3>2. Len(down') = Len(down) + 1
        BY <3>1 DEF StreamTypes
      <3>3. QED BY <3>1, <3>2, SizesAssumption
    <2>3. QED BY <2>1, <2>2 DEF MonitorStep, Frame, Handle, CopyFirst, CopyRest, Raise, Lock, SigPipe,
                                Unlock, Look, ShowPlate, TaskOnly
  <1>5. up' \in Seq(Plates \cup {"heartbeat"}) /\ Len(up') <= UpRoom
    <2>1. CASE UNCHANGED up
      BY <2>1 DEF Bounded
    <2>2. CASE Handle
      <3>1. up \in Seq(Plates \cup {"heartbeat"}) /\ up # <<>> /\ up' = Tail(up) /\ Len(up) <= UpRoom
        BY <2>2 DEF Handle, Bounded
      <3>2. up' \in Seq(Plates \cup {"heartbeat"}) /\ Len(up') = Len(up) - 1 /\ Len(up) \in Nat
        BY <3>1
      <3>3. QED BY <3>1, <3>2, SizesAssumption
    <2>3. QED BY <2>1, <2>2 DEF MonitorStep, Frame, CopyFirst, CopyRest, Raise, Lock, SendUnit, SigPipe,
                                Unlock, Look, ShowPlate, TaskOnly
  <1>6. QED BY <1>1, <1>2, <1>3, <1>4, <1>5 DEF Bounded, platform, stored

LEMMA BoundedPlatform ==
  ASSUME IInv, Bounded, Request \/ Receive \/ Disconnect \/ Exit
  PROVE  Bounded'
  <1>1. UNCHANGED monitor
    BY DEF Request, Heartbeat, Recognise, LockUp, SendUp, Receive, Disconnect, Exit
  <1>2. Box!TypeOK(Plates)' /\ UNCHANGED <<plate, fresh, alive>>
    BY <1>1 DEF Bounded, Box!TypeOK, monitor, mailbox
  <1>3. tcp_state' \in {"CONNECTED", "CLOSE", "exited"}
    BY DEF Bounded, Request, Heartbeat, Recognise, LockUp, SendUp, Receive, Disconnect, Exit, stored
  <1>4. /\ hasFrame' \in BOOLEAN
        /\ Len(down') <= Room /\ Len(recv_ringbuf') <= RingSize
    <2>1. CASE Request \/ Disconnect
      BY <2>1 DEF Bounded, Request, Heartbeat, Recognise, LockUp, SendUp, Disconnect, stored
    <2>2. CASE Exit
      <3>1. hasFrame' = FALSE /\ down' = <<>> /\ recv_ringbuf' = <<>>
        BY <2>2 DEF Exit
      <3>2. Len(down') = 0 /\ Len(recv_ringbuf') = 0
        BY <3>1
      <3>3. 0 <= Room /\ 0 <= RingSize
        BY SizesAssumption
      <3>4. hasFrame' \in BOOLEAN
        BY <3>1
      <3>5. QED BY ONLY <3>2, <3>3, <3>4
    <2>3. CASE Receive
      <3>1. Len(down') <= Len(down) /\ Len(recv_ringbuf') <= RingSize /\ StreamTypes'
        BY <2>3, ReceiveTakes
      <3>2. hasFrame' \in BOOLEAN
        BY <2>3 DEF Receive, Bounded
      <3>3. Len(down) \in Nat /\ Len(down') \in Nat /\ Len(down) <= Room
        BY <3>1 DEF IInv, StreamTypes, Bounded
      <3>4. QED BY <3>1, <3>2, <3>3, SizesAssumption
    <2>4. QED BY <2>1, <2>2, <2>3
  <1>5. up' \in Seq(Plates \cup {"heartbeat"}) /\ Len(up') <= UpRoom
    <2>1. CASE UNCHANGED up
      BY <2>1 DEF Bounded
    <2>2. ASSUME NEW p \in Plates \cup {"heartbeat"}, up' = Append(up, p), Len(up) < UpRoom
          PROVE  up' \in Seq(Plates \cup {"heartbeat"}) /\ Len(up') <= UpRoom
      <3>1. up \in Seq(Plates \cup {"heartbeat"})
        BY DEF Bounded
      <3>2. up' \in Seq(Plates \cup {"heartbeat"}) /\ Len(up') = Len(up) + 1 /\ Len(up) \in Nat
        BY <2>2, <3>1
      <3>3. QED BY <2>2, <3>2, SizesAssumption
    <2>3. ASSUME NEW t \in Uploaders, SendUp(t)
          PROVE  up' \in Seq(Plates \cup {"heartbeat"}) /\ Len(up') <= UpRoom
      <3>1. PICK p \in Packet(t) : up' = Append(up, p)
        BY <2>3 DEF SendUp
      <3>2. p \in Plates \cup {"heartbeat"} /\ Len(up) < UpRoom
        BY <2>3, <3>1 DEF SendUp, Packet
      <3>3. QED BY <2>2, <3>1, <3>2
    <2>4. QED BY <2>1, <2>3 DEF Request, Heartbeat, Recognise, LockUp, Receive, Disconnect, Exit
  <1>6. QED BY <1>2, <1>3, <1>4, <1>5 DEF Bounded
-----------------------------------------------------------------------------
\* A step that leaves what is on its way and in hand alone.
LEMMA AccountKept ==
  ASSUME SamePacket(Unread), Accounted,
         Answering' = Answering, UNCHANGED <<up, owed, tcp_state, down, recv_ringbuf>>
  PROVE  SamePacket(Unread)' /\ Accounted'
  <1>1. Unread' = Unread
    BY DEF Unread
  <1>2. Count(Unread, LastAck)' = Count(Unread, LastAck) /\ Count(up, "heartbeat")' = Count(up, "heartbeat")
    BY <1>1 DEF Count, Places, LastAck
  <1>3. SamePacket(Unread)'
    BY <1>1 DEF SamePacket
  <1>4. QED BY <1>2, <1>3 DEF Accounted

\* The counts are numbers.
LEMMA CountsType ==
  ASSUME StreamTypes, Bounded
  PROVE  /\ Count(up, "heartbeat") \in Nat /\ Count(Unread, LastAck) \in Nat
         /\ Answering \in {0, 1}
  <1>1. Count(up, "heartbeat") \in Nat
    BY CountType DEF Bounded
  <1>2. Count(Unread, LastAck) \in Nat
    BY CountType, UnreadType
  <1>3. QED BY <1>1, <1>2 DEF Answering

\* A request handled is off its way, and a heartbeat is an answer in hand.
LEMMA HandleAccounts ==
  ASSUME SamePacket(Unread), Accounted, StreamTypes, Bounded, Handle
  PROVE  SamePacket(Unread)' /\ Accounted'
  <1> DEFINE S == Plates \cup {"heartbeat"}
  <1>1. /\ up \in Seq(S) /\ up # <<>> /\ up' = Tail(up)
        /\ UNCHANGED <<sent, down, recv_ringbuf, tcp_state, owed>>
    BY DEF Handle, Bounded, platform, stored
  <1>2. Dropped(S, up, up', 1, "heartbeat")
    BY <1>1 DEF Dropped
  <1>3. Count(up, "heartbeat")
          = IF up[1] = "heartbeat" THEN Count(up', "heartbeat") + 1 ELSE Count(up', "heartbeat")
    BY ONLY <1>2, CountDrop
  <1>4. \/ up[1] = "heartbeat" /\ task = "loop" /\ task' = "lock"
        \/ up[1] # "heartbeat" /\ task = "loop" /\ task' = "plate"
    BY PlatesAssumption DEF Handle
  <1>5. \/ up[1] = "heartbeat" /\ Answering = 0 /\ Answering' = 1
        \/ up[1] # "heartbeat" /\ Answering = 0 /\ Answering' = 0
    BY <1>4 DEF Answering
  <1>6. Unread' = Unread
    BY <1>1 DEF Unread
  <1>7. SamePacket(Unread)' /\ Count(Unread, LastAck)' = Count(Unread, LastAck)
    BY <1>6 DEF SamePacket, Count, Places, LastAck
  <1>8. Count(up, "heartbeat")' = Count(up', "heartbeat")
    BY DEF Count, Places
  <1>9. Count(up', "heartbeat") \in Nat
    <2>1. up' \in Seq(S)
      BY <1>2 DEF Dropped
    <2>2. QED BY <2>1, CountType
  <1>10. QED BY <1>1, <1>3, <1>5, <1>7, <1>8, <1>9, CountsType DEF Accounted

\* An answer is in hand from the lock to its last unit.
LEMMA SendAccounts ==
  ASSUME SamePacket(Unread), Accounted, IInv, Bounded, NEW s \in Senders,
         Lock(s) \/ SendUnit(s) \/ SigPipe(s) \/ Unlock(s)
  PROVE  SamePacket(Unread)' /\ Accounted'
  <1>1. StreamTypes /\ Holder
    BY DEF IInv
  <1>2. CASE SigPipe(s)
    BY <1>2, AccountKept DEF SigPipe, platform, stored, Answering
  <1>3. CASE Lock(s)
    <2>1. sent = 0 /\ sent' = 0 /\ 0 < Parts
      BY <1>1, <1>3, PartsType DEF Lock, Holder
    <2>2. CASE s = "task"
      BY <1>3, <2>1, <2>2, AccountKept DEF Lock, Move, At, platform, stored, Answering
    <2>3. CASE s = "capture"
      BY <1>3, <2>1, <2>3, AccountKept DEF Lock, Move, At, platform, stored, Answering
    <2>4. QED BY <2>2, <2>3 DEF Senders
  <1>4. CASE Unlock(s)
    <2>1. sent = Parts /\ sent' = 0 /\ ~(Parts < Parts) /\ send_mutex = s
      BY <1>1, <1>4, PartsType DEF Unlock, Move, Holder
    <2>2. CASE s = "task"
      BY <1>4, <2>1, <2>2, AccountKept DEF Unlock, Move, At, platform, stored, Answering
    <2>3. CASE s = "capture"
      <3>1. task # "send" /\ task' = task
        BY <1>1, <1>4, <2>1, <2>3 DEF Unlock, Move, Holder, At, Senders
      <3>2. QED BY <1>4, <3>1, AccountKept DEF Unlock, platform, stored, Answering
    <2>4. QED BY <2>2, <2>3 DEF Senders
  <1>5. CASE SendUnit(s)
    <2>1. /\ send_mutex = s /\ Unit(s) = Unit(send_mutex) /\ At(s) = "send"
          /\ sent \in 0..Parts /\ sent < Parts /\ sent' = sent + 1
          /\ UNCHANGED <<task, up, owed, tcp_state>> /\ tcp_state # "exited"
      BY <1>1, <1>5 DEF Holder, StreamTypes, SendUnit, platform, stored
    <2>2. Unread \in Seq(Units) /\ InTurn(Unread) /\ LastOf(Unread)
      BY <1>1, <2>1, UnreadType DEF IInv, Begun
    <2>3. Unread' = Append(Unread, Unit(s)) /\ Unit(s) \in Units
      BY <1>1, <1>5, UnreadGrows
    <2>4. SamePacket(Unread')
      BY <2>1, <2>2, <2>3, SameNext
    <2>5. Count(Unread', LastAck)
            = IF Unit(s) = LastAck THEN Count(Unread, LastAck) + 1 ELSE Count(Unread, LastAck)
      BY ONLY <2>2, <2>3, CountAppend
    <2>6. /\ Unit(s) = LastAck <=> s = "task" /\ sent + 1 = Parts
          /\ s = "task" <=> task = "send"
      <3>1. s = "task" <=> task = "send"
        BY <1>1, <2>1 DEF Holder, At, Senders
      <3>2. QED BY <3>1 DEF Unit, LastAck, Senders
    <2>7. \/ Unit(s) = LastAck /\ Answering = 1 /\ Answering' = 0
          \/ Unit(s) # LastAck /\ Answering' = Answering
      BY <2>1, <2>6, PartsType DEF Answering
    <2>8. /\ SamePacket(Unread)' /\ Count(Unread, LastAck)' = Count(Unread', LastAck)
          /\ Count(up, "heartbeat")' = Count(up, "heartbeat")
      BY <2>1, <2>4 DEF SamePacket, Count, Places, LastAck
    <2>9. QED BY <1>1, <2>1, <2>5, <2>7, <2>8, CountsType DEF Accounted
  <1>6. QED BY <1>2, <1>3, <1>4, <1>5

LEMMA MonitorAccounts ==
  ASSUME SamePacket(Unread), Accounted, IInv, Bounded, MonitorStep
  PROVE  SamePacket(Unread)' /\ Accounted'
  <1>1. CASE Handle
    BY <1>1, HandleAccounts DEF IInv
  <1>2. CASE \E s \in Senders : Lock(s) \/ SendUnit(s) \/ SigPipe(s) \/ Unlock(s)
    BY <1>2, SendAccounts
  <1>3. CASE Frame \/ Look \/ ShowPlate
    BY <1>3, AccountKept DEF Frame, Look, ShowPlate, platform, stored, Answering
  <1>4. CASE CopyFirst \/ CopyRest \/ Raise
    <2>1. Answering' = 0 /\ Answering = 0 /\ UNCHANGED <<up, owed, tcp_state, down, recv_ringbuf>>
      BY <1>4 DEF CopyFirst, CopyRest, Raise, Goto, TaskOnly, platform, stored, Answering
    <2>2. QED BY <2>1, AccountKept
  <1>5. QED BY <1>1, <1>2, <1>3, <1>4 DEF MonitorStep

\* A request sent is on its way; only a heartbeat is to be answered.
LEMMA RequestAccounts ==
  ASSUME SamePacket(Unread), Accounted, StreamTypes, Bounded, Request
  PROVE  SamePacket(Unread)' /\ Accounted'
  <1> DEFINE S == Plates \cup {"heartbeat"}
  <1>1. UNCHANGED <<task, sent, down, recv_ringbuf, tcp_state>> /\ up \in Seq(S)
    BY DEF Request, Heartbeat, Recognise, LockUp, SendUp, monitor, stored, Bounded
  <1>2. Unread' = Unread /\ Answering' = Answering
    BY <1>1 DEF Unread, Answering
  <1>3. CASE Heartbeat \/ Recognise \/ \E t \in Uploaders : LockUp(t)
    BY <1>1, <1>2, <1>3, AccountKept DEF Heartbeat, Recognise, LockUp
  <1>4. ASSUME NEW t \in Uploaders, SendUp(t) PROVE SamePacket(Unread)' /\ Accounted'
    <2>1. PICK e \in S : /\ up' = Append(up, e)
                          /\ owed' = IF e = "heartbeat" THEN owed + 1 ELSE owed
      <3>1. PICK p \in Packet(t) : up' = Append(up, p)
        BY <1>4 DEF SendUp
      <3>2. p \in S /\ (p = "heartbeat" <=> t = "client")
        BY <3>1, PlatesAssumption DEF Packet, Uploaders
      <3>3. owed' = IF t = "client" THEN owed + 1 ELSE owed
        BY <1>4 DEF SendUp
      <3>4. QED BY <3>1, <3>2, <3>3
    <2>2. Count(up', "heartbeat")
            = IF e = "heartbeat" THEN Count(up, "heartbeat") + 1 ELSE Count(up, "heartbeat")
      BY <1>1, <2>1, CountAppend
    <2>3. /\ SamePacket(Unread)' /\ Count(Unread, LastAck)' = Count(Unread, LastAck)
          /\ Count(up, "heartbeat")' = Count(up', "heartbeat")
      BY <1>2 DEF SamePacket, Count, Places, LastAck
    <2>4. QED BY <1>1, <1>2, <2>1, <2>2, <2>3, CountsType DEF Accounted
  <1>5. QED BY <1>3, <1>4 DEF Request

\* The steps of client_send_data, and those that do not touch its mutex.
LEMMA UpKept ==
  ASSUME UpInv, UNCHANGED uplink, owed' = owed \/ client = "loop"
  PROVE  UpInv'
  BY DEF UpInv, uplink, PlaceOf

LEMMA NextUp ==
  ASSUME UpInv, Next, owed \in 0..MaxOwed
  PROVE  UpInv'
  <1> USE SizesAssumption DEF UpInv, PlaceOf, MoveUp, Uploaders
  <1>1. CASE MonitorStep
    <2>1. owed' = owed /\ UNCHANGED uplink
      BY <1>1 DEF MonitorStep, Frame, Handle, CopyFirst, CopyRest, Raise, Lock, SendUnit, SigPipe,
                  Unlock, Look, ShowPlate, TaskOnly, platform
    <2>2. QED BY ONLY <2>1, UpInv, UpKept
  <1>2. CASE Heartbeat
    BY <1>2 DEF Heartbeat
  <1>3. CASE Recognise
    BY <1>3 DEF Recognise
  <1>4. ASSUME NEW t \in Uploaders, LockUp(t) PROVE UpInv'
    BY <1>4 DEF LockUp
  <1>5. ASSUME NEW t \in Uploaders, SendUp(t) PROVE UpInv'
    BY <1>5 DEF SendUp
  <1>6. CASE Receive
    BY <1>6, UpKept DEF Receive
  <1>7. CASE Disconnect
    BY <1>7, UpKept DEF Disconnect
  <1>8. CASE Exit
    BY <1>8 DEF Exit
  <1>9. QED BY <1>1, <1>2, <1>3, <1>4, <1>5, <1>6, <1>7, <1>8 DEF Next

\* An answer received is no longer owed.
LEMMA ReceiveAccounts ==
  ASSUME SamePacket(Unread), Accounted, IInv, Bounded, Receive
  PROVE  /\ SamePacket(Unread)' /\ Accounted'
         /\ owed' \in {owed, owed - 1} /\ tcp_state' # "exited"
  <1>1. /\ UNCHANGED <<task, sent, up, tcp_state>> /\ tcp_state # "exited"
        /\ StreamTypes /\ InTurn(Unread)
    BY DEF Receive, monitor, IInv
  <1>2. Answering' = Answering /\ Count(up, "heartbeat")' = Count(up, "heartbeat")
    BY <1>1 DEF Answering, Count, Places
  <1>3. /\ SamePacket(Unread)' <=> SamePacket(Unread')
        /\ Count(Unread, LastAck)' = Count(Unread', LastAck)
    BY DEF SamePacket, Count, Places, LastAck
  <1>4. Unread' \in Seq(Units)
    <2>1. StreamTypes'
      BY ReceiveTakes
    <2>2. QED BY <2>1, Joined DEF StreamTypes, Unread
  <1>5. CASE Unread' = Unread /\ UNCHANGED <<hasFrame, owed>>
    <2>1. SamePacket(Unread')
      BY <1>5
    <2>2. QED BY <1>1, <1>2, <1>3, <1>5, <2>1 DEF Accounted
  <1>6. ASSUME NEW packet \in Seq(Units), Len(packet) = Parts, Unread = packet \o Unread',
               owed' = IF packet[1][1] = "ack" THEN owed - 1 ELSE owed
        PROVE  SamePacket(Unread') /\ Accounted' /\ owed' \in {owed, owed - 1}
    <2>1. InTurn(packet \o Unread') /\ SamePacket(packet \o Unread')
      BY <1>1, <1>6
    <2>2. SamePacket(Unread')
      BY ONLY <1>4, <2>1, SameDrop
    <2>3. Count(packet \o Unread', LastAck)
            = IF packet[1][1] = "ack" THEN Count(Unread', LastAck) + 1 ELSE Count(Unread', LastAck)
      BY ONLY <1>4, <1>6, <2>1, PacketCount
    <2>4. Count(Unread, LastAck)
            = IF packet[1][1] = "ack" THEN Count(Unread', LastAck) + 1 ELSE Count(Unread', LastAck)
      BY <1>6, <2>3
    <2>5. Count(Unread', LastAck) \in Nat
      BY <1>4, CountType
    <2>6. owed = Count(up, "heartbeat") + Answering + Count(Unread, LastAck)
      BY <1>1 DEF Accounted
    <2>7. owed' = Count(up, "heartbeat") + Answering + Count(Unread', LastAck)
      BY <1>1, <1>6, <2>4, <2>5, <2>6, CountsType
    <2>8. Accounted'
      BY <1>2, <1>3, <2>7 DEF Accounted
    <2>9. QED BY <1>6, <2>2, <2>8
  <1>7. SamePacket(Unread') /\ Accounted' /\ owed' \in {owed, owed - 1}
    BY <1>3, <1>5, <1>6, ReceiveTakes
  <1>8. QED BY <1>1, <1>3, <1>7

\* What is owed is a number within the bound: the parts it is made of are
\* numbers, and only a heartbeat, sent below the bound, adds to it.
LEMMA NextLInv == LInv /\ [Next]_vars => LInv'
  <1> SUFFICES ASSUME LInv, [Next]_vars PROVE LInv'
    OBVIOUS
  <1>1. /\ SamePacket(Unread) /\ Accounted /\ IInv /\ StreamTypes /\ Bounded /\ owed \in 0..MaxOwed
        /\ MaxOwed \in Nat
    BY SizesAssumption DEF LInv, IInv
  <1>2. IInv' /\ StreamTypes' /\ UpInv'
    <2>1. UpInv
      BY DEF LInv
    <2>2. CASE UNCHANGED vars
      <3>1. UNCHANGED uplink /\ owed' = owed
        BY <2>2 DEF vars, platform
      <3>2. UpInv'
        BY <2>1, <3>1 DEF UpInv, uplink, PlaceOf
      <3>3. QED BY <1>1, <2>2, <3>2, NextIInv DEF IInv
    <2>3. QED BY <1>1, <2>1, <2>2, NextIInv, NextUp DEF IInv
  <1>3. CASE UNCHANGED vars
    <2>1. Bounded' /\ Answering' = Answering /\ UNCHANGED <<up, owed, tcp_state, down, recv_ringbuf>>
      BY <1>1, <1>3 DEF vars, monitor, mailbox, platform, stored, Bounded, Box!TypeOK, Answering
    <2>2. QED BY <1>1, <1>2, <2>1, AccountKept DEF LInv
  <1>4. CASE MonitorStep
    <2>1. owed' = owed
      BY <1>4 DEF MonitorStep, Frame, Handle, CopyFirst, CopyRest, Raise, Lock, SendUnit, SigPipe,
                  Unlock, Look, ShowPlate, TaskOnly
    <2>2. QED BY <1>1, <1>2, <1>4, <2>1, BoundedMonitor, MonitorAccounts DEF LInv
  <1>5. CASE Request
    <2>1. owed' \in 0..MaxOwed
      <3>1. CASE owed' = owed
        BY <1>1, <3>1
      <3>2. CASE SendUp("client")
        <4>1. owed' = owed + 1 /\ owed < MaxOwed
          BY <3>2 DEF SendUp, MoveUp, PlaceOf, LInv, UpInv
        <4>2. QED BY <1>1, <4>1
      <3>3. QED BY <1>5, <3>1, <3>2 DEF Request, Heartbeat, Recognise, LockUp, SendUp, Uploaders
    <2>2. QED BY <1>1, <1>2, <1>5, <2>1, BoundedPlatform, RequestAccounts DEF LInv
  <1>6. CASE Receive
    <2>1. /\ SamePacket(Unread)' /\ Accounted' /\ Bounded'
          /\ owed' \in {owed, owed - 1} /\ tcp_state' # "exited"
      BY <1>1, <1>6, ReceiveAccounts, BoundedPlatform
    <2>2. /\ Count(up, "heartbeat")' \in Nat /\ Count(Unread, LastAck)' \in Nat
          /\ Answering' \in {0, 1}
      <3>1. Count(up', "heartbeat") \in Nat
        BY <2>1, CountType DEF Bounded
      <3>2. Count(Unread', LastAck) \in Nat
        <4>1. Unread' \in Seq(Units)
          BY <1>2, Joined DEF StreamTypes, Unread
        <4>2. QED BY <4>1, CountType
      <3>3. QED BY <3>1, <3>2 DEF Count, Places, LastAck, Answering
    <2>3. owed' = Count(up, "heartbeat")' + Answering' + Count(Unread, LastAck)'
      BY <2>1 DEF Accounted
    <2>4. owed' \in 0..MaxOwed
      BY <1>1, <2>1, <2>2, <2>3
    <2>5. QED BY <1>2, <2>1, <2>4 DEF LInv
  <1>7. CASE Disconnect
    <2>1. Answering' = Answering /\ Unread' = Unread /\ UNCHANGED <<up, owed>> /\ tcp_state # "exited"
      BY <1>7 DEF Disconnect, monitor, Answering, Unread
    <2>2. SamePacket(Unread)' /\ Count(Unread, LastAck)' = Count(Unread, LastAck)
          /\ Count(up, "heartbeat")' = Count(up, "heartbeat")
      BY <1>1, <2>1 DEF SamePacket, Count, Places, LastAck
    <2>3. Accounted'
      BY <1>1, <2>1, <2>2 DEF Accounted
    <2>4. QED BY <1>1, <1>2, <1>7, <2>1, <2>2, <2>3, BoundedPlatform DEF LInv
  <1>8. CASE Exit
    <2>1. tcp_state' = "exited" /\ owed' = 0 /\ Unread' = <<>>
      BY <1>8, ConcatEmptySeq DEF Exit, Unread
    <2>2. SamePacket(Unread)' /\ Accounted'
      BY <2>1 DEF SamePacket, Accounted
    <2>3. owed' \in 0..MaxOwed
      BY <1>1, <2>1
    <2>4. QED BY <1>1, <1>2, <1>8, <2>2, <2>3, BoundedPlatform DEF LInv
  <1>9. QED BY <1>3, <1>4, <1>5, <1>6, <1>7, <1>8 DEF Next, Request

LEMMA InitLInv == Init => LInv
  <1> SUFFICES ASSUME Init PROVE LInv
    OBVIOUS
  <1>1. /\ IInv /\ Unread = <<>> /\ up = <<>> /\ owed = 0 /\ Answering = 0
    BY InitIInv, ConcatEmptySeq DEF Init, Unread, Answering
  <1>2. Count(Unread, LastAck) = 0 /\ Count(up, "heartbeat") = 0
    BY <1>1, CountNone
  <1>3. SamePacket(Unread) /\ Accounted
    BY <1>1, <1>2 DEF SamePacket, Accounted
  <1>4. 0 <= Room /\ 0 <= RingSize /\ 0 <= UpRoom /\ owed \in 0..MaxOwed
    BY <1>1, SizesAssumption
  <1>5. Box!TypeOK(Plates)
    BY DEF Init, Box!Init, Box!TypeOK, Box!Whole
  <1>6. Bounded
    <2>1. /\ plate = Blank /\ fresh = FALSE /\ alive = TRUE /\ hasFrame = FALSE
          /\ tcp_state = "CONNECTED" /\ down = <<>> /\ recv_ringbuf = <<>>
      BY DEF Init
    <2>2. Len(down) = 0 /\ Len(recv_ringbuf) = 0 /\ Len(up) = 0
      BY <1>1, <2>1
    <2>3. up \in Seq(Plates \cup {"heartbeat"})
      BY <1>1
    <2>4. Len(down) <= Room /\ Len(recv_ringbuf) <= RingSize /\ Len(up) <= UpRoom
      BY ONLY <1>4, <2>2
    <2>5. QED BY ONLY <1>5, <2>1, <2>3, <2>4 DEF Bounded
  <1>7. UpInv
    BY SizesAssumption DEF Init, UpInv, Uploaders, PlaceOf
  <1>8. QED BY <1>1, <1>3, <1>4, <1>6, <1>7 DEF LInv

LEMMA SpecLInv == Spec => []LInv
  BY InitLInv, NextLInv, PTL DEF Spec

\* Both programs together, for every size of packet, connection and ring:
\* every variable has its type, and neither the connection, nor the
\* platform's ring, nor the way up ever holds more than it takes.
THEOREM LinkTypeCorrect == Spec => []TypeOK
  <1>1. LInv => TypeOK
    BY TypeParts DEF LInv, IInv
  <1>2. QED BY <1>1, SpecLInv, PTL

\* No answer is lost or made up: as long as the platform runs, the heartbeats
\* it has sent and has no answer to are as many as there are on their way to
\* the monitor, in its task's hand (server_0x01_heartbeat waits for the send
\* mutex or sends), and as answers on their way down or in the ring.
THEOREM AnswersAccounted == Spec => []Accounted
  BY SpecLInv, PTL DEF LInv

\* With as many units as a packet has, the ring has the packet in front whole.
LEMMA FrontWhole ==
  ASSUME IInv, Len(recv_ringbuf) >= Parts
  PROVE  WholePacket(recv_ringbuf)
  <1>1. recv_ringbuf \in Seq(Units) /\ down \in Seq(Units) /\ Parts \in Nat \ {0}
    BY PartsType DEF IInv, StreamTypes
  <1>2. /\ Parts \in 1..Len(recv_ringbuf) /\ Len(Unread) = Len(recv_ringbuf) + Len(down)
        /\ Len(down) \in Nat /\ Unread[Parts] = recv_ringbuf[Parts]
    <2>1. Parts \in 1..Len(recv_ringbuf)
      BY <1>1
    <2>2. QED BY <1>1, <2>1, Joined DEF Unread
  <1>3. (Parts - 1) % Parts = Parts - 1
    <2>1. Parts - 1 \in 0..Parts-1
      BY <1>1
    <2>2. QED BY ONLY <2>1, SmallRemainder
  <1>4. Parts \in 1..Len(Unread)
    BY <1>1, <1>2
  <1>5. Unread[Parts][2] = ((Parts - 1) % Parts) + 1
    BY <1>4 DEF IInv, InTurn
  <1>6. recv_ringbuf[Parts][2] = Parts
    BY <1>1, <1>2, <1>3, <1>5
  <1>7. QED BY <1>1, <1>2, <1>6 DEF WholePacket

\* The platform's ring never fills up without a packet to take from it, as a
\* frame fits in PROTO_PACK_MAX_LEN: the next turn of the client handles it.
THEOREM RingNeverJams == Spec => [](Len(recv_ringbuf) >= Parts => WholePacket(recv_ringbuf))
  <1>1. IInv => (Len(recv_ringbuf) >= Parts => WholePacket(recv_ringbuf))
    BY FrontWhole
  <1>2. QED BY <1>1, SpecIInv, PTL

\* Whom a thread waits for, as the ring does not jam: a thread that sends,
\* or, when it sends itself, the one that would make room.
LEMMA MonitorWaits ==
  ASSUME LInv, NEW s \in Senders, NEW u \in Senders \cup Uploaders, WaitsFor(s, u)
  PROVE  \/ u \in Senders /\ At(s) = "lock" /\ At(u) = "send"
         \/ u = "client" /\ At(s) = "send" /\ sent < Parts /\ Len(down) = Room
  <1>1. StreamTypes /\ Holder
    BY DEF LInv, IInv
  <1>2. s \notin Uploaders /\ u # "free"
    BY DEF Senders, Uploaders
  <1>3. CASE At(s) = "lock" /\ send_mutex = u
    BY <1>1, <1>2, <1>3 DEF StreamTypes, Holder
  <1>4. CASE At(s) = "send" /\ sent < Parts /\ Len(down) = Room /\ u = "client"
    BY <1>4
  <1>5. QED BY <1>2, <1>3, <1>4 DEF WaitsFor, Uploaders

LEMMA PlatformWaits ==
  ASSUME LInv, NEW t \in Uploaders, NEW u \in Senders \cup Uploaders, WaitsFor(t, u)
  PROVE  \/ u \in Uploaders /\ PlaceOf(t) = "lock" /\ PlaceOf(u) = "send"
         \/ u = "task" /\ PlaceOf(t) = "send" /\ Len(up) = UpRoom
  <1>1. UpInv /\ (Len(recv_ringbuf) >= Parts => WholePacket(recv_ringbuf))
    BY FrontWhole DEF LInv
  <1>2. ~(Len(recv_ringbuf) = RingSize /\ ~WholePacket(recv_ringbuf))
    BY <1>1, SizesAssumption
  <1>3. t \notin Senders /\ u # "free"
    BY DEF Senders, Uploaders
  <1>4. CASE PlaceOf(t) = "lock" /\ client_mutex = u
    BY <1>1, <1>3, <1>4 DEF UpInv
  <1>5. CASE PlaceOf(t) = "send" /\ Len(up) = UpRoom /\ u = "task"
    BY <1>5
  <1>6. QED BY <1>2, <1>3, <1>4, <1>5 DEF WaitsFor

\* Both programs together, for every size of packet, connection and ring:
\* capture thread, task, client and recognition thread wait for each other in
\* a circle only when both ways of the connection are full, with a sender at
\* either end: neither program's mutex nor the ring can close a circle.
THEOREM CirclesAreJams == Spec => []OnlyJamIsCircle
  <1>1. LInv => OnlyJamIsCircle
    <2> SUFFICES ASSUME LInv, NEW T \in (SUBSET (Senders \cup Uploaders)) \ {{}},
                        \A t \in T : \E u \in T : WaitsFor(t, u)
                 PROVE  Jammed
      BY DEF OnlyJamIsCircle, WaitInCircle
    \* A thread of the monitor that waits leads to the client.
    <2>1. ASSUME NEW s \in Senders, s \in T
          PROVE  /\ "client" \in T /\ sent < Parts /\ Len(down) = Room
                 /\ \E r \in Senders : At(r) = "send"
      <3>1. ASSUME NEW r \in Senders, r \in T, At(r) = "send"
            PROVE  "client" \in T /\ sent < Parts /\ Len(down) = Room
        <4>1. PICK u \in T : WaitsFor(r, u)
          BY <3>1
        <4>2. QED BY <3>1, <4>1, MonitorWaits
      <3>2. PICK u \in T : WaitsFor(s, u)
        BY <2>1
      <3>3. CASE At(s) = "send"
        BY <2>1, <3>1, <3>3
      <3>4. CASE u \in Senders /\ At(u) = "send"
        BY <3>1, <3>4
      <3>5. QED BY <3>2, <3>3, <3>4, MonitorWaits
    \* A thread of the platform that waits leads to the task.
    <2>2. ASSUME NEW t \in Uploaders, t \in T
          PROVE  /\ "task" \in T /\ Len(up) = UpRoom
                 /\ \E r \in Uploaders : PlaceOf(r) = "send"
      <3>1. ASSUME NEW r \in Uploaders, r \in T, PlaceOf(r) = "send"
            PROVE  "task" \in T /\ Len(up) = UpRoom
        <4>1. PICK u \in T : WaitsFor(r, u)
          BY <3>1
        <4>2. QED BY <3>1, <4>1, PlatformWaits
      <3>2. PICK u \in T : WaitsFor(t, u)
        BY <2>2
      <3>3. CASE PlaceOf(t) = "send"
        BY <2>2, <3>1, <3>3
      <3>4. CASE u \in Uploaders /\ PlaceOf(u) = "send"
        BY <3>1, <3>4
      <3>5. QED BY <3>2, <3>3, <3>4, PlatformWaits
    <2>3. PICK t \in Senders \cup Uploaders : t \in T
      <3>1. T # {} /\ T \subseteq Senders \cup Uploaders
        OBVIOUS
      <3>2. QED BY <3>1
    <2>4. "client" \in T /\ "task" \in T
      <3>1. "client" \in Uploaders /\ "task" \in Senders
        BY DEF Senders, Uploaders
      <3>2. QED BY <2>1, <2>2, <2>3, <3>1
    <2>5. client \in {"lock", "send"} /\ task \in {"lock", "send"}
      <3>1. PICK u \in T : WaitsFor("client", u)
        BY <2>4
      <3>2. PICK v \in T : WaitsFor("task", v)
        BY <2>4
      <3>3. PlaceOf("client") \in {"lock", "send"}
        BY <3>1, PlatformWaits DEF Uploaders
      <3>4. At("task") \in {"lock", "send"}
        BY <3>2, MonitorWaits DEF Senders
      <3>5. QED BY <3>3, <3>4 DEF PlaceOf, At
    <2>6. QED BY <2>1, <2>2, <2>4, <2>5 DEF Jammed, Senders, Uploaders
  <1>2. QED BY <1>1, SpecLInv, PTL

\* Once both ways are full with a sender at either end, nothing the monitor
\* or the platform does but the end of the platform's process makes room:
\* not a disconnect either, as client_send_data does not look at tcp_state.
JamLasts == [][Jammed => Jammed' \/ tcp_state' = "exited"]_vars

THEOREM JamsLast == Spec => JamLasts
  <1>1. LInv /\ [Next]_vars => [Jammed => Jammed' \/ tcp_state' = "exited"]_vars
    <2> SUFFICES ASSUME LInv, Next, Jammed PROVE Jammed' \/ tcp_state' = "exited"
      OBVIOUS
    <2> USE DEF Jammed, At, PlaceOf, Senders, Uploaders
    <2>1. /\ Holder /\ UpInv
          /\ send_mutex \in Senders /\ client_mutex \in Uploaders
          /\ \A s \in Senders : At(s) = "send" <=> send_mutex = s
          /\ \A t \in Uploaders : PlaceOf(t) = "send" <=> client_mutex = t
      BY DEF LInv, IInv, Holder, UpInv
    <2>2. CASE Frame \/ Look \/ ShowPlate \/ CopyFirst \/ CopyRest \/ Raise \/ Handle
      BY <2>2 DEF Frame, Look, ShowPlate, CopyFirst, CopyRest, Raise, Handle, Goto, TaskOnly, platform,
                  uplink
    <2>3. ASSUME NEW s \in Senders, Lock(s) \/ SendUnit(s) \/ SigPipe(s) \/ Unlock(s)
          PROVE  Jammed'
      <3>1. send_mutex # "free" /\ Len(down) = Room /\ sent # Parts
        BY <2>1 DEF LInv, IInv, StreamTypes
      <3>2. Room \in Nat
        BY SizesAssumption
      <3>3. ~Lock(s) /\ ~SendUnit(s) /\ ~Unlock(s)
        BY <3>1, <3>2 DEF Lock, SendUnit, Unlock
      <3>4. QED BY <2>3, <3>3 DEF SigPipe, platform, uplink
    <2>4. CASE Heartbeat \/ Recognise
      BY <2>4 DEF Heartbeat, Recognise, monitor
    <2>5. ASSUME NEW t \in Uploaders, LockUp(t) \/ SendUp(t) PROVE FALSE
      BY <2>1, <2>5 DEF LockUp, SendUp
    <2>6. CASE Receive
      BY <2>6 DEF Receive
    <2>7. CASE Disconnect
      BY <2>7 DEF Disconnect, monitor, uplink
    <2>8. CASE Exit
      BY <2>8 DEF Exit
    <2>9. CASE MonitorStep
      BY <2>2, <2>3, <2>9 DEF MonitorStep
    <2>10. QED BY <2>4, <2>5, <2>6, <2>7, <2>8, <2>9 DEF Next
  <1>2. QED BY <1>1, SpecLInv, PTL DEF JamLasts, Spec
-----------------------------------------------------------------------------
(* The monitor's mailbox *)

\* While a plate is stored the string may be half of it; otherwise the
\* mailbox holds a whole plate once the window looks at it.  A store that is
\* not in a hurry finds the flag down and the window at rest.
MailInv ==
  /\ task \in {"rest", "raise"} /\ ~hurried => ~g_carplate_update /\ window = "idle"
  /\ task # "rest" /\ (g_carplate_update \/ window # "idle") =>
       \E p \in Plates : g_carplate_str = Box!Whole(p)
  /\ task \in {"plate", "rest", "raise"} => plate \in Plates
  /\ task = "raise" => g_carplate_str = Box!Whole(plate)

\* The steps of the task thread.
LEMMA MailTask ==
  ASSUME MailInv, Handle \/ CopyFirst \/ CopyRest \/ Raise
  PROVE  MailInv'
  <1>1. CASE Handle
    BY <1>1 DEF MailInv, Handle, mailbox
  <1>2. CASE CopyFirst
    BY <1>2 DEF MailInv, CopyFirst, Goto, TaskOnly, Box!Begin
  <1>3. CASE CopyRest
    <2>1. /\ task = "rest" /\ task' = "raise" /\ plate' = plate
          /\ g_carplate_str' = Box!Whole(plate)
          /\ UNCHANGED <<g_carplate_update, window, hurried>>
      BY <1>3 DEF CopyRest, Goto, TaskOnly, Box!Copy
    <2>2. Box!Whole(plate)' = Box!Whole(plate)
      BY <2>1 DEF Box!Whole
    <2>3. plate \in Plates
      BY <2>1 DEF MailInv
    <2>4. \E p \in Plates : g_carplate_str' = Box!Whole(p)
      BY <2>1, <2>3
    <2>5. QED BY <2>1, <2>2, <2>3, <2>4 DEF MailInv, Box!Whole
  <1>4. CASE Raise
    <2>1. /\ task = "raise" /\ task' = "loop" /\ g_carplate_str' = g_carplate_str
      BY <1>4 DEF Raise, Goto, TaskOnly, Box!Raise
    <2>2. \E p \in Plates : g_carplate_str' = Box!Whole(p)
      BY <2>1 DEF MailInv
    <2>3. QED BY <2>1, <2>2 DEF MailInv, Box!Whole
  <1>5. QED BY <1>1, <1>2, <1>3, <1>4

\* Steps that leave the task out of a store and the mailbox alone.
LEMMA MailKept ==
  ASSUME MailInv, UNCHANGED <<plate, mailbox>>,
         task' = task \/ {task, task'} \subseteq {"loop", "lock", "send"}
  PROVE  MailInv'
  BY DEF MailInv, mailbox, Box!Whole

LEMMA MailWindow ==
  ASSUME MailInv, Look \/ ShowPlate
  PROVE  MailInv'
  <1>1. UNCHANGED <<task, plate, g_carplate_str, hurried>>
    BY DEF Look, ShowPlate, Box!Look, Box!Show, Box!Lower, mailbox
  <1>2. g_carplate_update' \/ window' # "idle" => g_carplate_update \/ window # "idle"
    BY DEF Look, ShowPlate, Box!Look, Box!Show, Box!Lower, mailbox
  <1>3. QED BY <1>1, <1>2 DEF MailInv, Box!Whole

LEMMA NextMail == MailInv /\ [Next]_vars => MailInv'
  <1> SUFFICES ASSUME MailInv, [Next]_vars PROVE MailInv'
    OBVIOUS
  <1>1. CASE MonitorStep
    <2>1. CASE Handle \/ CopyFirst \/ CopyRest \/ Raise
      BY <2>1, MailTask
    <2>2. CASE Look \/ ShowPlate
      BY <2>2, MailWindow
    <2>3. CASE Frame
      BY <2>3, MailKept DEF Frame
    <2>4. ASSUME NEW s \in Senders, Lock(s) \/ SendUnit(s) \/ SigPipe(s) \/ Unlock(s) PROVE MailInv'
      <3>1. UNCHANGED <<plate, mailbox>>
        BY <2>4 DEF Lock, SendUnit, SigPipe, Unlock
      <3>2. task' = task \/ {task, task'} \subseteq {"loop", "lock", "send"}
        BY <2>4 DEF Lock, SendUnit, SigPipe, Unlock, Move, At, Senders
      <3>3. QED BY <3>1, <3>2, MailKept
    <2>5. QED BY <1>1, <2>1, <2>2, <2>3, <2>4 DEF MonitorStep
  <1>2. CASE Request \/ Receive \/ Disconnect \/ Exit
    BY <1>2, MailKept DEF Request, Heartbeat, Recognise, LockUp, SendUp, Receive, Disconnect, Exit,
                          monitor
  <1>3. CASE UNCHANGED vars
    BY <1>3, MailKept DEF vars, monitor
  <1>4. QED BY <1>1, <1>2, <1>3 DEF Next, Request

\* window_display of the monitor: it is about to show half a plate only if
\* server_0x10_carplate began to store it with the plate before it not shown.
THEOREM MonitorShowsWholePlates == Spec => []Box!ShowsWhole
  <1>1. Init => MailInv
    BY DEF Init, MailInv, Box!Init
  <1>2. MailInv => Box!ShowsWhole
    <2> SUFFICES ASSUME MailInv, window = "show", ~hurried
                 PROVE  \E p \in {g_carplate_str[1]} \ {Blank} : g_carplate_str = Box!Whole(p)
      BY DEF Box!ShowsWhole
    <2>1. PICK p \in Plates : g_carplate_str = Box!Whole(p)
      BY DEF MailInv
    <2>2. g_carplate_str[1] = p /\ p # Blank
      BY <2>1, PlatesAssumption DEF Box!Whole
    <2>3. QED BY <2>1, <2>2
  <1>3. QED BY <1>1, <1>2, NextMail, PTL DEF Spec
=============================================================================
