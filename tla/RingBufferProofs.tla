-------------------------- MODULE RingBufferProofs --------------------------
(* The ring, for every size, every set of byte strings and every set of    *)
(* requests: its indices agree; it implements the byte queue; and what the *)
(* queue never holds, a byte nobody wrote, it never hands out.             *)
EXTENDS RingBuffer, SequenceTheorems, TLAPS

\* The only two uses of % in the ring: an index that moved up to the end of
\* the array, or short of it.
LEMMA ModAtEnd ==
  ASSUME NEW s \in Nat \ {0}, NEW a \in 0..s
  PROVE  a % s = IF a = s THEN 0 ELSE a
  BY SMT

\* A copy out of the array is a byte string, of the length asked for.
LEMMA CopyOutType ==
  ASSUME NEW S, NEW at \in Nat, NEW n \in Nat,
         \A i \in at..(at + n - 1) : buf[i] \in S
  PROVE  CopyOut(at, n) \in Seq(S) /\ Len(CopyOut(at, n)) = n
  <1>1. CopyOut(at, n) \in [1..n -> S]
    BY DEF CopyOut
  <1>2. QED BY <1>1

\* A copy into the array leaves it an array of bytes.
LEMMA CopyInType ==
  ASSUME NEW S, NEW m \in Int, NEW b \in [0..(m - 1) -> S],
         NEW data \in Seq(S), NEW at \in Nat, NEW from \in Nat, NEW n \in Nat,
         from + n <= Len(data)
  PROVE  CopyIn(b, at, data, from, n) \in [0..(m - 1) -> S]
  <1> SUFFICES ASSUME NEW i \in 0..(m - 1), i >= at, i < at + n
               PROVE  data[from + i - at + 1] \in S
    BY DEF CopyIn
  <1>1. from + i - at + 1 \in 1..Len(data)
    OBVIOUS
  <1>2. QED BY <1>1

\* The invariant: what is proved is inductive as it stands.
Ring == TypeOK /\ IndicesAgree

\* The zeroed struct.
LEMMA RingInit == Init => Ring
  <1> USE SizeAssumption
  <1> SUFFICES ASSUME Init PROVE Ring
    OBVIOUS
  <1>1. buf \in [0..(size - 1) -> Byte \cup {Junk}]
    BY DEF Init, NoArray
  <1>2. got \in Seq(Byte \cup {Junk})
    BY DEF Init
  <1>3. QED BY <1>1, <1>2 DEF Init, Ring, TypeOK, IndicesAgree

\* Every call, on every branch it takes.
LEMMA RingNext == Ring /\ [Next]_vars => Ring'
  <1> USE SizeAssumption, DataAssumption, RequestsAssumption
  <1> SUFFICES ASSUME Ring, [Next]_vars PROVE Ring'
    OBVIOUS
  <1>a. TypeOK /\ IndicesAgree
    BY DEF Ring
  <1>e. <<>> \in Seq(Byte \cup {Junk})
    OBVIOUS
  <1>i. /\ size \in {0, Size} /\ head \in Nat /\ tail \in Nat /\ len \in Nat
        /\ IndicesAgree
    BY <1>a DEF TypeOK
  <1>1. ASSUME NEW data \in Data, Write(data) PROVE Ring'
    <2>1. data \in Seq(Byte \cup {Junk}) /\ Len(data) \in Nat
      OBVIOUS
    <2>2. CASE WriteNothing(data)
      BY <1>a, <1>e, <2>2 DEF WriteNothing, Ring, TypeOK, IndicesAgree
    <2>3. CASE WriteToEnd(data)
      <3> DEFINE n == Len(data)
      <3>1. size = Size /\ head + n \in 0..size
        BY <1>i, <2>1, <2>3 DEF WriteToEnd, IndicesAgree
      <3>2. (head + n) % size = IF head + n = size THEN 0 ELSE head + n
        BY <3>1, ModAtEnd
      <3>3. buf' \in [0..(size - 1) -> Byte \cup {Junk}]
        BY <1>a, <2>1, <2>3, CopyInType DEF WriteToEnd, TypeOK
      <3>4. /\ head' = (IF head + n = size THEN 0 ELSE head + n)
            /\ tail' = tail /\ size' = size /\ len' = len + n /\ ret' = n
            /\ got' = <<>> /\ head >= tail /\ len # size /\ n > 0
        BY <2>3, <3>2 DEF WriteToEnd, Stored
      <3> HIDE DEF n
      <3>5. n \in Nat
        BY <2>1 DEF n
      <3>6. IndicesAgree'
        BY <1>i, <3>1, <3>4, <3>5 DEF IndicesAgree
      <3>7. TypeOK'
        BY <1>a, <1>e, <3>1, <3>3, <3>4, <3>5 DEF TypeOK
      <3>8. QED BY <3>6, <3>7 DEF Ring
    <2>4. CASE WriteAround(data)
      <3> DEFINE n == Len(data)
                 first == size - head
                 second == Smaller(n - first, tail)
                 b == CopyIn(buf, head, data, 0, first)
      <3>1. /\ size = Size /\ first \in Nat /\ second \in Nat
            /\ first + second <= n /\ second <= tail /\ first > 0
        BY <1>i, <2>1, <2>4 DEF WriteAround, IndicesAgree, Smaller
      <3>2. b \in [0..(size - 1) -> Byte \cup {Junk}]
        BY <1>a, <2>1, <3>1, CopyInType DEF TypeOK
      <3>3. buf' \in [0..(size - 1) -> Byte \cup {Junk}]
        <4>1. CopyIn(b, 0, data, first, second) \in [0..(size - 1) -> Byte \cup {Junk}]
          BY <1>a, <2>1, <3>1, <3>2, CopyInType DEF TypeOK
        <4>2. QED BY <2>4, <4>1 DEF WriteAround
      <3>4. /\ head' = second /\ tail' = tail /\ size' = size
            /\ len' = len + (first + second) /\ ret' = first + second /\ got' = <<>>
            /\ head >= tail /\ len # size
        BY <2>4 DEF WriteAround, Stored
      <3> HIDE DEF b, second
      <3>5. IndicesAgree'
        BY <1>i, <3>1, <3>4 DEF IndicesAgree
      <3>6. TypeOK'
        BY <1>a, <1>e, <3>1, <3>3, <3>4 DEF TypeOK
      <3>7. QED BY <3>5, <3>6 DEF Ring
    <2>5. CASE WriteGap(data)
      <3> DEFINE n == Len(data)
                 put == IF n <= tail - head - 1 THEN n ELSE tail - head
      <3>1. put \in Nat /\ put <= n /\ put <= tail - head
        BY <1>i, <2>1, <2>5 DEF WriteGap, IndicesAgree
      <3>2. buf' \in [0..(size - 1) -> Byte \cup {Junk}]
        <4>a. /\ buf \in [0..(size - 1) -> Byte \cup {Junk}]
              /\ size \in Int /\ head \in Nat /\ 0 \in Nat
          BY <1>a DEF TypeOK
        <4>b. data \in Seq(Byte \cup {Junk}) /\ put \in Nat /\ 0 + put <= Len(data)
          BY <2>1, <3>1
        <4>1. CopyIn(buf, head, data, 0, put) \in [0..(size - 1) -> Byte \cup {Junk}]
          <5> HIDE DEF put
          <5>1. QED BY ONLY <4>a, <4>b, CopyInType
        <4>2. QED BY <2>5, <4>1 DEF WriteGap
      <3>3. /\ head' = head + put /\ tail' = tail /\ size' = size
            /\ len' = len + put /\ ret' = put /\ got' = <<>> /\ head < tail
        BY <2>5 DEF WriteGap, Stored
      <3> HIDE DEF put
      <3>4. IndicesAgree'
        BY <1>i, <3>1, <3>3 DEF IndicesAgree
      <3>5. TypeOK'
        BY <1>a, <1>e, <3>1, <3>2, <3>3 DEF TypeOK
      <3>6. QED BY <3>4, <3>5 DEF Ring
    <2>6. QED BY <1>1, <2>2, <2>3, <2>4, <2>5 DEF Write
  <1>2. ASSUME NEW n \in Requests, Read(n) PROVE Ring'
    <2>1. n \in Nat
      OBVIOUS
    <2>2. CASE ReadNothing
      BY <1>a, <1>e, <2>2 DEF ReadNothing, Ring, TypeOK, IndicesAgree
    <2>3. CASE ReadUpToHead(n)
      <3> DEFINE take == Smaller(n, head - tail)
      <3>1. take \in Nat /\ take <= head - tail /\ size = Size
        BY <1>i, <2>1, <2>3 DEF ReadUpToHead, IndicesAgree, Smaller
      <3>2. got' \in Seq(Byte \cup {Junk})
        BY <1>a, <2>3, <3>1, CopyOutType DEF ReadUpToHead, TypeOK, IndicesAgree
      <3>3. /\ tail' = tail + take /\ len' = len - take /\ ret' = take
            /\ head > tail /\ UNCHANGED <<buf, size, head>>
        BY <2>3 DEF ReadUpToHead, Removed
      <3> HIDE DEF take
      <3>4. QED BY <1>a, <3>1, <3>2, <3>3 DEF Ring, TypeOK, IndicesAgree
    <2>4. CASE ReadToEnd(n)
      <3>1. size = Size /\ tail + n \in 0..size
        BY <1>i, <2>1, <2>4 DEF ReadToEnd, IndicesAgree
      <3>2. (tail + n) % size = IF tail + n = size THEN 0 ELSE tail + n
        BY <3>1, ModAtEnd
      <3>3. got' \in Seq(Byte \cup {Junk})
        BY <1>a, <2>1, <2>4, <3>1, CopyOutType DEF ReadToEnd, TypeOK, IndicesAgree
      <3>4. /\ tail' = (IF tail + n = size THEN 0 ELSE tail + n)
            /\ len' = len - n /\ ret' = n /\ head <= tail /\ len # 0
            /\ UNCHANGED <<buf, size, head>>
        BY <2>4, <3>2 DEF ReadToEnd, Removed
      <3>5. IndicesAgree' /\ len' \in Nat
        BY <1>i, <2>1, <3>1, <3>4 DEF IndicesAgree
      <3>6. TypeOK'
        BY <1>a, <2>1, <3>1, <3>3, <3>4, <3>5 DEF TypeOK
      <3>7. QED BY <3>5, <3>6 DEF Ring
    <2>5. CASE ReadAround(n)
      <3> DEFINE first == size - tail
                 second == Smaller(n - first, head)
      <3>1. /\ size = Size /\ first \in Nat /\ second \in Nat
            /\ second <= head /\ head <= tail
        BY <1>i, <2>1, <2>5 DEF ReadAround, IndicesAgree, Smaller
      <3>2. /\ CopyOut(tail, first) \in Seq(Byte \cup {Junk})
            /\ CopyOut(0, second) \in Seq(Byte \cup {Junk})
        BY <1>a, <3>1, CopyOutType DEF TypeOK, IndicesAgree
      <3>3. got' \in Seq(Byte \cup {Junk})
        <4>1. got' = CopyOut(tail, first) \o CopyOut(0, second)
          BY <2>5 DEF ReadAround
        <4>2. QED BY <3>2, <4>1, ConcatProperties
      <3>4. /\ tail' = second /\ len' = len - (first + second)
            /\ ret' = first + second /\ len # 0 /\ UNCHANGED <<buf, size, head>>
        BY <2>5 DEF ReadAround, Removed
      <3> HIDE DEF second
      <3>5. IndicesAgree' /\ len' \in Nat
        BY <1>i, <3>1, <3>4 DEF IndicesAgree
      <3>6. TypeOK'
        BY <1>a, <3>1, <3>3, <3>4, <3>5 DEF TypeOK
      <3>7. QED BY <3>5, <3>6 DEF Ring
    <2>6. QED BY <1>2, <2>2, <2>3, <2>4, <2>5 DEF Read
  <1>3. CASE InitRing
    BY <1>a, <1>e, <1>3 DEF InitRing, Zeroed, NoArray, Ring, TypeOK, IndicesAgree
  <1>4. CASE Reset
    BY <1>a, <1>e, <1>4 DEF Reset, Zeroed, Ring, TypeOK, IndicesAgree
  <1>5. CASE Deinit
    BY <1>a, <1>5 DEF Deinit, Zeroed, NoArray, Ring, TypeOK, IndicesAgree
  <1>6. CASE Query
    <2>1. ret' \in Int
      BY <1>a, <1>6 DEF Query, Empty, Full, Space, TypeOK
    <2>2. QED
      BY <1>a, <1>e, <1>6, <2>1 DEF Query, Ring, TypeOK, IndicesAgree
  <1>7. CASE UNCHANGED vars
    BY <1>a, <1>7 DEF vars, Ring, TypeOK, IndicesAgree
  <1>8. QED BY <1>1, <1>2, <1>3, <1>4, <1>5, <1>6, <1>7 DEF Next

\* The struct always has its types and its indices always agree: no sequence
\* of calls takes head, tail or len out of step, for any size and any data.
THEOREM RingConsistent == Spec => [](TypeOK /\ IndicesAgree)
  <1>1. Ring => TypeOK /\ IndicesAgree
    BY DEF Ring
  <1>2. QED BY RingInit, RingNext, <1>1, PTL DEF Spec

\* The same for the types alone: no field of the struct ever goes below 0,
\* and the array keeps the bounds ringbuf_init gave it.
COROLLARY RingTypes == Spec => []TypeOK
  <1>1. TypeOK /\ IndicesAgree => TypeOK
    OBVIOUS
  <1>2. QED BY RingConsistent, <1>1, PTL
-----------------------------------------------------------------------------
(* The ring implements the byte queue *)

\* What a cell of the array may hold.
Cell == Byte \cup {Junk}

\* The cell of the i-th byte held, in an array of s cells read from t on.
At(s, t, i) == IF t + i - 1 < s THEN t + i - 1 ELSE t + i - 1 - s

\* Contents, as a function of the fields.
Cells(b, s, t, l) == [i \in 1..l |-> b[At(s, t, i)]]

\* Array c holds what b held in its first l cells ...
Kept(c, b, s, t, l) == \A i \in 1..l : c[At(s, t, i)] = b[At(s, t, i)]

\* ... and the first m bytes of data behind them.
Added(c, s, t, l, data, m) == \A i \in 1..m : c[At(s, t, l + i)] = data[i]

\* String g is the first m bytes held.
Delivered(g, b, s, t, m) == \A i \in 1..m : g[i] = b[At(s, t, i)]

\* Reading from u on leaves out the first m of the l bytes held.
Advanced(s, t, u, l, m) == \A i \in 1..(l - m) : At(s, u, i) = At(s, t, m + i)

\* The contents of a well-formed ring are a string of l bytes.
LEMMA CellsType ==
  ASSUME NEW s \in Nat, NEW b \in [0..(s - 1) -> Cell], NEW t \in Nat,
         NEW l \in Nat, l <= s, l > 0 => t < s
  PROVE  /\ Cells(b, s, t, l) \in Seq(Cell)
         /\ Len(Cells(b, s, t, l)) = l
         /\ \A i \in 1..l : Cells(b, s, t, l)[i] = b[At(s, t, i)]
  <1>1. ASSUME NEW i \in 1..l PROVE At(s, t, i) \in 0..(s - 1)
    BY DEF At
  <1>2. \A i \in 1..l : b[At(s, t, i)] \in Cell
    BY <1>1
  <1>3. Cells(b, s, t, l) \in [1..l -> Cell]
    BY <1>2 DEF Cells
  <1>4. QED BY <1>3 DEF Cells

\* Array c is array b after m more bytes, the first of data, made its l bytes k.
Wrote(b, c, s, t, l, k, m, data) ==
  /\ s \in Nat /\ t \in Nat /\ l \in Nat /\ k \in Nat /\ m \in Nat
  /\ b \in [0..(s - 1) -> Cell] /\ c \in [0..(s - 1) -> Cell] /\ data \in Seq(Cell)
  /\ k = l + m /\ k <= s /\ (k > 0 => t < s) /\ m <= Len(data)
  /\ Kept(c, b, s, t, l)
  /\ Added(c, s, t, l, data, m)

\* Writing m bytes behind the l bytes held appends them to the contents.
LEMMA CellsPut ==
  ASSUME NEW b, NEW c, NEW s, NEW t, NEW l, NEW k, NEW m, NEW data,
         Wrote(b, c, s, t, l, k, m, data)
  PROVE  Cells(c, s, t, k) = Cells(b, s, t, l) \o SubSeq(data, 1, m)
  <1> /\ s \in Nat /\ t \in Nat /\ l \in Nat /\ k \in Nat /\ m \in Nat
      /\ b \in [0..(s - 1) -> Cell] /\ c \in [0..(s - 1) -> Cell] /\ data \in Seq(Cell)
      /\ k <= l + m /\ k >= l + m /\ k <= s /\ (k > 0 => t < s) /\ m <= Len(data)
      /\ Kept(c, b, s, t, l) /\ Added(c, s, t, l, data, m)
    BY DEF Wrote
  <1> DEFINE old == Cells(b, s, t, l)
             new == Cells(c, s, t, k)
             put == SubSeq(data, 1, m)
  <1>0. l <= s /\ (l > 0 => t < s)
    OBVIOUS
  <1>1. /\ old \in Seq(Cell) /\ Len(old) = l
        /\ \A i \in 1..l : old[i] = b[At(s, t, i)]
    <2>1. /\ s \in Nat /\ b \in [0..(s - 1) -> Cell] /\ t \in Nat /\ l \in Nat
          /\ l <= s /\ (l > 0 => t < s)
      BY <1>0
    <2>2. QED BY ONLY <2>1, CellsType
  <1>2. /\ new \in Seq(Cell) /\ Len(new) = k
        /\ \A i \in 1..k : new[i] = c[At(s, t, i)]
    <2>1. /\ s \in Nat /\ c \in [0..(s - 1) -> Cell] /\ t \in Nat /\ k \in Nat
          /\ k <= s /\ (k > 0 => t < s)
      OBVIOUS
    <2>2. QED BY ONLY <2>1, CellsType
  <1>3. put \in Seq(Cell) /\ Len(put) = m /\ \A i \in 1..m : put[i] = data[i]
    <2>1. \A i \in 1..m : data[i] \in Cell
      OBVIOUS
    <2>2. /\ SubSeq(data, 1, m) \in Seq(Cell)
          /\ Len(SubSeq(data, 1, m)) = IF 1 <= m THEN m - 1 + 1 ELSE 0
          /\ \A i \in 1..(m - 1 + 1) : SubSeq(data, 1, m)[i] = data[1 + i - 1]
      BY <2>1, SubSeqProperties
    <2>3. ASSUME NEW i \in 1..m PROVE SubSeq(data, 1, m)[i] = data[i]
      <3>1. i \in 1..(m - 1 + 1) /\ 1 + i - 1 = i
        OBVIOUS
      <3>2. QED BY <2>2, <3>1
    <2>4. QED BY <2>2, <2>3
  <1> DEFINE cat == old \o put
  <1> HIDE DEF old, new, put
  <1>4. /\ cat \in Seq(Cell) /\ Len(cat) = k
        /\ \A i \in 1..l : cat[i] = old[i]
        /\ \A i \in 1..m : cat[l + i] = put[i]
    <2>1. /\ cat \in Seq(Cell) /\ Len(cat) = Len(old) + Len(put)
          /\ \A i \in 1..(Len(old) + Len(put)) :
               cat[i] = IF i <= Len(old) THEN old[i] ELSE put[i - Len(old)]
      BY <1>1, <1>3, ConcatProperties
    <2> HIDE DEF cat
    <2>0. Len(old) = l /\ Len(put) = m /\ Len(old) + Len(put) = k
      BY <1>1, <1>3
    <2>2. \A i \in 1..k : cat[i] = IF i <= l THEN old[i] ELSE put[i - l]
      BY <2>0, <2>1
    <2>3. ASSUME NEW i \in 1..l PROVE cat[i] = old[i]
      BY <2>2
    <2>4. ASSUME NEW i \in 1..m PROVE cat[l + i] = put[i]
      <3>1. l + i \in 1..k /\ ~(l + i <= l) /\ (l + i) - l = i
        OBVIOUS
      <3>2. QED BY <2>2, <3>1
    <2>5. QED BY <2>0, <2>1, <2>3, <2>4
  <1> HIDE DEF cat
  <1>5. ASSUME NEW i \in 1..k PROVE new[i] = cat[i]
    <2>1. new[i] = c[At(s, t, i)]
      BY <1>2
    <2>2. CASE i <= l
      <3>1. i \in 1..l
        BY <2>2
      <3>2. QED BY <1>1, <1>4, <2>1, <3>1 DEF Kept
    <2>3. CASE i > l
      <3>1. PICK j \in 1..m : i = l + j
        BY <2>3
      <3>2. QED BY <1>3, <1>4, <2>1, <3>1 DEF Added
    <2>4. QED BY <2>2, <2>3
  <1>6. new = cat
    BY <1>2, <1>4, <1>5, SeqEqual
  <1>7. QED BY <1>6 DEF new, old, put, cat

\* Reading from u on instead of t leaves k of the l bytes, all but the first m.
Left(b, s, t, u, l, k, m) ==
  /\ s \in Nat /\ t \in Nat /\ u \in Nat /\ l \in Nat /\ k \in Nat /\ m \in 0..l
  /\ b \in [0..(s - 1) -> Cell]
  /\ k = l - m /\ l <= s /\ (l > 0 => t < s /\ u < s)
  /\ Advanced(s, t, u, l, m)

\* Moving the first cell m bytes on removes m bytes from the front.
LEMMA CellsGet ==
  ASSUME NEW b, NEW s, NEW t, NEW u, NEW l, NEW k, NEW m, Left(b, s, t, u, l, k, m)
  PROVE  Cells(b, s, u, k) = SubSeq(Cells(b, s, t, l), m + 1, l)
  <1> /\ s \in Nat /\ t \in Nat /\ u \in Nat /\ l \in Nat /\ k \in Nat /\ m \in 0..l
      /\ b \in [0..(s - 1) -> Cell]
      /\ k <= l - m /\ k >= l - m /\ l <= s /\ (l > 0 => t < s) /\ (l > 0 => u < s)
      /\ Advanced(s, t, u, l, m)
    BY DEF Left
  <1> DEFINE old == Cells(b, s, t, l)
             new == Cells(b, s, u, k)
             rest == SubSeq(old, m + 1, l)
  <1>0. k <= s /\ (k > 0 => u < s)
    OBVIOUS
  <1>1. /\ old \in Seq(Cell) /\ Len(old) = l
        /\ \A i \in 1..l : old[i] = b[At(s, t, i)]
    <2>1. /\ s \in Nat /\ b \in [0..(s - 1) -> Cell] /\ t \in Nat /\ l \in Nat
          /\ l <= s /\ (l > 0 => t < s)
      OBVIOUS
    <2>2. QED BY ONLY <2>1, CellsType
  <1>2. /\ new \in Seq(Cell) /\ Len(new) = k
        /\ \A i \in 1..k : new[i] = b[At(s, u, i)]
    <2>1. /\ s \in Nat /\ b \in [0..(s - 1) -> Cell] /\ u \in Nat /\ k \in Nat
          /\ k <= s /\ (k > 0 => u < s)
      BY <1>0
    <2>2. QED BY ONLY <2>1, CellsType
  <1> HIDE DEF old, new
  <1>3. /\ rest \in Seq(Cell) /\ Len(rest) = k
        /\ \A i \in 1..k : rest[i] = old[m + i]
    <2>1. \A i \in (m + 1)..l : old[i] \in Cell
      BY <1>1
    <2>2. /\ SubSeq(old, m + 1, l) \in Seq(Cell)
          /\ Len(SubSeq(old, m + 1, l)) = IF m + 1 <= l THEN l - (m + 1) + 1 ELSE 0
          /\ \A i \in 1..(l - (m + 1) + 1) : SubSeq(old, m + 1, l)[i] = old[(m + 1) + i - 1]
      BY <2>1, SubSeqProperties, SMTT(20)
    <2>3. ASSUME NEW i \in 1..k PROVE SubSeq(old, m + 1, l)[i] = old[m + i]
      <3>1. i \in 1..(l - (m + 1) + 1) /\ (m + 1) + i - 1 = m + i
        OBVIOUS
      <3>2. QED BY <2>2, <3>1
    <2>4. QED BY <2>2, <2>3
  <1> HIDE DEF rest
  <1>4. ASSUME NEW i \in 1..k PROVE new[i] = rest[i]
    <2>1. new[i] = b[At(s, t, m + i)]
      BY <1>2 DEF Advanced
    <2>2. m + i \in 1..l
      OBVIOUS
    <2>3. QED BY <1>1, <1>3, <2>1, <2>2
  <1>5. new = rest
    BY <1>2, <1>3, <1>4, SeqEqual
  <1>6. QED BY <1>5 DEF new, rest, old

\* The first m bytes held, copied out.
LEMMA CellsFront ==
  ASSUME NEW s \in Nat, NEW b \in [0..(s - 1) -> Cell], NEW t \in Nat,
         NEW l \in Nat, NEW m \in 0..l, l <= s, l > 0 => t < s,
         NEW g \in Seq(Cell), Len(g) = m, Delivered(g, b, s, t, m)
  PROVE  g = SubSeq(Cells(b, s, t, l), 1, m)
  <1> DEFINE old == Cells(b, s, t, l)
             front == SubSeq(old, 1, m)
  <1>1. /\ old \in Seq(Cell) /\ Len(old) = l
        /\ \A i \in 1..l : old[i] = b[At(s, t, i)]
    BY CellsType
  <1> HIDE DEF old
  <1>2. front \in Seq(Cell) /\ Len(front) = m /\ \A i \in 1..m : front[i] = old[i]
    <2>1. \A i \in 1..m : old[i] \in Cell
      BY <1>1
    <2>2. /\ SubSeq(old, 1, m) \in Seq(Cell)
          /\ Len(SubSeq(old, 1, m)) = IF 1 <= m THEN m - 1 + 1 ELSE 0
          /\ \A i \in 1..(m - 1 + 1) : SubSeq(old, 1, m)[i] = old[1 + i - 1]
      BY <2>1, SubSeqProperties
    <2>3. ASSUME NEW i \in 1..m PROVE SubSeq(old, 1, m)[i] = old[i]
      <3>1. i \in 1..(m - 1 + 1) /\ 1 + i - 1 = i
        OBVIOUS
      <3>2. QED BY <2>2, <3>1
    <2>4. QED BY <2>2, <2>3
  <1> HIDE DEF front
  <1>3. \A i \in 1..m : g[i] = front[i]
    BY <1>1, <1>2 DEF Delivered
  <1>4. g = front
    BY <1>2, <1>3, SeqEqual
  <1>5. QED BY <1>4 DEF front, old
-----------------------------------------------------------------------------
(* A well-formed ring, and its contents.                                    *)
Fields ==
  /\ size \in Nat /\ size \in {0, Size} /\ head \in Nat /\ tail \in Nat
  /\ len \in Nat /\ len <= size /\ (len > 0 => tail < size)
  /\ size > 0 => head < size /\ tail < size
  /\ head > tail => len = head - tail
  /\ head < tail => len = size - tail + head
  /\ head = tail => len \in {0, size}
  /\ buf \in [0..(size - 1) -> Cell]
  /\ got \in Seq(Cell)

\* Contents are the cells from tail on.
HeldInCells == Contents = Cells(buf, size, tail, len)

LEMMA RingFields == Ring => Fields
  BY SizeAssumption DEF Fields, Ring, TypeOK, IndicesAgree, Cell

LEMMA RingHeld == Ring => HeldInCells
  <1> SUFFICES ASSUME Ring, NEW i \in 1..len PROVE buf[Slot(i - 1)] = buf[At(size, tail, i)]
    BY DEF HeldInCells, Contents, Cells
  <1>1. Slot(i - 1) = At(size, tail, i)
    BY RingFields DEF Fields, Slot, At
  <1>2. QED BY <1>1

LEMMA RingNextFields == Ring' => Fields' /\ HeldInCells'
  BY RingFields, RingHeld, PTL

LEMMA ContentsType == Ring => Contents \in Seq(Cell) /\ Len(Contents) = len
  <1> SUFFICES ASSUME Ring PROVE Contents \in Seq(Cell) /\ Len(Contents) = len
    OBVIOUS
  <1>1. Contents = Cells(buf, size, tail, len)
    BY RingHeld DEF HeldInCells
  <1>2. /\ size \in Nat /\ tail \in Nat /\ len \in Nat /\ len <= size
        /\ (len > 0 => tail < size) /\ buf \in [0..(size - 1) -> Cell]
    BY RingFields DEF Fields
  <1>3. QED BY <1>1, <1>2, CellsType
-----------------------------------------------------------------------------
(* One write, one read                                                      *)

\* What every branch of ringbuf_write that stores something has to do.
LEMMA PutStep ==
  ASSUME Ring, Ring', NEW data \in Seq(Cell), NEW m \in Nat,
         m = Smaller(Len(data), size - len), Stored(m),
         Kept(buf', buf, size, tail, len), Added(buf', size, tail, len, data, m)
  PROVE  BQ!Put(data)
  <1>1. Contents = Cells(buf, size, tail, len)
    BY RingHeld DEF HeldInCells
  <1>2. Contents' = Cells(buf', size, tail, len')
    BY RingNextFields DEF HeldInCells, Stored
  <1>3. /\ size \in Nat /\ tail \in Nat /\ len \in Nat
        /\ buf \in [0..(size - 1) -> Cell] /\ m <= Len(data)
    BY RingFields DEF Fields, Smaller
  <1>4. /\ buf' \in [0..(size - 1) -> Cell] /\ len' \in Nat /\ len' <= size
        /\ (len' > 0 => tail < size) /\ len' = len + m
    BY <1>3, RingNextFields DEF Fields, Stored
  <1>5. Contents' = Contents \o SubSeq(data, 1, m)
    <2>1. Cells(buf', size, tail, len') = Cells(buf, size, tail, len) \o SubSeq(data, 1, m)
      <3>1. Wrote(buf, buf', size, tail, len, len', m, data)
        BY <1>3, <1>4 DEF Wrote
      <3>2. QED BY <3>1, CellsPut
    <2>2. QED BY <1>1, <1>2, <2>1
  <1>6. m = BQ!Smaller(Len(data), size - Len(Contents))
    BY ContentsType DEF BQ!Smaller, Smaller
  <1>7. QED BY <1>5, <1>6 DEF BQ!Put, Stored

\* What every branch of ringbuf_read has to do.
LEMMA GetStep ==
  ASSUME Ring, Ring', NEW n \in Nat, NEW m \in Nat, m = Smaller(n, len), Removed(m),
         Len(got') = m, Delivered(got', buf, size, tail, m),
         Advanced(size, tail, tail', len, m)
  PROVE  BQ!Get(n)
  <1>1. Contents = Cells(buf, size, tail, len)
    BY RingHeld DEF HeldInCells
  <1>2. Contents' = Cells(buf, size, tail', len')
    BY RingNextFields DEF HeldInCells, Removed
  <1>3. /\ size \in Nat /\ tail \in Nat /\ len \in Nat /\ len <= size
        /\ (len > 0 => tail < size) /\ buf \in [0..(size - 1) -> Cell]
    BY RingFields DEF Fields
  <1>4. m \in 0..len
    BY <1>3 DEF Smaller
  <1>5. /\ tail' \in Nat /\ len' \in Nat /\ got' \in Seq(Cell)
        /\ (len > 0 => tail' < size) /\ len' = len - m
    BY <1>3, <1>4, RingNextFields DEF Fields, Removed
  <1>6. Contents' = SubSeq(Contents, m + 1, len)
    <2>1. Cells(buf, size, tail', len') = SubSeq(Cells(buf, size, tail, len), m + 1, len)
      <3>1. Left(buf, size, tail, tail', len, len', m)
        BY <1>3, <1>4, <1>5 DEF Left
      <3>2. QED BY <3>1, CellsGet
    <2>2. QED BY <1>1, <1>2, <2>1
  <1>7. got' = SubSeq(Contents, 1, m)
    <2>1. got' = SubSeq(Cells(buf, size, tail, len), 1, m)
      <3>1. /\ got' \in Seq(Cell) /\ Len(got') = m
            /\ Delivered(got', buf, size, tail, m)
        BY <1>5
      <3>2. QED BY ONLY <1>3, <1>4, <3>1, CellsFront
    <2>2. QED BY <1>1, <2>1
  <1>8. Len(Contents) = len
    BY ContentsType
  <1>9. m = BQ!Smaller(n, Len(Contents))
    BY <1>8 DEF BQ!Smaller, Smaller
  <1>10. QED BY <1>6, <1>7, <1>8, <1>9 DEF BQ!Get, Removed

\* memcpy, cell by cell.
LEMMA CopyInCells ==
  ASSUME NEW s \in Nat, NEW b \in [0..(s - 1) -> Cell], NEW at, NEW data,
         NEW from, NEW n, NEW i \in 0..(s - 1)
  PROVE  CopyIn(b, at, data, from, n)[i]
           = IF i >= at /\ i < at + n THEN data[from + i - at + 1] ELSE b[i]
  BY DEF CopyIn

LEMMA CopyOutCells ==
  ASSUME NEW at \in Nat, NEW n \in Nat, NEW i \in 1..n
  PROVE  CopyOut(at, n)[i] = buf[at + i - 1]
  BY DEF CopyOut

LEMMA CopyOutLen ==
  ASSUME NEW at \in Nat, NEW n \in Nat, Ring, at + n <= size
  PROVE  CopyOut(at, n) \in Seq(Cell) /\ Len(CopyOut(at, n)) = n
  <1>1. \A i \in at..(at + n - 1) : buf[i] \in Cell
    BY RingFields, SMTT(20) DEF Fields
  <1>2. QED BY <1>1, CopyOutType
-----------------------------------------------------------------------------
(* The branches of ringbuf_write                                            *)
LEMMA WriteNothingPuts ==
  ASSUME Ring, Ring', NEW data \in Seq(Cell), WriteNothing(data)
  PROVE  BQ!Put(data)
  <1>1. size \in Nat /\ len \in Nat /\ len <= size
    BY RingFields DEF Fields
  <1>2. 0 = Smaller(Len(data), size - len)
    BY <1>1 DEF WriteNothing, Smaller
  <1>3. Stored(0)
    BY <1>1 DEF WriteNothing, Stored
  <1>4. Kept(buf', buf, size, tail, len) /\ Added(buf', size, tail, len, data, 0)
    BY DEF WriteNothing, Kept, Added
  <1>5. QED BY <1>2, <1>3, <1>4, PutStep

LEMMA WriteToEndPuts ==
  ASSUME Ring, Ring', NEW data \in Seq(Cell), WriteToEnd(data)
  PROVE  BQ!Put(data)
  <1> DEFINE m == Len(data)
  <1>1. m \in Nat /\ m > 0 /\ head >= tail /\ size - head >= m /\ len # size
    BY DEF WriteToEnd
  <1>2. Stored(m)
    BY DEF WriteToEnd
  <1>3. buf' = CopyIn(buf, head, data, 0, m)
    BY DEF WriteToEnd
  <1> HIDE DEF m
  <1>4. /\ size \in Nat /\ tail \in Nat /\ head \in Nat /\ len \in Nat
        /\ buf \in [0..(size - 1) -> Cell] /\ len = head - tail
    BY <1>1, RingFields DEF Fields
  <1>5. m = Smaller(m, size - len)
    BY <1>1, <1>4 DEF Smaller
  <1>6. ASSUME NEW i \in 1..len PROVE buf'[At(size, tail, i)] = buf[At(size, tail, i)]
    <2>1. At(size, tail, i) \in 0..(size - 1) /\ At(size, tail, i) < head
      BY <1>1, <1>4 DEF At
    <2>2. QED BY <1>1, <1>3, <1>4, <2>1, CopyInCells
  <1>7. ASSUME NEW i \in 1..m PROVE buf'[At(size, tail, len + i)] = data[i]
    <2>1. At(size, tail, len + i) = head + i - 1
      BY <1>1, <1>4 DEF At
    <2>2. /\ head + i - 1 \in 0..(size - 1)
          /\ head + i - 1 >= head /\ head + i - 1 < head + m
          /\ 0 + (head + i - 1) - head + 1 = i
      BY <1>1, <1>4
    <2>3. QED BY <1>3, <1>4, <2>1, <2>2, CopyInCells, SMTT(20)
  <1>8. Kept(buf', buf, size, tail, len) /\ Added(buf', size, tail, len, data, m)
    BY <1>6, <1>7 DEF Kept, Added
  <1>9. m = Smaller(Len(data), size - len)
    BY <1>5 DEF m
  <1>10. QED BY <1>1, <1>2, <1>8, <1>9, PutStep

LEMMA WriteAroundPuts ==
  ASSUME Ring, Ring', NEW data \in Seq(Cell), WriteAround(data)
  PROVE  BQ!Put(data)
  <1> DEFINE n == Len(data)
             first == size - head
             second == Smaller(n - first, tail)
             m == first + second
             b == CopyIn(buf, head, data, 0, first)
  <1>1. n \in Nat /\ n > 0 /\ head >= tail /\ first < n /\ len # size
    BY DEF WriteAround
  <1>2. Stored(m)
    BY DEF WriteAround
  <1>3. buf' = CopyIn(b, 0, data, first, second)
    BY DEF WriteAround
  <1>4. /\ size \in Nat /\ tail \in Nat /\ head \in Nat /\ len \in Nat
        /\ buf \in [0..(size - 1) -> Cell] /\ len = head - tail /\ head < size
    BY <1>1, RingFields DEF Fields
  <1>5. /\ first \in Nat /\ second \in Nat /\ m \in Nat /\ second <= tail
        /\ m = Smaller(n, size - len) /\ m <= n
    BY <1>1, <1>4 DEF Smaller
  <1>6. b \in [0..(size - 1) -> Cell]
    BY <1>1, <1>4, <1>5, CopyInType
  <1>7. ASSUME NEW j \in 0..(size - 1)
        PROVE  /\ b[j] = IF j >= head THEN data[j - head + 1] ELSE buf[j]
               /\ buf'[j] = IF j < second THEN data[first + j + 1] ELSE b[j]
    <2>1. b[j] = IF j >= head /\ j < head + first THEN data[0 + j - head + 1] ELSE buf[j]
      BY <1>4, CopyInCells
    <2> HIDE DEF b
    <2>2. buf'[j] = IF j >= 0 /\ j < 0 + second THEN data[first + j - 0 + 1] ELSE b[j]
      BY <1>3, <1>4, <1>6 DEF CopyIn
    <2>3. QED BY <1>4, <1>5, <2>1, <2>2
  <1> HIDE DEF b, second
  <1>8. ASSUME NEW i \in 1..len PROVE buf'[At(size, tail, i)] = buf[At(size, tail, i)]
    <2>1. /\ At(size, tail, i) \in 0..(size - 1)
          /\ At(size, tail, i) < head /\ ~(At(size, tail, i) < second)
      BY <1>1, <1>4, <1>5 DEF At
    <2>2. QED BY <1>4, <1>7, <2>1
  <1>9. ASSUME NEW i \in 1..m PROVE buf'[At(size, tail, len + i)] = data[i]
    <2>1. CASE i <= first
      <3>1. At(size, tail, len + i) = head + i - 1
        BY <1>4, <2>1 DEF At
      <3>2. /\ head + i - 1 \in 0..(size - 1) /\ head + i - 1 >= head
            /\ ~(head + i - 1 < second) /\ (head + i - 1) - head + 1 = i
        BY <1>1, <1>4, <1>5, <2>1
      <3>3. buf'[head + i - 1] = b[head + i - 1]
        BY <1>7, <3>2
      <3>4. b[head + i - 1] = data[i]
        BY <1>7, <3>2
      <3>5. QED BY <3>1, <3>3, <3>4
    <2>2. CASE i > first
      <3>1. At(size, tail, len + i) = i - 1 - first
        BY <1>4, <2>2 DEF At
      <3>2. /\ i - 1 - first \in 0..(size - 1) /\ i - 1 - first < second
            /\ first + (i - 1 - first) + 1 = i
        BY <1>1, <1>4, <1>5, <2>2
      <3>3. QED BY <1>7, <3>1, <3>2
    <2>3. QED BY <1>4, <1>5, <2>1, <2>2
  <1>10. Kept(buf', buf, size, tail, len) /\ Added(buf', size, tail, len, data, m)
    BY <1>8, <1>9 DEF Kept, Added
  <1> HIDE DEF m
  <1>11. QED BY <1>2, <1>5, <1>10, PutStep

LEMMA WriteGapPuts ==
  ASSUME Ring, Ring', NEW data \in Seq(Cell), WriteGap(data)
  PROVE  BQ!Put(data)
  <1> DEFINE n == Len(data)
             m == IF n <= tail - head - 1 THEN n ELSE tail - head
  <1>1. n \in Nat /\ n > 0 /\ head < tail /\ len # size
    BY DEF WriteGap
  <1>2. Stored(m)
    BY DEF WriteGap
  <1>3. buf' = CopyIn(buf, head, data, 0, m)
    BY DEF WriteGap
  <1>4. /\ size \in Nat /\ tail \in Nat /\ head \in Nat /\ len \in Nat /\ tail < size
        /\ buf \in [0..(size - 1) -> Cell] /\ len = size - tail + head
    BY <1>1, RingFields DEF Fields
  <1>5. m \in Nat /\ m <= tail - head /\ m = Smaller(n, size - len)
    BY <1>1, <1>4 DEF Smaller
  <1> HIDE DEF m
  <1>6. ASSUME NEW i \in 1..len PROVE buf'[At(size, tail, i)] = buf[At(size, tail, i)]
    <2>1. /\ At(size, tail, i) \in 0..(size - 1)
          /\ ~(At(size, tail, i) >= head /\ At(size, tail, i) < head + m)
      BY <1>1, <1>4, <1>5 DEF At
    <2>2. QED BY <1>3, <1>4, <2>1, CopyInCells
  <1>7. ASSUME NEW i \in 1..m PROVE buf'[At(size, tail, len + i)] = data[i]
    <2>1. At(size, tail, len + i) = head + i - 1
      BY <1>1, <1>4, <1>5 DEF At
    <2>2. /\ head + i - 1 \in 0..(size - 1)
          /\ head + i - 1 >= head /\ head + i - 1 < head + m
          /\ 0 + (head + i - 1) - head + 1 = i
      BY <1>1, <1>4, <1>5
    <2>3. QED BY <1>3, <1>4, <2>1, <2>2, CopyInCells, SMTT(20)
  <1>8. Kept(buf', buf, size, tail, len) /\ Added(buf', size, tail, len, data, m)
    BY <1>6, <1>7 DEF Kept, Added
  <1>9. QED BY <1>2, <1>5, <1>8, PutStep
-----------------------------------------------------------------------------
(* The branches of ringbuf_read                                             *)
LEMMA ReadNothingGets ==
  ASSUME Ring, Ring', NEW n \in Nat, ReadNothing
  PROVE  BQ!Get(n)
  <1>1. size \in Nat /\ tail \in Nat /\ len = 0
    BY RingFields DEF Fields, ReadNothing
  <1>2. 0 = Smaller(n, len)
    BY <1>1 DEF Smaller
  <1>3. Removed(0) /\ Len(got') = 0
    BY <1>1 DEF ReadNothing, Removed
  <1>4. Delivered(got', buf, size, tail, 0) /\ Advanced(size, tail, tail', len, 0)
    BY <1>1 DEF Delivered, Advanced
  <1>5. QED BY <1>2, <1>3, <1>4, GetStep

LEMMA ReadUpToHeadGets ==
  ASSUME Ring, Ring', NEW n \in Nat, ReadUpToHead(n)
  PROVE  BQ!Get(n)
  <1> DEFINE m == Smaller(n, head - tail)
  <1>1. head > tail /\ got' = CopyOut(tail, m) /\ tail' = tail + m /\ Removed(m)
    BY DEF ReadUpToHead
  <1>2. /\ size \in Nat /\ tail \in Nat /\ head \in Nat /\ len \in Nat
        /\ head < size /\ len = head - tail
    BY <1>1, RingFields DEF Fields
  <1>3. m \in Nat /\ m <= len /\ m = Smaller(n, len)
    BY <1>2 DEF Smaller
  <1> HIDE DEF m
  <1>4. Len(got') = m
    BY <1>1, <1>2, <1>3, CopyOutLen
  <1>5. ASSUME NEW i \in 1..m PROVE got'[i] = buf[At(size, tail, i)]
    <2>1. At(size, tail, i) = tail + i - 1
      BY <1>2, <1>3 DEF At
    <2>2. QED BY <1>1, <1>2, <1>3, <2>1, CopyOutCells
  <1>6. Advanced(size, tail, tail', len, m)
    BY <1>1, <1>2, <1>3 DEF Advanced, At
  <1>7. QED BY <1>1, <1>3, <1>4, <1>5, <1>6, GetStep DEF Delivered

LEMMA ReadToEndGets ==
  ASSUME Ring, Ring', NEW n \in Nat, ReadToEnd(n)
  PROVE  BQ!Get(n)
  <1>1. /\ len # 0 /\ head <= tail /\ size - tail >= n /\ got' = CopyOut(tail, n)
        /\ tail' = (tail + n) % size /\ Removed(n)
    BY DEF ReadToEnd
  <1>2. /\ size \in Nat \ {0} /\ tail \in Nat /\ head \in Nat /\ len \in Nat
        /\ tail < size /\ len = size - tail + head /\ len <= size
    BY <1>1, RingFields DEF Fields
  <1>3. n <= len /\ n = Smaller(n, len)
    BY <1>1, <1>2 DEF Smaller
  <1>4. tail' = IF tail + n = size THEN 0 ELSE tail + n
    <2>1. tail + n \in 0..size
      BY <1>1, <1>2
    <2>2. QED BY <1>1, <1>2, <2>1, ModAtEnd
  <1>5. Len(got') = n
    BY <1>1, <1>2, CopyOutLen
  <1>6. ASSUME NEW i \in 1..n PROVE got'[i] = buf[At(size, tail, i)]
    <2>1. At(size, tail, i) = tail + i - 1
      BY <1>1, <1>2 DEF At
    <2>2. QED BY <1>1, <1>2, <2>1 DEF CopyOut
  <1>7. Advanced(size, tail, tail', len, n)
    BY <1>1, <1>2, <1>3, <1>4 DEF Advanced, At
  <1>8. QED BY <1>1, <1>3, <1>5, <1>6, <1>7, GetStep DEF Delivered

LEMMA ReadAroundGets ==
  ASSUME Ring, Ring', NEW n \in Nat, ReadAround(n)
  PROVE  BQ!Get(n)
  <1> DEFINE first == size - tail
             second == Smaller(n - first, head)
             m == first + second
             front == CopyOut(tail, first)
             rest == CopyOut(0, second)
  <1>1. /\ len # 0 /\ head <= tail /\ first < n /\ got' = front \o rest
        /\ tail' = second /\ Removed(m)
    BY DEF ReadAround
  <1>2. /\ size \in Nat \ {0} /\ tail \in Nat /\ head \in Nat /\ len \in Nat
        /\ tail < size /\ len = size - tail + head /\ len <= size
    BY <1>1, RingFields DEF Fields
  <1>3. /\ first \in Nat /\ second \in Nat /\ second <= head /\ m \in Nat
        /\ m <= len /\ m = Smaller(n, len)
    BY <1>1, <1>2 DEF Smaller
  <1>4. /\ front \in Seq(Cell) /\ Len(front) = first
        /\ \A i \in 1..first : front[i] = buf[tail + i - 1]
    <2>1. tail + first <= size
      BY <1>2
    <2>2. front \in Seq(Cell) /\ Len(front) = first
      BY <1>2, <1>3, <2>1, CopyOutLen
    <2>3. \A i \in 1..first : front[i] = buf[tail + i - 1]
      BY DEF CopyOut
    <2>4. QED BY <2>2, <2>3
  <1>5. /\ rest \in Seq(Cell) /\ Len(rest) = second
        /\ \A i \in 1..second : rest[i] = buf[0 + i - 1]
    <2>1. 0 + second <= size
      BY <1>1, <1>2, <1>3
    <2>2. rest \in Seq(Cell) /\ Len(rest) = second
      BY <1>3, <2>1, CopyOutLen
    <2>3. \A i \in 1..second : rest[i] = buf[0 + i - 1]
      BY DEF CopyOut
    <2>4. QED BY <2>2, <2>3
  <1> HIDE DEF front, rest, second
  <1>6. /\ Len(got') = m
        /\ \A i \in 1..m : got'[i] = IF i <= first THEN front[i] ELSE rest[i - first]
    <2>1. /\ Len(front \o rest) = Len(front) + Len(rest)
          /\ \A i \in 1..(Len(front) + Len(rest)) : (front \o rest)[i] =
               IF i <= Len(front) THEN front[i] ELSE rest[i - Len(front)]
      BY <1>4, <1>5, ConcatProperties
    <2>2. QED BY <1>1, <1>4, <1>5, <2>1
  <1>7. ASSUME NEW i \in 1..m PROVE got'[i] = buf[At(size, tail, i)]
    <2>1. CASE i <= first
      <3>1. At(size, tail, i) = tail + i - 1 /\ i \in 1..first
        BY <1>2, <2>1 DEF At
      <3>2. QED BY <1>4, <1>6, <2>1, <3>1
    <2>2. CASE i > first
      <3>1. At(size, tail, i) = 0 + (i - first) - 1 /\ i - first \in 1..second
        BY <1>2, <1>3, <2>2 DEF At
      <3>2. got'[i] = rest[i - first]
        BY <1>3, <1>6, <2>2
      <3>3. QED BY <1>5, <3>1, <3>2
    <2>3. QED BY <1>2, <1>3, <2>1, <2>2
  <1>8. Advanced(size, tail, tail', len, m)
    BY <1>1, <1>2, <1>3 DEF Advanced, At
  <1>9. Delivered(got', buf, size, tail, m)
    BY <1>7 DEF Delivered
  <1> HIDE DEF m
  <1>10. QED BY <1>1, <1>3, <1>6, <1>8, <1>9, GetStep
-----------------------------------------------------------------------------
(* The other calls, and the theorems                                        *)
LEMMA EmptyContents == Ring => (len = 0 <=> Contents = <<>>)
  BY ContentsType, EmptySeq

LEMMA EmptyContentsNext == Ring' => (len' = 0 => Contents' = <<>>)
  <1> DEFINE Emptied == len = 0 => Contents = <<>>
  <1>1. Ring => Emptied
    BY EmptyContents
  <1>2. Ring' => Emptied'
    BY <1>1, PTL
  <1>3. QED BY <1>2

LEMMA CallImplementsCall == Ring /\ Ring' /\ Next => BQ!Next
  <1> SUFFICES ASSUME Ring, Ring', Next PROVE BQ!Next
    OBVIOUS
  <1> USE DEF BQ!Next
  <1>1. ASSUME NEW data \in Data, Write(data) PROVE BQ!Put(data)
    <2>1. data \in Seq(Cell)
      BY DataAssumption DEF Cell
    <2>2. QED BY <1>1, <2>1, WriteNothingPuts, WriteToEndPuts, WriteAroundPuts,
                 WriteGapPuts DEF Write
  <1>2. ASSUME NEW n \in Requests, Read(n) PROVE BQ!Get(n)
    <2>1. n \in Nat
      BY RequestsAssumption
    <2>2. QED BY <1>2, <2>1, ReadNothingGets, ReadUpToHeadGets, ReadToEndGets,
                 ReadAroundGets DEF Read
  <1>3. CASE InitRing
    BY <1>3, EmptyContentsNext DEF InitRing, Zeroed, BQ!Open
  <1>4. CASE Reset
    BY <1>4, EmptyContentsNext DEF Reset, Zeroed, BQ!Clear
  <1>5. CASE Deinit
    BY <1>5, EmptyContentsNext DEF Deinit, Zeroed, BQ!Close
  <1>6. CASE Query
    <2>1. Len(Contents) = len /\ (len = 0 <=> Contents = <<>>)
      BY ContentsType, EmptyContents
    <2>2. Contents' = Contents
      BY <1>6 DEF Query, Contents, Slot
    <2>3. BQ!Query
      BY <1>6, <2>1, <2>2 DEF Query, Empty, Full, Space, BQ!Query
    <2>4. QED BY <2>3
  <1>7. QED BY <1>1, <1>2, <1>3, <1>4, <1>5, <1>6 DEF Next

LEMMA StepImplementsStep == Ring /\ Ring' /\ [Next]_vars => [BQ!Next]_(BQ!qvars)
  <1>1. UNCHANGED vars => UNCHANGED BQ!qvars
    BY DEF vars, BQ!qvars, Contents, Slot
  <1>2. QED BY <1>1, CallImplementsCall

LEMMA InitImplementsInit == Init => BQ!Init
  <1> SUFFICES ASSUME Init PROVE BQ!Init
    OBVIOUS
  <1>1. Contents = <<>>
    BY RingInit, EmptyContents DEF Init
  <1>2. QED BY <1>1 DEF Init, BQ!Init

\* Whatever the indices do, the ring is a FIFO of bytes: for every size, every
\* call of ringbuf_write, ringbuf_read and the rest is that call of the queue.
THEOREM RingImplementsQueue == Spec => ImplementsByteQueue
  <1>1. QED BY RingInit, RingNext, InitImplementsInit, StepImplementsStep, PTL
            DEF Spec, ImplementsByteQueue, BQ!Spec

\* What the queue holds and hands out was written.
Written == Contents \in Seq(Byte) /\ got \in Seq(Byte)

LEMMA WrittenInit == Init => Written
  <1> SUFFICES ASSUME Init PROVE Written
    OBVIOUS
  <1>1. Contents = <<>> /\ got = <<>>
    BY InitImplementsInit DEF Init, BQ!Init
  <1>2. QED BY <1>1 DEF Written

LEMMA WrittenNext == Ring /\ Written /\ [BQ!Next]_(BQ!qvars) => Written'
  <1> SUFFICES ASSUME Ring, Written, [BQ!Next]_(BQ!qvars) PROVE Written'
    OBVIOUS
  <1> USE DEF Written
  <1>e. <<>> \in Seq(Byte)
    OBVIOUS
  <1>1. ASSUME NEW data \in Data, BQ!Put(data) PROVE Written'
    <2> DEFINE n == BQ!Smaller(Len(data), size - Len(Contents))
    <2>1. data \in Seq(Byte) /\ Contents \in Seq(Byte)
      BY DataAssumption
    <2>2. n \in Int /\ n <= Len(data)
      BY <2>1, RingFields DEF Fields, BQ!Smaller
    <2>3. Contents' = Contents \o SubSeq(data, 1, n) /\ got' = <<>>
      BY <1>1 DEF BQ!Put
    <2> HIDE DEF n
    <2>4. \A i \in 1..n : data[i] \in Byte
      BY <2>1, <2>2
    <2>5. SubSeq(data, 1, n) \in Seq(Byte)
      BY <2>2, <2>4, SubSeqProperties
    <2>6. QED BY <1>e, <2>1, <2>3, <2>5, ConcatProperties
  <1>2. ASSUME NEW n \in Requests, BQ!Get(n) PROVE Written'
    <2> DEFINE m == BQ!Smaller(n, Len(Contents))
    <2>1. Contents \in Seq(Byte)
      OBVIOUS
    <2>2. m \in Nat /\ m <= Len(Contents)
      BY <2>1, RequestsAssumption DEF BQ!Smaller
    <2>3. /\ Contents' = SubSeq(Contents, m + 1, Len(Contents))
          /\ got' = SubSeq(Contents, 1, m)
      BY <1>2 DEF BQ!Get
    <2> HIDE DEF m
    <2>4. \A i \in 1..Len(Contents) : Contents[i] \in Byte
      BY <2>1
    <2>5. SubSeq(Contents, 1, m) \in Seq(Byte)
      BY <2>1, <2>2, <2>4, SubSeqProperties
    <2>6. SubSeq(Contents, m + 1, Len(Contents)) \in Seq(Byte)
      BY <2>1, <2>2, <2>4, SubSeqProperties
    <2>7. QED BY <2>3, <2>5, <2>6
  <1>3. CASE BQ!Clear
    BY <1>3, <1>e DEF BQ!Clear
  <1>4. CASE BQ!Open
    BY <1>4, <1>e DEF BQ!Open
  <1>5. CASE BQ!Close
    BY <1>5, <1>e DEF BQ!Close
  <1>6. CASE BQ!Query
    BY <1>6, <1>e DEF BQ!Query
  <1>7. CASE UNCHANGED BQ!qvars
    BY <1>7 DEF BQ!qvars
  <1>8. QED BY <1>1, <1>2, <1>3, <1>4, <1>5, <1>6, <1>7 DEF BQ!Next

LEMMA WrittenCells == Ring /\ Written => OnlyWrittenBytes
  <1> SUFFICES ASSUME Ring, Written, NEW k \in 0..(len - 1) PROVE buf[Slot(k)] \in Byte
    BY DEF OnlyWrittenBytes, Written
  <1>1. len \in Nat /\ Len(Contents) = len
    BY RingFields, ContentsType DEF Fields
  <1>2. k + 1 \in 1..len /\ (k + 1) - 1 = k
    BY <1>1
  <1>3. Contents[k + 1] = buf[Slot(k)]
    BY <1>2 DEF Contents
  <1>4. QED BY <1>1, <1>2, <1>3 DEF Written

\* The parser never sees a byte that malloc left in the array.
THEOREM RingHandsOutWritten == Spec => []OnlyWrittenBytes
  <1>1. QED BY RingInit, RingNext, StepImplementsStep, WrittenInit, WrittenNext,
               WrittenCells, PTL DEF Spec
=============================================================================
