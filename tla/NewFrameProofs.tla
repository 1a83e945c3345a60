--------------------------- MODULE NewFrameProofs ---------------------------
(* What a reader of the frame store gets, proved for any readers, displays, *)
(* lengths and INT_MAX, and for any number of updates.                      *)
EXTENDS NewFrame, TLAPS

\* Where an update stands, and what it has done to the store so far.
StoreInv ==
  /\ newframe_buf = IF pc[Writer] = "memcpy" THEN Blank ELSE Len(frames)
  /\ pc[Writer] \in {"memset", "memcpy"} => Len(frames) < MaxFrames
  /\ pc[Writer] # "idle" => flush_len > 0
  /\ counted = IF pc[Writer] \in {"unlock", "both", "index"} THEN Len(frames) - 1
                                                             ELSE Len(frames)
  /\ counted <= IntMax => frame_index = counted
  /\ pc[Writer] \in {"unlock", "both", "len", "index", "wrap"} => Len(frames) > 0
  /\ pc[Writer] \in {"unlock", "both", "len"} => flush_len = frames[Len(frames)]
  /\ pc[Writer] \in {"idle", "index", "wrap"} /\ Len(frames) > 0 =>
       newframe_len = frames[Len(frames)]
  /\ newframe_len > 0 => \E k \in 1..Len(frames) : newframe_len = frames[k]

\* What a call under way knows of the frames stored since it began.
CallInv(r) ==
  /\ pc[r] # "idle" => newframe_len > 0 /\ since[r] \in 1..Len(frames)
  /\ pc[r] \in {"lock", "copy"} => \E k \in 1..Len(frames) : tmpLen[r] = frames[k]
  /\ Copied(r) => /\ data[r] \in since[r]..Len(frames)
                  /\ \E k \in 1..data[r] : tmpLen[r] = frames[k]

\* A call no update has overlapped yet.
QuietInv(r) ==
  pc[r] # "idle" /\ ~overlapped[r] =>
    /\ pc[Writer] = "idle"
    /\ since[r] = Len(frames)
    /\ pc[r] # "length" => tmpLen[r] = frames[Len(frames)]
    /\ pc[r] = "use" => /\ retCounted[r] = Len(frames)
                        /\ Len(frames) <= IntMax => ret[r] = Len(frames)

\* What was shown before a call is no newer than what the call will copy.
ShownInv(r) ==
  /\ shown[r] <= Len(frames)
  /\ pc[r] # "idle" => shown[r] <= since[r]

IInv ==
  /\ TypeOK
  /\ StoreInv
  /\ \A r \in Readers : CallInv(r) /\ QuietInv(r) /\ ShownInv(r)
-----------------------------------------------------------------------------
(* The steps of v4l2cap_update_newframe *)

\* The first step of an update, which takes the mutex.
LEMMA LockKeeps ==
  ASSUME IInv, NEW len \in Lens, UpdateLock(len)
  PROVE  IInv'
  <1> USE ThreadsAssumption, NumbersAssumption
  <1>1. TypeOK'
    BY DEF IInv, TypeOK, UpdateLock, Goto, Lock, Writing, Overlap, Smaller, Holding,
           Threads, store, local, display, WriterPlaces, ReaderPlaces
  <1>2. StoreInv'
    BY DEF IInv, TypeOK, StoreInv, UpdateLock, Goto, Smaller, Threads, store
  <1>3. ASSUME NEW r \in Readers PROVE CallInv(r)' /\ QuietInv(r)' /\ ShownInv(r)'
    BY DEF IInv, TypeOK, CallInv, QuietInv, ShownInv, Copied, UpdateLock, Goto, Writing,
           Overlap, Threads, store, local, display
  <1>4. QED BY <1>1, <1>2, <1>3 DEF IInv

\* The copy of the bytes, under the mutex.
LEMMA CopyKeeps ==
  ASSUME IInv, UpdateMemset \/ UpdateMemcpy \/ UpdateUnlock
  PROVE  IInv'
  <1> USE ThreadsAssumption, NumbersAssumption
  <1>1. CASE UpdateMemset
    <2>1. TypeOK'
      BY <1>1 DEF IInv, TypeOK, UpdateMemset, Goto, Writing, Overlap, Holding, Blank,
                  Threads, local, display, writing, WriterPlaces, ReaderPlaces
    <2>2. StoreInv'
      BY <1>1 DEF IInv, TypeOK, StoreInv, UpdateMemset, Goto, Threads, writing, Blank
    <2>3. ASSUME NEW r \in Readers PROVE CallInv(r)' /\ QuietInv(r)' /\ ShownInv(r)'
      BY <1>1 DEF IInv, TypeOK, CallInv, QuietInv, ShownInv, Copied, UpdateMemset, Goto,
                  Writing, Overlap, Threads, local, display, writing
    <2>4. QED BY <2>1, <2>2, <2>3 DEF IInv
  <1>2. CASE UpdateMemcpy
    <2>1. /\ Len(frames') = Len(frames) + 1 /\ frames' \in Seq(1..FRAME_BUF_SIZE)
          /\ Len(frames) \in Nat /\ frames'[Len(frames) + 1] = flush_len
          /\ \A k \in 1..Len(frames) : frames'[k] = frames[k]
      BY <1>2 DEF IInv, TypeOK, StoreInv, UpdateMemcpy, Goto
    <2>2. TypeOK'
      BY <1>2, <2>1 DEF IInv, TypeOK, StoreInv, UpdateMemcpy, Goto, Writing, Overlap, Holding,
                  Threads, local, display, WriterPlaces, ReaderPlaces
    <2>3. StoreInv'
      BY <1>2, <2>1 DEF IInv, TypeOK, StoreInv, UpdateMemcpy, Goto, Threads, Blank
    <2>4. ASSUME NEW r \in Readers PROVE CallInv(r)' /\ QuietInv(r)' /\ ShownInv(r)'
      <3>1. /\ pc'[r] = pc[r] /\ since' = since /\ tmpLen' = tmpLen /\ data' = data
            /\ shown' = shown /\ newframe_len' = newframe_len
            /\ overlapped'[r] = (overlapped[r] \/ pc[r] # "idle")
        BY <1>2 DEF IInv, TypeOK, UpdateMemcpy, Goto, Writing, Overlap, Threads, local, display
      <3>2. since[r] \in Nat /\ data[r] \in Nat /\ shown[r] \in Nat
        BY DEF IInv, TypeOK
      <3>3. CallInv(r)'
        BY <2>1, <3>1, <3>2 DEF IInv, CallInv, Copied
      <3>4. QuietInv(r)'
        BY <3>1, Zenon DEF QuietInv
      <3>5. ShownInv(r)'
        BY <2>1, <3>1, <3>2 DEF IInv, ShownInv
      <3>6. QED BY <3>3, <3>4, <3>5
    <2>5. QED BY <2>2, <2>3, <2>4 DEF IInv
  <1>3. CASE UpdateUnlock
    <2>1. TypeOK'
      BY <1>3 DEF IInv, TypeOK, UpdateUnlock, Unlock, Goto, Writing, Overlap, Holding,
                  Threads, store, local, display, writing, WriterPlaces, ReaderPlaces
    <2>2. StoreInv'
      BY <1>3 DEF IInv, TypeOK, StoreInv, UpdateUnlock, Goto, Threads, store, writing
    <2>3. ASSUME NEW r \in Readers PROVE CallInv(r)' /\ QuietInv(r)' /\ ShownInv(r)'
      BY <1>3 DEF IInv, TypeOK, CallInv, QuietInv, ShownInv, Copied, UpdateUnlock, Goto,
                  Writing, Overlap, Threads, store, local, display, writing
    <2>4. QED BY <2>1, <2>2, <2>3 DEF IInv
  <1>4. QED BY <1>1, <1>2, <1>3

\* The two stores after the mutex is released, and the wrap of the index.
LEMMA CountKeeps ==
  ASSUME IInv, UpdateLen \/ UpdateIndex \/ UpdateWrap
  PROVE  IInv'
  <1> USE ThreadsAssumption, NumbersAssumption
  <1>1. CASE UpdateLen
    <2>1. TypeOK'
      <3>1. /\ pc' \in [Threads -> WriterPlaces \cup ReaderPlaces]
            /\ pc'[Writer] \in {"index", "wrap"} /\ pc[Writer] \in {"both", "len"}
            /\ \A r \in Readers : pc'[r] = pc[r]
        BY <1>1 DEF IInv, TypeOK, UpdateLen, Goto, Threads, WriterPlaces
      <3>2. overlapped' \in [Readers -> BOOLEAN]
        BY <1>1 DEF IInv, TypeOK, UpdateLen, Writing, Overlap
      <3>3. \A t \in Threads : Holding(t)' <=> newframe_mut' = t
        BY <1>1, <3>1 DEF IInv, TypeOK, UpdateLen, Holding, Threads
      <3>4. pc'[Writer] \in WriterPlaces /\ \A r \in Readers : pc'[r] \in ReaderPlaces
        BY <3>1 DEF IInv, TypeOK, WriterPlaces
      <3>5. newframe_len' \in 0..FRAME_BUF_SIZE
        BY <1>1 DEF IInv, TypeOK, UpdateLen
      <3>6. UNCHANGED <<newframe_buf, frame_index, newframe_mut, writing, local, display, since,
                        retCounted>>
        BY <1>1 DEF UpdateLen, Writing
      <3>7. QED
        BY <3>1, <3>2, <3>3, <3>4, <3>5, <3>6 DEF IInv, TypeOK, Holding, local, display, writing
    <2>2. StoreInv'
      <3>1. \/ pc[Writer] = "both" /\ pc'[Writer] = "index"
            \/ pc[Writer] = "len" /\ pc'[Writer] = "wrap"
        BY <1>1 DEF IInv, TypeOK, UpdateLen, Goto, Threads
      <3>2. /\ newframe_len' = flush_len
            /\ UNCHANGED <<newframe_buf, frame_index, flush_len, frames, counted>>
        BY <1>1 DEF UpdateLen, writing
      <3>3. flush_len = frames[Len(frames)] /\ flush_len > 0
        BY <3>1 DEF IInv, StoreInv
      <3>4. Len(frames) \in 1..Len(frames)
        <4>1. Len(frames) \in Nat
          BY DEF IInv, TypeOK
        <4>2. Len(frames) > 0
          BY <3>1 DEF IInv, StoreInv
        <4>3. QED BY <4>1, <4>2
      <3>5. QED
        BY <3>1, <3>2, <3>3, <3>4 DEF IInv, StoreInv
    <2>3. ASSUME NEW r \in Readers PROVE CallInv(r)' /\ QuietInv(r)' /\ ShownInv(r)'
      <3>1. /\ pc'[r] = pc[r] /\ since' = since /\ tmpLen' = tmpLen /\ data' = data
            /\ shown' = shown /\ newframe_len' > 0 /\ frames' = frames
            /\ overlapped'[r] = (overlapped[r] \/ pc[r] # "idle")
        BY <1>1 DEF IInv, TypeOK, StoreInv, UpdateLen, Goto, Writing, Overlap, Threads,
                    local, display, writing
      <3>2. CallInv(r)' /\ ShownInv(r)'
        BY <3>1 DEF IInv, CallInv, ShownInv, Copied
      <3>3. QuietInv(r)'
        BY <3>1, Zenon DEF QuietInv
      <3>4. QED BY <3>2, <3>3
    <2>4. QED BY <2>1, <2>2, <2>3 DEF IInv
  <1>2. CASE UpdateIndex
    <2>1. TypeOK'
      <3>1. counted' \in 0..MaxFrames
        BY <1>2 DEF IInv, TypeOK, StoreInv, UpdateIndex, Goto
      <3>2. frame_index' \in (-IntMax - 1)..IntMax
        BY <1>2 DEF IInv, TypeOK, UpdateIndex
      <3>3. QED
        BY <1>2, <3>1, <3>2 DEF IInv, TypeOK, UpdateIndex, Goto, Writing, Overlap, Holding,
                    Threads, local, display, WriterPlaces, ReaderPlaces
    <2>2. StoreInv'
      BY <1>2 DEF IInv, TypeOK, StoreInv, UpdateIndex, Goto, Threads
    <2>3. ASSUME NEW r \in Readers PROVE CallInv(r)' /\ QuietInv(r)' /\ ShownInv(r)'
      BY <1>2 DEF IInv, TypeOK, CallInv, QuietInv, ShownInv, Copied, UpdateIndex,
                  Goto, Writing, Overlap, Threads, local, display
    <2>4. QED BY <2>1, <2>2, <2>3 DEF IInv
  <1>3. CASE UpdateWrap
    <2>1. TypeOK'
      BY <1>3 DEF IInv, TypeOK, UpdateWrap, Goto, Writing, Overlap, Holding,
                  Threads, local, display, writing, WriterPlaces, ReaderPlaces
    <2>2. StoreInv'
      BY <1>3 DEF IInv, TypeOK, StoreInv, UpdateWrap, Goto, Threads, writing
    <2>3. ASSUME NEW r \in Readers PROVE CallInv(r)' /\ QuietInv(r)' /\ ShownInv(r)'
      BY <1>3 DEF IInv, TypeOK, CallInv, QuietInv, ShownInv, Copied, UpdateWrap,
                  Goto, Writing, Overlap, Threads, local, display, writing
    <2>4. QED BY <2>1, <2>2, <2>3 DEF IInv
  <1>4. QED BY <1>1, <1>2, <1>3
-----------------------------------------------------------------------------
(* The steps of capture_get_newframe, and what its callers do *)

\* The part of TypeOK about the places of the threads and the mutex.
Placed ==
  /\ newframe_mut \in Threads \cup {None}
  /\ pc \in [Threads -> WriterPlaces \cup ReaderPlaces]
  /\ pc[Writer] \in WriterPlaces
  /\ \A r \in Readers : pc[r] \in ReaderPlaces
  /\ \A t \in Threads : Holding(t) <=> newframe_mut = t

\* A reader's step that neither takes nor releases the mutex.
LEMMA ReaderMoves ==
  ASSUME TypeOK, NEW q \in Readers, NEW from, NEW to \in ReaderPlaces, Goto(q, from, to),
         newframe_mut' = newframe_mut, from \in {"copy", "unlock"} <=> to \in {"copy", "unlock"}
  PROVE  Placed'
  <1> USE ThreadsAssumption
  <1>1. q \in Threads /\ q # Writer /\ pc[q] = from
    BY DEF Threads, Goto
  <1>2. pc' \in [Threads -> WriterPlaces \cup ReaderPlaces] /\ pc'[q] = to
    BY <1>1 DEF TypeOK, Goto
  <1>3. \A t \in Threads \ {q} : pc'[t] = pc[t]
    BY <1>1 DEF TypeOK, Goto
  <1>4. pc'[Writer] \in WriterPlaces /\ \A r \in Readers : pc'[r] \in ReaderPlaces
    BY <1>1, <1>2, <1>3 DEF TypeOK, Threads
  <1>5. ASSUME NEW t \in Threads PROVE Holding(t)' <=> newframe_mut' = t
    <2>1. Holding(t)' <=> Holding(t)
      BY <1>1, <1>2, <1>3 DEF Holding
    <2>2. QED BY <2>1 DEF TypeOK
  <1>6. QED BY <1>2, <1>4, <1>5 DEF Placed, TypeOK

\* The steps before the copy.
LEMMA BeginKeeps ==
  ASSUME IInv, NEW q \in Readers, GetNothing(q) \/ GetCheck(q) \/ GetLength(q) \/ GetLock(q)
  PROVE  IInv'
  <1> USE ThreadsAssumption, NumbersAssumption
  <1>1. CASE GetNothing(q)
    <2>1. TypeOK'
      BY <1>1 DEF IInv, TypeOK, GetNothing, Reading, Holding,
                  Threads, store, display, writing, history, WriterPlaces, ReaderPlaces
    <2>2. StoreInv'
      BY <1>1 DEF IInv, StoreInv, GetNothing, Reading, store, writing
    <2>3. ASSUME NEW r \in Readers PROVE CallInv(r)' /\ QuietInv(r)' /\ ShownInv(r)'
      BY <1>1 DEF IInv, CallInv, QuietInv, ShownInv, Copied, GetNothing, Reading,
                  store, display, writing, history
    <2>4. QED BY <2>1, <2>2, <2>3 DEF IInv
  <1>2. CASE GetCheck(q)
    <2>1. TypeOK'
      <3>1. Placed'
        BY <1>2, ReaderMoves DEF IInv, GetCheck, ReaderPlaces
      <3>2. since' \in [Readers -> 0..MaxFrames] /\ overlapped' \in [Readers -> BOOLEAN]
        BY <1>2 DEF IInv, TypeOK, GetCheck
      <3>3. UNCHANGED <<store, local, display, writing, retCounted>>
        BY <1>2 DEF GetCheck, Reading
      <3>4. QED
        BY <3>1, <3>2, <3>3 DEF IInv, TypeOK, Placed, store, local, display, writing
    <2>2. StoreInv'
      BY <1>2 DEF IInv, TypeOK, StoreInv, GetCheck, Goto, Reading, Threads, store, writing
    <2>3. ASSUME NEW r \in Readers PROVE CallInv(r)' /\ QuietInv(r)' /\ ShownInv(r)'
      <3>1. CASE r # q
        <4>1. /\ pc'[r] = pc[r] /\ pc'[Writer] = pc[Writer] /\ since'[r] = since[r]
              /\ overlapped'[r] = overlapped[r]
              /\ UNCHANGED <<store, local, display, writing, retCounted>>
          BY <1>2, <3>1 DEF IInv, TypeOK, GetCheck, Goto, Reading, Threads
        <4>2. QED
          BY <4>1 DEF IInv, CallInv, QuietInv, ShownInv, Copied, store, local, display, writing
      <3>2. CASE r = q
        <4>1. /\ pc'[r] = "length" /\ pc'[Writer] = pc[Writer] /\ since'[r] = Len(frames)
              /\ overlapped'[r] = (pc[Writer] # "idle") /\ newframe_len > 0
              /\ UNCHANGED <<store, local, display, writing, retCounted>>
          BY <1>2, <3>2 DEF IInv, TypeOK, GetCheck, Goto, Reading, Threads
        <4>2. since'[r] \in 1..Len(frames) /\ shown[r] <= Len(frames)
          BY <4>1 DEF IInv, TypeOK, StoreInv, ShownInv
        <4>3. CallInv(r)' /\ ShownInv(r)'
          BY <4>1, <4>2 DEF CallInv, ShownInv, Copied, store, display, writing
        <4>4. QuietInv(r)'
          BY <4>1 DEF QuietInv, writing
        <4>5. QED BY <4>3, <4>4
      <3>3. QED BY <3>1, <3>2
    <2>4. QED BY <2>1, <2>2, <2>3 DEF IInv
  <1>3. CASE GetLength(q)
    <2>1. TypeOK'
      <3>1. Placed'
        BY <1>3, ReaderMoves DEF IInv, GetLength, ReaderPlaces
      <3>2. tmpLen' \in [Readers -> 0..FRAME_BUF_SIZE]
        BY <1>3 DEF IInv, TypeOK, GetLength, Smaller
      <3>3. UNCHANGED <<store, data, ret, display, writing, history>>
        BY <1>3 DEF GetLength, Reading
      <3>4. QED
        BY <3>1, <3>2, <3>3 DEF IInv, TypeOK, Placed, store, display, writing, history
    <2>2. StoreInv'
      BY <1>3 DEF IInv, TypeOK, StoreInv, GetLength, Goto, Reading, Threads, store, writing
    <2>3. ASSUME NEW r \in Readers PROVE CallInv(r)' /\ QuietInv(r)' /\ ShownInv(r)'
      <3>1. CASE r # q
        <4>1. /\ pc'[r] = pc[r] /\ pc'[Writer] = pc[Writer] /\ tmpLen'[r] = tmpLen[r]
              /\ UNCHANGED <<store, data, ret, display, writing, history>>
          BY <1>3, <3>1 DEF IInv, TypeOK, GetLength, Goto, Reading, Threads
        <4>2. QED
          BY <4>1 DEF IInv, CallInv, QuietInv, ShownInv, Copied, store, display, writing, history
      <3>2. CASE r = q
        <4>1. /\ pc[r] = "length" /\ pc'[r] = "lock" /\ pc'[Writer] = pc[Writer]
              /\ tmpLen'[r] = newframe_len
              /\ UNCHANGED <<store, data, ret, display, writing, history>>
          BY <1>3, <3>2 DEF IInv, TypeOK, GetLength, Goto, Reading, Smaller, Threads
        <4>2. CallInv(r)' /\ ShownInv(r)'
          <5>1. newframe_len > 0 /\ since[r] \in 1..Len(frames) /\ ShownInv(r)
            BY <4>1 DEF IInv, CallInv
          <5>2. \E k \in 1..Len(frames) : newframe_len = frames[k]
            BY <5>1 DEF IInv, StoreInv
          <5>3. ShownInv(r)'
            BY <4>1, <5>1 DEF ShownInv, display, writing, history
          <5>4. UNCHANGED <<newframe_len, frames, since>>
            BY <4>1 DEF store, writing, history
          <5>5. ~Copied(r)' /\ \E k \in 1..Len(frames) : tmpLen'[r] = frames[k]
            BY <4>1, <5>2 DEF Copied
          <5>6. CallInv(r)'
            BY <5>1, <5>4, <5>5 DEF CallInv
          <5>7. QED BY <5>3, <5>6
        <4>3. QuietInv(r)'
          <5>1. UNCHANGED <<newframe_len, frames, since, overlapped>>
            BY <4>1 DEF store, writing, history
          <5>2. since[r] \in 1..Len(frames)
            BY <4>1 DEF IInv, CallInv
          <5>3. Len(frames) \in Nat
            BY DEF IInv, TypeOK
          <5>4. Len(frames) > 0
            BY <5>2, <5>3
          <5>5. pc[Writer] = "idle" => newframe_len = frames[Len(frames)]
            BY <5>4 DEF IInv, StoreInv
          <5>6. QED
            BY <4>1, <5>1, <5>5 DEF IInv, QuietInv
        <4>4. QED BY <4>2, <4>3
      <3>3. QED BY <3>1, <3>2
    <2>4. QED BY <2>1, <2>2, <2>3 DEF IInv
  <1>4. CASE GetLock(q)
    <2>1. TypeOK'
      BY <1>4 DEF IInv, TypeOK, GetLock, Lock, Goto, Reading, Holding, Threads,
                  store, local, display, writing, history, WriterPlaces, ReaderPlaces
    <2>2. StoreInv'
      BY <1>4 DEF IInv, TypeOK, StoreInv, GetLock, Goto, Reading, Threads, store, writing
    <2>3. ASSUME NEW r \in Readers PROVE CallInv(r)' /\ QuietInv(r)' /\ ShownInv(r)'
      BY <1>4 DEF IInv, TypeOK, CallInv, QuietInv, ShownInv, Copied, GetLock, Goto,
                  Reading, Threads, store, local, display, writing, history
    <2>4. QED BY <2>1, <2>2, <2>3 DEF IInv
  <1>5. QED BY <1>1, <1>2, <1>3, <1>4

\* The copy, and the return.
LEMMA EndKeeps ==
  ASSUME IInv, NEW q \in Readers, GetCopy(q) \/ GetUnlock(q) \/ GetReturn(q)
  PROVE  IInv'
  <1> USE ThreadsAssumption, NumbersAssumption
  <1>1. CASE GetCopy(q)
    <2>1. TypeOK'
      <3>1. Placed'
        BY <1>1, ReaderMoves DEF IInv, GetCopy, ReaderPlaces
      <3>2. data' \in [Readers -> 0..MaxFrames]
        BY <1>1 DEF IInv, TypeOK, GetCopy
      <3>3. UNCHANGED <<store, tmpLen, ret, display, writing, history>>
        BY <1>1 DEF GetCopy, Reading
      <3>4. QED
        BY <3>1, <3>2, <3>3 DEF IInv, TypeOK, Placed, store, display, writing, history
    <2>2. StoreInv'
      BY <1>1 DEF IInv, TypeOK, StoreInv, GetCopy, Goto, Reading, Threads, store, writing
    <2>3. ASSUME NEW r \in Readers PROVE CallInv(r)' /\ QuietInv(r)' /\ ShownInv(r)'
      <3>1. CASE r # q
        <4>1. /\ pc'[r] = pc[r] /\ pc'[Writer] = pc[Writer] /\ data'[r] = data[r]
              /\ UNCHANGED <<store, tmpLen, ret, display, writing, history>>
          BY <1>1, <3>1 DEF IInv, TypeOK, GetCopy, Goto, Reading, Threads
        <4>2. QED
          BY <4>1 DEF IInv, CallInv, QuietInv, ShownInv, Copied, store, display, writing, history
      <3>2. CASE r = q
        \* The reader holds the mutex, so no update is under way in the copy.
        <4>1. /\ pc[r] = "copy" /\ pc'[r] = "unlock" /\ pc'[Writer] = pc[Writer]
              /\ pc[Writer] # "memcpy" /\ data'[r] = newframe_buf
              /\ UNCHANGED <<store, tmpLen, ret, display, writing, history>>
          BY <1>1, <3>2 DEF IInv, TypeOK, GetCopy, Goto, Reading, Threads, Holding
        <4>2. data'[r] = Len(frames) /\ CallInv(r) /\ QuietInv(r) /\ ShownInv(r)
          BY <4>1 DEF IInv, StoreInv
        <4>3. since[r] \in Nat /\ Len(frames) \in Nat
          BY DEF IInv, TypeOK
        <4>4. QED
          BY <4>1, <4>2, <4>3 DEF CallInv, QuietInv, ShownInv, Copied, store, display,
                                  writing, history
      <3>3. QED BY <3>1, <3>2
    <2>4. QED BY <2>1, <2>2, <2>3 DEF IInv
  <1>2. CASE GetUnlock(q)
    <2>1. TypeOK'
      BY <1>2 DEF IInv, TypeOK, GetUnlock, Unlock, Goto, Reading, Holding, Threads,
                  store, local, display, writing, history, WriterPlaces, ReaderPlaces
    <2>2. StoreInv'
      BY <1>2 DEF IInv, TypeOK, StoreInv, GetUnlock, Goto, Reading, Threads, store, writing
    <2>3. ASSUME NEW r \in Readers PROVE CallInv(r)' /\ QuietInv(r)' /\ ShownInv(r)'
      BY <1>2 DEF IInv, TypeOK, CallInv, QuietInv, ShownInv, Copied, GetUnlock, Goto,
                  Reading, Threads, store, local, display, writing, history
    <2>4. QED BY <2>1, <2>2, <2>3 DEF IInv
  <1>3. CASE GetReturn(q)
    <2>1. TypeOK'
      BY <1>3 DEF IInv, TypeOK, GetReturn, Goto, Reading, Holding, Threads,
                  store, display, writing, WriterPlaces, ReaderPlaces
    <2>2. StoreInv'
      BY <1>3 DEF IInv, TypeOK, StoreInv, GetReturn, Goto, Reading, Threads, store, writing
    <2>3. ASSUME NEW r \in Readers PROVE CallInv(r)' /\ QuietInv(r)' /\ ShownInv(r)'
      <3>1. /\ pc'[r] = (IF r = q THEN "use" ELSE pc[r]) /\ pc'[Writer] = pc[Writer]
            /\ retCounted'[r] = (IF r = q THEN counted ELSE retCounted[r])
            /\ ret'[r] = (IF r = q THEN frame_index ELSE ret[r])
            /\ r = q => pc[r] = "return"
            /\ UNCHANGED <<store, tmpLen, data, display, writing, since, overlapped>>
        BY <1>3 DEF IInv, TypeOK, GetReturn, Goto, Reading, Threads
      <3>2. CallInv(r)' /\ ShownInv(r)'
        BY <3>1 DEF IInv, CallInv, ShownInv, Copied, store, display, writing
      <3>3. QuietInv(r)'
        BY <3>1 DEF IInv, StoreInv, QuietInv, writing
      <3>4. QED BY <3>2, <3>3
    <2>4. QED BY <2>1, <2>2, <2>3 DEF IInv
  <1>4. QED BY <1>1, <1>2, <1>3

\* What the caller does with the frame.
LEMMA UseKeeps ==
  ASSUME IInv, NEW q \in Readers, Use(q)
  PROVE  IInv'
  <1> USE ThreadsAssumption, NumbersAssumption
  <1>1. /\ pc[q] = "use" /\ pc' = [pc EXCEPT ![q] = "idle"]
        /\ \/ shown' = shown
           \/ shown' = [shown EXCEPT ![q] = data[q]]
        /\ UNCHANGED <<store, newframe_mut, writing>>
    BY DEF Use, Goto, display
  <1>2. old_frame_index' \in [Displays -> 0..IntMax]
    <2>1. ret \in [Readers -> Int] /\ ret[q] <= IntMax
      BY DEF IInv, TypeOK
    <2>2. old_frame_index \in [Displays -> 0..IntMax]
      BY DEF IInv, TypeOK
    <2>3. \/ old_frame_index' = [old_frame_index EXCEPT ![q] = ret[q]] /\ ret[q] > 0
          \/ old_frame_index' = old_frame_index
      BY DEF Use, display
    <2>4. QED BY <2>1, <2>2, <2>3
  <1>3. TypeOK'
    <2>1. /\ pc' \in [Threads -> WriterPlaces \cup ReaderPlaces]
          /\ pc'[Writer] \in WriterPlaces /\ \A r \in Readers : pc'[r] \in ReaderPlaces
      BY <1>1 DEF IInv, TypeOK, Threads, ReaderPlaces
    <2>2. \A t \in Threads : Holding(t)' <=> newframe_mut' = t
      BY <1>1 DEF IInv, TypeOK, Holding, Threads
    <2>3. shown' \in [Readers -> 0..MaxFrames]
      BY <1>1 DEF IInv, TypeOK
    <2>4. /\ tmpLen' \in [Readers -> 0..FRAME_BUF_SIZE] /\ data' \in [Readers -> 0..MaxFrames]
          /\ ret' \in [Readers -> (-IntMax - 1)..IntMax] /\ since' \in [Readers -> 0..MaxFrames]
          /\ overlapped' \in [Readers -> BOOLEAN] /\ retCounted' \in [Readers -> 0..MaxFrames]
      BY DEF IInv, TypeOK, Use, Forget, Blank
    <2>5. UNCHANGED <<store, newframe_mut, writing>>
      BY <1>1
    <2>6. QED
      BY <1>2, <2>1, <2>2, <2>3, <2>4, <2>5 DEF IInv, TypeOK, store, writing
  <1>4. StoreInv'
    BY <1>1 DEF IInv, TypeOK, StoreInv, Threads, store, writing
  <1>5. ASSUME NEW r \in Readers PROVE CallInv(r)' /\ QuietInv(r)' /\ ShownInv(r)'
    <2>1. CASE r # q
      <3>1. /\ pc'[r] = pc[r] /\ pc'[Writer] = pc[Writer] /\ shown'[r] = shown[r]
            /\ UNCHANGED <<store, writing>>
        BY <1>1, <2>1 DEF IInv, TypeOK, Threads
      <3>2. /\ tmpLen'[r] = tmpLen[r] /\ data'[r] = data[r] /\ ret'[r] = ret[r]
            /\ since'[r] = since[r] /\ overlapped'[r] = overlapped[r]
            /\ retCounted'[r] = retCounted[r]
        BY <2>1 DEF IInv, TypeOK, Use, Forget
      <3>3. QED
        BY <3>1, <3>2 DEF IInv, CallInv, QuietInv, ShownInv, Copied, store, writing
    <2>2. CASE r = q
      <3>1. pc'[r] = "idle" /\ shown'[r] \in {shown[r], data[r]} /\ frames' = frames
        BY <1>1, <2>2 DEF IInv, TypeOK, Threads, writing
      <3>2. shown[r] <= Len(frames) /\ data[r] <= Len(frames)
        BY <1>1, <2>2 DEF IInv, TypeOK, CallInv, ShownInv, Copied
      <3>3. QED
        BY <3>1, <3>2 DEF CallInv, QuietInv, ShownInv, Copied
    <2>3. QED BY <2>1, <2>2
  <1>6. QED BY <1>3, <1>4, <1>5 DEF IInv
-----------------------------------------------------------------------------
(* The theorems *)

\* The store after newframe_mem_init.
LEMMA InitHolds == Init => IInv
  <1> USE ThreadsAssumption, NumbersAssumption
  <1> SUFFICES ASSUME Init PROVE IInv
    OBVIOUS
  <1>1. TypeOK
    BY DEF Init, TypeOK, Holding, Threads, Blank, WriterPlaces, ReaderPlaces
  <1>2. StoreInv
    BY DEF Init, StoreInv, Threads, Blank
  <1>3. ASSUME NEW r \in Readers PROVE CallInv(r) /\ QuietInv(r) /\ ShownInv(r)
    BY DEF Init, CallInv, QuietInv, ShownInv, Copied, Threads
  <1>4. QED BY <1>1, <1>2, <1>3 DEF IInv

\* Every step of every thread keeps the invariant.
LEMMA NextKeeps == IInv /\ [Next]_vars => IInv'
  <1> SUFFICES ASSUME IInv, [Next]_vars PROVE IInv'
    OBVIOUS
  <1>1. ASSUME NEW len \in Lens, UpdateLock(len) PROVE IInv'
    BY <1>1, LockKeeps
  <1>2. CASE UpdateStep
    BY <1>2, CopyKeeps, CountKeeps DEF UpdateStep
  <1>3. ASSUME NEW r \in Readers, GetStep(r) PROVE IInv'
    BY <1>3, BeginKeeps, EndKeeps, UseKeeps DEF GetStep
  <1>4. CASE UNCHANGED vars
    BY <1>4 DEF vars, store, local, display, writing, history, IInv, TypeOK, StoreInv,
                CallInv, QuietInv, ShownInv, Copied, Holding
  <1>5. QED BY <1>1, <1>2, <1>3, <1>4 DEF Next

\* Wherever an update stands, and however many readers there are: a call
\* copies a whole frame no older than the newest when it began, returns a
\* length no newer than it, and, when no update overlaps it, that frame's
\* own number and length.
THEOREM ReadersGetFrames ==
  Spec => [](TypeOK /\ FreshFrame /\ LengthNotNewer /\ QuietCallNamesFrame)
  <1>1. IInv => TypeOK /\ FreshFrame /\ LengthNotNewer /\ QuietCallNamesFrame
    <2> SUFFICES ASSUME IInv
                 PROVE  TypeOK /\ FreshFrame /\ LengthNotNewer /\ QuietCallNamesFrame
      OBVIOUS
    <2>1. TypeOK
      BY DEF IInv
    <2>2. FreshFrame /\ LengthNotNewer
      BY DEF IInv, TypeOK, CallInv, FreshFrame, LengthNotNewer, Copied, Blank
    <2>3. QuietCallNamesFrame
      <3> SUFFICES ASSUME NEW r \in Readers, pc[r] = "use", ~overlapped[r]
                   PROVE  /\ data[r] = retCounted[r] /\ tmpLen[r] = frames[data[r]]
                          /\ data[r] <= IntMax => ret[r] = data[r]
        BY DEF QuietCallNamesFrame
      <3>1. /\ retCounted[r] = Len(frames) /\ since[r] = Len(frames)
            /\ Len(frames) <= IntMax => ret[r] = Len(frames)
            /\ tmpLen[r] = frames[Len(frames)] /\ data[r] \in since[r]..Len(frames)
        BY DEF IInv, CallInv, QuietInv, Copied
      <3>2. data[r] = Len(frames)
        BY <3>1 DEF IInv, TypeOK
      <3>3. QED BY <3>1, <3>2
    <2>4. QED BY <2>1, <2>2, <2>3
  <1>2. QED BY InitHolds, NextKeeps, <1>1, PTL DEF Spec

\* capture_get_newframe: the length it reads before the lock is at most as
\* new as the frame it copies under it.
COROLLARY LengthsNotNewer == Spec => []LengthNotNewer
  <1>1. TypeOK /\ FreshFrame /\ LengthNotNewer /\ QuietCallNamesFrame => LengthNotNewer
    OBVIOUS
  <1>2. QED BY ReadersGetFrames, <1>1, PTL

\* A call that no v4l2cap_update_newframe overlaps returns the number and the
\* length of the frame it copied.
COROLLARY QuietCallsNameFrame == Spec => []QuietCallNamesFrame
  <1>1. TypeOK /\ FreshFrame /\ LengthNotNewer /\ QuietCallNamesFrame => QuietCallNamesFrame
    OBVIOUS
  <1>2. QED BY ReadersGetFrames, <1>1, PTL

\* newframe_mut is held by whoever is between its lock and its unlock in
\* v4l2cap_update_newframe and capture_get_newframe, and no variable leaves
\* its type.
COROLLARY FrameTypes == Spec => []TypeOK
  <1>1. TypeOK /\ FreshFrame /\ LengthNotNewer /\ QuietCallNamesFrame => TypeOK
    OBVIOUS
  <1>2. QED BY ReadersGetFrames, <1>1, PTL

\* No window and no recogniser ever goes back to an older frame.
THEOREM NeverShowsOlder == Spec => ShownForward
  <1>1. IInv /\ [Next]_vars => [\A r \in Readers : shown'[r] >= shown[r]]_vars
    <2> SUFFICES ASSUME IInv, Next PROVE \A r \in Readers : shown'[r] >= shown[r]
      OBVIOUS
    <2>1. \A r \in Readers : shown[r] \in Nat
      BY DEF IInv, TypeOK
    <2>2. ASSUME NEW len \in Lens, UpdateLock(len) PROVE shown' = shown
      BY <2>2 DEF UpdateLock, Writing, display
    <2>3. CASE UpdateStep
      BY <2>1, <2>3 DEF UpdateStep, UpdateMemset, UpdateMemcpy, UpdateUnlock, UpdateLen,
                        UpdateIndex, UpdateWrap, Writing, display
    <2>4. ASSUME NEW q \in Readers, GetStep(q)
          PROVE  \A r \in Readers : shown'[r] >= shown[r]
      <3>1. CASE Use(q)
        <4>1. shown' = shown \/ shown' = [shown EXCEPT ![q] = data[q]]
          BY <3>1 DEF Use, display
        <4>2. shown[q] <= data[q]
          BY <3>1 DEF IInv, TypeOK, CallInv, ShownInv, Copied, Use, Goto
        <4>3. shown \in [Readers -> Nat] /\ data[q] \in Nat
          BY DEF IInv, TypeOK
        <4>4. QED BY <4>1, <4>2, <4>3
      <3>2. CASE ~Use(q)
        <4>1. shown' = shown
          BY <2>4, <3>2 DEF GetStep, GetNothing, GetCheck, GetLength, GetLock, GetCopy,
                            GetUnlock, GetReturn, Reading, display
        <4>2. QED BY <2>1, <4>1
      <3>3. QED BY <3>1, <3>2
    <2>5. QED BY <2>1, <2>2, <2>3, <2>4 DEF Next
  <1>2. QED BY InitHolds, NextKeeps, <1>1, PTL DEF Spec, ShownForward
=============================================================================
