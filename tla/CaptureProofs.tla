--------------------------- MODULE CaptureProofs ---------------------------
(***************************************************************************)
(* The capture thread keeps its types, leaves nothing behind when          *)
(* capture_init fails, uses only its own buffer and loses none, for every  *)
(* QUE_BUF_MAX_NUM and every MaxLost.  IInv says what each place of        *)
(* capture_init has behind it: the buffers below i are mapped and queued.  *)
(***************************************************************************)
EXTENDS Capture, TLAPS

\* The device is open from the first step on, until the thread fails.
Openness == IF pc \in {"open", "failed"} THEN ~opened ELSE opened

\* Before the first buffer, and after the error path, nothing is mapped.
NothingYet ==
  /\ pc \in {"open", "format", "request", "close", "failed"} => mapping = {}
  /\ pc \in {"open", "format", "request", "failed"} => queued = {}

\* What is mapped has an address and lies where the error path looks for it.
MappedBelow ==
  /\ \A b \in mapping : addr[b] # "null"
  /\ pc \in {"query", "map"} => \A b \in mapping : b < i
  /\ pc \in {"queue", "unmap"} => \A b \in mapping : b <= i

\* The driver has the buffers below i; the loop starts when it has all.
QueuedBelow ==
  /\ pc \in {"query", "map", "queue"} => \A b \in Buffers : b \in queued <=> b < i
  /\ pc = "start" => \A b \in Buffers : b \in queued

\* Nothing is refused before the loop, and what is refused is not queued.
Refused ==
  /\ pc \in {"open", "format", "request", "query", "map", "queue", "start"} => lost = {}
  /\ Looping => \A b \in Buffers : ~(b \in queued /\ b \in lost)

\* What mmap answered: an address that is mapped until the error path, or
\* MAP_FAILED, and one of them for every buffer the loop has passed.
Backed ==
  /\ pc \notin {"close", "failed"} => \A b \in Buffers : addr[b] = "mapped" => b \in mapping
  /\ pc \in {"query", "map"} => \A b \in Buffers : b < i => addr[b] # "null"
  /\ pc = "queue" => \A b \in Buffers : b <= i => addr[b] # "null"
  /\ pc = "start" \/ Looping => \A b \in Buffers : addr[b] # "null"

\* BuffersConserved, buffer by buffer.
Kept == \A b \in Buffers : Looping => b \in queued \/ b \in lost \/ (Held /\ b = current)

IInv ==
  TypeOK /\ Openness /\ NothingYet /\ MappedBelow /\ QueuedBelow /\ Refused /\ Backed
  /\ UsesOwnBuffer /\ Kept
-----------------------------------------------------------------------------
LEMMA InitIInv == Init => IInv
  <1> SUFFICES ASSUME Init PROVE IInv
    OBVIOUS
  <1> USE BuffersAssumption DEF Init, Buffers
  <1>1. /\ 0 \in Buffers /\ i \in -1..QUE_BUF_MAX_NUM /\ granted \in 0..QUE_BUF_MAX_NUM
        /\ addr \in [Buffers -> {"null", "mapped", "failed"}]
    OBVIOUS
  <1>2. opened = FALSE /\ streaming = FALSE /\ queued = {} /\ lost = {} /\ mapping = {}
    OBVIOUS
  <1>3. TypeOK
    BY <1>1, <1>2 DEF TypeOK
  <1>4. Openness /\ NothingYet /\ MappedBelow /\ QueuedBelow /\ Refused /\ Backed /\ UsesOwnBuffer /\ Kept
    BY DEF Openness, NothingYet, MappedBelow, QueuedBelow, Refused, Backed, UsesOwnBuffer, Kept, Held,
           Looping
  <1>5. QED BY <1>3, <1>4 DEF IInv

\* capture_init up to a buffer's mapping.
LEMMA SetupStep == IInv /\ (Open \/ SetFormat \/ RequestBuffers \/ QueryBuffer) => IInv'
  <1> USE BuffersAssumption DEF IInv, Buffers, Goto, device, buffers
  <1>1. ASSUME IInv, Open PROVE IInv'
    <2> USE <1>1 DEF Open
    <2>1. TypeOK'
      BY DEF TypeOK, Openness
    <2>2. Openness' /\ NothingYet'
      BY DEF TypeOK, Openness, NothingYet, MappedBelow
    <2>3. MappedBelow'
      BY DEF TypeOK, MappedBelow, NothingYet
    <2>4. QueuedBelow'
      BY DEF TypeOK, QueuedBelow, NothingYet
    <2>5. Refused' /\ Backed' /\ UsesOwnBuffer'
      BY DEF TypeOK, Refused, Backed, UsesOwnBuffer, Held, Looping
    <2>6. Kept'
      BY DEF TypeOK, Kept, QueuedBelow, Held, Looping
    <2>7. QED BY <2>1, <2>2, <2>3, <2>4, <2>5, <2>6
  <1>2. ASSUME IInv, SetFormat PROVE IInv'
    <2> USE <1>2 DEF SetFormat
    <2>1. TypeOK'
      BY DEF TypeOK, Openness
    <2>2. Openness' /\ NothingYet'
      BY DEF TypeOK, Openness, NothingYet, MappedBelow
    <2>3. MappedBelow'
      BY DEF TypeOK, MappedBelow, NothingYet
    <2>4. QueuedBelow'
      BY DEF TypeOK, QueuedBelow, NothingYet
    <2>5. Refused' /\ Backed' /\ UsesOwnBuffer'
      BY DEF TypeOK, Refused, Backed, UsesOwnBuffer, Held, Looping
    <2>6. Kept'
      BY DEF TypeOK, Kept, QueuedBelow, Held, Looping
    <2>7. QED BY <2>1, <2>2, <2>3, <2>4, <2>5, <2>6
  <1>3. ASSUME IInv, RequestBuffers PROVE IInv'
    <2> USE <1>3 DEF RequestBuffers
    <2>1. TypeOK'
      BY DEF TypeOK, Openness
    <2>2. Openness' /\ NothingYet'
      BY DEF TypeOK, Openness, NothingYet, MappedBelow
    <2>3. MappedBelow'
      BY DEF TypeOK, MappedBelow, NothingYet
    <2>4. QueuedBelow'
      BY DEF TypeOK, QueuedBelow, NothingYet
    <2>5. Refused' /\ Backed' /\ UsesOwnBuffer'
      BY DEF TypeOK, Refused, Backed, UsesOwnBuffer, Held, Looping
    <2>6. Kept'
      BY DEF TypeOK, Kept, QueuedBelow, Held, Looping
    <2>7. QED BY <2>1, <2>2, <2>3, <2>4, <2>5, <2>6
  <1>4. ASSUME IInv, QueryBuffer PROVE IInv'
    <2> USE <1>4 DEF QueryBuffer
    <2>1. TypeOK'
      BY DEF TypeOK, Openness
    <2>2. Openness' /\ NothingYet'
      BY DEF TypeOK, Openness, NothingYet, MappedBelow
    <2>3. MappedBelow'
      BY DEF TypeOK, MappedBelow, NothingYet
    <2>4. QueuedBelow'
      BY DEF TypeOK, QueuedBelow, NothingYet
    <2>5. Refused' /\ Backed' /\ UsesOwnBuffer'
      BY DEF TypeOK, Refused, Backed, UsesOwnBuffer, Held, Looping
    <2>6. Kept'
      BY DEF TypeOK, Kept, QueuedBelow, Held, Looping
    <2>7. QED BY <2>1, <2>2, <2>3, <2>4, <2>5, <2>6
  <1>5. QED BY <1>1, <1>2, <1>3, <1>4

\* A mapping, real or failed, is one the error path will find; the buffer that is
\* queued is the next one, and the last makes the set full.
LEMMA FillStep == IInv /\ (MapBuffer \/ QueueBuffer) => IInv'
  <1> USE BuffersAssumption DEF IInv, Buffers, Goto, device, buffers
  <1>1. ASSUME IInv, MapBuffer PROVE IInv'
    <2> USE <1>1 DEF MapBuffer
    <2>1. TypeOK'
      BY DEF TypeOK, Openness
    <2>2. Openness' /\ NothingYet'
      BY DEF TypeOK, Openness, NothingYet, MappedBelow
    <2>3. MappedBelow'
      <3>1. i \in Buffers /\ addr \in [Buffers -> {"null", "mapped", "failed"}] /\ i' = i
            /\ mapping \subseteq Buffers /\ pc = "map" /\ pc' = "queue"
        BY DEF TypeOK
      <3>2. addr'[i] # "null" /\ \A b \in Buffers : b # i => addr'[b] = addr[b]
        BY <3>1
      <3>3. \A b \in mapping' : b = i \/ b \in mapping
        OBVIOUS
      <3>4. \A b \in mapping' : addr'[b] # "null"
        BY <3>1, <3>2, <3>3 DEF MappedBelow
      <3>5. ASSUME NEW b \in mapping' PROVE b <= i
        <4>1. b \in mapping => b < i
          BY <3>1 DEF MappedBelow
        <4>2. b \in mapping => b \in Int
          BY <3>1
        <4>3. QED BY <3>1, <3>3, <4>1, <4>2
      <3>6. QED BY <3>1, <3>4, <3>5 DEF MappedBelow
    <2>4. QueuedBelow'
      BY DEF TypeOK, QueuedBelow, NothingYet
    <2>5. Refused' /\ Backed' /\ UsesOwnBuffer'
      BY DEF TypeOK, Refused, Backed, UsesOwnBuffer, Held, Looping
    <2>6. Kept'
      BY DEF TypeOK, Kept, QueuedBelow, Held, Looping
    <2>7. QED BY <2>1, <2>2, <2>3, <2>4, <2>5, <2>6
  <1>2. ASSUME IInv, QueueBuffer PROVE IInv'
    <2> USE <1>2 DEF QueueBuffer
    <2>1. TypeOK'
      <3>0. i \in Buffers /\ pc = "queue"
        BY DEF TypeOK
      <3>1. i' \in -1..QUE_BUF_MAX_NUM /\ queued' \subseteq Buffers
        <4>1. CASE i' = i + 1 /\ queued' = queued \cup {i}
          BY <4>1, <3>0 DEF TypeOK
        <4>2. CASE i' = i /\ queued' = queued
          BY <4>2, <3>0 DEF TypeOK
        <4>3. QED BY <4>1, <4>2
      <3>2. pc' \in {"query", "map", "queue", "unmap"} => i' \in Buffers
        BY <3>0, <3>1 DEF TypeOK
      <3>3. opened' /\ pc' \in {"query", "start", "unmap"}
        BY DEF Openness
      <3>4. QED BY <3>1, <3>2, <3>3 DEF TypeOK
    <2>2. Openness' /\ NothingYet'
      BY DEF TypeOK, Openness, NothingYet, MappedBelow
    <2>3. MappedBelow'
      BY DEF TypeOK, MappedBelow, NothingYet
    <2>4. QueuedBelow'
      BY DEF TypeOK, QueuedBelow, NothingYet
    <2>5. Refused' /\ Backed' /\ UsesOwnBuffer'
      BY DEF TypeOK, Refused, Backed, UsesOwnBuffer, Held, Looping
    <2>6. Kept'
      BY DEF TypeOK, Kept, QueuedBelow, Held, Looping
    <2>7. QED BY <2>1, <2>2, <2>3, <2>4, <2>5, <2>6
  <1>3. QED BY <1>1, <1>2

\* Every mapping lies at or below the buffer that failed, with an address.
LEMMA UndoStep == IInv /\ (Unmap \/ Close) => IInv'
  <1> USE BuffersAssumption DEF IInv, Buffers, Goto, device, buffers
  <1>1. ASSUME IInv, Unmap PROVE IInv'
    <2> USE <1>1 DEF Unmap
    <2>0. mapping' = {}
      <3>1. \A b \in mapping : b \in 0..i /\ addr[b] # "null"
        BY DEF TypeOK, MappedBelow
      <3>2. QED BY <3>1
    <2>1. TypeOK'
      <3>1. i' \in -1..QUE_BUF_MAX_NUM /\ mapping' \subseteq Buffers
        BY <2>0
      <3>2. opened' = opened /\ opened
        BY DEF Openness
      <3>3. /\ granted' \in 0..QUE_BUF_MAX_NUM /\ opened' \in BOOLEAN /\ streaming' \in BOOLEAN
            /\ addr' \in [Buffers -> {"null", "mapped", "failed"}]
            /\ queued' \subseteq Buffers /\ lost' \subseteq Buffers /\ current' \in Buffers
        BY DEF TypeOK
      <3>4. pc' = "close"
        OBVIOUS
      <3>5. QED BY <3>1, <3>2, <3>3, <3>4 DEF TypeOK
    <2>2. Openness' /\ NothingYet'
      BY <2>0 DEF TypeOK, Openness, NothingYet, MappedBelow
    <2>3. MappedBelow'
      BY DEF TypeOK, MappedBelow, NothingYet
    <2>4. QueuedBelow'
      BY DEF TypeOK, QueuedBelow, NothingYet
    <2>5. Refused' /\ Backed' /\ UsesOwnBuffer'
      BY DEF TypeOK, Refused, Backed, UsesOwnBuffer, Held, Looping
    <2>6. Kept'
      BY DEF TypeOK, Kept, QueuedBelow, Held, Looping
    <2>7. QED BY <2>1, <2>2, <2>3, <2>4, <2>5, <2>6
  <1>2. ASSUME IInv, Close PROVE IInv'
    <2> USE <1>2 DEF Close
    <2>1. TypeOK'
      BY DEF TypeOK, Openness
    <2>2. Openness' /\ NothingYet'
      BY DEF TypeOK, Openness, NothingYet, MappedBelow
    <2>3. MappedBelow'
      BY DEF TypeOK, MappedBelow, NothingYet
    <2>4. QueuedBelow'
      BY DEF TypeOK, QueuedBelow, NothingYet
    <2>5. Refused' /\ Backed' /\ UsesOwnBuffer'
      BY DEF TypeOK, Refused, Backed, UsesOwnBuffer, Held, Looping
    <2>6. Kept'
      BY DEF TypeOK, Kept, QueuedBelow, Held, Looping
    <2>7. QED BY <2>1, <2>2, <2>3, <2>4, <2>5, <2>6
  <1>3. QED BY <1>1, <1>2

\* The loop: a buffer is with the driver, in use, or refused.
LEMMA LoopStep == IInv /\ (Start \/ Dequeue \/ Update \/ Send \/ Requeue) => IInv'
  <1> USE BuffersAssumption DEF IInv, Buffers, Goto, device, buffers
  <1>1. ASSUME IInv, Start PROVE IInv'
    <2> USE <1>1 DEF Start
    <2>1. TypeOK'
      BY DEF TypeOK, Openness
    <2>2. Openness' /\ NothingYet'
      BY DEF TypeOK, Openness, NothingYet, MappedBelow
    <2>3. MappedBelow'
      BY DEF TypeOK, MappedBelow, NothingYet
    <2>4. QueuedBelow'
      BY DEF TypeOK, QueuedBelow, NothingYet
    <2>5. Refused' /\ Backed' /\ UsesOwnBuffer'
      BY DEF TypeOK, Refused, Backed, UsesOwnBuffer, Held, Looping
    <2>6. Kept'
      BY DEF TypeOK, Kept, QueuedBelow, Held, Looping
    <2>7. QED BY <2>1, <2>2, <2>3, <2>4, <2>5, <2>6
  <1>2. ASSUME IInv, Dequeue PROVE IInv'
    <2> USE <1>2 DEF Dequeue
    <2>1. TypeOK'
      BY DEF TypeOK, Openness
    <2>2. Openness' /\ NothingYet'
      BY DEF TypeOK, Openness, NothingYet, MappedBelow
    <2>3. MappedBelow'
      BY DEF TypeOK, MappedBelow, NothingYet
    <2>4. QueuedBelow'
      BY DEF TypeOK, QueuedBelow, NothingYet
    <2>5. Refused' /\ Backed' /\ UsesOwnBuffer'
      BY DEF TypeOK, Refused, Backed, UsesOwnBuffer, Held, Looping
    <2>6. Kept'
      BY DEF TypeOK, Kept, QueuedBelow, Held, Looping
    <2>7. QED BY <2>1, <2>2, <2>3, <2>4, <2>5, <2>6
  <1>3. ASSUME IInv, Update PROVE IInv'
    <2> USE <1>3 DEF Update
    <2>1. TypeOK'
      BY DEF TypeOK, Openness
    <2>2. Openness' /\ NothingYet'
      BY DEF TypeOK, Openness, NothingYet, MappedBelow
    <2>3. MappedBelow'
      BY DEF TypeOK, MappedBelow, NothingYet
    <2>4. QueuedBelow'
      BY DEF TypeOK, QueuedBelow, NothingYet
    <2>5. Refused' /\ Backed' /\ UsesOwnBuffer'
      BY DEF TypeOK, Refused, Backed, UsesOwnBuffer, Held, Looping
    <2>6. Kept'
      BY DEF TypeOK, Kept, QueuedBelow, Held, Looping
    <2>7. QED BY <2>1, <2>2, <2>3, <2>4, <2>5, <2>6
  <1>4. ASSUME IInv, Send PROVE IInv'
    <2> USE <1>4 DEF Send
    <2>1. TypeOK'
      BY DEF TypeOK, Openness
    <2>2. Openness' /\ NothingYet'
      BY DEF TypeOK, Openness, NothingYet, MappedBelow
    <2>3. MappedBelow'
      BY DEF TypeOK, MappedBelow, NothingYet
    <2>4. QueuedBelow'
      BY DEF TypeOK, QueuedBelow, NothingYet
    <2>5. Refused' /\ Backed' /\ UsesOwnBuffer'
      BY DEF TypeOK, Refused, Backed, UsesOwnBuffer, Held, Looping
    <2>6. Kept'
      BY DEF TypeOK, Kept, QueuedBelow, Held, Looping
    <2>7. QED BY <2>1, <2>2, <2>3, <2>4, <2>5, <2>6
  <1>5. ASSUME IInv, Requeue PROVE IInv'
    <2> USE <1>5 DEF Requeue
    <2>1. TypeOK'
      BY DEF TypeOK, Openness
    <2>2. Openness' /\ NothingYet'
      BY DEF TypeOK, Openness, NothingYet, MappedBelow
    <2>3. MappedBelow'
      BY DEF TypeOK, MappedBelow, NothingYet
    <2>4. QueuedBelow'
      BY DEF TypeOK, QueuedBelow, NothingYet
    <2>5. Refused' /\ Backed' /\ UsesOwnBuffer'
      BY DEF TypeOK, Refused, Backed, UsesOwnBuffer, Held, Looping
    <2>6. Kept'
      BY DEF TypeOK, Kept, QueuedBelow, Held, Looping
    <2>7. QED BY <2>1, <2>2, <2>3, <2>4, <2>5, <2>6
  <1>6. QED BY <1>1, <1>2, <1>3, <1>4, <1>5

LEMMA SpecIInv == Spec => []IInv
  <1>1. Init => IInv
    BY InitIInv
  <1>2. IInv /\ [Next]_vars => IInv'
    <2>1. ASSUME IInv, UNCHANGED vars PROVE IInv'
      BY <2>1 DEF vars, device, buffers, IInv, TypeOK, Openness, NothingYet, MappedBelow,
                  QueuedBelow, Refused, Backed, UsesOwnBuffer, Kept, Held, Looping
    <2>2. QED BY <2>1, SetupStep, FillStep, UndoStep, LoopStep DEF Next
  <1>3. QED BY <1>1, <1>2, PTL DEF Spec

\* Every variable keeps its type, and capture_init stays inside the array.
THEOREM CaptureTypes == Spec => []TypeOK
  <1>1. IInv => TypeOK
    BY DEF IInv
  <1>2. QED BY <1>1, SpecIInv, PTL

\* A failed capture_init (ERR_1 to ERR_8) leaves no device open and nothing
\* mapped, at whatever buffer it failed.
THEOREM FailureUndoesAll == Spec => []FailureLeavesNothing
  <1>1. IInv => FailureLeavesNothing
    BY DEF IInv, FailureLeavesNothing, Openness, NothingYet
  <1>2. QED BY <1>1, SpecIInv, PTL

\* The buffer the loop copies and sends is not with the driver, and is mapped
\* by the time it is sent.
THEOREM BufferIsOwn == Spec => []UsesOwnBuffer
  <1>1. IInv => UsesOwnBuffer
    BY DEF IInv
  <1>2. QED BY <1>1, SpecIInv, PTL

\* Each buffer is with the driver, in use, or one VIDIOC_QBUF refused.
THEOREM BuffersKept == Spec => []BuffersConserved
  <1>1. IInv => BuffersConserved
    BY DEF IInv, TypeOK, Kept, BuffersConserved, Held, Looping
  <1>2. QED BY <1>1, SpecIInv, PTL
=============================================================================
