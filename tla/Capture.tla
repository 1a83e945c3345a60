------------------------------ MODULE Capture ------------------------------
(***************************************************************************)
(* The monitor's capture thread (capture.cpp) and the buffers it shares    *)
(* with the V4L2 driver: capture_init with its error paths, the start of   *)
(* the stream, and the loop that takes a filled buffer, uses it and gives  *)
(* it back.  What is done with a frame is in NewFrame and MonitorServer.   *)
(* The driver, outside this code, decides every ioctl; the index that the  *)
(* loop counts is overwritten by VIDIOC_DQBUF and left out.                *)
(***************************************************************************)
EXTENDS Integers, FiniteSets

CONSTANTS
  QUE_BUF_MAX_NUM,
  MaxLost            \* bound: VIDIOC_QBUF failures in the loop

ASSUME BuffersAssumption == QUE_BUF_MAX_NUM \in Nat \ {0} /\ MaxLost \in Nat

Buffers == 0..(QUE_BUF_MAX_NUM - 1)

VARIABLES
  pc,          \* where the thread is
  opened,      \* the device is open
  granted,     \* buffers VIDIOC_REQBUFS granted
  i,           \* local of capture_init
  addr,        \* per buffer: "null", "mapped" or "failed" (MAP_FAILED)
  mapping,     \* buffers mapped into the process
  queued,      \* buffers the driver owns
  streaming,   \* VIDIOC_STREAMON succeeded
  current,     \* the buffer taken last
  lost         \* history: buffers VIDIOC_QBUF refused to take back

device == <<opened, granted, streaming>>
buffers == <<addr, mapping, queued>>
vars == <<pc, device, i, buffers, current, lost>>

Init ==
  /\ pc = "open"
  /\ opened = FALSE
  /\ granted = 0
  /\ i = 0
  /\ addr = [b \in Buffers |-> "null"]
  /\ mapping = {}
  /\ queued = {}
  /\ streaming = FALSE
  /\ current = 0
  /\ lost = {}

Goto(from, to) == pc = from /\ pc' = to
-----------------------------------------------------------------------------
(* capture_init *)

\* ERR_1: nothing to undo.
Open ==
  /\ \/ Goto("open", "format") /\ opened' = TRUE
     \/ Goto("open", "failed") /\ UNCHANGED opened
  /\ UNCHANGED <<granted, streaming, i, buffers, current, lost>>

\* A format of the list is set and accepted, or ERR_2, ERR_3, ERR_4.
SetFormat ==
  /\ Goto("format", "request") \/ Goto("format", "close")
  /\ UNCHANGED <<device, i, buffers, current, lost>>

\* The driver may grant fewer buffers than asked for; nobody looks.
RequestBuffers ==
  /\ \/ Goto("request", "query") /\ granted' \in 1..QUE_BUF_MAX_NUM
     \/ Goto("request", "close") /\ UNCHANGED granted               \* ERR_6
  /\ i' = 0
  /\ UNCHANGED <<opened, streaming, buffers, current, lost>>

QueryBuffer ==
  /\ \/ Goto("query", "map") /\ i < granted
     \/ Goto("query", "unmap")                                      \* ERR_7
  /\ UNCHANGED <<device, i, buffers, current, lost>>

\* mmap: MAP_FAILED is not looked for.
MapBuffer ==
  /\ Goto("map", "queue")
  /\ \/ /\ addr' = [addr EXCEPT ![i] = "mapped"]
        /\ mapping' = mapping \cup {i}
     \/ /\ addr' = [addr EXCEPT ![i] = "failed"]
        /\ UNCHANGED mapping
  /\ UNCHANGED <<device, i, queued, current, lost>>

\* Mutant: the loop runs one buffer too far.
QueueBufferPastEnd ==
  /\ \/ /\ queued' = queued \cup {i}
        /\ IF i < QUE_BUF_MAX_NUM THEN Goto("queue", "query") ELSE Goto("queue", "start")
        /\ i' = i + 1
     \/ /\ Goto("queue", "unmap")
        /\ UNCHANGED <<i, queued>>
  /\ UNCHANGED <<device, addr, mapping, current, lost>>

\* VIDIOC_QBUF, and on to the next buffer.
QueueBuffer ==
  /\ \/ /\ queued' = queued \cup {i}
        /\ IF i + 1 < QUE_BUF_MAX_NUM THEN Goto("queue", "query") ELSE Goto("queue", "start")
        /\ i' = i + 1
     \/ /\ Goto("queue", "unmap")                                   \* ERR_8
        /\ UNCHANGED <<i, queued>>
  /\ UNCHANGED <<device, addr, mapping, current, lost>>

\* Mutant: the buffer whose own step failed is not unmapped.
UnmapBelow ==
  /\ Goto("unmap", "close")
  /\ mapping' = mapping \ {b \in 0..(i - 1) : addr[b] # "null"}
  /\ i' = -1
  /\ UNCHANGED <<device, addr, queued, current, lost>>

\* The loop down from the buffer that failed, over those with an address.
Unmap ==
  /\ Goto("unmap", "close")
  /\ mapping' = mapping \ {b \in 0..i : addr[b] # "null"}
  /\ i' = -1
  /\ UNCHANGED <<device, addr, queued, current, lost>>

\* close gives the driver's buffers up.
Close ==
  /\ Goto("close", "failed")
  /\ opened' = FALSE
  /\ queued' = {}
  /\ UNCHANGED <<granted, streaming, i, addr, mapping, current, lost>>
-----------------------------------------------------------------------------
(* capture_thread *)

\* v4l2cap_start: its result is not looked at.
Start ==
  /\ Goto("start", "dequeue")
  /\ streaming' \in BOOLEAN
  /\ UNCHANGED <<opened, granted, i, buffers, current, lost>>

\* Mutant: the failed VIDIOC_DQBUF is not retried but used.
DequeueUnchecked ==
  /\ \/ /\ Goto("dequeue", "update")
        /\ streaming
        /\ \E b \in queued : queued' = queued \ {b} /\ current' = b
     \/ Goto("dequeue", "update") /\ UNCHANGED <<queued, current>>
  /\ UNCHANGED <<device, i, addr, mapping, lost>>

\* VIDIOC_DQBUF gives a filled buffer, or fails and is tried again.
Dequeue ==
  /\ \/ /\ Goto("dequeue", "update")
        /\ streaming
        /\ \E b \in queued : queued' = queued \ {b} /\ current' = b
     \/ Goto("dequeue", "dequeue") /\ UNCHANGED <<queued, current>>
  /\ UNCHANGED <<device, i, addr, mapping, lost>>

\* v4l2cap_update_newframe copies the buffer: at MAP_FAILED it crashes.
Update ==
  /\ \/ addr[current] = "mapped" /\ Goto("update", "send")
     \/ addr[current] # "mapped" /\ Goto("update", "crashed")
  /\ UNCHANGED <<device, i, buffers, current, lost>>

\* proto_0x21_sendframe, or not, by g_send_video_flag.  That it returns is not
\* certain: server_send_data calls send() until the peer has taken it all.
Send ==
  /\ Goto("send", "requeue")
  /\ UNCHANGED <<device, i, buffers, current, lost>>

\* Mutant: the loop goes on without giving the buffer back.
RequeueForgotten ==
  /\ Goto("requeue", "dequeue")
  /\ UNCHANGED <<device, i, buffers, current, lost>>

\* A buffer that VIDIOC_QBUF refuses is not tried again.
Requeue ==
  /\ Goto("requeue", "dequeue")
  /\ \/ /\ queued' = queued \cup {current}
        /\ UNCHANGED lost
     \/ /\ Cardinality(lost) < MaxLost
        /\ lost' = lost \cup {current}
        /\ UNCHANGED queued
  /\ UNCHANGED <<device, i, addr, mapping, current>>
-----------------------------------------------------------------------------
Next ==
  \/ Open
  \/ SetFormat
  \/ RequestBuffers
  \/ QueryBuffer
  \/ MapBuffer
  \/ QueueBuffer
  \/ Unmap
  \/ Close
  \/ Start
  \/ Dequeue
  \/ Update
  \/ Send
  \/ Requeue

Spec == Init /\ [][Next]_vars

\* The thread runs, and a streaming camera fills the buffers it has.  Nothing
\* is assumed of Send.
FairSpec ==
  /\ Spec
  /\ WF_vars(pc # "send" /\ Next)
  /\ SF_vars(Dequeue /\ pc' = "update")
-----------------------------------------------------------------------------
(* Properties *)

Looping == pc \in {"dequeue", "update", "send", "requeue"}
Held == pc \in {"update", "send", "requeue"}

\* Every variable has its type, the loop of capture_init stays inside the
\* array, and the driver owns buffers only while the device is open.
TypeOK ==
  /\ pc \in {"open", "format", "request", "query", "map", "queue", "unmap", "close", "failed",
             "start", "dequeue", "update", "send", "requeue", "crashed"}
  /\ opened \in BOOLEAN /\ streaming \in BOOLEAN
  /\ granted \in 0..QUE_BUF_MAX_NUM
  /\ i \in -1..QUE_BUF_MAX_NUM
  /\ pc \in {"query", "map", "queue", "unmap"} => i \in Buffers
  /\ addr \in [Buffers -> {"null", "mapped", "failed"}]
  /\ mapping \subseteq Buffers
  /\ queued \subseteq Buffers /\ lost \subseteq Buffers
  /\ current \in Buffers
  /\ queued # {} => opened

\* Whatever step of capture_init fails, the error path undoes all that was
\* done before it: the device is closed and nothing stays mapped.
FailureLeavesNothing == pc = "failed" => ~opened /\ mapping = {} /\ queued = {}

\* The frame that is copied and sent lies in a buffer of the loop that the
\* driver cannot be filling at the same time, and what is sent from is
\* mapped: MAP_FAILED gets no further than the copy.
UsesOwnBuffer ==
  /\ Held => current \notin queued /\ current \notin lost /\ addr[current] # "null"
  /\ pc \in {"send", "requeue"} => current \in mapping

\* No buffer goes missing: each is with the driver, in use, or one that
\* VIDIOC_QBUF refused.
BuffersConserved ==
  Looping => queued \cup lost \cup (IF Held THEN {current} ELSE {}) = Buffers

\* A thread whose stream started goes on taking frames until every buffer
\* was refused, a failed mapping stops it, or a send that never ends keeps it:
\* whatever else fails is got over.
FramesGoOn ==
  (Looping /\ streaming) ~>
    (pc = "update" \/ lost = Buffers \/ pc = "crashed" \/ [](pc = "send"))
=============================================================================
