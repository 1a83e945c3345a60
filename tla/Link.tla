-------------------------------- MODULE Link --------------------------------
(***************************************************************************)
(* Both programs over one connection, from the start of its task thread to *)
(* the end of either: the monitor's capture and task threads, which share  *)
(* the send mutex, and its window; the platform's client and recognition   *)
(* threads, which share a send mutex of their own; and what is on its way  *)
(* between them.  Frames and acks fill the way down, heartbeats and plates *)
(* the way up.  Either has room for a few units or packets only, and a     *)
(* sender that finds none keeps its mutex and tries again, so the two      *)
(* programs can wait for each other.                                       *)
(*                                                                         *)
(* The races inside each program, before and between connections, are      *)
(* those of MonitorServer and PlatformClient; here a mutex is free or      *)
(* held, and a packet to the monitor, which is small, is sent in one step. *)
(***************************************************************************)
EXTENDS Integers, Sequences, FiniteSets

CONSTANTS
  Parts,      \* units of a packet to the platform
  Room,       \* units the connection takes to the platform
  RingSize,   \* units the platform's receive ring takes
  Plates,     \* the plates that are recognised
  Blank,
  UpRoom,     \* packets the connection takes to the monitor
  MaxOwed,    \* bound: heartbeats that wait for an answer
  MaxPlates   \* bound: the times a plate is recognised

ASSUME SizesAssumption ==
  /\ Parts \in Nat \ {0} /\ Room \in Nat \ {0} /\ RingSize \in Nat \ {0}
  /\ Parts <= RingSize     \* a frame fits in PROTO_PACK_MAX_LEN
  /\ UpRoom \in Nat \ {0} /\ MaxOwed \in Nat /\ MaxPlates \in Nat
ASSUME PlatesAssumption == {Blank, "heartbeat"} \cap Plates = {}

Senders == {"capture", "task"}       \* of the monitor
Uploaders == {"client", "recogn"}    \* of the platform

VARIABLES
  capture, task,    \* where the monitor's two threads are
  plate,            \* the plate in the task's packet
  send_mutex,       \* its holder, or "free"
  sent,             \* units of the holder's packet sent
  fresh,            \* the monitor's store has a frame the window has not shown
  alive,            \* the monitor runs
  down,             \* units on their way to the platform, oldest first
  recv_ringbuf,     \* the platform's receive ring
  hasFrame,         \* the platform's store has a frame
  tcp_state,        \* of the platform: "CONNECTED", "CLOSE"; or "exited"
  client, recogn,   \* where the platform's two threads are
  client_mutex,     \* its send_mutex: the holder, or "free"
  up,               \* packets on their way to the monitor, oldest first
  owed,             \* heartbeats sent and not answered
  recognised,       \* history: plates recognised
  g_carplate_str, g_carplate_update, window, carplateLab, hurried  \* the monitor's

Box == INSTANCE Plate

mailbox == <<g_carplate_str, g_carplate_update, window, carplateLab, hurried>>
monitor == <<capture, task, plate, send_mutex, sent, fresh, alive, mailbox>>
stored == <<recv_ringbuf, hasFrame, tcp_state>>
uplink == <<client, recogn, client_mutex, recognised>>
platform == <<stored, uplink>>
vars == <<monitor, down, platform, up, owed>>

\* The task has initialised the mutex and is about to loop, and nobody is in
\* the send loop yet.  What the capture thread does before the task's first
\* turn it may also do in its place; only a lock it took before the mutex
\* was initialised is left to MonitorServer.
Init ==
  /\ capture = "camera" /\ task = "loop"
  /\ plate = Blank
  /\ send_mutex = "free" /\ sent = 0
  /\ fresh = FALSE
  /\ alive = TRUE
  /\ down = <<>> /\ recv_ringbuf = <<>>
  /\ hasFrame = FALSE
  /\ tcp_state = "CONNECTED"
  /\ client = "loop" /\ recogn = "idle" /\ client_mutex = "free"
  /\ up = <<>>
  /\ owed = 0 /\ recognised = 0
  /\ Box!Init
-----------------------------------------------------------------------------
(* The monitor: capture_thread, server_task_thread *)

\* A frame of the camera goes to the store, then to the platform.
Frame ==
  /\ capture = "camera" /\ capture' = "lock"
  /\ fresh' = TRUE
  /\ UNCHANGED <<task, plate, send_mutex, sent, alive, mailbox, down, platform, up, owed>>

\* A request that has arrived: a heartbeat is answered, a plate stored.
Handle ==
  /\ task = "loop" /\ up # <<>>
  /\ up' = Tail(up)
  /\ \/ Head(up) = "heartbeat" /\ task' = "lock" /\ UNCHANGED plate
     \/ Head(up) \in Plates /\ task' = "plate" /\ plate' = Head(up)
  /\ UNCHANGED <<capture, send_mutex, sent, fresh, alive, mailbox, down, platform, owed>>

Goto(from, to) == task = from /\ task' = to
TaskOnly == UNCHANGED <<capture, plate, send_mutex, sent, fresh, alive, down, platform, up, owed>>

\* server_0x10_carplate; printf stands between strncpy and the flag.
CopyFirst ==
  /\ Goto("plate", "rest")
  /\ Box!Begin(<<plate, g_carplate_str[2]>>)
  /\ TaskOnly

\* Mutant: only the first half of the string is copied.
CopyRestShort ==
  /\ Goto("rest", "raise")
  /\ UNCHANGED mailbox
  /\ TaskOnly

CopyRest ==
  /\ Goto("rest", "raise")
  /\ Box!Copy(Box!Whole(plate))
  /\ TaskOnly

Raise ==
  /\ Goto("raise", "loop")
  /\ Box!Raise
  /\ TaskOnly
-----------------------------------------------------------------------------
(* server_send_data *)

At(s) == IF s = "capture" THEN capture ELSE task
Move(s, from, to) ==
  /\ At(s) = from
  /\ capture' = IF s = "capture" THEN to ELSE capture
  /\ task' = IF s = "task" THEN to ELSE task

\* Mutant: the mutex is not waited for.
LockNoWait(s) ==
  /\ Move(s, "lock", "send")
  /\ send_mutex' = s
  /\ UNCHANGED <<plate, sent, fresh, alive, mailbox, down, platform, up, owed>>

Lock(s) ==
  /\ Move(s, "lock", "send")
  /\ send_mutex = "free" /\ send_mutex' = s
  /\ UNCHANGED <<plate, sent, fresh, alive, mailbox, down, platform, up, owed>>

Unit(s) == <<IF s = "capture" THEN "frame" ELSE "ack", sent + 1>>

\* Mutant: the loop goes on while total <= len.
SendUnitPastEnd(s) ==
  /\ At(s) = "send"
  /\ tcp_state # "exited" /\ Len(down) < Room
  /\ down' = Append(down, Unit(s))
  /\ sent' = sent + 1
  /\ UNCHANGED <<capture, task, plate, send_mutex, fresh, alive, mailbox, platform, up, owed>>

\* send() fails while there is no room, and is called again.
SendUnit(s) ==
  /\ At(s) = "send" /\ sent < Parts
  /\ tcp_state # "exited" /\ Len(down) < Room
  /\ down' = Append(down, Unit(s))
  /\ sent' = sent + 1
  /\ UNCHANGED <<capture, task, plate, send_mutex, fresh, alive, mailbox, platform, up, owed>>

\* The platform's exit closes its socket: SIGPIPE ends the monitor.
SigPipe(s) ==
  /\ At(s) = "send" /\ sent < Parts
  /\ tcp_state = "exited"
  /\ alive' = FALSE
  /\ UNCHANGED <<capture, task, plate, send_mutex, sent, fresh, mailbox, down, platform, up, owed>>

\* Mutant: the mutex is not released.
UnlockForgotten(s) ==
  /\ sent = Parts
  /\ Move(s, "send", IF s = "capture" THEN "camera" ELSE "loop")
  /\ sent' = 0
  /\ UNCHANGED <<plate, send_mutex, fresh, alive, mailbox, down, platform, up, owed>>

Unlock(s) ==
  /\ sent = Parts
  /\ Move(s, "send", IF s = "capture" THEN "camera" ELSE "loop")
  /\ send_mutex' = "free"
  /\ sent' = 0
  /\ UNCHANGED <<plate, fresh, alive, mailbox, down, platform, up, owed>>
-----------------------------------------------------------------------------
(* The monitor's window_display looks for a plate when there is a new frame *)

Look ==
  /\ fresh /\ window = "idle"
  /\ fresh' = FALSE
  /\ \/ Box!Look
     \/ ~g_carplate_update /\ UNCHANGED mailbox
  /\ UNCHANGED <<capture, task, plate, send_mutex, sent, alive, down, platform, up, owed>>

ShowPlate ==
  /\ Box!Show \/ Box!Lower
  /\ UNCHANGED <<capture, task, plate, send_mutex, sent, fresh, alive, down, platform, up, owed>>

MonitorStep ==
  /\ alive
  /\ \/ Frame
     \/ Handle
     \/ CopyFirst
     \/ CopyRest
     \/ Raise
     \/ \E s \in Senders : Lock(s) \/ SendUnit(s) \/ SigPipe(s) \/ Unlock(s)
     \/ Look
     \/ ShowPlate
-----------------------------------------------------------------------------
(* The platform: client_task_thread, opencv_car_recogn_thread, the button *)

\* A turn of the client's loop in which a heartbeat is due.
Heartbeat ==
  /\ tcp_state = "CONNECTED" /\ owed < MaxOwed
  /\ client = "loop" /\ client' = "lock"
  /\ UNCHANGED <<monitor, down, stored, recogn, client_mutex, recognised, up, owed>>

\* The recognition thread has a plate of the frame stored, also after a
\* disconnect.
Recognise ==
  /\ hasFrame /\ recognised < MaxPlates
  /\ recogn = "idle" /\ recogn' = "lock"
  /\ recognised' = recognised + 1
  /\ UNCHANGED <<monitor, down, stored, client, client_mutex, up, owed>>

(* client_send_data *)

PlaceOf(t) == IF t = "client" THEN client ELSE recogn
MoveUp(t, from, to) ==
  /\ PlaceOf(t) = from
  /\ client' = IF t = "client" THEN to ELSE client
  /\ recogn' = IF t = "recogn" THEN to ELSE recogn

LockUp(t) ==
  /\ MoveUp(t, "lock", "send")
  /\ client_mutex = "free" /\ client_mutex' = t
  /\ UNCHANGED <<monitor, down, stored, recognised, up, owed>>

Packet(t) == IF t = "client" THEN {"heartbeat"} ELSE Plates

\* Mutant: the mutex is not released.
SendUpForgets(t) ==
  /\ MoveUp(t, "send", IF t = "client" THEN "loop" ELSE "idle")
  /\ Len(up) < UpRoom
  /\ \E p \in Packet(t) : up' = Append(up, p)
  /\ owed' = IF t = "client" THEN owed + 1 ELSE owed
  /\ UNCHANGED <<monitor, down, stored, client_mutex, recognised>>

\* send() fails with EAGAIN while there is no room, and is called again with
\* the mutex held; then the mutex is released.
SendUp(t) ==
  /\ MoveUp(t, "send", IF t = "client" THEN "loop" ELSE "idle")
  /\ Len(up) < UpRoom
  /\ \E p \in Packet(t) : up' = Append(up, p)
  /\ owed' = IF t = "client" THEN owed + 1 ELSE owed
  /\ client_mutex' = "free"
  /\ UNCHANGED <<monitor, down, stored, recognised>>

WholePacket(ring) == \E k \in DOMAIN ring : ring[k][2] = Parts

\* A turn of the client's loop: what has arrived and finds room in the ring
\* is received, and the packet in front, if it is there, is handled.
Receive ==
  /\ tcp_state = "CONNECTED" /\ client = "loop"
  /\ \E n \in 0..Len(down) :
       LET ring == recv_ringbuf \o SubSeq(down, 1, n)
       IN  /\ Len(ring) <= RingSize
           /\ down' = SubSeq(down, n + 1, Len(down))
           /\ \/ /\ WholePacket(ring)
                 /\ recv_ringbuf' = SubSeq(ring, Parts + 1, Len(ring))
                 /\ hasFrame' = (hasFrame \/ ring[1][1] = "frame")
                 /\ owed' = IF ring[1][1] = "ack" THEN owed - 1 ELSE owed
              \/ /\ ~WholePacket(ring)
                 /\ recv_ringbuf' = ring
                 /\ UNCHANGED <<hasFrame, owed>>
  /\ UNCHANGED <<monitor, tcp_state, uplink, up>>

\* The button ends the reading, once the client is back from a send, and
\* leaves the socket open.
Disconnect ==
  /\ tcp_state = "CONNECTED" /\ tcp_state' = "CLOSE"
  /\ UNCHANGED <<monitor, down, recv_ringbuf, hasFrame, uplink, up, owed>>

\* What was on its way to the platform goes with it.
Exit ==
  /\ tcp_state # "exited" /\ tcp_state' = "exited"
  /\ down' = <<>> /\ recv_ringbuf' = <<>>
  /\ hasFrame' = FALSE
  /\ client' = "loop" /\ recogn' = "idle" /\ client_mutex' = "free"
  /\ owed' = 0
  /\ UNCHANGED <<monitor, recognised, up>>

Next ==
  \/ MonitorStep
  \/ Heartbeat
  \/ Recognise
  \/ \E t \in Uploaders : LockUp(t) \/ SendUp(t)
  \/ Receive
  \/ Disconnect
  \/ Exit

Spec == Init /\ [][Next]_vars

\* Threads run, the camera has another frame, and the window's timer fires.
\* The capture thread waits for the camera without the mutex, and the
\* recognition thread sleeps a second without it, so who waits for a mutex
\* gets it in the end; and every turn of the client receives, also one with
\* a heartbeat.  Heartbeats, plates and clicks are not assumed.
FairSpec ==
  /\ Spec
  /\ WF_vars(alive /\ Frame)
  /\ WF_vars(alive /\ (Handle \/ CopyFirst \/ CopyRest \/ Raise))
  /\ WF_vars(alive /\ (Look \/ ShowPlate))
  /\ \A s \in Senders : SF_vars(alive /\ Lock(s))
  /\ WF_vars(alive /\ \E s \in Senders : SendUnit(s) \/ Unlock(s))
  /\ SF_vars(LockUp("client"))
  /\ WF_vars(\E t \in Uploaders : SendUp(t))
  /\ SF_vars(Receive)
-----------------------------------------------------------------------------
(* Properties *)

\* Every variable has its type; neither way of the connection nor the ring
\* takes more than it has room for.
TypeOK ==
  /\ capture \in {"camera", "lock", "send"}
  /\ task \in {"loop", "lock", "send", "plate", "rest", "raise"}
  /\ plate \in Plates \cup {Blank}
  /\ send_mutex \in Senders \cup {"free"}
  /\ sent \in 0..Parts
  /\ {fresh, alive, hasFrame} \subseteq BOOLEAN
  /\ down \in Seq({"frame", "ack"} \X (1..Parts))
  /\ recv_ringbuf \in Seq({"frame", "ack"} \X (1..Parts))
  /\ Len(down) <= Room /\ Len(recv_ringbuf) <= RingSize
  /\ tcp_state \in {"CONNECTED", "CLOSE", "exited"}
  /\ client \in {"loop", "lock", "send"} /\ recogn \in {"idle", "lock", "send"}
  /\ client_mutex \in Uploaders \cup {"free"}
  /\ up \in Seq(Plates \cup {"heartbeat"}) /\ Len(up) <= UpRoom
  /\ owed \in 0..MaxOwed /\ recognised \in 0..MaxPlates
  /\ Box!TypeOK(Plates)

\* What the platform has yet to read is whole packets one after the other,
\* the last one perhaps begun and its sender in the loop with the rest.
Unread == recv_ringbuf \o down
StreamWhole ==
  /\ \A k \in DOMAIN Unread :
       /\ Unread[k][2] = ((k - 1) % Parts) + 1
       /\ Unread[k][2] > 1 => Unread[k - 1][1] = Unread[k][1]
  /\ Len(Unread) % Parts > 0 =>
       \E s \in Senders : At(s) = "send" /\ Unread[Len(Unread)] = <<Unit(s)[1], sent>>

\* Whom a thread waits for in the two send functions: the holder of its
\* mutex, or the thread that would make room; and a client that found its
\* ring full of part of a packet would wait for itself.
WaitsFor(t, u) ==
  \/ t \in Senders /\ At(t) = "lock" /\ send_mutex = u
  \/ t \in Senders /\ At(t) = "send" /\ sent < Parts /\ Len(down) = Room /\ u = "client"
  \/ t \in Uploaders /\ PlaceOf(t) = "lock" /\ client_mutex = u
  \/ t \in Uploaders /\ PlaceOf(t) = "send" /\ Len(up) = UpRoom /\ u = "task"
  \/ t = "client" /\ client = "loop" /\ u = "client"
     /\ Len(recv_ringbuf) = RingSize /\ ~WholePacket(recv_ringbuf)

WaitInCircle ==
  \E T \in (SUBSET (Senders \cup Uploaders)) \ {{}} : \A t \in T : \E u \in T : WaitsFor(t, u)

\* Both ways are full, and neither program reads: the monitor's task waits
\* to send its ack, the platform's client to send its heartbeat.
Jammed ==
  /\ Len(down) = Room /\ sent < Parts
  /\ \E s \in Senders : At(s) = "send"
  /\ Len(up) = UpRoom
  /\ \E t \in Uploaders : PlaceOf(t) = "send"
  /\ task \in {"lock", "send"} /\ client \in {"lock", "send"}

\* The four threads wait for each other in a circle only when both ways of
\* the connection are full; as long as either has room, whoever waits for a
\* mutex, for room or for a packet waits for a thread that can go on.
OnlyJamIsCircle == WaitInCircle => Jammed

Ended == tcp_state # "CONNECTED" \/ ~alive

\* Heartbeats are answered as long as the connection is used, though an
\* answer waits for the frames before it and for the mutex: the number of
\* those that wait changes, and falls when it has reached the bound, unless
\* both ways fill up.
HeartbeatsAnswered ==
  \A n \in 1..MaxOwed : owed = n ~> owed # n \/ Ended \/ Jammed

\* A plate on its way to the monitor is shown there as long as the
\* connection is used, which takes another frame of the camera, unless a
\* plate is stored before the one before it was shown or both ways fill up.
PlateReachesWindow ==
  \A p \in Plates :
    (\E k \in DOMAIN up : up[k] = p) ~>
      carplateLab = Box!Whole(p) \/ hurried \/ Ended \/ Jammed
=============================================================================
