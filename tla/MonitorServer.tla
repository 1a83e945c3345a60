--------------------------- MODULE MonitorServer ---------------------------
(***************************************************************************)
(* The monitor's threads around its one client_info_t: the listen thread   *)
(* (server_listen_thread), one task thread per accepted connection         *)
(* (server_task_thread), and the capture thread, which sends the frames    *)
(* (proto_0x21_sendframe).  All of them use the same fd, send_mutex and    *)
(* buffers, whichever connection they were started for.                    *)
(*                                                                         *)
(* A packet is Parts units that send() takes one or more at a time.  A     *)
(* default pthread mutex is a word (0 free, 1 held, 2 held and contended)  *)
(* with sleepers that only an unlock of a contended word wakes.            *)
(***************************************************************************)
EXTENDS Integers, Sequences, FiniteSets

CONSTANTS
  Capture,      \* the capture thread
  MaxConns,     \* bound: connections accepted
  Requests,     \* the kinds of requests the peers make
  MaxRequests,  \* bound: requests of one peer that wait to be read
  Parts         \* units of a packet

ASSUME BoundsAssumption ==
  /\ MaxConns \in Nat /\ MaxRequests \in Nat
  /\ Parts \in Nat \ {0}
  /\ Capture \notin Int
ASSUME RequestsAssumption == Requests \subseteq {"heartbeat", "plate", "on", "off"}

Conns == 1..MaxConns    \* a connection, its fd and its task thread
Senders == Conns \cup {Capture}

VARIABLES
  client_fd,          \* server->client.fd: 0, -1 or a connection
  send_mutex,         \* the word of the mutex
  tmp_buf,            \* the task whose ack is in client->tmp_buf, or 0
  g_send_video_flag,
  listening,          \* the listen thread: "accept", "create", or "ended"
  accepted,           \* connections accepted so far
  pc,                 \* where each task thread and the capture thread are
  sent,               \* per sender: units of its packet sent
  blockedOn,          \* per sender: the connection a blocking send is in, or 0
  nonblock,           \* the connections set to O_NONBLOCK
  peer,               \* per connection: "none", "reading", "silent", "gone"
  requests,           \* per connection: requests on their way to the monitor
  alive,              \* the monitor process runs
  partial,            \* history: the packet a connection has a part of, or <<>>
  damage,             \* history: how packets were broken up: "order", "buffer"
  reinit,             \* history: the mutex was initialised while in use
  swapped             \* history: client_fd changed under a packet half sent

shared == <<client_fd, send_mutex, tmp_buf, g_send_video_flag>>
listener == <<listening, accepted>>
network == <<peer, requests>>
stream == <<partial, damage>>
history == <<reinit, swapped>>
vars == <<shared, listener, pc, sent, blockedOn, nonblock, network, alive,
          stream, history>>

Init ==
  /\ client_fd = 0
  /\ send_mutex = 0
  /\ tmp_buf = 0
  /\ g_send_video_flag = TRUE
  /\ listening \in {"accept", "ended"}       \* server_init may fail
  /\ accepted = 0
  /\ pc = [s \in Senders |-> IF s = Capture THEN "frame" ELSE "none"]
  /\ sent = [s \in Senders |-> 0]
  /\ blockedOn = [s \in Senders |-> 0]
  /\ nonblock = {}
  /\ peer = [c \in Conns |-> "none"]
  /\ requests = [c \in Conns |-> <<>>]
  /\ alive = TRUE
  /\ partial = [c \in Conns |-> <<>>]
  /\ damage = {}
  /\ reinit = FALSE
  /\ swapped = FALSE

Goto(s, from, to) == pc[s] = from /\ pc' = [pc EXCEPT ![s] = to]

\* A sender inside the loop of server_send_data.
Sending(s) == pc[s] = "send"
HalfSent(s) == Sending(s) /\ sent[s] > 0 /\ sent[s] < Parts
MutexInUse == send_mutex # 0 \/ \E s \in Senders : pc[s] \in {"send", "asleep"}
-----------------------------------------------------------------------------
(* server_listen_thread *)

\* accept returns into the fd that every thread uses; the socket it replaces
\* is not closed.
Accept ==
  /\ listening = "accept" /\ accepted < MaxConns
  /\ accepted' = accepted + 1
  /\ client_fd' = accepted'
  /\ listening' = "create"
  /\ peer' = [peer EXCEPT ![accepted'] = "reading"]
  /\ swapped' = (swapped \/ \E s \in Senders : HalfSent(s))
  /\ UNCHANGED <<send_mutex, tmp_buf, g_send_video_flag, pc, sent, blockedOn, nonblock,
                 requests, alive, stream, reinit>>

\* accept fails and leaves its -1 in the same place.
AcceptFails ==
  /\ listening = "accept"
  /\ client_fd' = -1
  /\ swapped' = (swapped \/ \E s \in Senders : HalfSent(s))
  /\ UNCHANGED <<send_mutex, tmp_buf, g_send_video_flag, listener, pc, sent, blockedOn,
                 nonblock, network, alive, stream, reinit>>

Create ==
  /\ listening = "create"
  /\ listening' = "accept"
  /\ \/ pc' = [pc EXCEPT ![accepted] = "init"]
     \/ UNCHANGED pc                            \* pthread_create failed
  /\ UNCHANGED <<shared, accepted, sent, blockedOn, nonblock, network, alive,
                 stream, history>>
-----------------------------------------------------------------------------
(* server_task_thread *)

MutexInit(t) ==
  /\ Goto(t, "init", "nonblock")
  /\ send_mutex' = 0
  /\ reinit' = (reinit \/ MutexInUse)
  /\ UNCHANGED <<client_fd, tmp_buf, g_send_video_flag, listener, sent, blockedOn, nonblock,
                 network, alive, stream, swapped>>

SetNonblock(t) ==
  /\ Goto(t, "nonblock", "ring")
  /\ nonblock' = nonblock \cup ({client_fd} \cap Conns)
  /\ UNCHANGED <<shared, listener, sent, blockedOn, network, alive, stream, history>>

RingInit(t) ==
  /\ \/ Goto(t, "ring", "loop")
     \/ Goto(t, "ring", "ended")                \* malloc failed
  /\ UNCHANGED <<shared, listener, sent, blockedOn, nonblock, network, alive,
                 stream, history>>

Tasks == {t \in Conns : pc[t] \notin {"none", "ended"}}

\* server_recv_data and proto_detect_packet find no packet: tmp_buf is
\* cleared all the same.
Poll(t) ==
  /\ pc[t] = "loop"
  /\ tmp_buf' = 0
  /\ UNCHANGED <<client_fd, send_mutex, g_send_video_flag, listener, pc, sent, blockedOn,
                 nonblock, network, alive, stream, history>>

\* Tasks that run together use one receive ring without a lock: between
\* them a request may be detected twice, or not at all.
Detected(c, rest) ==
  \/ rest = Tail(requests[c])
  \/ Cardinality(Tasks) > 1 /\ rest = requests[c]

\* Mutant: the buffer of the ack is cleared again after the ack is built.
HandleClearsAck(t) ==
  /\ pc[t] = "loop"
  /\ client_fd \in Conns /\ requests[client_fd] # <<>>
  /\ requests' = [requests EXCEPT ![client_fd] = Tail(@)]
  /\ Head(requests[client_fd]) = "heartbeat"
  /\ tmp_buf' = 0
  /\ pc' = [pc EXCEPT ![t] = "check"]
  /\ UNCHANGED <<client_fd, send_mutex, g_send_video_flag, listener, sent, blockedOn,
                 nonblock, peer, alive, stream, history>>

\* server_proto_handle: the handler of the request, and the ack it builds.
Handle(t) ==
  /\ pc[t] = "loop"
  /\ client_fd \in Conns /\ requests[client_fd] # <<>>
  /\ \E rest \in {requests[client_fd], Tail(requests[client_fd])} :
       /\ Detected(client_fd, rest)
       /\ requests' = [requests EXCEPT ![client_fd] = rest]
  /\ \/ /\ Head(requests[client_fd]) = "heartbeat"
        /\ tmp_buf' = t
        /\ pc' = [pc EXCEPT ![t] = "check"]
        /\ UNCHANGED g_send_video_flag
     \/ /\ Head(requests[client_fd]) \in {"on", "off"}
        /\ tmp_buf' = 0
        /\ g_send_video_flag' = (Head(requests[client_fd]) = "on")
        /\ UNCHANGED pc
     \/ /\ Head(requests[client_fd]) = "plate"    \* stored, see Link
        /\ tmp_buf' = 0
        /\ UNCHANGED <<g_send_video_flag, pc>>
  /\ UNCHANGED <<client_fd, send_mutex, listener, sent, blockedOn, nonblock, peer,
                 alive, stream, history>>

\* The race of two tasks loses a request.
LoseRequest(t) ==
  /\ pc[t] = "loop" /\ Cardinality(Tasks) > 1
  /\ client_fd \in Conns /\ requests[client_fd] # <<>>
  /\ requests' = [requests EXCEPT ![client_fd] = Tail(@)]
  /\ tmp_buf' = 0
  /\ UNCHANGED <<client_fd, send_mutex, g_send_video_flag, listener, pc, sent, blockedOn,
                 nonblock, peer, alive, stream, history>>

TaskStep(t) ==
  \/ MutexInit(t)
  \/ SetNonblock(t)
  \/ RingInit(t)
  \/ Poll(t)
  \/ Handle(t)
  \/ LoseRequest(t)
-----------------------------------------------------------------------------
(* capture_thread: a frame is sent while the flag is set *)

CaptureFrame ==
  /\ g_send_video_flag
  /\ Goto(Capture, "frame", "check")
  /\ UNCHANGED <<shared, listener, sent, blockedOn, nonblock, network, alive, stream, history>>
-----------------------------------------------------------------------------
(* server_send_data *)

Done(s) == IF s = Capture THEN "frame" ELSE "loop"

SendCheck(s) ==
  /\ \/ client_fd <= 0 /\ Goto(s, "check", Done(s))
     \/ client_fd > 0 /\ Goto(s, "check", "lock")
  /\ UNCHANGED <<shared, listener, sent, blockedOn, nonblock, network, alive, stream, history>>

\* Mutant: the send loop is not locked.
SendLockMissing(s) ==
  /\ Goto(s, "lock", "send")
  /\ UNCHANGED <<shared, listener, sent, blockedOn, nonblock, network, alive, stream, history>>

\* pthread_mutex_lock, and the same for a sleeper that has been woken, which
\* marks the word contended.
SendLock(s) ==
  /\ pc[s] \in {"lock", "woken"}
  /\ \/ /\ send_mutex = 0
        /\ send_mutex' = IF pc[s] = "lock" THEN 1 ELSE 2
        /\ pc' = [pc EXCEPT ![s] = "send"]
     \/ /\ send_mutex # 0
        /\ send_mutex' = 2
        /\ pc' = [pc EXCEPT ![s] = "asleep"]
  /\ UNCHANGED <<client_fd, tmp_buf, g_send_video_flag, listener, sent, blockedOn, nonblock,
                 network, alive, stream, history>>

\* The connection the next send() of s goes to: client->fd is read again for
\* each, but a send() that blocks stays where it began.
Target(s) == IF blockedOn[s] # 0 THEN blockedOn[s] ELSE client_fd

\* What a unit of s's packet does to the packets of connection c: it may
\* come where another packet's unit was due, or from a buffer that is no
\* longer that packet's.
PutUnit(s, c) ==
  LET unit == sent[s] + 1
      due == partial[c] = IF unit = 1 THEN <<>> ELSE <<s, sent[s]>>
  IN  /\ partial' = [partial EXCEPT ![c] =
                       IF due /\ unit < Parts THEN <<s, unit>> ELSE <<>>]
      /\ damage' = damage \cup (IF due THEN {} ELSE {"order"})
                          \cup (IF s = Capture \/ tmp_buf = s THEN {} ELSE {"buffer"})

\* Mutant: the loop goes on while total <= len.
SendUnitPastEnd(s) ==
  LET c == Target(s)
  IN  /\ Sending(s)
      /\ c \in Conns
      /\ sent' = [sent EXCEPT ![s] = @ + 1]
      /\ blockedOn' = [blockedOn EXCEPT ![s] = 0]
      /\ PutUnit(s, c)
      /\ UNCHANGED <<shared, listener, pc, nonblock, network, alive, history>>

\* send() takes a unit; when the kernel has no room it fails and is called
\* again.  It blocks on a socket that is not O_NONBLOCK yet until the whole
\* packet is taken.
SendUnit(s) ==
  LET c == Target(s)
  IN  /\ Sending(s) /\ sent[s] < Parts
      /\ c \in Conns
      /\ sent' = [sent EXCEPT ![s] = @ + 1]
      /\ blockedOn' = [blockedOn EXCEPT ![s] =
           IF sent'[s] < Parts /\ (blockedOn[s] # 0 \/ c \notin nonblock) THEN c ELSE 0]
      /\ PutUnit(s, c)
      /\ UNCHANGED <<shared, listener, pc, nonblock, network, alive, history>>

\* send() to a peer that is gone raises SIGPIPE, which nobody ignores.
SigPipe(s) ==
  /\ Sending(s) /\ sent[s] < Parts
  /\ Target(s) \in Conns /\ peer[Target(s)] = "gone"
  /\ alive' = FALSE
  /\ UNCHANGED <<shared, listener, pc, sent, blockedOn, nonblock, network, stream,
                 history>>

\* Mutant: the mutex is not released.
SendUnlockForgotten(s) ==
  /\ Sending(s) /\ sent[s] = Parts
  /\ sent' = [sent EXCEPT ![s] = 0]
  /\ pc' = [pc EXCEPT ![s] = Done(s)]
  /\ UNCHANGED <<shared, listener, blockedOn, nonblock, network, alive, stream, history>>

SendUnlock(s) ==
  /\ Sending(s) /\ sent[s] = Parts
  /\ send_mutex' = 0
  /\ sent' = [sent EXCEPT ![s] = 0]
  /\ LET asleep == {w \in Senders : pc[w] = "asleep"}
         free == [pc EXCEPT ![s] = Done(s)]
     IN  IF send_mutex = 2 /\ asleep # {}
           THEN \E w \in asleep : pc' = [free EXCEPT ![w] = "woken"]
           ELSE pc' = free
  /\ UNCHANGED <<client_fd, tmp_buf, g_send_video_flag, listener, blockedOn, nonblock,
                 network, alive, stream, history>>

SendStep(s) ==
  \/ SendCheck(s)
  \/ SendLock(s)
  \/ SendUnit(s)
  \/ SendUnlock(s)
-----------------------------------------------------------------------------
(* The peers: the platform program at the other end of each connection *)

PeerRequest(c, k) ==
  /\ peer[c] = "reading" /\ Len(requests[c]) < MaxRequests
  /\ requests' = [requests EXCEPT ![c] = Append(@, k)]
  /\ UNCHANGED <<shared, listener, pc, sent, blockedOn, nonblock, peer,
                 alive, stream, history>>

\* The platform's disconnect leaves the socket open and reads no more; its
\* exit closes it.
PeerStops(c) ==
  /\ \/ peer[c] = "reading" /\ peer' = [peer EXCEPT ![c] = "silent"]
     \/ peer[c] \in {"reading", "silent"} /\ peer' = [peer EXCEPT ![c] = "gone"]
  /\ UNCHANGED <<shared, listener, pc, sent, blockedOn, nonblock, requests,
                 alive, stream, history>>

PeerStep(c) ==
  \/ \E k \in Requests : PeerRequest(c, k)
  \/ PeerStops(c)
-----------------------------------------------------------------------------
Next ==
  /\ alive
  /\ \/ Accept
     \/ AcceptFails
     \/ Create
     \/ \E t \in Conns : TaskStep(t)
     \/ CaptureFrame
     \/ \E s \in Senders : SendStep(s) \/ SigPipe(s)
     \/ \E c \in Conns : PeerStep(c)

Spec == Init /\ [][Next]_vars

\* Threads run, and the kernel has room in time for a peer that reads.  New
\* connections, frames and requests are not assumed.  A task whose request is there finds
\* it however often it polls before.  Between two frames the capture thread
\* waits for the camera, so a thread at a mutex that is free time and again
\* takes it in the end.
FairSpec ==
  /\ Spec
  /\ WF_vars(alive /\ Create)
  /\ \A t \in Conns :
       /\ WF_vars(alive /\ (MutexInit(t) \/ SetNonblock(t) \/ RingInit(t)))
       /\ WF_vars(alive /\ Handle(t))
  /\ \A s \in Senders :
       /\ WF_vars(alive /\ (SendCheck(s) \/ SendLock(s) \/ SendUnlock(s)))
       /\ WF_vars(alive /\ SendUnit(s) /\ peer[Target(s)] = "reading")
       /\ SF_vars(alive /\ send_mutex = 0 /\ SendLock(s))
-----------------------------------------------------------------------------
(* Properties *)

SenderPlaces == {"check", "lock", "asleep", "woken", "send"}

\* Every variable has its type; a unit goes only where a connection is.
TypeOK ==
  /\ client_fd \in {0, -1} \cup Conns
  /\ send_mutex \in 0..2
  /\ tmp_buf \in {0} \cup Conns
  /\ g_send_video_flag \in BOOLEAN
  /\ listening \in {"accept", "create", "ended"}
  /\ accepted \in 0..MaxConns
  /\ pc[Capture] \in {"frame"} \cup SenderPlaces
  /\ \A t \in Conns :
       pc[t] \in {"none", "init", "nonblock", "ring", "loop", "ended"} \cup SenderPlaces
  /\ sent \in [Senders -> 0..Parts]
  /\ blockedOn \in [Senders -> {0} \cup Conns]
  /\ nonblock \subseteq Conns
  /\ peer \in [Conns -> {"none", "reading", "silent", "gone"}]
  /\ requests \in [Conns -> Seq(Requests)]
  /\ alive \in BOOLEAN /\ reinit \in BOOLEAN /\ swapped \in BOOLEAN
  /\ damage \subseteq {"order", "buffer"}
  /\ \A c \in Conns : peer[c] = "none" <=> c > accepted

SendersInLoop == {s \in Senders : Sending(s)}

\* Unless a task has initialised the mutex under its users, at most one
\* thread is in the send loop, and the word says whether one is.
ExclusiveUnlessReinit ==
  ~reinit => /\ Cardinality(SendersInLoop) <= 1
             /\ send_mutex # 0 <=> SendersInLoop # {}

\* The units of a connection's packets come in order, even with two clients
\* and two tasks, unless the mutex was initialised in use or the connection
\* was replaced under a packet half sent.
PacketsInOrder ==
  "order" \in damage => reinit \/ swapped

\* An ack is sent from the buffer it was built in, unless a second task
\* shares that buffer.
AcksKeepTheirBuffer ==
  "buffer" \in damage => accepted > 1

\* A thread that got to server_send_data comes out of it, as long as the
\* connection is there, its peer reads and the mutex is not initialised
\* under its users.
SendEnds ==
  \A s \in Senders :
    pc[s] \in SenderPlaces ~>
      \/ pc[s] \notin SenderPlaces
      \/ reinit \/ ~alive
      \/ client_fd <= 0
      \/ \E c \in Conns : peer[c] \in {"silent", "gone"}

\* With one client, a heartbeat that arrived is handled: the capture thread's
\* sending never starves the task of the mutex.
RequestsHandled ==
  \A c \in Conns :
    requests[c] # <<>> ~>
      \/ requests[c] = <<>>
      \/ reinit \/ ~alive \/ accepted > 1
      \/ client_fd <= 0
      \/ peer[c] # "reading"
      \/ pc[c] \in {"none", "ended"}

\* The comments of server_send_data, "lock" before the loop and "unlock"
\* after it: one thread at a time is between them.
SendLoopLocked == Cardinality(SendersInLoop) <= 1
=============================================================================
