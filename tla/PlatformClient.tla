--------------------------- MODULE PlatformClient ---------------------------
(***************************************************************************)
(* The platform's threads around its one client_info_t (socket_client.cpp, *)
(* the connect button of mainwindow.cpp): the window, a client thread for  *)
(* each click on connect, and the recognition thread, which sends the      *)
(* plates.  tcp_state is a plain variable that all of them write, the      *)
(* struct is cleared by each client thread that starts, and no socket is   *)
(* ever closed.  The socket of a client thread is its number; a packet to  *)
(* the server is small and taken by one send().                            *)
(***************************************************************************)
EXTENDS Integers, FiniteSets

CONSTANTS
  Recogn,      \* the recognition thread
  MaxStarts    \* bound: clicks on connect

ASSUME StartsAssumption == MaxStarts \in Nat /\ Recogn \notin Nat

Clients == 1..MaxStarts           \* a client thread, and the socket it makes
Senders == Clients \cup {Recogn}

VARIABLES
  button,        \* what the button offers: "connect" or "disconnect"
  starts,        \* client threads started
  fd,            \* client->fd: 0, -1 or a socket
  tcp_state,
  send_mutex,    \* the word of the mutex: 0 free, 1 held
  pc,            \* where each client thread and the recognition thread are
  sock,          \* per socket, one of SocketStates
  hasFrame,      \* the frame store has a frame, and always will
  alive,         \* the platform process runs
  reset,         \* history: the mutex was initialised or cleared while in use
  lostClose,     \* history: a disconnect was overwritten
  overlapped     \* history: a client thread started while another still ran

client == <<fd, tcp_state, send_mutex>>
window == <<button, starts>>
history == <<reset, lostClose, overlapped>>
vars == <<client, window, pc, sock, hasFrame, alive, history>>

Init ==
  /\ button = "connect"
  /\ starts = 0
  /\ fd = 0
  /\ tcp_state = "DISCONNECT"
  /\ send_mutex = 0
  /\ pc = [s \in Senders |-> IF s = Recogn THEN "idle" ELSE "none"]
  /\ sock = [t \in Clients |-> "none"]
  /\ hasFrame = FALSE
  /\ alive = TRUE
  /\ reset = FALSE
  /\ lostClose = FALSE
  /\ overlapped = FALSE

Goto(s, from, to) == pc[s] = from /\ pc' = [pc EXCEPT ![s] = to]

Running == {t \in Clients : pc[t] \notin {"none", "ended"}}
MutexInUse == send_mutex # 0 \/ \E s \in Senders : pc[s] \in {"send", "unlock"}

\* A socket in handshake is established or refused, connected once connect
\* has returned 0, closed when the monitor is gone.  A refusal is reported
\* by one call; the next connect finds the handshake aborted.
SocketStates == {"none", "idle", "syn", "estab", "conn", "closed", "refused", "aborted"}

\* The state of the socket client->fd names; anything else is no socket.
Socket == IF fd \in Clients THEN sock[fd] ELSE "none"

\* The sockets once send or recv has reported the refusal.
Reported == IF Socket = "refused" THEN [sock EXCEPT ![fd] = "aborted"] ELSE sock
-----------------------------------------------------------------------------
(* on_connectBtn_clicked *)

ClickConnect ==
  /\ button = "connect" /\ starts < MaxStarts
  /\ button' = "disconnect"
  /\ starts' = starts + 1
  /\ \/ pc' = [pc EXCEPT ![starts'] = "memset"]
     \/ pc' = [pc EXCEPT ![starts'] = "ended"]     \* pthread_create failed
  /\ UNCHANGED <<client, sock, hasFrame, alive, history>>

ClickDisconnect ==
  /\ button = "disconnect"
  /\ button' = "connect"
  /\ tcp_state' = "CLOSE"
  /\ UNCHANGED <<fd, send_mutex, starts, pc, sock, hasFrame, alive, history>>
-----------------------------------------------------------------------------
(* client_init *)

ClearStruct(t) ==
  /\ Goto(t, "memset", "socket")
  /\ fd' = 0
  /\ tcp_state' = "DISCONNECT"
  /\ send_mutex' = 0
  /\ reset' = (reset \/ MutexInUse)
  /\ lostClose' = (lostClose \/ button = "connect")
  /\ overlapped' = (overlapped \/ Running # {t})
  /\ UNCHANGED <<window, sock, hasFrame, alive>>

\* Mutant: the result of socket is not looked at.
MakeSocketUnchecked(t) ==
  /\ Goto(t, "socket", "mutex")
  /\ fd' = t
  /\ \/ sock' = [sock EXCEPT ![t] = "idle"]
     \/ UNCHANGED sock
  /\ UNCHANGED <<tcp_state, send_mutex, window, hasFrame, alive, history>>

MakeSocket(t) ==
  /\ \/ /\ Goto(t, "socket", "mutex")
        /\ fd' = t
        /\ sock' = [sock EXCEPT ![t] = "idle"]
     \/ /\ Goto(t, "socket", "ended")
        /\ fd' = -1
        /\ UNCHANGED sock
  /\ UNCHANGED <<tcp_state, send_mutex, window, hasFrame, alive, history>>

MutexInit(t) ==
  /\ Goto(t, "mutex", "ring")
  /\ send_mutex' = 0
  /\ reset' = (reset \/ MutexInUse)
  /\ UNCHANGED <<fd, tcp_state, window, sock, hasFrame, alive, lostClose, overlapped>>

RingInit(t) ==
  /\ Goto(t, "ring", "top") \/ Goto(t, "ring", "ended")
  /\ UNCHANGED <<client, window, sock, hasFrame, alive, history>>
-----------------------------------------------------------------------------
(* client_task_thread: every look at tcp_state is a step *)

\* Mutant: the loop does not look at tcp_state.
TopForever(t) ==
  /\ Goto(t, "top", "switch")
  /\ UNCHANGED <<client, window, sock, hasFrame, alive, history>>

Top(t) ==
  /\ \/ tcp_state = "CLOSE" /\ Goto(t, "top", "ended")
     \/ tcp_state # "CLOSE" /\ Goto(t, "top", "switch")
  /\ UNCHANGED <<client, window, sock, hasFrame, alive, history>>

\* Mutant: heartbeats are sent in every state but CLOSE.
SwitchHeartbeat(t) ==
  /\ \/ tcp_state = "DISCONNECT" /\ Goto(t, "switch", "connect")
     \/ tcp_state # "CLOSE" /\ Goto(t, "switch", "check")
     \/ tcp_state = "DISCONNECT" /\ Goto(t, "switch", "check")
     \/ tcp_state # "DISCONNECT" /\ Goto(t, "switch", "receive?")
  /\ UNCHANGED <<client, window, sock, hasFrame, alive, history>>

\* A heartbeat is due, or not.
Switch(t) ==
  /\ \/ tcp_state = "DISCONNECT" /\ Goto(t, "switch", "connect")
     \/ tcp_state = "CONNECTED" /\ Goto(t, "switch", "check")
     \/ tcp_state # "DISCONNECT" /\ Goto(t, "switch", "receive?")
  /\ UNCHANGED <<client, window, sock, hasFrame, alive, history>>

\* Mutant: a handshake in progress is taken for a connection.
ConnectInProgress(t) ==
  /\ Goto(t, "connect", "store")
  /\ sock' = IF Socket = "idle" THEN [sock EXCEPT ![fd] = "syn"] ELSE sock
  /\ UNCHANGED <<client, window, hasFrame, alive, history>>

\* Mutant: the call that finds the handshake done counts as a failure.
ConnectIgnored(t) ==
  /\ Goto(t, "connect", "receive?")
  /\ \/ Socket = "estab" /\ sock' = [sock EXCEPT ![fd] = "conn"]
     \/ Socket = "idle" /\ sock' = [sock EXCEPT ![fd] = "syn"]
     \/ Socket \in {"refused", "aborted"} /\ sock' = [sock EXCEPT ![fd] = "idle"]
     \/ Socket \in {"none", "syn", "conn", "closed"} /\ UNCHANGED sock
  /\ UNCHANGED <<client, window, hasFrame, alive, history>>

\* connect on the O_NONBLOCK socket: the first call starts the handshake, the
\* first after its end returns 0 or reports the refusal, any other fails.
Connect(t) ==
  /\ \/ /\ Socket = "estab"
        /\ Goto(t, "connect", "store")
        /\ sock' = [sock EXCEPT ![fd] = "conn"]
     \/ /\ Socket = "idle"
        /\ Goto(t, "connect", "receive?")
        /\ sock' = [sock EXCEPT ![fd] = "syn"]
     \/ /\ Socket \in {"refused", "aborted"}
        /\ Goto(t, "connect", "receive?")
        /\ sock' = [sock EXCEPT ![fd] = "idle"]
     \/ /\ Socket \in {"none", "syn", "conn", "closed"}
        /\ Goto(t, "connect", "receive?")
        /\ UNCHANGED sock
  /\ UNCHANGED <<client, window, hasFrame, alive, history>>

StoreConnected(t) ==
  /\ Goto(t, "store", "receive?")
  /\ tcp_state' = "CONNECTED"
  /\ lostClose' = (lostClose \/ tcp_state = "CLOSE")
  /\ UNCHANGED <<fd, send_mutex, window, sock, hasFrame, alive, reset, overlapped>>

Receive(t) ==
  /\ \/ tcp_state = "CONNECTED" /\ Goto(t, "receive?", "receive")
     \/ tcp_state # "CONNECTED" /\ Goto(t, "receive?", "top")
  /\ UNCHANGED <<client, window, sock, hasFrame, alive, history>>

\* client_recv_data and client_proto_handle: a packet of the server, which
\* may be a frame, also one received before the server closed; nothing; or
\* an error that closes.
ReceiveData(t) ==
  /\ Goto(t, "receive", "top")
  /\ \/ Socket \in {"syn", "estab", "conn", "closed"} /\ UNCHANGED <<sock, tcp_state>>
     \/ Socket \notin {"syn", "estab", "conn"} /\ sock' = Reported /\ tcp_state' = "CLOSE"
  /\ \/ Socket \in {"estab", "conn", "closed"} /\ hasFrame' = TRUE
     \/ UNCHANGED hasFrame
  /\ UNCHANGED <<fd, send_mutex, window, alive, history>>

ClientStep(t) ==
  \/ ClearStruct(t)
  \/ MakeSocket(t)
  \/ MutexInit(t)
  \/ RingInit(t)
  \/ Top(t)
  \/ Switch(t)
  \/ Connect(t)
  \/ StoreConnected(t)
  \/ Receive(t)
  \/ ReceiveData(t)

\* opencv_car_recogn_thread: a plate is recognised in the frame stored,
\* again and again and whatever became of the connection it came by.
Recognise ==
  /\ hasFrame
  /\ Goto(Recogn, "idle", "check")
  /\ UNCHANGED <<client, window, sock, hasFrame, alive, history>>
-----------------------------------------------------------------------------
(* client_send_data *)

Done(s) == IF s = Recogn THEN "idle" ELSE "receive?"

SendCheck(s) ==
  /\ \/ fd <= 0 /\ Goto(s, "check", Done(s))
     \/ fd > 0 /\ Goto(s, "check", "lock")
  /\ UNCHANGED <<client, window, sock, hasFrame, alive, history>>

\* Mutant: the send loop is not locked.
SendLockMissing(s) ==
  /\ Goto(s, "lock", "send")
  /\ send_mutex' = 1
  /\ UNCHANGED <<fd, tcp_state, window, sock, hasFrame, alive, history>>

\* What a sleeper may miss when the mutex is cleared is in MonitorServer;
\* here a thread simply waits for the word to be 0.
SendLock(s) ==
  /\ Goto(s, "lock", "send")
  /\ send_mutex = 0
  /\ send_mutex' = 1
  /\ UNCHANGED <<fd, tcp_state, window, sock, hasFrame, alive, history>>

\* send() on client->fd as it now is: the packet is taken, also when the
\* server has just closed; during the handshake, and while the socket's
\* buffer is full, it is tried again with the mutex held.
SendTaken(s) ==
  /\ Socket \in {"estab", "conn", "closed"}
  /\ Goto(s, "send", "unlock")
  /\ UNCHANGED <<client, window, sock, hasFrame, alive, history>>

\* The descriptor is no socket, the connection is broken or was refused.
SendError(s) ==
  /\ Socket \in {"none", "closed", "refused"}
  /\ Goto(s, "send", "unlock")
  /\ tcp_state' = "CLOSE"
  /\ sock' = Reported
  /\ UNCHANGED <<fd, send_mutex, window, hasFrame, alive, history>>

\* The socket is not connected, or no more: SIGPIPE, which nobody ignores.
SigPipe(s) ==
  /\ pc[s] = "send"
  /\ Socket \in {"idle", "aborted", "closed"}
  /\ alive' = FALSE
  /\ UNCHANGED <<client, window, pc, sock, hasFrame, history>>

SendUnlock(s) ==
  /\ Goto(s, "unlock", Done(s))
  /\ send_mutex' = 0
  /\ UNCHANGED <<fd, tcp_state, window, sock, hasFrame, alive, history>>

SendGoesOn(s) ==
  \/ SendCheck(s)
  \/ SendLock(s)
  \/ SendError(s)
  \/ SigPipe(s)
  \/ SendUnlock(s)

SendStep(s) == SendGoesOn(s) \/ SendTaken(s)
-----------------------------------------------------------------------------
(* The network: the monitor accepts, refuses, or closes by its exit *)

Network(k, from, to) ==
  /\ sock[k] = from
  /\ sock' = [sock EXCEPT ![k] = to]
  /\ UNCHANGED <<client, window, pc, hasFrame, alive, history>>

Establish(k) == Network(k, "syn", "estab")
Refuse(k) == Network(k, "syn", "refused")
ServerExits(k) == Network(k, "conn", "closed")
-----------------------------------------------------------------------------
Next ==
  /\ alive
  /\ \/ ClickConnect
     \/ ClickDisconnect
     \/ \E t \in Clients : ClientStep(t)
     \/ Recognise
     \/ \E s \in Senders : SendStep(s)
     \/ \E k \in Clients : Establish(k) \/ Refuse(k) \/ ServerExits(k)

Spec == Init /\ [][Next]_vars

\* Threads run, a handshake ends, and one that is tried again and again
\* succeeds.  The recognition thread sleeps a second after each plate, so
\* the mutex is free for whoever waits.  That the socket has room for a
\* packet is not assumed, and the user clicks when he likes.
FairSpec ==
  /\ Spec
  /\ \A t \in Clients :
       /\ WF_vars(alive /\ (ClientStep(t) \/ SendGoesOn(t)))
       /\ SF_vars(alive /\ Establish(t))
       /\ SF_vars(alive /\ SendLock(t))
  /\ WF_vars(alive /\ SendGoesOn(Recogn))
-----------------------------------------------------------------------------
(* Properties *)

SenderPlaces == {"check", "lock", "send", "unlock"}

\* Every variable has its type; a socket is there from its thread's socket
\* call on.
TypeOK ==
  /\ button \in {"connect", "disconnect"}
  /\ starts \in 0..MaxStarts
  /\ fd \in {0, -1} \cup Clients
  /\ tcp_state \in {"DISCONNECT", "CONNECTED", "CLOSE"}
  /\ send_mutex \in 0..1
  /\ pc[Recogn] \in {"idle"} \cup SenderPlaces
  /\ \A t \in Clients :
       pc[t] \in {"none", "memset", "socket", "mutex", "ring", "top", "switch", "connect",
                  "store", "receive?", "receive", "ended"} \cup SenderPlaces
  /\ sock \in [Clients -> SocketStates]
  /\ hasFrame \in BOOLEAN /\ alive \in BOOLEAN
  /\ reset \in BOOLEAN /\ lostClose \in BOOLEAN /\ overlapped \in BOOLEAN
  /\ fd > 0 => sock[fd] # "none"

SendersInLoop == {s \in Senders : pc[s] \in {"send", "unlock"}}

\* Unless a client thread that starts has cleared the mutex under its users,
\* at most one thread is in the send loop of client_send_data.
ExclusiveUnlessReset == ~reset => Cardinality(SendersInLoop) <= 1

\* tcp_state says CONNECTED only of a socket whose connect succeeded, unless
\* two client threads ran at once: a late store is then of the old socket.
ConnectedIsConnected ==
  tcp_state = "CONNECTED" => overlapped \/ Socket \in {"conn", "closed"}

\* In its first session the program is not killed by SIGPIPE as long as the
\* monitor lives: neither heartbeats nor plates go out before the connect.
FirstSessionSurvives ==
  ~alive => starts > 1 \/ \E k \in Clients : sock[k] = "closed"

\* A click on disconnect ends every client thread, unless the CLOSE it
\* stores is overwritten, the mutex was cleared under its users, or a thread
\* stays in client_send_data for want of room: it does not look at tcp_state.
DisconnectEnds ==
  button = "connect" ~>
    \/ Running = {} \/ button = "disconnect"
    \/ lostClose \/ reset \/ ~alive
    \/ \E s \in Senders : [](pc[s] = "send")

\* A client thread that has made its socket connects in the end, if the
\* monitor accepts in the end, unless another thread changed the socket
\* under it or it is told to close.
ConnectSucceeds ==
  (\E t \in Clients : pc[t] \in {"top", "switch", "connect"}) /\ tcp_state = "DISCONNECT" ~>
    tcp_state # "DISCONNECT" \/ overlapped \/ ~alive
=============================================================================
