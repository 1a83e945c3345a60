------------------------ MODULE MonitorServerProofs ------------------------
(***************************************************************************)
(* The monitor's threads keep their types; the lock of server_send_data    *)
(* excludes, packets stay in order and acks in their buffer, for every      *)
(* number of connections, requests and units, up to the events the         *)
(* properties name: a mutex initialised in use, a connection replaced      *)
(* under a packet half sent, a second task.                                *)
(***************************************************************************)
EXTENDS MonitorServer, SequenceTheorems, FiniteSetTheorems, TLAPS

TaskPlaces == {"none", "init", "nonblock", "ring", "loop", "ended"}
Places == {"frame"} \cup TaskPlaces \cup {"check", "lock", "asleep", "woken", "send"}

PcTypes ==
  /\ pc \in [Senders -> Places]
  /\ pc[Capture] \notin TaskPlaces
  /\ \A t \in Conns : pc[t] # "frame"
  /\ \A t \in Conns : t > accepted \/ (t = accepted /\ listening = "create") => pc[t] = "none"

DataTypes ==
  /\ client_fd \in {0, -1} \cup Conns
  /\ send_mutex \in 0..2
  /\ tmp_buf \in {0} \cup Conns
  /\ listening \in {"accept", "create", "ended"}
  /\ accepted \in 0..MaxConns
  /\ listening = "create" => accepted \in Conns
  /\ nonblock \subseteq Conns

FlagTypes ==
  /\ g_send_video_flag \in BOOLEAN
  /\ alive \in BOOLEAN /\ reinit \in BOOLEAN /\ swapped \in BOOLEAN

NetworkTypes ==
  /\ requests \in [Conns -> Seq(Requests)]
  /\ peer \in [Conns -> {"none", "reading", "silent", "gone"}]
  /\ \A c \in Conns : peer[c] = "none" <=> c > accepted

\* What a send in progress has: nothing before its loop, and it blocks only
\* in the middle of a packet.
SendTypes ==
  /\ sent \in [Senders -> 0..Parts]
  /\ blockedOn \in [Senders -> {0} \cup Conns]
  /\ \A s \in Senders : ~Sending(s) => sent[s] = 0
  /\ \A s \in Senders : blockedOn[s] # 0 => HalfSent(s)

StreamTypes ==
  /\ partial \in [Conns -> {<<>>} \cup (Senders \X (1..Parts))]
  /\ damage \subseteq {"order", "buffer"}

Types == PcTypes /\ DataTypes /\ FlagTypes /\ NetworkTypes /\ SendTypes /\ StreamTypes

\* The word is held exactly while a thread is in the loop, and there is one.
Locked ==
  ~reinit =>
    /\ send_mutex = 0 => \A s \in Senders : ~Sending(s)
    /\ send_mutex # 0 => \E s \in Senders : Sending(s)
    /\ \A r, s \in Senders : Sending(r) /\ Sending(s) => r = s

\* The only part of a packet on any connection is that of the thread in the
\* loop, on the connection its next unit goes to.
InOrder ==
  ~reinit /\ ~swapped =>
    /\ "order" \notin damage
    /\ \A s \in Senders :
         HalfSent(s) => client_fd \in Conns /\ partial[client_fd] = <<s, sent[s]>>
    /\ \A s \in Senders : blockedOn[s] \in {0, client_fd}
    /\ \A c \in Conns : partial[c] # <<>> => c = client_fd /\ \E s \in Senders : HalfSent(s)

\* With one connection the buffer is the task's as long as its ack is sent.
OneTask ==
  accepted <= 1 => /\ "buffer" \notin damage
                   /\ \A t \in Conns : pc[t] \notin TaskPlaces => tmp_buf = t

IInv == Types /\ Locked /\ InOrder /\ OneTask
-----------------------------------------------------------------------------
LEMMA InitIInv == Init => IInv
  <1> SUFFICES ASSUME Init PROVE IInv
    OBVIOUS
  <1> USE BoundsAssumption DEF Init, Senders, Conns
  <1>1. PcTypes
    BY DEF PcTypes, Places, TaskPlaces
  <1>2. DataTypes
    BY DEF DataTypes
  <1>3. FlagTypes
    BY DEF FlagTypes
  <1>4. NetworkTypes
    BY DEF NetworkTypes
  <1>5. SendTypes
    BY DEF SendTypes, Sending, HalfSent
  <1>6. StreamTypes
    BY DEF StreamTypes
  <1>7. Locked
    BY DEF Locked, Sending
  <1>8. InOrder
    BY DEF InOrder, HalfSent, Sending
  <1>9. OneTask
    BY DEF OneTask, TaskPlaces
  <1>10. QED
    BY <1>1, <1>2, <1>3, <1>4, <1>5, <1>6, <1>7, <1>8, <1>9 DEF IInv, Types

\* Create starts a task where there was none.
LEMMA CreatePlaces ==
  ASSUME Types, Create
  PROVE  /\ accepted \in Conns /\ pc[accepted] = "none" /\ pc'[accepted] \in {"none", "init"}
         /\ \A s \in Senders : s # accepted => pc'[s] = pc[s]
         /\ pc' \in [Senders -> Places]
         /\ pc'[Capture] = pc[Capture]
  <1> USE BoundsAssumption DEF Senders, Conns
  <1>1. accepted \in Conns /\ pc[accepted] = "none"
    BY DEF Types, DataTypes, PcTypes, Create
  <1>2. pc \in [Senders -> Places]
    BY DEF Types, PcTypes
  <1>3. pc' = pc \/ pc' = [pc EXCEPT ![accepted] = "init"]
    BY DEF Create
  <1>4. Capture # accepted /\ Capture \in Senders
    BY <1>1
  <1>5. CASE pc' = pc
    BY <1>1, <1>2, <1>5
  <1>6. CASE pc' = [pc EXCEPT ![accepted] = "init"]
    BY <1>1, <1>2, <1>4, <1>6 DEF Places, TaskPlaces
  <1>7. QED BY <1>3, <1>5, <1>6

\* Requests are taken from the front and put at the end.
LEMMA TailType == \A q \in Seq(Requests) : q # <<>> => Tail(q) \in Seq(Requests)
  BY HeadTailProperties

LEMMA AppendType == \A q \in Seq(Requests), k \in Requests : Append(q, k) \in Seq(Requests)
  BY AppendProperties

\* Every step leads from one place of its thread to another.
LEMMA PcStep == Types /\ Next => PcTypes'
  <1> SUFFICES ASSUME Types, Next PROVE PcTypes'
    OBVIOUS
  <1> USE BoundsAssumption
      DEF Types, PcTypes, DataTypes, Places, TaskPlaces, Senders, Conns, Goto, shared, listener,
          network, stream, history
  <1>1. CASE Accept
    BY <1>1 DEF Accept
  <1>2. CASE AcceptFails
    BY <1>2 DEF AcceptFails
  <1>3. CASE Create
    BY <1>3, CreatePlaces DEF Create
  <1>4. CASE CaptureFrame
    BY <1>4 DEF CaptureFrame
  <1>5. ASSUME NEW t \in Conns, TaskStep(t) PROVE PcTypes'
    <2>1. CASE MutexInit(t)
      BY <2>1 DEF MutexInit
    <2>2. CASE SetNonblock(t)
      BY <2>2 DEF SetNonblock
    <2>3. CASE RingInit(t)
      BY <2>3 DEF RingInit
    <2>4. CASE Poll(t)
      BY <2>4 DEF Poll
    <2>5. CASE Handle(t)
      BY <2>5 DEF Handle, Detected
    <2>6. CASE LoseRequest(t)
      BY <2>6 DEF LoseRequest
    <2>7. QED BY <1>5, <2>1, <2>2, <2>3, <2>4, <2>5, <2>6 DEF TaskStep
  <1>6. ASSUME NEW s \in Senders, SendStep(s) \/ SigPipe(s) PROVE PcTypes'
    <2>1. CASE SendCheck(s)
      <3>1. CASE s = Capture
        BY <2>1, <3>1 DEF SendCheck, Done
      <3>2. CASE s # Capture
        BY <2>1, <3>2 DEF SendCheck, Done
      <3>3. QED BY <3>1, <3>2
    <2>2. CASE SendLock(s)
      <3>1. /\ pc[s] \in {"lock", "woken"}
            /\ pc' = [pc EXCEPT ![s] = "send"] \/ pc' = [pc EXCEPT ![s] = "asleep"]
            /\ accepted' = accepted /\ listening' = listening
        BY <2>2 DEF SendLock
      <3>2. CASE pc' = [pc EXCEPT ![s] = "send"]
        BY <3>1, <3>2
      <3>3. CASE pc' = [pc EXCEPT ![s] = "asleep"]
        BY <3>1, <3>3
      <3>4. QED BY <3>1, <3>2, <3>3
    <2>3. CASE SendUnit(s)
      BY <2>3 DEF SendUnit, Sending, PutUnit, Target
    <2>4. CASE SendUnlock(s)
      <3>1. CASE s = Capture
        BY <2>4, <3>1 DEF SendUnlock, Done, Sending
      <3>2. CASE s # Capture
        BY <2>4, <3>2 DEF SendUnlock, Done, Sending
      <3>3. QED BY <3>1, <3>2
    <2>5. CASE SigPipe(s)
      BY <2>5 DEF SigPipe, Sending
    <2>6. QED BY <1>6, <2>1, <2>2, <2>3, <2>4, <2>5 DEF SendStep
  <1>7. ASSUME NEW c \in Conns, PeerStep(c) PROVE PcTypes'
    <2>1. ASSUME NEW k \in Requests, PeerRequest(c, k) PROVE PcTypes'
      BY <2>1 DEF PeerRequest
    <2>2. CASE PeerStops(c)
      BY <2>2 DEF PeerStops
    <2>3. QED BY <1>7, <2>1, <2>2 DEF PeerStep
  <1>8. QED BY <1>1, <1>2, <1>3, <1>4, <1>5, <1>6, <1>7 DEF Next

\* The shared variables.
LEMMA DataStep == Types /\ Next => DataTypes'
  <1> SUFFICES ASSUME Types, Next PROVE DataTypes'
    OBVIOUS
  <1> USE BoundsAssumption
      DEF Types, DataTypes, Senders, Conns, Goto, shared, listener,
          network, stream, history
  <1>1. CASE Accept
    BY <1>1 DEF Accept
  <1>2. CASE AcceptFails
    BY <1>2 DEF AcceptFails
  <1>3. CASE Create
    BY <1>3, CreatePlaces DEF Create
  <1>4. CASE CaptureFrame
    BY <1>4 DEF CaptureFrame
  <1>5. ASSUME NEW t \in Conns, TaskStep(t) PROVE DataTypes'
    <2>1. CASE MutexInit(t)
      BY <2>1 DEF MutexInit
    <2>2. CASE SetNonblock(t)
      BY <2>2 DEF SetNonblock
    <2>3. CASE RingInit(t)
      BY <2>3 DEF RingInit
    <2>4. CASE Poll(t)
      BY <2>4 DEF Poll
    <2>5. CASE Handle(t)
      BY <2>5 DEF Handle, Detected
    <2>6. CASE LoseRequest(t)
      BY <2>6 DEF LoseRequest
    <2>7. QED BY <1>5, <2>1, <2>2, <2>3, <2>4, <2>5, <2>6 DEF TaskStep
  <1>6. ASSUME NEW s \in Senders, SendStep(s) \/ SigPipe(s) PROVE DataTypes'
    <2>1. CASE SendCheck(s)
      BY <2>1 DEF SendCheck, Done
    <2>2. CASE SendLock(s)
      BY <2>2 DEF SendLock
    <2>3. CASE SendUnit(s)
      BY <2>3 DEF SendUnit, Sending, PutUnit, Target
    <2>4. CASE SendUnlock(s)
      BY <2>4 DEF SendUnlock, Done, Sending
    <2>5. CASE SigPipe(s)
      BY <2>5 DEF SigPipe, Sending
    <2>6. QED BY <1>6, <2>1, <2>2, <2>3, <2>4, <2>5 DEF SendStep
  <1>7. ASSUME NEW c \in Conns, PeerStep(c) PROVE DataTypes'
    <2>1. ASSUME NEW k \in Requests, PeerRequest(c, k) PROVE DataTypes'
      BY <2>1 DEF PeerRequest
    <2>2. CASE PeerStops(c)
      BY <2>2 DEF PeerStops
    <2>3. QED BY <1>7, <2>1, <2>2 DEF PeerStep
  <1>8. QED BY <1>1, <1>2, <1>3, <1>4, <1>5, <1>6, <1>7 DEF Next

\* The flags.
LEMMA FlagStep == Types /\ Next => FlagTypes'
  <1> SUFFICES ASSUME Types, Next PROVE FlagTypes'
    OBVIOUS
  <1> USE BoundsAssumption
      DEF Types, FlagTypes, MutexInUse, HalfSent, Sending, Senders, Conns, Goto, shared, listener,
          network, stream, history
  <1>1. CASE Accept
    BY <1>1 DEF Accept
  <1>2. CASE AcceptFails
    BY <1>2 DEF AcceptFails
  <1>3. CASE Create
    BY <1>3, CreatePlaces DEF Create
  <1>4. CASE CaptureFrame
    BY <1>4 DEF CaptureFrame
  <1>5. ASSUME NEW t \in Conns, TaskStep(t) PROVE FlagTypes'
    <2>1. CASE MutexInit(t)
      BY <2>1 DEF MutexInit
    <2>2. CASE SetNonblock(t)
      BY <2>2 DEF SetNonblock
    <2>3. CASE RingInit(t)
      BY <2>3 DEF RingInit
    <2>4. CASE Poll(t)
      BY <2>4 DEF Poll
    <2>5. CASE Handle(t)
      BY <2>5 DEF Handle, Detected
    <2>6. CASE LoseRequest(t)
      BY <2>6 DEF LoseRequest
    <2>7. QED BY <1>5, <2>1, <2>2, <2>3, <2>4, <2>5, <2>6 DEF TaskStep
  <1>6. ASSUME NEW s \in Senders, SendStep(s) \/ SigPipe(s) PROVE FlagTypes'
    <2>1. CASE SendCheck(s)
      BY <2>1 DEF SendCheck, Done
    <2>2. CASE SendLock(s)
      BY <2>2 DEF SendLock
    <2>3. CASE SendUnit(s)
      BY <2>3 DEF SendUnit, Sending, PutUnit, Target
    <2>4. CASE SendUnlock(s)
      BY <2>4 DEF SendUnlock, Done, Sending
    <2>5. CASE SigPipe(s)
      BY <2>5 DEF SigPipe, Sending
    <2>6. QED BY <1>6, <2>1, <2>2, <2>3, <2>4, <2>5 DEF SendStep
  <1>7. ASSUME NEW c \in Conns, PeerStep(c) PROVE FlagTypes'
    <2>1. ASSUME NEW k \in Requests, PeerRequest(c, k) PROVE FlagTypes'
      BY <2>1 DEF PeerRequest
    <2>2. CASE PeerStops(c)
      BY <2>2 DEF PeerStops
    <2>3. QED BY <1>7, <2>1, <2>2 DEF PeerStep
  <1>8. QED BY <1>1, <1>2, <1>3, <1>4, <1>5, <1>6, <1>7 DEF Next

\* Peers and requests.
LEMMA NetworkStep == Types /\ Next => NetworkTypes'
  <1> SUFFICES ASSUME Types, Next PROVE NetworkTypes'
    OBVIOUS
  <1> USE BoundsAssumption
      DEF Types, NetworkTypes, DataTypes, Senders, Conns, Goto, shared, listener,
          network, stream, history
  <1>1. CASE Accept
    BY <1>1 DEF Accept
  <1>2. CASE AcceptFails
    BY <1>2 DEF AcceptFails
  <1>3. CASE Create
    BY <1>3, CreatePlaces DEF Create
  <1>4. CASE CaptureFrame
    BY <1>4 DEF CaptureFrame
  <1>5. ASSUME NEW t \in Conns, TaskStep(t) PROVE NetworkTypes'
    <2>1. CASE MutexInit(t)
      BY <2>1 DEF MutexInit
    <2>2. CASE SetNonblock(t)
      BY <2>2 DEF SetNonblock
    <2>3. CASE RingInit(t)
      BY <2>3 DEF RingInit
    <2>4. CASE Poll(t)
      BY <2>4 DEF Poll
    <2>5. CASE Handle(t)
      <3>1. PICK rest : /\ rest \in {requests[client_fd], Tail(requests[client_fd])}
                        /\ requests' = [requests EXCEPT ![client_fd] = rest]
        BY <2>5 DEF Handle
      <3>2. client_fd \in Conns /\ requests[client_fd] # <<>> /\ peer' = peer /\ accepted' = accepted
        BY <2>5 DEF Handle
      <3>3. requests[client_fd] \in Seq(Requests)
        BY <3>2
      <3>4. rest \in Seq(Requests)
        BY <3>1, <3>2, <3>3, TailType
      <3>5. QED BY <3>1, <3>2, <3>4
    <2>6. CASE LoseRequest(t)
      BY <2>6, TailType DEF LoseRequest
    <2>7. QED BY <1>5, <2>1, <2>2, <2>3, <2>4, <2>5, <2>6 DEF TaskStep
  <1>6. ASSUME NEW s \in Senders, SendStep(s) \/ SigPipe(s) PROVE NetworkTypes'
    <2>1. CASE SendCheck(s)
      BY <2>1 DEF SendCheck, Done
    <2>2. CASE SendLock(s)
      BY <2>2 DEF SendLock
    <2>3. CASE SendUnit(s)
      BY <2>3 DEF SendUnit, Sending, PutUnit, Target
    <2>4. CASE SendUnlock(s)
      BY <2>4 DEF SendUnlock, Done, Sending
    <2>5. CASE SigPipe(s)
      BY <2>5 DEF SigPipe, Sending
    <2>6. QED BY <1>6, <2>1, <2>2, <2>3, <2>4, <2>5 DEF SendStep
  <1>7. ASSUME NEW c \in Conns, PeerStep(c) PROVE NetworkTypes'
    <2>1. ASSUME NEW k \in Requests, PeerRequest(c, k) PROVE NetworkTypes'
      BY <2>1, AppendType DEF PeerRequest
    <2>2. CASE PeerStops(c)
      BY <2>2 DEF PeerStops
    <2>3. QED BY <1>7, <2>1, <2>2 DEF PeerStep
  <1>8. QED BY <1>1, <1>2, <1>3, <1>4, <1>5, <1>6, <1>7 DEF Next

\* Only a thread in the loop has sent anything.
LEMMA SendTypesStep == Types /\ Next => SendTypes'
  <1> SUFFICES ASSUME Types, Next PROVE SendTypes'
    OBVIOUS
  <1> USE BoundsAssumption
      DEF Types, SendTypes, DataTypes, PcTypes, Sending, HalfSent, Senders, Conns, Goto, shared,
          listener,
          network, stream, history
  <1>1. CASE Accept
    BY <1>1 DEF Accept
  <1>2. CASE AcceptFails
    BY <1>2 DEF AcceptFails
  <1>3. CASE Create
    BY <1>3, CreatePlaces DEF Create
  <1>4. CASE CaptureFrame
    BY <1>4 DEF CaptureFrame
  <1>5. ASSUME NEW t \in Conns, TaskStep(t) PROVE SendTypes'
    <2>1. CASE MutexInit(t)
      BY <2>1 DEF MutexInit
    <2>2. CASE SetNonblock(t)
      BY <2>2 DEF SetNonblock
    <2>3. CASE RingInit(t)
      BY <2>3 DEF RingInit
    <2>4. CASE Poll(t)
      BY <2>4 DEF Poll
    <2>5. CASE Handle(t)
      BY <2>5 DEF Handle, Detected
    <2>6. CASE LoseRequest(t)
      BY <2>6 DEF LoseRequest
    <2>7. QED BY <1>5, <2>1, <2>2, <2>3, <2>4, <2>5, <2>6 DEF TaskStep
  <1>6. ASSUME NEW s \in Senders, SendStep(s) \/ SigPipe(s) PROVE SendTypes'
    <2>1. CASE SendCheck(s)
      BY <2>1 DEF SendCheck, Done
    <2>2. CASE SendLock(s)
      BY <2>2 DEF SendLock
    <2>3. CASE SendUnit(s)
      BY <2>3, SMTT(20) DEF SendUnit, Sending, PutUnit, Target
    <2>4. CASE SendUnlock(s)
      BY <2>4 DEF SendUnlock, Done, Sending
    <2>5. CASE SigPipe(s)
      BY <2>5 DEF SigPipe, Sending
    <2>6. QED BY <1>6, <2>1, <2>2, <2>3, <2>4, <2>5 DEF SendStep
  <1>7. ASSUME NEW c \in Conns, PeerStep(c) PROVE SendTypes'
    <2>1. ASSUME NEW k \in Requests, PeerRequest(c, k) PROVE SendTypes'
      BY <2>1 DEF PeerRequest
    <2>2. CASE PeerStops(c)
      BY <2>2 DEF PeerStops
    <2>3. QED BY <1>7, <2>1, <2>2 DEF PeerStep
  <1>8. QED BY <1>1, <1>2, <1>3, <1>4, <1>5, <1>6, <1>7 DEF Next

\* Parts of packets.
LEMMA StreamStep == Types /\ Next => StreamTypes'
  <1> SUFFICES ASSUME Types, Next PROVE StreamTypes'
    OBVIOUS
  <1> USE BoundsAssumption
      DEF Types, StreamTypes, SendTypes, DataTypes, Senders, Conns, Goto, shared, listener,
          network, stream, history
  <1>1. CASE Accept
    BY <1>1 DEF Accept
  <1>2. CASE AcceptFails
    BY <1>2 DEF AcceptFails
  <1>3. CASE Create
    BY <1>3, CreatePlaces DEF Create
  <1>4. CASE CaptureFrame
    BY <1>4 DEF CaptureFrame
  <1>5. ASSUME NEW t \in Conns, TaskStep(t) PROVE StreamTypes'
    <2>1. CASE MutexInit(t)
      BY <2>1 DEF MutexInit
    <2>2. CASE SetNonblock(t)
      BY <2>2 DEF SetNonblock
    <2>3. CASE RingInit(t)
      BY <2>3 DEF RingInit
    <2>4. CASE Poll(t)
      BY <2>4 DEF Poll
    <2>5. CASE Handle(t)
      BY <2>5 DEF Handle, Detected
    <2>6. CASE LoseRequest(t)
      BY <2>6 DEF LoseRequest
    <2>7. QED BY <1>5, <2>1, <2>2, <2>3, <2>4, <2>5, <2>6 DEF TaskStep
  <1>6. ASSUME NEW s \in Senders, SendStep(s) \/ SigPipe(s) PROVE StreamTypes'
    <2>1. CASE SendCheck(s)
      BY <2>1 DEF SendCheck, Done
    <2>2. CASE SendLock(s)
      BY <2>2 DEF SendLock
    <2>3. CASE SendUnit(s)
      BY <2>3 DEF SendUnit, Sending, PutUnit, Target
    <2>4. CASE SendUnlock(s)
      BY <2>4 DEF SendUnlock, Done, Sending
    <2>5. CASE SigPipe(s)
      BY <2>5 DEF SigPipe, Sending
    <2>6. QED BY <1>6, <2>1, <2>2, <2>3, <2>4, <2>5 DEF SendStep
  <1>7. ASSUME NEW c \in Conns, PeerStep(c) PROVE StreamTypes'
    <2>1. ASSUME NEW k \in Requests, PeerRequest(c, k) PROVE StreamTypes'
      BY <2>1 DEF PeerRequest
    <2>2. CASE PeerStops(c)
      BY <2>2 DEF PeerStops
    <2>3. QED BY <1>7, <2>1, <2>2 DEF PeerStep
  <1>8. QED BY <1>1, <1>2, <1>3, <1>4, <1>5, <1>6, <1>7 DEF Next

\* A step into the loop finds the word 0, a step out leaves nobody there.
LEMMA LockedStep == Types /\ Locked /\ Next => Locked'
  <1> SUFFICES ASSUME Types /\ Locked, Next PROVE Locked'
    OBVIOUS
  <1> USE BoundsAssumption
      DEF Types, PcTypes, DataTypes, Locked, MutexInUse, Sending, Senders, Conns, Goto, shared,
          listener,
          network, stream, history
  <1>1. CASE Accept
    BY <1>1 DEF Accept
  <1>2. CASE AcceptFails
    BY <1>2 DEF AcceptFails
  <1>3. CASE Create
    BY <1>3, CreatePlaces DEF Create
  <1>4. CASE CaptureFrame
    BY <1>4 DEF CaptureFrame
  <1>5. ASSUME NEW t \in Conns, TaskStep(t) PROVE Locked'
    <2>1. CASE MutexInit(t)
      BY <2>1 DEF MutexInit
    <2>2. CASE SetNonblock(t)
      BY <2>2 DEF SetNonblock
    <2>3. CASE RingInit(t)
      BY <2>3 DEF RingInit
    <2>4. CASE Poll(t)
      BY <2>4 DEF Poll
    <2>5. CASE Handle(t)
      BY <2>5 DEF Handle, Detected
    <2>6. CASE LoseRequest(t)
      BY <2>6 DEF LoseRequest
    <2>7. QED BY <1>5, <2>1, <2>2, <2>3, <2>4, <2>5, <2>6 DEF TaskStep
  <1>6. ASSUME NEW s \in Senders, SendStep(s) \/ SigPipe(s) PROVE Locked'
    <2>1. CASE SendCheck(s)
      BY <2>1 DEF SendCheck, Done
    <2>2. CASE SendLock(s)
      BY <2>2 DEF SendLock
    <2>3. CASE SendUnit(s)
      BY <2>3 DEF SendUnit, Sending, PutUnit, Target
    <2>4. CASE SendUnlock(s)
      BY <2>4 DEF SendUnlock, Done, Sending
    <2>5. CASE SigPipe(s)
      BY <2>5 DEF SigPipe, Sending
    <2>6. QED BY <1>6, <2>1, <2>2, <2>3, <2>4, <2>5 DEF SendStep
  <1>7. ASSUME NEW c \in Conns, PeerStep(c) PROVE Locked'
    <2>1. ASSUME NEW k \in Requests, PeerRequest(c, k) PROVE Locked'
      BY <2>1 DEF PeerRequest
    <2>2. CASE PeerStops(c)
      BY <2>2 DEF PeerStops
    <2>3. QED BY <1>7, <2>1, <2>2 DEF PeerStep
  <1>8. QED BY <1>1, <1>2, <1>3, <1>4, <1>5, <1>6, <1>7 DEF Next

\* One packet at a time, on one connection.
LEMMA OrderStep == Types /\ Locked /\ InOrder /\ Next => InOrder'
  <1> SUFFICES ASSUME Types /\ Locked /\ InOrder, Next PROVE InOrder'
    OBVIOUS
  <1> USE BoundsAssumption
      DEF Types, PcTypes, DataTypes, SendTypes, StreamTypes, Locked, InOrder, HalfSent, Sending,
          Senders, Conns, Goto, shared, listener,
          network, stream, history
  <1>1. CASE Accept
    BY <1>1 DEF Accept
  <1>2. CASE AcceptFails
    BY <1>2 DEF AcceptFails
  <1>3. CASE Create
    BY <1>3, CreatePlaces DEF Create
  <1>4. CASE CaptureFrame
    BY <1>4 DEF CaptureFrame
  <1>5. ASSUME NEW t \in Conns, TaskStep(t) PROVE InOrder'
    <2>1. CASE MutexInit(t)
      BY <2>1 DEF MutexInit
    <2>2. CASE SetNonblock(t)
      BY <2>2 DEF SetNonblock
    <2>3. CASE RingInit(t)
      BY <2>3 DEF RingInit
    <2>4. CASE Poll(t)
      BY <2>4 DEF Poll
    <2>5. CASE Handle(t)
      BY <2>5 DEF Handle, Detected
    <2>6. CASE LoseRequest(t)
      BY <2>6 DEF LoseRequest
    <2>7. QED BY <1>5, <2>1, <2>2, <2>3, <2>4, <2>5, <2>6 DEF TaskStep
  <1>6. ASSUME NEW s \in Senders, SendStep(s) \/ SigPipe(s) PROVE InOrder'
    <2>1. CASE SendCheck(s)
      BY <2>1 DEF SendCheck, Done
    <2>2. CASE SendLock(s)
      BY <2>2 DEF SendLock
    <2>3. CASE SendUnit(s)
      <3> SUFFICES ASSUME ~reinit, ~swapped PROVE InOrder'
        BY <2>3 DEF SendUnit
      <3>1. Target(s) = client_fd /\ client_fd \in Conns /\ client_fd' = client_fd
        BY <2>3 DEF SendUnit, Target
      <3>2. sent[s] \in 0..Parts /\ sent[s] < Parts /\ sent' = [sent EXCEPT ![s] = @ + 1] /\ pc' = pc
            /\ pc[s] = "send"
        BY <2>3 DEF SendUnit
      <3>3. \A r \in Senders : r # s => ~Sending(r)
        BY <2>3, <3>2
      <3>4. partial[client_fd] = IF sent[s] = 0 THEN <<>> ELSE <<s, sent[s]>>
        <4>1. CASE sent[s] = 0
          BY <3>1, <3>3, <4>1
        <4>2. CASE sent[s] # 0
          <5>1. HalfSent(s)
            BY <3>2, <4>2
          <5>2. QED BY <4>2, <5>1
        <4>3. QED BY <4>1, <4>2
      <3>5. /\ partial' = [partial EXCEPT ![client_fd] =
                             IF sent[s] + 1 < Parts THEN <<s, sent[s] + 1>> ELSE <<>>]
            /\ "order" \notin damage'
        <4>1. sent[s] + 1 = 1 <=> sent[s] = 0
          BY <3>2
        <4>2. partial[client_fd] = IF sent[s] + 1 = 1 THEN <<>> ELSE <<s, sent[s]>>
          BY <3>4, <4>1
        <4>3. PutUnit(s, client_fd)
          BY <2>3, <3>1 DEF SendUnit
        <4>4. /\ partial' = [partial EXCEPT ![client_fd] =
                                IF sent[s] + 1 < Parts THEN <<s, sent[s] + 1>> ELSE <<>>]
              /\ "order" \in damage' => "order" \in damage
          BY <4>2, <4>3 DEF PutUnit
        <4>5. QED BY <4>4
      <3>6. \A r \in Senders : HalfSent(r)' => r = s /\ sent[s] + 1 < Parts
        BY <3>2, <3>3
      <3>7. \A r \in Senders : blockedOn'[r] \in {0, client_fd}
        BY <2>3, <3>1 DEF SendUnit
      <3>8. sent'[s] = sent[s] + 1
        BY <3>2
      <3>9. ASSUME NEW c \in Conns, partial'[c] # <<>>
            PROVE  c = client_fd /\ HalfSent(s)'
        <4>1. c = client_fd
          BY <3>1, <3>3, <3>5, <3>9
        <4>2. sent[s] + 1 < Parts
          BY <3>1, <3>5, <3>9, <4>1
        <4>3. QED BY <3>2, <3>8, <4>1, <4>2
      <3>10. QED BY <3>1, <3>5, <3>6, <3>7, <3>8, <3>9
    <2>4. CASE SendUnlock(s)
      BY <2>4 DEF SendUnlock, Done, Sending
    <2>5. CASE SigPipe(s)
      BY <2>5 DEF SigPipe, Sending
    <2>6. QED BY <1>6, <2>1, <2>2, <2>3, <2>4, <2>5 DEF SendStep
  <1>7. ASSUME NEW c \in Conns, PeerStep(c) PROVE InOrder'
    <2>1. ASSUME NEW k \in Requests, PeerRequest(c, k) PROVE InOrder'
      BY <2>1 DEF PeerRequest
    <2>2. CASE PeerStops(c)
      BY <2>2 DEF PeerStops
    <2>3. QED BY <1>7, <2>1, <2>2 DEF PeerStep
  <1>8. QED BY <1>1, <1>2, <1>3, <1>4, <1>5, <1>6, <1>7 DEF Next

\* One task, one ack.
LEMMA OneTaskStep == Types /\ OneTask /\ Next => OneTask'
  <1> SUFFICES ASSUME Types /\ OneTask, Next PROVE OneTask'
    OBVIOUS
  <1> USE BoundsAssumption
      DEF Types, PcTypes, DataTypes, SendTypes, StreamTypes, OneTask, TaskPlaces, Senders, Conns,
          Goto, shared, listener,
          network, stream, history
  <1>1. CASE Accept
    BY <1>1 DEF Accept
  <1>2. CASE AcceptFails
    BY <1>2 DEF AcceptFails
  <1>3. CASE Create
    BY <1>3, CreatePlaces DEF Create
  <1>4. CASE CaptureFrame
    BY <1>4 DEF CaptureFrame
  <1>5. ASSUME NEW t \in Conns, TaskStep(t) PROVE OneTask'
    <2>1. CASE MutexInit(t)
      BY <2>1 DEF MutexInit
    <2>2. CASE SetNonblock(t)
      BY <2>2 DEF SetNonblock
    <2>3. CASE RingInit(t)
      BY <2>3 DEF RingInit
    <2>4. CASE Poll(t)
      BY <2>4 DEF Poll
    <2>5. CASE Handle(t)
      BY <2>5, SMTT(20) DEF Handle, Detected
    <2>6. CASE LoseRequest(t)
      BY <2>6 DEF LoseRequest
    <2>7. QED BY <1>5, <2>1, <2>2, <2>3, <2>4, <2>5, <2>6 DEF TaskStep
  <1>6. ASSUME NEW s \in Senders, SendStep(s) \/ SigPipe(s) PROVE OneTask'
    <2>1. CASE SendCheck(s)
      BY <2>1 DEF SendCheck, Done
    <2>2. CASE SendLock(s)
      BY <2>2 DEF SendLock
    <2>3. CASE SendUnit(s)
      BY <2>3 DEF SendUnit, Sending, PutUnit, Target
    <2>4. CASE SendUnlock(s)
      BY <2>4 DEF SendUnlock, Done, Sending
    <2>5. CASE SigPipe(s)
      BY <2>5 DEF SigPipe, Sending
    <2>6. QED BY <1>6, <2>1, <2>2, <2>3, <2>4, <2>5 DEF SendStep
  <1>7. ASSUME NEW c \in Conns, PeerStep(c) PROVE OneTask'
    <2>1. ASSUME NEW k \in Requests, PeerRequest(c, k) PROVE OneTask'
      BY <2>1 DEF PeerRequest
    <2>2. CASE PeerStops(c)
      BY <2>2 DEF PeerStops
    <2>3. QED BY <1>7, <2>1, <2>2 DEF PeerStep
  <1>8. QED BY <1>1, <1>2, <1>3, <1>4, <1>5, <1>6, <1>7 DEF Next

LEMMA SpecIInv == Spec => []IInv
  <1>1. Init => IInv
    BY InitIInv
  <1>2. IInv /\ [Next]_vars => IInv'
    <2>1. ASSUME IInv, Next PROVE IInv'
      BY <2>1, PcStep, DataStep, FlagStep, NetworkStep, SendTypesStep, StreamStep, LockedStep,
         OrderStep, OneTaskStep DEF IInv, Types
    <2>2. ASSUME IInv, UNCHANGED vars PROVE IInv'
      <3> USE <2>2 DEF vars, shared, listener, network, stream, history, IInv, Types
      <3>1. PcTypes' /\ DataTypes' /\ FlagTypes' /\ NetworkTypes'
        BY DEF PcTypes, DataTypes, FlagTypes, NetworkTypes
      <3>2. SendTypes' /\ StreamTypes'
        BY DEF SendTypes, StreamTypes, HalfSent, Sending
      <3>3. Locked' /\ InOrder' /\ OneTask'
        BY DEF Locked, InOrder, OneTask, HalfSent, Sending
      <3>4. QED BY <3>1, <3>2, <3>3
    <2>3. QED BY <2>1, <2>2
  <1>3. QED BY <1>1, <1>2, PTL DEF Spec

\* Every variable keeps its type, and sent stays within the packet.
THEOREM ServerTypes == Spec => []TypeOK
  <1>1. IInv => TypeOK
    BY DEF IInv, Types, PcTypes, DataTypes, FlagTypes, NetworkTypes, SendTypes, StreamTypes,
           Places, TaskPlaces, TypeOK, SenderPlaces, Senders
  <1>2. QED BY <1>1, SpecIInv, PTL

\* At most one thread is in the send loop of server_send_data, and the word
\* says so, until a task initialises the mutex under its users.
THEOREM ServerSendLoopLocked == Spec => []ExclusiveUnlessReinit
  <1>1. IInv => ExclusiveUnlessReinit
    <2> SUFFICES ASSUME IInv, ~reinit
                 PROVE  /\ Cardinality(SendersInLoop) <= 1
                        /\ send_mutex # 0 <=> SendersInLoop # {}
      BY DEF ExclusiveUnlessReinit
    <2>1. send_mutex # 0 <=> SendersInLoop # {}
      BY DEF SendersInLoop, IInv, Locked
    <2>2. CASE SendersInLoop = {}
      BY <2>1, <2>2, FS_EmptySet
    <2>3. CASE SendersInLoop # {}
      <3>1. PICK s : s \in SendersInLoop
        BY <2>3
      <3>2. SendersInLoop = {s}
        BY <3>1 DEF SendersInLoop, IInv, Locked
      <3>3. Cardinality(SendersInLoop) = 1
        BY <3>2, FS_Singleton
      <3>4. QED BY <2>1, <3>3
    <2>4. QED BY <2>2, <2>3
  <1>2. QED BY <1>1, SpecIInv, PTL

\* A connection's packets are whole and in order unless the mutex was
\* initialised in use or the connection replaced under a packet half sent.
THEOREM PacketsStayInOrder == Spec => []PacketsInOrder
  <1>1. IInv => PacketsInOrder
    BY DEF IInv, InOrder, PacketsInOrder
  <1>2. QED BY <1>1, SpecIInv, PTL

\* An ack is sent from the buffer it was built in unless a second task was
\* started, however the task's sends and the frames interleave.
THEOREM AcksStayInTheirBuffer == Spec => []AcksKeepTheirBuffer
  <1>1. IInv => AcksKeepTheirBuffer
    BY BoundsAssumption DEF IInv, Types, DataTypes, OneTask, AcksKeepTheirBuffer
  <1>2. QED BY <1>1, SpecIInv, PTL
=============================================================================
