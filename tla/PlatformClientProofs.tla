------------------------ MODULE PlatformClientProofs ------------------------
(***************************************************************************)
(* The platform's threads keep their types, the lock of client_send_data   *)
(* excludes, CONNECTED is said of a connected socket, and the first        *)
(* session is not killed, for every number of clicks.  What goes wrong     *)
(* after that is named by the history variables the properties mention.    *)
(***************************************************************************)
EXTENDS PlatformClient, FiniteSetTheorems, TLAPS

ThreadPlaces == {"none", "memset", "socket", "mutex", "ring", "top", "switch", "connect", "store",
                 "receive?", "receive", "idle", "ended", "check", "lock", "send", "unlock"}

PcTypes ==
  /\ pc \in [Senders -> ThreadPlaces]
  /\ pc[Recogn] \in {"idle", "check", "lock", "send", "unlock"}
  /\ \A t \in Clients : pc[t] # "idle"

DataTypes ==
  /\ button \in {"connect", "disconnect"}
  /\ starts \in 0..MaxStarts
  /\ fd \in {0, -1} \cup Clients
  /\ tcp_state \in {"DISCONNECT", "CONNECTED", "CLOSE"}
  /\ send_mutex \in 0..1
  /\ sock \in [Clients -> SocketStates]
  /\ fd > 0 => sock[fd] # "none"

FlagTypes ==
  /\ hasFrame \in BOOLEAN /\ alive \in BOOLEAN
  /\ reset \in BOOLEAN /\ lostClose \in BOOLEAN /\ overlapped \in BOOLEAN

Types == PcTypes /\ DataTypes /\ FlagTypes

\* A thread that was not started is nowhere.
Unstarted == \A t \in Clients : t > starts => pc[t] = "none"

InLoop(s) == pc[s] \in {"send", "unlock"}

\* The word is held while a thread is in the loop, and by that thread only.
Locked ==
  ~reset =>
    /\ send_mutex = 0 => \A s \in Senders : ~InLoop(s)
    /\ \A r, s \in Senders : InLoop(r) /\ InLoop(s) => r = s

\* While no thread started beside another: one runs, client->fd is its
\* socket, connect has succeeded when it stores CONNECTED, and nobody has
\* stored it before the socket is made.
Alone ==
  ~overlapped =>
    /\ \A t, u \in Clients :
         pc[t] \notin {"none", "memset", "ended"} /\ pc[u] \notin {"none", "memset", "ended"} => t = u
    /\ \A t \in Clients : pc[t] \notin {"none", "memset", "socket", "ended"} => fd = t
    /\ \A t \in Clients : pc[t] = "store" => sock[t] \in {"conn", "closed"}
    /\ \A t \in Clients : pc[t] = "socket" => tcp_state # "CONNECTED"
    /\ tcp_state = "CONNECTED" => Socket \in {"conn", "closed"}

\* What there is only after a connect that succeeded.
Online ==
  \/ hasFrame
  \/ tcp_state = "CONNECTED"
  \/ \E t \in Clients : pc[t] \in {"store", "receive", "check", "lock", "send", "unlock"}

\* In the first session that means the one socket there is.
First ==
  /\ pc[Recogn] # "idle" => hasFrame
  /\ starts <= 1 /\ Online =>
       /\ starts = 1
       /\ Socket \in {"conn", "closed"}
       /\ \A t \in Clients : pc[t] \notin {"memset", "socket"}

IInv == Types /\ Unstarted /\ Locked /\ Alone /\ First /\ FirstSessionSurvives
-----------------------------------------------------------------------------
LEMMA InitIInv == Init => IInv
  <1> SUFFICES ASSUME Init PROVE IInv
    OBVIOUS
  <1> USE StartsAssumption DEF Init, Senders, Clients
  <1>1. PcTypes
    BY DEF PcTypes, ThreadPlaces
  <1>2. DataTypes
    BY DEF DataTypes, SocketStates
  <1>3. FlagTypes
    BY DEF FlagTypes
  <1>4. Unstarted /\ Locked /\ Alone
    BY DEF Unstarted, Locked, InLoop, Alone
  <1>5. First /\ FirstSessionSurvives
    BY DEF First, Online, FirstSessionSurvives
  <1>6. QED BY <1>1, <1>2, <1>3, <1>4, <1>5 DEF IInv, Types

\* A click puts one new thread at its start.
LEMMA ClickPlaces ==
  ASSUME Types, ClickConnect
  PROVE  /\ starts' = starts + 1 /\ starts' \in Clients
         /\ pc'[starts'] \in {"memset", "ended"}
         /\ \A s \in Senders : s # starts' => pc'[s] = pc[s]
         /\ pc' \in [Senders -> ThreadPlaces]
         /\ pc'[Recogn] = pc[Recogn]
  <1> USE StartsAssumption DEF Senders, Clients
  <1>1. starts' = starts + 1 /\ starts' \in Clients
    BY DEF Types, DataTypes, ClickConnect
  <1>2. Recogn # starts'
    BY <1>1
  <1>3. pc \in [Senders -> ThreadPlaces]
    BY DEF Types, PcTypes
  <1>4. PICK place \in {"memset", "ended"} : pc' = [pc EXCEPT ![starts'] = place]
    BY DEF ClickConnect
  <1>5. QED BY <1>1, <1>2, <1>3, <1>4 DEF ThreadPlaces

\* Every step leads from one place of its thread to another.
LEMMA PcStep == Types /\ Next => PcTypes'
  <1> SUFFICES ASSUME Types, Next PROVE PcTypes'
    OBVIOUS
  <1> USE StartsAssumption
        DEF Types, PcTypes, ThreadPlaces, Senders, Clients, Goto, client, window, history
  <1>1. CASE ClickConnect
    <2>1. \A t \in Clients : pc'[t] # "idle"
      BY <1>1, ClickPlaces
    <2>2. QED BY <1>1, <2>1, ClickPlaces
  <1>2. CASE ClickDisconnect
    BY <1>2 DEF ClickDisconnect
  <1>3. CASE Recognise
    BY <1>3 DEF Recognise
  <1>4. ASSUME NEW t \in Clients, ClientStep(t) PROVE PcTypes'
    <2>1. CASE ClearStruct(t)
      BY <2>1 DEF ClearStruct
    <2>2. CASE MakeSocket(t)
      BY <2>2 DEF MakeSocket
    <2>3. CASE MutexInit(t)
      BY <2>3 DEF MutexInit
    <2>4. CASE RingInit(t)
      BY <2>4 DEF RingInit
    <2>5. CASE Top(t)
      BY <2>5 DEF Top
    <2>6. CASE Switch(t)
      BY <2>6 DEF Switch
    <2>7. CASE Connect(t)
      BY <2>7 DEF Connect
    <2>8. CASE StoreConnected(t)
      BY <2>8 DEF StoreConnected
    <2>9. CASE Receive(t)
      BY <2>9 DEF Receive
    <2>10. CASE ReceiveData(t)
      BY <2>10 DEF ReceiveData
    <2>11. QED BY <1>4, <2>1, <2>2, <2>3, <2>4, <2>5, <2>6, <2>7, <2>8, <2>9, <2>10 DEF ClientStep
  <1>5. ASSUME NEW s \in Senders, SendStep(s) PROVE PcTypes'
    <2>1. CASE SendCheck(s)
      <3>1. CASE s = Recogn
        BY <2>1, <3>1 DEF SendCheck, Done
      <3>2. CASE s # Recogn
        BY <2>1, <3>2 DEF SendCheck, Done
      <3>3. QED BY <3>1, <3>2
    <2>2. CASE SendLock(s)
      BY <2>2 DEF SendLock, Done
    <2>3. CASE SendTaken(s)
      BY <2>3 DEF SendTaken, Done
    <2>4. CASE SendError(s)
      BY <2>4 DEF SendError, Done
    <2>5. CASE SigPipe(s)
      BY <2>5 DEF SigPipe, Done
    <2>6. CASE SendUnlock(s)
      BY <2>6 DEF SendUnlock, Done
    <2>7. QED BY <1>5, <2>1, <2>2, <2>3, <2>4, <2>5, <2>6 DEF SendStep, SendGoesOn
  <1>6. ASSUME NEW n \in Clients, Establish(n) \/ Refuse(n) \/ ServerExits(n) PROVE PcTypes'
    BY <1>6 DEF Establish, Refuse, ServerExits, Network
  <1>7. QED BY <1>1, <1>2, <1>3, <1>4, <1>5, <1>6 DEF Next

\* A socket, once made, stays one.
LEMMA DataStep == Types /\ Next => DataTypes'
  <1> SUFFICES ASSUME Types, Next PROVE DataTypes'
    OBVIOUS
  <1> USE StartsAssumption
        DEF Types, PcTypes, DataTypes, Socket, SocketStates, Senders, Clients, Goto, client, window, history
  <1>1. CASE ClickConnect
    BY <1>1 DEF ClickConnect
  <1>2. CASE ClickDisconnect
    BY <1>2 DEF ClickDisconnect
  <1>3. CASE Recognise
    BY <1>3 DEF Recognise
  <1>4. ASSUME NEW t \in Clients, ClientStep(t) PROVE DataTypes'
    <2>1. CASE ClearStruct(t)
      BY <2>1 DEF ClearStruct
    <2>2. CASE MakeSocket(t)
      BY <2>2 DEF MakeSocket
    <2>3. CASE MutexInit(t)
      BY <2>3 DEF MutexInit
    <2>4. CASE RingInit(t)
      BY <2>4 DEF RingInit
    <2>5. CASE Top(t)
      BY <2>5 DEF Top
    <2>6. CASE Switch(t)
      BY <2>6 DEF Switch
    <2>7. CASE Connect(t)
      BY <2>7 DEF Connect
    <2>8. CASE StoreConnected(t)
      BY <2>8 DEF StoreConnected
    <2>9. CASE Receive(t)
      BY <2>9 DEF Receive
    <2>10. CASE ReceiveData(t)
      BY <2>10 DEF ReceiveData, Reported
    <2>11. QED BY <1>4, <2>1, <2>2, <2>3, <2>4, <2>5, <2>6, <2>7, <2>8, <2>9, <2>10 DEF ClientStep
  <1>5. ASSUME NEW s \in Senders, SendStep(s) PROVE DataTypes'
    <2>1. CASE SendCheck(s)
      BY <2>1 DEF SendCheck, Done
    <2>2. CASE SendLock(s)
      BY <2>2 DEF SendLock, Done
    <2>3. CASE SendTaken(s)
      BY <2>3 DEF SendTaken, Done
    <2>4. CASE SendError(s)
      BY <2>4 DEF SendError, Reported, Done
    <2>5. CASE SigPipe(s)
      BY <2>5 DEF SigPipe, Done
    <2>6. CASE SendUnlock(s)
      BY <2>6 DEF SendUnlock, Done
    <2>7. QED BY <1>5, <2>1, <2>2, <2>3, <2>4, <2>5, <2>6 DEF SendStep, SendGoesOn
  <1>6. ASSUME NEW n \in Clients, Establish(n) \/ Refuse(n) \/ ServerExits(n) PROVE DataTypes'
    BY <1>6 DEF Establish, Refuse, ServerExits, Network
  <1>7. QED BY <1>1, <1>2, <1>3, <1>4, <1>5, <1>6 DEF Next

\* The flags.
LEMMA FlagStep == Types /\ Next => FlagTypes'
  <1> SUFFICES ASSUME Types, Next PROVE FlagTypes'
    OBVIOUS
  <1> USE StartsAssumption
        DEF Types, FlagTypes, MutexInUse, Running, Senders, Clients, Goto, client, window, history
  <1>1. CASE ClickConnect
    BY <1>1 DEF ClickConnect
  <1>2. CASE ClickDisconnect
    BY <1>2 DEF ClickDisconnect
  <1>3. CASE Recognise
    BY <1>3 DEF Recognise
  <1>4. ASSUME NEW t \in Clients, ClientStep(t) PROVE FlagTypes'
    <2>1. CASE ClearStruct(t)
      BY <2>1 DEF ClearStruct
    <2>2. CASE MakeSocket(t)
      BY <2>2 DEF MakeSocket
    <2>3. CASE MutexInit(t)
      BY <2>3 DEF MutexInit
    <2>4. CASE RingInit(t)
      BY <2>4 DEF RingInit
    <2>5. CASE Top(t)
      BY <2>5 DEF Top
    <2>6. CASE Switch(t)
      BY <2>6 DEF Switch
    <2>7. CASE Connect(t)
      BY <2>7 DEF Connect
    <2>8. CASE StoreConnected(t)
      BY <2>8 DEF StoreConnected
    <2>9. CASE Receive(t)
      BY <2>9 DEF Receive
    <2>10. CASE ReceiveData(t)
      BY <2>10 DEF ReceiveData
    <2>11. QED BY <1>4, <2>1, <2>2, <2>3, <2>4, <2>5, <2>6, <2>7, <2>8, <2>9, <2>10 DEF ClientStep
  <1>5. ASSUME NEW s \in Senders, SendStep(s) PROVE FlagTypes'
    <2>1. CASE SendCheck(s)
      BY <2>1 DEF SendCheck, Done
    <2>2. CASE SendLock(s)
      BY <2>2 DEF SendLock, Done
    <2>3. CASE SendTaken(s)
      BY <2>3 DEF SendTaken, Done
    <2>4. CASE SendError(s)
      BY <2>4 DEF SendError, Done
    <2>5. CASE SigPipe(s)
      BY <2>5 DEF SigPipe, Done
    <2>6. CASE SendUnlock(s)
      BY <2>6 DEF SendUnlock, Done
    <2>7. QED BY <1>5, <2>1, <2>2, <2>3, <2>4, <2>5, <2>6 DEF SendStep, SendGoesOn
  <1>6. ASSUME NEW n \in Clients, Establish(n) \/ Refuse(n) \/ ServerExits(n) PROVE FlagTypes'
    BY <1>6 DEF Establish, Refuse, ServerExits, Network
  <1>7. QED BY <1>1, <1>2, <1>3, <1>4, <1>5, <1>6 DEF Next

\* A thread that runs was started.
LEMMA UnstartedStep == Types /\ Unstarted /\ Next => Unstarted'
  <1> SUFFICES ASSUME Types /\ Unstarted, Next PROVE Unstarted'
    OBVIOUS
  <1> USE StartsAssumption
        DEF Types, PcTypes, DataTypes, Unstarted, Senders, Clients, Goto, client, window, history
  <1>1. CASE ClickConnect
    BY <1>1 DEF ClickConnect
  <1>2. CASE ClickDisconnect
    BY <1>2 DEF ClickDisconnect
  <1>3. CASE Recognise
    BY <1>3 DEF Recognise
  <1>4. ASSUME NEW t \in Clients, ClientStep(t) PROVE Unstarted'
    <2>1. CASE ClearStruct(t)
      BY <2>1 DEF ClearStruct
    <2>2. CASE MakeSocket(t)
      BY <2>2 DEF MakeSocket
    <2>3. CASE MutexInit(t)
      BY <2>3 DEF MutexInit
    <2>4. CASE RingInit(t)
      BY <2>4 DEF RingInit
    <2>5. CASE Top(t)
      BY <2>5 DEF Top
    <2>6. CASE Switch(t)
      BY <2>6 DEF Switch
    <2>7. CASE Connect(t)
      BY <2>7 DEF Connect
    <2>8. CASE StoreConnected(t)
      BY <2>8 DEF StoreConnected
    <2>9. CASE Receive(t)
      BY <2>9 DEF Receive
    <2>10. CASE ReceiveData(t)
      BY <2>10 DEF ReceiveData
    <2>11. QED BY <1>4, <2>1, <2>2, <2>3, <2>4, <2>5, <2>6, <2>7, <2>8, <2>9, <2>10 DEF ClientStep
  <1>5. ASSUME NEW s \in Senders, SendStep(s) PROVE Unstarted'
    <2>1. CASE SendCheck(s)
      BY <2>1 DEF SendCheck, Done
    <2>2. CASE SendLock(s)
      BY <2>2 DEF SendLock, Done
    <2>3. CASE SendTaken(s)
      BY <2>3 DEF SendTaken, Done
    <2>4. CASE SendError(s)
      BY <2>4 DEF SendError, Done
    <2>5. CASE SigPipe(s)
      BY <2>5 DEF SigPipe, Done
    <2>6. CASE SendUnlock(s)
      BY <2>6 DEF SendUnlock, Done
    <2>7. QED BY <1>5, <2>1, <2>2, <2>3, <2>4, <2>5, <2>6 DEF SendStep, SendGoesOn
  <1>6. ASSUME NEW n \in Clients, Establish(n) \/ Refuse(n) \/ ServerExits(n) PROVE Unstarted'
    BY <1>6 DEF Establish, Refuse, ServerExits, Network
  <1>7. QED BY <1>1, <1>2, <1>3, <1>4, <1>5, <1>6 DEF Next

\* A step into the loop finds the word 0, a step out leaves nobody there.
LEMMA LockedStep == Types /\ Locked /\ Next => Locked'
  <1> SUFFICES ASSUME Types /\ Locked, Next PROVE Locked'
    OBVIOUS
  <1> USE StartsAssumption
        DEF Types, PcTypes, DataTypes, Locked, InLoop, MutexInUse, Senders, Clients, Goto, client,
            window, history
  <1>1. CASE ClickConnect
    BY <1>1 DEF ClickConnect
  <1>2. CASE ClickDisconnect
    BY <1>2 DEF ClickDisconnect
  <1>3. CASE Recognise
    BY <1>3 DEF Recognise
  <1>4. ASSUME NEW t \in Clients, ClientStep(t) PROVE Locked'
    <2>1. CASE ClearStruct(t)
      BY <2>1 DEF ClearStruct
    <2>2. CASE MakeSocket(t)
      BY <2>2 DEF MakeSocket
    <2>3. CASE MutexInit(t)
      BY <2>3 DEF MutexInit
    <2>4. CASE RingInit(t)
      BY <2>4 DEF RingInit
    <2>5. CASE Top(t)
      BY <2>5 DEF Top
    <2>6. CASE Switch(t)
      BY <2>6 DEF Switch
    <2>7. CASE Connect(t)
      BY <2>7 DEF Connect
    <2>8. CASE StoreConnected(t)
      BY <2>8 DEF StoreConnected
    <2>9. CASE Receive(t)
      BY <2>9 DEF Receive
    <2>10. CASE ReceiveData(t)
      BY <2>10 DEF ReceiveData
    <2>11. QED BY <1>4, <2>1, <2>2, <2>3, <2>4, <2>5, <2>6, <2>7, <2>8, <2>9, <2>10 DEF ClientStep
  <1>5. ASSUME NEW s \in Senders, SendStep(s) PROVE Locked'
    <2>1. CASE SendCheck(s)
      BY <2>1 DEF SendCheck, Done
    <2>2. CASE SendLock(s)
      BY <2>2 DEF SendLock, Done
    <2>3. CASE SendTaken(s)
      BY <2>3 DEF SendTaken, Done
    <2>4. CASE SendError(s)
      BY <2>4 DEF SendError, Done
    <2>5. CASE SigPipe(s)
      BY <2>5 DEF SigPipe, Done
    <2>6. CASE SendUnlock(s)
      BY <2>6 DEF SendUnlock, Done
    <2>7. QED BY <1>5, <2>1, <2>2, <2>3, <2>4, <2>5, <2>6 DEF SendStep, SendGoesOn
  <1>6. ASSUME NEW n \in Clients, Establish(n) \/ Refuse(n) \/ ServerExits(n) PROVE Locked'
    BY <1>6 DEF Establish, Refuse, ServerExits, Network
  <1>7. QED BY <1>1, <1>2, <1>3, <1>4, <1>5, <1>6 DEF Next

\* One thread at a time.
LEMMA AloneStep == Types /\ Unstarted /\ Alone /\ Next => Alone'
  <1> SUFFICES ASSUME Types /\ Unstarted /\ Alone, Next PROVE Alone'
    OBVIOUS
  <1> USE StartsAssumption
        DEF Types, PcTypes, DataTypes, Unstarted, Alone, Socket, Running, Senders, Clients, Goto,
            client, window, history
  <1>1. CASE ClickConnect
    BY <1>1 DEF ClickConnect
  <1>2. CASE ClickDisconnect
    BY <1>2 DEF ClickDisconnect
  <1>3. CASE Recognise
    BY <1>3 DEF Recognise
  <1>4. ASSUME NEW t \in Clients, ClientStep(t) PROVE Alone'
    <2>1. CASE ClearStruct(t)
      BY <2>1 DEF ClearStruct
    <2>2. CASE MakeSocket(t)
      BY <2>2 DEF MakeSocket
    <2>3. CASE MutexInit(t)
      BY <2>3 DEF MutexInit
    <2>4. CASE RingInit(t)
      BY <2>4 DEF RingInit
    <2>5. CASE Top(t)
      BY <2>5 DEF Top
    <2>6. CASE Switch(t)
      BY <2>6 DEF Switch
    <2>7. CASE Connect(t)
      BY <2>7 DEF Connect
    <2>8. CASE StoreConnected(t)
      BY <2>8 DEF StoreConnected
    <2>9. CASE Receive(t)
      BY <2>9 DEF Receive
    <2>10. CASE ReceiveData(t)
      BY <2>10 DEF ReceiveData, Reported
    <2>11. QED BY <1>4, <2>1, <2>2, <2>3, <2>4, <2>5, <2>6, <2>7, <2>8, <2>9, <2>10 DEF ClientStep
  <1>5. ASSUME NEW s \in Senders, SendStep(s) PROVE Alone'
    <2>1. CASE SendCheck(s)
      BY <2>1 DEF SendCheck, Done
    <2>2. CASE SendLock(s)
      BY <2>2 DEF SendLock, Done
    <2>3. CASE SendTaken(s)
      BY <2>3 DEF SendTaken, Done
    <2>4. CASE SendError(s)
      BY <2>4 DEF SendError, Reported, Done
    <2>5. CASE SigPipe(s)
      BY <2>5 DEF SigPipe, Done
    <2>6. CASE SendUnlock(s)
      BY <2>6 DEF SendUnlock, Done
    <2>7. QED BY <1>5, <2>1, <2>2, <2>3, <2>4, <2>5, <2>6 DEF SendStep, SendGoesOn
  <1>6. ASSUME NEW n \in Clients, Establish(n) \/ Refuse(n) \/ ServerExits(n) PROVE Alone'
    BY <1>6 DEF Establish, Refuse, ServerExits, Network
  <1>7. QED BY <1>1, <1>2, <1>3, <1>4, <1>5, <1>6 DEF Next

\* The first session.
LEMMA FirstStep == Types /\ Unstarted /\ First /\ Next => First'
  <1> SUFFICES ASSUME Types /\ Unstarted /\ First, Next PROVE First'
    OBVIOUS
  <1> USE StartsAssumption
        DEF Types, PcTypes, DataTypes, Unstarted, First, Online, Socket, Senders, Clients, Goto,
            client, window, history
  <1>1. CASE ClickConnect
    <2>1. CASE starts = 0
      <3>1. ~Online
        BY <2>1
      <3>2. \A t \in Clients : pc'[t] \in {"none", "memset", "ended"}
        BY <1>1, <2>1, ClickPlaces
      <3>3. ~Online'
        BY <1>1, <3>1, <3>2 DEF ClickConnect
      <3>4. pc'[Recogn] = pc[Recogn] /\ hasFrame' = hasFrame
        BY <1>1, ClickPlaces DEF ClickConnect
      <3>5. QED BY <3>3, <3>4
    <2>2. CASE starts # 0
      <3>1. ~(starts' <= 1)
        BY <1>1, <2>2, ClickPlaces
      <3>2. pc'[Recogn] = pc[Recogn] /\ hasFrame' = hasFrame
        BY <1>1, ClickPlaces DEF ClickConnect
      <3>3. QED BY <3>1, <3>2
    <2>3. QED BY <2>1, <2>2
  <1>2. CASE ClickDisconnect
    BY <1>2 DEF ClickDisconnect
  <1>3. CASE Recognise
    BY <1>3 DEF Recognise
  <1>4. ASSUME NEW t \in Clients, ClientStep(t) PROVE First'
    <2>1. CASE ClearStruct(t)
      BY <2>1 DEF ClearStruct
    <2>2. CASE MakeSocket(t)
      BY <2>2 DEF MakeSocket
    <2>3. CASE MutexInit(t)
      BY <2>3 DEF MutexInit
    <2>4. CASE RingInit(t)
      BY <2>4 DEF RingInit
    <2>5. CASE Top(t)
      BY <2>5 DEF Top
    <2>6. CASE Switch(t)
      BY <2>6 DEF Switch
    <2>7. CASE Connect(t)
      <3>1. pc'[Recogn] = pc[Recogn] /\ hasFrame' = hasFrame /\ starts' = starts
        BY <2>7 DEF Connect
      <3>2. \A u \in Clients : u # t => pc'[u] = pc[u]
        BY <2>7 DEF Connect
      <3>3. CASE starts <= 1 /\ Online'
        <4>1. starts = 1 /\ \A u \in Clients : pc'[u] \notin {"memset", "socket"}
          BY <2>7, <3>2, <3>3 DEF Connect
        <4>2. CASE Online
          BY <2>7, <3>3, <4>2 DEF Connect
        <4>3. CASE ~Online
          <5>1. pc'[t] = "store"
            BY <2>7, <3>2, <3>3, <4>3 DEF Connect
          <5>2. fd \in Clients /\ sock[fd] = "estab" /\ sock' = [sock EXCEPT ![fd] = "conn"] /\ fd' = fd
            BY <2>7, <5>1 DEF Connect
          <5>3. sock'[fd'] = "conn" /\ fd' \in Clients
            <6>1. sock \in [Clients -> SocketStates]
              OBVIOUS
            <6>2. QED BY <5>2, <6>1
          <5>4. QED BY <5>3, <3>1, <4>1
        <4>4. QED BY <3>1, <4>1, <4>2, <4>3
      <3>4. QED BY <3>1, <3>3
    <2>8. CASE StoreConnected(t)
      BY <2>8 DEF StoreConnected
    <2>9. CASE Receive(t)
      BY <2>9 DEF Receive
    <2>10. CASE ReceiveData(t)
      BY <2>10 DEF ReceiveData, Reported
    <2>11. QED BY <1>4, <2>1, <2>2, <2>3, <2>4, <2>5, <2>6, <2>7, <2>8, <2>9, <2>10 DEF ClientStep
  <1>5. ASSUME NEW s \in Senders, SendStep(s) PROVE First'
    <2>1. CASE SendCheck(s)
      BY <2>1 DEF SendCheck, Done
    <2>2. CASE SendLock(s)
      BY <2>2 DEF SendLock, Done
    <2>3. CASE SendTaken(s)
      BY <2>3 DEF SendTaken, Done
    <2>4. CASE SendError(s)
      BY <2>4 DEF SendError, Reported, Done
    <2>5. CASE SigPipe(s)
      BY <2>5 DEF SigPipe, Done
    <2>6. CASE SendUnlock(s)
      BY <2>6 DEF SendUnlock, Done
    <2>7. QED BY <1>5, <2>1, <2>2, <2>3, <2>4, <2>5, <2>6 DEF SendStep, SendGoesOn
  <1>6. ASSUME NEW n \in Clients, Establish(n) \/ Refuse(n) \/ ServerExits(n) PROVE First'
    BY <1>6 DEF Establish, Refuse, ServerExits, Network
  <1>7. QED BY <1>1, <1>2, <1>3, <1>4, <1>5, <1>6 DEF Next

\* SIGPIPE at a socket that never connected is beyond the first session.
LEMMA SurvivesStep == IInv /\ Next => FirstSessionSurvives'
  <1> SUFFICES ASSUME IInv, Next PROVE FirstSessionSurvives'
    OBVIOUS
  <1>1. starts' >= starts /\ starts' \in Nat /\ starts \in Nat
    <2>1. starts \in Nat /\ starts' \in Nat
      BY DataStep, StartsAssumption DEF IInv, Types, DataTypes
    <2>2. starts' = starts \/ starts' = starts + 1
      BY DEF Next, ClickConnect, ClickDisconnect, Recognise, ClientStep, ClearStruct, MakeSocket,
             MutexInit, RingInit, Top, Switch, Connect, StoreConnected, Receive, ReceiveData,
             SendStep, SendGoesOn, SendCheck, SendLock, SendTaken, SendError, SigPipe, SendUnlock,
             Establish, Refuse, ServerExits, Network, window
    <2>3. QED BY <2>1, <2>2
  <1>2. alive
    BY DEF Next
  <1>3. CASE alive'
    BY <1>3 DEF FirstSessionSurvives
  <1>4. CASE ~alive'
    <2>1. PICK s \in Senders : SigPipe(s)
      BY <1>2, <1>4 DEF Next, ClickConnect, ClickDisconnect, Recognise, ClientStep, ClearStruct,
                        MakeSocket,
             MutexInit, RingInit, Top, Switch, Connect, StoreConnected, Receive, ReceiveData,
             SendStep, SendGoesOn, SendCheck, SendLock, SendTaken, SendError, SendUnlock,
             Establish, Refuse, ServerExits, Network
    <2>2. CASE starts <= 1
      <3>1. Online
        <4>1. CASE s = Recogn
          BY <2>1, <4>1 DEF IInv, First, Online, SigPipe
        <4>2. CASE s # Recogn
          BY <2>1, <4>2 DEF Online, SigPipe, Senders
        <4>3. QED BY <4>1, <4>2
      <3>2. Socket = "closed"
        BY <2>1, <2>2, <3>1 DEF IInv, First, SigPipe
      <3>3. fd \in Clients /\ sock[fd] = "closed"
        BY <3>2 DEF Socket
      <3>4. sock' = sock
        BY <2>1 DEF SigPipe
      <3>5. QED BY <3>3, <3>4 DEF FirstSessionSurvives
    <2>3. CASE starts > 1
      BY <1>1, <2>3 DEF FirstSessionSurvives
    <2>4. QED BY <1>1, <2>2, <2>3
  <1>5. QED BY <1>3, <1>4

LEMMA SpecIInv == Spec => []IInv
  <1>1. Init => IInv
    BY InitIInv
  <1>2. IInv /\ [Next]_vars => IInv'
    <2>1. ASSUME IInv, Next PROVE IInv'
      BY <2>1, PcStep, DataStep, FlagStep, UnstartedStep, LockedStep, AloneStep, FirstStep,
         SurvivesStep DEF IInv, Types
    <2>2. ASSUME IInv, UNCHANGED vars PROVE IInv'
      BY <2>2 DEF vars, client, window, history, IInv, Types, PcTypes, DataTypes, FlagTypes,
                  Unstarted, Locked, InLoop, Alone, Socket, First, Online, FirstSessionSurvives
    <2>3. QED BY <2>1, <2>2
  <1>3. QED BY <1>1, <1>2, PTL DEF Spec

\* Every variable keeps its type, and client->fd names a socket or none.
THEOREM ClientTypes == Spec => []TypeOK
  <1>1. IInv => TypeOK
    BY DEF IInv, Types, PcTypes, DataTypes, FlagTypes, ThreadPlaces, TypeOK, SenderPlaces, Senders
  <1>2. QED BY <1>1, SpecIInv, PTL

\* At most one thread is in the send loop of client_send_data until a client
\* thread clears the mutex under its users.
THEOREM ClientSendLoopLocked == Spec => []ExclusiveUnlessReset
  <1>1. IInv => ExclusiveUnlessReset
    <2> SUFFICES ASSUME IInv, ~reset PROVE Cardinality(SendersInLoop) <= 1
      BY DEF ExclusiveUnlessReset
    <2>1. CASE SendersInLoop = {}
      BY <2>1, FS_EmptySet
    <2>2. CASE SendersInLoop # {}
      <3>1. PICK s : s \in SendersInLoop
        BY <2>2
      <3>2. SendersInLoop = {s}
        BY <3>1 DEF SendersInLoop, IInv, Locked, InLoop
      <3>3. QED BY <3>2, FS_Singleton
    <2>3. QED BY <2>1, <2>2
  <1>2. QED BY <1>1, SpecIInv, PTL

\* The state CONNECTED is that of a socket whose connect returned 0, unless
\* two client threads ran at once.
THEOREM ConnectedMeansConnected == Spec => []ConnectedIsConnected
  <1>1. IInv => ConnectedIsConnected
    BY DEF IInv, Alone, ConnectedIsConnected
  <1>2. QED BY <1>1, SpecIInv, PTL

\* Heartbeats and plates of the first session never go to a socket that has
\* not connected, which SIGPIPE would punish.
THEOREM FirstSessionNotKilled == Spec => []FirstSessionSurvives
  <1>1. IInv => FirstSessionSurvives
    BY DEF IInv
  <1>2. QED BY <1>1, SpecIInv, PTL
=============================================================================
