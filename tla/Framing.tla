------------------------------ MODULE Framing ------------------------------
(***************************************************************************)
(* The framing both programs carry in their source and fall back on when   *)
(* built without lib_proto.a's: the weak proto_makeup_packet,              *)
(* proto_detect_packet and proto_analy_packet, between a sender and the    *)
(* receive ring of the other program.  A byte is a number below Base, so   *)
(* that a small Base makes lengths overflow their two bytes; the ring is   *)
(* the sequence it implements (RingBuffer); a turn of a loop of            *)
(* proto_detect_packet is a step.                                          *)
(***************************************************************************)
EXTENDS Integers, Sequences, FiniteSetsExt

CONSTANTS
  Base,                \* 256
  Mark, Verify, End,   \* 0xAA, 'A', 0xFF
  Cmds,                \* the commands that are sent; their handlers read data
  Data,                \* their data
  MaxUnread            \* bound: bytes on their way when a packet is made

Bytes == 0..Base-1

ASSUME BytesAssumption == /\ Base \in Nat \ {0, 1}
                          /\ {Mark, Verify, End} \cup Cmds \subseteq Bytes
                          /\ Mark # Verify
                          /\ Data \subseteq Seq(Bytes)

VARIABLES
  network,      \* bytes sent and not received
  recv_ringbuf,
  proto_data, proto_len,   \* the buffer packets are put in, and how much of it
  tmp_protoLen,
  pc,           \* where the receiving thread is
  ret,          \* what proto_detect_packet returned last
  found,        \* history: the ring as the last call found it
  made          \* history: the last packet made, and what it was made of

vars == <<network, recv_ringbuf, proto_data, proto_len, tmp_protoLen, pc, ret, found, made>>

Init ==
  /\ network = <<>> /\ recv_ringbuf = <<>>
  /\ proto_data = [k \in 0..5 |-> 0]  \* the first six bytes of PROTO_PACK_MAX_LEN
  /\ proto_len = 0 /\ tmp_protoLen = 0
  /\ pc = "receive"
  /\ ret = -1
  /\ found = <<>>
  /\ made = <<>>
-----------------------------------------------------------------------------
(* proto_makeup_packet, proto_analy_packet *)

\* Mutant: the command and the sequence number change places.
MakeupSwapped(cmd, data) ==
  <<Mark, Verify, cmd, 0, Len(data) % Base, (Len(data) \div Base) % Base>>
    \o data \o <<End>>

\* memcpy of two bytes of len, the low one first.
proto_makeup_packet(cmd, data) ==
  <<Mark, Verify, 0, cmd, Len(data) % Base, (Len(data) \div Base) % Base>>
    \o data \o <<End>>

proto_analy_packet(pack) ==
  LET len == pack[5] + Base * pack[6]
  IN  [cmd |-> pack[4], len |-> len, data |-> SubSeq(pack, 7, 6 + len)]

\* The other program sends a packet.
SendPacket ==
  /\ Len(network) + Len(recv_ringbuf) <= MaxUnread
  /\ \E cmd \in Cmds, data \in Data :
       /\ made' = [cmd |-> cmd, data |-> data, pack |-> proto_makeup_packet(cmd, data)]
       /\ network' = network \o made'.pack
  /\ UNCHANGED <<recv_ringbuf, proto_data, proto_len, tmp_protoLen, pc, ret, found>>
-----------------------------------------------------------------------------
(* The receiving thread *)

Goto(from, to) == pc = from /\ pc' = to

\* server_recv_data and client_recv_data: what has arrived of the stream, cut
\* anywhere, and the call of proto_detect_packet.
Receive ==
  /\ Goto("receive", "head")
  /\ \E n \in 0..Len(network) :
       /\ recv_ringbuf' = recv_ringbuf \o SubSeq(network, 1, n)
       /\ network' = SubSeq(network, n + 1, Len(network))
  /\ found' = recv_ringbuf'
  /\ tmp_protoLen' = proto_len
  /\ UNCHANGED <<proto_data, proto_len, ret, made>>

byte == Head(recv_ringbuf)

\* A loop ends with the ring empty, and the loops after it do not begin.
Drained ==
  /\ pc \in {"head", "verify", "rest"} /\ recv_ringbuf = <<>>
  /\ pc' = "receive"
  /\ proto_len' = tmp_protoLen
  /\ ret' = -1
  /\ UNCHANGED <<network, recv_ringbuf, proto_data, tmp_protoLen, found, made>>

CheckHead ==
  /\ pc = "head" /\ recv_ringbuf # <<>>
  /\ recv_ringbuf' = Tail(recv_ringbuf)
  /\ \/ /\ byte = Mark
        /\ proto_data' = [proto_data EXCEPT ![0] = byte]
        /\ tmp_protoLen' = 1
        /\ pc' = "verify"
     \/ /\ byte # Mark
        /\ UNCHANGED <<proto_data, tmp_protoLen, pc>>
  /\ UNCHANGED <<network, proto_len, ret, found, made>>

\* Mutant: a byte that does not fit goes back to the search for the head.
CheckVerifyGivesUp ==
  /\ pc = "verify" /\ recv_ringbuf # <<>>
  /\ recv_ringbuf' = Tail(recv_ringbuf)
  /\ \/ /\ byte = Verify
        /\ proto_data' = [proto_data EXCEPT ![tmp_protoLen] = byte]
        /\ tmp_protoLen' = tmp_protoLen + 1
        /\ pc' = "rest"
     \/ /\ byte # Verify
        /\ pc' = "head"
        /\ UNCHANGED <<proto_data, tmp_protoLen>>
  /\ UNCHANGED <<network, proto_len, ret, found, made>>

\* Only the byte after the head is compared, and others are skipped.
CheckVerify ==
  /\ pc = "verify" /\ recv_ringbuf # <<>>
  /\ recv_ringbuf' = Tail(recv_ringbuf)
  /\ \/ /\ byte = Verify
        /\ proto_data' = [proto_data EXCEPT ![tmp_protoLen] = byte]
        /\ tmp_protoLen' = tmp_protoLen + 1
        /\ pc' = "rest"
     \/ /\ byte = Mark
        /\ proto_data' = [proto_data EXCEPT ![0] = byte]
        /\ tmp_protoLen' = 1
        /\ UNCHANGED pc
     \/ /\ byte \notin {Mark, Verify}
        /\ UNCHANGED <<proto_data, tmp_protoLen, pc>>
  /\ UNCHANGED <<network, proto_len, ret, found, made>>

Copied(data, at, bytes) ==
  [k \in DOMAIN data |-> IF k - at + 1 \in DOMAIN bytes THEN bytes[k - at + 1] ELSE data[k]]

\* Mutant: one byte more is read.
ReadRestOneMore ==
  /\ pc = "rest" /\ recv_ringbuf # <<>>
  /\ LET len == Min({tmp_protoLen + 1, Len(recv_ringbuf)})
         end == tmp_protoLen + len
     IN  /\ proto_data' = Copied(proto_data, tmp_protoLen, SubSeq(recv_ringbuf, 1, len))
         /\ recv_ringbuf' = SubSeq(recv_ringbuf, len + 1, Len(recv_ringbuf))
         /\ \/ /\ proto_data'[end - 1] = End
               /\ tmp_protoLen' = end
               /\ pc' = "handle"
               /\ ret' = 0
            \/ /\ proto_data'[end - 1] # End
               /\ tmp_protoLen' = 0
               /\ pc' = "receive"
               /\ ret' = -1
  /\ proto_len' = tmp_protoLen'
  /\ UNCHANGED <<network, found, made>>

\* One read, of as many bytes as the buffer holds so far, decides; the size
\* of the buffer, PROTO_PACK_MAX_LEN, is never exceeded.
ReadRest ==
  /\ pc = "rest" /\ recv_ringbuf # <<>>
  /\ LET len == Min({tmp_protoLen, Len(recv_ringbuf)})
         end == tmp_protoLen + len
     IN  /\ proto_data' = Copied(proto_data, tmp_protoLen, SubSeq(recv_ringbuf, 1, len))
         /\ recv_ringbuf' = SubSeq(recv_ringbuf, len + 1, Len(recv_ringbuf))
         /\ \/ /\ proto_data'[end - 1] = End
               /\ tmp_protoLen' = end
               /\ pc' = "handle"
               /\ ret' = 0
            \/ /\ proto_data'[end - 1] # End
               /\ tmp_protoLen' = 0
               /\ pc' = "receive"
               /\ ret' = -1
  /\ proto_len' = tmp_protoLen'
  /\ UNCHANGED <<network, found, made>>

\* server_proto_handle and client_proto_handle look at the command and the
\* length where a made packet has them, beyond what was found: the command
\* may be one an earlier search left there, the length is 0, and the handlers
\* then read their data at address 0.
Handle ==
  LET pack == proto_analy_packet([k \in 1..6 |-> proto_data[k - 1]])
  IN  /\ \/ Goto("handle", "receive") /\ pack.cmd \notin Cmds
         \/ Goto("handle", "crashed") /\ pack.cmd \in Cmds
      /\ UNCHANGED <<network, recv_ringbuf, proto_data, proto_len, tmp_protoLen, ret, found, made>>

Next ==
  \/ SendPacket
  \/ Receive
  \/ Drained
  \/ CheckHead
  \/ CheckVerify
  \/ ReadRest
  \/ Handle

Spec == Init /\ [][Next]_vars
-----------------------------------------------------------------------------
(* Properties *)

\* Every variable has its type; four bytes of the buffer are ever used.
TypeOK ==
  /\ {network, recv_ringbuf, found} \subseteq Seq(Bytes)
  /\ proto_data \in [0..5 -> Bytes]
  /\ proto_data[4] = 0 /\ proto_data[5] = 0
  /\ proto_len \in 0..4 /\ tmp_protoLen \in 0..4
  /\ pc \in {"receive", "head", "verify", "rest", "handle", "crashed"}
  /\ ret \in {0, -1}
  /\ made # <<>> => made.cmd \in Cmds /\ made.data \in Data

\* Where a Verify follows a Mark.
Verified(s) == {v \in DOMAIN s : s[v] = Verify /\ \E h \in 1..v-1 : s[h] = Mark}

\* What a call makes of the ring it found, read in one go: the first Verify
\* that follows a Mark, and the one or two bytes after that.
Scan(s) ==
  LET v == Min(Verified(s))
      last == Min({v + 2, Len(s)})
  IN  IF Verified(s) = {} \/ v = Len(s) THEN [pack |-> <<>>, left |-> <<>>]
      ELSE [pack |-> IF s[last] = End THEN <<Mark, Verify>> \o SubSeq(s, v + 1, last) ELSE <<>>,
            left |-> SubSeq(s, last + 1, Len(s))]

Packet == [k \in 1..proto_len |-> proto_data[k - 1]]

\* Every call of proto_detect_packet comes to what its bytes say, whatever
\* the calls before it left in the buffer.
DetectIsScan ==
  /\ pc = "handle" => Scan(found) = [pack |-> Packet, left |-> recv_ringbuf]
  /\ pc = "receive" /\ ret = -1 => Scan(found) = [pack |-> <<>>, left |-> recv_ringbuf]

\* A packet analysed gives back the command and the data it was made from,
\* its length cut to two bytes: the data of a longer one loses its end.
AnalyUndoesMakeup ==
  made # <<>> =>
    LET len == Len(made.data) % (Base * Base)
    IN  proto_analy_packet(made.pack) =
          [cmd |-> made.cmd, len |-> len, data |-> SubSeq(made.data, 1, len)]
=============================================================================
