# TLA+ models of the car plate monitor and platform

The repository holds two Qt programs that talk over one TCP connection
(`src/carplate_recogn_cs/`):

* **monitor**, on an ARM board: takes frames from a V4L2 camera, shows them,
  sends them to the platform and shows the plates the platform sends back;
* **platform**, on a PC: connects to the monitor, shows its frames, finds the
  plate in them with OpenCV and sends it back.

This directory models the parts in which threads, buffers and connections meet,
checks them with TLC on small instances, and proves with TLAPS what can be
proved for every size. Paths below are relative to `src/carplate_recogn_cs/`.

## 1. Inventory

| Component | State | Operations | Met by |
|---|---|---|---|
| Ring buffer (`ringbuffer.cpp`, the same file in both programs) | `buf`, `size`, `head`, `tail`, `len` | write, read, init, reset, deinit, five queries | the receive side of both programs |
| Frame store (`monitor/public.cpp:28-103`, `platform/public.cpp:121-196`) | `newframe_buf`, `newframe_len`, `frame_index`, `newframe_mut` | update, get, clear (never called), init | capture thread or client thread (update); the display timer and the recognition thread (get) |
| Camera capture (`monitor/capture.cpp`) | the device, five mapped buffers, who owns each | `capture_init` with error paths, start, the loop | frame store, monitor server |
| Monitor server (`monitor/socket_server.cpp`) | one `client_info_t`: `fd`, `send_mutex`, `tmp_buf`, `ack_buf`, receive ring; `g_send_video_flag` | listen thread, a task thread per connection, send, receive, handlers 0x03, 0x10, 0x20, frame sender 0x21 | the peer, the capture thread |
| Platform client (`platform/socket_client.cpp`) | one `client_info_t`: `fd`, `tcp_state`, `send_mutex`, receive ring | client thread, send, receive, handlers 0x03 and 0x21, stop | the button, the recognition thread, the peer |
| Packet framing, fallback | the packet buffer and `proto_len`, kept by the callers from one call to the next | weak `proto_makeup_packet`, `proto_detect_packet`, `proto_analy_packet` in both socket files | both programs |
| Packet framing, library | binary `resource/lib_proto.a` | the strong versions, linked in place of the fallback | both programs |
| Plate mailbox | `g_carplate_str`, `g_carplate_update` | stored by a handler or by the recogniser, shown and cleared by the timer | server task or recognition thread, window |
| Recognition (`platform/opencv_carplate.cpp`) | the region taken for a plate, the contours taken for characters, their order | detect, split, order and classify characters | frame store, plate mailbox, `proto_0x10_carplate` |
| Both programs together | what is on its way between them | frames and acks down, heartbeats and plates up | sockets, receive rings, both windows |
| Windows and start-up | widgets | timer, button, `main` | all |

There are no tests in the repository, and its README is one line.

What is hard here is concurrency. Every program is a few threads around one
global struct, with one mutex that covers less than it seems to: the frame
store's mutex covers the bytes and neither the length nor the number; the send
mutex is initialised by a thread that starts after the struct is in use; a new
connection overwrites the descriptor that other threads are sending on. The
hazards are listed in `PROJECT.json`, each at its line with the properties that
would catch it. What makes each component correct:

* ring buffer: it is a FIFO of bytes, whatever wraps and whatever is asked for;
* frame store: a reader gets a whole frame, never an older one than before,
  with a length that is not of the future, and no last frame stays unseen;
* capture: a buffer is with the driver or with the thread, never both, and an
  initialisation that fails leaves nothing behind;
* server and client: one sender at a time, packets come out in order, a send that
  can end ends, `tcp_state` tells the truth, connect and disconnect take effect;
* framing: what one program makes the other finds and takes apart, however the
  stream is cut (the fallback takes apart what it makes and does not find it,
  see `Framing` below);
* recognition: the characters come out from left to right, each once, and the
  plate left for the window is the reading of one image;
* mailbox: the window shows a plate whole, and shows every plate;
* both programs: the stream is whole packets one after the other, the two do not
  wait for each other as long as there is room, a heartbeat is answered, a plate
  comes back to the monitor's window.

## 2. Modules

| Module | Models | Remarks |
|---|---|---|
| `ByteQueue` | what the ring promises | abstract specification |
| `RingBuffer` | `ringbuffer.cpp`, one action per branch | implements `ByteQueue` (`BQ == INSTANCE ...`) |
| `NewFrame` | the frame store, one action per access to shared memory, with its readers | |
| `MonitorServer` | listen, task and capture threads around `client_info_t`, the mutex as the word and the sleepers it is, packets in units | |
| `PlatformClient` | button, client threads, recognition thread, the socket as the kernel sees it | |
| `Capture` | `capture_init` and the capture loop against the driver | |
| `Plate` | the mailbox of a plate: string, flag and the window's three steps | no specification of its own; an `INSTANCE` in the next and in `Link` |
| `Recognition` | the recognition thread on what its decisions depend on, with the platform's mailbox and window | |
| `Framing` | the fallback's three functions on a stream cut anywhere | |
| `Link` | both programs over one connection, with the monitor's mailbox and window | composes simpler forms of the components above |
| `RingBufferProofs`, `FramingProofs`, `NewFrameProofs`, `CaptureProofs`, `PlatformClientProofs`, `MonitorServerProofs`, `RecognitionProofs`, `LinkProofs` | theorems | extend the module and `TLAPS` |
| `MC*` | the instances TLC checks | bounds in the header of each and in its `.cfg` |

Each module declares its bounds among its CONSTANTS with the word "bound" and
names its history variables "history": these record what happened for the
properties to speak of and guard nothing. An operator whose comment begins with
"Mutant:" is not part of the model; it is a wrong version of the definition
below it, and putting it in that definition's place breaks the property that
`PROJECT.json` names with it. This shows that the property is not true by the
shape of the model.

### RingBuffer

The five fields of the struct, plus `ret` and `got`, the result of the last
call. `ringbuf_write` has four branches and so has `ringbuf_read`; the copies
are functions on the array's indices. `malloc` leaves `Junk` in the cells, so
that reading a cell never written shows. `ringbuf_init` may fail; called again
it forgets the old array, as the second connection does. Left out: the early
returns for a NULL pointer or a negative length, which no caller passes.

The refinement mapping is `queue <- Contents, cap <- size`, where `Contents`
reads `len` cells from `tail` on, round the end.

### NewFrame

A frame is its number; the bytes are that number, or `Blank` between `memset`
and `memcpy`. An update is seven steps and a read six, as `newframe_len` and
`frame_index` are accessed outside the mutex. The race on the two is a choice:
the stores of an update arrive in either order, each whole, and each before the
next step of the thread that made it. Not modelled: a store seen
later than that (at the latest when its thread next releases the mutex), or the
reader's load of `frame_index` done earlier than the code says (at the earliest
when it takes the mutex), either of which ARM may do. The increment of
`frame_index` past `INT_MAX` is undefined: the model lets the test after it see
the wrapped value, or be compiled away.

The lengths that are passed in are positive and may exceed `FRAME_BUF_SIZE`;
the buffers of every caller have `FRAME_BUF_SIZE` bytes. Left out: a failed
allocation in `newframe_mem_init` (no caller looks at its result, and the first
update would write to address 0), and `capture_clear_newframe`, which nobody
calls. The comment on `capture_get_newframe` also mentions a result of 0 for a
frame that did not change; the code never returns it after the first update, as
`frame_index` is positive from then on unless it overflowed.

### MonitorServer

A connection, its descriptor and its task thread share a number. `Accept` writes
it to `client_fd` at once, `AcceptFails` writes -1; `Create` starts the task,
which initialises the mutex, sets the descriptor that is then in `client_fd` to
`O_NONBLOCK`, initialises the ring and loops. A packet is `Parts` units;
`SendUnit` reads `client_fd` afresh for every `send`, as the loop does, and
stays with one descriptor only while a `send` on a blocking socket blocks.
`partial` and `damage` record, per connection, when a unit arrives that is not
the one due, or comes from a buffer cleared meanwhile.

The mutex is not an abstract lock, as it is initialised while in use: it is the
futex word with its sleepers (0 free, 1 held, 2 held and contended), and
`MutexInit` stores 0 and wakes nobody.

Requests arrive whole. With two tasks on one ring (no lock on it), a request may
be handled twice or lost: the data race is this choice. `server_init` may fail, and
nobody listens then. A plate takes its place among the requests here; what its
handler stores is in `Link`, the bytes of the ring are in `RingBuffer`.

### PlatformClient

Every look at `tcp_state` is a step: the loop condition, the switch and the
second test. A client thread's socket has the state the kernel keeps: idle, in
the handshake, established, connected (the `connect` that returned 0), closed by
the peer, refused, aborted. `connect` on a non-blocking socket starts the
handshake first and reports success at a later call. A refusal is reported by
the first call that meets it, be it `connect`, `send` or `recv` (`Reported`);
after that the socket is not connected, and the next `connect` starts again.
A packet to the monitor is at most a few dozen bytes and is taken by one `send`,
or, when the socket has no room, tried again with the mutex held for as long as
that lasts. What arrived before the monitor closed is still received. The struct is
cleared by `memset` as each client thread starts, whoever uses it.

### Capture

The thread alone, with every `ioctl`, `open` and `mmap` free to fail. The loop's
`index` is overwritten by `VIDIOC_DQBUF` before it is used and is left out. The
call of `proto_0x21_sendframe` may never return, as `server_send_data` tries
again for as long as its peer does not read.
`capture_deinit` and `v4l2cap_stop` follow an endless loop and are never
reached.

### Plate

`g_carplate_str` is two halves, so that it can be found half copied, and
`g_carplate_update` the flag beside it. `Look`, `Show` and `Lower` are the three
accesses of the window's timer: the test of the flag, `setText`, the store of 0.
Who stores a plate composes `Begin`, `Copy` and `Raise`: `server_0x10_carplate`
on the monitor (`strncpy`, a `printf`, the flag) and `car_plate_recogn` on the
platform (`memset`, `memcpy`, the flag). `hurried` records that a store began
before the plate of the one before it was shown and the flag lowered; without a
lock that is when a plate can be shown in part or missed. On the platform nothing
stands between the string and the flag, and neither is atomic or volatile, so the
compiler may move the store of the flag up: `RaiseFirst`, recorded in
`raisedFirst`. On the monitor the call of `printf` between them keeps the order.
Not modelled: the flag and the string seen in another order by an ARM core than
they were stored in.

### Recognition

An image is the sequence of regions OpenCV finds in it, a region its size, the
colour changes of its rows, its share of white and the contours found in it, a
contour its bounding box and what the classifiers take it for: what a picture
holds is the input, what the code decides from it is the model. `Detect` takes
the first region that passes `verifySizes_closeImg`; `Clear` is the test of
`clearLiuDing`; `Filter` is a turn of the loop over the contours; `Compare` a
turn of the inner loop of `char_sort`, `NextPass` of the outer; `Cut` the test of
each character against the edge of the region. `char_sort` reads seven elements
whatever the vector holds: with fewer, `ReadPastEnd` takes something from memory
or crashes; such a character is called `Junk`, whatever the classifiers make of
it, so that it can be told from the image's own, and its centre may be no number
(`NaN`), for which every comparison fails and nothing is said of the order. Left
out: a ratio that lies on its limit exactly, where `float` may round either way (a
region of side 0, whose ratio is no number, is rejected by its area in code and model
alike); the sleeps; a capture without a new frame, which
only comes back to `Detect`.

### Framing

`proto_detect_packet` is followed turn by turn: the search for 0xAA, for `A`, and
the one read of as many bytes as the buffer holds by then, which is two. So the
fallback finds three or four bytes, the last of them 0xFF, and never a packet
`proto_makeup_packet` made, which has at least seven. `DetectIsScan` says exactly
what it finds and what it leaves in the ring. The model also shows what comes
with it: 0xAA as the last byte that had arrived is searched for again and so
lost; of three or four bytes found, the command and the length are looked at in
bytes a search did not fill, so the command may be an earlier one's and the
length is 0, and a handler then reads its data at address 0 (`Handle`,
`crashed`). The length of a packet is cut to two bytes, which a frame of 65536
bytes exceeds. None of this happens in the build as it is: `proto_lib_init`,
which only `lib_proto.a` defines, brings in the object whose strong symbols replace the
fallback. Built with `PROTO_LIB_INIT` the programs define it themselves, the
object is not taken from the archive, and the fallback is what runs.
A byte is a number below `Base`, the ring a sequence, which is what
`RingImplementsQueue` proves it to be. The buffer's first six bytes are kept, as
no more are read.

### Link

A connection from the start of its task's loop on. Frames and acks go down in
units, as many as there is room for in the socket and in the platform's receive
ring; heartbeats and plates, which are a few dozen bytes, come up as packets, for
which there is room for `UpRoom` of them. Each program has its two senders and
its mutex, free or held: that they exclude, and when not, is what
`MonitorServer` and `PlatformClient` are about. A sender that finds no room keeps
its mutex and tries again: on the platform that is the client thread with a
heartbeat, which does not receive meanwhile, or the recognition thread with a
plate, behind which the client waits for the mutex. `Receive` is a turn of the
client's loop, which handles one packet when all of it is there. The platform may disconnect (the socket stays
open, nobody reads, and the recogniser still sends plates of the frame it has) or
exit; the monitor is then ended by SIGPIPE at its next send. The window of the
monitor looks for a plate only when there is a new frame. One connection only: a
second session is in `MonitorServer` and `PlatformClient`.

The two loops can jam. When the way down is full and the task waits to send an
answer, and the way up is full and the client waits to send a heartbeat, neither
reads and neither ever sends (`Jammed`): the camera's picture stops too, as the
capture thread waits in or before the same send. It takes as many heartbeats and
plates unread as a socket holds, which is rare, but nothing excludes it, and the
model reaches it with one packet of room. `OnlyJamIsCircle` says that this is the
only way the four threads wait in a circle; `HeartbeatsAnswered` and
`PlateReachesWindow` except it.

A disconnect without an exit shows in the model as the capture thread waiting
inside `server_send_data` for a peer that does not read: the monitor's own
picture stops, and the plates that still come are not shown. `Ended` excepts it
from the liveness properties.

## 3. Runs

| Run | Instance | Result |
|---|---|---|
| `ring_buffer` | 3 cells, 2 byte values, requests of 0 to 4 bytes | the fields agree, no junk is read, the ring is a bounded byte queue |
| `new_frame` | 1 display, 1 recogniser, 3 updates, lengths below and above the buffer, `INT_MAX` = 2 | frames whole, forward only, lengths never of a newer frame, quiet calls exact, the display settles on the last index |
| `new_frame_number` | the same | **violated**: the number returned is not the number of the frame copied |
| `new_frame_newest` | the same, fair | **violated**: the last frame can stay unseen |
| `monitor_server` | 2 connections, heartbeats, packets of 2 units | the mutex excludes and packets stay whole except in three named histories |
| `monitor_server_live` | 1 connection, all requests, fair | sends end, requests are handled |
| `monitor_server_locked` | 1 connection | **violated**: two threads in the send loop |
| `platform_client` | 2 sessions, fair | handshakes that fail, sockets without room; `tcp_state`, mutex and SIGPIPE hold up except in named histories; connect and disconnect take effect |
| `capture` | 3 buffers, up to 3 refused | failures undone, buffers conserved, frames go on unless a send never returns |
| `recognition` | 7 characters; images with regions that are none, contours that are none, too many, too few or over the edge, a centre past the vector that is no number, fair | characters in order, plates of one image, shown whole and all, but for three named histories |
| `framing` | bytes below 5, 1 command, 7 strings of data, among them packets within packets and more bytes than two can count; up to 6 bytes unread when a packet is made | each call finds what one scan finds; what is made is analysed back |
| `link` | packets of 2 units, room for 3 in the socket and 3 in the ring, 2 plates recognised, room for 1 packet on its way up, 2 heartbeats owed, fair | the stream is whole, the threads wait in a circle only when both ways are full, and but for that heartbeats are answered and plates reach the window |

Why the bounds are enough. Ring: at three cells each index can be at the start,
inside and at the end, each branch is met in each of its forms, and requests
exceed the capacity by one. Frame store: three updates are one before and
two during a call; with `INT_MAX` = 2 the display moves on from index 1 to index
2, and the third update overflows; two readers compete for the mutex. Server: everything shared is shared by the tasks of two
connections and the capture thread, that is three senders; two units are a
packet begun and not ended. Client: two sessions may overlap in every way one
button allows. Capture: three buffers are a first, a middle and a last one.
Recognition: the number of characters is the code's, each image fails or passes
another test, and a reading takes the thread through the mailbox any number of
times. Framing: a head, a tail and a verify byte occur in data, at its start, its
end and before another, and the cut falls at every byte; six unread bytes are the
rest of one packet before the next. Link: a packet and a half fits in the socket
and in the ring, so a packet is cut by either at each of its units and each
program waits for the other; with room for one packet on its way up, one is
handled while the next waits and a third is due, and both ways can be full at once.

`CHECK_DEADLOCK FALSE` stands where the system may really stop: the process is
killed by SIGPIPE, every thread of the client has ended and the bound on clicks
is reached, `capture_init` or `car_recogn_init` has failed, a thread has crashed,
or the platform has exited with nothing left to do for the monitor.

### The three that are violated

* `ReturnNamesFrame`. The comment on `capture_get_newframe` says that a result
  above 0 is the number of the image. The reader copies frame 1, frame 2 is
  stored and counted, the reader returns 2.
* `NewestFrameShown`. The same steps in `window_display`: it notes 2 as shown
  while frame 1 is on the screen; if no further frame comes, frame 2 is never
  shown. With frames coming all the time it is a frame skipped.
* `SendLoopLocked`. `accept` stores the descriptor, the capture thread sees it,
  locks the zeroed mutex and sends; the new task thread then initialises the
  mutex, and its ack enters the loop beside the frame. One client is enough.

### Fairness

* `NewFrame!FairSpec`: an update that began goes on and readers call again, as
  the timer and the recognition loop do; no further update is assumed. A thread
  that waits for a mutex others release before they sleep gets it (strong
  fairness on the lock).
* `MonitorServer!FairSpec`: threads run; a `send` to a peer that reads finds room
  in time; the mutex is taken in the end by a thread for which it is free again
  and again. Between two frames the capture thread waits in `VIDIOC_DQBUF`
  without the mutex, which is why this is more than hope. No connection, frame
  or request is assumed to come.
* `PlatformClient!FairSpec`: threads run, a handshake started again and again
  ends well, and the recognition thread sleeps for a second after each plate, so
  the mutex is free for whoever waits. The user's clicks are not assumed, and
  neither is room for a packet in the socket (`SendTaken`).
* `Capture!FairSpec`: the thread runs, and a streaming camera fills a buffer it
  has been given. That `proto_0x21_sendframe` returns is not assumed.
* `Recognition!FairSpec`: the window's timer fires. Nothing is assumed of the
  recogniser, so a plate is shown even if no other ever comes.
* `Link!FairSpec`: the threads of both programs run, the camera has another frame
  and the window's timer fires. The capture thread waits for the camera, and the
  recognition thread sleeps, without the mutex, so the task and the client get it
  in the end (strong fairness on the locks). Every turn of the client receives,
  one with a heartbeat too (strong fairness, as a heartbeat comes in between). No
  heartbeat, plate or click is assumed.

## 4. Proofs

TLAPS checks every leaf with SMT, Zenon or LS4; nothing is assumed but the named
assumptions on the constants (sizes and lengths above 0, threads that differ, a
packet that fits in the ring, a plate that is not `Blank`, 0xAA that is not `A`,
a number that is not `NaN`, and `Junk` for what lies past a vector). Every safety invariant and every action
property of the passing runs, and the refinement, is a theorem. Each inductive
invariant was checked by TLC on the run's instance before it was proved, and each
proof has a step per action. Where a theorem covers several properties, a
corollary states each of the others by itself.

* `RingBufferProofs!RingConsistent`: `Spec => [](TypeOK /\ IndicesAgree)`.
  `IndicesAgree` was stated strongly enough to be inductive with `TypeOK`: it
  ties `len` to the distance of the indices in the three orders of `head` and
  `tail`, which is what each branch needs to know that its arithmetic stays in
  the array. `ModAtEnd` covers both uses of `%`; `CopyInType` and `CopyOutType`
  the copies.
* `RingBufferProofs!RingImplementsQueue`: `Spec => ImplementsByteQueue`, and
  `RingBufferProofs!RingHandsOutWritten`: `Spec => []OnlyWrittenBytes`. The
  contents are written as a function `Cells` of the four fields. `CellsPut`,
  `CellsGet` and `CellsFront` say what an array must satisfy for a write to
  append, a read to drop and a copy to be the front; `PutStep` and `GetStep` lift
  them to the steps, and each of the eight branches has a lemma that shows its
  `memcpy` calls satisfy them, from `RingConsistent`'s invariant. That only
  written bytes are held is then a fact about the queue, where it is inductive.
* `FramingProofs`: `FramingTypeCorrect`, `DetectCorrect` and `AnalyCorrect`, for
  any base, any head, verify and tail byte and any data, also longer than two bytes
  can count. What the three searches of `proto_detect_packet` have in common is
  how far the call has read the ring it found (`Read`). `Searched` says what the
  bytes up to there hold: no head yet; a head and no verify byte after it; or the
  first verify byte that follows a head, just read. `FirstVerified` turns the
  last of these into the minimum that the reference `Scan` takes, and
  `PacketRead` compares the read of the rest, by then of one byte or two, with
  the end of the scan. It needs that 0xAA is not
  `A`: only then do the branches on the byte read exclude each other.
  `AnalyOfMakeup` is arithmetic: `TwoBytes` puts a length together from its
  quotient and remainder modulo `Base * Base`.
* `NewFrameProofs!ReadersGetFrames`:
  `Spec => [](TypeOK /\ FreshFrame /\ LengthNotNewer /\ QuietCallNamesFrame)`, and
  `NewFrameProofs!NeverShowsOlder`: `Spec => ShownForward`, for any set of readers
  and displays, any lengths, any `INT_MAX` and any number of updates. None of
  the four is inductive: `FreshFrame` needs to know that the store holds the
  newest frame whenever nobody is in the middle of an update (`StoreInv`), that
  a call began with at least one frame stored (`CallInv`), and that a reader in
  its copy excludes the update (`TypeOK` ties the mutex to the places of its
  holder). `LengthNotNewer` needs that the length stored is always that of some
  frame stored. `QuietInv` and `ShownInv` do the same for the other two. TLC
  checked the whole of `IInv` on the instance of `new_frame` first. The proof
  has a lemma per group of steps and a step per action.

* `CaptureProofs`: `CaptureTypes`, `FailureUndoesAll`, `BufferIsOwn` and
  `BuffersKept`, for any number of buffers. `FailureLeavesNothing` speaks of the
  end of the error path only; what makes it true is where the loop stood when it
  failed, so `IInv` says for each place that the mapped buffers lie at or below `i`
  (`MappedBelow`) and that the driver has exactly those below it (`QueuedBelow`).
  `mmap` may fail unseen, so a buffer of the loop is mapped or its address is
  `MAP_FAILED` (`Backed`); the copy crashes on the latter, which is why what is
  sent from is mapped.
  The loop begins with all of them queued and none refused (`Refused`), from which
  `Kept` goes on buffer by buffer.
* `PlatformClientProofs`: `ClientTypes`, `ClientSendLoopLocked`,
  `ConnectedMeansConnected` and `FirstSessionNotKilled`, for any number of
  sessions. `Locked` ties the word to the threads in the loop; `Alone` says what
  holds while no thread started beside another: one client thread, `fd` its
  socket, `CONNECTED` stored after `connect` returned 0. `First` adds that in the
  first session a thread that sends, a frame stored or the state `CONNECTED` (any
  of them is `Online`) means the one socket is connected.
* `MonitorServerProofs`: `ServerTypes`, `ServerSendLoopLocked`,
  `PacketsStayInOrder`, `AcksStayInTheirBuffer`, for any number of connections,
  requests and units. `Locked` ties the mutex's word to the threads in the loop
  as long as it was not initialised in use. `InOrder` is what `PacketsInOrder` needs: while the mutex was not
  initialised in use and no connection replaced under a packet, the only part of
  a packet anywhere is that of the thread in the loop, on the connection its next
  unit goes to, up to the unit it sent last. `OneTask` keeps the buffer with the
  only task there is.
* `RecognitionProofs`: `CharactersLeftToRight` (with `RecognitionTypes`),
  `StoredPlateOfOneImage` and `WindowShowsWholePlates`, for any number of characters and any images. The sort
  keeps five facts (`SortInv`): centres and indices move together, every
  character keeps a place, equal centres keep their order, the places below `j`
  are settled, and above `i` the first is the least; the last three where every
  centre is a number, the first two always. They say that `j = Length` is a sorted
  sequence. `MailInv` says that outside a store the mailbox holds a
  whole plate once the window may look at it, and that a store not in a hurry
  finds the flag down and the window at rest. `PlateOfOneImage` compares the plate
  with a reading that counts: the n-th character is the one with n - 1 to its left.
  `Holds` says where a character of the region is in the vector, at the number of
  characters before it (`Rank`), which `HoldsNext` carries over a turn of the loop;
  `PastEnd` says that the vector was read past its end instead. `SortReads` then
  lists the characters used in the order of `char_sort`, and `NthListed`, a fact about
  any finite set that is listed in an order, says which of them the counting picks.
  The tests a region has passed are kept from the step that made them
  (`FoundInv`), so a plate given up half-way never reaches the mailbox.
* `LinkProofs!StreamStaysWhole`: `Spec => []StreamWhole`, for any length of
  packets, any room and any ring that takes a packet. `IInv` says that the units
  not read are in turn, that the mutex is with the thread in the loop, and that
  as many units are behind the last whole packet as that thread has sent, modulo
  `Parts`: 0 and `Parts` are one, so a packet sent and not yet unlocked needs no
  case of its own. The lemmas on `%` (`NextRemainder`, `ShiftRemainder`) and on
  joining and cutting a sequence that is in turn carry it over the steps.
* `LinkProofs!LinkTypeCorrect` and `LinkProofs!AnswersAccounted`:
  `Spec => []TypeOK` and `Spec => []Accounted`. That `owed` does not go below 0 is no
  fact about types: it needs that each answer has its heartbeat. `Accounted`
  says that those owed are as many as the heartbeats on their way up, the one the
  task has in hand, and the last units of answers not read. The lemmas on `Count`
  follow such a number over an append and a cut of the sequence; `SamePacket`
  (the units of a packet are of one kind) makes a packet taken from the ring one
  answer or none (`PacketCount`). `Accounted` is of interest by itself: no answer
  is lost or made up while the platform runs.
* `LinkProofs!RingNeverJams` and `LinkProofs!CirclesAreJams`: once the ring has as
  many units as a packet, the packet in front is whole, so the client never waits for
  itself. `UpInv` says of the platform's mutex what `Holder` says of the monitor's.
  A set of threads that wait for each other then leads from a thread of the monitor to
  the client, from the client to a sender that finds the way up full, from there to
  the task, and so to both ways being full: `Spec => []OnlyJamIsCircle`. What a
  thread waits for (`WaitsFor`) is written out, as `ENABLED` cannot be proved about;
  the liveness on top of it stays with TLC. `LinkProofs!JamsLast` is the other half:
  from a jam no step leads out but the platform's exit, a disconnect neither.
* `LinkProofs!MonitorShowsWholePlates`: `Spec => []Box!ShowsWhole`, the platform's
  `WindowShowsWholePlates` for the monitor, where a `printf`
  between the string and the flag keeps the compiler from moving the one past the other.

Only model-checked: the liveness properties (`SettlesOnLatestIndex`, `SendEnds`,
`RequestsHandled`, `DisconnectEnds`, `ConnectSucceeds`, `FramesGoOn`, `PlatesShown`,
`HeartbeatsAnswered`, `PlateReachesWindow`), as liveness under fairness is out of
the prover's reach, and so would be an induction over data; and
`ReturnNamesFrame`, `NewestFrameShown` and `SendLoopLocked`, which do not hold.

## 5. Plan

Done: ring buffer with its queue; frame store; monitor server; platform client;
capture; the fallback framing; the plate mailbox; the recogniser's decisions;
both programs over one connection; proofs of every safety property of all of them.

Next, where there is more to say: the mutex of `MonitorServer`, a word and its
sleepers, shown to implement a lock, except where it is initialised in use; that
threads wait in a circle only where the code makes them, as `CirclesAreJams` says of
`Link`, for those that share the mutex in `MonitorServer` and `PlatformClient`; a second session in `Link`.

## 6. Not modelled

* OpenCV's image processing (`normalPosArea` beyond the shape of its result, the
  classifiers, `RgbConvToGray`): functions of pixels without state; what they find is
  `Recognition`'s input. `find_waves`, `bincount`, `hog` and `features` are never
  called.
* `lib_proto.a`: no source. What its callers assume of it, that a packet is found
  once all of it is there, is what the models assume.
* Qt's widgets, the clock, the conversion of a frame to a `QImage`, `main` and the build files.
* `capture_clear_newframe`, `proto_0x20_switchcamera` (never called here),
  `capture_deinit` and `v4l2cap_stop` (never reached).
* The order in which an ARM core sees plain loads and stores, beyond the choices
  named in 2; the SIGPIPE, crashes and threads left polling that hazards without
  a property name: they are steps of the models, but the code promises nothing
  about them.
