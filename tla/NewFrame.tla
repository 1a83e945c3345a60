------------------------------ MODULE NewFrame ------------------------------
(***************************************************************************)
(* The store of the newest frame in public.cpp, the same code in both      *)
(* programs, with the threads that use it: the one that updates it (the    *)
(* capture thread on the monitor, the client thread on the platform) and   *)
(* the readers (the display timer of either program, and the recognition   *)
(* thread of the platform).  The mutex covers the copy of the bytes only:  *)
(* newframe_len and frame_index are read and written outside it, so every  *)
(* access is a step of its own, and the two stores of an update, which     *)
(* nothing orders, may arrive in either order.  A frame is its number: 1   *)
(* for the first.                                                          *)
(***************************************************************************)
EXTENDS Integers, Sequences

CONSTANTS
  Writer,         \* the thread that calls v4l2cap_update_newframe
  Readers,        \* the threads that call capture_get_newframe
  Displays,       \* those of them that are a window_display
  Lens,           \* the lengths of the frames
  FRAME_BUF_SIZE,
  IntMax,         \* INT_MAX
  MaxFrames,      \* bound: the updates the model makes
  None

ASSUME ThreadsAssumption ==
  /\ Displays \subseteq Readers
  /\ Writer \notin Readers
  /\ None \notin Readers \cup {Writer}
ASSUME NumbersAssumption ==
  /\ Lens \subseteq Nat \ {0}
  /\ FRAME_BUF_SIZE \in Nat \ {0}
  /\ IntMax \in Nat \ {0}
  /\ MaxFrames \in Nat

Threads == Readers \cup {Writer}
Blank == 0

VARIABLES
  newframe_buf,     \* the frame stored, or Blank
  newframe_len,
  frame_index,
  newframe_mut,     \* the thread that holds the mutex
  pc,               \* where each thread is
  flush_len,        \* local of v4l2cap_update_newframe
  tmpLen,           \* per reader: local of capture_get_newframe
  data,             \* per reader: the frame it copied out
  ret,              \* per reader: what the last call returned
  old_frame_index,  \* per display: static local of window_display
  shown,            \* per reader: the last frame shown, or recognised
  frames,           \* history: the lengths of the frames stored so far
  counted,          \* history: the updates that have bumped frame_index
  since,            \* history, per reader: frames stored when its call began
  overlapped,       \* history, per reader: an update ran during its call
  retCounted        \* history, per reader: counted when its call returned

store == <<newframe_buf, newframe_len, frame_index>>
local == <<tmpLen, data, ret>>
display == <<old_frame_index, shown>>
writing == <<flush_len, frames, counted>>
history == <<since, overlapped, retCounted>>
vars == <<store, newframe_mut, pc, local, display, writing, history>>

Smaller(a, b) == IF a <= b THEN a ELSE b

\* After newframe_mem_init: a zeroed buffer, index 0.
Init ==
  /\ newframe_buf = Blank
  /\ newframe_len = 0
  /\ frame_index = 0
  /\ newframe_mut = None
  /\ pc = [t \in Threads |-> "idle"]
  /\ flush_len = 0
  /\ tmpLen = [r \in Readers |-> 0]
  /\ data = [r \in Readers |-> Blank]
  /\ ret = [r \in Readers |-> 0]
  /\ old_frame_index = [r \in Displays |-> 0]
  /\ shown = [r \in Readers |-> 0]
  /\ frames = <<>>
  /\ counted = 0
  /\ since = [r \in Readers |-> 0]
  /\ overlapped = [r \in Readers |-> FALSE]
  /\ retCounted = [r \in Readers |-> 0]

Goto(t, from, to) == pc[t] = from /\ pc' = [pc EXCEPT ![t] = to]

\* Mutant: the mutex does not make its second user wait.
LockNoWait(t) == newframe_mut' = t

Lock(t) == newframe_mut = None /\ newframe_mut' = t
Unlock(t) == newframe_mut' = None
-----------------------------------------------------------------------------
(* v4l2cap_update_newframe *)

\* Every step of an update overlaps the calls under way.
Overlap == overlapped' = [r \in Readers |-> overlapped[r] \/ pc[r] # "idle"]

Writing == Overlap /\ UNCHANGED <<local, display, since, retCounted>>

\* Mutant: the length is not clipped.
UpdateLockUnclipped(len) ==
  /\ Len(frames) < MaxFrames
  /\ Goto(Writer, "idle", "memset")
  /\ Lock(Writer)
  /\ flush_len' = len
  /\ Writing
  /\ UNCHANGED <<store, frames, counted>>

\* Clip the length and take the mutex.
UpdateLock(len) ==
  /\ Len(frames) < MaxFrames
  /\ Goto(Writer, "idle", "memset")
  /\ Lock(Writer)
  /\ flush_len' = Smaller(len, FRAME_BUF_SIZE)
  /\ Writing
  /\ UNCHANGED <<store, frames, counted>>

UpdateMemset ==
  /\ Goto(Writer, "memset", "memcpy")
  /\ newframe_buf' = Blank
  /\ Writing
  /\ UNCHANGED <<newframe_len, frame_index, newframe_mut, writing>>

UpdateMemcpy ==
  /\ Goto(Writer, "memcpy", "unlock")
  /\ newframe_buf' = Len(frames) + 1
  /\ frames' = Append(frames, flush_len)
  /\ Writing
  /\ UNCHANGED <<newframe_len, frame_index, newframe_mut, flush_len, counted>>

UpdateUnlock ==
  /\ Goto(Writer, "unlock", "both")
  /\ Unlock(Writer)
  /\ Writing
  /\ UNCHANGED <<store, writing>>

\* Mutant: the length is stored with the first frame only.
UpdateLenOnce ==
  /\ Goto(Writer, "both", "index") \/ Goto(Writer, "len", "wrap")
  /\ newframe_len' = IF newframe_len = 0 THEN flush_len ELSE newframe_len
  /\ Writing
  /\ UNCHANGED <<newframe_buf, frame_index, newframe_mut, writing>>

\* The place of the writer names the stores still to come.
UpdateLen ==
  /\ Goto(Writer, "both", "index") \/ Goto(Writer, "len", "wrap")
  /\ newframe_len' = flush_len
  /\ Writing
  /\ UNCHANGED <<newframe_buf, frame_index, newframe_mut, writing>>

UpdateIndex ==
  /\ Goto(Writer, "both", "len") \/ Goto(Writer, "index", "wrap")
  /\ frame_index' = IF frame_index = IntMax THEN -IntMax - 1 ELSE frame_index + 1
  /\ counted' = counted + 1
  /\ Writing
  /\ UNCHANGED <<newframe_buf, newframe_len, newframe_mut, flush_len, frames>>

\* The test after the increment.  The overflow is undefined in C: the build
\* may test the incremented value, or the one before it, which the overflow
\* leaves at IntMax and the test then passes over.
UpdateWrap ==
  /\ Goto(Writer, "wrap", "idle")
  /\ \/ /\ frame_index <= 0
        /\ frame_index' = 1
     \/ /\ frame_index > 0 \/ frame_index = -IntMax - 1
        /\ UNCHANGED frame_index
  /\ Writing
  /\ UNCHANGED <<newframe_buf, newframe_len, newframe_mut, writing>>

UpdateStep ==
  \/ UpdateMemset
  \/ UpdateMemcpy
  \/ UpdateUnlock
  \/ UpdateLen
  \/ UpdateIndex
  \/ UpdateWrap
-----------------------------------------------------------------------------
(* capture_get_newframe *)

Reading == UNCHANGED <<store, display, writing>>

\* No frame yet: -1, and the caller tries again later.
GetNothing(r) ==
  /\ pc[r] = "idle"
  /\ newframe_len <= 0
  /\ ret' = [ret EXCEPT ![r] = -1]
  /\ Reading
  /\ UNCHANGED <<newframe_mut, pc, tmpLen, data, history>>

GetCheck(r) ==
  /\ Goto(r, "idle", "length")
  /\ newframe_len > 0
  /\ since' = [since EXCEPT ![r] = Len(frames)]
  /\ overlapped' = [overlapped EXCEPT ![r] = pc[Writer] # "idle"]
  /\ Reading
  /\ UNCHANGED <<newframe_mut, local, retCounted>>

\* Every caller passes a buffer of FRAME_BUF_SIZE.
GetLength(r) ==
  /\ Goto(r, "length", "lock")
  /\ tmpLen' = [tmpLen EXCEPT ![r] = Smaller(newframe_len, FRAME_BUF_SIZE)]
  /\ Reading
  /\ UNCHANGED <<newframe_mut, data, ret, history>>

GetLock(r) ==
  /\ Goto(r, "lock", "copy")
  /\ Lock(r)
  /\ Reading
  /\ UNCHANGED <<local, history>>

GetCopy(r) ==
  /\ Goto(r, "copy", "unlock")
  /\ data' = [data EXCEPT ![r] = newframe_buf]
  /\ Reading
  /\ UNCHANGED <<newframe_mut, tmpLen, ret, history>>

\* Mutant: the mutex is not released.
GetUnlockForgotten(r) ==
  /\ Goto(r, "unlock", "return")
  /\ Reading
  /\ UNCHANGED <<newframe_mut, local, history>>

GetUnlock(r) ==
  /\ Goto(r, "unlock", "return")
  /\ Unlock(r)
  /\ Reading
  /\ UNCHANGED <<local, history>>

\* Mutant: the length returned is read again after the copy.
GetReturnRereads(r) ==
  /\ Goto(r, "return", "use")
  /\ ret' = [ret EXCEPT ![r] = frame_index]
  /\ retCounted' = [retCounted EXCEPT ![r] = counted]
  /\ tmpLen' = [tmpLen EXCEPT ![r] = newframe_len]
  /\ Reading
  /\ UNCHANGED <<newframe_mut, data, since, overlapped>>

GetReturn(r) ==
  /\ Goto(r, "return", "use")
  /\ ret' = [ret EXCEPT ![r] = frame_index]
  /\ retCounted' = [retCounted EXCEPT ![r] = counted]
  /\ Reading
  /\ UNCHANGED <<newframe_mut, tmpLen, data, since, overlapped>>

\* The locals of a call end with it.
Forget(r) ==
  /\ tmpLen' = [tmpLen EXCEPT ![r] = 0]
  /\ data' = [data EXCEPT ![r] = Blank]
  /\ ret' = [ret EXCEPT ![r] = 0]
  /\ since' = [since EXCEPT ![r] = 0]
  /\ overlapped' = [overlapped EXCEPT ![r] = FALSE]
  /\ retCounted' = [retCounted EXCEPT ![r] = 0]

\* What the caller does with the frame: window_display shows it when its
\* index differs from the last one shown, the recognition thread takes it.
Use(r) ==
  /\ Goto(r, "use", "idle")
  /\ \/ /\ r \in Displays
        /\ ret[r] > 0 /\ ret[r] # old_frame_index[r]
        /\ old_frame_index' = [old_frame_index EXCEPT ![r] = ret[r]]
        /\ shown' = [shown EXCEPT ![r] = data[r]]
     \/ /\ r \notin Displays
        /\ ret[r] > 0
        /\ shown' = [shown EXCEPT ![r] = data[r]]
        /\ UNCHANGED old_frame_index
     \/ /\ ret[r] <= 0 \/ (r \in Displays /\ ret[r] = old_frame_index[r])
        /\ UNCHANGED display
  /\ Forget(r)
  /\ UNCHANGED <<store, newframe_mut, writing>>

GetStep(r) ==
  \/ GetNothing(r)
  \/ GetCheck(r)
  \/ GetLength(r)
  \/ GetLock(r)
  \/ GetCopy(r)
  \/ GetUnlock(r)
  \/ GetReturn(r)
  \/ Use(r)
-----------------------------------------------------------------------------
Next ==
  \/ \E len \in Lens : UpdateLock(len)
  \/ UpdateStep
  \/ \E r \in Readers : GetStep(r)

Spec == Init /\ [][Next]_vars

\* An update that has begun goes on, and the timer and the recognition loop
\* call again; that a further frame arrives is not assumed.  No thread holds
\* the mutex while it sleeps between calls, so a display that waits gets it.
FairSpec ==
  /\ Spec
  /\ WF_vars(UpdateStep)
  /\ \A r \in Readers : WF_vars(GetStep(r))
  /\ \A d \in Displays : SF_vars(GetLock(d))
-----------------------------------------------------------------------------
(* Properties *)

WriterPlaces == {"idle", "memset", "memcpy", "unlock", "both", "len", "index", "wrap"}
ReaderPlaces == {"idle", "length", "lock", "copy", "unlock", "return", "use"}

Holding(t) == IF t = Writer THEN pc[t] \in {"memset", "memcpy", "unlock"}
                            ELSE pc[t] \in {"copy", "unlock"}

\* Every variable has its type, and the mutex is held by whoever is between
\* its lock and its unlock.
TypeOK ==
  /\ newframe_buf \in 0..MaxFrames
  /\ newframe_len \in 0..FRAME_BUF_SIZE
  /\ frame_index \in (-IntMax - 1)..IntMax
  /\ newframe_mut \in Threads \cup {None}
  /\ pc \in [Threads -> WriterPlaces \cup ReaderPlaces]
  /\ pc[Writer] \in WriterPlaces
  /\ \A r \in Readers : pc[r] \in ReaderPlaces
  /\ flush_len \in 0..FRAME_BUF_SIZE
  /\ tmpLen \in [Readers -> 0..FRAME_BUF_SIZE]
  /\ data \in [Readers -> 0..MaxFrames]
  /\ ret \in [Readers -> (-IntMax - 1)..IntMax]
  /\ old_frame_index \in [Displays -> 0..IntMax]
  /\ shown \in [Readers -> 0..MaxFrames]
  /\ frames \in Seq(1..FRAME_BUF_SIZE) /\ Len(frames) <= MaxFrames
  /\ counted \in 0..MaxFrames
  /\ since \in [Readers -> 0..MaxFrames]
  /\ overlapped \in [Readers -> BOOLEAN]
  /\ retCounted \in [Readers -> 0..MaxFrames]
  /\ \A t \in Threads : Holding(t) <=> newframe_mut = t

Copied(r) == pc[r] \in {"unlock", "return", "use"}

\* The frame a call copies out is whole, never the zeroes an update starts
\* with, and never older than the newest frame stored when the call began,
\* wherever an update stands meanwhile.
FreshFrame ==
  \A r \in Readers : Copied(r) => data[r] # Blank /\ data[r] >= since[r]

\* The length a call returns is the length of a frame no newer than the one
\* copied: an update in between can only make the frame longer or shorter
\* than the length says, never the reverse mistake of a length whose bytes
\* have not arrived.
LengthNotNewer ==
  \A r \in Readers :
    Copied(r) => \E k \in 1..data[r] : tmpLen[r] = frames[k]

\* A call no update overlaps copies the frame counted last and tells that
\* frame's own length; what it returns is the number of that frame until the
\* counter has passed IntMax.
QuietCallNamesFrame ==
  \A r \in Readers :
    pc[r] = "use" /\ ~overlapped[r] =>
      /\ data[r] = retCounted[r] /\ tmpLen[r] = frames[data[r]]
      /\ data[r] <= IntMax => ret[r] = data[r]

\* What is shown, or recognised, never goes back to an older frame.
ShownForward ==
  [][\A r \in Readers : shown'[r] >= shown[r]]_vars

\* A display moves on from whichever index it showed and comes to rest on
\* that of the last update, unless the overflow left the index negative.
\* After the wrap an index is one of an earlier frame again: an update that
\* brings back just the one shown is not told from no update.
SettlesOnLatestIndex ==
  <>[](frame_index > 0 => \A d \in Displays : old_frame_index[d] = frame_index)

\* The comment on capture_get_newframe: a result above 0 is the number of
\* the image, so it names the frame copied out.
ReturnNamesFrame ==
  \A r \in Readers : pc[r] = "use" /\ ret[r] > 0 => data[r] = retCounted[r]

\* The comment in window_display: it gets the newest frame.  Once updates
\* stop, the window shows the last frame stored.
NewestFrameShown ==
  <>[](frame_index > 0 => \A d \in Displays : shown[d] = Len(frames))
=============================================================================
