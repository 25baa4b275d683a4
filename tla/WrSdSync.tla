------------------------------- MODULE WrSdSync -------------------------------
(***************************************************************************)
(* The phone's incremental pull of recordings from the SD card             *)
(* (app_mobile/lib/services/wr_sd_sync.dart).                              *)
(*                                                                         *)
(* For each device file the phone keeps a cursor: how many bytes it has    *)
(* fetched, the bytes not yet cut into a chunk, and the number of the next *)
(* chunk.  The drain loop fetches windows, cuts the byte stream into chunks*)
(* of whole Opus frames, puts each chunk in the outbox and checkpoints the *)
(* cursor; the upload loop moves the outbox to Google Drive; stop() flushes*)
(* the rest when the link goes away.  All three run in one Dart isolate and*)
(* interleave at every await; each action below is the code between two    *)
(* awaits.  The process may die between any two of them, and only what is  *)
(* on the phone's flash (preferences, pending file, outbox) survives.      *)
(***************************************************************************)
EXTENDS Naturals, Sequences, Functions

CONSTANTS
  NumFiles,        \* device files, in the order they are recorded
  Sizes,           \* committed sizes a growing file passes through
  Content,         \* bytes of a file: Content[i] for the i-th byte, from 1
  Window,          \* bytes per fetch (_window)
  MaxPass,         \* bytes per pass (_maxBytesPerPass)
  FramesPerChunk,  \* frames in a full chunk (_framesPerChunk)
  Base,            \* Base[f][v]: time slot of the first chunk of file f after
                   \* v restarts of its cursor (_chunkBaseEpoch)
  Slots,           \* time slots, one per chunk length: names of chunks
  None,
  CrashAt,         \* awaits of the drain loop at which the process may die
  MaxCrashes,      \* bound on the number of deaths
  StopAt,          \* awaits of the drain loop at which stop() may be called
  MaxStops,        \* bound on the number of stops
  MaxReuses        \* bound on the times the device reuses a file name

Files == 1..NumFiles
MaxSize == Len(Content)
Unknown == MaxSize + 1      \* committed = -1: no fetch has reported a size

ASSUME SyncAssumption ==
  /\ NumFiles \in Nat \ {0}
  /\ Content \in Seq(Nat)
  /\ Sizes \subseteq 0..MaxSize
  /\ Window \in Nat \ {0}
  /\ MaxPass \in Nat \ {0}
  /\ FramesPerChunk \in Nat \ {0}
  /\ Base \in [Files -> [0..MaxReuses -> Nat]]
  /\ Slots \subseteq Nat
  /\ None \notin Files
  /\ MaxCrashes \in Nat /\ MaxStops \in Nat /\ MaxReuses \in Nat

(* No two chunks have the same name: it is the second the recording began,  *)
(* and 300 more for each chunk before (_chunkName), and recordings do not   *)
(* overlap.  Taken for granted for recordings that are not named after the  *)
(* clock, which count from the second the phone first saw them.             *)
ASSUME SlotAssumption ==
  /\ \A f \in Files, v \in 0..MaxReuses, k \in 0..MaxSize - 1 : Base[f][v] + k \in Slots
  /\ \A f, g \in Files, v, w \in 0..MaxReuses, j, k \in 0..MaxSize - 1 :
       Base[f][v] + j = Base[g][w] + k => f = g /\ v = w /\ j = k

VARIABLES
  \* the device
  live,        \* file being recorded; the files before it are closed
  size,        \* committed size of each file
  version,     \* times the name of each file was given to a new recording
  \* on the phone's flash
  off,         \* wr_sync_off_<name>
  ci,          \* wr_sync_ci_<name>
  pend,        \* pending_<name>.bin (<<>> if there is no such file)
  base,        \* wr_sync_base_<name>, as the number of times it was renewed
  done,        \* wr_sync_done_<name>
  part,        \* outbox/<slot>.opus_sd.part
  outbox,      \* outbox/<slot>.opus_sd
  drive,       \* chunks on Google Drive
  \* in memory
  running,     \* _running
  name,        \* _name
  offset,      \* _offset
  chunkIndex,  \* _chunkIndex
  pending,     \* _pending
  retry,       \* keys of _closedFileRetryAfter whose time has not come
  \* locals of the drain loop
  mode,        \* "live" in _drainOnce, "closed" in _drainClosedFile
  target,      \* name
  limit,       \* committed
  pulled,      \* pulled
  todo,        \* listed files not yet looked at
  \* control of the drain loop and of stop()
  pc,          \* the await each is at
  then,        \* where each goes on after a flush or a checkpoint
  force,       \* force
  buf,         \* buf, or the bytes on their way to the pending file
  cut,         \* changed
  chunk,       \* chunk being written to the outbox
  nm,          \* name read when _persistPending or _persistOffset was called
  up,          \* upload loop: chunk uploaded and not yet deleted
  crashes, stops, reuses

device  == <<live, size, version>>
cursor  == <<off, ci, pend, base>>
flash   == <<cursor, done, part, outbox>>
memory  == <<running, name, offset, chunkIndex, pending, retry>>
locals  == <<mode, target, limit, pulled, todo>>
control == <<pc, then, force, buf, cut, chunk, nm>>
bounds  == <<crashes, stops, reuses>>
vars == <<device, flash, drive, memory, locals, control, up, bounds>>

Procs == {"loop", "stop"}

\* A byte of a recording is identified by its file, the recording the name
\* stands for, and its position.
Byte == Files \X (0..MaxReuses) \X (1..MaxSize)
NoChunk == [slot |-> 0, bytes |-> <<>>]

Points == {"top", "status", "load1", "load2", "load3", "check",
           "reset1", "reset2", "reset3", "fetch", "window", "write", "delete", "rename",
           "cut", "savePending", "writePending", "saveOffset", "saveIndex",
           "closedEnd", "markDone", "closedReturn", "list", "pick", "off",
           "ready", "close", "closed"}

TypeOK ==
  /\ live \in Files
  /\ size \in [Files -> 0..MaxSize] /\ version \in [Files -> 0..MaxReuses]
  /\ off \in [Files -> 0..MaxSize] /\ ci \in [Files -> Nat]
  /\ pend \in [Files -> Seq(Byte)]
  /\ base \in [Files -> 0..MaxReuses] /\ done \in [Files -> BOOLEAN]
  /\ {part, outbox, drive} \subseteq [Slots -> Seq(Byte)]
  /\ running \in BOOLEAN /\ name \in Files \cup {None}
  /\ offset \in 0..MaxSize /\ chunkIndex \in Nat
  /\ pending \in Seq(Byte) /\ retry \subseteq Files
  /\ mode \in {"live", "closed"} /\ target \in Files
  /\ limit \in 0..Unknown /\ pulled \in Nat /\ todo \subseteq Files
  /\ {pc, then} \subseteq [Procs -> Points]
  /\ {force, cut} \subseteq [Procs -> BOOLEAN]
  /\ buf \in [Procs -> Seq(Byte)]
  /\ chunk \in [Procs -> [slot : Slots \cup {0}, bytes : Seq(Byte)]]
  /\ nm \in [Procs -> Files \cup {None}]
  /\ up \in Slots \cup {None}
  /\ crashes \in 0..MaxCrashes /\ stops \in 0..MaxStops /\ reuses \in 0..MaxReuses

\* The locals of a run of the drain loop that has not begun.
FreshLocals ==
  mode' = "live" /\ target' = 1 /\ limit' = 0 /\ pulled' = 0 /\ todo' = {}

\* A new WrSdSync object: nothing loaded, loops at their top.
FreshMemory ==
  /\ FreshLocals
  /\ running' = TRUE /\ name' = None /\ offset' = 0 /\ chunkIndex' = 0
  /\ pending' = <<>> /\ retry' = {}
  /\ pc' = [p \in Procs |-> IF p = "loop" THEN "top" ELSE "ready"]
  /\ then' = [p \in Procs |-> "top"]
  /\ force' = [p \in Procs |-> FALSE]
  /\ buf' = [p \in Procs |-> <<>>]
  /\ cut' = [p \in Procs |-> FALSE]
  /\ chunk' = [p \in Procs |-> NoChunk]
  /\ nm' = [p \in Procs |-> None]
  /\ up' = None

Init ==
  /\ live = 1
  /\ size = [f \in Files |-> 0] /\ version = [f \in Files |-> 0]
  /\ off = [f \in Files |-> 0] /\ ci = [f \in Files |-> 0]
  /\ pend = [f \in Files |-> <<>>] /\ base = [f \in Files |-> 0]
  /\ done = [f \in Files |-> FALSE]
  /\ part = [s \in Slots |-> <<>>] /\ outbox = part /\ drive = part
  /\ running = TRUE /\ name = None /\ offset = 0 /\ chunkIndex = 0
  /\ pending = <<>> /\ retry = {}
  /\ mode = "live" /\ target = 1 /\ limit = 0 /\ pulled = 0 /\ todo = {}
  /\ pc = [p \in Procs |-> IF p = "loop" THEN "top" ELSE "ready"]
  /\ then = [p \in Procs |-> "top"]
  /\ force = [p \in Procs |-> FALSE]
  /\ buf = [p \in Procs |-> <<>>]
  /\ cut = [p \in Procs |-> FALSE]
  /\ chunk = [p \in Procs |-> NoChunk]
  /\ nm = [p \in Procs |-> None]
  /\ up = None
  /\ crashes = 0 /\ stops = 0 /\ reuses = 0

-------------------------------------------------------------------------------
(* The device: a file grows, is closed when the next one is started, and    *)
(* its name may be given to a new recording (a counter that restarts).      *)

Grow ==
  /\ \E n \in Sizes : n > size[live] /\ size' = [size EXCEPT ![live] = n]
  /\ UNCHANGED <<live, version, flash, drive, memory, locals, control, up, bounds>>

Rotate ==
  /\ live < NumFiles
  /\ size[live] > 0
  /\ live' = live + 1
  /\ UNCHANGED <<size, version, flash, drive, memory, locals, control, up, bounds>>

ReuseName ==
  /\ reuses < MaxReuses
  /\ size[live] > 0
  /\ reuses' = reuses + 1
  /\ size' = [size EXCEPT ![live] = 0]
  /\ version' = [version EXCEPT ![live] = @ + 1]
  /\ UNCHANGED <<live, flash, drive, memory, locals, control, up, crashes, stops>>

Device == Grow \/ Rotate \/ ReuseName

-------------------------------------------------------------------------------
(* Cutting chunks. *)

Value(b) == Content[b[3]]

(* Where the n-th [len][frame] record of b ends; beyond b if it is not whole. *)
FrameEnd(b) ==
  LET end[n \in 0..FramesPerChunk] ==
        IF n = 0 THEN 0
        ELSE IF end[n - 1] >= Len(b) THEN Len(b) + 1
        ELSE end[n - 1] + 1 + Value(b[end[n - 1] + 1])
  IN  end

(* Variant: a trailing partial frame is taken for a whole one. *)
BoundaryTakingPartialFrame(b) ==
  IF FrameEnd(b)[FramesPerChunk - 1] >= Len(b) THEN 0
  ELSE IF FrameEnd(b)[FramesPerChunk] <= Len(b) THEN FrameEnd(b)[FramesPerChunk]
  ELSE Len(b)

(* _chunkBoundary: length of the first FramesPerChunk whole records of b, 0 *)
(* if they are not all there.                                               *)
ChunkBoundary(b) ==
  LET last == FrameEnd(b)[FramesPerChunk] IN IF last <= Len(b) THEN last ELSE 0

(* _chunkName *)
Slot(f, index) == Base[f][base[f]] + index

(* Variant: the cursor is saved before the pending bytes. *)
SaveCursorFirst(step) ==
  CASE step = "flush"       -> "saveOffset"
    [] step = "savePending" -> "return"
    [] step = "saveIndex"   -> "savePending"

(* What follows a step of flush-then-checkpoint.                            *)
Follow(step) ==
  CASE step = "flush"       -> "savePending"
    [] step = "savePending" -> "saveOffset"
    [] step = "saveIndex"   -> "return"

After(p, step) == IF Follow(step) = "return" THEN then[p] ELSE Follow(step)

(* _flushPending up to its next await, with pnd in _pending, b not yet cut  *)
(* and ch telling whether a chunk was cut already: write the next chunk to  *)
(* the outbox, or finish and go on to the checkpoint, which reads _name.    *)
Flush(p, pnd, b, ch, forced, next) ==
  LET n == ChunkBoundary(b)
      m == IF n > 0 THEN n ELSE IF forced THEN Len(b) ELSE 0
  IN
  /\ force' = [force EXCEPT ![p] = forced]
  /\ then' = [then EXCEPT ![p] = next]
  /\ cut' = [cut EXCEPT ![p] = ch]
  /\ IF m > 0
       THEN /\ buf' = [buf EXCEPT ![p] = SubSeq(b, m + 1, Len(b))]
            /\ chunk' = [chunk EXCEPT ![p] = [slot  |-> Slot(name, chunkIndex),
                                              bytes |-> SubSeq(b, 1, m)]]
            /\ pc' = [pc EXCEPT ![p] = "write"]
            /\ pending' = pnd
            /\ UNCHANGED nm
       ELSE /\ pending' = IF ch THEN b ELSE pnd
            /\ pc' = [pc EXCEPT ![p] = Follow("flush")]
            /\ nm' = [nm EXCEPT ![p] = name]
            /\ buf' = [buf EXCEPT ![p] = <<>>]
            /\ chunk' = [chunk EXCEPT ![p] = NoChunk]

(* _emitChunk: write <name>.part ... *)
WritePart(p) ==
  /\ pc[p] = "write"
  /\ part' = [part EXCEPT ![chunk[p].slot] = chunk[p].bytes]
  /\ pc' = [pc EXCEPT ![p] = "delete"]
  /\ UNCHANGED <<device, cursor, done, outbox, drive, memory, locals, then, force,
                 buf, cut, chunk, nm, up, bounds>>

(* ... delete an older chunk of that name ... *)
DeleteOld(p) ==
  /\ pc[p] = "delete"
  /\ outbox' = [outbox EXCEPT ![chunk[p].slot] = <<>>]
  /\ pc' = [pc EXCEPT ![p] = "rename"]
  /\ UNCHANGED <<device, cursor, done, part, drive, memory, locals, then, force,
                 buf, cut, chunk, nm, up, bounds>>

(* ... rename the part to it, and count it. *)
RenamePart(p) ==
  LET s == chunk[p].slot IN
  /\ pc[p] = "rename"
  /\ part[s] # <<>>
  /\ outbox' = [outbox EXCEPT ![s] = part[s]]
  /\ part' = [part EXCEPT ![s] = <<>>]
  /\ chunkIndex' = chunkIndex + 1
  /\ pc' = [pc EXCEPT ![p] = "cut"]
  /\ UNCHANGED <<device, cursor, done, drive, running, name, offset, pending,
                 retry, locals, then, force, buf, cut, chunk, nm, up, bounds>>

(* The other flush renamed the part already: the rename throws.  stop()     *)
(* gives up its flush and closes the session; _loop starts over; only the   *)
(* window loop of a closed file keeps its bytes and schedules a retry.      *)
RenameFails(p) ==
  LET keeps == p = "loop" /\ mode = "closed" /\ then[p] = "fetch" IN
  /\ pc[p] = "rename"
  /\ part[chunk[p].slot] = <<>>
  /\ IF keeps
       THEN /\ pc' = [pc EXCEPT ![p] = "savePending"]
            /\ then' = [then EXCEPT ![p] = "closedReturn"]
            /\ nm' = [nm EXCEPT ![p] = name]
            /\ retry' = retry \cup {target}
       ELSE /\ pc' = [pc EXCEPT ![p] = IF p = "stop" THEN "close" ELSE "top"]
            /\ UNCHANGED <<then, nm, retry>>
  /\ UNCHANGED <<device, flash, drive, running, name, offset, chunkIndex, pending,
                 locals, force, buf, cut, chunk, up, bounds>>

(* Back in _flushPending: next chunk, or the end of the flush.              *)
CutNext(p) ==
  /\ pc[p] = "cut"
  /\ Flush(p, pending, buf[p], TRUE, force[p], then[p])
  /\ UNCHANGED <<device, flash, drive, running, name, offset, chunkIndex, retry,
                 locals, up, bounds>>

-------------------------------------------------------------------------------
(* Checkpoints. *)

(* _persistPending: delete the file when nothing is pending; else open it,  *)
(* which truncates it ...                                                   *)
SavePending(p) ==
  /\ pc[p] = "savePending"
  /\ pend' = [pend EXCEPT ![nm[p]] = <<>>]
  /\ IF pending = <<>>
       THEN /\ pc' = [pc EXCEPT ![p] = After(p, "savePending")]
            /\ nm' = [nm EXCEPT ![p] = name]
            /\ UNCHANGED buf
       ELSE /\ pc' = [pc EXCEPT ![p] = "writePending"]
            /\ buf' = [buf EXCEPT ![p] = pending]
            /\ UNCHANGED nm
  /\ UNCHANGED <<device, off, ci, base, done, part, outbox, drive, memory, locals, then,
                 force, cut, chunk, up, bounds>>

(* ... and write the bytes. *)
WritePending(p) ==
  /\ pc[p] = "writePending"
  /\ pend' = [pend EXCEPT ![nm[p]] = buf[p]]
  /\ pc' = [pc EXCEPT ![p] = After(p, "savePending")]
  /\ nm' = [nm EXCEPT ![p] = name]
  /\ buf' = [buf EXCEPT ![p] = <<>>]
  /\ UNCHANGED <<device, off, ci, base, done, part, outbox, drive, memory, locals, then,
                 force, cut, chunk, up, bounds>>

(* _persistOffset: two preferences, one after the other.                    *)
SaveOffset(p) ==
  /\ pc[p] = "saveOffset"
  /\ off' = [off EXCEPT ![nm[p]] = offset]
  /\ pc' = [pc EXCEPT ![p] = "saveIndex"]
  /\ UNCHANGED <<device, ci, pend, base, done, part, outbox, drive, memory, locals, then,
                 force, buf, cut, chunk, nm, up, bounds>>

SaveIndex(p) ==
  /\ pc[p] = "saveIndex"
  /\ ci' = [ci EXCEPT ![nm[p]] = chunkIndex]
  /\ pc' = [pc EXCEPT ![p] = After(p, "saveIndex")]
  /\ nm' = [nm EXCEPT ![p] = name]
  /\ UNCHANGED <<device, off, pend, base, done, part, outbox, drive, memory, locals, then,
                 force, buf, cut, chunk, up, bounds>>

FlushAndCheckpoint(p) ==
  \/ WritePart(p)
  \/ DeleteOld(p)
  \/ RenamePart(p)
  \/ RenameFails(p)
  \/ CutNext(p)
  \/ SavePending(p)
  \/ WritePending(p)
  \/ SaveOffset(p)
  \/ SaveIndex(p)

-------------------------------------------------------------------------------
(* The drain loop. *)

Goto(p, point) == pc' = [pc EXCEPT ![p] = point]

\* The rest of control, left alone by a step that neither flushes nor saves.
straight == <<then, force, buf, cut, chunk, nm>>

(* Variant: the loop runs on after stop(). *)
NextRunAlways == "status"

NextRun == IF running THEN "status" ELSE "off"

(* _loop: one run of _drainOnce and _drainClosedFiles after the other; what *)
(* the last run kept in locals is gone.                                     *)
Top ==
  /\ pc["loop"] = "top"
  /\ Goto("loop", NextRun)
  /\ FreshLocals
  /\ then' = [then EXCEPT !["loop"] = "top"]
  /\ force' = [force EXCEPT !["loop"] = FALSE]
  /\ buf' = [buf EXCEPT !["loop"] = <<>>]
  /\ cut' = [cut EXCEPT !["loop"] = FALSE]
  /\ chunk' = [chunk EXCEPT !["loop"] = NoChunk]
  /\ nm' = [nm EXCEPT !["loop"] = None]
  /\ UNCHANGED <<device, flash, drive, memory, up, bounds>>

(* An await of the session throws: _loop catches it and starts over.        *)
SessionFails ==
  /\ \/ pc["loop"] \in {"status", "list"}
     \/ pc["loop"] = "window" /\ mode = "live"
  /\ Goto("loop", "top")
  /\ UNCHANGED <<device, flash, drive, memory, locals, straight, up, bounds>>

(* Before _loadState: flush what is complete of the file loaded before.     *)
LeaveFile ==
  IF name = None
    THEN Goto("loop", "load1") /\ UNCHANGED <<pending, straight>>
    ELSE Flush("loop", pending, pending, FALSE, FALSE, "load1")

(* _drainOnce: status() names the file being recorded and its size ...      *)
Status ==
  /\ pc["loop"] = "status"
  /\ mode' = "live" /\ target' = live /\ limit' = size[live] /\ pulled' = 0
  /\ IF name # live
       THEN LeaveFile
       ELSE Goto("loop", "check") /\ UNCHANGED <<pending, straight>>
  /\ UNCHANGED <<device, flash, drive, running, name, offset, chunkIndex, retry,
                 todo, up, bounds>>

(* ... or times out, and only the closed files are looked at.               *)
StatusNull ==
  /\ pc["loop"] = "status"
  /\ Goto("loop", "list")
  /\ UNCHANGED <<device, flash, drive, memory, locals, straight, up, bounds>>

(* _loadState: the preferences, then the pending file. *)
LoadCursor ==
  /\ pc["loop"] = "load1"
  /\ name' = target
  /\ offset' = off[target]
  /\ chunkIndex' = ci[target]
  /\ Goto("loop", "load2")
  /\ UNCHANGED <<device, flash, drive, running, pending, retry, locals, straight,
                 up, bounds>>

ForgetPending ==
  /\ pc["loop"] = "load2"
  /\ pending' = <<>>
  /\ Goto("loop", "load3")
  /\ UNCHANGED <<device, flash, drive, running, name, offset, chunkIndex, retry,
                 locals, straight, up, bounds>>

LoadPending ==
  /\ pc["loop"] = "load3"
  /\ pending' = pending \o pend[target]
  /\ Goto("loop", IF mode = "live" THEN "check" ELSE "fetch")
  /\ UNCHANGED <<device, flash, drive, running, name, offset, chunkIndex, retry,
                 locals, straight, up, bounds>>

(* Compare the cursor with the size: a smaller file is a new recording under*)
(* an old name, an equal one is caught up.                                  *)
Check ==
  /\ pc["loop"] = "check"
  /\ Goto("loop", CASE offset > limit -> "reset1"
                    [] offset = limit -> "list"
                    [] offset < limit -> "fetch")
  /\ UNCHANGED <<device, flash, drive, memory, locals, straight, up, bounds>>

(* Variant: what is pending of the older recording is kept. *)
ResetKeepingPending ==
  /\ pc["loop"] = "reset1"
  /\ offset' = 0 /\ chunkIndex' = 0
  /\ off' = [off EXCEPT ![target] = 0]
  /\ Goto("loop", "reset2")
  /\ UNCHANGED <<device, ci, pend, base, done, part, outbox, drive, running, name,
                 pending, retry, locals, straight, up, bounds>>

(* _resetStateForReusedName, one durable step at a time. *)
ResetOffset ==
  /\ pc["loop"] = "reset1"
  /\ offset' = 0 /\ chunkIndex' = 0 /\ pending' = <<>>
  /\ off' = [off EXCEPT ![target] = 0]
  /\ Goto("loop", "reset2")
  /\ UNCHANGED <<device, ci, pend, base, done, part, outbox, drive, running, name,
                 retry, locals, straight, up, bounds>>

ResetIndex ==
  /\ pc["loop"] = "reset2"
  /\ ci' = [ci EXCEPT ![target] = 0]
  /\ base' = [base EXCEPT ![target] = version[target]]
  /\ Goto("loop", "reset3")
  /\ UNCHANGED <<device, off, pend, done, part, outbox, drive, memory, locals,
                 straight, up, bounds>>

ResetPending ==
  /\ pc["loop"] = "reset3"
  /\ pend' = [pend EXCEPT ![target] = <<>>]
  /\ Goto("loop", "check")
  /\ UNCHANGED <<device, off, ci, base, done, part, outbox, drive, memory, locals,
                 straight, up, bounds>>

(* The condition of the window loop: of _drainOnce at its top, of           *)
(* _drainClosedFile at its top and at the break at its end.                 *)
WantsWindow ==
  /\ running
  /\ pulled < MaxPass
  /\ offset < limit

FetchStart ==
  /\ pc["loop"] = "fetch" /\ WantsWindow
  /\ Goto("loop", "window")
  /\ UNCHANGED <<device, flash, drive, memory, locals, straight, up, bounds>>

(* Variant: the cursor moves by the window asked for. *)
AdvanceWindow(k) == offset' = offset + Window /\ pulled' = pulled + k

Advance(k) == offset' = offset + k /\ pulled' = pulled + k

(* fetchWindow returns bytes: they join the pending ones, the cursor moves, *)
(* and the whole is flushed and checkpointed before the next window.        *)
FetchBytes ==
  /\ pc["loop"] = "window"
  /\ pc["stop"] # "closed"
  /\ \E k \in 1..Window :
       LET got  == [i \in 1..k |-> <<target, version[target], offset + i>>]
           more == pending \o got
       IN  /\ offset + k <= size[target]
           /\ Advance(k)
           /\ Flush("loop", more, more, FALSE, FALSE, "fetch")
  /\ limit' = IF mode = "live" THEN limit ELSE size[target]
  /\ UNCHANGED <<device, flash, drive, running, name, chunkIndex, retry, mode,
                 target, todo, up, bounds>>

(* It returns no bytes: at the end of the file, or when the card could not  *)
(* be read.                                                                 *)
FetchEmpty ==
  /\ pc["loop"] = "window"
  /\ pc["stop"] # "closed"
  /\ IF mode = "live"
       THEN /\ Goto("loop", "savePending")
            /\ then' = [then EXCEPT !["loop"] = "list"]
            /\ nm' = [nm EXCEPT !["loop"] = name]
            /\ cut' = [cut EXCEPT !["loop"] = FALSE]
            /\ UNCHANGED limit
       ELSE /\ Goto("loop", "closedEnd")
            /\ limit' = size[target]
            /\ UNCHANGED <<then, nm, cut>>
  /\ UNCHANGED <<device, flash, drive, memory, mode, target, pulled, todo, force,
                 buf, chunk, up, bounds>>

(* It throws on a closed file (on the live one this is SessionFails): what  *)
(* was pulled is checkpointed and the file waits for its retry time.        *)
FetchError ==
  /\ pc["loop"] = "window"
  /\ mode = "closed"
  /\ retry' = retry \cup {target}
  /\ Goto("loop", "savePending")
  /\ then' = [then EXCEPT !["loop"] = "closedReturn"]
  /\ nm' = [nm EXCEPT !["loop"] = name]
  /\ cut' = [cut EXCEPT !["loop"] = FALSE]
  /\ UNCHANGED <<device, flash, drive, running, name, offset, chunkIndex, pending,
                 locals, force, buf, chunk, up, bounds>>

(* The window loop is left: the live file is checkpointed once more.        *)
FetchStop ==
  /\ pc["loop"] = "fetch" /\ ~WantsWindow
  /\ IF mode = "live"
       THEN /\ Goto("loop", "savePending")
            /\ then' = [then EXCEPT !["loop"] = "list"]
            /\ nm' = [nm EXCEPT !["loop"] = name]
            /\ cut' = [cut EXCEPT !["loop"] = FALSE]
       ELSE Goto("loop", "closedEnd") /\ UNCHANGED <<then, nm, cut>>
  /\ UNCHANGED <<device, flash, drive, memory, locals, force, buf, chunk, up, bounds>>

(* Variant: any reported size will do. *)
FinishedWhenSized == limit # Unknown

(* Variant: the cursor is looked for past the size. *)
FinishedPastSize == limit # Unknown /\ offset > limit

Finished == limit # Unknown /\ offset >= limit

(* A closed file fetched to its end: flush the tail, checkpoint, mark done. *)
ClosedEnd ==
  /\ pc["loop"] = "closedEnd"
  /\ retry' = IF pulled > 0 THEN retry \ {target} ELSE retry
  /\ IF Finished
       THEN Flush("loop", pending, pending, FALSE, TRUE, "markDone")
       ELSE Goto("loop", "closedReturn") /\ UNCHANGED <<pending, straight>>
  /\ UNCHANGED <<device, flash, drive, running, name, offset, chunkIndex, locals,
                 up, bounds>>

MarkDone ==
  /\ pc["loop"] = "markDone"
  /\ done' = [done EXCEPT ![target] = TRUE]
  /\ retry' = retry \ {target}
  /\ Goto("loop", "closedReturn")
  /\ UNCHANGED <<device, cursor, part, outbox, drive, running, name, offset,
                 chunkIndex, pending, locals, straight, up, bounds>>

(* Back in _drainClosedFiles: one file that gave bytes ends the pass.       *)
ClosedReturn ==
  /\ pc["loop"] = "closedReturn"
  /\ Goto("loop", IF pulled > 0 THEN "top" ELSE "pick")
  /\ UNCHANGED <<device, flash, drive, memory, locals, straight, up, bounds>>

ListFiles ==
  /\ pc["loop"] = "list"
  /\ todo' = 1..(live - 1)
  /\ retry' = retry \cap todo'
  /\ Goto("loop", "pick")
  /\ UNCHANGED <<device, flash, drive, running, name, offset, chunkIndex, pending,
                 mode, target, limit, pulled, straight, up, bounds>>

(* The next listed file that is not done and not waiting for its retry time.*)
Pick ==
  /\ pc["loop"] = "pick"
  /\ running
  /\ \E f \in todo :
       /\ todo' = todo \ {f}
       /\ ~done[f] /\ f \notin retry
       /\ mode' = "closed" /\ target' = f /\ limit' = Unknown /\ pulled' = 0
       /\ IF name # f
            THEN LeaveFile
            ELSE Goto("loop", "fetch") /\ UNCHANGED <<pending, straight>>
  /\ UNCHANGED <<device, flash, drive, running, name, offset, chunkIndex, retry,
                 up, bounds>>

PassOver ==
  /\ pc["loop"] = "pick"
  /\ ~running \/ \A f \in todo : done[f] \/ f \in retry
  /\ Goto("loop", "top")
  /\ UNCHANGED <<device, flash, drive, memory, locals, straight, up, bounds>>

(* A retry time passes: 30 s, doubled with each failure up to 900 s.        *)
RetryDue(f) ==
  /\ f \in retry
  /\ retry' = retry \ {f}
  /\ UNCHANGED <<device, flash, drive, running, name, offset, chunkIndex, pending,
                 locals, control, up, bounds>>

LoopStep ==
  \/ Top \/ Status \/ StatusNull
  \/ LoadCursor \/ ForgetPending \/ LoadPending
  \/ Check \/ ResetOffset \/ ResetIndex \/ ResetPending
  \/ FetchStart \/ FetchBytes \/ FetchEmpty \/ FetchError \/ FetchStop
  \/ ClosedEnd \/ MarkDone \/ ClosedReturn
  \/ ListFiles \/ Pick \/ PassOver

-------------------------------------------------------------------------------
(* The upload loop: uploadIfNew(f) then f.delete().  A chunk of a name and  *)
(* size Drive already has is not sent again; another size replaces it.      *)
Upload(s) ==
  /\ running /\ up = None /\ outbox[s] # <<>>
  /\ up' = s
  /\ drive' = IF Len(drive[s]) = Len(outbox[s]) THEN drive
                ELSE [drive EXCEPT ![s] = outbox[s]]
  /\ UNCHANGED <<device, flash, memory, locals, control, bounds>>

DeleteUploaded ==
  /\ up # None
  /\ outbox' = [outbox EXCEPT ![up] = <<>>]
  /\ up' = None
  /\ UNCHANGED <<device, cursor, done, part, drive, memory, locals, control, bounds>>

-------------------------------------------------------------------------------
(* stop(), a new WrSdSync, and the death of the process. *)

StopCall ==
  /\ pc["stop"] = "ready"
  /\ stops < MaxStops
  /\ pc["loop"] \in StopAt
  /\ stops' = stops + 1
  /\ running' = FALSE
  /\ IF name = None
       THEN Goto("stop", "close") /\ UNCHANGED <<pending, straight>>
       ELSE Flush("stop", pending, pending, FALSE, TRUE, "close")
  /\ UNCHANGED <<device, flash, drive, name, offset, chunkIndex, retry, locals, up,
                 crashes, reuses>>

Close ==
  /\ pc["stop"] = "close"
  /\ Goto("stop", "closed")
  /\ UNCHANGED <<device, flash, drive, memory, locals, straight, up, bounds>>

NewInstance ==
  /\ pc["loop"] = "off" /\ pc["stop"] = "closed" /\ up = None
  /\ FreshMemory
  /\ UNCHANGED <<device, flash, drive, bounds>>

Crash ==
  /\ crashes < MaxCrashes
  /\ pc["loop"] \in CrashAt
  /\ crashes' = crashes + 1
  /\ FreshMemory
  /\ UNCHANGED <<device, flash, drive, stops, reuses>>

Next ==
  \/ Device
  \/ LoopStep
  \/ SessionFails
  \/ \E p \in Procs : FlushAndCheckpoint(p)
  \/ \E f \in Files : RetryDue(f)
  \/ \E s \in Slots : Upload(s)
  \/ DeleteUploaded
  \/ StopCall \/ Close \/ NewInstance
  \/ Crash

Spec == Init /\ [][Next]_vars

(* The isolate runs what is ready (a session call answers or throws, by its *)
(* watchdog at the latest), the service names the live file when asked      *)
(* again and again, an upload is answered, and the page starts a new        *)
(* instance once the link is back.                                          *)
IsolateRuns ==
  /\ WF_vars(LoopStep \/ SessionFails \/ FlushAndCheckpoint("loop"))
  /\ WF_vars(Close \/ FlushAndCheckpoint("stop"))
  /\ WF_vars(NewInstance)
  /\ WF_vars(DeleteUploaded)
  /\ SF_vars(Status)

StoppableSpec == Spec /\ IsolateRuns

(* Besides, retry times come, uploads are begun, and the service            *)
(* answers about a file it is asked about again and again.                  *)
Answer(f) == target = f /\ (FetchBytes \/ (offset = size[f] /\ FetchEmpty))

FairSpec ==
  /\ Spec
  /\ IsolateRuns
  /\ SF_vars(ListFiles)
  /\ \A f \in Files : /\ SF_vars(mode = "live" /\ Answer(f))
                      /\ SF_vars(mode = "closed" /\ Answer(f))
                      /\ WF_vars(RetryDue(f))
  /\ WF_vars(\E s \in Slots : Upload(s))

-------------------------------------------------------------------------------
(* What the sync promises. *)

BytesIn(box) == UNION {Range(box[s]) : s \in Slots}
Stored == BytesIn(outbox) \cup BytesIn(drive)

\* The bytes of the recording f now stands for, up to a position.
BytesUpTo(f, n) == {<<f, version[f], i>> : i \in 1..n}

\* What a process that is alive still holds of f: the pending bytes, and the
\* chunks on their way to the outbox.
Held(f) ==
  IF name # f THEN {}
  ELSE Range(pending) \cup
       UNION {Range(chunk[p].bytes) : p \in {q \in Procs : pc[q] \in {"write", "delete", "rename"}}}

(* The cursor on flash never runs ahead of the data: every byte below it is *)
(* in the pending file, in the outbox, on Drive, or still held by a process *)
(* that is alive.  The order of the checkpoint in _drainOnce (flush,        *)
(* pending, cursor) is there for this: a process that dies must not have    *)
(* skipped bytes that were only in memory.                                  *)
NoByteSkipped ==
  \A f \in Files : base[f] = version[f] =>
    BytesUpTo(f, off[f]) \subseteq Range(pend[f]) \cup Stored \cup Held(f)

(* Chunks have deterministic boundaries: the k-th chunk of a recording is   *)
(* its k-th run of FramesPerChunk whole frames, whenever and however often  *)
(* it is cut; only the last chunk of a closed file may be shorter.  Re-runs *)
(* are idempotent on Drive because of it (_chunkBoundary, _emitChunk).      *)
FrameStarts == LET start[n \in Nat] ==
                     IF n = 0 THEN 1
                     ELSE LET s == start[n - 1]
                          IN  IF s > MaxSize THEN s + 1 ELSE s + 1 + Content[s]
               IN  start

Piece(f, v, first, last) == [i \in 1..(last - first + 1) |-> <<f, v, first + i - 1>>]

IsChunkOf(bytes, f, v, k) ==
  LET first == FrameStarts[k * FramesPerChunk]
      next  == FrameStarts[(k + 1) * FramesPerChunk]
  IN  \/ next <= MaxSize + 1 /\ bytes = Piece(f, v, first, next - 1)
      \/ f < live /\ size[f] < next - 1 /\ bytes = Piece(f, v, first, size[f])

DeterministicChunks ==
  \A s \in Slots, box \in {outbox, drive} : box[s] # <<>> =>
    \E f \in Files, v \in 0..MaxReuses, k \in 0..MaxSize :
      s = Base[f][v] + k /\ IsChunkOf(box[s], f, v, k)

(* A file flagged done is never looked at again, so all of it must be in    *)
(* the outbox or on Drive by then (_drainClosedFile).                       *)
DoneMeansStored ==
  \A f \in Files : done[f] => BytesUpTo(f, size[f]) \subseteq Stored

(* Once the cursor of a reused name has restarted, the chunks it names are  *)
(* those of the newer recording: none holds a byte of the older one, and    *)
(* the first begins where that recording does (_resetStateForReusedName,    *)
(* whose steps interleave with windows, flushes and stop()).  A recording   *)
(* that has outgrown the cursor before the phone asks is not restarted at   *)
(* all (_drainOnce tells a new one by its smaller size); of that this says  *)
(* nothing.                                                                 *)
RestartKeepsApart ==
  \A f \in Files, v \in 1..MaxReuses, k \in 0..MaxSize - 1, box \in {outbox, drive} :
    LET bytes == box[Base[f][v] + k] IN
    /\ \A b \in Range(bytes) : b[1] = f /\ b[2] >= v
    /\ k = 0 /\ bytes # <<>> => bytes[1][3] = 1

(* A closed file is eventually on Drive in full, although windows fail and  *)
(* the live file competes for the link (_drainClosedFiles, the retry times, *)
(* _uploadLoop).                                                            *)
BacklogReachesDrive ==
  \A f \in Files :
    f < live ~> BytesUpTo(f, size[f]) \subseteq BytesIn(drive)

(* stop() always comes to its end, and the loop to its own, although both   *)
(* flush and checkpoint the same file at once and one may delete the part   *)
(* file the other is about to rename (stop, _loop).                         *)
StopEnds ==
  ~running ~> pc["loop"] = "off" /\ pc["stop"] = "closed"
===============================================================================
