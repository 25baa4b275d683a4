------------------------------ MODULE WrRecorder ------------------------------
(***************************************************************************)
(* The recordings on the device's SD card: who makes them, names them and  *)
(* removes them.                                                           *)
(*                                                                         *)
(* The audio pusher appends to the active file a01.txt (omi's              *)
(* write_to_file, as the patches leave it).  Chunk rotation (wr_chunk.c)   *)
(* renames the active file to its final name, made of the phone's clock or,*)
(* before the phone gave it, of a boot number and a sequence number.  The  *)
(* FIFO (wr_fifo.c) removes the oldest recording when the card gets full.  *)
(* At boot the button (wr_msc_mode.c) decides whether the device records or*)
(* hands the card to a USB host.                                           *)
(*                                                                         *)
(* Rotation, its size check and the FIFO are work items of Zephyr's system *)
(* work queue: one runs at a time.  A rotation gives way to other threads  *)
(* while it waits for the card: between building a name, looking it up and *)
(* taking write_sdcard_mutex.  What a thread does under the mutex is one   *)
(* step here.  An active file that does not exist and one that is empty    *)
(* behave alike (the pusher creates it, rotation skips it) and are both <<>>*)
(***************************************************************************)
EXTENDS Integers, Sequences, FiniteSetsExt, Functions

CONSTANTS
  WriterPath,      \* directory of the file the pusher appends to
  Limit,           \* size at which a file is rotated, in blocks (2 MB)
  Capacity,        \* size of the card, in blocks
  ThresholdPct,    \* free share of the card, in percent, the FIFO keeps
  MaxAttempts,     \* names a rotation probes (1000)
  SeqWidth,        \* values of wr_chunk_seq (2^32)
  SeqModulus,      \* sequence numbers a name can show (100000)
  EpochModulus,    \* seconds a name can show (10^10)
  BootIds,         \* what wr_chunk_make_boot_id may return
  Earlier,         \* recordings on the card at first: name -> blocks
  Samples,         \* button readings at boot (100)
  HighThreshold,   \* high readings that select the USB mode (80)
  HighCounts,      \* numbers of high readings considered
  NoName,
  MaxBlocks,       \* bound on the blocks recorded
  MaxBoots,        \* bound on the reboots
  MaxSyncs         \* bound on the times the phone gives the time

Dirs == {"audio", "root"}     \* /SD:/audio/a01.txt and /SD:/a01.txt

\* Names of recordings: <<kind, major, minor>>, ordered as the FIFO orders them:
\* kind first, then the fixed-width digits of the name.
LEGACY == 1
UNSYNCED == 2
EPOCH == 3
Names == {LEGACY} \X Nat \X {0} \cup {UNSYNCED} \X BootIds \X (0..SeqModulus - 1)
           \cup {EPOCH} \X (0..EpochModulus - 1) \X {0}

EarlierBlocks == UNION {Range(Earlier[n]) : n \in DOMAIN Earlier}

ASSUME RecorderAssumption ==
  /\ WriterPath \in Dirs
  /\ Limit \in Nat \ {0} /\ Capacity \in Nat /\ ThresholdPct \in Nat
  /\ MaxAttempts \in Nat \ {0}
  /\ SeqWidth \in Nat \ {0} /\ SeqModulus \in Nat \ {0}
  /\ EpochModulus \in Nat \ {0}
  /\ BootIds \subseteq Nat /\ BootIds # {}
  /\ NoName \notin Names
  /\ \A n \in DOMAIN Earlier : n \in Names /\ n[1] # EPOCH
  /\ \A n \in DOMAIN Earlier : Earlier[n] \in Seq(Nat)
  /\ \A n, m \in DOMAIN Earlier :
       n # m => Range(Earlier[n]) \cap Range(Earlier[m]) = {}
  /\ IsFiniteSet(EarlierBlocks) /\ EarlierBlocks = 1..Cardinality(EarlierBlocks)
  /\ Samples \in Nat /\ HighThreshold \in Nat
  /\ HighCounts \subseteq 0..Samples /\ HighCounts # {}
  /\ MaxBlocks \in Nat /\ MaxBoots \in Nat /\ MaxSyncs \in Nat

VARIABLES
  \* on the card
  a01,         \* blocks of the active file, in each directory
  chunks,      \* recordings in /SD:/audio: name -> blocks
  gone,        \* blocks removed by the FIFO or by a USB host
  next,        \* the next block of sound
  \* in the device's memory
  mode,        \* "recording", or "msc" when a USB host owns the card
  sync,        \* wr_chunk_sync without boot_id
  bootId,      \* wr_chunk_sync.boot_id
  seq,         \* wr_chunk_seq
  submitted,   \* wr_chunk_work is in the system work queue
  pc,          \* where the system work queue is in wr_chunk_rotate
  target,      \* local target of wr_chunk_rotate
  attempt,     \* local attempt of wr_chunk_rotate
  \* the world
  now,         \* seconds of the phone's clock
  bootAt,      \* when the device booted
  boots,       \* reboots so far
  syncs        \* times the phone gave the time

card == <<a01, chunks, gone, next>>
queue == <<submitted, pc, target, attempt>>
clock == <<now, bootAt, boots, syncs>>
vars == <<card, mode, sync, bootId, seq, queue, clock>>

-------------------------------------------------------------------------------
(* The names a rotation gives, and their order *)

EpochName(secs) == <<EPOCH, secs % EpochModulus, 0>>
\* A variant of the next definition that lets the number outgrow its five digits.
UnsyncedNameUnbounded(id, s) == <<UNSYNCED, id, s>>
UnsyncedName(id, s) == <<UNSYNCED, id, s % SeqModulus>>
Classify(n) == n[1]
ComparePriority(n, m) ==       \* n is removed before m
  \/ n[1] < m[1]
  \/ n[1] = m[1] /\ n[2] < m[2]
  \/ n[1] = m[1] /\ n[2] = m[2] /\ n[3] < m[3]

\* A variant of the next definition with the rule of the first release: chunk_*.opus only.
ManagedLegacyOnly(n) == Classify(n) = LEGACY
\* Files the FIFO may remove: every kind of name it knows.
Managed(n) == Classify(n) \in {LEGACY, UNSYNCED, EPOCH}

-------------------------------------------------------------------------------
(* Boot *)

Decide(high) ==
  /\ Samples > 0
  /\ HighThreshold \in 1..Samples
  /\ high >= HighThreshold
ModeAfter(high) == IF Decide(high) THEN "msc" ELSE "recording"

NotSynced == [secs |-> 0, uptime |-> 0, done |-> FALSE]

Init ==
  /\ a01 = [d \in Dirs |-> <<>>]
  /\ chunks = Earlier
  /\ gone = {}
  /\ next = Cardinality(EarlierBlocks) + 1
  /\ \E high \in HighCounts : mode = ModeAfter(high)
  /\ bootId \in BootIds
  /\ sync = NotSynced
  /\ seq = 0
  /\ submitted = FALSE
  /\ pc = "idle"
  /\ target = NoName
  /\ attempt = 0
  /\ now = 0
  /\ bootAt = 0
  /\ boots = 0
  /\ syncs = 0

\* Power loss or reset: what is in memory is lost, what is on the card stays.
Reboot ==
  /\ boots < MaxBoots
  /\ boots' = boots + 1
  /\ \E high \in HighCounts : mode' = ModeAfter(high)
  /\ bootId' \in BootIds
  /\ sync' = NotSynced
  /\ seq' = 0
  /\ submitted' = FALSE
  /\ pc' = "idle"
  /\ target' = NoName
  /\ attempt' = 0
  /\ bootAt' = now
  /\ UNCHANGED <<card, now, syncs>>

-------------------------------------------------------------------------------
(* The pusher: one flush of write_to_file, under write_sdcard_mutex *)

Used == Len(a01["audio"]) + Len(a01["root"])
          + MapThenSumSet(LAMBDA n : Len(chunks[n]), DOMAIN chunks)
Free == Capacity - Used

Write ==
  /\ mode = "recording"      \* in USB mode the recording stack is not started
  /\ next <= MaxBlocks
  /\ Free > 0                \* else fs_write fails and the block is dropped
  /\ a01' = [a01 EXCEPT ![WriterPath] = Append(@, next)]
  /\ next' = next + 1
  /\ UNCHANGED <<chunks, gone, mode, sync, bootId, seq, queue, clock>>

-------------------------------------------------------------------------------
(* The phone gives the time (BT RX thread) *)

Uptime == now - bootAt

SetSyncTime ==
  /\ mode = "recording"      \* in USB mode there is no radio
  /\ syncs < MaxSyncs
  /\ syncs' = syncs + 1
  /\ sync' = [secs |-> now, uptime |-> Uptime, done |-> TRUE]
  /\ UNCHANGED <<card, mode, bootId, seq, queue, now, bootAt, boots>>

-------------------------------------------------------------------------------
(* Rotation *)

\* The ten-minute timer.
TimerRotate ==
  /\ submitted' = TRUE
  /\ UNCHANGED <<card, mode, sync, bootId, seq, pc, target, attempt, clock>>

ShouldRotateSize(n) == Limit > 0 /\ n >= Limit

\* The size check, every thirty seconds.
SizeCheck ==
  /\ pc = "idle"
  /\ ShouldRotateSize(Len(a01["audio"]))
  /\ submitted' = TRUE
  /\ UNCHANGED <<card, mode, sync, bootId, seq, pc, target, attempt, clock>>

\* A variant of the next definition with the sense of the gate turned round.
RotationInUsbMode == mode = "msc"
RotationEnabled == mode = "recording"

TakeRotate ==
  /\ pc = "idle"
  /\ submitted
  /\ submitted' = FALSE
  /\ pc' = IF RotationEnabled THEN "build" ELSE "idle"
  /\ UNCHANGED <<card, mode, sync, bootId, seq, target, attempt, clock>>

\* A variant of the next definition that adds the time since boot.
ElapsedSinceBoot == Uptime
\* Time since the phone gave the time.
Elapsed == Uptime - sync.uptime

BuildTarget ==
  /\ pc = "build"
  /\ target' = IF sync.done THEN EpochName(sync.secs + Elapsed)
                            ELSE UnsyncedName(bootId, seq)
  /\ pc' = "stat"
  /\ UNCHANGED <<card, mode, sync, bootId, seq, submitted, attempt, clock>>

NextSeq == (seq + 1) % SeqWidth

\* A variant of the next definition that trusts the name to be new.
CollidesNever == FALSE
Collides == target \in DOMAIN chunks

\* fs_stat of the target.  It is looked up at most MaxAttempts times; then the
\* rotation goes on with the last name that was taken.
Stat ==
  /\ pc = "stat"
  /\ IF Collides
     THEN /\ seq' = NextSeq
          /\ sync' = [sync EXCEPT !.secs = IF sync.done THEN @ + 1 ELSE @]
          /\ attempt' = attempt + 1
          /\ pc' = IF attempt' = MaxAttempts THEN "rename" ELSE "build"
     ELSE pc' = "rename" /\ UNCHANGED <<seq, sync, attempt>>
  /\ UNCHANGED <<card, mode, bootId, submitted, target, clock>>

ShouldRotate == a01["audio"] # <<>>

Return == pc' = "idle" /\ target' = NoName /\ attempt' = 0

RenameSkips ==
  /\ pc = "rename"
  /\ ~ShouldRotate
  /\ Return
  /\ UNCHANGED <<card, mode, sync, bootId, seq, submitted, clock>>

RenameFails ==
  /\ pc = "rename"
  /\ ShouldRotate
  /\ Return
  /\ UNCHANGED <<card, mode, sync, bootId, seq, submitted, clock>>

\* A file of the target's name is replaced.  The number moves on only if the
\* new active file could be made.  Rotations are at least a second apart.
RenameOk ==
  /\ pc = "rename"
  /\ ShouldRotate
  /\ chunks' = [n \in DOMAIN chunks \cup {target} |->
                  IF n = target THEN a01["audio"] ELSE chunks[n]]
  /\ a01' = [a01 EXCEPT !["audio"] = <<>>]
  /\ \E recreated \in BOOLEAN : seq' = IF recreated THEN NextSeq ELSE seq
  /\ now' = now + 1
  /\ Return
  /\ UNCHANGED <<gone, next, mode, sync, bootId, submitted, bootAt, boots, syncs>>

-------------------------------------------------------------------------------
(* Removal *)

ShouldPrune ==
  /\ Capacity > 0 /\ ThresholdPct > 0
  /\ Free * 100 < Capacity * ThresholdPct
PruningEnabled == mode = "recording"

Candidates == {n \in DOMAIN chunks : Managed(n)}
IsOldest(n) == \A m \in Candidates \ {n} : ComparePriority(n, m)

Drop(n) ==
  /\ chunks' = Restrict(chunks, DOMAIN chunks \ {n})
  /\ gone' = gone \cup Range(chunks[n])

\* The FIFO, every minute: one recording.
Fifo ==
  /\ pc = "idle"
  /\ PruningEnabled
  /\ ShouldPrune
  /\ \E n \in Candidates : IsOldest(n) /\ Drop(n)
  /\ UNCHANGED <<a01, next, mode, sync, bootId, seq, queue, clock>>

\* The user deletes a recording, or the active file, from a computer.
HostRemoves ==
  /\ mode = "msc"
  /\ \/ \E n \in DOMAIN chunks : Drop(n) /\ UNCHANGED a01
     \/ \E d \in Dirs :
          /\ a01[d] # <<>>
          /\ a01' = [a01 EXCEPT ![d] = <<>>]
          /\ gone' = gone \cup Range(a01[d])
          /\ UNCHANGED chunks
  /\ UNCHANGED <<next, mode, sync, bootId, seq, queue, clock>>

-------------------------------------------------------------------------------
WorkQueue ==
  SizeCheck \/ TakeRotate \/ BuildTarget \/ Stat \/ RenameSkips \/ RenameFails
    \/ RenameOk \/ Fifo

Next == Write \/ SetSyncTime \/ TimerRotate \/ WorkQueue \/ HostRemoves \/ Reboot

Spec == Init /\ [][Next]_vars

\* The timers are periodic and the work queue runs what is submitted to it:
\* the FIFO gets its turn although rotations come and go.  A rename that is
\* tried for ever does not fail for ever.
Fairness ==
  /\ WF_vars(TimerRotate) /\ WF_vars(SizeCheck)
  /\ WF_vars(TakeRotate) /\ WF_vars(BuildTarget) /\ WF_vars(Stat)
  /\ WF_vars(RenameSkips) /\ SF_vars(RenameOk)
  /\ SF_vars(Fifo)

FairSpec == Spec /\ Fairness

-------------------------------------------------------------------------------
(* Properties *)

\* Type of every variable: the number in a name has five digits at most, a
\* target exists exactly while a rotation has one.
Blocks == Nat
TypeOK ==
  /\ a01 \in [Dirs -> Seq(Blocks)]
  /\ DOMAIN chunks \subseteq Names
  /\ \A n \in DOMAIN chunks : chunks[n] \in Seq(Blocks)
  /\ gone \subseteq Blocks
  /\ next \in Nat
  /\ mode \in {"recording", "msc"}
  /\ sync \in [secs : Nat, uptime : Nat, done : BOOLEAN]
  /\ bootId \in BootIds
  /\ seq \in 0..SeqWidth - 1
  /\ submitted \in BOOLEAN
  /\ pc \in {"idle", "build", "stat", "rename"}
  /\ target \in Names \cup {NoName}
  /\ (pc \in {"stat", "rename"}) => (target # NoName)
  /\ (pc = "idle") => (target = NoName)
  /\ attempt \in 0..MaxAttempts
  /\ now \in Nat /\ bootAt \in 0..now /\ boots \in Nat
  /\ syncs \in Nat

\* Every block written is in exactly one file of the card, or was removed by
\* the FIFO or the USB host: rotation neither loses a block nor stores it twice,
\* whatever the pusher, the clock and a reboot do between its steps.
Places(b) ==
  {<<"active", d>> : d \in {e \in Dirs : b \in Range(a01[e])}}
    \cup {<<"chunk", n>> : n \in {m \in DOMAIN chunks : b \in Range(chunks[m])}}
    \cup {<<"gone", p>> : p \in {q \in {0} : b \in gone}}
KeptOnce == \A b \in 1..next - 1 : \E p \in Places(b) : Places(b) = {p}

\* Of the recordings named after the clock the FIFO removes the one recorded
\* first, also across reboots, new clock readings and nudged names.
IsEpoch(n) == Classify(n) = EPOCH
EpochPrunedInOrder ==
  [][\A n \in DOMAIN chunks \ DOMAIN chunks' :
       mode = "recording" /\ IsEpoch(n) =>
         \A m \in DOMAIN chunks' : IsEpoch(m) => chunks[n][1] < chunks'[m][1]]_vars

\* An active file that has reached the limit is rotated (wr_chunk.c:4-6).
LiveRotates ==
  ShouldRotateSize(Len(a01[WriterPath]))
    ~> (~ShouldRotateSize(Len(a01[WriterPath])) \/ mode = "msc")

\* A full card does not stop the recorder for good: the FIFO makes room, after
\* a rotation if the active file is all there is.
FullCardRecovers == (Free = 0) ~> (Free > 0 \/ mode = "msc")
===============================================================================
