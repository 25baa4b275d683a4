# Verification of the wearable recorder

A TLA+ model of the wearable audio recorder and of the phone app that empties
it, checked with TLC on small instances and, in part, proved with TLAPS.

1. [The system](#1-the-system) - parts, state, interaction, hazards
2. [The modules](#2-the-modules) - what corresponds to what
3. [The runs](#3-the-runs) - questions, bounds, fairness, results
4. [The proofs](#4-the-proofs)
5. [What is not covered](#5-what-is-not-covered)
6. [What comes next](#6-what-comes-next)

To repeat the work: `tlc -workers 2 -config <cfg> <MC module>` for a run,
`tlapm` of `Recursion.tla` and of the five `*Proofs.tla` modules for the proofs. `PROJECT.json` lists
components, runs, the source lines each definition models, the hazards and the
mutations of the model each property was tried against.

## 1. The system

The recorder is a small nRF52840 board (Zephyr; a patched omi firmware plus
the code in `app/`) that writes Opus audio to an SD card. The phone app
(`app_mobile/`, Flutter) connects over Bluetooth, sets the clock, pulls the
recordings and uploads them to Google Drive in chunks.

| part | state it keeps | operations | talks to |
|---|---|---|---|
| pusher (omi `transport.c`/`sdcard.c`, `app/patches`) | transmit queue, gates | append a block to the active file | card (under `write_sdcard_mutex`) |
| chunk rotation (`wr_chunk.c`) | clock reading, boot number, sequence number | 10-minute timer, 30-second size check, rotate | card, work queue |
| FIFO (`wr_fifo.c`) | none but the card | each minute: below 10 % free, remove one recording | card, work queue |
| USB mode (`wr_msc_mode.c`) | a flag set at boot | sample the button for a second | gates rotation, FIFO, recording |
| time sync (`wr_time_sync.c`) | none | write of 8 bytes sets the clock | rotation |
| storage service (`wr_storage_service.c`) | state, generation, file name, subscriber | LIST, FETCH, ABORT, (un)subscribe, two work items | phone, card |
| battery (`wr_battery.c`, `wr_battery_service.c`) | last level notified | sample to percent, update every minute | LED tick, phone |
| LED (`wr_led_pick.c`, `wr_led_status.c`) | tick, gauge, inputs | tick every 100 ms, sample every 10 s | battery, link, recording switch |
| recording switch (patch 0048) | one flag, and its copy for the LED | tap, Bluetooth command, power off | pusher, LED |
| boot command (`wr_boot_cmd.c`) | line buffer | characters of the console, reset | bootloader |
| storage client (`wr_storage_client.dart`) | per session: the operation that runs, those that wait, a subscription | status, list, fetch window, close | device, SD sync, storage page |
| SD sync (`wr_sd_sync.dart`) | per file: offset, pending bytes, chunk number, done flag; outbox | drain loop, closed-file pass, upload loop, stop | storage client, Drive |
| Drive uploader (`wr_drive_uploader.dart`) | ids of what was uploaded | upload if new, update | Drive |
| BLE device, scanner, foreground service, pages | link, subscriptions | connect, stop, show | all of the above |

How the parts interact:

* On the device, threads share memory under two mutexes: `wr_state_mutex`
  (storage service: Bluetooth RX thread against its work queue) and
  `write_sdcard_mutex` (pusher thread against rotation and FIFO). Rotation and
  FIFO share Zephyr's system work queue and so never overlap each other. The
  card itself is shared state: the active file passes from the pusher to
  rotation by a rename, and recordings are removed by the FIFO while the storage
  service may be reading them.
* On the phone everything runs in one Dart isolate; steps interleave at `await`.
  The drain loop, the upload loop and `stop()` share the cursor in memory, the
  preferences, the pending file and the outbox directory. The process may die
  at any await.
* Between the two: GATT notifications, which may be lost, and which carry no
  request id. Every subscribed session of the phone hears all of them; the sync
  and the storage page have a session each, on the same characteristics.

What makes it hard, and what each part must guarantee:

| part | hard behaviour | correct means |
|---|---|---|
| storage service | ABORT, unsubscribe or a new command while a work item is between two of its critical sections; read errors; full transmit queue | no transfer leaks into the next but for one notification; END only after all of the file; every accepted command is answered |
| SD sync | death between the writes of a checkpoint; windows that end inside a frame; `stop()` during a flush; reused file names | no byte skipped, deterministic chunks, done only when stored, backlog reaches Drive |
| recorder (rotation, FIFO, clock) | names chosen before the lock; repeated boot numbers; clock set at any time; reset at any point; full card | every block in one place, recordings removed in order, files rotated, full card recovers |
| storage client | late answer of a timed-out request taken for the next one's; a second session; `close()` turns off notifications for both | an answer belongs to its request; no operation blocks the next for ever |
| board (battery, LED, switch, console) | samples and notifications that fail, two copies of one flag, lines longer than the buffer | the user ends up seeing the truth; nothing reboots but "boot" typed on one line |
| Drive uploader | time-out of a create that succeeds on the server | no duplicate, no loss |

All hazards, each at its line with the property that covers it or the reason
why none does, are in `PROJECT.json` under `hazards`.

## 2. The modules

**`WrTransfer`** - the abstract promise of the storage service: at most one open
transfer, its items are sent while it is open, a cancelled transfer leaves at
most one notification on its way.

**`WrStorageService`** - `wr_storage_service.c`. Two threads: `rx` says what the
Bluetooth RX thread does next, `wpc` where the work queue thread is in
`wr_storage_list_fn` / `wr_storage_fetch_fn`. Each `wr_state_*` helper holds
the mutex throughout and is one step (`Begin`, `CtrlAbort`, `Unsubscribe`,
`Snapshot`, `Matches`, `Finish`); the threads interleave between them and before
each notification. `Submit` and `TakeWork` are Zephyr's work queue. A file is a
number of blocks, the directory a sequence of names. The history variables
(`wanted`, `got`, `terminal`, `stale`, ...) say what the client saw; no guard
reads them.

**`WrSdSync`** - `wr_sd_sync.dart`. Each action is the code between two awaits.
`pc["loop"]` is the drain loop's await, `pc["stop"]` that of `stop()`; the loop
and `stop()` both run the flush and checkpoint actions, `up` is the upload
loop. On flash: `off`, `ci`, `base`, `done` (preferences), `pend` (pending file),
`part` and `outbox`. A byte is identified by file, recording and position, so
that properties can say which bytes are where; `Content` supplies the length
bytes `_chunkBoundary` reads. `Crash` drops everything but flash; `NewInstance`
starts a fresh `WrSdSync`. The device (`Grow`, `Rotate`, `ReuseName`) and Drive
are external; the device lets files
grow and reuses names as it likes. That the session reports the size of a file
as it is (`limit`) is assumed; violation 5 of section 3 shows that it may report 0.

**`WrRecorder`** - `wr_chunk*.c`, `wr_fifo*.c`, `wr_time_sync.c`,
`wr_msc_mode*.c` and `write_to_file` of the patches. `a01` is the active file in
either directory, `chunks` the recordings by name, `gone` what was removed.
Names are tuples that compare as `wr_fifo_compare_priority` compares the
strings. `pc` is where the system work queue is in `wr_chunk_rotate`:
`BuildTarget`, `Stat` and the rename are separate steps because each waits for
the card, while the section under `write_sdcard_mutex` is one. `WriterPath` is
the directory the pusher writes to: `"audio"` is the path rotation is written
against (and patch 0036 wrote to), `"root"` the one patches 0038 and 0045 leave
in the shipped firmware.

**`WrStorageClient`** - `wr_storage_client.dart` and what its callers do with it:
`WrSdSync` (status, then the live file, then a listing, then closed files;
`_reopenSession` after a failure, except that of a closed file's window) and
`storage_page.dart` (anything, without waiting for what it asked before).
`waiting`, `op` and `locked` are `_operationTail`: operations in a queue, the
one that runs, and the lock it releases in its `finally`; `listening` is `_sub`;
`collected` the locals of `listFiles` and `fetchWindow`. A step is the code
between two awaits. `commands` and `air` are the link, in order and without
loss but of any slowness; the device is external, one transfer at a time, and
answers a command during it with ERROR as `wr_storage_service.c` does. `Deliver`
gives a notification to every session that listens and finishes the operations
it ends. `GiveUp` is a time-out: the device is not told. The history variable
`shared` says when a session was not alone with the device.

**`WrBoard`**, composed of **`WrBattery`** (conversion), **`WrLedPick`**
(priorities and patterns) and **`WrBootCmd`** (line buffer) - what the recorder
shows and what its user tells it: the LED tick and the sample it asks for
(`LedTick`, `AdcWork`), the two updates of the battery level (`BattUpdate` of
`wr_battery_service.c` and `Broadcast` of patch 0047), the recording switch with
its tap and its Bluetooth command, power, and the console. A handler is one
step: the Bluetooth thread and the work queue are cooperative and no handler
waits between two accesses to shared state (the 50 ms before the reset in the
console's callback come after the last of them), and the LED timer reads each
flag once. `Memory` is what a reset leaves. USB mode is not part of it. Of the
console's buffer the model keeps how full it is and what the C string in it
spells, since `strcmp` stops at the first zero received; `line` and `typed` are the
history of what was typed since the last line break.

**`WrStorageServiceProofs`**, **`WrRecorderProofs`**, **`WrBoardProofs`**,
**`WrStorageClientProofs`**, **`WrSdSyncProofs`** - theorems about those modules.
**`Recursion`** - induction over the natural numbers and definitions by it, for the
recursive functions of `WrSdSync`. **`MC...`** - instances for TLC.

Operators named as variants (`FinishedAlways`, `SaveCursorFirst`,
`CollidesNever`, ...) are not part of the specifications: each is a definition
with a plausible mistake, kept to show that the property listed with it in
`PROJECT.json` notices the mistake.

## 3. The runs

| run | question | result |
|---|---|---|
| `storage_service` | Do transfers stay apart, end, and carry the right file, whatever the threads and failures do? Does the service implement `WrTransfer`? | holds |
| `storage_end_byte` | Is END only sent at the end (`wr_storage_service.c:9-10`)? | violated: a read error or lost notification is followed by END |
| `sync_crash` | The process dies at any await outside a checkpoint, once. | no byte skipped, same chunks, done means stored |
| `sync_drains` | Does a closed file reach Drive although every step may fail? | yes, under the fairness below |
| `sync_stop` | Do loop and `stop()` both end when they flush the same file? Once the cursor of a reused name has restarted, are the chunks of the old and the new recording kept apart? | yes; but a restart does not always take place, see below |
| `sync_crash_after_cut` | The process dies between the two preferences of a checkpoint, after a chunk was cut. | violated: the next chunk takes the name of the last |
| `sync_stop_loses` | `stop()` during a pass. | violated: bytes that arrive during the flush of `stop()` are dropped, the cursor counts them |
| `recorder` | The pusher writing in `/SD:/audio`. | blocks kept once, order kept, files rotated, full card recovers |
| `recorder_root` | The pusher writing in `/SD:/`, as shipped. | violated: the active file is never rotated |
| `client` | Two sessions on one pair of characteristics, time-outs, a device that rejects or falls silent. | every operation ends and lets the next one go; notifications turned off by the other session come back; alone, a session gets what it asked for |
| `client_late_answer` | Does a window return what was asked for (`wr_storage_client.dart:329-332`)? | violated: a late END ends the next window |
| `board` | Failing samples, lost notifications, taps and Bluetooth commands, resets, lines of any length. | LED and phone end up telling the truth; patterns differ; "boot" must have been typed on one line to reboot, and of the lines that fit the buffer exactly those whose text up to a zero is "boot" do |

### Bounds, and why they are enough

*Storage service.* Files of zero, one and two blocks; a directory with the live
recording, a foreign file and two recordings; a name that does not exist. Two
blocks let a cancellation fall before, between and after items. `MaxGen = 5`:
a stale handler can meet at least two newer transfers.

*SD sync.* Frames of two bytes, chunks of two frames, windows of three bytes,
files of up to five bytes: windows hold no, one or one and a half frames, a
chunk boundary falls inside a window, and a closed file ends inside a frame.
Two files make the live and the closed pass compete. One crash, one stop or one
reused name per run: what is checked of each is whether the state it leaves is
sound for what follows. `sync_crash` and `sync_drains` have no reused name.
`sync_stop` has one file, of three and then four bytes or of four at once, so that a
new recording is smaller or larger than what was fetched of the old one when the phone next
asks; `stop()` comes at any await of the loop. `sync_stop_loses` lets it come only
while the loop is in a flush or awaits a window. All of them take for granted that the
committed size the session reports is that of the file.

*Recorder.* A card of four blocks with two recordings of earlier firmware and of
an earlier boot, four more blocks, limit of two, one reboot, two boot numbers and
two clock readings. Sequence numbers show four values and wrap at six, so that
wrapped names, probing, and a repeated boot number all occur. A rotation
probes six names, and finds one that is free whenever there is something to rotate. `MaxSyncs`
keeps the phone from setting the clock back at each single probe of one rotation,
which would have to happen a thousand times in the code. `ThresholdPct = 60`
makes the FIFO remove recordings while two blocks are still used. Time advances
by a second at each rotation, since rotations are at least 30 seconds apart;
the phone's clock is taken to be right.

*Storage client.* A live recording and a closed file, of one and two blocks,
windows of one block from the start of a file, at most two commands and one
notification under way, and at most one operation waiting. One notification
suffices for lateness: the device waits until it has been heard, and the phone
may give up first. With two in the air the invariants were checked as well
(424 584 states), but liveness takes too long to be repeated. `client_late_answer`
has the sync alone, no byte of the live recording, and two closed files.

*Board.* Samples of 3164 mV (13 %: a warning) and from both ends of the range,
a negative one, which counts as no battery, and the largest; a sample every two ticks instead of
hundred; a console buffer of six characters instead of 16, so that "boot" fits with a
zero behind it and lines that are too long are short. The letters of the word, a zero and one other
byte are typed. Patterns are compared over a full cycle of 300 ticks, in every
alignment. The theorems hold for all samples and all sizes.

### Fairness

*Storage service* (`FairSpec`): weak fairness of the RX thread once in a call,
and of the work queue thread. The client owes nothing.
*SD sync*: `StoppableSpec` assumes only that the isolate runs its microtasks.
`FairSpec` adds that retry times come and uploads are begun (timers, loop), and
strong fairness that a file asked about again and again is answered in the end.
This includes the live file: `_loop` drains the live file first and an exception
there skips the closed files (`wr_sd_sync.dart:607-613`), so a live file that can
never be read starves the backlog in spite of the comment "neither starves"
at lines 603-604.
*Recorder*: timers are periodic, the work queue runs what is submitted (strong
fairness of `Fifo`, since rotations come and go on the same queue), a rename
does not fail for ever.

*Storage client* (`FairSpec`): the device takes what is written to it, and may be
silent otherwise; what is in the air arrives; time-outs come. For the watchdog of
a window, which each notification starts anew, this is so because a transfer
comes to its END or ERROR, which the window takes for its own, or falls silent
for longer than the watchdog waits. The sync's loop goes on (strong fairness, as
room for its commands comes and goes), and so does an operation in the queue.
*Board* (`FairSpec`): the LED timer is periodic and the work queue runs what it is
given; a sample, and the notification of a level over a link that stays, succeed
in the end if they are tried again and again.

### What the violations say

1. *END after an error* (`wr_storage_service.c:388`). Both handlers leave their
   loop on a failed read or notification and then send END.
2. *Checkpoint in two preferences* (`wr_sd_sync.dart:311-312`). Offset and chunk
   number belong together and are saved apart.
3. *`stop()` does not wait for the loop* (`:228`, `:436`). The loop awaits a
   window; `stop()` begins to write what is pending as a last chunk; the window
   arrives, its bytes are added to `_pending` and counted by `_offset`; the flush of `stop()`
   ends and sets `_pending` to what is left of the bytes it began with. The new bytes are
   gone, and the loop saves the offset that counts them. (On a longer path both flush
   the same bytes into the same part file, one deletes the chunk the other has
   renamed, and its own rename fails, `:361-362`.)
4. *Active file in two places* (`wr_chunk.c:42`). Patch 0038 moved the writer;
   rotation, size check, listing and FIFO stayed in `/SD:/audio`.
5. *END without a request id* (`wr_storage_client.dart:373`). The sync gives up a
   window of a closed file after 15 s of silence and asks for the next file on
   the same session, without ABORT (`wr_sd_sync.dart:844-857`). The END that was
   late ends the new window: no bytes, size 0, and lines 864-869 flag that file
   done. With the storage page open the same happens between the two sessions;
   `fetchFileToFile` then takes a part of a recording for all of it.

More were met and have no run of their own: a LIST or FETCH during a transfer
puts ERROR, "file not found or I/O error" (`wr_storage_service.c:10`), on the
stream of that healthy transfer (`:422`), and the phone gives it up; a console
line longer than 15 characters is not discarded up to its end, as
`wr_boot_cmd.c:71-72` says, but starts over in its middle, so that 16 other
characters and "boot" do reboot, and a line of "boot", a zero and anything that fits
does so too, though it is not the "literal 4-byte string" of lines 4-5; a crash during the overwrite
in place of the pending file loses its bytes (`wr_sd_sync.dart:327`); the forced
flush of `stop()` cuts inside a frame, so that the chunks of that file are no
longer the deterministic ones; a name that is reused and closed before the next
status is flagged done with the bytes of the older recording; a new recording
under a reused name that has outgrown the cursor before the next status is not recognised
(`:705` asks only whether the file is smaller), so that its first bytes are never fetched and
the rest is glued to the chunks of the old one; a death inside
`_resetStateForReusedName` leaves the pending file of the old recording (`:299-303`),
whose bytes then begin the first chunk of the new one.

## 4. The proofs

`WrStorageServiceProofs` holds for every directory, set of files, file length and
generation bound allowed by `ServiceAssumption`. The invariants the run checks
are not inductive: whether a handler may act depends on its generation, which was
snapshot in the past. `IInv` adds

* `HasSubscriber` - a busy service has a subscriber;
* `NotFromFuture` - a handler's generation is not above the service's;
* `ServesCurrent` - a handler whose generation is the current one serves the
  kind of transfer that is open;
* `NameIsWanted` - during a FETCH the stored name is the one asked for;
* `StaleIsSpent` - once the stale notification has arrived, no handler of an
  older generation can send another;
* `AnsweredAtFinish` - a current handler that is about to finish has answered.

`InitIInv` and `NextIInv` (one lemma per thread, one case per action) give
`Invariance`; from it follow `TypeCorrect`, `StaleBounded` (`AtMostOneStale`),
`RequestedFileServed` (`SendsRequestedFile`) and `ClosedWhenAnswered`
(`ClosedOnlyWhenAnswered`). `EndAfterAll` (`EndMeansComplete`) rests on a second
invariant, `CInv`, proved relative to `IInv`: it says for each position of the
handler of the current transfer what the client already has while nothing went
wrong (`Progress`), that a transfer no handler serves yet has sent nothing
(`Untouched`), and that one whose handler is not about to return is unanswered
(`Unanswered`); `IInv` is needed there to know that the handler reads the file
that was asked for. `Refinement` shows that the service implements
`WrTransfer` (`ImplementsTransfer`): each action maps to a step of it or to a
stutter, again per thread.

`WrBoardProofs` holds for every set of samples within 16 bits, every sampling
interval and every buffer of more than five characters. `PctInRange` and
`PctIsMonotone` are about the conversion alone, with `RawToMvFits` for the width
of its intermediate results. `PatternIsToldThm` (`PatternIsTold`)
follows from `NoneLookAlike`: a pattern shows all of its colours wherever in its
cycle one begins to look (`ShowsAll`) and no others, and the two pairs that have
the same colours differ in rhythm (`Blinks`, `Flashes`).
`BootCommandIsExactThm` (`BootCommandIsExact`) rests on the invariant `BufferHoldsLine`: as long as what was typed since the last line
break fits, the buffer holds all of it, and whatever the buffer spells of the word was
typed since then (`TypedKeepsUp`); without it nothing relates the code's
index to the line, since a long line sets the index back. `TypeOKThm` (`TypeOK`)
needs that invariant for the index and `PctInRange` for the gauge.

`WrRecorderProofs` holds for every card, limit, number of attempts, width of the
numbers in a name and set of recordings the card has at first, within
`RecorderAssumption` (those are named by a boot or by the first firmware, and no
block is in two of them). `TInv` is `TypeOK` with what makes it inductive: which
locals a rotation has at each of its steps, that only recorded blocks are
anywhere, and that the phone gave the time after the boot; it gives
`RecorderTypes` (`TypeOK`).

* `BlocksKeptOnce` (`KeptOnce`) assumes `[]NamesLeft`: a rotation that has
  something to rotate has attempts left. Without it the statement is false, since
  after `MaxAttempts` taken names `fs_rename` replaces the last of them
  (`wr_chunk.c:116`, `:147`). `Once` says the same of a block as `KeptOnce` by the sets
  `Active` and `Chunk`, and `NameIsFree` carries what the look-up found across
  the wait for the mutex. In the run `recorder` `NamesLeft` always holds.
* `PrunedInOrder` (`EpochPrunedInOrder`) assumes `[]NoWrap`: the clock fits ten
  digits. The names of recordings follow the time only because a collision, which
  moves the phone's time on (`wr_chunk_advance_collision`), does so at most once
  before the next reading of the clock: `ClockInv` says that the base is ahead by
  0 or 1 seconds and when it is which, `OrderInv` that no recording is named after
  the future, that names and first blocks have one order, and that the active
  file comes after all of them.

`WrStorageClientProofs` holds for every device, set of offsets, window and length
of the queues. `ClientTypes` (`TypeOK`) needs the types of what is on the link,
and that a listing has no more entries than were asked for, else the pass that
follows would be over files that are none.

`AnswersWhenAlone` (`AnsweredWhenAlone`) rests on a second invariant, `AloneInv`.
The property speaks of one moment, when an answer ends; the invariant says what is
on the way at every other one. Its parts:

* `OneTurn` - of each session at most one request to turn the notifications on or
  off, or the answer to one, is under way, and none unless the session opens or
  closes. So what a session finds on the link when it opens is its own, however
  often the sessions before it opened and closed.
* `AsksSync`, `AsksPage` - what each caller may ask for at its step. The status
  is never asked for by the page, which therefore never meets an answer to a request
  that was given up and left the session alone.
* `AloneShut`, `AloneUsed` - while no other session gets in the way of `s`, the
  pipe from `s` to the device and back (`commands`, `transfer`, `air`) holds nothing;
  or one request for the status or its answer; or the current request in one of three
  stages, `Written`, `Sending` and `Ended`, with what has been collected exactly what
  `Answer` sends up to a position m (`Heard`) and what is on the way the rest of it
  (`InAir`). The sync may have a late answer to a status request in front (`GaveUp`):
  a listing that meets it ignores a status and fails on an error, so that it never
  returns by it.

`WrSdSyncProofs` holds for every number, length and content of recordings, every
length of windows, passes and chunks, and every naming of chunks that gives no two
the same name (`SlotAssumption`). Its theorems assume `Checkpointed`: a process dies
at no await inside a checkpoint, `stop()` is not called and no name is given to a
second recording. The run `sync_crash` is such an instance. The first two
hypotheses are necessary, as `sync_crash_after_cut` and `sync_stop_loses` show: what
the comments of `_drainOnce` and `stop()` promise does not hold without them. So is
the third for `DoneMeansStored`: see the last lines of section 3.

* `Invariant` is `SyncInv`. Its core is one relation between a recording, a cursor
  (byte o, chunk k) and pending bytes (`Fits`): they are the bytes from where the
  k-th chunk begins to the o-th, and nothing is pending if that chunk begins further
  on; and the chunks before the k-th are in the outbox or on Drive (`Kept`). It holds of
  the cursor on flash at every moment (`Cursors`) except while the three parts of a checkpoint are
  saved, where `Checkpoint` says which of them are; and of the cursor in memory
  (`Memory`), with `Emission` for the chunk that is on its way through the part
  file. `Focus` says which file the memory is about, `Ending` that nothing of a
  closed file is left when it is flagged, `Boxes` that a slot of outbox or Drive holds
  nothing or the chunk of its name. None of the properties the run checks is
  inductive: that the next chunk is the right one, or that it is the same as the one
  it replaces, is known only if the pending bytes begin where that chunk does.
* Where the k-th chunk begins is `FrameStarts`, and what `_chunkBoundary` returns
  is `FrameEnd`, both recursive over the length bytes of the content.
  `FrameStartsFcn` proves that the first satisfies its recursive definition,
  and `Boundary`, by induction over frames, that the code's loop ends
  where the chunk does (`_chunkBoundary` never looks at a position that is not a
  length byte). The induction is that of `Recursion`, which takes
  the statement as a set and rests on the minimum of a well-founded order, since the
  library's theorem takes it as an operator.
* `TypeInvariant` (`TypeOK`), `SkipsNoByte` (`NoByteSkipped`),
  `ChunksAreDeterministic` (`DeterministicChunks`) and `DoneIsStored`
  (`DoneMeansStored`) follow from it.

Only model-checked: the liveness properties, which need fairness and ENABLED; the
prover does not handle them. Every invariant and every action property a passing run
checks is also a theorem, those of `WrSdSync` under `Checkpointed`, and two of
`WrRecorder` under the hypotheses named above.

## 5. What is not covered

* Real time: retry delays, the 20 ms waits of `wr_notify`, lengths of time-outs.
* Wrap-around of the 32-bit generation; read errors of the card during rotation
  (a failed `fs_stat` counts as "free"); corruption of the FAT by a reset.
* `sync_crash` leaves out the awaits inside a checkpoint: with them
  `NoByteSkipped` does fail, which is the subject of `sync_crash_after_cut` for the
  await between the two preferences. The one at which the pending file is
  truncated (`wr_sd_sync.dart:327`) is in no run.
* A reused name together with a death of the process or with a second file; and
  the sync with a session that reports a wrong size.
* The protocol the app's storage client speaks (FETCH with offset and length,
  STATUS, FILE_SIZE) is not the one of the service in this repository, although
  `wr_storage_client.dart:9` calls it its mirror; the phone's model therefore
  takes windows from an abstract device.
* Chunks with the same name: recordings that are not named after the clock count
  from the second the phone first saw them, and two of them could meet
  (`SlotAssumption` excludes it).
* `WrStorageSession.abort()`, which nothing calls (it would wait behind the
  operation it is to abort), and the loss of a notification on the link.
* The LED's pattern differs from `docs/wearable-recorder-spec.md:440-451` (the
  critical red blinks with 300 ms, not 500 ms; recording without a link is a green
  pulse, not a white heartbeat); the model follows the code.
* The sync schedule, the packet sink and the decoder: no shared state of their
  own, and tests that reach their cases.
* User interface, decoding, Drive's HTTP interface, board bring-up, tools.

## 6. What comes next

Modelled: the storage service, the sync, the recorder (rotation, FIFO, clock, USB
mode), the storage client, and the board. In this order, most important first:

1. Theorems: `NoByteSkipped` of `WrSdSync` when file names are reused.
2. Two instances of `WrSdSync` on one set of preferences: `device_page.dart` does
   not await the `stop()` of the sync it replaces.
3. `WrDriveUploader`: remembered ids and a time-out that does not cancel; the
   one-step upload of `WrSdSync` is what it is to implement, where it does.
4. Recorder and storage service together: a FETCH of a file the FIFO removes.
   What a read of a removed file returns is up to the file system.
5. The pusher's transmit queue, of which the patches show only a part.
