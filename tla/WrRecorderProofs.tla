--------------------------- MODULE WrRecorderProofs ---------------------------
(***************************************************************************)
(* Theorems about WrRecorder, for every card, limit, number of attempts,   *)
(* width of the numbers in a name and whatever is on the card at first:    *)
(* types; a rotation keeps every block of sound, as long as it finds a free*)
(* name; and of the recordings named after the clock the oldest goes first.*)
(***************************************************************************)
EXTENDS WrRecorder, FiniteSetTheorems, TLAPS

-------------------------------------------------------------------------------
(* Types *)

(* The parts of TypeOK, with what makes them inductive: only recorded       *)
(* blocks are anywhere; a rotation that builds or looks up a name has       *)
(* attempts left; the phone gave the time after the boot.                   *)
CardTypes ==
  /\ a01 \in [Dirs -> Seq(Nat)] /\ next \in Nat \ {0}
  /\ DOMAIN chunks \subseteq Names /\ \A n \in DOMAIN chunks : chunks[n] \in Seq(Nat)
  /\ \A d \in Dirs : Range(a01[d]) \subseteq 1..next - 1
  /\ \A n \in DOMAIN chunks : Range(chunks[n]) \subseteq 1..next - 1
  /\ gone \subseteq 1..next - 1
ModeTypes == mode \in {"recording", "msc"} /\ bootId \in BootIds /\ seq \in 0..SeqWidth - 1
QueueTypes ==
  /\ submitted \in BOOLEAN
  /\ \/ pc = "idle" /\ target = NoName /\ attempt = 0
     \/ pc = "build" /\ target \in Names \cup {NoName} /\ attempt \in 0..MaxAttempts - 1
     \/ pc = "stat" /\ target \in Names /\ attempt \in 0..MaxAttempts - 1
     \/ pc = "rename" /\ target \in Names /\ attempt \in 0..MaxAttempts
ClockTypes ==
  /\ now \in Nat /\ bootAt \in 0..now /\ boots \in Nat /\ syncs \in Nat
  /\ sync \in [secs : Nat, uptime : Nat, done : BOOLEAN]
  /\ sync.done => sync.uptime <= Uptime
TInv == CardTypes /\ ModeTypes /\ QueueTypes /\ ClockTypes

(* What the code's constants are.                                           *)
LEMMA Widths ==
  /\ MaxAttempts \in Nat \ {0} /\ SeqWidth \in Nat \ {0}
  /\ SeqModulus \in Nat \ {0} /\ EpochModulus \in Nat \ {0}
  /\ BootIds \subseteq Nat /\ NoName \notin Names /\ WriterPath \in Dirs
  BY RecorderAssumption

(* What a number shows fits its digits.                                     *)
LEMMA ModRange == \A a \in Nat, b \in Nat \ {0} : a % b \in 0..b - 1
  OBVIOUS

(* Appending adds one block.                                                *)
LEMMA RangeAppend ==
  ASSUME NEW S, NEW s \in Seq(S), NEW e \in S
  PROVE  Range(Append(s, e)) = Range(s) \cup {e}
  <1>1. DOMAIN Append(s, e) = DOMAIN s \cup {Len(s) + 1}
    OBVIOUS
  <1>2. \A i \in DOMAIN s : Append(s, e)[i] = s[i]
    OBVIOUS
  <1>3. Append(s, e)[Len(s) + 1] = e
    OBVIOUS
  <1> QED
    BY <1>1, <1>2, <1>3 DEF Range

(* The names a rotation gives are names.                                    *)
LEMMA NamesTypes ==
  /\ \A secs \in Nat : EpochName(secs) \in Names
  /\ \A s \in Nat, id \in BootIds : UnsyncedName(id, s) \in Names
  BY Widths, ModRange DEF EpochName, UnsyncedName, Names

(* A sequence number keeps its width.                                       *)
LEMMA SeqTypes == seq \in Nat => NextSeq \in 0..SeqWidth - 1
  <1> SUFFICES ASSUME seq \in Nat PROVE (seq + 1) % SeqWidth \in 0..SeqWidth - 1
    BY DEF NextSeq
  <1>1. seq + 1 \in Nat
    OBVIOUS
  <1> QED
    BY <1>1, Widths, ModRange

(* A device that boots.                                                     *)
LEMMA BootTypes ==
  /\ <<>> \in Seq(Nat) /\ Range(<<>>) = {} /\ 0 \in 0..SeqWidth - 1
  /\ NotSynced \in [secs : Nat, uptime : Nat, done : BOOLEAN] /\ ~NotSynced.done
  /\ \A high : ModeAfter(high) \in {"recording", "msc"}
  BY Widths DEF Range, NotSynced, ModeAfter

(* What the device starts with.                                             *)
LEMMA InitTInv == Init => TInv
  <1> SUFFICES ASSUME Init PROVE TInv
    OBVIOUS
  <1>1. Cardinality(EarlierBlocks) \in Nat
    BY RecorderAssumption, FS_CardinalityType
  <1>2. EarlierBlocks = 1..next - 1 /\ next \in Nat \ {0}
    BY <1>1, RecorderAssumption DEF Init
  <1>3. DOMAIN chunks \subseteq Names /\ \A n \in DOMAIN chunks : chunks[n] \in Seq(Nat)
    BY RecorderAssumption DEF Init
  <1>4. \A n \in DOMAIN chunks : Range(chunks[n]) \subseteq EarlierBlocks
    BY DEF Init, EarlierBlocks
  <1>5. a01 \in [Dirs -> Seq(Nat)] /\ \A d \in Dirs : Range(a01[d]) = {}
    BY BootTypes DEF Init
  <1>6. CardTypes
    BY <1>2, <1>3, <1>4, <1>5 DEF Init, CardTypes
  <1>7. ModeTypes
    BY BootTypes DEF Init, ModeTypes
  <1>8. QueueTypes
    BY DEF Init, QueueTypes
  <1>9. ClockTypes
    BY BootTypes DEF Init, ClockTypes
  <1> QED
    BY <1>6, <1>7, <1>8, <1>9 DEF TInv

(* A recording goes.                                                        *)
LEMMA DropChunks ==
  ASSUME NEW n \in DOMAIN chunks, Drop(n)
  PROVE  /\ DOMAIN chunks' = DOMAIN chunks \ {n}
         /\ \A m \in DOMAIN chunks' : chunks'[m] = chunks[m]
         /\ gone' = gone \cup Range(chunks[n])
  BY DEF Drop, Restrict

LEMMA DropTypes ==
  ASSUME CardTypes, NEW n \in DOMAIN chunks, Drop(n), UNCHANGED <<a01, next>>
  PROVE  CardTypes'
  BY DropChunks DEF CardTypes

(* Every step keeps the types of the card.                                  *)
LEMMA NextCard == TInv /\ [Next]_vars => CardTypes'
  <1> SUFFICES ASSUME TInv, [Next]_vars PROVE CardTypes'
    OBVIOUS
  <1>0. CardTypes
    BY DEF TInv
  <1>1. CASE Write
    <2>1. a01[WriterPath] \in Seq(Nat) /\ next \in Nat
      BY <1>0, Widths DEF CardTypes
    <2>2. Append(a01[WriterPath], next) \in Seq(Nat)
      BY <2>1
    <2>3. Range(Append(a01[WriterPath], next)) = Range(a01[WriterPath]) \cup {next}
      BY <2>1, RangeAppend
    <2>4. /\ a01' \in [Dirs -> Seq(Nat)]
          /\ \A d \in Dirs : Range(a01'[d]) \subseteq Range(a01[d]) \cup {next}
          /\ next' = next + 1 /\ UNCHANGED <<chunks, gone>>
      BY <1>0, <1>1, <2>2, <2>3, Widths DEF Write, CardTypes
    <2>5. next' \in Nat \ {0} /\ 1..next - 1 \subseteq 1..next' - 1
      BY <2>1, <2>4
    <2>6. next \in 1..next' - 1
      BY <1>0, <2>1, <2>4 DEF CardTypes
    <2> QED
      BY <1>0, <2>4, <2>5, <2>6 DEF CardTypes
  <1>2. CASE RenameOk
    <2>1. target \in Names /\ "audio" \in Dirs
      BY <1>2 DEF RenameOk, TInv, QueueTypes, Dirs
    <2>2. /\ DOMAIN chunks' = DOMAIN chunks \cup {target}
          /\ \A n \in DOMAIN chunks' :
               chunks'[n] = IF n = target THEN a01["audio"] ELSE chunks[n]
      BY <1>2 DEF RenameOk
    <2>3. /\ a01' \in [Dirs -> Seq(Nat)]
          /\ \A d \in Dirs : a01'[d] = IF d = "audio" THEN <<>> ELSE a01[d]
      BY <1>0, <1>2, <2>1, BootTypes DEF RenameOk, CardTypes
    <2>4. \A d \in Dirs : Range(a01'[d]) \subseteq 1..next - 1
      BY <1>0, <2>3, BootTypes DEF CardTypes
    <2>5. \A n \in DOMAIN chunks' : Range(chunks'[n]) \subseteq 1..next - 1
      BY <1>0, <2>1, <2>2 DEF CardTypes
    <2>6. UNCHANGED <<gone, next>>
      BY <1>2 DEF RenameOk
    <2> QED
      BY <1>0, <2>1, <2>2, <2>3, <2>4, <2>5, <2>6 DEF CardTypes
  <1>3. CASE Fifo
    BY <1>0, <1>3, DropTypes DEF Fifo, Candidates
  <1>4. CASE HostRemoves
    <2>1. ASSUME NEW n \in DOMAIN chunks, Drop(n), UNCHANGED a01
          PROVE  CardTypes'
      BY <1>0, <1>4, <2>1, DropTypes DEF HostRemoves
    <2>2. ASSUME NEW d \in Dirs, a01' = [a01 EXCEPT ![d] = <<>>],
                 gone' = gone \cup Range(a01[d]), UNCHANGED chunks
          PROVE  CardTypes'
      <3>1. /\ a01' \in [Dirs -> Seq(Nat)]
            /\ \A e \in Dirs : Range(a01'[e]) \subseteq Range(a01[e])
        BY <1>0, <2>2, BootTypes DEF CardTypes
      <3>2. gone' \subseteq 1..next - 1 /\ next' = next
        BY <1>0, <1>4, <2>2 DEF CardTypes, HostRemoves
      <3> QED
        BY <1>0, <2>2, <3>1, <3>2 DEF CardTypes
    <2> QED
      BY <1>4, <2>1, <2>2 DEF HostRemoves
  <1>5. CASE UNCHANGED card
    BY <1>0, <1>5 DEF card, CardTypes
  <1> QED
    BY <1>1, <1>2, <1>3, <1>4, <1>5
    DEF Next, WorkQueue, vars, SetSyncTime, TimerRotate, SizeCheck, TakeRotate,
        BuildTarget, Stat, RenameSkips, RenameFails, Reboot

(* Every step keeps those of the mode, the boot number and the sequence.    *)
LEMMA NextMode == TInv /\ [Next]_vars => ModeTypes'
  <1> SUFFICES ASSUME TInv, [Next]_vars PROVE ModeTypes'
    OBVIOUS
  <1>0. ModeTypes /\ NextSeq \in 0..SeqWidth - 1
    BY SeqTypes DEF TInv, ModeTypes
  <1>1. CASE Reboot
    BY <1>1, BootTypes DEF Reboot, ModeTypes
  <1>2. CASE UNCHANGED <<mode, bootId>> /\ seq' \in {seq, NextSeq}
    BY <1>0, <1>2 DEF ModeTypes
  <1> QED
    BY <1>1, <1>2
    DEF Next, WorkQueue, vars, Write, SetSyncTime, TimerRotate, SizeCheck, TakeRotate,
        BuildTarget, Stat, RenameSkips, RenameFails, RenameOk, Fifo, HostRemoves

(* Every step keeps those of the work queue.                                *)
LEMMA NextQueue == TInv /\ [Next]_vars => QueueTypes'
  <1> SUFFICES ASSUME TInv, [Next]_vars PROVE QueueTypes'
    OBVIOUS
  <1>0. QueueTypes
    BY DEF TInv
  <1>1. CASE UNCHANGED <<pc, target, attempt>> /\ submitted' \in {submitted, TRUE}
    BY <1>0, <1>1 DEF QueueTypes
  <1>2. CASE TakeRotate
    <2>1. target = NoName /\ attempt = 0 /\ UNCHANGED <<target, attempt>>
      BY <1>0, <1>2 DEF TakeRotate, QueueTypes
    <2>2. submitted' = FALSE /\ pc' \in {"build", "idle"}
      BY <1>2 DEF TakeRotate
    <2>3. 0 \in 0..MaxAttempts - 1
      BY Widths
    <2> QED
      BY <2>1, <2>2, <2>3 DEF QueueTypes
  <1>3. CASE BuildTarget
    <2>1. sync.done => sync.secs + Elapsed \in Nat
      BY DEF TInv, ClockTypes, Elapsed, Uptime
    <2>2. seq \in Nat /\ bootId \in BootIds
      BY DEF TInv, ModeTypes
    <2>3. target' \in Names
      BY <1>3, <2>1, <2>2, NamesTypes DEF BuildTarget
    <2>4. pc = "build" /\ pc' = "stat" /\ UNCHANGED <<submitted, attempt>>
      BY <1>3 DEF BuildTarget
    <2> QED
      BY <1>0, <2>3, <2>4 DEF QueueTypes
  <1>4. CASE Stat
    <2>1. /\ attempt \in 0..MaxAttempts - 1 /\ target \in Names
          /\ UNCHANGED <<target, submitted>>
      BY <1>0, <1>4 DEF Stat, QueueTypes
    <2>2. \/ attempt' = attempt + 1 /\ pc' = IF attempt' = MaxAttempts THEN "rename" ELSE "build"
          \/ attempt' = attempt /\ pc' = "rename"
      BY <1>4 DEF Stat
    <2>3. MaxAttempts \in Nat
      BY Widths
    <2>4. \/ pc' = "rename" /\ attempt' \in 0..MaxAttempts
          \/ pc' = "build" /\ attempt' \in 0..MaxAttempts - 1
      BY <2>1, <2>2, <2>3
    <2> QED
      BY <1>0, <2>1, <2>4 DEF QueueTypes
  <1>5. CASE Return /\ UNCHANGED submitted
    BY <1>0, <1>5 DEF Return, QueueTypes
  <1>6. CASE Reboot
    BY <1>6 DEF Reboot, QueueTypes
  <1> QED
    BY <1>1, <1>2, <1>3, <1>4, <1>5, <1>6
    DEF Next, WorkQueue, vars, queue, Write, SetSyncTime, TimerRotate, SizeCheck,
        RenameSkips, RenameFails, RenameOk, Fifo, HostRemoves

(* Every step keeps those of the clock: seconds only go up between reboots. *)
LEMMA NextClock == TInv /\ [Next]_vars => ClockTypes'
  <1> SUFFICES ASSUME TInv, [Next]_vars PROVE ClockTypes'
    OBVIOUS
  <1>0. ClockTypes /\ Uptime \in Nat
    BY DEF TInv, ClockTypes, Uptime
  <1>1. CASE UNCHANGED <<clock, sync>>
    BY <1>0, <1>1 DEF clock, ClockTypes, Uptime
  <1>2. CASE SetSyncTime
    BY <1>0, <1>2 DEF SetSyncTime, ClockTypes, Uptime
  <1>3. CASE Stat
    <2>1. sync' = [sync EXCEPT !.secs = sync'.secs] /\ sync'.secs \in {sync.secs, sync.secs + 1}
      BY <1>0, <1>3 DEF Stat, ClockTypes
    <2>2. UNCHANGED clock
      BY <1>3 DEF Stat
    <2> QED
      BY <1>0, <2>1, <2>2 DEF clock, ClockTypes, Uptime
  <1>4. CASE RenameOk
    <2>1. now' = now + 1 /\ UNCHANGED <<sync, bootAt, boots, syncs>>
      BY <1>4 DEF RenameOk
    <2> QED
      BY <1>0, <2>1 DEF ClockTypes, Uptime
  <1>5. CASE Reboot
    <2>1. /\ sync' = NotSynced /\ boots' = boots + 1 /\ bootAt' = now
          /\ UNCHANGED <<now, syncs>>
      BY <1>5 DEF Reboot
    <2> QED
      BY <1>0, <2>1, BootTypes DEF ClockTypes
  <1> QED
    BY <1>1, <1>2, <1>3, <1>4, <1>5
    DEF Next, WorkQueue, vars, Write, TimerRotate, SizeCheck, TakeRotate, BuildTarget,
        RenameSkips, RenameFails, Fifo, HostRemoves

(* The invariant the other theorems rest on.                                *)
LEMMA RecorderInvariance == Spec => []TInv
  <1>1. TInv /\ [Next]_vars => TInv'
    BY NextCard, NextMode, NextQueue, NextClock DEF TInv
  <1> QED
    BY <1>1, InitTInv, PTL DEF Spec

(* Every variable keeps its type: a name shows at most the digits it has    *)
(* (wr_chunk_name_unsynced), a rotation gives up after MaxAttempts names,   *)
(* the clock of the phone never runs behind its own base.                   *)
THEOREM RecorderTypes == Spec => []TypeOK
  <1>1. TInv => TypeOK
    <2> SUFFICES ASSUME TInv PROVE TypeOK
      OBVIOUS
    <2>1. next \in Nat /\ gone \subseteq Nat
      BY DEF TInv, CardTypes
    <2>2. /\ a01 \in [Dirs -> Seq(Blocks)] /\ DOMAIN chunks \subseteq Names
          /\ \A n \in DOMAIN chunks : chunks[n] \in Seq(Blocks)
      BY DEF TInv, CardTypes, Blocks
    <2>3. /\ pc \in {"idle", "build", "stat", "rename"}
          /\ target \in Names \cup {NoName} /\ attempt \in 0..MaxAttempts
          /\ pc \in {"stat", "rename"} => target # NoName
          /\ pc = "idle" => target = NoName
      BY Widths DEF TInv, QueueTypes
    <2> QED
      BY <2>1, <2>2, <2>3 DEF TInv, ModeTypes, QueueTypes, ClockTypes, TypeOK, Blocks
  <1> QED
    BY <1>1, RecorderInvariance, PTL
-------------------------------------------------------------------------------
(* Every block is kept once                                                *)

(* Where a block is: in active files, in recordings, or removed.            *)
Active(b) == {d \in Dirs : b \in Range(a01[d])}
Chunk(b) == {n \in DOMAIN chunks : b \in Range(chunks[n])}
Once(b) ==
  \/ (\E d \in Dirs : Active(b) = {d}) /\ Chunk(b) = {} /\ b \notin gone
  \/ Active(b) = {} /\ (\E n \in Names : Chunk(b) = {n}) /\ b \notin gone
  \/ Active(b) = {} /\ Chunk(b) = {} /\ b \in gone

(* A rotation with attempts left has found a name that is free.             *)
NameIsFree == (pc = "rename" /\ attempt < MaxAttempts) => target \notin DOMAIN chunks
KInv == NameIsFree /\ \A b \in 1..next - 1 : Once(b)

(* What a rotation that has something to rotate needs of the card, and a    *)
(* card with 1000 taken names of the same second or number denies it        *)
(* (WR_CHUNK_MAX_ATTEMPTS).                                                 *)
NamesLeft == (pc = "rename" /\ ShouldRotate) => attempt < MaxAttempts

(* The two ways to say that a block is in one place.                        *)
LEMMA OnceIsOnePlace ==
  ASSUME NEW b, Once(b)
  PROVE  \E p \in Places(b) : Places(b) = {p}
  <1>1. Places(b) = {<<"active", d>> : d \in Active(b)} \cup {<<"chunk", n>> : n \in Chunk(b)}
                      \cup {<<"gone", p>> : p \in {q \in {0} : b \in gone}}
    BY DEF Places, Active, Chunk
  <1>2. CASE (\E d \in Dirs : Active(b) = {d}) /\ Chunk(b) = {} /\ b \notin gone
    <2>1. PICK d \in Dirs : Active(b) = {d}
      BY <1>2
    <2>2. Places(b) = {<<"active", d>>}
      BY <1>1, <1>2, <2>1
    <2> QED
      BY <2>2
  <1>3. CASE Active(b) = {} /\ (\E n \in Names : Chunk(b) = {n}) /\ b \notin gone
    <2>1. PICK n \in Names : Chunk(b) = {n}
      BY <1>3
    <2>2. Places(b) = {<<"chunk", n>>}
      BY <1>1, <1>3, <2>1
    <2> QED
      BY <2>2
  <1>4. CASE Active(b) = {} /\ Chunk(b) = {} /\ b \in gone
    <2>1. Places(b) = {<<"gone", 0>>}
      BY <1>1, <1>4
    <2> QED
      BY <2>1
  <1> QED
    BY <1>2, <1>3, <1>4 DEF Once

(* What is on the card at first is in recordings.                           *)
LEMMA InitKInv == Init => KInv
  <1> SUFFICES ASSUME Init PROVE KInv
    OBVIOUS
  <1>1. Cardinality(EarlierBlocks) \in Nat /\ EarlierBlocks = 1..next - 1
    BY RecorderAssumption, FS_CardinalityType DEF Init
  <1>2. ASSUME NEW b \in EarlierBlocks PROVE Once(b)
    <2>1. PICK n \in DOMAIN Earlier : b \in Range(Earlier[n])
      BY DEF EarlierBlocks
    <2>2. n \in Names /\ \A m \in DOMAIN Earlier : m # n => b \notin Range(Earlier[m])
      BY <2>1, RecorderAssumption
    <2>3. Chunk(b) = {n}
      BY <2>1, <2>2 DEF Init, Chunk
    <2>4. Active(b) = {} /\ b \notin gone
      BY BootTypes DEF Init, Active
    <2> QED
      BY <2>2, <2>3, <2>4 DEF Once
  <1>3. NameIsFree
    BY DEF Init, NameIsFree
  <1> QED
    BY <1>1, <1>2, <1>3 DEF KInv

(* A recording, or an active file, that is removed.                         *)
LEMMA DropOnce ==
  ASSUME NEW b, Once(b), NEW n \in DOMAIN chunks, Drop(n), UNCHANGED a01
  PROVE  Once(b)'
  <1>1. Active(b)' = Active(b)
    BY DEF Active
  <1>2. Chunk(b)' = Chunk(b) \ {n}
    <2>1. \A m : m \in DOMAIN chunks' <=> m \in DOMAIN chunks /\ m # n
      BY DropChunks
    <2>2. \A m \in DOMAIN chunks' : Range(chunks'[m]) = Range(chunks[m])
      BY DropChunks
    <2> QED
      BY <2>1, <2>2 DEF Chunk
  <1>3. (b \in gone') <=> (b \in gone \/ n \in Chunk(b))
    BY DropChunks DEF Chunk
  <1> QED
    BY <1>1, <1>2, <1>3 DEF Once

LEMMA RemoveOnce ==
  ASSUME CardTypes, NEW b, Once(b), NEW d \in Dirs, a01' = [a01 EXCEPT ![d] = <<>>],
         gone' = gone \cup Range(a01[d]), UNCHANGED chunks
  PROVE  Once(b)'
  <1>1. /\ Active(b)' = Active(b) \ {d}
        /\ Chunk(b)' = Chunk(b)
        /\ (b \in gone') <=> (b \in gone \/ d \in Active(b))
    BY BootTypes DEF CardTypes, Active, Chunk
  <1> QED
    BY <1>1 DEF Once

(* Every step keeps each block, as long as rotations find a free name.      *)
LEMMA NextKInv == TInv /\ KInv /\ NamesLeft /\ [Next]_vars => KInv'
  <1> SUFFICES ASSUME TInv, KInv, NamesLeft, [Next]_vars PROVE KInv'
    OBVIOUS
  <1>0. CardTypes /\ QueueTypes
    BY DEF TInv
  <1>1. CASE Write
    <2>1. next \in Nat /\ next' = next + 1 /\ a01[WriterPath] \in Seq(Nat)
      BY <1>0, <1>1, Widths DEF Write, CardTypes
    <2>2. \A d \in Dirs : Range(a01'[d]) = IF d = WriterPath THEN Range(a01[d]) \cup {next}
                                                             ELSE Range(a01[d])
      <3>1. Range(Append(a01[WriterPath], next)) = Range(a01[WriterPath]) \cup {next}
        BY <2>1, RangeAppend
      <3> QED
        BY <1>0, <1>1, <3>1 DEF Write, CardTypes
    <2>3. UNCHANGED <<chunks, gone, pc, target, attempt>>
      BY <1>1 DEF Write, queue
    <2>4. ASSUME NEW b \in 1..next - 1 PROVE Once(b)'
      <3>1. b # next
        BY <2>1
      <3>2. Active(b)' = Active(b) /\ Chunk(b)' = Chunk(b)
        BY <2>2, <2>3, <3>1 DEF Active, Chunk
      <3> QED
        BY <2>3, <3>2 DEF KInv, Once
    <2>5. \A b : b = next => Once(b)'
      <3>1. next \notin 1..next - 1
        BY <2>1
      <3>2. next \notin gone /\ Chunk(next) = {} /\ Active(next) = {}
        BY <1>0, <3>1 DEF CardTypes, Active, Chunk
      <3>3. \A b : b = next => Active(b)' = {WriterPath} /\ Chunk(b)' = {}
        BY <2>2, <2>3, <3>2, Widths DEF Active, Chunk
      <3> QED
        BY <2>3, <3>2, <3>3, Widths DEF Once
    <2>6. \A b \in 1..next' - 1 : b = next \/ b \in 1..next - 1
      BY <2>1
    <2>7. NameIsFree'
      BY <2>3 DEF KInv, NameIsFree
    <2> QED
      BY <2>4, <2>5, <2>6, <2>7 DEF KInv
  <1>2. CASE RenameOk
    <2>1. target \in Names /\ target \notin DOMAIN chunks /\ "audio" \in Dirs
      BY <1>0, <1>2 DEF RenameOk, QueueTypes, KInv, NameIsFree, NamesLeft, Dirs
    <2>2. /\ DOMAIN chunks' = DOMAIN chunks \cup {target}
          /\ \A n \in DOMAIN chunks' :
               chunks'[n] = IF n = target THEN a01["audio"] ELSE chunks[n]
          /\ \A d \in Dirs : a01'[d] = IF d = "audio" THEN <<>> ELSE a01[d]
          /\ UNCHANGED <<gone, next>> /\ pc' = "idle"
      BY <1>0, <1>2 DEF RenameOk, Return, CardTypes
    <2>3. ASSUME NEW b \in 1..next - 1 PROVE Once(b)'
      <3>1. Active(b)' = Active(b) \ {"audio"}
        BY <2>2, BootTypes DEF Active
      <3>2. Chunk(b)' = IF "audio" \in Active(b) THEN Chunk(b) \cup {target} ELSE Chunk(b)
        BY <2>1, <2>2 DEF Active, Chunk
      <3>3. Once(b)
        BY DEF KInv
      <3> QED
        BY <2>1, <2>2, <3>1, <3>2, <3>3 DEF Once
    <2> QED
      BY <2>2, <2>3 DEF KInv, NameIsFree
  <1>3. CASE Fifo
    <2>1. PICK n \in DOMAIN chunks : Drop(n)
      BY <1>3 DEF Fifo, Candidates
    <2>2. UNCHANGED <<a01, next>> /\ pc' = "idle"
      BY <1>3 DEF Fifo, queue
    <2> QED
      BY <2>1, <2>2, DropOnce DEF KInv, NameIsFree
  <1>4. CASE HostRemoves
    <2>1. UNCHANGED <<next, pc, target, attempt>>
      BY <1>4 DEF HostRemoves, queue
    <2>2. ASSUME NEW n \in DOMAIN chunks, Drop(n), UNCHANGED a01
          PROVE  KInv'
      BY <2>1, <2>2, DropOnce, DropChunks DEF KInv, NameIsFree
    <2>3. ASSUME NEW d \in Dirs, a01' = [a01 EXCEPT ![d] = <<>>],
                 gone' = gone \cup Range(a01[d]), UNCHANGED chunks
          PROVE  KInv'
      BY <1>0, <2>1, <2>3, RemoveOnce DEF KInv, NameIsFree
    <2> QED
      BY <1>4, <2>2, <2>3 DEF HostRemoves
  <1>5. CASE Stat
    <2>1. /\ UNCHANGED <<card, target>>
          /\ \/ target \in DOMAIN chunks /\ attempt' = attempt + 1
                /\ pc' = IF attempt' = MaxAttempts THEN "rename" ELSE "build"
             \/ target \notin DOMAIN chunks
      BY <1>5 DEF Stat, Collides
    <2>2. NameIsFree'
      BY <2>1, Widths DEF card, NameIsFree
    <2> QED
      BY <2>1, <2>2 DEF card, KInv, Once, Active, Chunk
  <1>6. CASE UNCHANGED card /\ (pc' # "rename" \/ UNCHANGED <<pc, target, attempt>>)
    BY <1>6 DEF card, KInv, NameIsFree, Once, Active, Chunk
  <1> QED
    BY <1>1, <1>2, <1>3, <1>4, <1>5, <1>6
    DEF Next, WorkQueue, vars, queue, SetSyncTime, TimerRotate, SizeCheck, TakeRotate,
        BuildTarget, RenameSkips, RenameFails, Return, Reboot

(* A block of sound is never lost and never stored twice, whatever the      *)
(* pusher, the phone's clock, a host and resets do between the steps of a   *)
(* rotation (wr_chunk_rotate), unless a rotation runs out of names.         *)
THEOREM BlocksKeptOnce == Spec /\ []NamesLeft => []KeptOnce
  <1>1. TInv /\ KInv /\ NamesLeft /\ [Next]_vars => KInv'
    BY NextKInv
  <1>2. KInv => KeptOnce
    BY OnceIsOnePlace DEF KInv, KeptOnce
  <1> QED
    BY <1>1, <1>2, InitKInv, RecorderInvariance, PTL DEF Spec

-------------------------------------------------------------------------------
(* The oldest recording goes first                                         *)

(* The clock shows no more than the digits of a name (until 2286).          *)
NoWrap == now + 1 < EpochModulus

(* A name that is taken moves the phone's time on by a second               *)
(* (wr_chunk_advance_collision), so the base may run ahead, but never by    *)
(* more: no name is later than the present, and one look-up passes it.      *)
Drift == sync.secs - (bootAt + sync.uptime)
DriftOk == sync.done => Drift \in {0, 1}
TargetOk == (pc \in {"stat", "rename"} /\ IsEpoch(target)) => target[2] \in {now, now + 1}
StatOk ==
  (pc = "stat" /\ sync.done /\ (IsEpoch(target) => target[2] = now)) => Drift = 0
ClockInv == DriftOk /\ TargetOk /\ StatOk

(* Recordings named after the clock are as old as their names say.          *)
Epochs == {n \in DOMAIN chunks : IsEpoch(n)}
NamesPast == \A n \in Epochs : n[2] <= now
Filled == \A n \in Epochs : chunks[n] # <<>>
Ordered == \A n, m \in Epochs : n[2] < m[2] => chunks[n][1] < chunks[m][1]
ActiveLater == a01["audio"] # <<>> => \A n \in Epochs : chunks[n][1] < a01["audio"][1]
OrderInv == NamesPast /\ Filled /\ Ordered /\ ActiveLater

(* A name after the clock is its second and nothing else.                   *)
LEMMA EpochNames ==
  /\ \A n \in Names : IsEpoch(n) => n = <<EPOCH, n[2], 0>> /\ n[2] \in Nat
  /\ \A id, s : ~IsEpoch(UnsyncedName(id, s))
  /\ \A secs \in Nat : secs < EpochModulus =>
       EpochName(secs)[2] = secs /\ IsEpoch(EpochName(secs))
  <1>1. \A n \in Names : IsEpoch(n) => n = <<EPOCH, n[2], 0>> /\ n[2] \in Nat
    BY Widths DEF Names, IsEpoch, Classify, EPOCH, UNSYNCED, LEGACY
  <1>2. \A id, s : ~IsEpoch(UnsyncedName(id, s))
    BY DEF UnsyncedName, IsEpoch, Classify, EPOCH, UNSYNCED
  <1>3. \A secs \in Nat : secs < EpochModulus => secs % EpochModulus = secs
    BY Widths
  <1> QED
    BY <1>1, <1>2, <1>3 DEF EpochName, IsEpoch, Classify

(* A device that starts has recordings of the clock of nobody.              *)
LEMMA InitOrder == Init => ClockInv /\ OrderInv
  <1> SUFFICES ASSUME Init PROVE ClockInv /\ OrderInv
    OBVIOUS
  <1>1. Epochs = {}
    BY RecorderAssumption DEF Init, Epochs, IsEpoch, Classify
  <1>2. ~sync.done /\ pc = "idle"
    BY BootTypes DEF Init
  <1> QED
    BY <1>1, <1>2
    DEF ClockInv, DriftOk, TargetOk, StatOk, OrderInv, NamesPast, Filled, Ordered, ActiveLater

(* Every step keeps the clock and the names it gives in step.               *)
LEMMA NextClockInv ==
  TInv /\ ClockInv /\ OrderInv /\ NoWrap /\ [Next]_vars => ClockInv'
  <1> SUFFICES ASSUME TInv, ClockInv, OrderInv, NoWrap, [Next]_vars PROVE ClockInv'
    OBVIOUS
  <1>0. ClockTypes /\ QueueTypes /\ now \in Nat /\ Uptime = now - bootAt /\ bootAt \in Nat
        /\ sync.secs \in Nat /\ sync.uptime \in Nat
    BY DEF TInv, ClockTypes, Uptime
  <1>1. CASE SetSyncTime
    <2>1. /\ sync' = [secs |-> now, uptime |-> now - bootAt, done |-> TRUE]
          /\ UNCHANGED <<now, bootAt, pc, target>>
      BY <1>0, <1>1 DEF SetSyncTime, queue
    <2>2. Drift' = 0
      BY <1>0, <2>1 DEF Drift
    <2> QED
      BY <2>1, <2>2 DEF ClockInv, DriftOk, TargetOk, StatOk
  <1>2. CASE BuildTarget
    <2>1. pc' = "stat" /\ UNCHANGED <<sync, now, bootAt>> /\ Drift' = Drift
      BY <1>2 DEF BuildTarget, clock, Drift
    <2>2. CASE sync.done
      <3>1. sync.secs + Elapsed = now + Drift /\ Drift \in {0, 1}
        BY <1>0, <2>2 DEF Elapsed, Drift, ClockInv, DriftOk
      <3>2. target' = EpochName(now + Drift) /\ now + Drift \in Nat /\ now + Drift < EpochModulus
        BY <1>0, <1>2, <2>2, <3>1, Widths DEF BuildTarget, NoWrap
      <3>3. target'[2] = now + Drift
        BY <3>2, EpochNames
      <3>4. IsEpoch(target')
        BY <3>2, EpochNames
      <3> QED
        BY <1>0, <2>1, <3>1, <3>3, <3>4 DEF ClockInv, DriftOk, TargetOk, StatOk
    <2>3. CASE ~sync.done
      <3>1. ~IsEpoch(target')
        BY <1>2, <2>3, EpochNames DEF BuildTarget
      <3> QED
        BY <2>1, <2>3, <3>1 DEF ClockInv, DriftOk, TargetOk, StatOk
    <2> QED
      BY <2>2, <2>3
  <1>3. CASE Stat
    <2>1. pc = "stat" /\ pc' \in {"build", "rename"} /\ UNCHANGED <<target, now, bootAt>>
      BY <1>3 DEF Stat, clock
    <2>2. TargetOk' /\ StatOk'
      BY <2>1 DEF ClockInv, TargetOk, StatOk
    <2>3. CASE target \in DOMAIN chunks /\ sync.done
      <3>1. IsEpoch(target) => target[2] = now
        BY <1>0, <2>1, <2>3, EpochNames
        DEF OrderInv, NamesPast, Epochs, ClockInv, TargetOk, QueueTypes
      <3>2. Drift = 0
        BY <2>1, <2>3, <3>1 DEF ClockInv, StatOk
      <3>3. sync'.secs = sync.secs + 1 /\ sync'.uptime = sync.uptime /\ sync'.done
        BY <1>0, <1>3, <2>3 DEF Stat, Collides, ClockTypes
      <3>4. Drift' = 1
        BY <1>0, <2>1, <3>2, <3>3 DEF Drift
      <3> QED
        BY <2>2, <3>4 DEF ClockInv, DriftOk
    <2>4. CASE ~(target \in DOMAIN chunks /\ sync.done)
      <3>1. sync' = sync
        BY <1>0, <1>3, <2>4 DEF Stat, Collides, ClockTypes
      <3> QED
        BY <2>1, <2>2, <3>1 DEF ClockInv, DriftOk, Drift
    <2> QED
      BY <2>3, <2>4
  <1>4. CASE pc' \in {"idle", "build"} /\ UNCHANGED <<sync, bootAt>>
    BY <1>4 DEF ClockInv, DriftOk, Drift, TargetOk, StatOk
  <1>5. CASE Reboot
    <2>1. pc' = "idle" /\ ~sync'.done
      BY <1>5, BootTypes DEF Reboot
    <2> QED
      BY <2>1 DEF ClockInv, DriftOk, TargetOk, StatOk
  <1>6. CASE UNCHANGED <<pc, target, sync, now, bootAt>>
    BY <1>6 DEF ClockInv, DriftOk, Drift, TargetOk, StatOk
  <1> QED
    BY <1>1, <1>2, <1>3, <1>4, <1>5, <1>6
    DEF Next, WorkQueue, vars, queue, clock, Write, TimerRotate, SizeCheck, TakeRotate,
        RenameSkips, RenameFails, RenameOk, Return, Fifo, HostRemoves

(* The first block of a file is one of its blocks.                          *)
LEMMA FirstBlock ==
  ASSUME NEW s \in Seq(Nat), s # <<>>
  PROVE  s[1] \in Range(s) /\ s[1] \in Nat
  <1>1. 1 \in DOMAIN s
    OBVIOUS
  <1> QED
    BY <1>1 DEF Range

(* Recordings that go leave the others as they are.                         *)
LEMMA RemovalKeepsOrder ==
  ASSUME OrderInv, DOMAIN chunks' \subseteq DOMAIN chunks,
         \A m \in DOMAIN chunks' : chunks'[m] = chunks[m],
         a01'["audio"] \in {a01["audio"], <<>>}, UNCHANGED now
  PROVE  OrderInv'
  BY DEF OrderInv, NamesPast, Filled, Ordered, ActiveLater, Epochs

(* Every step keeps the recordings as old as their names say.               *)
LEMMA NextOrderInv ==
  TInv /\ ClockInv /\ OrderInv /\ [Next]_vars => OrderInv'
  <1> SUFFICES ASSUME TInv, ClockInv, OrderInv, [Next]_vars PROVE OrderInv'
    OBVIOUS
  <1>0. CardTypes /\ QueueTypes /\ now \in Nat /\ "audio" \in Dirs
    BY DEF TInv, ClockTypes, Dirs
  <1>1. CASE Write
    <2>1. UNCHANGED <<chunks, now>> /\ next \in Nat
      BY <1>0, <1>1 DEF Write, clock, CardTypes
    <2>2. a01["audio"] \in Seq(Nat) /\ a01'["audio"] \in {a01["audio"], Append(a01["audio"], next)}
      BY <1>0, <1>1 DEF Write, CardTypes
    <2>3. CASE a01["audio"] = <<>>
      <3>1. a01'["audio"] # <<>> => a01'["audio"][1] = next
        BY <2>1, <2>2, <2>3
      <3>2. \A n \in Epochs : chunks[n][1] < next
        <4> SUFFICES ASSUME NEW n \in Epochs PROVE chunks[n][1] < next
          OBVIOUS
        <4>1. chunks[n] \in Seq(Nat) /\ chunks[n] # <<>> /\ Range(chunks[n]) \subseteq 1..next - 1
          BY <1>0 DEF CardTypes, Epochs, OrderInv, Filled
        <4>2. chunks[n][1] \in 1..next - 1
          BY <4>1, FirstBlock
        <4> QED
          BY <2>1, <4>2
      <3> QED
        BY <2>1, <3>1, <3>2 DEF OrderInv, NamesPast, Filled, Ordered, ActiveLater, Epochs
    <2>4. CASE a01["audio"] # <<>>
      <3>1. a01'["audio"][1] = a01["audio"][1]
        BY <2>1, <2>2, <2>4
      <3> QED
        BY <2>1, <2>4, <3>1 DEF OrderInv, NamesPast, Filled, Ordered, ActiveLater, Epochs
    <2> QED
      BY <2>3, <2>4
  <1>2. CASE RenameOk
    <2>1. /\ target \in Names /\ a01["audio"] # <<>> /\ now' = now + 1
          /\ DOMAIN chunks' = DOMAIN chunks \cup {target}
          /\ \A n \in DOMAIN chunks' :
               chunks'[n] = IF n = target THEN a01["audio"] ELSE chunks[n]
          /\ a01'["audio"] = <<>>
      BY <1>0, <1>2 DEF RenameOk, ShouldRotate, QueueTypes, CardTypes
    <2>2. IsEpoch(target) => target[2] \in {now, now + 1}
      BY <1>2 DEF RenameOk, ClockInv, TargetOk
    <2>3. \A n \in DOMAIN chunks' : IsEpoch(n) => n \in Names /\ (n = target \/ n \in Epochs)
      BY <1>0, <2>1 DEF Epochs, CardTypes
    <2>4. \A n \in DOMAIN chunks' : IsEpoch(n) => n[2] \in Nat /\ n = <<EPOCH, n[2], 0>>
      BY <2>3, EpochNames
    <2>5. NamesPast' /\ Filled' /\ ActiveLater'
      BY <1>0, <2>1, <2>2, <2>3, <2>4
      DEF OrderInv, NamesPast, Filled, ActiveLater, Epochs
    <2>6. ASSUME NEW n \in Epochs', NEW m \in Epochs', n[2] < m[2]
          PROVE  chunks'[n][1] < chunks'[m][1]
      <3>1. /\ n \in DOMAIN chunks' /\ m \in DOMAIN chunks' /\ IsEpoch(n) /\ IsEpoch(m)
            /\ n # m /\ n[2] \in Nat /\ m[2] \in Nat
        BY <2>4, <2>6 DEF Epochs
      <3>2. CASE n = target
        <4>1. m \in Epochs /\ m[2] <= now
          BY <2>3, <3>1, <3>2 DEF OrderInv, NamesPast
        <4>2. target[2] \in {now, now + 1}
          BY <2>2, <3>1, <3>2
        <4> QED
          BY <1>0, <2>6, <3>2, <4>1, <4>2, <3>1
      <3>3. CASE m = target
        BY <2>1, <2>3, <3>1, <3>3 DEF OrderInv, ActiveLater
      <3>4. CASE n # target /\ m # target
        BY <2>1, <2>3, <2>6, <3>1, <3>4 DEF OrderInv, Ordered
      <3> QED
        BY <3>2, <3>3, <3>4
    <2> QED
      BY <2>5, <2>6 DEF OrderInv, Ordered
  <1>3. CASE Fifo
    <2>1. PICK n \in DOMAIN chunks : Drop(n)
      BY <1>3 DEF Fifo, Candidates
    <2>2. UNCHANGED <<a01, now>>
      BY <1>3 DEF Fifo, clock
    <2> QED
      BY <2>1, <2>2, DropChunks, RemovalKeepsOrder
  <1>4. CASE HostRemoves
    <2>1. UNCHANGED now
      BY <1>4 DEF HostRemoves, clock
    <2>2. ASSUME NEW n \in DOMAIN chunks, Drop(n), UNCHANGED a01
          PROVE  OrderInv'
      BY <2>1, <2>2, DropChunks, RemovalKeepsOrder
    <2>3. ASSUME NEW d \in Dirs, a01' = [a01 EXCEPT ![d] = <<>>], UNCHANGED chunks
          PROVE  OrderInv'
      <3>1. a01'["audio"] \in {a01["audio"], <<>>}
        BY <1>0, <2>3 DEF CardTypes
      <3> QED
        BY <2>1, <2>3, <3>1, RemovalKeepsOrder
    <2> QED
      BY <1>4, <2>2, <2>3 DEF HostRemoves
  <1>5. CASE UNCHANGED <<card, now>>
    BY <1>5 DEF card, OrderInv, NamesPast, Filled, Ordered, ActiveLater, Epochs
  <1> QED
    BY <1>1, <1>2, <1>3, <1>4, <1>5
    DEF Next, WorkQueue, vars, clock, SetSyncTime, TimerRotate, SizeCheck, TakeRotate,
        BuildTarget, Stat, RenameSkips, RenameFails, Reboot

(* Of the recordings named after the clock the FIFO removes the one recorded*)
(* first (wr_fifo_compare_priority, over the names wr_chunk_rotate gives),  *)
(* whatever resets, new clock readings and collisions came before, while    *)
(* the clock fits the ten digits of a name.                                 *)
THEOREM PrunedInOrder == Spec /\ []NoWrap => EpochPrunedInOrder
  <1>1. TInv /\ ClockInv /\ OrderInv /\ NoWrap /\ [Next]_vars => (ClockInv /\ OrderInv)'
    BY NextClockInv, NextOrderInv
  <1>2. TInv /\ OrderInv /\ [Next]_vars =>
          [\A n \in DOMAIN chunks \ DOMAIN chunks' :
             mode = "recording" /\ IsEpoch(n) =>
               \A m \in DOMAIN chunks' : IsEpoch(m) => chunks[n][1] < chunks'[m][1]]_vars
    <2> SUFFICES ASSUME TInv, OrderInv, Next,
                        NEW n \in DOMAIN chunks \ DOMAIN chunks',
                        mode = "recording", IsEpoch(n),
                        NEW m \in DOMAIN chunks', IsEpoch(m)
                 PROVE  chunks[n][1] < chunks'[m][1]
      OBVIOUS
    <2>1. Fifo
      BY DEF Next, WorkQueue, card, Write, SetSyncTime, TimerRotate, SizeCheck, TakeRotate,
             BuildTarget, Stat, RenameSkips, RenameFails, RenameOk, HostRemoves, Reboot
    <2>2. PICK k \in Candidates : IsOldest(k) /\ Drop(k)
      BY <2>1 DEF Fifo
    <2>3. /\ k \in DOMAIN chunks /\ DOMAIN chunks' = DOMAIN chunks \ {k}
          /\ \A l \in DOMAIN chunks' : chunks'[l] = chunks[l]
      BY <2>2, DropChunks DEF Candidates
    <2>4. k = n /\ m # n /\ m \in Candidates
      BY <2>3 DEF Candidates, Managed, IsEpoch
    <2>5. n[2] < m[2]
      <3>1. ComparePriority(n, m)
        BY <2>2, <2>4 DEF IsOldest
      <3>2. n \in Names /\ m \in Names
        BY <2>3 DEF TInv, CardTypes
      <3>3. n[1] = m[1] /\ n[3] = 0 /\ m[3] = 0
        BY <3>2, EpochNames
      <3>4. n[1] = EPOCH /\ m[1] = EPOCH
        BY DEF IsEpoch, Classify
      <3> QED
        BY <3>1, <3>3, <3>4 DEF ComparePriority, EPOCH
    <2> QED
      BY <2>3, <2>5 DEF OrderInv, Ordered, Epochs
  <1> QED
    BY <1>1, <1>2, InitOrder, RecorderInvariance, PTL DEF Spec, EpochPrunedInOrder
===============================================================================
