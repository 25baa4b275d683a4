---------------------------- MODULE WrBoardProofs ----------------------------
(***************************************************************************)
(* Theorems about WrBoard, for every set of battery samples, every sampling*)
(* interval and every size of the console buffer: percentages never leave  *)
(* their range, no two patterns of the LED look alike, and the boot command*)
(* is exact.                                                               *)
(***************************************************************************)
EXTENDS WrBoard, TLAPS

-------------------------------------------------------------------------------
(* The arithmetic of the battery *)

\* A voltage is a natural number of 16 bits, its 32-bit intermediate result does
\* not overflow (wr_battery_raw_to_mv, the comment on its last statement).
LEMMA RawToMvFits ==
  ASSUME NEW raw \in Raws
  PROVE  /\ RawToMv(raw) \in Nat /\ RawToMv(raw) <= 65535
         /\ raw > 0 => raw * 4800 < 65536 * 65536
  <1>1. raw \in Int /\ raw <= 32767
    BY DEF Raws
  <1>2. CASE raw <= 0
    BY <1>1, <1>2 DEF RawToMv
  <1>3. CASE raw > 0
    <2>1. raw * 4800 \in Nat
      BY <1>1, <1>3
    <2>2. (raw * 4800) \div 4096 \in Nat
      BY <2>1
    <2>3. (raw * 4800) \div 4096 <= 65535 /\ raw * 4800 < 65536 * 65536
      BY <1>1, <1>3
    <2> QED
      BY <1>1, <1>3, <2>2, <2>3 DEF RawToMv
  <1> QED
    BY <1>1, <1>2, <1>3

\* A percentage is one: no voltage underflows or overflows the eight bits
\* ("out-of-range inputs never underflow/overflow", wr_battery.h:33).
THEOREM PctInRange ==
  ASSUME NEW mv \in Nat
  PROVE  MvToPct(mv) \in 0..100
  <1>1. CASE mv <= EmptyMv
    BY <1>1 DEF MvToPct
  <1>2. CASE mv >= FullMv
    BY <1>2 DEF MvToPct, EmptyMv, FullMv
  <1>3. CASE mv > EmptyMv /\ mv < FullMv
    <2>1. ((mv - 3000) * 100) \div 1200 \in 0..100
      BY <1>3 DEF EmptyMv, FullMv
    <2> QED
      BY <1>3, <2>1 DEF MvToPct, EmptyMv, FullMv
  <1> QED
    BY <1>1, <1>2, <1>3 DEF EmptyMv, FullMv

\* A higher voltage never gives a lower percentage: the gauge falls while the
\* battery does (wr_battery_mv_to_pct).
THEOREM PctIsMonotone ==
  ASSUME NEW low \in Nat, NEW high \in Nat, low <= high
  PROVE  MvToPct(low) <= MvToPct(high)
  <1>1. CASE low <= EmptyMv
    BY <1>1, PctInRange DEF MvToPct, EmptyMv, FullMv
  <1>2. CASE high >= FullMv
    BY <1>2, PctInRange DEF MvToPct, EmptyMv, FullMv
  <1>3. CASE low > EmptyMv /\ high < FullMv
    <2>1. ((low - 3000) * 100) \div 1200 <= ((high - 3000) * 100) \div 1200
      BY <1>3 DEF EmptyMv, FullMv
    <2> QED
      BY <1>3, <2>1 DEF MvToPct, EmptyMv, FullMv
  <1> QED
    BY <1>1, <1>2, <1>3 DEF EmptyMv, FullMv

-------------------------------------------------------------------------------
(* The LED *)

\* What a pattern shows in the course of its cycle.
Palette(p) ==
  CASE p = "critical"     -> {{"r"}, {}}
    [] p = "low"          -> {{"r", "g"}, {}}
    [] p = "sdFull"       -> {{"r"}}
    [] p = "sdMissing"    -> {{"b"}, {}}
    [] p = "charged"      -> {{"g"}}
    [] p = "charging"     -> {{"r", "g"}, {}}
    [] p = "bleRecording" -> {{"r", "g", "b"}, {"g"}, {}}
    [] p = "ble"          -> {{"g"}, {}}
    [] p = "recording"    -> {{"g"}, {}}
    [] p = "idle"         -> {{}}

\* Every phase of a rhythm comes up before it is over, whenever one begins to look.
LEMMA PhaseComes ==
  ASSUME NEW n \in Nat
  PROVE  /\ \A k \in 0..2 : \E t \in 0..2 : (t + n) % 3 = k
         /\ \A k \in 0..4 : \E t \in 0..4 : (t + n) % 5 = k
         /\ \A k \in 0..9 : \E t \in 0..9 : (t + n) % 10 = k
         /\ \A k \in 0..29 : \E t \in 0..29 : (t + n) % 30 = k
         /\ \A k \in 0..99 : \E t \in 0..99 : (t + n) % 100 = k
  <1>1. ASSUME NEW k \in 0..2 PROVE \E t \in 0..2 : (t + n) % 3 = k
    <2> DEFINE t == (k + 3 - (n % 3)) % 3
    <2>1. t \in 0..2 /\ (t + n) % 3 = k
      OBVIOUS
    <2> QED
      BY <2>1
  <1>2. ASSUME NEW k \in 0..4 PROVE \E t \in 0..4 : (t + n) % 5 = k
    <2> DEFINE t == (k + 5 - (n % 5)) % 5
    <2>1. t \in 0..4 /\ (t + n) % 5 = k
      OBVIOUS
    <2> QED
      BY <2>1
  <1>3. ASSUME NEW k \in 0..9 PROVE \E t \in 0..9 : (t + n) % 10 = k
    <2> DEFINE t == (k + 10 - (n % 10)) % 10
    <2>1. t \in 0..9 /\ (t + n) % 10 = k
      OBVIOUS
    <2> QED
      BY <2>1
  <1>4. ASSUME NEW k \in 0..29 PROVE \E t \in 0..29 : (t + n) % 30 = k
    <2> DEFINE t == (k + 30 - (n % 30)) % 30
    <2>1. t \in 0..29 /\ (t + n) % 30 = k
      OBVIOUS
    <2> QED
      BY <2>1
  <1>5. ASSUME NEW k \in 0..99 PROVE \E t \in 0..99 : (t + n) % 100 = k
    <2> DEFINE t == (k + 100 - (n % 100)) % 100
    <2>1. t \in 0..99 /\ (t + n) % 100 = k
      OBVIOUS
    <2> QED
      BY <2>1
  <1> QED
    BY <1>1, <1>2, <1>3, <1>4, <1>5

\* It shows nothing else ...
LEMMA ShowsPalette ==
  ASSUME NEW p \in Patterns, NEW t \in Nat
  PROVE  Rgb(p, t) \in Palette(p)
  BY DEF Patterns, Warnings, Rgb, Palette

\* ... and all of it, wherever in the cycle one begins to look.
LEMMA ShowsAll ==
  ASSUME NEW p \in Patterns, NEW n \in Nat, NEW leds \in Palette(p)
  PROVE  \E t \in 0..Cycle - 1 : Rgb(p, t + n) = leds
  <1>1. CASE p \in {"sdFull", "charged", "idle"}
    <2>1. Rgb(p, 0 + n) = leds /\ 0 \in 0..Cycle - 1
      BY <1>1 DEF Rgb, Palette, Cycle
    <2> QED
      BY <2>1
  <1>2. CASE p = "critical"
    <2>1. PICK k \in 0..2 : leds = IF k < 2 THEN {"r"} ELSE {}
      BY <1>2 DEF Palette
    <2>2. PICK t \in 0..2 : (t + n) % 3 = k
      BY <2>1, PhaseComes
    <2> QED
      BY <1>2, <2>1, <2>2 DEF Rgb, Cycle
  <1>3. CASE p = "low"
    <2>1. PICK k \in 0..4 : leds = IF k < 3 THEN {"r", "g"} ELSE {}
      <3>1. CASE leds = {}
        BY <3>1, 4 \in 0..4, ~(4 < 3)
      <3>2. CASE leds = {"r", "g"}
        BY <3>2, 0 \in 0..4, 0 < 3
      <3> QED
        BY <1>3, <3>1, <3>2 DEF Palette
    <2>2. PICK t \in 0..4 : (t + n) % 5 = k
      BY <2>1, PhaseComes
    <2> QED
      BY <1>3, <2>1, <2>2 DEF Rgb, Cycle
  <1>4. CASE p = "sdMissing"
    <2>1. PICK k \in 0..9 : leds = IF k < 5 THEN {"b"} ELSE {}
      BY <1>4 DEF Palette
    <2>2. PICK t \in 0..9 : (t + n) % 10 = k
      BY <2>1, PhaseComes
    <2> QED
      BY <1>4, <2>1, <2>2 DEF Rgb, Cycle
  <1>5. CASE p = "recording"
    <2>1. PICK k \in 0..29 : leds = IF k < 2 THEN {"g"} ELSE {}
      BY <1>5 DEF Palette
    <2>2. PICK t \in 0..29 : (t + n) % 30 = k
      BY <2>1, PhaseComes
    <2> QED
      BY <1>5, <2>1, <2>2 DEF Rgb, Cycle
  <1>6. CASE p \in {"charging", "bleRecording", "ble"}
    <2> DEFINE Shows(k) == IF k = 0 THEN IF p = "charging" THEN {"r", "g"} ELSE {"g"}
                           ELSE IF k = 50 THEN IF p = "charging" THEN {"r", "g"}
                                               ELSE IF p = "ble" THEN {"g"}
                                               ELSE {"r", "g", "b"}
                           ELSE {}
    <2>1. PICK k \in 0..99 : leds = Shows(k)
      BY <1>6 DEF Palette
    <2>2. PICK t \in 0..99 : (t + n) % 100 = k
      BY <2>1, PhaseComes
    <2>3. Heartbeat(t + n) <=> k \in {0, 50}
      BY <2>2 DEF Heartbeat
    <2>4. k \in {0, 50} => (WhiteTurn(t + n) <=> k = 50)
      BY <2>2 DEF WhiteTurn
    <2>5. Rgb(p, t + n) = Shows(k)
      BY <1>6, <2>3, <2>4 DEF Rgb
    <2> QED
      BY <2>1, <2>2, <2>5 DEF Cycle
  <1> QED
    BY <1>1, <1>2, <1>3, <1>4, <1>5, <1>6 DEF Patterns, Warnings

\* Two patterns are lit for one tick of fifty ...
LEMMA Blinks ==
  ASSUME NEW p \in {"charging", "ble"}, NEW n \in Nat
  PROVE  /\ Rgb(p, 0 + n) = {} \/ Rgb(p, 1 + n) = {}
         /\ \A t \in 1..49 : Rgb(p, t) = {}
  <1>1. \A t \in Nat : ~Heartbeat(t) => Rgb(p, t) = {}
    BY DEF Rgb
  <1>2. ~Heartbeat(0 + n) \/ ~Heartbeat(1 + n)
    BY DEF Heartbeat
  <1>3. \A t \in 1..49 : ~Heartbeat(t) /\ t \in Nat
    BY DEF Heartbeat
  <1> QED
    BY <1>1, <1>2, <1>3, 0 + n \in Nat, 1 + n \in Nat

\* ... and two for longer than one, and more often.
LEMMA Flashes ==
  ASSUME NEW p \in {"low", "recording"}, NEW n \in Nat
  PROVE  /\ Rgb(p, 0) # {} /\ Rgb(p, 1) # {}
         /\ \E t \in 1..49 : Rgb(p, t + n) # {}
  <1>1. Rgb(p, 0) # {} /\ Rgb(p, 1) # {}
    BY DEF Rgb
  <1>2. CASE p = "low"
    <2>1. PICK t \in 0..4 : (t + (n + 1)) % 5 = 0
      BY n + 1 \in Nat, 0 \in 0..4, PhaseComes
    <2>2. ((t + 1) + n) % 5 = 0 /\ t + 1 \in 1..49
      BY <2>1
    <2> QED
      BY <1>1, <1>2, <2>2 DEF Rgb
  <1>3. CASE p = "recording"
    <2>1. PICK t \in 0..29 : (t + (n + 1)) % 30 = 0
      BY n + 1 \in Nat, 0 \in 0..29, PhaseComes
    <2>2. ((t + 1) + n) % 30 = 0 /\ t + 1 \in 1..49
      BY <2>1
    <2> QED
      BY <1>1, <1>3, <2>2 DEF Rgb
  <1> QED
    BY <1>2, <1>3, <1>1

\* Which patterns show what.
LEMMA Colours ==
  ASSUME NEW p \in Patterns
  PROVE  /\ {} \in Palette(p) <=> p \notin {"sdFull", "charged"}
         /\ {"r"} \in Palette(p) <=> p \in {"critical", "sdFull"}
         /\ {"g"} \in Palette(p) <=> p \in {"charged", "bleRecording", "ble", "recording"}
         /\ {"b"} \in Palette(p) <=> p = "sdMissing"
         /\ {"r", "g"} \in Palette(p) <=> p \in {"low", "charging"}
         /\ {"r", "g", "b"} \in Palette(p) <=> p = "bleRecording"
  <1>1. /\ {"r"} # {} /\ {"g"} # {} /\ {"b"} # {} /\ {"r", "g"} # {} /\ {"r", "g", "b"} # {}
        /\ {"r"} # {"g"} /\ {"r"} # {"b"} /\ {"g"} # {"b"} /\ {"r"} # {"r", "g"}
        /\ {"g"} # {"r", "g"} /\ {"b"} # {"r", "g"} /\ {"r"} # {"r", "g", "b"}
        /\ {"g"} # {"r", "g", "b"} /\ {"b"} # {"r", "g", "b"} /\ {"r", "g"} # {"r", "g", "b"}
    OBVIOUS
  <1> QED
    BY <1>1 DEF Palette, Patterns, Warnings

\* Whoever looks at two different patterns for a cycle can tell them apart, without
\* knowing when in its cycle the device is (wr_led_pick).
THEOREM NoneLookAlike ==
  ASSUME NEW p \in Patterns, NEW q \in Patterns, p # q
  PROVE  ~LookAlike(p, q)
  <1> SUFFICES ASSUME NEW n \in 0..Cycle - 1,
                      \A t \in 0..Cycle - 1 : Rgb(p, t) = Rgb(q, t + n)
               PROVE  FALSE
    BY DEF LookAlike
  <1>1. n \in Nat /\ \A t \in 0..Cycle - 1 : t \in Nat /\ t + n \in Nat
    BY DEF Cycle
  <1>2. Palette(p) \subseteq Palette(q)
    <2> SUFFICES ASSUME NEW leds \in Palette(p) PROVE leds \in Palette(q)
      OBVIOUS
    <2>1. PICK t \in 0..Cycle - 1 : Rgb(p, t + 0) = leds
      BY ShowsAll
    <2>2. t + 0 = t
      BY <2>1, <1>1
    <2> QED
      BY <1>1, <2>1, <2>2, ShowsPalette
  <1>3. Palette(q) \subseteq Palette(p)
    <2> SUFFICES ASSUME NEW leds \in Palette(q) PROVE leds \in Palette(p)
      OBVIOUS
    <2>1. PICK t \in 0..Cycle - 1 : Rgb(q, t + n) = leds
      BY <1>1, ShowsAll
    <2> QED
      BY <1>1, <2>1, ShowsPalette
  <1>4. \/ p \in {"low", "recording"} /\ q \in {"charging", "ble"}
        \/ p \in {"charging", "ble"} /\ q \in {"low", "recording"}
    <2>1. \A leds : leds \in Palette(p) <=> leds \in Palette(q)
      BY <1>2, <1>3
    <2> QED
      BY <2>1, Colours DEF Patterns, Warnings
  <1>5. {0, 1} \subseteq 0..Cycle - 1 /\ 1..49 \subseteq 0..Cycle - 1
    BY DEF Cycle
  <1>6. CASE p \in {"low", "recording"} /\ q \in {"charging", "ble"}
    BY <1>1, <1>5, <1>6, Blinks, Flashes
  <1>7. CASE p \in {"charging", "ble"} /\ q \in {"low", "recording"}
    BY <1>1, <1>5, <1>7, Blinks, Flashes
  <1> QED
    BY <1>4, <1>6, <1>7

\* What the LED shows cannot be taken for anything else, whatever the levels, the
\* link and the switch do.
THEOREM PatternIsToldThm == Spec => []PatternIsTold
  <1>1. Ambiguous = {}
    BY NoneLookAlike DEF Ambiguous
  <1>2. PatternIsTold
    BY <1>1 DEF PatternIsTold
  <1> QED
    BY <1>2, PTL

-------------------------------------------------------------------------------
(* The console *)

\* What the buffer and the line have in common: as long as the line fits, the
\* buffer holds all of it; and what its string has of the word was typed since the
\* last line break, as the last thing unless the whole word was typed before.
BufferHoldsLine ==
  /\ rx \in Buffers(BufferSize - 1)
  /\ line \in Buffers(BufferSize)
  /\ typed \in 0..Len(Word)
  /\ line.idx < BufferSize => rx = line
  /\ IsBoot(rx) => typed = Len(Word)
  /\ rx.spelt \in 1..Len(Word) - 1 => typed \in {rx.spelt, Len(Word)}
  /\ power # "on" => line = Empty

\* Nothing is in the buffer and nothing was typed at the start.
LEMMA BufferInit == Init => BufferHoldsLine
  BY BufferAssumption DEF Init, BufferHoldsLine, Buffers, Empty, Wrong, Closed, Word, IsBoot

\* One more character leaves the string a beginning of the word, or makes it none.
LEMMA SpeltTypes ==
  ASSUME NEW n \in 0..Wrong, NEW c
  PROVE  Spelt(n, c) \in 0..Wrong
  BY DEF Spelt, Follows, Closed, Wrong, Word

\* The string has no letter of the word that was not typed last: no letter but the
\* first can begin the word anew, since none of its ends is one of its beginnings.
LEMMA TypedKeepsUp ==
  ASSUME NEW n \in 0..Wrong, NEW c, NEW m \in {Spelt(n, c), 0},
         typed \in 0..Len(Word),
         n \in {Len(Word), Closed} => typed = Len(Word),
         n \in 1..Len(Word) - 1 => typed \in {n, Len(Word)}
  PROVE  /\ NowTyped(c) \in 0..Len(Word)
         /\ m \in {Len(Word), Closed} => NowTyped(c) = Len(Word)
         /\ m \in 1..Len(Word) - 1 => NowTyped(c) \in {m, Len(Word)}
  <1>1. /\ Len(Word) = 4 /\ Closed = 5 /\ Wrong = 6
        /\ Word[1] = "b" /\ Word[2] = "o" /\ Word[3] = "o" /\ Word[4] = "t"
    BY DEF Word, Closed, Wrong
  <1>2. ASSUME NEW i \in 0..6
        PROVE  Follows(c, i) <=> (i = 0 /\ c = "b") \/ (i \in {1, 2} /\ c = "o")
                                   \/ (i = 3 /\ c = "t")
    <2>1. CASE i \in 4..6
      BY <1>1, <2>1 DEF Follows
    <2>2. CASE i \in {0, 1, 2, 3}
      BY <1>1, <2>2 DEF Follows
    <2> QED
      BY <2>1, <2>2
  <1> QED
    BY <1>1, <1>2 DEF Spelt, NowTyped

\* No step makes the buffer and a line that fits differ.
LEMMA BufferInv == BufferHoldsLine /\ [Next]_vars => BufferHoldsLine'
  <1> SUFFICES ASSUME BufferHoldsLine, [Next]_vars
               PROVE  BufferHoldsLine'
    OBVIOUS
  <1>1. CASE Memory
    BY <1>1, BufferAssumption
    DEF BufferHoldsLine, Memory, Buffers, Empty, Wrong, Closed, Word, IsBoot
  <1>2. CASE UNCHANGED <<rx, line, typed, power>>
    BY <1>2 DEF BufferHoldsLine, IsBoot
  <1>3. ASSUME NEW c \in Chars, TypeChar(c)
        PROVE  BufferHoldsLine'
    <2>1. power' = power /\ power = "on"
      BY <1>3 DEF TypeChar
    <2>2. ASSUME NEW n \in Nat, NEW buf \in Buffers(n)
          PROVE  Grown(buf, c) \in Buffers(n + 1)
      BY <2>2, SpeltTypes DEF Grown, Buffers
    <2>3. rx' \in Buffers(BufferSize - 1)
      <3>1. CASE rx.idx < BufferSize - 1
        <4>1. rx \in Buffers(BufferSize - 2)
          BY <3>1, BufferAssumption DEF BufferHoldsLine, Buffers
        <4> QED
          BY <1>3, <2>2, <3>1, <4>1, BufferAssumption DEF TypeChar, AfterChar
      <3>2. CASE ~(rx.idx < BufferSize - 1)
        BY <1>3, <3>2, BufferAssumption DEF TypeChar, AfterChar, Empty, Buffers, Wrong, Word
      <3> QED BY <3>1, <3>2
    <2>4. line' \in Buffers(BufferSize)
      <3>1. CASE line.idx < BufferSize - 1
        <4>1. line \in Buffers(BufferSize - 1)
          BY <3>1, BufferAssumption DEF BufferHoldsLine, Buffers
        <4> QED
          BY <1>3, <2>2, <3>1, <4>1, BufferAssumption DEF TypeChar
      <3>2. CASE ~(line.idx < BufferSize - 1)
        BY <1>3, <3>2, BufferAssumption DEF TypeChar, LongLine, Buffers, Wrong, Word
      <3> QED BY <3>1, <3>2
    <2>5. ASSUME line'.idx < BufferSize
          PROVE  rx' = line'
      <3>1. line.idx < BufferSize - 1 /\ line' = Grown(line, c)
        BY <1>3, <2>5, BufferAssumption DEF TypeChar, LongLine
      <3> QED
        BY <1>3, <3>1, BufferAssumption DEF TypeChar, AfterChar, Buffers, BufferHoldsLine
    <2>6. typed' = NowTyped(c)
      BY <1>3 DEF TypeChar
    <2>7. /\ typed' \in 0..Len(Word)
          /\ rx'.spelt \in {Len(Word), Closed} => typed' = Len(Word)
          /\ rx'.spelt \in 1..Len(Word) - 1 => typed' \in {rx'.spelt, Len(Word)}
      <3>1. rx'.spelt \in {Spelt(rx.spelt, c), 0}
        BY <1>3 DEF TypeChar, AfterChar, Grown, Empty
      <3> QED
        BY <2>6, <3>1, TypedKeepsUp DEF BufferHoldsLine, Buffers, IsBoot
    <2> QED
      BY <2>1, <2>3, <2>4, <2>5, <2>7 DEF BufferHoldsLine, IsBoot
  <1>4. CASE TypeBreak
    <2>1. CASE IsBoot(rx)
      BY <1>1, <1>4, <2>1 DEF TypeBreak
    <2>2. CASE ~IsBoot(rx)
      <3>1. power = "on" /\ power' = power /\ rx' = Empty /\ line' = Empty
        BY <1>4, <2>2 DEF TypeBreak, AfterBreak
      <3>2. typed' = 0
        BY <1>4, <2>2 DEF TypeBreak
      <3> QED
        BY <3>1, <3>2, BufferAssumption
        DEF Empty, Buffers, Wrong, Closed, Word, IsBoot, BufferHoldsLine
    <2> QED BY <2>1, <2>2
  <1>5. Next \/ UNCHANGED vars
    OBVIOUS
  <1>6. ASSUME NEW c \in 0..2, Control(c)
        PROVE  BufferHoldsLine'
    BY <1>1, <1>2, <1>6 DEF Control, Switch, console, BufferHoldsLine
  <1> QED
    BY <1>1, <1>2, <1>3, <1>4, <1>5, <1>6
    DEF Next, User, Timers, Boot, CellChanges, LongPress, Tap, Connect, Disconnect,
        PhoneReads, LedTick, AdcWork, BattUpdate, Broadcast, Switch, vars, console

\* Under BufferHoldsLine every step treats a line that fits as BootCommandIsExact
\* says.
LEMMA BootCommandStep ==
  ASSUME BufferHoldsLine, [Next]_vars, LineFits
  PROVE  ToBootloader <=> LineEnds /\ IsBoot(line)
  <1>1. rx = line
    BY DEF BufferHoldsLine, LineFits
  <1>2. CASE power' # "uf2" /\ line' = line
    BY <1>2 DEF ToBootloader, LineEnds
  <1>3. CASE power' = "off"
    BY <1>3 DEF ToBootloader, LineEnds
  <1>4. CASE Boot
    BY <1>4 DEF Boot, ToBootloader, LineEnds, BufferHoldsLine
  <1>5. ASSUME NEW c \in Chars, TypeChar(c)
        PROVE  ToBootloader <=> LineEnds /\ IsBoot(line)
    <2>1. power' = power /\ power = "on" /\ line' \in {Grown(line, c), LongLine}
      BY <1>5 DEF TypeChar
    <2>3. LongLine # Empty
      BY BufferAssumption DEF LongLine, Empty
    <2>2. Grown(line, c) # Empty
      BY BufferAssumption DEF Grown, Empty, Buffers, BufferHoldsLine
    <2> QED
      BY <2>1, <2>2, <2>3 DEF ToBootloader, LineEnds
  <1>6. CASE TypeBreak
    <2>1. CASE IsBoot(rx)
      <3>1. power = "on" /\ power' = "uf2" /\ line' = Empty
        BY <1>6, <2>1 DEF TypeBreak, Memory
      <3>2. line # Empty
        BY <1>1, <2>1 DEF IsBoot, Empty, Closed, Word
      <3> QED
        BY <1>1, <2>1, <3>1, <3>2 DEF ToBootloader, LineEnds
    <2>2. CASE ~IsBoot(rx)
      BY <1>1, <1>6, <2>2 DEF TypeBreak, ToBootloader
    <2> QED BY <2>1, <2>2
  <1>7. CASE UNCHANGED <<power, line>>
    BY <1>7 DEF ToBootloader, LineEnds
  <1>8. ASSUME NEW c \in 0..2, Control(c)
        PROVE  ToBootloader <=> LineEnds /\ IsBoot(line)
    BY <1>3, <1>7, <1>8 DEF Control, Switch, console
  <1> QED
    BY <1>3, <1>4, <1>5, <1>6, <1>7, <1>8
    DEF Next, User, Timers, CellChanges, LongPress, Tap, Connect, Disconnect,
        PhoneReads, LedTick, AdcWork, BattUpdate, Broadcast, Switch, vars, console

\* Only a step that ends a line goes to the bootloader, and only with the word in
\* the buffer, which BufferHoldsLine says was typed on that line.
LEMMA WordTyped ==
  ASSUME BufferHoldsLine, [Next]_vars, ToBootloader
  PROVE  typed = Len(Word)
  <1>1. CASE TypeBreak
    BY <1>1 DEF TypeBreak, ToBootloader, BufferHoldsLine
  <1>2. CASE power' \in {"on", "off", power}
    BY <1>2 DEF ToBootloader
  <1> QED
    BY <1>1, <1>2
    DEF Next, User, Timers, Boot, CellChanges, LongPress, Tap, Control, Connect,
        Disconnect, PhoneReads, TypeChar, LedTick, AdcWork, BattUpdate, Broadcast,
        Switch, vars

\* For every size of the buffer, and with zeros among the characters: the device goes
\* to the bootloader only if "boot" was typed on the line that ends, and, if that line
\* fits, exactly when the string it makes is "boot".  Long lines before it, and an
\* index that is set back in the middle of one, leave nothing behind.
THEOREM BootCommandIsExactThm == Spec => BootCommandIsExact
  <1>1. Init => BufferHoldsLine
    BY BufferInit
  <1>2. BufferHoldsLine /\ [Next]_vars => BufferHoldsLine'
    BY BufferInv
  <1>3. BufferHoldsLine /\ [Next]_vars =>
          [/\ ToBootloader => typed = Len(Word)
           /\ LineFits => (ToBootloader <=> LineEnds /\ IsBoot(line))]_vars
    BY WordTyped, BootCommandStep
  <1> QED
    BY <1>1, <1>2, <1>3, PTL DEF Spec, BootCommandIsExact

-------------------------------------------------------------------------------
(* Types *)

\* The values a boot starts from are of their types.
LEMMA ZeroTypes ==
  /\ 0 \in 0..AdcTicks - 1
  /\ Empty \in Buffers(BufferSize - 1) /\ Empty \in Buffers(BufferSize)
  /\ 0 \in 0..Len(Word)
  /\ 100 \in Levels
  BY BufferAssumption, BoardAssumption DEF Empty, Buffers, Wrong, Word, Levels

\* A reset leaves every variable with its type, and no link.
LEMMA MemoryTypes == Memory /\ cell' \in Cells /\ power' \in {"on", "off", "uf2"} => TypeOK'
  BY ZeroTypes DEF Memory, TypeOK

\* Whatever the battery gives, the gauge goes on showing a percentage.
LEMMA SampleTypes ==
  ASSUME TypeOK
  PROVE  Sampled(RawToMv(cell)) \in Levels
  <1>1. cell \in Raws
    BY BoardAssumption DEF TypeOK
  <1>2. RawToMv(cell) \in Nat
    BY <1>1, RawToMvFits
  <1>3. MvToPct(RawToMv(cell)) \in Levels
    BY <1>2, PctInRange DEF Levels
  <1> QED
    BY <1>3 DEF Sampled, TypeOK

\* Every state of the inputs has its pattern (wr_led_pick).
LEMMA PatternTypes == \A s : Pattern(s) \in Patterns
  BY DEF Pattern, Patterns, Warnings

\* Every step keeps the types; that the index stays in the buffer is BufferInv.
LEMMA TypeStep == TypeOK /\ BufferHoldsLine' /\ [Next]_vars => TypeOK'
  <1> SUFFICES ASSUME TypeOK, BufferHoldsLine', [Next]_vars
               PROVE  TypeOK'
    OBVIOUS
  <1>1. CASE Boot \/ LongPress
    BY <1>1, MemoryTypes DEF Boot, LongPress, TypeOK
  <1>2. CASE CellChanges
    BY <1>2 DEF CellChanges, led, bas, console, TypeOK
  <1>3. CASE LedTick
    <2>1. tick' \in 0..AdcTicks - 1
      BY <1>3, BoardAssumption DEF LedTick, TypeOK
    <2>2. shown' \in Patterns /\ adcQueued' \in BOOLEAN
      BY <1>3, PatternTypes DEF LedTick
    <2> QED
      BY <1>3, <2>1, <2>2 DEF LedTick, bas, console, TypeOK
  <1>4. ASSUME NEW ok \in BOOLEAN, AdcWork(ok)
        PROVE  TypeOK'
    <2>1. gauge' \in Levels
      BY <1>4, SampleTypes DEF AdcWork, TypeOK
    <2> QED
      BY <1>4, <2>1 DEF AdcWork, bas, console, TypeOK
  <1>5. ASSUME NEW ok \in BOOLEAN, BattUpdate(ok) \/ Broadcast(ok)
        PROVE  TypeOK'
    BY <1>5 DEF BattUpdate, Broadcast, SetBatteryLevel, led, console, TypeOK
  <1>6. CASE Connect \/ Disconnect \/ PhoneReads
    BY <1>6 DEF Connect, Disconnect, PhoneReads, led, bas, console, TypeOK
  <1>7. ASSUME NEW on \in BOOLEAN, Switch(on)
        PROVE  TypeOK'
    BY <1>7 DEF Switch, SetEnabled, bas, console, TypeOK
  <1>8. ASSUME NEW c \in 0..2, Control(c)
        PROVE  TypeOK'
    <2>1. CASE c = 2
      BY <1>8, <2>1, MemoryTypes DEF Control, TypeOK
    <2>2. CASE c # 2
      BY <1>7, <1>8, <2>2 DEF Control
    <2> QED BY <2>1, <2>2
  <1>9. CASE Tap
    BY <1>7, <1>9 DEF Tap, TypeOK
  <1>10. ASSUME NEW c \in Chars, TypeChar(c)
         PROVE  TypeOK'
    BY <1>10 DEF TypeChar, led, bas, BufferHoldsLine, TypeOK
  <1>11. CASE TypeBreak
    <2>1. CASE IsBoot(rx)
      BY <1>11, <2>1, MemoryTypes DEF TypeBreak, TypeOK
    <2>2. CASE ~IsBoot(rx)
      BY <1>11, <2>2 DEF TypeBreak, led, bas, BufferHoldsLine, TypeOK
    <2> QED BY <2>1, <2>2
  <1>12. CASE UNCHANGED vars
    BY <1>12 DEF vars, led, bas, console, TypeOK
  <1> QED
    BY <1>1, <1>2, <1>3, <1>4, <1>5, <1>6, <1>8, <1>9, <1>10, <1>11, <1>12
    DEF Next, User, Timers

\* The types of the board, for all its constants: the buffer's index and its zero
\* stay inside it, and no sample and no step makes a percentage that is none.
THEOREM TypeOKThm == Spec => []TypeOK
  <1>1. Init => TypeOK /\ BufferHoldsLine
    BY BufferInit, ZeroTypes DEF Init, TypeOK
  <1>2. TypeOK /\ BufferHoldsLine /\ [Next]_vars => TypeOK' /\ BufferHoldsLine'
    BY BufferInv, TypeStep
  <1> QED
    BY <1>1, <1>2, PTL DEF Spec
===============================================================================
