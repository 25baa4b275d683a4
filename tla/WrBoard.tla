------------------------------- MODULE WrBoard -------------------------------
(***************************************************************************)
(* What the recorder tells its user, and what the user tells it, apart from*)
(* recordings: battery, LED, battery service, recording switch, power and  *)
(* the console's boot command.                                             *)
(*                                                                         *)
(* Work items of the system work queue, the Bluetooth RX thread and the    *)
(* console's callback are cooperative threads and give way only where they *)
(* wait, which no handler here does between two accesses to shared state;  *)
(* the LED timer interrupts them, and reads one flag that others write with*)
(* a single store each.  So a handler is one step.                         *)
(***************************************************************************)
EXTENDS WrBattery, WrLedPick, WrBootCmd

CONSTANTS
  Cells,       \* samples the battery may give over the life of the device
  AdcTicks,    \* ticks between two samples (100)
  None         \* no level heard, no LED pattern yet

ASSUME BoardAssumption ==
  /\ Cells \subseteq Raws
  /\ AdcTicks \in Nat \ {0}
  /\ None \notin Nat \cup Patterns

VARIABLES
  power,       \* "on", "off", or "uf2": in the bootloader, waiting for firmware
  cell,        \* the sample the battery would give now
  \* wr_led_status.c
  adcReady,    \* batt_adc_dev is set
  tick,        \* static tick of wr_led_tick, modulo AdcTicks
  adcQueued,   \* batt_adc_work is submitted
  gauge,       \* wr_led_batt_pct
  ledRecording,\* wr_led_recording
  shown,       \* the pattern of the last tick
  \* battery services
  lastPct,     \* wr_batt_last_pct
  level,       \* value of the Battery Level characteristic
  heard,       \* the level the phone shows
  \* transport.c
  enabled,     \* wr_recording_enabled
  connected,   \* is_connected
  \* wr_boot_cmd.c
  rx,          \* rx_buf and rx_idx
  line,        \* history: what was typed since the last break, however long
  typed        \* history: letters of the word that what was typed ends with,
               \* all of them once the word was there

led == <<adcReady, tick, adcQueued, gauge, ledRecording, shown>>
bas == <<lastPct, level, heard>>
console == <<rx, line, typed>>
vars == <<power, cell, led, bas, enabled, connected, console>>

-------------------------------------------------------------------------------
(* Boot and power *)

NoPct == 255                       \* wr_batt_last_pct before the first update

Memory ==
  /\ adcReady' \in BOOLEAN         \* is the converter ready, and its channel set up?
  /\ tick' = 0 /\ adcQueued' = FALSE
  /\ gauge' = 100
  /\ ledRecording' = TRUE /\ shown' = None
  /\ lastPct' = NoPct /\ level' = 100 /\ heard' = None
  /\ enabled' = TRUE /\ connected' = FALSE
  /\ rx' = Empty /\ line' = Empty /\ typed' = 0

Init ==
  /\ power = "on"
  /\ cell \in Cells
  /\ adcReady \in BOOLEAN
  /\ tick = 0 /\ adcQueued = FALSE
  /\ gauge = 100
  /\ ledRecording = TRUE /\ shown = None
  /\ lastPct = NoPct /\ level = 100 /\ heard = None
  /\ enabled = TRUE /\ connected = FALSE
  /\ rx = Empty /\ line = Empty /\ typed = 0

\* A button press, or new firmware.
Boot == power # "on" /\ power' = "on" /\ Memory /\ UNCHANGED cell

\* The long press.
LongPress == power = "on" /\ power' = "off" /\ Memory /\ UNCHANGED cell

CellChanges ==
  /\ \E c \in Cells : cell' = c
  /\ UNCHANGED <<power, led, bas, enabled, connected, console>>

-------------------------------------------------------------------------------
(* The LED timer, and the battery sample it asks for *)

\* The setters of the other inputs exist and are not called.
Inputs == [batt_pct |-> gauge, sd_full |-> FALSE, sd_missing |-> FALSE,
           charged |-> FALSE, charging |-> FALSE,
           ble_connected |-> connected, recording |-> ledRecording]

LedTick ==
  /\ power = "on"
  /\ tick' = (tick + 1) % AdcTicks
  /\ adcQueued' = (adcQueued \/ tick' = 0)
  /\ shown' = Pattern(Inputs)
  /\ UNCHANGED <<power, cell, adcReady, gauge, ledRecording, bas, enabled,
                 connected, console>>

\* A voltage no battery works at: the divider is not populated.
Sampled(mv) == IF mv <= EmptyMv THEN gauge ELSE MvToPct(mv)

AdcWork(read) ==
  /\ power = "on"
  /\ adcQueued
  /\ adcQueued' = FALSE
  /\ gauge' = IF adcReady /\ read THEN Sampled(RawToMv(cell)) ELSE gauge
  /\ UNCHANGED <<power, cell, adcReady, tick, ledRecording, shown, bas, enabled,
                 connected, console>>

-------------------------------------------------------------------------------
(* The battery service *)

\* bt_bas_set_battery_level: the level is stored, and the notification of it
\* reaches the phone or does not.
SetBatteryLevel(pct, delivered) ==
  /\ level' = pct
  /\ heard' = IF connected /\ delivered THEN pct ELSE heard

\* wr_batt_update_fn, every 60 s: a level is notified once, successfully or not.
BattUpdate(delivered) ==
  /\ power = "on"
  /\ IF gauge # lastPct THEN SetBatteryLevel(gauge, delivered)
                        ELSE UNCHANGED <<level, heard>>
  /\ lastPct' = gauge
  /\ UNCHANGED <<power, cell, led, enabled, connected, console>>

\* Variant: only a level that differs is notified.
BroadcastChanged(delivered) ==
  /\ power = "on"
  /\ level # gauge
  /\ SetBatteryLevel(gauge, delivered)
  /\ UNCHANGED <<power, cell, led, lastPct, enabled, connected, console>>

\* broadcast_battery_level, every 15 s, changed or not.
Broadcast(delivered) ==
  /\ power = "on"
  /\ SetBatteryLevel(gauge, delivered)
  /\ UNCHANGED <<power, cell, led, lastPct, enabled, connected, console>>

\* The phone reads the level once after connecting.
PhoneReads ==
  /\ connected /\ heard = None
  /\ heard' = level
  /\ UNCHANGED <<power, cell, led, lastPct, level, enabled, connected, console>>

-------------------------------------------------------------------------------
(* The link and the recording switch *)

Connect ==
  /\ power = "on" /\ ~connected
  /\ connected' = TRUE
  /\ UNCHANGED <<power, cell, led, bas, enabled, console>>

Disconnect ==
  /\ connected
  /\ connected' = FALSE
  /\ heard' = None
  /\ UNCHANGED <<power, cell, led, lastPct, level, enabled, console>>

\* Variant: as the firmware was before the switch was wired to the LED.
SetEnabledAlone(on) == enabled' = on /\ UNCHANGED ledRecording
\* wr_recording_set_enabled
SetEnabled(on) == enabled' = on /\ ledRecording' = on

Switch(on) ==
  /\ SetEnabled(on)
  /\ UNCHANGED <<power, cell, adcReady, tick, adcQueued, gauge, shown, bas,
                 connected, console>>

\* recording_control_write_handler: 0 pauses, 2 turns the device off, any other
\* command records.
Control(command) ==
  /\ connected
  /\ IF command = 2 THEN power' = "off" /\ Memory /\ UNCHANGED cell
                    ELSE Switch(command # 0)

\* notify_tap: a single tap of the button.
Tap == power = "on" /\ Switch(~enabled)

-------------------------------------------------------------------------------
(* The console *)

NowTyped(c) ==
  CASE typed = Len(Word) -> typed
    [] Follows(c, typed) -> typed + 1
    [] OTHER -> IF c = Word[1] THEN 1 ELSE 0

\* A line too long for the buffer.
LongLine == [idx |-> BufferSize, spelt |-> Wrong]

TypeChar(c) ==
  /\ power = "on"
  /\ rx' = AfterChar(rx, c)
  /\ line' = IF line.idx < BufferSize - 1 THEN Grown(line, c) ELSE LongLine
  /\ typed' = NowTyped(c)
  /\ UNCHANGED <<power, cell, led, bas, enabled, connected>>

TypeBreak ==
  /\ power = "on"
  /\ IF IsBoot(rx)
       THEN power' = "uf2" /\ Memory /\ UNCHANGED cell
       ELSE /\ rx' = AfterBreak(rx)
            /\ line' = Empty /\ typed' = 0
            /\ UNCHANGED <<power, cell, led, bas, enabled, connected>>

-------------------------------------------------------------------------------
User == LongPress \/ Tap \/ Connect \/ Disconnect \/ PhoneReads
          \/ (\E c \in 0..2 : Control(c)) \/ (\E c \in Chars : TypeChar(c)) \/ TypeBreak

Timers == LedTick \/ (\E ok \in BOOLEAN : AdcWork(ok) \/ BattUpdate(ok) \/ Broadcast(ok))

Next == Boot \/ CellChanges \/ User \/ Timers

Spec == Init /\ [][Next]_vars

\* The timers are periodic and the work queue runs what is submitted.  A sample
\* that is asked for again and again succeeds in the end, and so does a
\* notification over a link that stays.
Fairness ==
  /\ WF_vars(LedTick)
  /\ WF_vars(\E ok \in BOOLEAN : AdcWork(ok)) /\ SF_vars(AdcWork(TRUE))
  /\ SF_vars(Broadcast(TRUE))

FairSpec == Spec /\ Fairness

-------------------------------------------------------------------------------
(* Properties *)

Levels == 0..100

\* Types: no index of the console's buffer leaves it, the terminating zero included
\* (wr_boot_cmd_uart_cb), percentages are percentages, and a device that is not on
\* has no link.
TypeOK ==
  /\ power \in {"on", "off", "uf2"}
  /\ cell \in Cells
  /\ adcReady \in BOOLEAN /\ adcQueued \in BOOLEAN
  /\ tick \in 0..AdcTicks - 1
  /\ gauge \in Levels /\ level \in Levels
  /\ ledRecording \in BOOLEAN /\ enabled \in BOOLEAN
  /\ shown \in Patterns \cup {None}
  /\ lastPct \in Levels \cup {NoPct}
  /\ heard \in Levels \cup {None}
  /\ connected \in BOOLEAN /\ (connected => power = "on")
  /\ rx \in Buffers(BufferSize - 1) /\ line \in Buffers(BufferSize)
  /\ typed \in 0..Len(Word)

\* A battery that is low and stays so ends in a warning the user sees for good,
\* whatever the switch and the link do, samples that fail and ticks in between
\* (wr_led_tick, batt_adc_worker, the priorities of wr_led_pick).
LowCell == LET mv == RawToMv(cell) IN EmptyMv < mv /\ MvToPct(mv) <= Low
LowBatteryIsShown ==
  <>[](power = "on" /\ adcReady /\ LowCell) => <>[](shown \in {"critical", "low"})

\* While the battery gives no cause for a warning, the LED settles on telling
\* whether the device records, whoever threw the switch (patch 0048).
TellsRecording == shown \in {"recording", "bleRecording"}
Settled(on) == power = "on" /\ gauge > Low /\ enabled = on
SwitchIsShown ==
  \A on \in BOOLEAN : <>[]Settled(on) => <>[](TellsRecording = on)

\* No two patterns look the same over a cycle: what the LED shows now cannot be
\* taken for anything else (the heartbeats of wr_led_pick differ in colour and
\* rhythm only).
PatternIsTold == shown \notin Ambiguous

\* A phone that stays connected ends up showing the level of the gauge, though
\* notifications get lost and wr_batt_update_fn does not repeat one: the
\* broadcast of patch 0047 does.
Gauged == {100} \cup {MvToPct(RawToMv(c)) : c \in Cells}
LevelReachesPhone ==
  \A p \in Gauged :
    <>[](power = "on" /\ connected /\ gauge = p) => <>[](heard = p)

\* Nothing but "boot" typed on one line sends the device to the bootloader: what is
\* left of a line that was dropped or ended never joins with what is typed later to
\* make the word.  And a line that fits the buffer does so exactly when the string
\* it makes, up to a zero if there is one, is the word (wr_boot_cmd_uart_cb).
LineFits == line.idx < BufferSize
LineEnds == line # Empty /\ line' = Empty /\ power' # "off"
ToBootloader == power' = "uf2" /\ power # "uf2"
BootCommandIsExact ==
  [][/\ ToBootloader => typed = Len(Word)
     /\ LineFits => (ToBootloader <=> LineEnds /\ IsBoot(line))]_vars
===============================================================================
