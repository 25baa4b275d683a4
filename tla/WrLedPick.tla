------------------------------ MODULE WrLedPick ------------------------------
(***************************************************************************)
(* What the LED shows (app/src/wr_led_pick.c): the most urgent thing there *)
(* is to say, as a blinking pattern over a clock of 100 ms ticks.          *)
(***************************************************************************)
EXTENDS Integers

Critical == 5        \* percent
Low == 20

Warnings == {"critical", "low", "sdFull", "sdMissing"}
Patterns == Warnings \cup
  {"charged", "charging", "bleRecording", "ble", "recording", "idle"}

\* Variant: the link has priority over the state of the battery.
PatternLinkFirst(s) ==
  CASE s.ble_connected -> (IF s.recording THEN "bleRecording" ELSE "ble")
    [] ~s.ble_connected /\ s.batt_pct <= Critical -> "critical"
    [] OTHER -> (IF s.recording THEN "recording" ELSE "idle")

Pattern(s) ==
  IF s.batt_pct <= Critical THEN "critical"
  ELSE IF s.batt_pct <= Low THEN "low"
  ELSE IF s.sd_full THEN "sdFull"
  ELSE IF s.sd_missing THEN "sdMissing"
  ELSE IF s.charged THEN "charged"
  ELSE IF s.charging THEN "charging"
  ELSE IF s.ble_connected THEN (IF s.recording THEN "bleRecording" ELSE "ble")
  ELSE IF s.recording THEN "recording"
  ELSE "idle"

Heartbeat(t) == t % 50 = 0

\* Variant: the colour alternates with the tick, not with the five seconds.
WhiteTurnByTick(t) == t % 2 = 1
WhiteTurn(t) == (t \div 50) % 2 = 1

\* The LEDs that are lit.
Rgb(pattern, t) ==
  LET lit(on, leds) == IF on THEN leds ELSE {}
  IN CASE pattern = "critical"     -> lit(t % 3 < 2, {"r"})
       [] pattern = "low"          -> lit(t % 5 < 3, {"r", "g"})
       [] pattern = "sdFull"       -> {"r"}
       [] pattern = "sdMissing"    -> lit(t % 10 < 5, {"b"})
       [] pattern = "charged"      -> {"g"}
       [] pattern = "charging"     -> lit(Heartbeat(t), {"r", "g"})
       [] pattern = "bleRecording" -> lit(Heartbeat(t),
                                          IF WhiteTurn(t) THEN {"r", "g", "b"}
                                                             ELSE {"g"})
       [] pattern = "ble"          -> lit(Heartbeat(t), {"g"})
       [] pattern = "recording"    -> lit(t % 30 < 2, {"g"})
       [] pattern = "idle"         -> {}

Cycle == 300                        \* every pattern repeats after so many ticks

\* Do two patterns look the same for a whole cycle to someone who does not know
\* where in the cycle the device is?
LookAlike(p, q) ==
  \E shift \in 0..Cycle - 1 :
    \A t \in 0..Cycle - 1 : Rgb(p, t) = Rgb(q, t + shift)

Ambiguous == {w[1] : w \in {z \in Patterns \X Patterns : z[1] # z[2] /\ LookAlike(z[1], z[2])}}
===============================================================================
