------------------------------ MODULE WrBattery ------------------------------
(***************************************************************************)
(* From a sample of the converter to the percentage of charge that is shown*)
(* and notified (app/src/wr_battery.c).  Integers are 16 and 8 bits wide in*)
(* the code; WrBoardProofs shows that nothing overflows.                 *)
(***************************************************************************)
EXTENDS Integers

Raws == {r \in Int : -32768 <= r /\ r <= 32767}     \* int16_t, what adc_read leaves in batt_raw
EmptyMv == 3000
FullMv == 4200

\* 12 bits over 2.4 V behind a divider by two.
RawToMv(raw) == IF raw <= 0 THEN 0 ELSE (raw * 4800) \div 4096

MvToPct(mv) ==
  IF mv <= EmptyMv THEN 0
  ELSE IF mv >= FullMv THEN 100
  ELSE ((mv - EmptyMv) * 100) \div (FullMv - EmptyMv)
===============================================================================
