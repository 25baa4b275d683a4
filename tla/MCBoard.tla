------------------------------- MODULE MCBoard -------------------------------
(***************************************************************************)
(* A small instance of WrBoard: a battery that is low (2700: 3164 mV, 13 %),*)
(* and the samples at the ends of the range, one below zero, which counts  *)
(* as no battery, and the largest; a sample every two ticks; and a console *)
(* buffer of six characters, so that a line may be too long for it.        *)
(***************************************************************************)
EXTENDS WrBoard

MCCells == {-1, 2700, 32767}
===============================================================================
