------------------------------ MODULE MCRecorder ------------------------------
(***************************************************************************)
(* A small instance of WrRecorder: a card of four blocks, of which two hold*)
(* a recording of the first firmware and one of an earlier boot; a rotation*)
(* limit of two blocks; a reboot that may draw the boot number of the boot *)
(* before.  Sequence numbers have four values, so that they wrap and meet  *)
(* names in use, but are never all in use while a block waits for rotation.*)
(***************************************************************************)
EXTENDS WrRecorder, TLC

MCEarlier == <<LEGACY, 0, 0>> :> <<1>> @@ <<UNSYNCED, 1, 3>> :> <<2>>
MCBootIds == {1, 2}
MCHighCounts == {79, 80}
===============================================================================
