--------------------------- MODULE MCStorageService ---------------------------
(* Instances of WrStorageService for TLC: a card with the live recording,   *)
(* two recorded files and one that is not a recording, and a name that is   *)
(* not on the card.                                                         *)
EXTENDS WrStorageService, TLC

MCNames == {"live", "f1", "f2", "other", "gone"}
MCFetchable == {"f1", "f2", "gone"}
MCBlocks == "f1" :> 2 @@ "f2" :> 1 @@ "live" :> 1 @@ "other" :> 0
MCDir == <<"live", "f1", "other", "f2">>
MCListable == {"f1", "f2"}
===============================================================================
