---------------------------- MODULE MCStorageClient ----------------------------
(***************************************************************************)
(* A small instance of WrStorageClient: the live recording and one closed  *)
(* file, of one block and of two, in windows of one block; and the sync    *)
(* alone (Late...), with a recording, no byte of it written yet, and two   *)
(* closed files.                                                           *)
(***************************************************************************)
EXTENDS WrStorageClient

MCSessions == {"sync", "page"}
MCDir == <<"old">>
MCSize == [f \in {"live", "old"} |-> IF f = "live" THEN 1 ELSE 2]

LateSessions == {"sync"}
LateDir == <<"old", "older">>
LateSize == [f \in {"live", "old", "older"} |-> IF f = "live" THEN 0 ELSE 2]
===============================================================================
