------------------------------- MODULE MCSdSync -------------------------------
(***************************************************************************)
(* Small instances of WrSdSync: frames of two bytes (a length and one byte *)
(* of payload), chunks of two frames, windows of three bytes, so that a    *)
(* window may hold no chunk, end inside a frame or complete a chunk, and a *)
(* closed file ends inside a frame.                                        *)
(***************************************************************************)
EXTENDS WrSdSync

MCContent == <<1, 0, 1, 0, 1>>
MCSizes == {3, 5}
MCFullSize == {5}
MCStopSizes == {3, 4}
MCBase == [f \in Files |-> [v \in 0..MaxReuses |-> 10 * f + 5 * v]]
MCSlots == UNION {{Base[f][v] + k : k \in 0..4} : f \in Files, v \in 0..MaxReuses}

\* Every await of the drain loop but those of a checkpoint under way.
NotSaving == Points \ {"writePending", "saveOffset", "saveIndex"}
BetweenPreferences == {"saveIndex"}
InFlush == {"window", "write", "delete", "rename", "cut", "closedEnd"}
Everywhere == Points
Nowhere == {}
===============================================================================
