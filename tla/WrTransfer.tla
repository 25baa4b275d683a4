----------------------------- MODULE WrTransfer -----------------------------
(***************************************************************************)
(* What the storage service promises to the phone, without threads, work   *)
(* items or generations: at most one transfer is open; its notifications   *)
(* are only sent while it is open; and cancelling it (ABORT, unsubscribe)  *)
(* leaves at most one notification of it still on its way, which may reach *)
(* the phone later, even inside the next transfer.                         *)
(* WrStorageService implements this module.                                *)
(***************************************************************************)
EXTENDS Naturals

VARIABLES
  open,    \* a transfer is in progress
  items,   \* notifications the phone received from the open transfer
  debt,    \* cancelled transfers with a notification still on its way
  noise    \* notifications of cancelled transfers the phone received since
           \* a transfer was last opened or cancelled

vars == <<open, items, debt, noise>>

TypeOK ==
  /\ open \in BOOLEAN
  /\ items \in Nat
  /\ debt \in 0..1
  /\ noise \in 0..1

Init ==
  /\ open = FALSE
  /\ items = 0
  /\ debt = 0
  /\ noise = 0

\* A LIST or FETCH is accepted.
Open ==
  /\ ~open
  /\ open' = TRUE
  /\ items' = 0
  /\ noise' = 0
  /\ UNCHANGED debt

\* The open transfer sends one notification.
Item ==
  /\ open
  /\ items' = items + 1
  /\ UNCHANGED <<open, debt, noise>>

\* The open transfer is over.
Close ==
  /\ open
  /\ open' = FALSE
  /\ UNCHANGED <<items, debt, noise>>

\* ABORT or unsubscribe, with or without a transfer: if there was one it may
\* leave a notification on its way.
Cancel ==
  /\ open' = FALSE
  /\ items' = 0
  /\ noise' = 0
  /\ debt' \in {debt, 1}
  /\ debt' # debt => open

\* The notification a cancelled transfer left on its way arrives, or is lost.
Settle ==
  /\ debt = 1
  /\ debt' = 0
  /\ noise' \in {noise, noise + 1}
  /\ noise' <= 1
  /\ UNCHANGED <<open, items>>

Next == Open \/ Item \/ Close \/ Cancel \/ Settle

Spec == Init /\ [][Next]_vars
=============================================================================
