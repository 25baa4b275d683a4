--------------------------- MODULE WrStorageService ---------------------------
(***************************************************************************)
(* The storage GATT service of the recorder (app/src/wr_storage_service.c):*)
(* a BLE client lists and fetches recorded files from the SD card.         *)
(*                                                                         *)
(* Two threads share wr_state, wr_state_generation, wr_fetch_name and      *)
(* wr_sub_conn.  The Bluetooth RX thread runs the control-point write and  *)
(* CCC callbacks; the storage work queue thread runs the two work items    *)
(* wr_list_work and wr_fetch_work.  Each wr_state_* helper holds           *)
(* wr_state_mutex from its first to its last line and is one step here;    *)
(* the threads interleave between those calls, and before each call of     *)
(* bt_gatt_notify.                                                         *)
(***************************************************************************)
EXTENDS Naturals, Sequences

CONSTANTS
  Names,        \* file names a client may FETCH
  Blocks,       \* [existing names -> number of 494-byte reads until EOF]
  Dir,          \* sequence of the directory's entries, in readdir order
  Listable,     \* entries that end in ".opus" and are not the live recording
  None,         \* NULL
  MaxGen,       \* bound on wr_state_generation (wraps at 2^32 in the code)
  NotifyFails,  \* may bt_gatt_notify fail on a subscribed link?
  ReadFails     \* may fs_opendir, fs_open, fs_read or fs_readdir fail?

ASSUME ServiceAssumption ==
  /\ None \notin Names
  /\ DOMAIN Blocks \subseteq Names
  /\ \A f \in DOMAIN Blocks : Blocks[f] \in Nat
  /\ Dir \in Seq(Names)
  /\ Listable \subseteq Names
  /\ MaxGen \in Nat
  /\ NotifyFails \in BOOLEAN
  /\ ReadFails \in BOOLEAN

VARIABLES
  state,        \* wr_state
  generation,   \* wr_state_generation
  fetchName,    \* wr_fetch_name
  subConn,      \* wr_sub_conn: is it set?
  queue,        \* work items submitted to wr_storage_workq and not yet taken
  rx,           \* what the Bluetooth RX thread does next
  wpc,          \* where the work queue thread is
  wkind,        \* state its handler serves (WR_ST_LISTING or WR_ST_FETCHING)
  wgen,         \* handler's local: generation
  wname,        \* handler's local: fetch_name
  wpos,         \* reads or readdirs its loop has done
  ccc,          \* the client enabled notifications on a live link
  wanted,       \* history: file the current transfer was asked for
  got,          \* history: items of the current transfer the client received
  terminal,     \* history: how the current transfer told the client it is over
  stale,        \* history: notifications of older transfers received since the
                \* generation last changed
  failed,       \* history: the current transfer met an I/O error
  lost          \* history: a notification of the current transfer was lost

shared  == <<state, generation, fetchName, subConn>>
handler == <<wkind, wgen, wname, wpos>>
history == <<wanted, got, terminal, stale, failed, lost>>
vars == <<shared, queue, rx, wpc, handler, ccc, history>>

Kinds == {"LISTING", "FETCHING"}

(* The types, and: a work item is queued at most once, as k_work promises.  *)
TypeOK ==
  /\ state \in Kinds \cup {"IDLE"}
  /\ generation \in 0..MaxGen
  /\ fetchName \in Names \cup {None}
  /\ subConn \in BOOLEAN
  /\ queue \in Seq(Kinds)
  /\ \A i, j \in 1..Len(queue) : i # j => queue[i] # queue[j]
  /\ rx \in {"ready", "busy"} \cup Kinds
  /\ wpc \in {"idle", "snapshot", "open", "check", "read", "endCheck", "finish",
              "notify", "openError", "end"}
  /\ wkind \in Kinds
  /\ wgen \in 0..MaxGen
  /\ wname \in Names \cup {None}
  /\ wpos \in Nat
  /\ ccc \in BOOLEAN
  /\ wanted \in Names \cup {None}
  /\ got \in Seq(Nat)
  /\ terminal \in {"none", "END", "ERROR"}
  /\ stale \in Nat
  /\ failed \in BOOLEAN
  /\ lost \in BOOLEAN

Init ==
  /\ state = "IDLE"
  /\ generation = 0
  /\ fetchName = None
  /\ subConn = FALSE
  /\ queue = <<>>
  /\ rx = "ready"
  /\ wpc = "idle"
  /\ wkind = "LISTING"
  /\ wgen = 0
  /\ wname = None
  /\ wpos = 0
  /\ ccc = FALSE
  /\ wanted = None
  /\ got = <<>>
  /\ terminal = "none"
  /\ stale = 0
  /\ failed = FALSE
  /\ lost = FALSE

-------------------------------------------------------------------------------
(* History of the transfer the client is in: cleared when the generation    *)
(* changes.                                                                 *)
Forget(name) ==
  /\ wanted' = name
  /\ got' = <<>>
  /\ terminal' = "none"
  /\ stale' = 0
  /\ failed' = FALSE
  /\ lost' = FALSE

(* wr_state_begin, called with wr_state = WR_ST_IDLE                        *)
Begin(kind, name) ==
  /\ generation < MaxGen
  /\ state' = kind
  /\ subConn' = TRUE
  /\ fetchName' = IF kind = "FETCHING" THEN name ELSE fetchName
  /\ generation' = generation + 1
  /\ Forget(name)

(* Variant: the name is stored before the state is known to be free. *)
CtrlStartStoresNameFirst(kind, name) ==
  /\ rx = "ready"
  /\ IF state = "IDLE"
       THEN Begin(kind, name) /\ rx' = kind
       ELSE /\ rx' = "busy"
            /\ fetchName' = IF kind = "FETCHING" THEN name ELSE fetchName
            /\ UNCHANGED <<state, generation, subConn, history>>
  /\ UNCHANGED <<queue, wpc, handler, ccc>>

(* wr_storage_ctrl_write, LIST and FETCH: claim the state, or answer ERROR  *)
(* on the stream when a transfer is in progress.                            *)
CtrlStart(kind, name) ==
  /\ rx = "ready"
  /\ IF state = "IDLE"
       THEN Begin(kind, name) /\ rx' = kind
       ELSE rx' = "busy" /\ UNCHANGED <<shared, history>>
  /\ UNCHANGED <<queue, wpc, handler, ccc>>

CtrlList == CtrlStart("LISTING", None)

CtrlFetch(name) == CtrlStart("FETCHING", name)

(* Variants: an item is queued twice; a running item is not queued again.   *)
EnqueuedTwice(k) == Append(queue, k)
EnqueuedUnlessRunning(k) ==
  IF (wpc # "idle" /\ wkind = k) \/ (\E i \in 1..Len(queue) : queue[i] = k)
    THEN queue ELSE Append(queue, k)

(* The queue after k_work_submit_to_queue: no effect while the item is      *)
(* already queued; an item that is running is queued once more.             *)
Enqueued(k) == IF \E i \in 1..Len(queue) : queue[i] = k
                 THEN queue ELSE Append(queue, k)

Submit ==
  /\ rx \in Kinds
  /\ queue' = Enqueued(rx)
  /\ rx' = "ready"
  /\ UNCHANGED <<shared, wpc, handler, ccc, history>>

(* wr_notify(ERROR) of a rejected command: delivered or not, nothing of the *)
(* running transfer changes.  (What the phone makes of an ERROR on the      *)
(* stream of its transfer is in WrStorageClient.)                           *)
RejectBusy ==
  /\ rx = "busy"
  /\ rx' = "ready"
  /\ UNCHANGED <<shared, queue, wpc, handler, ccc, history>>

(* Variant: ABORT leaves the generation alone. *)
AbortedGenerationKept == generation

(* ABORT makes every handler under way an old one. *)
AbortedGeneration == generation + 1

(* wr_state_abort *)
CtrlAbort ==
  /\ rx = "ready"
  /\ generation < MaxGen
  /\ state' = "IDLE"
  /\ generation' = AbortedGeneration
  /\ Forget(None)
  /\ UNCHANGED <<fetchName, subConn, queue, rx, wpc, handler, ccc>>

(* wr_storage_ccc_changed: notifications enabled; nothing but a log line    *)
Subscribe ==
  /\ rx = "ready"
  /\ ~ccc
  /\ ccc' = TRUE
  /\ UNCHANGED <<shared, queue, rx, wpc, handler, history>>

(* wr_storage_ccc_changed with notifications disabled, by the client or by  *)
(* the stack when the link is lost: wr_state_unsubscribe                    *)
Unsubscribe ==
  /\ rx = "ready"
  /\ ccc
  /\ generation < MaxGen
  /\ ccc' = FALSE
  /\ state' = "IDLE"
  /\ subConn' = FALSE
  /\ generation' = generation + 1
  /\ Forget(None)
  /\ UNCHANGED <<fetchName, queue, rx, wpc, handler>>

RxThread ==
  \/ CtrlList
  \/ \E name \in Names : CtrlFetch(name)
  \/ Submit
  \/ RejectBusy
  \/ CtrlAbort
  \/ Subscribe
  \/ Unsubscribe

-------------------------------------------------------------------------------
(* The storage work queue thread. *)

(* Variant: the state alone is compared. *)
MatchesState(kind, gen) == state = kind

(* wr_state_matches *)
Matches(kind, gen) == state = kind /\ generation = gen

(* The queue hands the next item to its handler. *)
TakeWork ==
  /\ wpc = "idle"
  /\ queue # <<>>
  /\ wpc' = "snapshot"
  /\ wkind' = Head(queue)
  /\ queue' = Tail(queue)
  /\ UNCHANGED <<shared, rx, wgen, wname, wpos, ccc, history>>

(* wr_state_snapshot: copy connection, generation and file name, or return  *)
Snapshot ==
  /\ wpc = "snapshot"
  /\ IF state = wkind /\ subConn
       THEN /\ wpc' = "open"
            /\ wgen' = generation
            /\ wname' = IF wkind = "FETCHING" THEN fetchName ELSE None
            /\ wpos' = 0
       ELSE /\ wpc' = "idle"
            /\ UNCHANGED <<wgen, wname, wpos>>
  /\ UNCHANGED <<shared, queue, rx, wkind, ccc, history>>

(* An I/O error, and a lost notification, of the current transfer. *)
Fail == failed' = (failed \/ wgen = generation)
Lose == lost' = (lost \/ wgen = generation)

(* fs_opendir / fs_open. A file that is not on the card does not open.      *)
OpenOk ==
  /\ wpc = "open"
  /\ wkind = "FETCHING" => wname \in DOMAIN Blocks
  /\ wpc' = "check"
  /\ UNCHANGED <<shared, queue, rx, handler, ccc, history>>

OpenError ==
  /\ wpc = "open"
  /\ ReadFails \/ (wkind = "FETCHING" /\ wname \notin DOMAIN Blocks)
  /\ wpc' = "openError"
  /\ Fail
  /\ UNCHANGED <<shared, queue, rx, handler, ccc, wanted, got, terminal,
                 stale, lost>>

(* The loop condition's wr_state_matches. *)
CheckLoop ==
  /\ wpc = "check"
  /\ wpc' = IF Matches(wkind, wgen) THEN "read" ELSE "endCheck"
  /\ UNCHANGED <<shared, queue, rx, handler, ccc, history>>

Length == IF wkind = "FETCHING" THEN Blocks[wname] ELSE Len(Dir)

(* Variant: an entry that is not listable ends the listing. *)
SkipEndsListing == "endCheck"

(* A directory entry that is not listable goes back to the loop condition.  *)
Skip == "check"

(* fs_read / fs_readdir: the next block or entry, the end, or an error that *)
(* ends the loop in the same way.                                           *)
Read ==
  /\ wpc = "read"
  /\ wpos < Length
  /\ wpos' = wpos + 1
  /\ wpc' = IF wkind = "LISTING" /\ Dir[wpos'] \notin Listable
              THEN Skip ELSE "notify"
  /\ UNCHANGED <<shared, queue, rx, wkind, wgen, wname, ccc, history>>

ReadEnd ==
  /\ wpc = "read"
  /\ wpos >= Length
  /\ wpc' = "endCheck"
  /\ UNCHANGED <<shared, queue, rx, handler, ccc, history>>

ReadError ==
  /\ wpc = "read"
  /\ ReadFails
  /\ wpc' = "endCheck"
  /\ Fail
  /\ UNCHANGED <<shared, queue, rx, handler, ccc, wanted, got, terminal,
                 stale, lost>>

(* wr_notify(FILE_ENTRY or DATA) succeeded: the client receives it, as part *)
(* of the transfer it believes it is in.                                    *)
NotifyItem ==
  /\ wpc = "notify"
  /\ ccc
  /\ IF wgen = generation
       THEN got' = Append(got, wpos) /\ UNCHANGED stale
       ELSE stale' = stale + 1 /\ UNCHANGED got
  /\ wpc' = "check"
  /\ UNCHANGED <<shared, queue, rx, handler, ccc, wanted, terminal,
                 failed, lost>>

(* wr_notify failed: not subscribed, link gone, or the transmit queue still *)
(* full after 10 retries.  The loop breaks.                                 *)
NotifyItemError ==
  /\ wpc = "notify"
  /\ ~ccc \/ NotifyFails
  /\ wpc' = "endCheck"
  /\ Lose
  /\ UNCHANGED <<shared, queue, rx, handler, ccc, wanted, got, terminal,
                 stale, failed>>

(* The second wr_state_matches, before END. *)
CheckEnd ==
  /\ wpc = "endCheck"
  /\ wpc' = IF Matches(wkind, wgen) THEN "end" ELSE "finish"
  /\ UNCHANGED <<shared, queue, rx, handler, ccc, history>>

(* Variant: the handler returns after ERROR without wr_state_finish. *)
AfterAnswerNoFinish == IF wpc = "end" THEN "finish" ELSE "idle"

(* END and ERROR both go on to wr_state_finish. *)
AfterAnswer == "finish"

(* wr_notify(END), or wr_notify(ERROR) when the file did not open; a failed *)
(* notification is not retried.                                             *)
NotifyTerminal ==
  /\ wpc \in {"end", "openError"}
  /\ \/ /\ ccc
        /\ IF wgen = generation
             THEN /\ terminal' = IF wpc = "end" THEN "END" ELSE "ERROR"
                  /\ UNCHANGED stale
             ELSE stale' = stale + 1 /\ UNCHANGED terminal
        /\ UNCHANGED lost
     \/ /\ ~ccc \/ NotifyFails
        /\ Lose
        /\ UNCHANGED <<terminal, stale>>
  /\ wpc' = AfterAnswer
  /\ UNCHANGED <<shared, queue, rx, handler, ccc, wanted, got,
                 failed>>

(* Variant: the handler always resets the state. *)
FinishedAlways == "IDLE"

(* The state after wr_state_finish. *)
Finished == IF Matches(wkind, wgen) THEN "IDLE" ELSE state

Finish ==
  /\ wpc = "finish"
  /\ state' = Finished
  /\ wpc' = "idle"
  /\ UNCHANGED <<generation, fetchName, subConn, queue, rx, handler, ccc, history>>

WorkThread ==
  \/ TakeWork
  \/ Snapshot
  \/ OpenOk
  \/ OpenError
  \/ CheckLoop
  \/ Read
  \/ ReadEnd
  \/ ReadError
  \/ NotifyItem
  \/ NotifyItemError
  \/ CheckEnd
  \/ NotifyTerminal
  \/ Finish

Next == RxThread \/ WorkThread

Spec == Init /\ [][Next]_vars

(* The threads run: the RX thread returns from the calls it is in, and the  *)
(* work queue thread is scheduled whenever it is ready.  The client owes    *)
(* nothing.                                                                 *)
FairSpec ==
  /\ Spec
  /\ WF_vars(Submit \/ RejectBusy)
  /\ WF_vars(WorkThread)

-------------------------------------------------------------------------------
(* Properties *)

(* The handler serves a transfer: it has taken its snapshot.                *)
Serving == wpc \notin {"idle", "snapshot"}

(* The blocks of the file, or the places in the directory of its listable   *)
(* entries; and: the client has received those up to n, once and in order.  *)
Items ==
  IF wanted = None THEN {i \in 1..Len(Dir) : Dir[i] \in Listable}
                   ELSE 1..Blocks[wanted]
Received(n) ==
  /\ \A i, j \in 1..Len(got) : i < j => got[i] < got[j]
  /\ {got[i] : i \in 1..Len(got)} = {i \in Items : i <= n}
Complete == Received(IF wanted = None THEN Len(Dir) ELSE Blocks[wanted])

(* When a transfer that met no error and lost no notification tells the     *)
(* client END, the client has received every block of the file, or every    *)
(* listable entry, once and in order, whatever was cancelled or rejected    *)
(* before.                                                                  *)
EndMeansComplete == (terminal = "END" /\ ~failed /\ ~lost) => Complete

(* A handler that serves the current transfer serves the file this transfer *)
(* was asked for: the name is copied with the generation, and a rejected    *)
(* FETCH does not overwrite it.                                             *)
SendsRequestedFile ==
  (Serving /\ wgen = generation /\ wkind = "FETCHING")
    => wname = wanted

(* An ABORT, an unsubscribe or a new command lets the handler of the older  *)
(* transfer slip at most one more notification to the client: the           *)
(* generation is checked before each read and before END.                   *)
AtMostOneStale == stale <= 1

(* A transfer only goes back to IDLE on its own, without ABORT or           *)
(* unsubscribe, after its handler told the client END or ERROR, or failed   *)
(* to: an older handler that finishes late never closes a newer transfer.   *)
ClosedOnlyWhenAnswered ==
  [][(state # "IDLE" /\ state' = "IDLE" /\ generation' = generation)
       => (terminal # "none" \/ lost)]_vars

(* END means the end of the listing or of the file, as the protocol table   *)
(* in the header of wr_storage_service.c says.                              *)
EndMeansEnd == terminal = "END" => Complete

(* The service never stays busy: each transfer ends, is aborted or loses    *)
(* its subscriber, so that a later command is accepted.                     *)
EveryTransferEnds == (state # "IDLE") ~> (state = "IDLE")

(* Each accepted command is answered by END or ERROR unless the client      *)
(* cancels it, unsubscribes, or a notification cannot be delivered.         *)
AcceptedIsAnswered ==
  \A gen \in 1..MaxGen :
    (generation = gen /\ state # "IDLE")
      ~> (generation # gen \/ terminal # "none" \/ lost)

(* Positions from which the handler can reach a wr_notify with no check of  *)
(* the generation in between.                                               *)
MaySend == {"open", "openError", "read", "notify", "end"}

(* A cancelled transfer whose handler can still send.                       *)
Residue == IF wpc \in MaySend /\ wgen # generation THEN 1 ELSE 0

Transfer == INSTANCE WrTransfer WITH
  open  <- state # "IDLE",
  items <- Len(got),
  debt  <- Residue,
  noise <- stale

(* Seen from the phone the service is the abstract transfer: one open       *)
(* transfer, and at most one notification of a cancelled one on its way.    *)
ImplementsTransfer == Transfer!Spec
===============================================================================
