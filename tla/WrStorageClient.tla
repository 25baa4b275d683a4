---------------------------- MODULE WrStorageClient ----------------------------
(***************************************************************************)
(* The phone's side of the storage service                                 *)
(* (app_mobile/lib/services/wr_storage_client.dart): sessions that ask for *)
(* the status, the list of files or a window of a file, and their two      *)
(* callers, the background sync (wr_sd_sync.dart) and the storage page     *)
(* (storage_page.dart), each with a session of its own on the same pair of *)
(* characteristics.                                                        *)
(*                                                                         *)
(* A notification carries no request id and is heard by every subscribed   *)
(* session.  Commands and notifications keep their order and are not lost  *)
(* on the link, but take any time; an operation may be given up before its *)
(* answer comes.  Everything between two awaits of the client is one step. *)
(* The device is external: one transfer at a time, ERROR to a command      *)
(* during it, as wr_storage_service.c does; STATUS, windows and FILE_SIZE  *)
(* are what the client expects of it.                                      *)
(***************************************************************************)
EXTENDS Integers, Sequences, FiniteSets, SequencesExt

CONSTANTS
  Sessions,    \* {"sync"} or {"sync", "page"}
  Dir,         \* closed files of the device, in the order of a listing
  Live,        \* the file that is being recorded
  Size,        \* file -> blocks
  Window,      \* blocks asked for at a time
  Offsets,     \* blocks of a file a caller may already have
  MaxQueue,    \* commands on their way to the device
  MaxAir,      \* notifications on their way to the phone
  None

Closed == ToSet(Dir)
Files == Closed \cup {Live}
Windows(S) == {<<"window", f, p>> : f \in S, p \in Offsets}
List == <<"list">>
Status == <<"status">>
Requests == Windows(Files) \cup {List, Status}

ASSUME ClientAssumption ==
  /\ Sessions \subseteq {"sync", "page"} /\ "sync" \in Sessions
  /\ Live \notin Closed
  /\ Size \in [Files -> Nat]
  /\ Window \in Nat \ {0} /\ Offsets \subseteq Nat
  /\ Dir \in Seq(Closed) /\ None \notin Requests
  /\ MaxQueue \in Nat \ {0, 1} /\ MaxAir \in Nat \ {0}

VARIABLES
  commands,    \* written and not yet seen by the device
  air,         \* notifications and write responses not yet seen by the phone
  notifying,   \* the device's CCC
  transfer,    \* the device's transfer: request and notifications sent, or None
  step,        \* what the caller of a session is at
  rest,        \* closed files the sync has not tried in this pass
  waiting,     \* a session's operations behind _operationTail
  op,          \* the operation that runs, or None
  locked,      \* _operationTail is not completed
  listening,   \* _sub is set
  collected,   \* chunks or files (how many of those asked for, and whether
               \* others too) and committed
  shared       \* history: another session wrote, or an operation was given up,
               \* since this session was last closed with none under way

link == <<commands, air, notifying, transfer>>
session == <<waiting, op, locked, listening, collected>>
callers == <<step, rest>>
vars == <<link, callers, session, shared>>

Nothing == [items |-> 0, others |-> FALSE, size |-> 0]
Each(v) == [s \in Sessions |-> v]

Init ==
  /\ commands = <<>> /\ air = <<>> /\ notifying = FALSE /\ transfer = None
  /\ step = Each("away") /\ rest = {}
  /\ waiting = Each(<<>>) /\ op = Each(None) /\ locked = Each(FALSE)
  /\ listening = Each(FALSE) /\ collected = Each(Nothing)
  /\ shared = Each(FALSE)

-------------------------------------------------------------------------------
(* The device *)

\* What a request is answered with if all goes well, END excepted.
Contents(r) ==
  IF r = List THEN Dir
  ELSE LET last == IF r[3] + Window < Size[r[2]] THEN r[3] + Window ELSE Size[r[2]]
       IN [i \in 1..(IF last > r[3] THEN last - r[3] ELSE 0) |-> <<r[2], r[3] + i>>]

Answer(r) ==
  IF r = List THEN [i \in DOMAIN Dir |-> <<"entry", Dir[i]>>]
  ELSE <<<<"size", Size[r[2]]>>>> \o [i \in DOMAIN Contents(r) |-> <<"data", Contents(r)[i]>>]

Notify(n) == air' = IF notifying THEN Append(air, n) ELSE air

TakeCommand ==
  /\ commands # <<>> /\ Len(air) < MaxAir
  /\ commands' = Tail(commands)
  /\ LET c == Head(commands) IN
     \/ /\ c = Status
        /\ \E n \in {"status", "error"} : Notify(<<n>>)
        /\ UNCHANGED <<notifying, transfer>>
     \/ /\ c = List \/ c[1] = "window"
        /\ IF transfer = None
             THEN transfer' = [request |-> c, sent |-> 0] /\ UNCHANGED air
             ELSE Notify(<<"error">>) /\ UNCHANGED transfer
        /\ UNCHANGED notifying
     \/ /\ c[1] = "abort"
        /\ transfer' = None
        /\ UNCHANGED <<air, notifying>>
     \/ /\ c[1] \in {"on", "off"}
        /\ notifying' = (c[1] = "on")
        /\ transfer' = IF notifying' THEN transfer ELSE None
        /\ air' = Append(air, <<"response", c[2]>>)
  /\ UNCHANGED <<callers, session, shared>>

Send ==
  /\ transfer # None /\ Len(air) < MaxAir
  /\ LET answer == Answer(transfer.request) IN
     \/ /\ transfer.sent < Len(answer)
        /\ Notify(answer[transfer.sent + 1])
        /\ transfer' = [transfer EXCEPT !.sent = @ + 1]
     \* the end, or an error on the card; the service says END after either
     \/ /\ \E n \in {"end", "error"} : Notify(<<n>>)
        /\ transfer.sent > 0 \/ transfer.request = List
        /\ transfer' = None
  /\ UNCHANGED <<commands, notifying, callers, session, shared>>

-------------------------------------------------------------------------------
(* The callers *)

Write(s, cs) ==
  /\ Len(commands) + Len(cs) <= MaxQueue
  /\ commands' = commands \o cs
  /\ shared' = [t \in Sessions |-> shared[t] \/ t # s]

\* fromServices: setNotifyValue(true).
Open(s) ==
  /\ step[s] = "away"
  /\ ~locked[s] /\ waiting[s] = <<>>    \* else it would be one more session
  /\ Write(s, <<<<"on", s>>>>)
  /\ step' = [step EXCEPT ![s] = "opening"]
  /\ UNCHANGED <<air, notifying, transfer, rest, session>>

\* close(), by a sync that starts over and by a page that is left.  It does not
\* wait for an operation that runs.
Close(s) ==
  /\ step[s] \in {"reopen", "browsing"}
  /\ Len(commands) + 2 <= MaxQueue
  /\ commands' = commands \o <<<<"abort">>, <<"off", s>>>>
  /\ shared' = [t \in Sessions |-> t # s \/ locked[s] \/ waiting[s] # <<>>]
  /\ listening' = [listening EXCEPT ![s] = FALSE]
  /\ step' = [step EXCEPT ![s] = "closing"]
  /\ UNCHANGED <<air, notifying, transfer, rest, waiting, op, locked, collected>>

\* What the caller asks for next: WrSdSync asks for the status, then for the live
\* file or the list, then for closed files; the page for anything.
Wants(s) ==
  CASE step[s] = "status"   -> {Status}
    [] step[s] = "live"     -> Windows({Live}) \cup {List}
    [] step[s] = "list"     -> {List}
    [] step[s] = "closed"   -> Windows(rest) \cup {Status}
    [] step[s] = "browsing" -> Windows(Closed) \cup {List}
    [] OTHER                -> {}

\* Variant: a failed listing is tried again.
AfterSwallowed(r, ok) ==
  CASE r = Status -> (IF ok THEN "live" ELSE "list")
    [] r = List   -> (IF ok THEN "closed" ELSE "status")
    [] OTHER      -> (IF r[2] # Live THEN "closed" ELSE IF ok THEN "live" ELSE "reopen")

\* Where WrSdSync goes on.  Only the failure of a closed file's window does not
\* make it open a new session.
After(r, ok) ==
  CASE r = Status -> (IF ok THEN "live" ELSE "list")
    [] r = List   -> (IF ok THEN "closed" ELSE "reopen")
    [] OTHER      -> (IF r[2] # Live THEN "closed" ELSE IF ok THEN "live" ELSE "reopen")

Goes(s, ok) == IF s = "sync" THEN After(op[s], ok) ELSE step[s]

\* A listing starts a pass over the files it returned (all, if it heard entries of
\* another listing too), which goes on with the file that was read from or, after a
\* failure, without it.
Listed(c) == IF c.others THEN Closed ELSE {Dir[i] : i \in 1..c.items}
RestAfter(r, ok) ==
  IF r = List THEN (IF ok THEN Listed(collected["sync"]) ELSE {})
  ELSE IF r = Status \/ r[2] = Live THEN {}
  ELSE IF ok THEN {r[2]} ELSE rest \ {r[2]}

\* The user of the page need not await an operation to ask for the next.
Ask ==
  /\ "page" \in Sessions
  /\ locked["page"] /\ waiting["page"] = <<>>
  /\ \E r \in Wants("page") : waiting' = [waiting EXCEPT !["page"] = <<r>>]
  /\ UNCHANGED <<link, callers, op, locked, listening, collected, shared>>

-------------------------------------------------------------------------------
(* An operation *)

\* _runSerialized: operations run in the order they were asked for.
Due(s) == IF waiting[s] # <<>> THEN {Head(waiting[s])} ELSE Wants(s)

\* The previous one is over: subscribe, then write the command.
Start(s) ==
  /\ ~locked[s]
  /\ \E r \in Due(s) : op' = [op EXCEPT ![s] = r] /\ Write(s, <<r>>)
  /\ waiting' = [waiting EXCEPT ![s] = <<>>]
  /\ locked' = [locked EXCEPT ![s] = TRUE]
  /\ listening' = [listening EXCEPT ![s] = TRUE]
  /\ collected' = [collected EXCEPT ![s] = Nothing]
  /\ UNCHANGED <<air, notifying, transfer, callers>>

\* Variant: the next operation gets its turn only after one that went well.
ReleasedIfOk(ok) == ok
\* The finally of _runSerialized.
Released(ok) == TRUE

Hears(s) == listening[s] /\ op[s] # None

\* Variant: a window is over once it is full, without waiting for its END.
DoneWhenFull(s, n) ==
  /\ Hears(s)
  /\ IF op[s] = Status THEN n[1] = "status"
     ELSE n[1] = "end" \/ (op[s] # List /\ n[1] = "data" /\ collected[s].items + 1 = Window)
Done(s, n) == Hears(s) /\ n[1] = IF op[s] = Status THEN "status" ELSE "end"
Failed(s, n) == Hears(s) /\ n[1] = "error"
Over(s, n) == Done(s, n) \/ Failed(s, n)

\* Variant: the subscription is cancelled after success only, not in a finally.
StaysSubscribedOnError(s, n) == listening[s] /\ ~Done(s, n)
StaysSubscribed(s, n) == listening[s] /\ ~Over(s, n)

\* One more item: the next of those asked for, or something else.
Added(s, item) ==
  LET contents == Contents(op[s])
      next == collected[s].items + 1
  IN IF next <= Len(contents) /\ ~collected[s].others /\ item = contents[next]
       THEN [collected[s] EXCEPT !.items = next]
       ELSE [items |-> 0, others |-> TRUE, size |-> collected[s].size]

\* What the listener of s keeps of a notification.
Kept(s, n) ==
  IF ~Hears(s) THEN collected[s]
  ELSE CASE n[1] = "entry" /\ op[s] = List         -> Added(s, n[2])
         [] n[1] = "data" /\ op[s][1] = "window"   -> Added(s, n[2])
         [] n[1] = "size" /\ op[s][1] = "window"   -> [collected[s] EXCEPT !.size = n[2]]
         [] OTHER                                  -> collected[s]

\* A notification reaches every session that listens; the operations it ends
\* cancel their subscriptions and let the next one go.
Deliver ==
  /\ air # <<>> /\ Head(air)[1] # "response"
  /\ air' = Tail(air)
  /\ LET n == Head(air) IN
     /\ collected' = [s \in Sessions |-> IF Over(s, n) THEN Nothing ELSE Kept(s, n)]
     /\ step' = [s \in Sessions |-> IF Over(s, n) THEN Goes(s, Done(s, n)) ELSE step[s]]
     /\ rest' = IF Over("sync", n) THEN RestAfter(op["sync"], Done("sync", n)) ELSE rest
     /\ locked' = [s \in Sessions |->
                     IF Over(s, n) THEN ~Released(Done(s, n)) ELSE locked[s]]
     /\ op' = [s \in Sessions |-> IF Over(s, n) THEN None ELSE op[s]]
     /\ listening' = [s \in Sessions |-> StaysSubscribed(s, n)]
  /\ UNCHANGED <<commands, notifying, transfer, waiting, shared>>

\* setNotifyValue has its answer.
Respond ==
  /\ air # <<>> /\ Head(air)[1] = "response"
  /\ air' = Tail(air)
  /\ LET s == Head(air)[2] IN
     step' = [step EXCEPT ![s] =
                IF @ = "closing" THEN "away"
                ELSE IF s = "sync" THEN "status" ELSE "browsing"]
  /\ UNCHANGED <<commands, notifying, transfer, rest, session, shared>>

\* The watchdog of a window or the timeout of a listing or of the status; or the
\* write of the command fails.  The device is not told.
GiveUp(s) ==
  /\ op[s] # None
  /\ op' = [op EXCEPT ![s] = None]
  /\ locked' = [locked EXCEPT ![s] = ~Released(FALSE)]
  /\ listening' = [listening EXCEPT ![s] = FALSE]
  /\ collected' = [collected EXCEPT ![s] = Nothing]
  /\ step' = [step EXCEPT ![s] = Goes(s, FALSE)]
  /\ rest' = IF s = "sync" THEN RestAfter(op[s], FALSE) ELSE rest
  /\ shared' = [shared EXCEPT ![s] = @ \/ op[s] # Status]
  /\ UNCHANGED <<link, waiting>>

-------------------------------------------------------------------------------
Client(s) == Open(s) \/ Close(s) \/ Start(s) \/ GiveUp(s)

Next == TakeCommand \/ Send \/ Deliver \/ Respond \/ Ask \/ \E s \in Sessions : Client(s)

Spec == Init /\ [][Next]_vars

\* Of the device only that it takes what is written to it: it may fall silent.  The
\* timeouts of a listing and of the status come.  The watchdog of a window starts
\* anew with every notification, those for others included; but a transfer comes to
\* its END or ERROR, which the window takes for its own, or falls silent for longer
\* than the watchdog waits.
Fairness ==
  /\ WF_vars(TakeCommand) /\ WF_vars(Deliver \/ Respond)
  /\ \A s \in Sessions : WF_vars(GiveUp(s))
  /\ SF_vars(Open("sync") \/ Close("sync") \/ Start("sync"))
  /\ \A s \in Sessions \ {"sync"} : SF_vars(waiting[s] # <<>> /\ Start(s))

FairSpec == Spec /\ Fairness

-------------------------------------------------------------------------------
(* Properties *)

\* Type of every variable; an operation that runs holds the lock, one that is over
\* has left nothing behind: no subscription and nothing collected.
TypeOK ==
  /\ Len(commands) <= MaxQueue /\ Len(air) <= MaxAir
  /\ notifying \in BOOLEAN /\ rest \subseteq Closed
  /\ transfer # None => transfer.request \in Requests \ {Status}
  /\ \A s \in Sessions :
       /\ step[s] \in {"away", "opening", "status", "live", "list", "closed",
                       "browsing", "reopen", "closing"}
       /\ Len(waiting[s]) <= 1
       /\ op[s] \in Requests \cup {None}
       /\ (op[s] # None) => locked[s]
       /\ (op[s] = None) => ~listening[s] /\ collected[s] = Nothing

\* The value an operation is about to return is what was asked of the device:
\* entries of the listing, or blocks of the window, from the first on, and the size
\* of that file (the documentation of fetchWindow, wr_storage_client.dart:326-332).
Returning(s) == air # <<>> /\ Done(s, Head(air)) /\ op[s] # Status
IsAnswer(s) ==
  /\ ~collected[s].others
  /\ op[s] # List => collected[s].size = Size[op[s][2]]
AnswersOwnRequest == \A s \in Sessions : Returning(s) => IsAnswer(s)

\* A session that no other one got in the way of, and that was closed after each
\* operation it gave up, is told what it asked for, however late the answers of
\* the sessions before it come (close, fromServices, and the order of the
\* subscription and the write in each operation).
AnsweredWhenAlone == \A s \in Sessions : Returning(s) /\ ~shared[s] => IsAnswer(s)

\* A failed transfer does not block the next storage command for ever
\* (wr_storage_client.dart:66), nor does a device that falls silent or a page
\* that is left in the middle of a transfer.
EveryOperationEnds ==
  \A s \in Sessions : /\ locked[s] ~> ~locked[s]
                      /\ waiting[s] # <<>> ~> waiting[s] = <<>>

\* When the page is left, its close() ends the notifications of the sync as well,
\* which is not told; it finds out, and they come back.
NotificationsReturn == ~notifying ~> notifying
===============================================================================
