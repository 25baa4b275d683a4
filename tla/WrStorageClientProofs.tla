------------------------- MODULE WrStorageClientProofs -------------------------
(***************************************************************************)
(* The types of WrStorageClient, for every device, every window and every  *)
(* length of the queues; they include that an operation which is over, by  *)
(* its answer, an error, a timeout or with its session closed under it, has*)
(* left no subscription and nothing collected to the next one. And that a  *)
(* session no other one got in the way of returns what it asked for: by an *)
(* invariant, AloneInv, of what is on the way between it and the device.   *)
(***************************************************************************)
EXTENDS WrStorageClient, SequenceTheorems, TLAPS

Steps == {"away", "opening", "status", "live", "list", "closed", "browsing", "reopen",
          "closing"}
Commands == Requests \cup {<<"abort">>} \cup {"on", "off"} \X Sessions
Notifications ==
  {<<"status">>, <<"error">>, <<"end">>}
    \cup {"entry"} \X Closed \cup {"size"} \X Nat \cup {"data"} \X (Files \X Nat)
    \cup {"response"} \X Sessions
Transfers == [request : Requests \ {Status}, sent : Nat]
Collections == [items : Nat, others : BOOLEAN, size : Nat]

(* The inductive invariant: a listing has no more entries than were asked   *)
(* for, else the pass that follows would be over files that are none.       *)
LinkTypes ==
  /\ commands \in Seq(Commands) /\ Len(commands) <= MaxQueue
  /\ air \in Seq(Notifications) /\ Len(air) <= MaxAir
  /\ notifying \in BOOLEAN /\ transfer \in Transfers \cup {None}
CallerTypes == step \in [Sessions -> Steps] /\ rest \subseteq Closed
SessionTypes ==
  /\ waiting \in [Sessions -> Seq(Requests)]
  /\ op \in [Sessions -> Requests \cup {None}]
  /\ locked \in [Sessions -> BOOLEAN] /\ listening \in [Sessions -> BOOLEAN]
  /\ collected \in [Sessions -> Collections]
Tidy(s) ==
  /\ Len(waiting[s]) <= 1
  /\ op[s] # None => locked[s]
  /\ op[s] = None => ~listening[s] /\ collected[s] = Nothing
  /\ op[s] = List => collected[s].items <= Len(Dir)
CInv == LinkTypes /\ CallerTypes /\ SessionTypes /\ \A s \in Sessions : Tidy(s)

(* Facts about the constants.                                               *)
LEMMA Constants ==
  /\ Dir \in Seq(Closed) /\ None \notin Requests /\ Sessions \subseteq {"sync", "page"}
  /\ "sync" \in Sessions /\ Live \notin Closed /\ Window \in Nat /\ Offsets \subseteq Nat
  /\ \A f \in Files : Size[f] \in Nat
  /\ MaxQueue \in Nat /\ MaxAir \in Nat /\ MaxQueue > 1 /\ MaxAir > 0
  BY ClientAssumption

(* A request is the status, the list or a window of a file.                 *)
LEMMA RequestKinds ==
  /\ List \in Requests /\ Status \in Requests /\ List # Status
  /\ Nothing \in Collections /\ Closed \subseteq Files /\ Live \in Files
  /\ \A S \in SUBSET Files : Windows(S) \subseteq Requests
  /\ \A r \in Requests \ {List, Status} :
       /\ r[1] = "window" /\ r[2] \in Files /\ r[3] \in Nat
       /\ r = <<"window", r[2], r[3]>>
  /\ List[1] = "list" /\ Status[1] = "status"
  <1>1. \A S \in SUBSET Files : Windows(S) \subseteq Windows(Files)
    BY DEF Windows
  <1>2. \A r \in Windows(Files) : /\ r[1] = "window" /\ r[2] \in Files /\ r[3] \in Nat
                                  /\ r = <<"window", r[2], r[3]>>
    BY Constants DEF Windows
  <1>3. List # Status /\ List[1] = "list" /\ Status[1] = "status"
    BY DEF List, Status
  <1>4. Nothing \in Collections /\ Closed \subseteq Files /\ Live \in Files
    BY DEF Nothing, Collections, Files
  <1> QED
    BY <1>1, <1>2, <1>3, <1>4 DEF Requests

(* What the device answers.                                                 *)
LEMMA AnswerTypes ==
  ASSUME NEW r \in Requests \ {Status}, NEW i \in Nat, i < Len(Answer(r))
  PROVE  Answer(r)[i + 1] \in Notifications
  <1>1. CASE r = List
    <2>1. DOMAIN Dir = 1..Len(Dir) /\ \A j \in DOMAIN Dir : Dir[j] \in Closed
      BY Constants
    <2>2. Answer(r) = [j \in 1..Len(Dir) |-> <<"entry", Dir[j]>>] /\ Len(Answer(r)) = Len(Dir)
      BY <1>1, <2>1, Constants DEF Answer
    <2> QED
      BY <2>1, <2>2 DEF Notifications
  <1>2. CASE r # List
    <2>1. r[2] \in Files /\ r[3] \in Nat /\ Size[r[2]] \in Nat
      BY <1>2, RequestKinds, Constants
    <2> DEFINE last == IF r[3] + Window < Size[r[2]] THEN r[3] + Window ELSE Size[r[2]]
               n == IF last > r[3] THEN last - r[3] ELSE 0
               blocks == [j \in 1..n |-> <<"data", <<r[2], r[3] + j>>>>]
               head == <<<<"size", Size[r[2]]>>>>
    <2>2. n \in Nat
      BY <2>1, Constants
    <2>3. Contents(r) = [j \in 1..n |-> <<r[2], r[3] + j>>]
      BY <1>2 DEF Contents
    <2>4. DOMAIN Contents(r) = 1..n /\ \A j \in 1..n : Contents(r)[j] = <<r[2], r[3] + j>>
      BY <2>3
    <2>5. Answer(r) = head \o blocks
      BY <1>2, <2>4 DEF Answer
    <2>6. head \in Seq(Notifications) /\ blocks \in Seq(Notifications)
      <3>1. <<"size", Size[r[2]]>> \in Notifications
        BY <2>1 DEF Notifications
      <3>2. \A j \in 1..n : <<"data", <<r[2], r[3] + j>>>> \in Notifications
        BY <2>1, <2>2 DEF Notifications
      <3>3. blocks \in [1..n -> Notifications]
        BY <3>2
      <3> HIDE DEF blocks, n
      <3> QED
        BY <2>2, <3>1, <3>3
    <2> HIDE DEF head, blocks, n, last
    <2>7. Answer(r) \in Seq(Notifications)
      BY <2>5, <2>6
    <2> QED
      BY <2>7
  <1> QED
    BY <1>1, <1>2

(* What a caller asks for is a request, where it goes on is a step.         *)
LEMMA WantsTypes ==
  ASSUME CallerTypes, NEW s \in Sessions
  PROVE  Wants(s) \subseteq Requests
  <1>1. /\ Windows({Live}) \subseteq Requests /\ Windows(rest) \subseteq Requests
        /\ Windows(Closed) \subseteq Requests
    BY RequestKinds DEF CallerTypes
  <1> QED
    BY <1>1, RequestKinds DEF Wants

(* A caller goes on to one of its steps ...                                 *)
LEMMA GoesTypes ==
  ASSUME CallerTypes, NEW s \in Sessions, NEW ok \in BOOLEAN
  PROVE  Goes(s, ok) \in Steps
  <1>1. After(op[s], ok) \in Steps
    BY DEF After, Steps
  <1> QED
    BY <1>1 DEF Goes, CallerTypes

(* ... and the sync takes to a pass only files that were listed.            *)
LEMMA RestTypes ==
  ASSUME CInv, op["sync"] # None, NEW ok \in BOOLEAN
  PROVE  RestAfter(op["sync"], ok) \subseteq Closed
  <1> DEFINE r == op["sync"]
  <1>1. r \in Requests /\ Tidy("sync") /\ collected["sync"].items \in Nat
    BY Constants DEF CInv, SessionTypes, Collections
  <1>2. CASE r = List
    <2>1. collected["sync"].items <= Len(Dir)
      BY <1>1, <1>2 DEF Tidy
    <2>2. \A i \in 1..collected["sync"].items : Dir[i] \in Closed
      BY <1>1, <2>1, Constants
    <2>3. Listed(collected["sync"]) \subseteq Closed
      BY <2>2 DEF Listed
    <2> QED
      BY <1>2, <2>3 DEF RestAfter
  <1>3. CASE r # List /\ (r = Status \/ r[2] = Live)
    BY <1>3 DEF RestAfter
  <1>4. CASE r # List /\ ~(r = Status \/ r[2] = Live)
    <2>1. r[2] \in Closed
      BY <1>1, <1>4, RequestKinds DEF Files
    <2> QED
      BY <1>4, <2>1 DEF RestAfter, CInv, CallerTypes
  <1> QED
    BY <1>2, <1>3, <1>4

(* Every step keeps the types of the link ...                               *)
LEMMA NextLink == CInv /\ [Next]_vars => LinkTypes'
  <1> SUFFICES ASSUME CInv, [Next]_vars PROVE LinkTypes'
    OBVIOUS
  <1>0. LinkTypes
    BY DEF CInv
  <1>a. ASSUME NEW n \in Notifications, Len(air) < MaxAir
        PROVE  Append(air, n) \in Seq(Notifications) /\ Len(Append(air, n)) <= MaxAir
    BY <1>0, <1>a, Constants DEF LinkTypes
  <1>b. ASSUME NEW cs \in Seq(Commands), Len(commands) + Len(cs) <= MaxQueue
        PROVE  commands \o cs \in Seq(Commands) /\ Len(commands \o cs) <= MaxQueue
    BY <1>0, <1>b DEF LinkTypes
  <1>1. CASE TakeCommand
    <2> DEFINE c == Head(commands)
    <2>1. c \in Commands /\ commands' \in Seq(Commands) /\ Len(commands') <= MaxQueue
      BY <1>0, <1>1, Constants DEF TakeCommand, LinkTypes
    <2>2. /\ \A n \in {"status", "error"} : <<n>> \in Notifications
          /\ \A s \in Sessions : <<"response", s>> \in Notifications
      BY DEF Notifications
    <2>3. CASE c = Status
      <3>1. PICK n \in {"status", "error"} : Notify(<<n>>)
        BY <1>1, <2>3, RequestKinds DEF TakeCommand, Status, List
      <3>2. air' \in Seq(Notifications) /\ Len(air') <= MaxAir
        BY <1>0, <1>1, <1>a, <2>2, <3>1 DEF TakeCommand, Notify, LinkTypes
      <3>3. UNCHANGED <<notifying, transfer>>
        BY <1>1, <2>3 DEF TakeCommand, Status, List
      <3> QED
        BY <1>0, <2>1, <3>2, <3>3 DEF LinkTypes
    <2>4. CASE c = List \/ c[1] = "window"
      <3>1. c \in Requests \ {Status}
        BY <2>1, <2>4, RequestKinds DEF Commands, Status, List
      <3>2. \/ transfer' = [request |-> c, sent |-> 0] /\ UNCHANGED air
            \/ Notify(<<"error">>) /\ UNCHANGED transfer
        BY <1>1, <2>4 DEF TakeCommand, Status, List
      <3>3. UNCHANGED notifying
        BY <1>1, <2>4 DEF TakeCommand, Status, List
      <3>4. air' \in Seq(Notifications) /\ Len(air') <= MaxAir
        BY <1>0, <1>1, <1>a, <2>2, <3>2 DEF TakeCommand, Notify, LinkTypes
      <3>5. transfer' \in Transfers \cup {None}
        BY <1>0, <3>1, <3>2 DEF LinkTypes, Transfers
      <3> QED
        BY <1>0, <2>1, <3>3, <3>4, <3>5 DEF LinkTypes
    <2>5. CASE c # Status /\ c # List /\ c[1] = "abort"
      BY <1>0, <1>1, <2>1, <2>5 DEF TakeCommand, LinkTypes
    <2>6. CASE c # Status /\ c # List /\ c[1] \in {"on", "off"}
      <3>1. c[2] \in Sessions
        BY <2>1, <2>6, RequestKinds DEF Commands
      <3>2. /\ notifying' \in BOOLEAN /\ transfer' \in {transfer, None}
            /\ air' = Append(air, <<"response", c[2]>>) /\ Len(air) < MaxAir
        BY <1>1, <2>6 DEF TakeCommand
      <3> QED
        BY <1>0, <1>a, <2>1, <2>2, <3>1, <3>2 DEF LinkTypes
    <2> QED
      BY <1>1, <2>3, <2>4, <2>5, <2>6 DEF TakeCommand
  <1>2. CASE Send
    <2>1. transfer \in Transfers /\ Len(air) < MaxAir /\ UNCHANGED <<commands, notifying>>
      BY <1>0, <1>2 DEF Send, LinkTypes
    <2>2. transfer.request \in Requests \ {Status} /\ transfer.sent \in Nat
      BY <2>1 DEF Transfers
    <2>3. CASE /\ transfer.sent < Len(Answer(transfer.request))
               /\ Notify(Answer(transfer.request)[transfer.sent + 1])
               /\ transfer' = [transfer EXCEPT !.sent = @ + 1]
      <3>1. Answer(transfer.request)[transfer.sent + 1] \in Notifications
        BY <2>2, <2>3, AnswerTypes
      <3>2. transfer' \in Transfers
        BY <2>1, <2>3 DEF Transfers
      <3> QED
        BY <1>0, <1>a, <2>1, <2>3, <3>1, <3>2 DEF Notify, LinkTypes
    <2>4. CASE (\E n \in {"end", "error"} : Notify(<<n>>)) /\ transfer' = None
      <3>1. \A n \in {"end", "error"} : <<n>> \in Notifications
        BY DEF Notifications
      <3> QED
        BY <1>0, <1>a, <2>1, <2>4, <3>1 DEF Notify, LinkTypes
    <2> QED
      BY <1>2, <2>3, <2>4 DEF Send
  <1>3. CASE Deliver \/ Respond
    <2>1. air # <<>> /\ air' = Tail(air) /\ UNCHANGED <<commands, notifying, transfer>>
      BY <1>3 DEF Deliver, Respond
    <2> QED
      BY <1>0, <2>1, Constants DEF LinkTypes
  <1>4. ASSUME NEW s \in Sessions, NEW cs \in Seq(Commands), Write(s, cs) \/
                 (Len(commands) + Len(cs) <= MaxQueue /\ commands' = commands \o cs),
               UNCHANGED <<air, notifying, transfer>>
        PROVE  LinkTypes'
    BY <1>0, <1>4, <1>b DEF Write, LinkTypes
  <1>5. ASSUME NEW s \in Sessions, Open(s)
        PROVE  LinkTypes'
    <2>1. <<<<"on", s>>>> \in Seq(Commands)
      BY DEF Commands
    <2> QED
      BY <1>4, <1>5, <2>1 DEF Open
  <1>6. ASSUME NEW s \in Sessions, Close(s)
        PROVE  LinkTypes'
    <2>1. <<<<"abort">>, <<"off", s>>>> \in Seq(Commands) /\ Len(<<<<"abort">>, <<"off", s>>>>) = 2
      BY DEF Commands
    <2> QED
      BY <1>4, <1>6, <2>1 DEF Close
  <1>7. ASSUME NEW s \in Sessions, Start(s)
        PROVE  LinkTypes'
    <2>1. PICK r \in Due(s) : Write(s, <<r>>)
      BY <1>7 DEF Start
    <2>2. r \in Requests
      <3>1. CASE waiting[s] # <<>>
        <4>1. waiting[s] \in Seq(Requests)
          BY DEF CInv, SessionTypes
        <4> QED
          BY <2>1, <3>1, <4>1 DEF Due
      <3>2. CASE waiting[s] = <<>>
        BY <2>1, <3>2, WantsTypes DEF Due, CInv
      <3> QED
        BY <3>1, <3>2
    <2>3. <<r>> \in Seq(Commands)
      BY <2>2 DEF Commands
    <2> QED
      BY <1>4, <1>7, <2>1, <2>3 DEF Start
  <1>8. CASE UNCHANGED link
    BY <1>0, <1>8 DEF link, LinkTypes
  <1> QED
    BY <1>1, <1>2, <1>3, <1>5, <1>6, <1>7, <1>8 DEF Next, Client, vars, link, Ask, GiveUp
(* ... of the callers ...                                                   *)
LEMMA NextCallers == CInv /\ [Next]_vars => CallerTypes'
  <1> SUFFICES ASSUME CInv, [Next]_vars PROVE CallerTypes'
    OBVIOUS
  <1>0. CallerTypes
    BY DEF CInv
  <1>1. ASSUME NEW s \in Sessions, NEW to \in Steps, step' = [step EXCEPT ![s] = to],
               UNCHANGED rest
        PROVE  CallerTypes'
    BY <1>0, <1>1 DEF CallerTypes
  <1>2. ASSUME NEW s \in Sessions, Open(s) \/ Close(s)
        PROVE  CallerTypes'
    BY <1>1, <1>2 DEF Open, Close, Steps
  <1>3. ASSUME NEW s \in Sessions, GiveUp(s)
        PROVE  CallerTypes'
    <2>1. Goes(s, FALSE) \in Steps
      BY <1>0, GoesTypes
    <2>2. rest' \subseteq Closed
      BY <1>0, <1>3, RestTypes DEF GiveUp, CallerTypes
    <2> QED
      BY <1>0, <1>3, <2>1, <2>2 DEF GiveUp, CallerTypes
  <1>4. CASE Deliver
    <2> DEFINE n == Head(air)
    <2>1. \A s \in Sessions : (IF Over(s, n) THEN Goes(s, Done(s, n)) ELSE step[s]) \in Steps
      <3> SUFFICES ASSUME NEW s \in Sessions
                   PROVE  (IF Over(s, n) THEN Goes(s, Done(s, n)) ELSE step[s]) \in Steps
        OBVIOUS
      <3>1. \A ok : After(op[s], ok) \in Steps
        BY DEF After, Steps
      <3> QED
        BY <1>0, <3>1 DEF Goes, CallerTypes
    <2>2. step' \in [Sessions -> Steps]
      BY <1>4, <2>1 DEF Deliver
    <2>3. rest' \subseteq Closed
      <3>1. CASE Over("sync", n)
        <4>1. op["sync"] # None /\ rest' = RestAfter(op["sync"], Done("sync", n))
          BY <1>4, <3>1 DEF Deliver, Over, Done, Failed, Hears
        <4>2. Done("sync", n) \in BOOLEAN
          BY DEF Done, Hears
        <4> QED
          BY <4>1, <4>2, RestTypes
      <3>2. CASE ~Over("sync", n)
        BY <1>0, <1>4, <3>2 DEF Deliver, CallerTypes
      <3> QED
        BY <3>1, <3>2
    <2> QED
      BY <2>2, <2>3 DEF CallerTypes
  <1>5. CASE Respond
    <2>1. \A s : (IF step[s] = "closing" THEN "away"
                  ELSE IF s = "sync" THEN "status" ELSE "browsing") \in Steps
      BY DEF Steps
    <2>2. step' \in [Sessions -> Steps] /\ rest' = rest
      BY <1>0, <1>5, <2>1 DEF Respond, CallerTypes
    <2> QED
      BY <1>0, <2>2 DEF CallerTypes
  <1>6. CASE UNCHANGED callers
    BY <1>0, <1>6 DEF callers, CallerTypes
  <1> QED
    BY <1>2, <1>3, <1>4, <1>5, <1>6
    DEF Next, Client, vars, callers, TakeCommand, Send, Ask, Start

(* What a listener keeps is counted, and no longer than what was asked for. *)
LEMMA KeptTypes ==
  ASSUME CInv, NEW s \in Sessions, NEW n \in Notifications
  PROVE  /\ Kept(s, n) \in Collections
         /\ op[s] = List => Kept(s, n).items <= Len(Dir)
         /\ ~Hears(s) => Kept(s, n) = collected[s]
  <1>1. collected[s] \in Collections /\ (op[s] = List => collected[s].items <= Len(Dir))
    BY DEF CInv, SessionTypes, Tidy
  <1>2. \A item : /\ Added(s, item) \in Collections
                  /\ op[s] = List => Added(s, item).items <= Len(Dir)
    <2> SUFFICES ASSUME NEW item
                 PROVE  /\ Added(s, item) \in Collections
                        /\ op[s] = List => Added(s, item).items <= Len(Dir)
      OBVIOUS
    <2>1. CASE Added(s, item) = [items |-> 0, others |-> TRUE, size |-> collected[s].size]
      <3>1. Len(Dir) \in Nat
        BY Constants
      <3>2. Added(s, item) \in Collections /\ Added(s, item).items = 0
        BY <1>1, <2>1 DEF Collections
      <3> QED
        BY <3>1, <3>2
    <2>2. CASE /\ Added(s, item) = [collected[s] EXCEPT !.items = collected[s].items + 1]
               /\ collected[s].items + 1 <= Len(Contents(op[s]))
      <3>1. op[s] = List => Contents(op[s]) = Dir
        BY DEF Contents
      <3> QED
        BY <1>1, <2>2, <3>1 DEF Collections
    <2> QED
      BY <2>1, <2>2 DEF Added
  <1>3. n[1] = "size" => n[2] \in Nat
    BY DEF Notifications
  <1>4. (n[1] = "size" /\ op[s][1] = "window") =>
           /\ [collected[s] EXCEPT !.size = n[2]] \in Collections
           /\ [collected[s] EXCEPT !.size = n[2]].items = collected[s].items
    BY <1>1, <1>3 DEF Collections
  <1>5. \/ Kept(s, n) = collected[s]
        \/ Hears(s) /\ Kept(s, n) = Added(s, n[2])
        \/ /\ Hears(s) /\ n[1] = "size" /\ op[s][1] = "window"
           /\ Kept(s, n) = [collected[s] EXCEPT !.size = n[2]]
    BY DEF Kept
  <1>6. op[s] = List => op[s][1] # "window"
    BY RequestKinds
  <1>7. ~Hears(s) => Kept(s, n) = collected[s]
    BY DEF Kept
  <1>8. CASE Hears(s) /\ Kept(s, n) = Added(s, n[2])
    BY <1>2, <1>7, <1>8
  <1> QED
    BY <1>1, <1>4, <1>5, <1>6, <1>7, <1>8

(* ... and of the operations.                                               *)
LEMMA NextSessions ==
  CInv /\ [Next]_vars => SessionTypes' /\ \A s \in Sessions : Tidy(s)'
  <1> SUFFICES ASSUME CInv, [Next]_vars
               PROVE  SessionTypes' /\ \A s \in Sessions : Tidy(s)'
    OBVIOUS
  <1>0. SessionTypes /\ \A s \in Sessions : Tidy(s)
    BY DEF CInv
  <1>1. ASSUME NEW s \in Sessions, Close(s)
        PROVE  SessionTypes' /\ \A t \in Sessions : Tidy(t)'
    <2>1. /\ listening' = [listening EXCEPT ![s] = FALSE]
          /\ UNCHANGED <<waiting, op, locked, collected>>
      BY <1>1 DEF Close
    <2> QED
      BY <1>0, <2>1 DEF SessionTypes, Tidy
  <1>2. CASE Ask
    <2>1. PICK r \in Wants("page") : waiting' = [waiting EXCEPT !["page"] = <<r>>]
      BY <1>2 DEF Ask
    <2>2. "page" \in Sessions /\ UNCHANGED <<op, locked, listening, collected>>
      BY <1>2 DEF Ask
    <2>3. <<r>> \in Seq(Requests) /\ Len(<<r>>) = 1
      BY <2>1, <2>2, WantsTypes DEF CInv
    <2>4. \A t \in Sessions : Len(waiting'[t]) <= 1
      BY <1>0, <2>1, <2>3 DEF SessionTypes, Tidy
    <2> QED
      BY <1>0, <2>1, <2>2, <2>3, <2>4 DEF SessionTypes, Tidy
  <1>3. ASSUME NEW s \in Sessions, Start(s)
        PROVE  SessionTypes' /\ \A t \in Sessions : Tidy(t)'
    <2>1. PICK r \in Due(s) : op' = [op EXCEPT ![s] = r]
      BY <1>3 DEF Start
    <2>2. r \in Requests
      <3>1. CASE waiting[s] # <<>>
        <4>1. waiting[s] \in Seq(Requests)
          BY <1>0 DEF SessionTypes
        <4> QED
          BY <2>1, <3>1, <4>1 DEF Due
      <3>2. CASE waiting[s] = <<>>
        BY <2>1, <3>2, WantsTypes DEF Due, CInv
      <3> QED
        BY <3>1, <3>2
    <2>3. /\ waiting' = [waiting EXCEPT ![s] = <<>>] /\ locked' = [locked EXCEPT ![s] = TRUE]
          /\ listening' = [listening EXCEPT ![s] = TRUE]
          /\ collected' = [collected EXCEPT ![s] = Nothing]
      BY <1>3 DEF Start
    <2>4. <<>> \in Seq(Requests) /\ Len(<<>>) = 0 /\ Nothing \in Collections
          /\ Nothing.items = 0 /\ Len(Dir) \in Nat
      BY Constants, RequestKinds DEF Nothing
    <2>5. SessionTypes'
      BY <1>0, <2>1, <2>2, <2>3, <2>4 DEF SessionTypes
    <2>6. ASSUME NEW t \in Sessions PROVE Tidy(t)'
      <3>1. CASE t = s
        BY <1>0, <2>1, <2>2, <2>3, <2>4, <3>1, Constants DEF SessionTypes, Tidy
      <3>2. CASE t # s
        BY <1>0, <2>1, <2>3, <3>2 DEF SessionTypes, Tidy
      <3> QED
        BY <3>1, <3>2
    <2> QED
      BY <2>5, <2>6
  <1>4. ASSUME NEW s \in Sessions, GiveUp(s)
        PROVE  SessionTypes' /\ \A t \in Sessions : Tidy(t)'
    <2>1. /\ op' = [op EXCEPT ![s] = None] /\ locked' = [locked EXCEPT ![s] = FALSE]
          /\ listening' = [listening EXCEPT ![s] = FALSE]
          /\ collected' = [collected EXCEPT ![s] = Nothing] /\ UNCHANGED waiting
      BY <1>4 DEF GiveUp, Released
    <2>2. SessionTypes'
      BY <1>0, <2>1, RequestKinds DEF SessionTypes
    <2>3. ASSUME NEW t \in Sessions PROVE Tidy(t)'
      <3>1. CASE t = s
        BY <1>0, <2>1, <3>1, Constants, RequestKinds DEF SessionTypes, Tidy
      <3>2. CASE t # s
        BY <1>0, <2>1, <3>2 DEF SessionTypes, Tidy
      <3> QED
        BY <3>1, <3>2
    <2> QED
      BY <2>2, <2>3
  <1>5. CASE Deliver
    <2> DEFINE n == Head(air)
    <2>1. n \in Notifications
      BY <1>5 DEF Deliver, CInv, LinkTypes
    <2>2. /\ collected' = [s \in Sessions |-> IF Over(s, n) THEN Nothing ELSE Kept(s, n)]
          /\ locked' = [s \in Sessions |->
                          IF Over(s, n) THEN ~Released(Done(s, n)) ELSE locked[s]]
          /\ op' = [s \in Sessions |-> IF Over(s, n) THEN None ELSE op[s]]
          /\ listening' = [s \in Sessions |-> StaysSubscribed(s, n)]
          /\ UNCHANGED waiting
      BY <1>5 DEF Deliver
    <2>3. ASSUME NEW s \in Sessions
          PROVE  /\ collected'[s] \in Collections /\ locked'[s] \in BOOLEAN
                 /\ op'[s] \in Requests \cup {None} /\ listening'[s] \in BOOLEAN
                 /\ Tidy(s)'
      <3>1. CASE Over(s, n)
        <4>1. /\ collected'[s] = Nothing /\ locked'[s] = FALSE /\ op'[s] = None
              /\ listening'[s] = FALSE /\ waiting'[s] = waiting[s]
          BY <2>2, <3>1 DEF Released, StaysSubscribed
        <4> QED
          BY <1>0, <4>1, Constants, RequestKinds DEF Tidy
      <3>2. CASE ~Over(s, n)
        <4>1. /\ collected'[s] = Kept(s, n) /\ locked'[s] = locked[s] /\ op'[s] = op[s]
              /\ listening'[s] = listening[s] /\ waiting'[s] = waiting[s]
          BY <1>0, <2>2, <3>2 DEF StaysSubscribed, SessionTypes
        <4>2. /\ Kept(s, n) \in Collections
              /\ op[s] = List => Kept(s, n).items <= Len(Dir)
              /\ op[s] = None => Kept(s, n) = collected[s]
          BY <2>1, KeptTypes DEF Hears
        <4> QED
          BY <1>0, <4>1, <4>2 DEF SessionTypes, Tidy
      <3> QED
        BY <3>1, <3>2
    <2>4. /\ collected' \in [Sessions -> Collections] /\ locked' \in [Sessions -> BOOLEAN]
          /\ op' \in [Sessions -> Requests \cup {None}]
          /\ listening' \in [Sessions -> BOOLEAN]
      BY <2>2, <2>3
    <2> QED
      BY <1>0, <2>2, <2>3, <2>4 DEF SessionTypes
  <1>6. CASE UNCHANGED session
    BY <1>0, <1>6 DEF session, SessionTypes, Tidy
  <1> QED
    BY <1>1, <1>2, <1>3, <1>4, <1>5, <1>6
    DEF Next, Client, vars, session, TakeCommand, Send, Respond, Open

(* The invariant holds at first, and every step keeps it.                   *)
LEMMA InitCInv == Init => CInv
  <1> SUFFICES ASSUME Init PROVE CInv
    OBVIOUS
  <1>1. LinkTypes
    <2>1. <<>> \in Seq(Commands) /\ <<>> \in Seq(Notifications) /\ Len(<<>>) = 0
      OBVIOUS
    <2>2. 0 <= MaxQueue /\ 0 <= MaxAir
      BY Constants
    <2> QED
      BY <2>1, <2>2 DEF Init, LinkTypes
  <1>2. CallerTypes /\ SessionTypes
    BY RequestKinds DEF Init, CallerTypes, SessionTypes, Each, Steps
  <1>3. \A s \in Sessions : Tidy(s)
    BY Constants, RequestKinds DEF Init, Tidy, Each
  <1> QED
    BY <1>1, <1>2, <1>3 DEF CInv

(* Every step keeps the types.                                              *)
LEMMA NextCInv == CInv /\ [Next]_vars => CInv'
  BY NextLink, NextCallers, NextSessions DEF CInv

(* Every variable keeps its type; an operation that runs holds the lock of  *)
(* its session, and one that is over left nothing behind (_runSerialized,   *)
(* the finally of each operation, close()).                                 *)
THEOREM ClientTypes == Spec => []TypeOK
  <1>1. CInv => TypeOK
    <2> SUFFICES ASSUME CInv PROVE TypeOK
      OBVIOUS
    <2>1. transfer # None => transfer.request \in Requests \ {Status}
      BY DEF CInv, LinkTypes, Transfers
    <2>2. \A s \in Sessions :
            /\ step[s] \in Steps /\ op[s] \in Requests \cup {None} /\ Tidy(s)
      BY DEF CInv, CallerTypes, SessionTypes
    <2> QED
      BY <2>1, <2>2 DEF CInv, LinkTypes, CallerTypes, Steps, Tidy, TypeOK
  <1> QED
    BY <1>1, InitCInv, NextCInv, PTL DEF Spec

-------------------------------------------------------------------------------
(* A session that is alone *)

\* A request of s to turn the notifications on or off, and the answer to it.
Turns(s) == {<<"on", s>>, <<"off", s>>}
Response(s) == <<"response", s>>

\* Of each session at most one such request or answer is under way (commands cs,
\* notifications x), and none unless it opens or closes (a step st of Turning).
Turning == {"opening", "closing"}
NoTurn(cs, x, s) ==
  /\ \A i \in 1..Len(cs) : cs[i] \notin Turns(s)
  /\ \A j \in 1..Len(x) : x[j] # Response(s)
OneTurn(cs, x, st, s) ==
  /\ \A i, j \in 1..Len(cs) : cs[i] \in Turns(s) /\ cs[j] \in Turns(s) => i = j
  /\ \A i, j \in 1..Len(x) : x[i] = Response(s) /\ x[j] = Response(s) => i = j
  /\ \A i \in 1..Len(cs), j \in 1..Len(x) : ~(cs[i] \in Turns(s) /\ x[j] = Response(s))
  /\ st \notin Turning => NoTurn(cs, x, s)

\* What a session asks for at each step of its caller.
AsksSync ==
  /\ waiting["sync"] = <<>> /\ step["sync"] # "browsing"
  /\ op["sync"] # None =>
       \/ step["sync"] = "status" /\ op["sync"] = Status
       \/ step["sync"] = "live"   /\ op["sync"] \in Windows({Live}) \cup {List}
       \/ step["sync"] = "list"   /\ op["sync"] = List
       \/ step["sync"] = "closed" /\ op["sync"] \in Windows(Closed) \cup {Status}
AsksPage ==
  "page" \in Sessions =>
    /\ step["page"] \in {"away", "opening", "browsing", "closing"}
    /\ op["page"] # Status
    /\ waiting["page"] # <<>> => Head(waiting["page"]) # Status

\* Commands cs, transfer t and notifications x: nothing, or at most a request for
\* the status or its answer.
Clear(cs, t, x) == cs = <<>> /\ t = None /\ x = <<>>
IsStatus(n) == n \in {<<"status">>, <<"error">>}
OneStatus(cs, t, x) ==
  /\ t = None
  /\ \/ cs = <<Status>> /\ x = <<>>
     \/ cs = <<>> /\ Len(x) <= 1 /\ \A i \in 1..Len(x) : IsStatus(x[i])

\* What a request has collected once m notifications of its answer are heard.
Heard(r, m) ==
  IF r = List THEN [items |-> m, others |-> FALSE, size |-> 0]
  ELSE IF m = 0 THEN Nothing ELSE [items |-> m - 1, others |-> FALSE, size |-> Size[r[2]]]

\* On their way to the phone are d answers to an earlier request for the status,
\* then those to r after the m-th up to the k-th, then, if e is 1, the end.
InAir(x, r, d, m, k, e) ==
  /\ m <= k
  /\ Len(x) = d + (k - m) + e
  /\ d = 1 => IsStatus(x[1]) /\ r = List /\ m = 0
  /\ \A i \in 1..k - m : x[d + i] = Answer(r)[m + i]
  /\ e = 1 => x[Len(x)] \in {<<"end">>, <<"error">>}

\* The request r of a session that is alone, and its answer, c being collected; q is
\* 1 if it may have given up a request for the status before, else 0.
Written(q, cs, t, x, r, c) ==
  /\ t = None /\ c = Nothing
  /\ \/ q = 1 /\ r = List /\ cs = <<Status, List>> /\ x = <<>>
     \/ cs = <<r>> /\ \E d \in 0..q : InAir(x, r, d, 0, 0, 0)
Sending(q, cs, t, x, r, c) ==
  /\ cs = <<>>
  /\ \E d \in 0..q, m, k \in 0..Len(Answer(r)) :
       t = [request |-> r, sent |-> k] /\ c = Heard(r, m) /\ InAir(x, r, d, m, k, 0)
Ended(q, cs, t, x, r, c) ==
  /\ cs = <<>> /\ t = None
  /\ \E d \in 0..q, m, k \in 0..Len(Answer(r)) :
       c = Heard(r, m) /\ InAir(x, r, d, m, k, 1) /\ (r # List => k > 0)
Answering(q, cs, t, x, r, c) ==
  Written(q, cs, t, x, r, c) \/ Sending(q, cs, t, x, r, c) \/ Ended(q, cs, t, x, r, c)
GaveUp(s) == IF s = "sync" THEN 1 ELSE 0

Shut == {"away"} \cup Turning
Used == {"status", "live", "list", "closed", "browsing"}

\* What is under way when no other session got in the way of s: while s is shut ...
AloneShut(s) ==
  /\ step[s] \in Shut => op[s] = None /\ ~locked[s] /\ waiting[s] = <<>>
  /\ step[s] = "away" => Clear(commands, transfer, air)
  /\ step[s] = "opening" =>
       /\ transfer = None
       /\ \/ commands = <<<<"on", s>>>> /\ air = <<>>
          \/ commands = <<>> /\ air = <<Response(s)>> /\ notifying = TRUE
  /\ step[s] = "closing" =>
       \/ commands # <<>> /\ commands[Len(commands)] = <<"off", s>>
       \/ commands = <<>> /\ transfer = None /\ air # <<>> /\ air[Len(air)] = Response(s)

\* ... and while it is used.
AloneUsed(s) ==
  step[s] \in Used =>
    /\ notifying = TRUE
    /\ op[s] = None => IF step[s] = "list" THEN OneStatus(commands, transfer, air)
                       ELSE Clear(commands, transfer, air)
    /\ op[s] # None => listening[s]
    /\ op[s] = Status => OneStatus(commands, transfer, air)
    /\ op[s] \notin {None, Status} =>
         Answering(GaveUp(s), commands, transfer, air, op[s], collected[s])

Alone(s) == shared[s] \/ (AloneShut(s) /\ AloneUsed(s))

AloneInv ==
  /\ shared \in [Sessions -> BOOLEAN]
  /\ AsksSync /\ AsksPage
  /\ \A s \in Sessions : OneTurn(commands, air, step[s], s) /\ Alone(s)

(* What is in front of a sequence, and what follows it.                     *)
LEMMA OneThenMore ==
  ASSUME NEW S, NEW a \in S, NEW b \in Seq(S)
  PROVE  /\ Len(<<a>> \o b) = Len(b) + 1 /\ (<<a>> \o b)[1] = a
         /\ \A i \in 1..Len(b) : (<<a>> \o b)[i + 1] = b[i]
  OBVIOUS

(* What a request is answered with, notification by notification.           *)
LEMMA AnswerIs ==
  ASSUME NEW r \in Requests \ {Status}
  PROVE  /\ Len(Contents(r)) \in Nat /\ Len(Answer(r)) \in Nat
         /\ r = List => /\ Len(Answer(r)) = Len(Contents(r))
                        /\ \A i \in 1..Len(Answer(r)) : Answer(r)[i] = <<"entry", Contents(r)[i]>>
         /\ r # List => /\ Len(Answer(r)) = Len(Contents(r)) + 1
                        /\ Answer(r)[1] = <<"size", Size[r[2]]>>
                        /\ \A i \in 1..Len(Contents(r)) :
                             Answer(r)[i + 1] = <<"data", Contents(r)[i]>>
  <1>1. CASE r = List
    <2>1. DOMAIN Dir = 1..Len(Dir) /\ Len(Dir) \in Nat
      BY Constants
    <2>2. Contents(r) = Dir
      BY <1>1 DEF Contents
    <2>3. Answer(r) = [j \in 1..Len(Dir) |-> <<"entry", Dir[j]>>]
      BY <1>1, <2>1 DEF Answer
    <2>4. Len(Answer(r)) = Len(Dir)
      BY <2>1, <2>3
    <2> QED
      BY <1>1, <2>1, <2>2, <2>3, <2>4
  <1>2. CASE r # List
    <2>1. r[2] \in Files /\ r[3] \in Nat /\ Size[r[2]] \in Nat
      BY <1>2, RequestKinds, Constants
    <2> DEFINE last == IF r[3] + Window < Size[r[2]] THEN r[3] + Window ELSE Size[r[2]]
               n == IF last > r[3] THEN last - r[3] ELSE 0
               item(j) == <<r[2], r[3] + j>>
               blocks == [j \in 1..n |-> <<"data", item(j)>>]
               head == <<"size", Size[r[2]]>>
    <2>2. n \in Nat
      BY <2>1, Constants
    <2>3. Contents(r) = [j \in 1..n |-> item(j)]
      BY <1>2 DEF Contents
    <2>4. /\ DOMAIN Contents(r) = 1..n /\ Len(Contents(r)) = n
          /\ \A j \in 1..n : Contents(r)[j] = item(j)
      <3> HIDE DEF n, item
      <3> QED
        BY <2>2, <2>3
    <2>5. Answer(r) = <<head>> \o blocks
      BY <1>2, <2>4 DEF Answer
    <2>6. head \in Notifications
      BY <2>1 DEF Notifications
    <2>7. \A j \in 1..n : <<"data", item(j)>> \in Notifications
      BY <2>1, <2>2 DEF Notifications
    <2>8. blocks \in [1..n -> Notifications]
      BY <2>7
    <2>9. blocks \in Seq(Notifications) /\ Len(blocks) = n
          /\ \A j \in 1..n : blocks[j] = <<"data", item(j)>>
      <3> HIDE DEF n, item
      <3> QED
        BY <2>2, <2>8
    <2> HIDE DEF head, blocks, n, last, item
    <2>10. /\ Len(<<head>> \o blocks) = n + 1 /\ (<<head>> \o blocks)[1] = head
           /\ \A j \in 1..n : (<<head>> \o blocks)[j + 1] = blocks[j]
      BY <2>6, <2>9, OneThenMore
    <2>11. \A j \in 1..n : Answer(r)[j + 1] = <<"data", Contents(r)[j]>>
      BY <2>4, <2>5, <2>9, <2>10
    <2>12. Answer(r)[1] = <<"size", Size[r[2]]>> /\ Len(Answer(r)) = n + 1
      BY <2>5, <2>10 DEF head
    <2>13. \A j \in 1..Len(Contents(r)) : Answer(r)[j + 1] = <<"data", Contents(r)[j]>>
      BY <2>4, <2>11
    <2>14. Len(Contents(r)) \in Nat /\ Len(Answer(r)) \in Nat
           /\ Len(Answer(r)) = Len(Contents(r)) + 1
      BY <2>2, <2>4, <2>12
    <2> QED
      BY <1>2, <2>12, <2>13, <2>14
  <1> QED
    BY <1>1, <1>2

(* No notification of an answer ends it, and none is a response.            *)
LEMMA AnswerGoesOn ==
  ASSUME NEW r \in Requests \ {Status}, NEW i \in 1..Len(Answer(r))
  PROVE  Answer(r)[i][1] \in {"entry", "size", "data"}
  <1>1. CASE r = List
    BY <1>1, AnswerIs
  <1>2. CASE r # List
    <2>1. CASE i = 1
      BY <1>2, <2>1, AnswerIs
    <2>2. CASE i # 1
      <3>1. i - 1 \in 1..Len(Contents(r)) /\ (i - 1) + 1 = i
        BY <1>2, <2>2, AnswerIs
      <3>2. Answer(r)[(i - 1) + 1] = <<"data", Contents(r)[i - 1]>>
        BY <1>2, <3>1, AnswerIs
      <3> QED
        BY <3>1, <3>2
    <2> QED
      BY <2>1, <2>2
  <1> QED
    BY <1>1, <1>2

(* The device sends the next notification of the answer ...                 *)
LEMMA AnswerGrows ==
  ASSUME NEW x \in Seq(Notifications), NEW r \in Requests \ {Status}, NEW d \in 0..1,
         NEW m \in Nat, NEW k \in Nat, InAir(x, r, d, m, k, 0), NEW n
  PROVE  /\ n = Answer(r)[k + 1] => InAir(Append(x, n), r, d, m, k + 1, 0)
         /\ n \in {<<"end">>, <<"error">>} => InAir(Append(x, n), r, d, m, k, 1)
  <1> DEFINE y == Append(x, n)
  <1>1. /\ Len(y) = Len(x) + 1 /\ y[Len(x) + 1] = n /\ Len(x) \in Nat
        /\ \A i \in 1..Len(x) : y[i] = x[i]
    OBVIOUS
  <1>2. /\ m <= k /\ Len(x) = d + (k - m)
        /\ d = 1 => IsStatus(x[1]) /\ r = List /\ m = 0
        /\ \A i \in 1..k - m : x[d + i] = Answer(r)[m + i]
    BY DEF InAir
  <1> HIDE DEF y
  <1>3. d = 1 => y[1] = x[1]
    BY <1>1, <1>2
  <1>4. \A i \in 1..k - m : y[d + i] = Answer(r)[m + i]
    <2> TAKE i \in 1..k - m
    <2>1. d + i \in 1..Len(x)
      BY <1>2
    <2> QED
      BY <1>1, <1>2, <2>1
  <1>5. ASSUME n = Answer(r)[k + 1] PROVE InAir(y, r, d, m, k + 1, 0)
    <2>1. ASSUME NEW i \in 1..k + 1 - m PROVE y[d + i] = Answer(r)[m + i]
      <3>1. CASE i \in 1..k - m
        BY <1>4, <3>1
      <3>2. CASE i = k + 1 - m
        <4>1. d + i = Len(x) + 1 /\ m + i = k + 1
          BY <1>2, <3>2
        <4> QED
          BY <1>1, <1>5, <4>1
      <3> QED
        BY <1>2, <3>1, <3>2
    <2>2. m <= k + 1 /\ Len(y) = d + (k + 1 - m) + 0
      BY <1>1, <1>2
    <2> QED
      BY <1>2, <1>3, <2>1, <2>2 DEF InAir
  <1>6. ASSUME n \in {<<"end">>, <<"error">>} PROVE InAir(y, r, d, m, k, 1)
    <2>1. Len(y) = d + (k - m) + 1 /\ y[Len(y)] = n
      BY <1>1, <1>2
    <2> QED
      BY <1>2, <1>3, <1>4, <1>6, <2>1 DEF InAir
  <1> QED
    BY <1>5, <1>6 DEF y

(* ... and the phone hears one: an answer about the status, the next of     *)
(* those to the request, or the end.                                        *)
LEMMA AnswerHeard ==
  ASSUME NEW x \in Seq(Notifications), x # <<>>, NEW r \in Requests \ {Status}, NEW d \in 0..1,
         NEW m \in Nat, NEW k \in Nat, NEW e \in 0..1, InAir(x, r, d, m, k, e)
  PROVE  \/ d = 1 /\ IsStatus(Head(x)) /\ r = List /\ m = 0 /\ InAir(Tail(x), r, 0, m, k, e)
         \/ /\ d = 0 /\ m < k /\ Head(x) = Answer(r)[m + 1]
            /\ InAir(Tail(x), r, 0, m + 1, k, e)
         \/ d = 0 /\ m = k /\ e = 1 /\ Head(x) \in {<<"end">>, <<"error">>} /\ Tail(x) = <<>>
  <1> DEFINE y == Tail(x)
  <1>1. /\ Len(x) \in Nat /\ Len(x) > 0 /\ Len(y) = Len(x) - 1 /\ Head(x) = x[1]
        /\ \A i \in 1..Len(x) - 1 : y[i] = x[i + 1]
        /\ y \in Seq(Notifications)
    OBVIOUS
  <1>2. /\ m <= k /\ Len(x) = d + (k - m) + e
        /\ d = 1 => IsStatus(x[1]) /\ r = List /\ m = 0
        /\ \A i \in 1..k - m : x[d + i] = Answer(r)[m + i]
        /\ e = 1 => x[Len(x)] \in {<<"end">>, <<"error">>}
    BY DEF InAir
  <1> HIDE DEF y
  <1>3. e = 1 /\ Len(x) > 1 => y[Len(y)] = x[Len(x)]
    BY <1>1
  <1>4. CASE d = 1
    <2>1. \A i \in 1..k - m : y[0 + i] = Answer(r)[m + i]
      <3> TAKE i \in 1..k - m
      <3>1. i \in 1..Len(x) - 1 /\ 0 + i = i /\ i + 1 = 1 + i
        BY <1>1, <1>2, <1>4
      <3>2. y[i] = x[i + 1] /\ x[1 + i] = Answer(r)[m + i]
        BY <1>1, <1>2, <1>4, <3>1
      <3> QED
        BY <3>1, <3>2
    <2>2. Len(y) = 0 + (k - m) + e /\ (e = 1 => Len(x) > 1)
      BY <1>1, <1>2, <1>4
    <2>3. InAir(y, r, 0, m, k, e)
      BY <1>2, <1>3, <2>1, <2>2 DEF InAir
    <2> QED
      BY <1>1, <1>2, <1>4, <2>3 DEF y
  <1>5. CASE d = 0 /\ m < k
    <2>1. x[1] = Answer(r)[m + 1]
      <3>1. 1 \in 1..k - m
        BY <1>5
      <3> QED
        BY <1>2, <1>5, <3>1
    <2>2. \A i \in 1..k - (m + 1) : y[0 + i] = Answer(r)[(m + 1) + i]
      <3> TAKE i \in 1..k - (m + 1)
      <3>1. i \in 1..Len(x) - 1 /\ i + 1 \in 1..k - m /\ m + (i + 1) = (m + 1) + i
        BY <1>1, <1>2, <1>5
      <3>2. y[i] = x[i + 1] /\ x[0 + (i + 1)] = Answer(r)[m + (i + 1)]
        BY <1>1, <1>2, <1>5, <3>1
      <3> QED
        BY <3>1, <3>2
    <2>3. Len(y) = 0 + (k - (m + 1)) + e /\ m + 1 <= k /\ (e = 1 => Len(x) > 1)
      BY <1>1, <1>2, <1>5
    <2>4. InAir(y, r, 0, m + 1, k, e)
      BY <1>2, <1>3, <2>2, <2>3 DEF InAir
    <2> QED
      BY <1>1, <1>5, <2>1, <2>4 DEF y
  <1>6. CASE d = 0 /\ m = k
    <2>1. e = 1 /\ Len(x) = 1 /\ Len(y) = 0
      BY <1>1, <1>2, <1>6
    <2>2. y = <<>> /\ x[Len(x)] = Head(x)
      BY <1>1, <2>1
    <2> QED
      BY <1>2, <1>6, <2>1, <2>2 DEF y
  <1> QED
    BY <1>2, <1>4, <1>5, <1>6

(* A change of one field of what was collected.                             *)
LEMMA ItemsField ==
  ASSUME NEW i, NEW z, NEW j
  PROVE  [[items |-> i, others |-> FALSE, size |-> z] EXCEPT !.items = j]
           = [items |-> j, others |-> FALSE, size |-> z]
  <1>1. ASSUME NEW o
        PROVE  [[items |-> i, others |-> o, size |-> z] EXCEPT !.items = j]
                 = [items |-> j, others |-> o, size |-> z]
    OBVIOUS
  <1> QED
    BY <1>1, Zenon

(* A record whose size is set.                                              *)
LEMMA SizeField ==
  ASSUME NEW i, NEW z, NEW j
  PROVE  [[items |-> i, others |-> FALSE, size |-> z] EXCEPT !.size = j]
           = [items |-> i, others |-> FALSE, size |-> j]
  <1>1. ASSUME NEW o
        PROVE  [[items |-> i, others |-> o, size |-> z] EXCEPT !.size = j]
                 = [items |-> i, others |-> o, size |-> j]
    OBVIOUS
  <1> QED
    BY <1>1, Zenon

(* What a listener keeps: one more item, or the size.                       *)
LEMMA ItemAdded ==
  ASSUME NEW s \in Sessions, NEW i \in Nat, NEW z, i + 1 <= Len(Contents(op[s])),
         collected[s] = [items |-> i, others |-> FALSE, size |-> z]
  PROVE  Added(s, Contents(op[s])[i + 1]) = [items |-> i + 1, others |-> FALSE, size |-> z]
  <1>1. collected[s].items = i /\ collected[s].others = FALSE
    OBVIOUS
  <1>2. [collected[s] EXCEPT !.items = i + 1] = [items |-> i + 1, others |-> FALSE, size |-> z]
    <2>1. [[items |-> i, others |-> FALSE, size |-> z] EXCEPT !.items = i + 1]
            = [items |-> i + 1, others |-> FALSE, size |-> z]
      BY ItemsField, Zenon
    <2> QED
      BY <2>1, Zenon
  <1>3. Added(s, Contents(op[s])[i + 1]) = [collected[s] EXCEPT !.items = i + 1]
    BY <1>1 DEF Added
  <1> QED
    BY <1>2, <1>3

(* A size is kept by the window that hears it first.                        *)
LEMMA SizeKept ==
  ASSUME NEW s \in Sessions, NEW n, Hears(s), n[1] = "size", op[s][1] = "window",
         op[s] # List, collected[s] = Nothing
  PROVE  Kept(s, n) = [items |-> 0, others |-> FALSE, size |-> n[2]]
  <1>1. collected[s] = [items |-> 0, others |-> FALSE, size |-> 0]
    BY DEF Nothing
  <1>2. [collected[s] EXCEPT !.size = n[2]] = [items |-> 0, others |-> FALSE, size |-> n[2]]
    <2>1. [[items |-> 0, others |-> FALSE, size |-> 0] EXCEPT !.size = n[2]]
            = [items |-> 0, others |-> FALSE, size |-> n[2]]
      BY SizeField
    <2> QED
      BY <1>1, <2>1, Zenon
  <1> QED
    BY <1>2 DEF Kept

(* A listener that is told the next of what it asked for counts it.         *)
LEMMA CountsAnswer ==
  ASSUME CInv, NEW s \in Sessions, op[s] \in Requests \ {Status}, listening[s],
         NEW m \in Nat, m < Len(Answer(op[s])), collected[s] = Heard(op[s], m)
  PROVE  /\ Kept(s, Answer(op[s])[m + 1]) = Heard(op[s], m + 1)
         /\ ~Over(s, Answer(op[s])[m + 1])
  <1> DEFINE r == op[s]
             n == Answer(r)[m + 1]
  <1>1. m + 1 \in 1..Len(Answer(r)) /\ r # None
    BY AnswerIs, Constants
  <1>2. n[1] \in {"entry", "size", "data"}
    BY <1>1, AnswerGoesOn
  <1>3. ~Over(s, n)
    BY <1>2 DEF Over, Done, Failed
  <1>4. Hears(s)
    BY <1>1 DEF Hears
  <1>5. CASE r = List
    <2>1. n = <<"entry", Contents(r)[m + 1]>> /\ m + 1 <= Len(Contents(r)) /\ m + 1 # 0
      BY <1>1, <1>5, AnswerIs
    <2>2. n[1] = "entry" /\ n[2] = Contents(r)[m + 1]
      BY <2>1
    <2>3. collected[s] = [items |-> m, others |-> FALSE, size |-> 0]
      BY <1>5 DEF Heard
    <2> HIDE DEF r, n
    <2>4. Added(s, n[2]) = [items |-> m + 1, others |-> FALSE, size |-> 0]
      BY <2>1, <2>2, <2>3, ItemAdded DEF r
    <2>5. Kept(s, n) = Added(s, n[2])
      BY <1>4, <1>5, <2>2 DEF Kept, r
    <2> QED
      BY <1>3, <1>5, <2>4, <2>5 DEF Heard, r, n
  <1>6. CASE r # List /\ m = 0
    <2>1. n = <<"size", Size[r[2]]>> /\ r[1] = "window"
      BY <1>6, AnswerIs, RequestKinds
    <2>2. n[1] = "size" /\ n[2] = Size[r[2]]
      BY <2>1
    <2>3. collected[s] = Nothing
      BY <1>6 DEF Heard
    <2> HIDE DEF r, n
    <2>4. Kept(s, n) = [items |-> 0, others |-> FALSE, size |-> n[2]]
      BY <1>4, <1>6, <2>1, <2>2, <2>3, SizeKept DEF r
    <2>5. Heard(r, m + 1) = [items |-> 0, others |-> FALSE, size |-> Size[r[2]]]
      BY <1>6 DEF Heard
    <2> QED
      BY <1>3, <2>2, <2>4, <2>5 DEF r, n
  <1>7. CASE r # List /\ m # 0
    <2>1. n = <<"data", Contents(r)[m]>> /\ m <= Len(Contents(r)) /\ r[1] = "window"
      <3>1. m \in 1..Len(Contents(r)) /\ r \in Requests \ {Status}
        BY <1>1, <1>7, AnswerIs
      <3>2. n = <<"data", Contents(r)[m]>>
        BY <1>7, <3>1, AnswerIs
      <3> QED
        BY <1>7, <3>1, <3>2, RequestKinds
    <2>2. n[1] = "data" /\ n[2] = Contents(r)[m]
      BY <2>1
    <2>3. collected[s] = [items |-> m - 1, others |-> FALSE, size |-> Size[r[2]]]
      BY <1>7 DEF Heard
    <2> HIDE DEF r, n
    <2>4. m - 1 \in Nat /\ (m - 1) + 1 = m
      BY <1>7
    <2>5. Added(s, Contents(r)[(m - 1) + 1])
            = [items |-> (m - 1) + 1, others |-> FALSE, size |-> Size[r[2]]]
      BY <2>1, <2>3, <2>4, ItemAdded DEF r
    <2>6. Added(s, n[2]) = [items |-> m, others |-> FALSE, size |-> Size[r[2]]]
      BY <2>2, <2>4, <2>5
    <2>7. Kept(s, n) = Added(s, n[2])
      BY <1>4, <1>7, <2>1, <2>2 DEF Kept, r
    <2>8. Heard(r, m + 1) = [items |-> m, others |-> FALSE, size |-> Size[r[2]]]
      <3>1. (m + 1) - 1 = m /\ m + 1 # 0
        OBVIOUS
      <3> QED
        BY <1>7, <3>1 DEF Heard
    <2> QED
      BY <1>3, <2>6, <2>7, <2>8 DEF r, n
  <1> QED
    BY <1>5, <1>6, <1>7

(* The device takes a request: an earlier one for the status, or this one.  *)
LEMMA TakesRequest ==
  ASSUME NEW q \in 0..1, NEW r \in Requests \ {Status}, NEW cs \in Seq(Commands), cs # <<>>,
         NEW x \in Seq(Notifications), NEW t, NEW c, Answering(q, cs, t, x, r, c)
  PROVE  /\ t = None
         /\ \/ /\ Head(cs) = Status
               /\ \A n : IsStatus(n) => Answering(q, Tail(cs), t, Append(x, n), r, c)
            \/ Head(cs) = r /\ Answering(q, Tail(cs), [request |-> r, sent |-> 0], x, r, c)
  <1>1. Written(q, cs, t, x, r, c)
    BY DEF Answering, Sending, Ended
  <1>2. t = None /\ c = Nothing /\ c = Heard(r, 0)
    BY <1>1 DEF Written, Heard, Nothing
  <1>3. 0 \in 0..Len(Answer(r))
    BY AnswerIs
  <1>4. CASE q = 1 /\ r = List /\ cs = <<Status, List>> /\ x = <<>>
    <2>1. Head(cs) = Status /\ Tail(cs) = <<r>>
      BY <1>4
    <2>2. ASSUME NEW n, IsStatus(n) PROVE Answering(q, Tail(cs), t, Append(x, n), r, c)
      <3>1. Append(x, n) = <<n>>
        BY <1>4
      <3>2. InAir(<<n>>, r, 1, 0, 0, 0)
        BY <1>4, <2>2 DEF InAir
      <3> QED
        BY <1>2, <1>4, <2>1, <3>1, <3>2 DEF Answering, Written
    <2> QED
      BY <1>2, <2>1, <2>2
  <1>5. CASE cs = <<r>> /\ \E d \in 0..q : InAir(x, r, d, 0, 0, 0)
    <2>1. Head(cs) = r /\ Tail(cs) = <<>>
      BY <1>5
    <2>2. Sending(q, Tail(cs), [request |-> r, sent |-> 0], x, r, c)
      BY <1>2, <1>3, <1>5, <2>1 DEF Sending
    <2> QED
      BY <1>2, <2>1, <2>2 DEF Answering
  <1> QED
    BY <1>1, <1>4, <1>5 DEF Written

(* The device answers it, and ends.                                         *)
LEMMA SendsAnswer ==
  ASSUME NEW q \in 0..1, NEW r \in Requests \ {Status}, NEW cs, NEW x \in Seq(Notifications),
         NEW t, t # None, NEW c, Answering(q, cs, t, x, r, c)
  PROVE  /\ t.request = r
         /\ t.sent < Len(Answer(r)) =>
              Answering(q, cs, [t EXCEPT !.sent = @ + 1], Append(x, Answer(r)[t.sent + 1]), r, c)
         /\ (t.sent > 0 \/ r = List) => \A n \in {<<"end">>, <<"error">>} :
              Answering(q, cs, None, Append(x, n), r, c)
  <1>1. Sending(q, cs, t, x, r, c)
    BY DEF Answering, Written, Ended
  <1>2. PICK d \in 0..q, m, k \in 0..Len(Answer(r)) :
          t = [request |-> r, sent |-> k] /\ c = Heard(r, m) /\ InAir(x, r, d, m, k, 0)
    BY <1>1 DEF Sending
  <1>3. cs = <<>> /\ d \in 0..1 /\ m \in Nat /\ k \in Nat /\ Len(Answer(r)) \in Nat
    BY <1>1, AnswerIs DEF Sending
  <1>4. t.request = r /\ t.sent = k
    BY <1>2
  <1>5. [t EXCEPT !.sent = @ + 1] = [request |-> r, sent |-> k + 1]
    BY <1>2
  <1>6. ASSUME k < Len(Answer(r))
        PROVE  Answering(q, cs, [request |-> r, sent |-> k + 1], Append(x, Answer(r)[k + 1]), r, c)
    <2>1. InAir(Append(x, Answer(r)[k + 1]), r, d, m, k + 1, 0) /\ k + 1 \in 0..Len(Answer(r))
      BY <1>2, <1>3, <1>6, AnswerGrows
    <2> QED
      BY <1>2, <1>3, <2>1 DEF Answering, Sending
  <1>7. ASSUME k > 0 \/ r = List, NEW n \in {<<"end">>, <<"error">>}
        PROVE  Answering(q, cs, None, Append(x, n), r, c)
    <2>1. InAir(Append(x, n), r, d, m, k, 1)
      BY <1>2, <1>3, <1>7, AnswerGrows
    <2> QED
      BY <1>2, <1>3, <1>7, <2>1 DEF Answering, Ended
  <1> QED
    BY <1>4, <1>5, <1>6, <1>7

(* The phone hears the answer to an earlier request for the status, the next*)
(* notification of the answer, or its end.                                  *)
LEMMA HearsAnswer ==
  ASSUME NEW q \in 0..1, NEW r \in Requests \ {Status}, NEW cs, NEW x \in Seq(Notifications),
         x # <<>>, NEW t, NEW c, Answering(q, cs, t, x, r, c)
  PROVE  \/ /\ IsStatus(Head(x)) /\ r = List /\ q = 1
            /\ Answering(q, cs, t, Tail(x), r, c)
         \/ \E m \in Nat : /\ m < Len(Answer(r)) /\ c = Heard(r, m)
                           /\ Head(x) = Answer(r)[m + 1]
                           /\ Answering(q, cs, t, Tail(x), r, Heard(r, m + 1))
         \/ /\ Head(x) \in {<<"end">>, <<"error">>} /\ Clear(cs, t, Tail(x))
            /\ \E m \in Nat : (r # List => m > 0) /\ c = Heard(r, m)
  <1>1. Len(Answer(r)) \in Nat /\ 0 \in 0..Len(Answer(r))
    BY AnswerIs
  <1>2. CASE Written(q, cs, t, x, r, c)
    <2>1. PICK d \in 0..q : cs = <<r>> /\ InAir(x, r, d, 0, 0, 0)
      BY <1>2 DEF Written
    <2>2. d \in 0..1 /\ 0 \in 0..1
      OBVIOUS
    <2>3. d = 1 /\ IsStatus(Head(x)) /\ r = List /\ InAir(Tail(x), r, 0, 0, 0, 0)
      <3>1. \/ d = 1 /\ IsStatus(Head(x)) /\ r = List /\ 0 = 0 /\ InAir(Tail(x), r, 0, 0, 0, 0)
            \/ d = 0 /\ 0 < 0
            \/ d = 0 /\ 0 = 1
        BY <2>1, <2>2, AnswerHeard
      <3> QED
        BY <3>1
    <2>4. q = 1 /\ 0 \in 0..q
      BY <2>3
    <2>5. Written(q, cs, t, Tail(x), r, c)
      BY <1>2, <2>1, <2>3, <2>4 DEF Written
    <2> QED
      BY <2>3, <2>4, <2>5 DEF Answering
  <1>3. CASE Sending(q, cs, t, x, r, c)
    <2>1. PICK d \in 0..q, m, k \in 0..Len(Answer(r)) :
            t = [request |-> r, sent |-> k] /\ c = Heard(r, m) /\ InAir(x, r, d, m, k, 0)
      BY <1>3 DEF Sending
    <2>2. cs = <<>> /\ d \in 0..1 /\ m \in Nat /\ k \in Nat /\ 0 \in 0..1
      BY <1>1, <1>3 DEF Sending
    <2>3. \/ d = 1 /\ IsStatus(Head(x)) /\ r = List /\ m = 0 /\ InAir(Tail(x), r, 0, m, k, 0)
          \/ d = 0 /\ m < k /\ Head(x) = Answer(r)[m + 1] /\ InAir(Tail(x), r, 0, m + 1, k, 0)
          \/ d = 0 /\ 0 = 1
      BY <2>1, <2>2, AnswerHeard
    <2>4. CASE d = 1 /\ IsStatus(Head(x)) /\ r = List /\ m = 0 /\ InAir(Tail(x), r, 0, m, k, 0)
      <3>1. q = 1 /\ 0 \in 0..q
        BY <2>4
      <3>2. Sending(q, cs, t, Tail(x), r, c)
        BY <2>1, <2>2, <2>4, <3>1 DEF Sending
      <3> QED
        BY <2>4, <3>1, <3>2 DEF Answering
    <2>5. CASE d = 0 /\ m < k /\ Head(x) = Answer(r)[m + 1] /\ InAir(Tail(x), r, 0, m + 1, k, 0)
      <3>1. m + 1 \in 0..Len(Answer(r)) /\ 0 \in 0..q /\ m < Len(Answer(r))
        BY <1>1, <2>5
      <3>2. Sending(q, cs, t, Tail(x), r, Heard(r, m + 1))
        BY <2>1, <2>2, <2>5, <3>1 DEF Sending
      <3> QED
        BY <2>1, <2>2, <2>5, <3>1, <3>2 DEF Answering
    <2> QED
      BY <2>3, <2>4, <2>5
  <1>4. CASE Ended(q, cs, t, x, r, c)
    <2>1. PICK d \in 0..q, m, k \in 0..Len(Answer(r)) :
            c = Heard(r, m) /\ InAir(x, r, d, m, k, 1) /\ (r # List => k > 0)
      BY <1>4 DEF Ended
    <2>2. cs = <<>> /\ t = None /\ d \in 0..1 /\ m \in Nat /\ k \in Nat /\ 1 \in 0..1
      BY <1>1, <1>4 DEF Ended
    <2>3. \/ d = 1 /\ IsStatus(Head(x)) /\ r = List /\ m = 0 /\ InAir(Tail(x), r, 0, m, k, 1)
          \/ d = 0 /\ m < k /\ Head(x) = Answer(r)[m + 1] /\ InAir(Tail(x), r, 0, m + 1, k, 1)
          \/ d = 0 /\ m = k /\ Head(x) \in {<<"end">>, <<"error">>} /\ Tail(x) = <<>>
      BY <2>1, <2>2, AnswerHeard
    <2>4. CASE d = 1 /\ IsStatus(Head(x)) /\ r = List /\ m = 0 /\ InAir(Tail(x), r, 0, m, k, 1)
      <3>1. q = 1 /\ 0 \in 0..q
        BY <2>4
      <3>2. Ended(q, cs, t, Tail(x), r, c)
        BY <2>1, <2>2, <2>4, <3>1 DEF Ended
      <3> QED
        BY <2>4, <3>1, <3>2 DEF Answering
    <2>5. CASE d = 0 /\ m < k /\ Head(x) = Answer(r)[m + 1] /\ InAir(Tail(x), r, 0, m + 1, k, 1)
      <3>1. m + 1 \in 0..Len(Answer(r)) /\ 0 \in 0..q /\ m < Len(Answer(r))
        BY <1>1, <2>5
      <3>2. Ended(q, cs, t, Tail(x), r, Heard(r, m + 1))
        BY <2>1, <2>2, <2>5, <3>1 DEF Ended
      <3> QED
        BY <2>1, <2>2, <2>5, <3>1, <3>2 DEF Answering
    <2>6. CASE d = 0 /\ m = k /\ Head(x) \in {<<"end">>, <<"error">>} /\ Tail(x) = <<>>
      BY <2>1, <2>2, <2>6 DEF Clear
    <2> QED
      BY <2>3, <2>4, <2>5, <2>6
  <1> QED
    BY <1>2, <1>3, <1>4 DEF Answering

(* The rest of a queue, and a queue with one more at its end.               *)
LEMMA TailIs ==
  ASSUME NEW S, NEW b \in Seq(S), b # <<>>
  PROVE  /\ Len(b) \in Nat /\ Len(b) > 0 /\ Head(b) = b[1] /\ Tail(b) \in Seq(S)
         /\ Len(Tail(b)) = Len(b) - 1
         /\ \A i \in 1..Len(Tail(b)) : i + 1 \in 1..Len(b) /\ Tail(b)[i] = b[i + 1]
  OBVIOUS

(* A sequence with one more member.                                         *)
LEMMA MoreIs ==
  ASSUME NEW S, NEW b \in Seq(S), NEW n
  PROVE  /\ Len(b) \in Nat /\ Len(Append(b, n)) = Len(b) + 1
         /\ Append(b, n)[Len(b) + 1] = n
         /\ \A i \in 1..Len(b) : i \in 1..Len(Append(b, n)) /\ Append(b, n)[i] = b[i]
         /\ \A i \in 1..Len(Append(b, n)) : i \in 1..Len(b) \/ i = Len(b) + 1
  OBVIOUS

(* A request to turn the notifications on or off that arrives is answered.  *)
LEMMA TurnArrives ==
  ASSUME NEW cs \in Seq(Commands), cs # <<>>, NEW x \in Seq(Notifications), NEW st,
         NEW s \in Sessions, OneTurn(cs, x, st, s)
  PROVE  /\ OneTurn(Tail(cs), x, st, s)
         /\ Head(cs) \in Turns(s) => OneTurn(Tail(cs), Append(x, Response(s)), st, s)
  <1> DEFINE ds == Tail(cs)
             y == Append(x, Response(s))
  <1>1. /\ Len(cs) \in Nat /\ Len(cs) > 0 /\ Head(cs) = cs[1] /\ Len(ds) = Len(cs) - 1
        /\ \A i \in 1..Len(ds) : i + 1 \in 1..Len(cs) /\ ds[i] = cs[i + 1]
    BY TailIs
  <1>2. /\ Len(x) \in Nat /\ Len(y) = Len(x) + 1 /\ y[Len(x) + 1] = Response(s)
        /\ \A i \in 1..Len(x) : y[i] = x[i]
        /\ \A i \in 1..Len(y) : i \in 1..Len(x) \/ i = Len(x) + 1
    BY MoreIs
  <1> HIDE DEF ds, y
  <1>3. ASSUME NEW i \in 1..Len(ds), NEW j \in 1..Len(ds), ds[i] \in Turns(s), ds[j] \in Turns(s)
        PROVE  i = j
    <2>1. i + 1 \in 1..Len(cs) /\ j + 1 \in 1..Len(cs) /\ cs[i + 1] \in Turns(s) /\ cs[j + 1] \in Turns(s)
      BY <1>1, <1>3
    <2>2. i + 1 = j + 1
      BY <2>1 DEF OneTurn
    <2> QED
      BY <2>2
  <1>4. NoTurn(cs, x, s) => NoTurn(ds, x, s)
    BY <1>1 DEF NoTurn
  <1>5. \A i \in 1..Len(ds), j \in 1..Len(x) : ~(ds[i] \in Turns(s) /\ x[j] = Response(s))
    BY <1>1 DEF OneTurn
  <1>6. OneTurn(ds, x, st, s)
    BY <1>3, <1>4, <1>5 DEF OneTurn
  <1>7. ASSUME cs[1] \in Turns(s) PROVE OneTurn(ds, y, st, s)
    <2>1. 1 \in 1..Len(cs)
      BY <1>1
    <2>2. st \in Turning
      BY <1>7, <2>1 DEF OneTurn, NoTurn
    <2>3. \A j \in 1..Len(x) : x[j] # Response(s)
      BY <1>7, <2>1 DEF OneTurn
    <2>4. \A i, j \in 1..Len(y) : y[i] = Response(s) /\ y[j] = Response(s) => i = j
      BY <1>2, <2>3
    <2>5. \A i \in 1..Len(ds) : ds[i] \notin Turns(s)
      <3> SUFFICES ASSUME NEW i \in 1..Len(ds), ds[i] \in Turns(s) PROVE FALSE
        OBVIOUS
      <3>1. i + 1 \in 1..Len(cs) /\ cs[i + 1] \in Turns(s)
        BY <1>1
      <3>2. i + 1 = 1
        BY <1>7, <2>1, <3>1 DEF OneTurn
      <3> QED
        BY <3>2
    <2> QED
      BY <2>2, <2>4, <2>5 DEF OneTurn
  <1> QED
    BY <1>1, <1>6, <1>7 DEF ds, y

(* Notifications that are no answers to such a request come and go.         *)
LEMMA NoticeComes ==
  ASSUME NEW cs \in Seq(Commands), NEW x \in Seq(Notifications), NEW st,
         NEW s \in Sessions, OneTurn(cs, x, st, s), NEW n, n # Response(s)
  PROVE  OneTurn(cs, Append(x, n), st, s)
  <1> DEFINE y == Append(x, n)
  <1>1. /\ Len(x) \in Nat /\ Len(y) = Len(x) + 1 /\ y[Len(x) + 1] = n
        /\ \A i \in 1..Len(x) : y[i] = x[i]
        /\ \A i \in 1..Len(y) : i \in 1..Len(x) \/ i = Len(x) + 1
    BY MoreIs
  <1> HIDE DEF y
  <1>2. \A i \in 1..Len(y) : y[i] = Response(s) => i \in 1..Len(x) /\ x[i] = Response(s)
    BY <1>1
  <1>3. NoTurn(cs, x, s) => NoTurn(cs, y, s)
    BY <1>2 DEF NoTurn
  <1>4. OneTurn(cs, y, st, s)
    BY <1>2, <1>3 DEF OneTurn
  <1> QED
    BY <1>4 DEF y

(* A notification that is delivered is under way no more.                   *)
LEMMA NoticeGoes ==
  ASSUME NEW cs \in Seq(Commands), NEW x \in Seq(Notifications), x # <<>>, NEW st,
         NEW s \in Sessions, OneTurn(cs, x, st, s)
  PROVE  /\ OneTurn(cs, Tail(x), st, s)
         /\ Head(x) = Response(s) => st \in Turning /\ NoTurn(cs, Tail(x), s)
  <1> DEFINE y == Tail(x)
  <1>1. /\ Len(x) \in Nat /\ Len(x) > 0 /\ Head(x) = x[1] /\ Len(y) = Len(x) - 1
        /\ \A i \in 1..Len(y) : i + 1 \in 1..Len(x) /\ y[i] = x[i + 1]
    BY TailIs
  <1> HIDE DEF y
  <1>2. ASSUME NEW i \in 1..Len(y), NEW j \in 1..Len(y), y[i] = Response(s), y[j] = Response(s)
        PROVE  i = j
    <2>1. i + 1 \in 1..Len(x) /\ j + 1 \in 1..Len(x) /\ x[i + 1] = Response(s) /\ x[j + 1] = Response(s)
      BY <1>1, <1>2
    <2>2. i + 1 = j + 1
      BY <2>1 DEF OneTurn
    <2> QED
      BY <2>2
  <1>3. NoTurn(cs, x, s) => NoTurn(cs, y, s)
    BY <1>1 DEF NoTurn
  <1>4. OneTurn(cs, y, st, s)
    BY <1>1, <1>2, <1>3 DEF OneTurn
  <1>5. ASSUME x[1] = Response(s) PROVE st \in Turning /\ NoTurn(cs, y, s)
    <2>1. 1 \in 1..Len(x)
      BY <1>1
    <2>2. st \in Turning /\ \A i \in 1..Len(cs) : cs[i] \notin Turns(s)
      BY <1>5, <2>1 DEF OneTurn, NoTurn
    <2>3. ASSUME NEW i \in 1..Len(y), y[i] = Response(s) PROVE FALSE
      <3>1. i + 1 \in 1..Len(x) /\ x[i + 1] = Response(s)
        BY <1>1, <2>3
      <3>2. i + 1 = 1
        BY <1>5, <2>1, <3>1 DEF OneTurn
      <3> QED
        BY <3>2
    <2> QED
      BY <2>2, <2>3 DEF NoTurn
  <1> QED
    BY <1>1, <1>4, <1>5 DEF y

(* Commands that are no such requests are written ...                       *)
LEMMA OthersWritten ==
  ASSUME NEW cs \in Seq(Commands), NEW x \in Seq(Notifications), NEW st,
         NEW s \in Sessions, OneTurn(cs, x, st, s), NEW ds \in Seq(Commands),
         \A i \in 1..Len(ds) : ds[i] \notin Turns(s)
  PROVE  OneTurn(cs \o ds, x, st, s)
  <1> DEFINE es == cs \o ds
  <1>1. /\ Len(cs) \in Nat /\ Len(ds) \in Nat /\ Len(es) = Len(cs) + Len(ds)
        /\ \A i \in 1..Len(cs) + Len(ds) : es[i] = IF i <= Len(cs) THEN cs[i] ELSE ds[i - Len(cs)]
    BY ConcatProperties
  <1> HIDE DEF es
  <1>2. ASSUME NEW i \in 1..Len(es), es[i] \in Turns(s) PROVE i \in 1..Len(cs) /\ cs[i] \in Turns(s)
    <2>1. CASE i <= Len(cs)
      BY <1>1, <1>2, <2>1
    <2>2. CASE ~(i <= Len(cs))
      <3>1. i - Len(cs) \in 1..Len(ds) /\ es[i] = ds[i - Len(cs)]
        BY <1>1, <2>2
      <3> QED
        BY <1>2, <3>1
    <2> QED
      BY <2>1, <2>2
  <1>3. NoTurn(cs, x, s) => NoTurn(es, x, s)
    BY <1>2 DEF NoTurn
  <1>4. OneTurn(es, x, st, s)
    BY <1>2, <1>3 DEF OneTurn
  <1> QED
    BY <1>4 DEF es

(* ... and such a request, by a session that opens or closes.               *)
LEMMA TurnWritten ==
  ASSUME NEW cs \in Seq(Commands), NEW x \in Seq(Notifications), NEW st \in Turning,
         NEW s \in Sessions, NoTurn(cs, x, s), NEW ds \in Seq(Commands), ds # <<>>,
         \A i \in 1..Len(ds) - 1 : ds[i] \notin Turns(s)
  PROVE  /\ OneTurn(cs \o ds, x, st, s)
         /\ cs \o ds # <<>> /\ (cs \o ds)[Len(cs \o ds)] = ds[Len(ds)]
  <1> DEFINE es == cs \o ds
  <1>1. /\ Len(cs) \in Nat /\ Len(ds) \in Nat /\ Len(es) = Len(cs) + Len(ds)
        /\ \A i \in 1..Len(cs) + Len(ds) : es[i] = IF i <= Len(cs) THEN cs[i] ELSE ds[i - Len(cs)]
    BY ConcatProperties
  <1>2. Len(ds) > 0
    OBVIOUS
  <1>3. es \in Seq(Commands)
    OBVIOUS
  <1> HIDE DEF es
  <1>4. ASSUME NEW i \in 1..Len(es), es[i] \in Turns(s) PROVE i = Len(es)
    <2>1. CASE i <= Len(cs)
      BY <1>1, <1>4, <2>1 DEF NoTurn
    <2>2. CASE ~(i <= Len(cs)) /\ i # Len(es)
      <3>1. i - Len(cs) \in 1..Len(ds) - 1 /\ es[i] = ds[i - Len(cs)]
        BY <1>1, <2>2
      <3> QED
        BY <1>4, <3>1
    <2> QED
      BY <2>1, <2>2
  <1>5. OneTurn(es, x, st, s)
    BY <1>4 DEF OneTurn, NoTurn
  <1>6. es[Len(es)] = ds[Len(ds)] /\ es # <<>>
    <2>1. Len(es) \in 1..Len(cs) + Len(ds) /\ ~(Len(es) <= Len(cs)) /\ Len(es) - Len(cs) = Len(ds)
      BY <1>1, <1>2
    <2>2. es[Len(es)] = ds[Len(es) - Len(cs)]
      BY <1>1, <2>1
    <2> QED
      BY <1>1, <1>2, <1>3, <2>1, <2>2
  <1> QED
    BY <1>5, <1>6 DEF es

(* The kinds of commands differ.                                            *)
LEMMA CommandKinds ==
  /\ \A r \in Requests : r[1] \in {"list", "status", "window"}
  /\ \A r \in Requests, s \in Sessions : r \notin Turns(s)
  /\ \A s \in Sessions : <<"abort">> \notin Turns(s) /\ Turns(s) \subseteq Commands
  /\ \A s, t \in Sessions : s # t => Turns(s) \cap Turns(t) = {} /\ Response(s) # Response(t)
  <1>1. \A r \in Requests : r[1] \in {"list", "status", "window"}
    BY RequestKinds
  <1>2. ASSUME NEW r \in Requests, NEW s \in Sessions PROVE r \notin Turns(s)
    <2>1. \A c \in Turns(s) : c[1] \in {"on", "off"}
      BY DEF Turns
    <2> QED
      BY <1>1, <2>1
  <1>3. ASSUME NEW s \in Sessions PROVE <<"abort">> \notin Turns(s)
    <2>1. \A c \in Turns(s) : c[1] \in {"on", "off"}
      BY DEF Turns
    <2>2. <<"abort">>[1] = "abort"
      OBVIOUS
    <2> QED
      BY <2>1, <2>2
  <1>4. \A s \in Sessions : Turns(s) \subseteq Commands
    BY DEF Turns, Commands
  <1>5. ASSUME NEW s \in Sessions, NEW t \in Sessions, s # t
        PROVE  Turns(s) \cap Turns(t) = {} /\ Response(s) # Response(t)
    <2>1. \A c \in Turns(s) : c[2] = s
      BY DEF Turns
    <2>2. \A c \in Turns(t) : c[2] = t
      BY DEF Turns
    <2>3. Response(s)[2] = s /\ Response(t)[2] = t
      BY DEF Response
    <2> QED
      BY <1>5, <2>1, <2>2, <2>3
  <1> QED
    BY <1>1, <1>2, <1>3, <1>4, <1>5

(* A notification about the status or of an answer is no write response.    *)
LEMMA NoticeKinds ==
  /\ \A n, s : IsStatus(n) => n # Response(s) /\ n[1] \in {"status", "error"}
  /\ \A n \in {<<"end">>, <<"error">>} : \A s : n # Response(s) /\ n[1] \in {"end", "error"}
  /\ \A r \in Requests \ {Status} : \A i \in 1..Len(Answer(r)) : \A s : Answer(r)[i] # Response(s)
  /\ \A s : Response(s)[1] = "response"
  <1>1. \A s : Response(s)[1] = "response"
    BY DEF Response
  <1>2. \A n : IsStatus(n) => n[1] \in {"status", "error"}
    BY DEF IsStatus
  <1>3. \A n \in {<<"end">>, <<"error">>} : n[1] \in {"end", "error"}
    OBVIOUS
  <1>4. ASSUME NEW r \in Requests \ {Status}, NEW i \in 1..Len(Answer(r)), NEW s
        PROVE  Answer(r)[i] # Response(s)
    BY <1>1, AnswerGoesOn
  <1> QED
    BY <1>1, <1>2, <1>3, <1>4

(* What the device does with a command.                                     *)
LEMMA TakeIs ==
  ASSUME CInv, TakeCommand
  PROVE  /\ commands # <<>> /\ commands' = Tail(commands)
         /\ \/ /\ Head(commands) = Status /\ transfer' = transfer /\ notifying' = notifying
               /\ \/ notifying = FALSE /\ air' = air
                  \/ \E n : IsStatus(n) /\ air' = Append(air, n)
            \/ /\ Head(commands) \in Requests \ {Status} /\ notifying' = notifying
               /\ \/ /\ transfer = None /\ air' = air
                     /\ transfer' = [request |-> Head(commands), sent |-> 0]
                  \/ /\ transfer # None
                     /\ air' = air \/ \E n : IsStatus(n) /\ air' = Append(air, n)
            \/ /\ Head(commands) = <<"abort">> /\ transfer' = None
               /\ air' = air /\ notifying' = notifying
            \/ \E t \in Sessions :
                 /\ Head(commands) \in Turns(t) /\ air' = Append(air, Response(t))
                 /\ \/ Head(commands) = <<"on", t>> /\ notifying' = TRUE /\ transfer' = transfer
                    \/ Head(commands) = <<"off", t>> /\ transfer' = None
  <1> DEFINE c == Head(commands)
  <1>1. commands # <<>> /\ commands' = Tail(commands) /\ commands \in Seq(Commands)
    BY DEF TakeCommand, CInv, LinkTypes
  <1>2. c \in Commands
    BY <1>1
  <1>3. \/ c \in Requests
        \/ c = <<"abort">>
        \/ \E t \in Sessions : c \in Turns(t)
    BY <1>2 DEF Commands, Turns
  <1> HIDE DEF c
  <1>4. <<"abort">>[1] = "abort" /\ Status[1] = "status" /\ List[1] = "list"
    BY DEF Status, List
  <1>5. \A t \in Sessions : c \in Turns(t) => c[1] \in {"on", "off"} /\ c = <<c[1], t>> /\ c[2] = t
    BY DEF Turns
  <1>6. notifying \in BOOLEAN
    BY DEF CInv, LinkTypes
  <1>7. \A n : Notify(n) => air' = air \/ air' = Append(air, n)
    BY DEF Notify
  <1>8. \A n : Notify(n) => (notifying = FALSE /\ air' = air) \/ air' = Append(air, n)
    BY <1>6 DEF Notify
  <1>9. CASE c = Status
    <2>1. (\E n \in {"status", "error"} : Notify(<<n>>)) /\ transfer' = transfer /\ notifying' = notifying
      BY <1>4, <1>9 DEF TakeCommand, c
    <2>2. \E n : IsStatus(n) /\ Notify(n)
      BY <2>1 DEF IsStatus
    <2> QED
      BY <1>1, <1>8, <1>9, <2>1, <2>2 DEF c
  <1>10. CASE c \in Requests /\ c # Status
    <2>1. c[1] \in {"list", "window"}
      BY <1>10, RequestKinds
    <2>2. /\ notifying' = notifying
          /\ IF transfer = None THEN transfer' = [request |-> c, sent |-> 0] /\ air' = air
             ELSE Notify(<<"error">>)
      BY <1>4, <1>10, <2>1 DEF TakeCommand, c
    <2>3. IsStatus(<<"error">>)
      BY DEF IsStatus
    <2> QED
      BY <1>1, <1>7, <1>10, <2>2, <2>3 DEF c
  <1>11. CASE c = <<"abort">>
    <2>1. transfer' = None /\ air' = air /\ notifying' = notifying
      BY <1>4, <1>11 DEF TakeCommand, c
    <2> QED
      BY <1>1, <1>11, <2>1 DEF c
  <1>12. ASSUME NEW t \in Sessions, c \in Turns(t)
         PROVE  /\ air' = Append(air, Response(t))
                /\ \/ c = <<"on", t>> /\ notifying' = TRUE /\ transfer' = transfer
                   \/ c = <<"off", t>> /\ transfer' = None
    <2>1. c[1] \in {"on", "off"} /\ c = <<c[1], t>> /\ c[2] = t
      BY <1>5, <1>12
    <2>2. c # Status /\ c # List /\ c[1] # "window" /\ c[1] # "abort"
      BY <1>4, <2>1
    <2>3. /\ notifying' = (c[1] = "on") /\ transfer' = (IF notifying' THEN transfer ELSE None)
          /\ air' = Append(air, <<"response", c[2]>>)
      BY <2>1, <2>2 DEF TakeCommand, c
    <2>4. air' = Append(air, Response(t))
      BY <2>1, <2>3 DEF Response
    <2>5. CASE c[1] = "on"
      <3>1. notifying' = TRUE
        BY <2>3, <2>5
      <3> QED
        BY <2>1, <2>3, <2>4, <2>5, <3>1
    <2>6. CASE c[1] = "off"
      <3>1. notifying' = FALSE
        BY <2>3, <2>6
      <3> QED
        BY <2>1, <2>3, <2>4, <2>6, <3>1
    <2> QED
      BY <2>1, <2>5, <2>6
  <1> QED
    <2>1. CASE \E t \in Sessions : c \in Turns(t)
      BY <1>1, <1>12, <2>1 DEF c
    <2> QED
      BY <1>3, <1>9, <1>10, <1>11, <2>1

(* The invariant of a session and its types.                                *)
LEMMA OfSession ==
  ASSUME CInv, AloneInv, NEW s \in Sessions
  PROVE  /\ commands \in Seq(Commands) /\ air \in Seq(Notifications)
         /\ s \in {"sync", "page"} /\ step[s] \in Steps /\ op[s] \in Requests \cup {None}
         /\ Tidy(s) /\ OneTurn(commands, air, step[s], s)
         /\ ~shared[s] => AloneShut(s) /\ AloneUsed(s)
         /\ op[s] # None => step[s] \in Used \cup Shut /\ (s = "sync" => step[s] \in Used)
         /\ op[s] # None /\ ~shared[s] => step[s] \in Used
         /\ GaveUp(s) \in 0..1
  <1>1. /\ commands \in Seq(Commands) /\ air \in Seq(Notifications)
        /\ s \in {"sync", "page"} /\ step[s] \in Steps /\ op[s] \in Requests \cup {None} /\ Tidy(s)
    BY Constants DEF CInv, LinkTypes, CallerTypes, SessionTypes
  <1>2. OneTurn(commands, air, step[s], s) /\ (~shared[s] => AloneShut(s) /\ AloneUsed(s))
    BY DEF AloneInv, Alone
  <1>3. op[s] # None => step[s] \in Used \cup Shut /\ (s = "sync" => step[s] \in Used)
    <2>1. CASE s = "sync"
      BY <2>1 DEF AloneInv, AsksSync, Used
    <2>2. CASE s = "page"
      BY <2>2 DEF AloneInv, AsksPage, Used, Shut, Turning
    <2> QED
      BY <1>1, <2>1, <2>2
  <1>4. op[s] # None /\ ~shared[s] => step[s] \in Used
    BY <1>2, <1>3 DEF AloneShut
  <1>5. GaveUp(s) \in 0..1
    BY DEF GaveUp
  <1> QED
    BY <1>1, <1>2, <1>3, <1>4, <1>5

(* A sequence of one or two commands.                                       *)
LEMMA ShortQueues ==
  /\ \A a : Head(<<a>>) = a /\ Tail(<<a>>) = <<>> /\ <<a>> # <<>>
  /\ \A a : Append(<<>>, a) = <<a>> /\ <<a>>[1] = a /\ Len(<<a>>) = 1 /\ <<>> \o <<a>> = <<a>>
  /\ \A a, b : <<a>> \o <<b>> = <<a, b>>
  <1>1. ASSUME NEW a PROVE Head(<<a>>) = a /\ Tail(<<a>>) = <<>> /\ <<a>> # <<>>
    OBVIOUS
  <1>2. ASSUME NEW a
        PROVE  Append(<<>>, a) = <<a>> /\ <<a>>[1] = a /\ Len(<<a>>) = 1 /\ <<>> \o <<a>> = <<a>>
    OBVIOUS
  <1>3. ASSUME NEW a, NEW b PROVE <<a>> \o <<b>> = <<a, b>>
    <2>1. <<a>> \in Seq({a, b}) /\ b \in {a, b}
      OBVIOUS
    <2>2. Append(<<a>>, b) = <<a>> \o <<b>>
      BY <2>1, AppendIsConcat
    <2> DEFINE x == Append(<<a>>, b)
               y == <<a, b>>
    <2>3. x \in Seq({a, b}) /\ Len(x) = 2 /\ x[1] = a /\ x[2] = b
      BY <2>1
    <2>4. y \in Seq({a, b}) /\ Len(y) = 2 /\ y[1] = a /\ y[2] = b
      OBVIOUS
    <2>5. x = y
      <3> HIDE DEF x, y
      <3>1. \A i \in 1..2 : i = 1 \/ i = 2
        OBVIOUS
      <3>2. \A i \in 1..Len(x) : x[i] = y[i]
        BY <2>3, <2>4, <3>1
      <3> QED
        BY <2>3, <2>4, <3>2, SeqEqual
    <2> QED
      BY <2>2, <2>5
  <1> QED
    BY <1>1, <1>2, <1>3

(* The device takes a command: whoever is alone keeps what it has asked for.*)
LEMMA TakeTurns ==
  ASSUME CInv, AloneInv, TakeCommand, NEW s \in Sessions
  PROVE  OneTurn(commands', air', step[s], s)
  <1> DEFINE cs == commands'
             st == step[s]
  <1>1. commands \in Seq(Commands) /\ air \in Seq(Notifications) /\ OneTurn(commands, air, st, s)
        /\ commands # <<>> /\ cs = Tail(commands)
    BY OfSession, TakeIs
  <1>2. cs \in Seq(Commands)
    BY <1>1
  <1>3. /\ OneTurn(cs, air, st, s)
        /\ Head(commands) \in Turns(s) => OneTurn(cs, Append(air, Response(s)), st, s)
    BY <1>1, TurnArrives
  <1> HIDE DEF cs, st
  <1>4. \A n : n # Response(s) => OneTurn(cs, Append(air, n), st, s)
    BY <1>1, <1>2, <1>3, NoticeComes
  <1>5. \/ air' = air
        \/ \E n : IsStatus(n) /\ air' = Append(air, n)
        \/ \E t \in Sessions : Head(commands) \in Turns(t) /\ air' = Append(air, Response(t))
    BY TakeIs
  <1>6. CASE air' = air
    BY <1>3, <1>6 DEF cs, st
  <1>7. CASE \E n : IsStatus(n) /\ air' = Append(air, n)
    BY <1>4, <1>7, NoticeKinds DEF cs, st
  <1>8. ASSUME NEW t \in Sessions, Head(commands) \in Turns(t), air' = Append(air, Response(t))
        PROVE  OneTurn(cs, air', st, s)
    <2>1. CASE t = s
      BY <1>3, <1>8, <2>1
    <2>2. CASE t # s
      BY <1>4, <1>8, <2>2, CommandKinds
    <2> QED
      BY <2>1, <2>2
  <1> QED
    BY <1>5, <1>6, <1>7, <1>8 DEF cs, st

(* The device takes the command of a session that is alone                  *)
(* (wr_storage_work_handler).                                               *)
LEMMA TakeAlone ==
  ASSUME CInv, AloneInv, TakeCommand, NEW s \in Sessions, ~shared[s]
  PROVE  AloneShut(s)' /\ AloneUsed(s)'
  <1>1. /\ commands # <<>> /\ commands \in Seq(Commands) /\ commands' = Tail(commands)
        /\ air \in Seq(Notifications) /\ GaveUp(s) \in 0..1 /\ op[s] \in Requests \cup {None}
        /\ AloneShut(s) /\ AloneUsed(s) /\ (op[s] # None => step[s] \in Used)
    BY OfSession, TakeIs
  <1>2. step' = step /\ op' = op /\ locked' = locked /\ waiting' = waiting
        /\ listening' = listening /\ collected' = collected
    BY DEF TakeCommand, callers, session
  <1>3. /\ Used \cap Shut = {} /\ Shut = {"away", "opening", "closing"}
        /\ {"away", "opening", "closing"} \cap Used = {}
    BY DEF Used, Shut, Turning
  <1>4. ~Clear(commands, transfer, air)
    BY <1>1 DEF Clear
  <1>5. \A n : IsStatus(n) => Append(<<>>, n) = <<n>> /\ Len(<<n>>) = 1 /\ <<n>>[1] = n
    BY ShortQueues
  <1>6. AloneShut(s)'
    <2>1. step[s] # "away"
      BY <1>1, <1>4 DEF AloneShut
    <2>2. CASE step[s] = "opening"
      <3>1. transfer = None /\ commands = <<<<"on", s>>>> /\ air = <<>>
        BY <1>1, <2>2 DEF AloneShut
      <3>2. Head(commands) = <<"on", s>> /\ Tail(commands) = <<>>
        BY <3>1, ShortQueues
      <3>3. Head(commands) \in Turns(s) /\ Head(commands)[1] = "on" /\ Head(commands)[2] = s
        BY <3>2 DEF Turns
      <3>4. Head(commands) \notin Requests /\ Head(commands) # <<"abort">> /\ Head(commands) # Status
            /\ \A t \in Sessions : Head(commands) \in Turns(t) => t = s
        BY <3>3, CommandKinds, RequestKinds
      <3>5. air' = Append(air, Response(s)) /\ notifying' = TRUE /\ transfer' = transfer
        <4>1. <<"off", s>>[1] = "off"
          OBVIOUS
        <4> QED
          BY <3>3, <3>4, <4>1, TakeIs
      <3>6. commands' = <<>> /\ air' = <<Response(s)>> /\ transfer' = None
        BY <1>1, <3>1, <3>2, <3>5, ShortQueues
      <3> QED
        BY <1>1, <1>2, <1>3, <2>2, <3>5, <3>6 DEF AloneShut
    <2>3. CASE step[s] = "closing"
      <3>1. commands[Len(commands)] = <<"off", s>>
        BY <1>1, <2>3 DEF AloneShut
      <3>2. /\ Len(commands) \in Nat /\ Len(commands) > 0 /\ Head(commands) = commands[1]
            /\ Len(Tail(commands)) = Len(commands) - 1 /\ Tail(commands) \in Seq(Commands)
            /\ \A i \in 1..Len(Tail(commands)) : Tail(commands)[i] = commands[i + 1]
        BY <1>1, TailIs
      <3>3. CASE Len(commands) = 1
        <4>1. Head(commands) = <<"off", s>> /\ Tail(commands) = <<>>
          <5>1. Len(Tail(commands)) = 0 /\ Head(commands) = commands[Len(commands)]
            BY <3>2, <3>3
          <5> QED
            BY <3>1, <3>2, <5>1, EmptySeq
        <4>2. Head(commands) \in Turns(s) /\ Head(commands)[1] = "off"
          BY <4>1 DEF Turns
        <4>3. Head(commands) \notin Requests /\ Head(commands) # <<"abort">> /\ Head(commands) # Status
              /\ \A t \in Sessions : Head(commands) \in Turns(t) => t = s
          BY <4>2, CommandKinds, RequestKinds
        <4>4. air' = Append(air, Response(s)) /\ transfer' = None
          <5>1. <<"on", s>>[1] = "on"
            OBVIOUS
          <5> QED
            BY <4>2, <4>3, <5>1, TakeIs
        <4>5. air' # <<>> /\ air'[Len(air')] = Response(s)
          BY <1>1, <4>4
        <4> QED
          BY <1>1, <1>2, <1>3, <2>3, <4>1, <4>4, <4>5 DEF AloneShut
      <3>4. CASE Len(commands) > 1
        <4>1. commands' # <<>> /\ commands'[Len(commands')] = <<"off", s>>
          BY <1>1, <3>1, <3>2, <3>4
        <4> QED
          BY <1>1, <1>2, <1>3, <2>3, <4>1 DEF AloneShut
      <3> QED
        BY <3>2, <3>3, <3>4
    <2>4. CASE step[s] \notin Shut
      BY <1>2, <1>3, <2>4 DEF AloneShut
    <2> QED
      BY <1>3, <2>1, <2>2, <2>3, <2>4
  <1>7. AloneUsed(s)'
    <2> SUFFICES ASSUME step[s] \in Used PROVE AloneUsed(s)'
      BY <1>2 DEF AloneUsed
    <2>1. notifying = TRUE
      BY <1>1 DEF AloneUsed
    <2>2. CASE OneStatus(commands, transfer, air)
      <3>1. transfer = None /\ commands = <<Status>> /\ air = <<>>
        BY <1>1, <2>2 DEF OneStatus
      <3>2. Head(commands) = Status /\ Tail(commands) = <<>>
        BY <3>1, ShortQueues
      <3>3. Status \notin Requests \ {Status} /\ Status # <<"abort">>
            /\ \A t \in Sessions : Status \notin Turns(t)
        <4>1. <<"abort">>[1] = "abort"
          OBVIOUS
        <4> QED
          BY <4>1, CommandKinds, RequestKinds
      <3>4. transfer' = None /\ notifying' = TRUE /\ \E n : IsStatus(n) /\ air' = Append(air, n)
        BY <2>1, <3>1, <3>2, <3>3, TakeIs
      <3>5. \E n : IsStatus(n) /\ air' = <<n>>
        BY <1>5, <3>1, <3>4
      <3>6. OneStatus(commands', transfer', air')
        BY <1>1, <3>2, <3>4, <3>5, ShortQueues DEF OneStatus
      <3>7. op[s] \in {None, Status} \/ Answering(GaveUp(s), commands, transfer, air, op[s], collected[s])
        BY <1>1 DEF AloneUsed
      <3>8. ~Answering(GaveUp(s), commands, transfer, air, op[s], collected[s]) \/ op[s] \in {None, Status}
        <4> SUFFICES ASSUME op[s] \in Requests \ {Status},
                            Answering(GaveUp(s), commands, transfer, air, op[s], collected[s])
                     PROVE  FALSE
          BY <1>1
        <4>1. \/ commands = <<Status, List>> \/ commands = <<op[s]>> \/ commands = <<>>
          BY DEF Answering, Written, Sending, Ended
        <4> QED
          BY <3>1, <4>1
      <3>9. op[s] \in {None, Status}
        BY <3>7, <3>8
      <3>10. op[s] = None => step[s] = "list"
        BY <1>1, <1>4 DEF AloneUsed
      <3>11. None # Status
        BY Constants, RequestKinds
      <3> QED
        BY <1>1, <1>2, <3>4, <3>6, <3>9, <3>10, <3>11 DEF AloneUsed
    <2>3. CASE op[s] \in Requests \ {Status}
                 /\ Answering(GaveUp(s), commands, transfer, air, op[s], collected[s])
      <3> DEFINE A == Answering(GaveUp(s), commands', transfer', air', op[s], collected[s])
      <3>1. transfer = None
            /\ \/ /\ Head(commands) = Status
                  /\ \A n : IsStatus(n) => Answering(GaveUp(s), commands', transfer, Append(air, n), op[s], collected[s])
               \/ /\ Head(commands) = op[s]
                  /\ Answering(GaveUp(s), commands', [request |-> op[s], sent |-> 0], air, op[s], collected[s])
        BY <1>1, <2>3, TakesRequest
      <3>2. Head(commands) \in Requests
        BY <2>3, <3>1, RequestKinds
      <3>3. Head(commands) # <<"abort">> /\ \A t \in Sessions : Head(commands) \notin Turns(t)
        <4>1. <<"abort">>[1] = "abort"
          OBVIOUS
        <4> QED
          BY <3>2, <4>1, CommandKinds
      <3>4. A /\ notifying' = TRUE
        <4>1. CASE Head(commands) = Status
          <5>1. transfer' = transfer /\ notifying' = TRUE /\ \E n : IsStatus(n) /\ air' = Append(air, n)
            BY <2>1, <3>3, <4>1, TakeIs
          <5> QED
            BY <2>3, <3>1, <4>1, <5>1
        <4>2. CASE Head(commands) # Status
          <5>1. transfer' = [request |-> Head(commands), sent |-> 0] /\ notifying' = TRUE /\ air' = air
            BY <2>1, <3>1, <3>2, <3>3, <4>2, TakeIs
          <5> QED
            BY <3>1, <4>2, <5>1
        <4> QED
          BY <4>1, <4>2
      <3>5. None # op[s]
        BY <2>3, Constants
      <3> QED
        BY <1>1, <1>2, <2>3, <3>4, <3>5 DEF AloneUsed
    <2> QED
      BY <1>1, <1>4, <2>2, <2>3 DEF AloneUsed
  <1> QED
    BY <1>6, <1>7

(* ... and the invariant is kept.                                           *)
LEMMA TakeKeeps ==
  ASSUME CInv, AloneInv, TakeCommand
  PROVE  AloneInv'
  <1>1. step' = step /\ op' = op /\ waiting' = waiting /\ shared' = shared
    BY DEF TakeCommand, callers, session
  <1>2. AsksSync' /\ AsksPage'
    BY <1>1 DEF AloneInv, AsksSync, AsksPage
  <1>3. \A s \in Sessions : OneTurn(commands, air, step[s], s)'
    BY <1>1, TakeTurns
  <1>4. \A s \in Sessions : Alone(s)'
    BY <1>1, TakeAlone DEF Alone
  <1> QED
    BY <1>1, <1>2, <1>3, <1>4 DEF AloneInv

(* The device sends a notification of its transfer, or the end.             *)
LEMMA SendKeeps ==
  ASSUME CInv, AloneInv, Send
  PROVE  AloneInv'
  <1>1. /\ step' = step /\ op' = op /\ waiting' = waiting /\ shared' = shared /\ locked' = locked
        /\ listening' = listening /\ collected' = collected
        /\ commands' = commands /\ notifying' = notifying
    BY DEF Send, callers, session
  <1>2. AsksSync' /\ AsksPage'
    BY <1>1 DEF AloneInv, AsksSync, AsksPage
  <1>3. /\ transfer # None /\ transfer.request \in Requests \ {Status} /\ transfer.sent \in Nat
        /\ notifying \in BOOLEAN
    BY DEF Send, CInv, LinkTypes, Transfers
  <1>4. \E n :
          /\ \/ notifying = FALSE /\ air' = air
             \/ air' = Append(air, n)
          /\ \/ /\ transfer.sent < Len(Answer(transfer.request))
                /\ n = Answer(transfer.request)[transfer.sent + 1]
                /\ transfer' = [transfer EXCEPT !.sent = @ + 1]
             \/ /\ n \in {<<"end">>, <<"error">>} /\ transfer' = None
                /\ transfer.sent > 0 \/ transfer.request = List
    BY <1>3 DEF Send, Notify
  <1>5. PICK n : /\ \/ notifying = FALSE /\ air' = air
                    \/ air' = Append(air, n)
                 /\ \/ /\ transfer.sent < Len(Answer(transfer.request))
                       /\ n = Answer(transfer.request)[transfer.sent + 1]
                       /\ transfer' = [transfer EXCEPT !.sent = @ + 1]
                    \/ /\ n \in {<<"end">>, <<"error">>} /\ transfer' = None
                       /\ transfer.sent > 0 \/ transfer.request = List
    BY <1>4
  <1>6. \A s : n # Response(s)
    <2>1. CASE n \in {<<"end">>, <<"error">>}
      BY <2>1, NoticeKinds
    <2>2. CASE n \notin {<<"end">>, <<"error">>}
      <3>1. n = Answer(transfer.request)[transfer.sent + 1]
            /\ transfer.sent + 1 \in 1..Len(Answer(transfer.request))
        <4>1. Len(Answer(transfer.request)) \in Nat
          BY <1>3, AnswerIs
        <4> QED
          BY <1>3, <1>5, <2>2, <4>1
      <3> QED
        BY <1>3, <3>1, NoticeKinds
    <2> QED
      BY <2>1, <2>2
  <1>7. ASSUME NEW s \in Sessions PROVE OneTurn(commands, air, step[s], s)'
    <2>1. OneTurn(commands, air, step[s], s) /\ commands \in Seq(Commands) /\ air \in Seq(Notifications)
      BY OfSession
    <2>2. OneTurn(commands, Append(air, n), step[s], s)
      BY <1>6, <2>1, NoticeComes
    <2> QED
      BY <1>1, <1>5, <2>1, <2>2
  <1>8. ASSUME NEW s \in Sessions, ~shared[s] PROVE AloneShut(s)' /\ AloneUsed(s)'
    <2>1. /\ air \in Seq(Notifications) /\ GaveUp(s) \in 0..1 /\ op[s] \in Requests \cup {None}
          /\ AloneShut(s) /\ AloneUsed(s)
      BY <1>8, OfSession
    <2>2. AloneShut(s)'
      <3>1. step[s] # "away" /\ step[s] # "opening"
        BY <1>3, <2>1 DEF AloneShut, Clear
      <3>2. step[s] = "closing" => commands # <<>> /\ commands[Len(commands)] = <<"off", s>>
        BY <1>3, <2>1 DEF AloneShut
      <3>3. step[s] \in Shut => op[s] = None /\ ~locked[s] /\ waiting[s] = <<>>
        BY <2>1 DEF AloneShut
      <3> QED
        BY <1>1, <3>1, <3>2, <3>3 DEF AloneShut
    <2>3. ASSUME step[s] \in Used PROVE AloneUsed(s)'
      <3>1. notifying = TRUE /\ ~Clear(commands, transfer, air) /\ ~OneStatus(commands, transfer, air)
        BY <1>3, <2>1, <2>3 DEF AloneUsed, Clear, OneStatus
      <3>2. op[s] # None /\ op[s] # Status /\ listening[s]
            /\ Answering(GaveUp(s), commands, transfer, air, op[s], collected[s])
        BY <2>1, <2>3, <3>1 DEF AloneUsed
      <3>3. op[s] \in Requests \ {Status} /\ air' = Append(air, n)
        BY <1>5, <2>1, <3>1, <3>2
      <3>4. /\ transfer.request = op[s]
            /\ transfer.sent < Len(Answer(op[s])) =>
                 Answering(GaveUp(s), commands, [transfer EXCEPT !.sent = @ + 1],
                           Append(air, Answer(op[s])[transfer.sent + 1]), op[s], collected[s])
            /\ (transfer.sent > 0 \/ op[s] = List) => \A m \in {<<"end">>, <<"error">>} :
                 Answering(GaveUp(s), commands, None, Append(air, m), op[s], collected[s])
        BY <1>3, <2>1, <3>2, <3>3, SendsAnswer
      <3>5. Answering(GaveUp(s), commands, transfer', Append(air, n), op[s], collected[s])
        BY <1>5, <3>4
      <3> QED
        BY <1>1, <2>3, <3>1, <3>2, <3>3, <3>5 DEF AloneUsed
    <2> QED
      BY <1>1, <2>2, <2>3 DEF AloneUsed
  <1>9. \A s \in Sessions : Alone(s)'
    BY <1>1, <1>8 DEF Alone
  <1> QED
    BY <1>1, <1>2, <1>7, <1>9 DEF AloneInv

(* What a notification changes of a session: nothing but what was collected,*)
(* or it ends the operation.                                                *)
LEMMA DeliverIs ==
  ASSUME CInv, Deliver, NEW s \in Sessions
  PROVE  /\ air # <<>> /\ air' = Tail(air) /\ Head(air)[1] # "response"
         /\ commands' = commands /\ notifying' = notifying /\ transfer' = transfer
         /\ waiting' = waiting /\ shared' = shared
         /\ Over(s, Head(air)) =>
              /\ step'[s] = Goes(s, Done(s, Head(air))) /\ op'[s] = None
              /\ locked'[s] = FALSE /\ op[s] # None
         /\ ~Over(s, Head(air)) =>
              /\ step'[s] = step[s] /\ op'[s] = op[s] /\ locked'[s] = locked[s]
              /\ listening'[s] = listening[s] /\ collected'[s] = Kept(s, Head(air))
  <1> DEFINE n == Head(air)
  <1>1. /\ air # <<>> /\ air' = Tail(air) /\ Head(air)[1] # "response"
        /\ commands' = commands /\ notifying' = notifying /\ transfer' = transfer
        /\ waiting' = waiting /\ shared' = shared
    BY DEF Deliver
  <1>2. /\ collected'[s] = IF Over(s, n) THEN Nothing ELSE Kept(s, n)
        /\ step'[s] = IF Over(s, n) THEN Goes(s, Done(s, n)) ELSE step[s]
        /\ locked'[s] = IF Over(s, n) THEN ~Released(Done(s, n)) ELSE locked[s]
        /\ op'[s] = IF Over(s, n) THEN None ELSE op[s]
        /\ listening'[s] = StaysSubscribed(s, n)
    BY DEF Deliver
  <1>3. Over(s, n) => op[s] # None
    BY DEF Over, Done, Failed, Hears
  <1>4. StaysSubscribed(s, n) = (listening[s] /\ ~Over(s, n))
    BY DEF StaysSubscribed
  <1>5. listening[s] \in BOOLEAN
    BY DEF CInv, SessionTypes
  <1>6. Released(Done(s, n)) = TRUE
    BY DEF Released
  <1> HIDE DEF n
  <1>7. CASE Over(s, n)
    BY <1>1, <1>2, <1>3, <1>6, <1>7 DEF n
  <1>8. CASE ~Over(s, n)
    <2>1. listening'[s] = listening[s]
      BY <1>2, <1>4, <1>5, <1>8
    <2> QED
      BY <1>1, <1>2, <1>8, <2>1 DEF n
  <1> QED
    BY <1>7, <1>8

(* The sync goes on to another request or to a new session, the page stays. *)
LEMMA GoesIs ==
  ASSUME CInv, AloneInv, NEW s \in Sessions, op[s] # None, NEW ok
  PROVE  /\ s = "sync" => Goes(s, ok) \in {"live", "list", "closed", "reopen"}
         /\ s # "sync" => Goes(s, ok) = step[s] /\ op[s] # Status
         /\ s = "sync" /\ op[s] = Status => Goes(s, ok) \in {"live", "list"}
         /\ s = "sync" /\ op[s] = List /\ ~ok => Goes(s, ok) = "reopen"
  <1>1. op[s] \in Requests /\ s \in {"sync", "page"} /\ List # Status
    BY OfSession, RequestKinds
  <1>2. s # "sync" => op[s] # Status
    BY <1>1 DEF AloneInv, AsksPage
  <1> QED
    BY <1>1, <1>2 DEF Goes, After

(* The phone hears a notification while a session is alone: its operation   *)
(* goes on, or is over and its caller goes on (_onNotify, fetchWindow,      *)
(* listFiles).                                                              *)
LEMMA DeliverAlone ==
  ASSUME CInv, AloneInv, Deliver, NEW s \in Sessions, ~shared[s]
  PROVE  AloneShut(s)' /\ AloneUsed(s)'
  <1> DEFINE n == Head(air)
  <1>1. /\ air # <<>> /\ air \in Seq(Notifications) /\ air' = Tail(air) /\ n[1] # "response"
        /\ commands' = commands /\ notifying' = notifying /\ transfer' = transfer
        /\ waiting' = waiting
        /\ GaveUp(s) \in 0..1 /\ op[s] \in Requests \cup {None} /\ s \in {"sync", "page"}
        /\ AloneShut(s) /\ AloneUsed(s) /\ (op[s] # None => step[s] \in Used)
    BY OfSession, DeliverIs
  <1>2. Over(s, n) => /\ step'[s] = Goes(s, Done(s, n)) /\ op'[s] = None
                      /\ locked'[s] = FALSE /\ op[s] # None
    BY DeliverIs
  <1>3. ~Over(s, n) => /\ step'[s] = step[s] /\ op'[s] = op[s] /\ locked'[s] = locked[s]
                       /\ listening'[s] = listening[s] /\ collected'[s] = Kept(s, n)
    BY DeliverIs
  <1>4. /\ Shut = {"away", "opening", "closing"} /\ Used = {"status", "live", "list", "closed", "browsing"}
    BY DEF Used, Shut, Turning
  <1>5. ~Clear(commands, transfer, air)
    BY <1>1 DEF Clear
  <1>6. /\ Len(air) \in Nat /\ Len(air) > 0 /\ n = air[1] /\ Len(air') = Len(air) - 1
        /\ air' \in Seq(Notifications)
        /\ \A i \in 1..Len(air') : air'[i] = air[i + 1]
    BY <1>1, TailIs
  <1> HIDE DEF n
  <1>7. CASE op[s] = None
    <2>1. step'[s] = step[s] /\ op'[s] = op[s] /\ locked'[s] = locked[s]
      BY <1>2, <1>3, <1>7
    <2>2. AloneShut(s)'
      <3>1. step[s] # "away"
        BY <1>1, <1>5 DEF AloneShut
      <3>2. step[s] # "opening"
        <4> SUFFICES ASSUME step[s] = "opening" PROVE FALSE
          OBVIOUS
        <4>1. air = <<Response(s)>>
          BY <1>1 DEF AloneShut
        <4>2. n = Response(s)
          BY <1>6, <4>1, ShortQueues
        <4> QED
          BY <1>1, <4>2, NoticeKinds
      <3>3. ASSUME step[s] = "closing"
            PROVE  \/ commands' # <<>> /\ commands'[Len(commands')] = <<"off", s>>
                   \/ commands' = <<>> /\ transfer' = None /\ air' # <<>> /\ air'[Len(air')] = Response(s)
        <4>1. CASE commands # <<>> /\ commands[Len(commands)] = <<"off", s>>
          BY <1>1, <4>1
        <4>2. CASE commands = <<>> /\ transfer = None /\ air[Len(air)] = Response(s)
          <5>1. Len(air) # 1
            BY <1>1, <1>6, <4>2, NoticeKinds
          <5>2. Len(air') > 0 /\ Len(air') \in 1..Len(air') /\ Len(air') + 1 = Len(air)
            BY <1>6, <5>1
          <5>3. air'[Len(air')] = Response(s) /\ air' # <<>>
            BY <1>6, <4>2, <5>2, EmptySeq
          <5> QED
            BY <1>1, <4>2, <5>3
        <4> QED
          BY <1>1, <3>3, <4>1, <4>2 DEF AloneShut
      <3>4. step[s] \in Shut => op[s] = None /\ ~locked[s] /\ waiting[s] = <<>>
        BY <1>1 DEF AloneShut
      <3> QED
        BY <1>1, <2>1, <3>1, <3>2, <3>3, <3>4 DEF AloneShut
    <2>3. AloneUsed(s)'
      <3> SUFFICES ASSUME step[s] \in Used PROVE AloneUsed(s)'
        BY <2>1 DEF AloneUsed
      <3>1. step[s] = "list" /\ OneStatus(commands, transfer, air) /\ notifying = TRUE
        BY <1>1, <1>5, <1>7 DEF AloneUsed
      <3>2. commands = <<>> /\ transfer = None /\ Len(air) <= 1
        BY <1>1, <3>1 DEF OneStatus
      <3>3. Len(air') = 0
        BY <1>6, <3>2
      <3>4. OneStatus(commands', transfer', air')
        BY <1>1, <3>2, <3>3 DEF OneStatus
      <3> QED
        BY <1>1, <1>7, <2>1, <3>1, <3>4 DEF AloneUsed
    <2> QED
      BY <2>2, <2>3
  <1>8. CASE op[s] # None
    <2>1. /\ step[s] \in Used /\ notifying = TRUE /\ listening[s] /\ Hears(s)
      BY <1>1, <1>8 DEF AloneUsed, Hears
    <2>2. ASSUME Over(s, n), Clear(commands, transfer, air') PROVE AloneShut(s)' /\ AloneUsed(s)'
      <3>1. step'[s] \notin Shut
        <4>1. CASE s = "sync"
          BY <1>2, <1>4, <1>8, <2>2, <4>1, GoesIs
        <4>2. CASE s # "sync"
          BY <1>2, <1>4, <1>8, <2>1, <2>2, <4>2, GoesIs
        <4> QED
          BY <4>1, <4>2
      <3>2. OneStatus(commands', transfer', air')
        <4>1. commands' = <<>> /\ transfer' = None /\ air' = <<>>
          BY <1>1, <2>2 DEF Clear
        <4>2. Len(air') = 0 /\ 1..0 = {}
          BY <4>1
        <4> QED
          BY <4>1, <4>2 DEF OneStatus
      <3>3. AloneShut(s)'
        BY <1>4, <3>1 DEF AloneShut
      <3>4. None # Status
        BY Constants, RequestKinds
      <3>5. AloneUsed(s)'
        BY <1>1, <1>2, <2>1, <2>2, <3>2, <3>4 DEF AloneUsed
      <3> QED
        BY <3>3, <3>5
    <2>3. ASSUME ~Over(s, n), op[s] # Status,
                 Answering(GaveUp(s), commands, transfer, air', op[s], Kept(s, n))
          PROVE  AloneShut(s)' /\ AloneUsed(s)'
      <3>1. step'[s] \notin Shut
        BY <1>3, <1>4, <2>1, <2>3
      <3>2. AloneShut(s)'
        BY <1>4, <3>1 DEF AloneShut
      <3>3. AloneUsed(s)'
        BY <1>1, <1>3, <1>8, <2>1, <2>3 DEF AloneUsed
      <3> QED
        BY <3>2, <3>3
    <2>4. CASE op[s] = Status
      <3>1. OneStatus(commands, transfer, air)
        BY <1>1, <2>1, <2>4 DEF AloneUsed
      <3>2. commands = <<>> /\ transfer = None /\ Len(air) = 1 /\ IsStatus(air[1])
        BY <1>1, <1>6, <3>1 DEF OneStatus
      <3>3. Over(s, n)
        <4>1. n[1] \in {"status", "error"}
          BY <1>6, <3>2, NoticeKinds
        <4> QED
          BY <2>1, <2>4, <4>1 DEF Over, Done, Failed
      <3>4. air' = <<>>
        <4>1. Len(air') = 0
          BY <1>6, <3>2
        <4> QED
          BY <1>6, <4>1, EmptySeq
      <3>5. Clear(commands, transfer, air')
        BY <3>2, <3>4 DEF Clear
      <3> QED
        BY <2>2, <3>3, <3>5
    <2>5. CASE op[s] # Status
      <3> DEFINE q == GaveUp(s)
                 r == op[s]
                 c == collected[s]
      <3>1. r \in Requests \ {Status} /\ Answering(q, commands, transfer, air, r, c)
        BY <1>1, <1>8, <2>1, <2>5 DEF AloneUsed
      <3>2. \/ /\ IsStatus(n) /\ r = List /\ q = 1
               /\ Answering(q, commands, transfer, air', r, c)
            \/ \E m \in Nat : /\ m < Len(Answer(r)) /\ c = Heard(r, m)
                              /\ n = Answer(r)[m + 1]
                              /\ Answering(q, commands, transfer, air', r, Heard(r, m + 1))
            \/ n \in {<<"end">>, <<"error">>} /\ Clear(commands, transfer, air')
        <4> HIDE DEF q, r, c
        <4>1. q \in 0..1
          BY <1>1 DEF q
        <4> QED
          BY <1>1, <3>1, <4>1, HearsAnswer DEF n
      <3>3. CASE IsStatus(n) /\ r = List /\ q = 1 /\ Answering(q, commands, transfer, air', r, c)
        <4>1. s = "sync" /\ List # Status
          BY <3>3, RequestKinds DEF GaveUp
        <4>2. CASE n[1] = "error"
          <5>1. Over(s, n) /\ ~Done(s, n)
            BY <2>1, <3>3, <4>1, <4>2 DEF Over, Done, Failed
          <5>2. step'[s] = "reopen" /\ op'[s] = None
            <6>1. Goes(s, Done(s, n)) = "reopen"
              BY <1>8, <3>3, <4>1, <5>1, GoesIs
            <6> QED
              BY <1>2, <5>1, <6>1
          <5> QED
            BY <1>4, <5>2 DEF AloneShut, AloneUsed
        <4>3. CASE n[1] = "status"
          <5>1. ~Over(s, n)
            BY <3>3, <4>1, <4>3 DEF Over, Done, Failed
          <5>2. Kept(s, n) = c
            BY <4>3 DEF Kept
          <5> QED
            BY <2>3, <2>5, <3>3, <5>1, <5>2
        <4> QED
          BY <3>3, <4>2, <4>3, NoticeKinds
      <3>4. ASSUME NEW m \in Nat, m < Len(Answer(r)), c = Heard(r, m), n = Answer(r)[m + 1],
                   Answering(q, commands, transfer, air', r, Heard(r, m + 1))
            PROVE  AloneShut(s)' /\ AloneUsed(s)'
        <4>1. Kept(s, n) = Heard(r, m + 1) /\ ~Over(s, n)
          BY <2>1, <3>1, <3>4, CountsAnswer
        <4> QED
          BY <2>3, <2>5, <3>4, <4>1
      <3>5. CASE n \in {<<"end">>, <<"error">>} /\ Clear(commands, transfer, air')
        <4>1. Over(s, n)
          BY <2>1, <2>5, <3>5, NoticeKinds DEF Over, Done, Failed
        <4> QED
          BY <2>2, <3>5, <4>1
      <3> HIDE DEF q, r, c
      <3> QED
        BY <3>2, <3>3, <3>4, <3>5
    <2> QED
      BY <2>4, <2>5
  <1> QED
    BY <1>7, <1>8

(* ... and the invariant is kept.                                           *)
LEMMA DeliverKeeps ==
  ASSUME CInv, AloneInv, Deliver
  PROVE  AloneInv'
  <1>1. AsksSync'
    <2>1. "sync" \in Sessions
      BY Constants
    <2>2. AsksSync
      BY DEF AloneInv
    <2>3. waiting'["sync"] = <<>>
      BY <2>1, <2>2, DeliverIs DEF AsksSync
    <2>4. CASE Over("sync", Head(air))
      <3>1. op'["sync"] = None /\ step'["sync"] \in {"live", "list", "closed", "reopen"}
        BY <2>1, <2>4, DeliverIs, GoesIs
      <3> QED
        BY <2>3, <3>1 DEF AsksSync
    <2>5. CASE ~Over("sync", Head(air))
      <3>1. op'["sync"] = op["sync"] /\ step'["sync"] = step["sync"]
        BY <2>1, <2>5, DeliverIs
      <3> QED
        BY <2>2, <2>3, <3>1 DEF AsksSync
    <2> QED
      BY <2>4, <2>5
  <1>2. AsksPage'
    <2> SUFFICES ASSUME "page" \in Sessions PROVE AsksPage'
      BY DEF AsksPage
    <2>1. AsksPage /\ None # Status
      BY Constants, RequestKinds DEF AloneInv
    <2>2. waiting' = waiting
      BY DeliverIs
    <2>3. step'["page"] = step["page"] /\ op'["page"] \in {None, op["page"]}
      <3>1. CASE Over("page", Head(air))
        BY <3>1, DeliverIs, GoesIs
      <3>2. CASE ~Over("page", Head(air))
        BY <3>2, DeliverIs
      <3> QED
        BY <3>1, <3>2
    <2> QED
      BY <2>1, <2>2, <2>3 DEF AsksPage
  <1>3. ASSUME NEW s \in Sessions PROVE OneTurn(commands, air, step[s], s)'
    <2>1. /\ OneTurn(commands, air, step[s], s) /\ commands \in Seq(Commands)
          /\ air \in Seq(Notifications) /\ air # <<>> /\ air' = Tail(air) /\ commands' = commands
      BY OfSession, DeliverIs
    <2>2. OneTurn(commands, Tail(air), step[s], s)
      BY <2>1, NoticeGoes
    <2>3. step'[s] = step[s] \/ step[s] \notin Turning
      <3>1. CASE Over(s, Head(air))
        <4>1. s = "sync" => step[s] \in Used
          BY <3>1, DeliverIs, OfSession
        <4>2. s # "sync" => step'[s] = step[s]
          BY <3>1, DeliverIs, GoesIs
        <4> QED
          BY <4>1, <4>2 DEF Used, Turning
      <3>2. CASE ~Over(s, Head(air))
        BY <3>2, DeliverIs
      <3> QED
        BY <3>1, <3>2
    <2> QED
      BY <2>1, <2>2, <2>3 DEF OneTurn
  <1>4. \A s \in Sessions : Alone(s)'
    <2>1. shared' = shared
      BY DEF Deliver
    <2> QED
      BY <2>1, DeliverAlone DEF Alone
  <1>5. shared' = shared
    BY DEF Deliver
  <1> QED
    BY <1>5, <1>1, <1>2, <1>3, <1>4 DEF AloneInv

(* The answer of setNotifyValue: what the session asked the device before it*)
(* opened, and whatever was under way, has come to its end.                 *)
LEMMA RespondAlone ==
  ASSUME CInv, AloneInv, Respond, NEW s \in Sessions, ~shared[s]
  PROVE  AloneShut(s)' /\ AloneUsed(s)'
  <1>1. /\ commands' = commands /\ notifying' = notifying /\ transfer' = transfer
        /\ waiting' = waiting /\ op' = op /\ locked' = locked /\ listening' = listening
        /\ collected' = collected /\ air # <<>> /\ air' = Tail(air)
    BY DEF Respond, session
  <1>2. /\ air \in Seq(Notifications) /\ GaveUp(s) \in 0..1 /\ op[s] \in Requests \cup {None}
        /\ s \in {"sync", "page"} /\ OneTurn(commands, air, step[s], s)
        /\ AloneShut(s) /\ AloneUsed(s) /\ commands \in Seq(Commands)
    BY OfSession
  <1>3. PICK t \in Sessions : Head(air) = Response(t)
    <2>1. Head(air) \in Notifications /\ Head(air)[1] = "response"
      BY <1>1, <1>2 DEF Respond
    <2> QED
      BY <2>1 DEF Notifications, Response
  <1>4. Head(air)[2] = t
    BY <1>3 DEF Response
  <1>5. step' = [step EXCEPT ![t] = IF @ = "closing" THEN "away"
                                    ELSE IF t = "sync" THEN "status" ELSE "browsing"]
    BY <1>4 DEF Respond
  <1>6. /\ Len(air) \in Nat /\ Len(air) > 0 /\ Head(air) = air[1] /\ Len(air') = Len(air) - 1
        /\ air' \in Seq(Notifications)
        /\ \A i \in 1..Len(air') : air'[i] = air[i + 1]
    BY <1>1, <1>2, TailIs
  <1>7. step \in [Sessions -> Steps]
    BY DEF CInv, CallerTypes
  <1>8. /\ Shut = {"away", "opening", "closing"} /\ Used = {"status", "live", "list", "closed", "browsing"}
        /\ Turning = {"opening", "closing"}
    BY DEF Used, Shut, Turning
  <1>9. CASE t = s
    <2>1. step[s] \in Turning /\ NoTurn(commands, air', s)
      BY <1>1, <1>2, <1>3, <1>9, NoticeGoes
    <2>2. op[s] = None /\ ~locked[s] /\ waiting[s] = <<>>
      BY <1>2, <1>8, <2>1 DEF AloneShut
    <2>3. CASE step[s] = "opening"
      <3>1. step'[s] \in {"status", "browsing"}
        BY <1>5, <1>7, <1>9, <2>3
      <3>2. commands = <<>> /\ transfer = None /\ air = <<Response(s)>> /\ notifying = TRUE
        BY <1>1, <1>2, <2>3 DEF AloneShut
      <3>3. air' = <<>>
        BY <1>1, <3>2, ShortQueues
      <3>4. AloneShut(s)'
        BY <1>8, <3>1 DEF AloneShut
      <3>5. None # Status
        BY Constants, RequestKinds
      <3>6. AloneUsed(s)'
        BY <1>1, <2>2, <3>1, <3>2, <3>3, <3>5 DEF AloneUsed, Clear
      <3> QED
        BY <3>4, <3>6
    <2>4. CASE step[s] = "closing"
      <3>1. step'[s] = "away"
        BY <1>5, <1>7, <1>9, <2>4
      <3>2. commands = <<>>
        <4> SUFFICES ASSUME commands # <<>> PROVE FALSE
          OBVIOUS
        <4>1. commands[Len(commands)] = <<"off", s>>
          BY <1>2, <2>4 DEF AloneShut
        <4>2. Len(commands) \in 1..Len(commands)
          BY <1>2, EmptySeq
        <4> QED
          BY <2>1, <4>1, <4>2 DEF NoTurn, Turns
      <3>3. transfer = None /\ air[Len(air)] = Response(s)
        BY <1>2, <2>4, <3>2 DEF AloneShut
      <3>4. air' = <<>>
        <4> SUFFICES ASSUME air' # <<>> PROVE FALSE
          OBVIOUS
        <4>1. Len(air') \in 1..Len(air') /\ Len(air') + 1 = Len(air)
          BY <1>6, EmptySeq
        <4>2. air'[Len(air')] = Response(s)
          BY <1>6, <3>3, <4>1
        <4> QED
          BY <2>1, <4>1, <4>2 DEF NoTurn
      <3>5. Clear(commands', transfer', air')
        BY <1>1, <3>2, <3>3, <3>4 DEF Clear
      <3>6. AloneShut(s)'
        BY <1>1, <2>2, <3>1, <3>5 DEF AloneShut
      <3>7. AloneUsed(s)'
        BY <1>8, <3>1 DEF AloneUsed
      <3> QED
        BY <3>6, <3>7
    <2> QED
      BY <1>8, <2>1, <2>3, <2>4
  <1>10. CASE t # s
    <2>1. step'[s] = step[s]
      BY <1>5, <1>7, <1>10
    <2>2. air[1] # Response(s) /\ ~Clear(commands, transfer, air)
      BY <1>1, <1>3, <1>6, <1>10, CommandKinds DEF Clear
    <2>3. AloneShut(s)'
      <3>1. step[s] # "away" /\ (step[s] = "opening" => FALSE)
        <4>1. step[s] # "away"
          BY <1>2, <2>2 DEF AloneShut
        <4>2. step[s] = "opening" => air = <<Response(s)>>
          BY <1>1, <1>2 DEF AloneShut
        <4> QED
          BY <2>2, <4>1, <4>2, ShortQueues
      <3>2. ASSUME step[s] = "closing"
            PROVE  \/ commands' # <<>> /\ commands'[Len(commands')] = <<"off", s>>
                   \/ commands' = <<>> /\ transfer' = None /\ air' # <<>> /\ air'[Len(air')] = Response(s)
        <4>1. CASE commands # <<>> /\ commands[Len(commands)] = <<"off", s>>
          BY <1>1, <4>1
        <4>2. CASE commands = <<>> /\ transfer = None /\ air[Len(air)] = Response(s)
          <5>1. Len(air) # 1
            BY <2>2, <4>2
          <5>2. Len(air') > 0 /\ Len(air') \in 1..Len(air') /\ Len(air') + 1 = Len(air)
            BY <1>6, <5>1
          <5>3. air'[Len(air')] = Response(s) /\ air' # <<>>
            BY <1>6, <4>2, <5>2, EmptySeq
          <5> QED
            BY <1>1, <4>2, <5>3
        <4> QED
          BY <1>2, <3>2, <4>1, <4>2 DEF AloneShut
      <3>3. step[s] \in Shut => op[s] = None /\ ~locked[s] /\ waiting[s] = <<>>
        BY <1>2 DEF AloneShut
      <3> QED
        BY <1>1, <2>1, <3>1, <3>2, <3>3 DEF AloneShut
    <2>4. step[s] \notin Used
      <3> SUFFICES ASSUME step[s] \in Used PROVE FALSE
        OBVIOUS
      <3>1. ~IsStatus(air[1])
        BY <1>3, <1>6, NoticeKinds
      <3>2. ~OneStatus(commands, transfer, air)
        <4>1. Len(air) # 0 /\ (Len(air) <= 1 => 1 \in 1..Len(air))
          BY <1>6
        <4>2. ~(commands = <<>> /\ Len(air) <= 1 /\ \A i \in 1..Len(air) : IsStatus(air[i]))
          BY <3>1, <4>1
        <4> QED
          BY <1>1, <4>2 DEF OneStatus
      <3>3. op[s] \in Requests \ {Status}
            /\ Answering(GaveUp(s), commands, transfer, air, op[s], collected[s])
        BY <1>2, <2>2, <3>2 DEF AloneUsed
      <3>4. \/ IsStatus(Head(air))
            \/ \E m \in Nat : m < Len(Answer(op[s])) /\ Head(air) = Answer(op[s])[m + 1]
            \/ Head(air) \in {<<"end">>, <<"error">>}
        BY <1>1, <1>2, <3>3, HearsAnswer
      <3>5. ASSUME NEW m \in Nat, m < Len(Answer(op[s])), Head(air) = Answer(op[s])[m + 1] PROVE FALSE
        <4>1. m + 1 \in 1..Len(Answer(op[s]))
          BY <3>3, <3>5, AnswerIs
        <4> QED
          BY <1>3, <3>3, <3>5, <4>1, NoticeKinds
      <3> QED
        BY <1>3, <1>6, <3>1, <3>4, <3>5, NoticeKinds
    <2> QED
      BY <2>1, <2>3, <2>4 DEF AloneUsed
  <1> QED
    BY <1>9, <1>10

(* A session hears that its notifications are on, or off.                   *)
LEMMA RespondKeeps ==
  ASSUME CInv, AloneInv, Respond
  PROVE  AloneInv'
  <1>1. /\ commands' = commands /\ waiting' = waiting /\ op' = op /\ shared' = shared
        /\ air # <<>> /\ air' = Tail(air)
    BY DEF Respond, session
  <1>2. air \in Seq(Notifications) /\ commands \in Seq(Commands) /\ step \in [Sessions -> Steps]
    BY DEF CInv, LinkTypes, CallerTypes
  <1>3. PICK t \in Sessions : Head(air) = Response(t)
    <2>1. Head(air) \in Notifications /\ Head(air)[1] = "response"
      BY <1>1, <1>2 DEF Respond
    <2> QED
      BY <2>1 DEF Notifications, Response
  <1>4. Head(air)[2] = t
    BY <1>3 DEF Response
  <1>5. step' = [step EXCEPT ![t] = IF @ = "closing" THEN "away"
                                    ELSE IF t = "sync" THEN "status" ELSE "browsing"]
    BY <1>4 DEF Respond
  <1>6. step[t] \in Turning /\ NoTurn(commands, air', t)
    <2>1. OneTurn(commands, air, step[t], t)
      BY OfSession
    <2> QED
      BY <1>1, <1>2, <1>3, <2>1, NoticeGoes
  <1>7. AsksSync'
    <2>1. CASE t = "sync"
      <3>1. op["sync"] = None
        BY <1>6, <2>1 DEF AloneInv, AsksSync, Turning
      <3>2. step'["sync"] \in {"away", "status"}
        BY <1>2, <1>5, <2>1
      <3> QED
        BY <1>1, <3>1, <3>2 DEF AloneInv, AsksSync
    <2>2. CASE t # "sync"
      <3>1. step'["sync"] = step["sync"]
        BY <1>2, <1>5, <2>2, Constants
      <3> QED
        BY <1>1, <3>1 DEF AloneInv, AsksSync
    <2> QED
      BY <2>1, <2>2
  <1>8. AsksPage'
    <2> SUFFICES ASSUME "page" \in Sessions PROVE AsksPage'
      BY DEF AsksPage
    <2>1. step'["page"] \in {step["page"], "away", "browsing"}
      BY <1>2, <1>5
    <2> QED
      BY <1>1, <2>1 DEF AloneInv, AsksPage
  <1>9. ASSUME NEW s \in Sessions PROVE OneTurn(commands, air, step[s], s)'
    <2>1. OneTurn(commands, air, step[s], s)
      BY OfSession
    <2>2. OneTurn(commands, air', step[s], s)
      BY <1>1, <1>2, <2>1, NoticeGoes
    <2>3. CASE t = s
      BY <1>1, <1>6, <2>2, <2>3 DEF OneTurn
    <2>4. CASE t # s
      <3>1. step'[s] = step[s]
        BY <1>2, <1>5, <2>4
      <3> QED
        BY <1>1, <2>2, <3>1
    <2> QED
      BY <2>3, <2>4
  <1>10. \A s \in Sessions : Alone(s)'
    BY <1>1, RespondAlone DEF Alone
  <1> QED
    BY <1>1, <1>7, <1>8, <1>9, <1>10 DEF AloneInv

(* The user of the page asks for more while an operation runs.              *)
LEMMA AskKeeps ==
  ASSUME CInv, AloneInv, Ask
  PROVE  AloneInv'
  <1>1. /\ commands' = commands /\ air' = air /\ notifying' = notifying /\ transfer' = transfer
        /\ step' = step /\ op' = op /\ locked' = locked /\ listening' = listening
        /\ collected' = collected /\ shared' = shared
        /\ "page" \in Sessions /\ locked["page"] = TRUE
    BY DEF Ask, link, callers, CInv, SessionTypes
  <1>2. PICK r \in Wants("page") : waiting' = [waiting EXCEPT !["page"] = <<r>>]
    BY DEF Ask
  <1>3. waiting \in [Sessions -> Seq(Requests)]
    BY DEF CInv, SessionTypes
  <1>4. waiting'["page"] = <<r>> /\ \A s \in Sessions : s # "page" => waiting'[s] = waiting[s]
    BY <1>1, <1>2, <1>3
  <1>5. r # Status
    <2>1. AsksPage /\ Closed \subseteq Files
      BY RequestKinds DEF AloneInv
    <2>2. Wants("page") \subseteq Windows(Closed) \cup {List}
      BY <1>1, <2>1 DEF AsksPage, Wants
    <2>3. \A w \in Windows(Closed) : w[1] = "window"
      BY DEF Windows
    <2> QED
      BY <1>2, <2>2, <2>3, RequestKinds
  <1>6. AsksSync'
    <2>1. "sync" \in Sessions /\ "sync" # "page"
      BY Constants
    <2>2. waiting'["sync"] = waiting["sync"]
      BY <1>4, <2>1
    <2> QED
      BY <1>1, <2>2 DEF AloneInv, AsksSync
  <1>7. AsksPage'
    <2>1. Head(waiting'["page"]) # Status
      BY <1>4, <1>5, ShortQueues
    <2> QED
      BY <1>1, <2>1 DEF AloneInv, AsksPage
  <1>8. \A s \in Sessions : OneTurn(commands, air, step[s], s)'
    BY <1>1, OfSession
  <1>9. ASSUME NEW s \in Sessions, ~shared[s] PROVE AloneShut(s)' /\ AloneUsed(s)'
    <2>1. AloneShut(s) /\ AloneUsed(s)
      BY <1>9, OfSession
    <2>2. AloneUsed(s)'
      BY <1>1, <2>1 DEF AloneUsed
    <2>3. step[s] \in Shut => waiting'[s] = waiting[s]
      BY <1>1, <1>4, <2>1 DEF AloneShut
    <2>4. AloneShut(s)'
      BY <1>1, <2>1, <2>3 DEF AloneShut, Shut, Turning
    <2> QED
      BY <2>2, <2>4
  <1>10. \A s \in Sessions : Alone(s)'
    BY <1>1, <1>9 DEF Alone
  <1> QED
    BY <1>1, <1>6, <1>7, <1>8, <1>10 DEF AloneInv

(* A session opens: nothing of what it asked for before is under way.       *)
LEMMA OpenKeeps ==
  ASSUME CInv, AloneInv, NEW t \in Sessions, Open(t)
  PROVE  AloneInv'
  <1>1. /\ step[t] = "away" /\ ~locked[t] /\ waiting[t] = <<>>
        /\ commands' = commands \o <<<<"on", t>>>>
        /\ shared' = [u \in Sessions |-> shared[u] \/ u # t]
        /\ step' = [step EXCEPT ![t] = "opening"]
        /\ air' = air /\ notifying' = notifying /\ transfer' = transfer
        /\ waiting' = waiting /\ op' = op /\ locked' = locked /\ listening' = listening
        /\ collected' = collected
    BY DEF Open, Write, session
  <1>2. step \in [Sessions -> Steps]
    BY DEF CInv, CallerTypes
  <1>3. step'[t] = "opening" /\ \A s \in Sessions : s # t => step'[s] = step[s]
    BY <1>1, <1>2
  <1>4. AsksSync'
    <2>1. "sync" \in Sessions /\ AsksSync
      BY Constants DEF AloneInv
    <2>2. CASE t = "sync"
      <3>1. op["sync"] = None
        BY <1>1, <2>1, <2>2 DEF AsksSync
      <3> QED
        BY <1>1, <1>3, <2>1, <2>2, <3>1 DEF AsksSync
    <2>3. CASE t # "sync"
      BY <1>1, <1>3, <2>1, <2>3 DEF AsksSync
    <2> QED
      BY <2>2, <2>3
  <1>5. AsksPage'
    <2> SUFFICES ASSUME "page" \in Sessions PROVE AsksPage'
      BY DEF AsksPage
    <2>1. step'["page"] \in {step["page"], "opening"}
      BY <1>3
    <2> QED
      BY <1>1, <2>1 DEF AloneInv, AsksPage
  <1>6. ASSUME NEW s \in Sessions PROVE OneTurn(commands, air, step[s], s)'
    <2>1. commands \in Seq(Commands) /\ air \in Seq(Notifications) /\ OneTurn(commands, air, step[s], s)
      BY OfSession
    <2> DEFINE ds == <<<<"on", t>>>>
    <2>2. <<"on", t>> \in Commands /\ <<"on", t>> \in Turns(t)
      BY CommandKinds DEF Turns
    <2>3. ds \in Seq(Commands) /\ Len(ds) = 1 /\ ds[1] = <<"on", t>> /\ ds # <<>>
      BY <2>2
    <2> HIDE DEF ds
    <2>4. CASE s = t
      <3>1. NoTurn(commands, air, s)
        BY <1>1, <2>1, <2>4 DEF OneTurn, Turning
      <3>2. "opening" \in Turning /\ 1..Len(ds) - 1 = {}
        BY <2>3 DEF Turning
      <3>3. OneTurn(commands \o ds, air, "opening", s)
        BY <2>1, <2>3, <3>1, <3>2, TurnWritten
      <3> QED
        BY <1>1, <1>3, <2>4, <3>3 DEF ds
    <2>5. CASE s # t
      <3>1. <<"on", t>> \notin Turns(s)
        BY <2>2, <2>5, CommandKinds
      <3>2. OneTurn(commands \o ds, air, step[s], s)
        BY <2>1, <2>3, <3>1, OthersWritten
      <3> QED
        BY <1>1, <1>3, <2>5, <3>2 DEF ds
    <2> QED
      BY <2>4, <2>5
  <1>7. ASSUME NEW s \in Sessions, ~shared'[s] PROVE AloneShut(s)' /\ AloneUsed(s)'
    <2>1. s = t /\ ~shared[s]
      BY <1>1, <1>7
    <2>2. Clear(commands, transfer, air) /\ op[s] = None
      BY <1>1, <2>1, OfSession DEF AloneShut, Shut
    <2>3. commands' = <<<<"on", s>>>> /\ transfer' = None /\ air' = <<>>
      BY <1>1, <2>1, <2>2 DEF Clear
    <2>4. AloneShut(s)'
      BY <1>1, <1>3, <2>1, <2>2, <2>3 DEF AloneShut
    <2>5. AloneUsed(s)'
      BY <1>3, <2>1 DEF AloneUsed, Used
    <2> QED
      BY <2>4, <2>5
  <1>8. \A s \in Sessions : Alone(s)'
    BY <1>7 DEF Alone
  <1>9. shared' \in [Sessions -> BOOLEAN]
    BY <1>1
  <1> QED
    BY <1>9, <1>4, <1>5, <1>6, <1>8 DEF AloneInv

(* A session closes, and is alone from then on if it has nothing under way. *)
LEMMA CloseKeeps ==
  ASSUME CInv, AloneInv, NEW t \in Sessions, Close(t)
  PROVE  AloneInv'
  <1>1. /\ step[t] \in {"reopen", "browsing"}
        /\ commands' = commands \o <<<<"abort">>, <<"off", t>>>>
        /\ shared' = [u \in Sessions |-> u # t \/ locked[u] \/ waiting[u] # <<>>]
        /\ step' = [step EXCEPT ![t] = "closing"]
        /\ air' = air /\ notifying' = notifying /\ transfer' = transfer
        /\ waiting' = waiting /\ op' = op /\ locked' = locked
        /\ collected' = collected
    BY DEF Close
  <1>2. step \in [Sessions -> Steps] /\ commands \in Seq(Commands)
    BY DEF CInv, LinkTypes, CallerTypes
  <1>3. step'[t] = "closing" /\ \A s \in Sessions : s # t => step'[s] = step[s]
    BY <1>1, <1>2
  <1>4. AsksSync'
    <2>1. "sync" \in Sessions /\ AsksSync
      BY Constants DEF AloneInv
    <2>2. CASE t = "sync"
      <3>1. op["sync"] = None
        BY <1>1, <2>1, <2>2 DEF AsksSync
      <3> QED
        BY <1>1, <1>3, <2>1, <2>2, <3>1 DEF AsksSync
    <2>3. CASE t # "sync"
      BY <1>1, <1>3, <2>1, <2>3 DEF AsksSync
    <2> QED
      BY <2>2, <2>3
  <1>5. AsksPage'
    <2> SUFFICES ASSUME "page" \in Sessions PROVE AsksPage'
      BY DEF AsksPage
    <2>1. step'["page"] \in {step["page"], "closing"}
      BY <1>3
    <2> QED
      BY <1>1, <2>1 DEF AloneInv, AsksPage
  <1> DEFINE ds == <<<<"abort">>, <<"off", t>>>>
  <1>6. <<"off", t>> \in Commands /\ <<"off", t>> \in Turns(t) /\ <<"abort">> \in Commands
    BY CommandKinds DEF Turns, Commands
  <1>7. ds \in Seq(Commands) /\ Len(ds) = 2 /\ ds[1] = <<"abort">> /\ ds[2] = <<"off", t>> /\ ds # <<>>
    BY <1>6
  <1>8. NoTurn(commands, air, t) /\ air \in Seq(Notifications)
    BY <1>1, OfSession DEF OneTurn, Turning
  <1> HIDE DEF ds
  <1>9. OneTurn(commands \o ds, air, "closing", t) /\ commands \o ds # <<>>
        /\ (commands \o ds)[Len(commands \o ds)] = <<"off", t>>
    <2>1. "closing" \in Turning /\ \A i \in 1..Len(ds) - 1 : ds[i] \notin Turns(t)
      BY <1>7, CommandKinds DEF Turning
    <2>2. ds[Len(ds)] = <<"off", t>>
      BY <1>7
    <2> QED
      BY <1>2, <1>7, <1>8, <2>1, <2>2, TurnWritten
  <1>10. ASSUME NEW s \in Sessions PROVE OneTurn(commands, air, step[s], s)'
    <2>1. CASE s = t
      BY <1>1, <1>3, <1>9, <2>1 DEF ds
    <2>2. CASE s # t
      <3>1. OneTurn(commands, air, step[s], s)
        BY OfSession
      <3>2. <<"off", t>> \notin Turns(s) /\ <<"abort">> \notin Turns(s)
        BY <1>6, <2>2, CommandKinds
      <3>3. \A i \in 1..Len(ds) : ds[i] \notin Turns(s)
        BY <1>7, <3>2
      <3>4. OneTurn(commands \o ds, air, step[s], s)
        BY <1>2, <1>7, <1>8, <3>1, <3>3, OthersWritten
      <3> QED
        BY <1>1, <1>3, <2>2, <3>4 DEF ds
    <2> QED
      BY <2>1, <2>2
  <1>11. ASSUME NEW s \in Sessions, ~shared'[s] PROVE AloneShut(s)' /\ AloneUsed(s)'
    <2>1. s = t /\ ~locked[s] /\ waiting[s] = <<>>
      BY <1>1, <1>11
    <2>2. op[s] = None
      BY <2>1, OfSession DEF Tidy
    <2>3. commands' # <<>> /\ commands'[Len(commands')] = <<"off", s>>
      BY <1>1, <1>9, <2>1 DEF ds
    <2>4. AloneShut(s)'
      BY <1>1, <1>3, <2>1, <2>2, <2>3 DEF AloneShut
    <2>5. AloneUsed(s)'
      BY <1>3, <2>1 DEF AloneUsed, Used
    <2> QED
      BY <2>4, <2>5
  <1>12. \A s \in Sessions : Alone(s)'
    BY <1>11 DEF Alone
  <1>13. shared' \in [Sessions -> BOOLEAN]
    BY <1>1
  <1> QED
    BY <1>13, <1>4, <1>5, <1>10, <1>12 DEF AloneInv

(* An operation starts: what it asks for follows the step of its caller.    *)
LEMMA StartAsks ==
  ASSUME CInv, AloneInv, NEW t \in Sessions, NEW r \in Due(t)
  PROVE  /\ r \in Requests
         /\ t = "sync" => \/ step[t] = "status" /\ r = Status
                          \/ step[t] = "live"   /\ r \in Windows({Live}) \cup {List}
                          \/ step[t] = "list"   /\ r = List
                          \/ step[t] = "closed" /\ r \in Windows(Closed) \cup {Status}
         /\ t = "page" => r # Status
         /\ waiting[t] = <<>> => step[t] \in Used
  <1>1. /\ t \in {"sync", "page"} /\ rest \subseteq Closed /\ waiting[t] \in Seq(Requests)
        /\ AsksSync /\ AsksPage
    BY OfSession DEF CInv, CallerTypes, SessionTypes, AloneInv
  <1>2. /\ Windows(rest) \subseteq Windows(Closed) /\ Windows(Closed) \subseteq Requests
        /\ Windows({Live}) \subseteq Requests /\ List \in Requests /\ Status \in Requests
        /\ \A w \in Windows(Closed) : w # Status
    <2>1. Closed \subseteq Files /\ {Live} \subseteq Files
      BY RequestKinds
    <2>2. Windows(rest) \subseteq Windows(Closed)
      BY <1>1 DEF Windows
    <2>3. \A w \in Windows(Closed) : w[1] = "window"
      BY DEF Windows
    <2> QED
      BY <2>1, <2>2, <2>3, RequestKinds
  <1>3. CASE waiting[t] # <<>>
    <2>1. r = Head(waiting[t]) /\ r \in Requests
      BY <1>1, <1>3 DEF Due
    <2>2. t # "sync"
      BY <1>1, <1>3 DEF AsksSync
    <2>3. t = "page" => r # Status
      BY <1>1, <1>3, <2>1 DEF AsksPage
    <2> QED
      BY <1>3, <2>1, <2>2, <2>3
  <1>4. CASE waiting[t] = <<>>
    <2>1. r \in Wants(t)
      BY <1>4 DEF Due
    <2>2. CASE t = "sync"
      <3>1. step[t] # "browsing"
        BY <1>1, <2>2 DEF AsksSync
      <3>2. \/ step[t] = "status" /\ r = Status
            \/ step[t] = "live"   /\ r \in Windows({Live}) \cup {List}
            \/ step[t] = "list"   /\ r = List
            \/ step[t] = "closed" /\ r \in Windows(rest) \cup {Status}
        BY <2>1, <3>1 DEF Wants
      <3> QED
        BY <1>2, <2>2, <3>2 DEF Used
    <2>3. CASE t = "page"
      <3>1. step[t] = "browsing" /\ r \in Windows(Closed) \cup {List}
        BY <1>1, <2>1, <2>3 DEF AsksPage, Wants
      <3>2. List # Status
        BY RequestKinds
      <3> QED
        BY <1>2, <2>3, <3>1, <3>2 DEF Used
    <2> QED
      BY <1>1, <2>2, <2>3
  <1> QED
    BY <1>3, <1>4

(* A request is written behind nothing, or behind one for the status.       *)
LEMMA Writes ==
  ASSUME NEW q \in 0..1, NEW r \in Requests \ {Status}, NEW cs, NEW t,
         NEW x \in Seq(Notifications),
         Clear(cs, t, x) \/ (OneStatus(cs, t, x) /\ r = List /\ q = 1)
  PROVE  Answering(q, cs \o <<r>>, t, x, r, Nothing)
  <1>1. CASE Clear(cs, t, x)
    <2>1. cs \o <<r>> = <<r>> /\ t = None /\ x = <<>> /\ Len(x) = 0
      BY <1>1 DEF Clear
    <2>2. InAir(x, r, 0, 0, 0, 0) /\ 0 \in 0..q
      BY <2>1 DEF InAir
    <2> QED
      BY <2>1, <2>2 DEF Answering, Written
  <1>2. CASE OneStatus(cs, t, x) /\ r = List /\ q = 1
    <2>1. CASE cs = <<Status>> /\ x = <<>>
      <3>1. cs \o <<r>> = <<Status, List>>
        BY <1>2, <2>1, ShortQueues
      <3> QED
        BY <1>2, <2>1, <3>1 DEF Answering, Written, OneStatus
    <2>2. CASE cs = <<>> /\ Len(x) <= 1 /\ \A i \in 1..Len(x) : IsStatus(x[i])
      <3>1. cs \o <<r>> = <<r>>
        BY <2>2
      <3>2. Len(x) \in 0..1 => Len(x) \in 0..q /\ InAir(x, r, Len(x), 0, 0, 0)
        BY <1>2, <2>2 DEF InAir
      <3>3. Len(x) \in 0..1
        <4>1. Len(x) \in Nat
          OBVIOUS
        <4>2. Len(x) <= 1
          BY <2>2
        <4> DEFINE l == Len(x)
        <4> HIDE DEF l
        <4>3. l \in Nat /\ l <= 1 => l \in 0..1
          OBVIOUS
        <4> QED
          BY <4>1, <4>2, <4>3 DEF l
      <3> QED
        BY <1>2, <3>1, <3>2, <3>3 DEF Answering, Written, OneStatus
    <2> QED
      BY <1>2, <2>1, <2>2 DEF OneStatus
  <1> QED
    BY <1>1, <1>2

(* A caller starts its next operation.                                      *)
LEMMA StartKeeps ==
  ASSUME CInv, AloneInv, NEW t \in Sessions, Start(t)
  PROVE  AloneInv'
  <1>1. PICK r \in Due(t) : op' = [op EXCEPT ![t] = r] /\ Write(t, <<r>>)
    BY DEF Start
  <1>2. /\ ~locked[t] /\ commands' = commands \o <<r>>
        /\ shared' = [u \in Sessions |-> shared[u] \/ u # t]
        /\ waiting' = [waiting EXCEPT ![t] = <<>>] /\ locked' = [locked EXCEPT ![t] = TRUE]
        /\ listening' = [listening EXCEPT ![t] = TRUE]
        /\ collected' = [collected EXCEPT ![t] = Nothing]
        /\ air' = air /\ notifying' = notifying /\ transfer' = transfer
        /\ step' = step /\ rest' = rest
    BY <1>1 DEF Start, Write, callers
  <1>3. /\ r \in Requests
        /\ t = "sync" => \/ step[t] = "status" /\ r = Status
                         \/ step[t] = "live"   /\ r \in Windows({Live}) \cup {List}
                         \/ step[t] = "list"   /\ r = List
                         \/ step[t] = "closed" /\ r \in Windows(Closed) \cup {Status}
        /\ t = "page" => r # Status
        /\ waiting[t] = <<>> => step[t] \in Used
    BY StartAsks
  <1>4. /\ waiting \in [Sessions -> Seq(Requests)] /\ op \in [Sessions -> Requests \cup {None}]
        /\ locked \in [Sessions -> BOOLEAN] /\ listening \in [Sessions -> BOOLEAN]
        /\ collected \in [Sessions -> Collections]
    BY DEF CInv, SessionTypes
  <1>5. op'[t] = r /\ waiting'[t] = <<>> /\ listening'[t] = TRUE /\ collected'[t] = Nothing
        /\ \A s \in Sessions : s # t => op'[s] = op[s] /\ waiting'[s] = waiting[s]
    BY <1>1, <1>2, <1>4
  <1>6. AsksSync'
    <2>1. "sync" \in Sessions /\ AsksSync
      BY Constants DEF AloneInv
    <2>2. CASE t = "sync"
      <3>1. step'["sync"] # "browsing" /\ waiting'["sync"] = <<>>
        BY <1>2, <1>5, <2>1, <2>2 DEF AsksSync
      <3> QED
        BY <1>2, <1>3, <1>5, <2>2, <3>1 DEF AsksSync
    <2>3. CASE t # "sync"
      <3>1. op'["sync"] = op["sync"] /\ waiting'["sync"] = waiting["sync"]
        BY <1>5, <2>1, <2>3
      <3> QED
        BY <1>2, <2>1, <3>1 DEF AsksSync
    <2> QED
      BY <2>2, <2>3
  <1>7. AsksPage'
    <2> SUFFICES ASSUME "page" \in Sessions PROVE AsksPage'
      BY DEF AsksPage
    <2>1. AsksPage
      BY DEF AloneInv
    <2>2. CASE t = "page"
      BY <1>2, <1>3, <1>5, <2>1, <2>2 DEF AsksPage
    <2>3. CASE t # "page"
      <3>1. op'["page"] = op["page"] /\ waiting'["page"] = waiting["page"]
        BY <1>5, <2>3
      <3> QED
        BY <1>2, <2>1, <3>1 DEF AsksPage
    <2> QED
      BY <2>2, <2>3
  <1>8. ASSUME NEW s \in Sessions PROVE OneTurn(commands, air, step[s], s)'
    <2>1. commands \in Seq(Commands) /\ air \in Seq(Notifications) /\ OneTurn(commands, air, step[s], s)
      BY OfSession
    <2> DEFINE ds == <<r>>
    <2>2. ds \in Seq(Commands) /\ Len(ds) = 1 /\ ds[1] = r
      BY <1>3 DEF Commands
    <2>3. r \notin Turns(s)
      BY <1>3, CommandKinds
    <2> HIDE DEF ds
    <2>4. OneTurn(commands \o ds, air, step[s], s)
      BY <2>1, <2>2, <2>3, OthersWritten
    <2> QED
      BY <1>2, <2>4 DEF ds
  <1>9. ASSUME NEW s \in Sessions, ~shared'[s] PROVE AloneShut(s)' /\ AloneUsed(s)'
    <2>1. s = t /\ ~shared[s]
      BY <1>2, <1>9
    <2>2. /\ AloneShut(s) /\ AloneUsed(s) /\ op[s] = None /\ s \in {"sync", "page"} /\ step[s] \in Steps
          /\ GaveUp(s) \in 0..1 /\ air \in Seq(Notifications)
      BY <1>2, <2>1, OfSession DEF Tidy
    <2>3. step[s] \in Used
      <3>1. CASE waiting[s] = <<>>
        BY <1>3, <2>1, <3>1
      <3>2. CASE waiting[s] # <<>>
        <4>1. s = "page" /\ step[s] \notin Shut
          BY <2>1, <2>2, <3>2 DEF AloneInv, AsksSync, AloneShut
        <4> QED
          BY <4>1 DEF AloneInv, AsksPage, Used, Shut, Turning
      <3> QED
        BY <3>1, <3>2
    <2>4. notifying = TRUE
          /\ IF step[s] = "list" THEN OneStatus(commands, transfer, air) ELSE Clear(commands, transfer, air)
      BY <2>2, <2>3 DEF AloneUsed
    <2>5. step[s] = "list" => s = "sync" /\ r = List
      <3>1. s = "page" => step[s] # "list"
        BY DEF AloneInv, AsksPage
      <3> QED
        BY <1>3, <2>1, <2>2, <3>1
    <2>6. AloneShut(s)'
      BY <1>2, <2>3 DEF AloneShut, Used, Shut, Turning
    <2>7. List # Status /\ r # None
      BY <1>3, RequestKinds, Constants
    <2>8. CASE r = Status
      <3>1. commands' = <<Status>> /\ transfer' = None /\ air' = <<>>
        <4>1. Clear(commands, transfer, air)
          BY <2>4, <2>5, <2>7, <2>8
        <4>2. <<>> \o <<Status>> = <<Status>>
          BY ShortQueues
        <4> QED
          BY <1>2, <2>8, <4>1, <4>2 DEF Clear
      <3>2. OneStatus(commands', transfer', air')
        BY <3>1 DEF OneStatus
      <3> QED
        BY <1>2, <1>5, <2>1, <2>4, <2>6, <2>7, <2>8, <3>2 DEF AloneUsed
    <2>9. CASE r # Status
      <3>1. Clear(commands, transfer, air)
            \/ (OneStatus(commands, transfer, air) /\ r = List /\ GaveUp(s) = 1)
        BY <2>4, <2>5 DEF GaveUp
      <3>2. Answering(GaveUp(s), commands \o <<r>>, transfer, air, r, Nothing)
        BY <1>3, <2>2, <2>9, <3>1, Writes
      <3> QED
        BY <1>2, <1>5, <2>1, <2>4, <2>6, <2>7, <2>9, <3>2 DEF AloneUsed
    <2> QED
      BY <2>8, <2>9
  <1>10. \A s \in Sessions : Alone(s)'
    BY <1>9 DEF Alone
  <1>11. shared' \in [Sessions -> BOOLEAN]
    BY <1>2
  <1> QED
    BY <1>11, <1>6, <1>7, <1>8, <1>10 DEF AloneInv

(* An operation is given up: only one about the status leaves a session     *)
(* alone, since a listing does not return on the answer to it.              *)
LEMMA GiveUpKeeps ==
  ASSUME CInv, AloneInv, NEW t \in Sessions, GiveUp(t)
  PROVE  AloneInv'
  <1>1. /\ op[t] # None /\ op' = [op EXCEPT ![t] = None]
        /\ locked' = [locked EXCEPT ![t] = ~Released(FALSE)]
        /\ listening' = [listening EXCEPT ![t] = FALSE]
        /\ collected' = [collected EXCEPT ![t] = Nothing]
        /\ step' = [step EXCEPT ![t] = Goes(t, FALSE)]
        /\ shared' = [shared EXCEPT ![t] = @ \/ op[t] # Status]
        /\ commands' = commands /\ air' = air /\ notifying' = notifying /\ transfer' = transfer
        /\ waiting' = waiting
    BY DEF GiveUp, link
  <1>2. /\ step \in [Sessions -> Steps] /\ op \in [Sessions -> Requests \cup {None}]
        /\ locked \in [Sessions -> BOOLEAN] /\ listening \in [Sessions -> BOOLEAN]
        /\ collected \in [Sessions -> Collections]
    BY DEF CInv, CallerTypes, SessionTypes
  <1>3. op'[t] = None /\ step'[t] = Goes(t, FALSE)
    BY <1>1, <1>2
  <1>4. \A s \in Sessions : s # t => /\ op'[s] = op[s] /\ step'[s] = step[s] /\ locked'[s] = locked[s]
                                     /\ listening'[s] = listening[s] /\ collected'[s] = collected[s]
    BY <1>1, <1>2
  <1>5. t \in {"sync", "page"} /\ op[t] \in Requests
    BY <1>1, OfSession
  <1>6. /\ t = "sync" => Goes(t, FALSE) \in {"live", "list", "closed", "reopen"}
        /\ t # "sync" => Goes(t, FALSE) = step[t] /\ op[t] # Status
        /\ t = "sync" /\ op[t] = Status => Goes(t, FALSE) = "list"
    <2>1. /\ t = "sync" => Goes(t, FALSE) \in {"live", "list", "closed", "reopen"}
          /\ t # "sync" => Goes(t, FALSE) = step[t] /\ op[t] # Status
      BY <1>1, GoesIs
    <2>2. ASSUME t = "sync", op[t] = Status PROVE Goes(t, FALSE) = "list"
      <3>1. After(Status, FALSE) = "list"
        BY RequestKinds DEF After
      <3>2. Goes(t, FALSE) = After(op[t], FALSE)
        BY <2>2 DEF Goes
      <3> QED
        BY <2>2, <3>1, <3>2
    <2> QED
      BY <2>1, <2>2
  <1>7. AsksSync'
    <2>1. "sync" \in Sessions /\ AsksSync
      BY Constants DEF AloneInv
    <2>2. CASE t = "sync"
      BY <1>1, <1>3, <1>6, <2>1, <2>2 DEF AsksSync
    <2>3. CASE t # "sync"
      BY <1>1, <1>4, <2>1, <2>3 DEF AsksSync
    <2> QED
      BY <2>2, <2>3
  <1>8. AsksPage'
    <2> SUFFICES ASSUME "page" \in Sessions PROVE AsksPage'
      BY DEF AsksPage
    <2>1. AsksPage /\ None # Status
      BY Constants, RequestKinds DEF AloneInv
    <2>2. CASE t = "page"
      BY <1>1, <1>3, <1>6, <2>1, <2>2 DEF AsksPage
    <2>3. CASE t # "page"
      BY <1>1, <1>4, <2>1, <2>3 DEF AsksPage
    <2> QED
      BY <2>2, <2>3
  <1>9. ASSUME NEW s \in Sessions PROVE OneTurn(commands, air, step[s], s)'
    <2>1. OneTurn(commands, air, step[s], s)
      BY OfSession
    <2>2. step'[s] = step[s] \/ step[s] \notin Turning
      <3>1. CASE s = t /\ t = "sync"
        BY <1>1, <3>1, OfSession DEF Used, Turning
      <3>2. CASE s = t /\ t # "sync"
        BY <1>3, <1>6, <3>2
      <3>3. CASE s # t
        BY <1>4, <3>3
      <3> QED
        BY <3>1, <3>2, <3>3
    <2> QED
      BY <1>1, <2>1, <2>2 DEF OneTurn
  <1>10. ASSUME NEW s \in Sessions, ~shared'[s] PROVE AloneShut(s)' /\ AloneUsed(s)'
    <2>1. /\ shared'[t] = (shared[t] \/ op[t] # Status)
          /\ s # t => shared'[s] = shared[s]
      BY <1>1 DEF AloneInv
    <2>2. CASE s = t
      <3>1. ~shared[s] /\ op[s] = Status /\ t = "sync"
        BY <1>6, <1>10, <2>1, <2>2
      <3>2. step'[s] = "list" /\ step[s] \in Used
        BY <1>1, <1>3, <1>6, <2>2, <3>1, OfSession
      <3>3. notifying = TRUE /\ OneStatus(commands, transfer, air)
        BY <3>1, <3>2, OfSession DEF AloneUsed
      <3>4. None # Status
        BY Constants, RequestKinds
      <3>5. AloneShut(s)'
        BY <3>2 DEF AloneShut, Shut, Turning
      <3>6. AloneUsed(s)'
        BY <1>1, <1>3, <2>2, <3>2, <3>3, <3>4 DEF AloneUsed
      <3> QED
        BY <3>5, <3>6
    <2>3. CASE s # t
      <3>1. ~shared[s]
        BY <1>10, <2>1, <2>3
      <3>2. AloneShut(s) /\ AloneUsed(s)
        BY <3>1, OfSession
      <3>3. op'[s] = op[s] /\ step'[s] = step[s] /\ locked'[s] = locked[s]
            /\ listening'[s] = listening[s] /\ collected'[s] = collected[s]
        BY <1>4, <2>3
      <3> QED
        BY <1>1, <3>2, <3>3 DEF AloneShut, AloneUsed
    <2> QED
      BY <2>2, <2>3
  <1>11. \A s \in Sessions : Alone(s)'
    BY <1>10 DEF Alone
  <1>12. shared' \in [Sessions -> BOOLEAN]
    BY <1>1 DEF AloneInv
  <1> QED
    BY <1>12, <1>7, <1>8, <1>9, <1>11 DEF AloneInv

(* At first nobody has asked for anything.                                  *)
LEMMA InitAlone == Init => AloneInv
  <1> SUFFICES ASSUME Init PROVE AloneInv
    OBVIOUS
  <1>1. "sync" \in Sessions /\ None # Status
    BY Constants, RequestKinds
  <1>2. ASSUME NEW s \in Sessions
        PROVE  /\ step[s] = "away" /\ op[s] = None /\ waiting[s] = <<>> /\ ~locked[s] /\ ~shared[s]
               /\ commands = <<>> /\ transfer = None /\ air = <<>>
    BY DEF Init, Each
  <1>3. AsksSync /\ AsksPage
    BY <1>1, <1>2 DEF AsksSync, AsksPage
  <1>4. ASSUME NEW s \in Sessions PROVE OneTurn(commands, air, step[s], s)
    <2>1. Len(commands) = 0 /\ Len(air) = 0 /\ 1..0 = {}
      BY <1>2
    <2> QED
      BY <2>1 DEF OneTurn, NoTurn
  <1>5. ASSUME NEW s \in Sessions PROVE Alone(s)
    BY <1>2 DEF Alone, AloneShut, AloneUsed, Clear, Used
  <1>6. shared \in [Sessions -> BOOLEAN]
    BY DEF Init, Each
  <1> QED
    BY <1>3, <1>4, <1>5, <1>6 DEF AloneInv

(* Every step keeps it.                                                     *)
LEMMA NextAlone == CInv /\ AloneInv /\ [Next]_vars => AloneInv'
  <1> SUFFICES ASSUME CInv, AloneInv, [Next]_vars PROVE AloneInv'
    OBVIOUS
  <1>1. CASE UNCHANGED vars
    BY <1>1 DEF vars, link, callers, session, AloneInv, AsksSync, AsksPage, Alone, AloneShut, AloneUsed
  <1>2. ASSUME NEW s \in Sessions, Client(s) PROVE AloneInv'
    BY <1>2, OpenKeeps, CloseKeeps, StartKeeps, GiveUpKeeps DEF Client
  <1>3. CASE Next
    BY <1>2, <1>3, TakeKeeps, SendKeeps, DeliverKeeps, RespondKeeps, AskKeeps DEF Next
  <1> QED
    BY <1>1, <1>3

(* The last notification of an answer finds all of it collected. *)
LEMMA HearsEnd ==
  ASSUME NEW q \in 0..1, NEW r \in Requests \ {Status}, NEW cs, NEW x \in Seq(Notifications),
         x # <<>>, NEW t, NEW c, Answering(q, cs, t, x, r, c)
  PROVE  \/ IsStatus(Head(x))
         \/ \E m \in Nat : m < Len(Answer(r)) /\ Head(x) = Answer(r)[m + 1]
         \/ \E m \in Nat : (r # List => m > 0) /\ c = Heard(r, m)
  BY HearsAnswer

(* A session that is alone returns what it asked for.                       *)
LEMMA AnswersWhatWasAsked ==
  ASSUME CInv, AloneInv
  PROVE  AnsweredWhenAlone
  <1> SUFFICES ASSUME NEW s \in Sessions, Returning(s), ~shared[s] PROVE IsAnswer(s)
    BY DEF AnsweredWhenAlone
  <1> DEFINE n == Head(air)
  <1>1. air # <<>> /\ op[s] # Status /\ op[s] # None /\ n[1] = "end"
    BY DEF Returning, Done, Hears
  <1>2. /\ air \in Seq(Notifications) /\ GaveUp(s) \in 0..1 /\ op[s] \in Requests \ {Status}
        /\ Answering(GaveUp(s), commands, transfer, air, op[s], collected[s])
    BY <1>1, OfSession DEF AloneUsed
  <1>3. \/ IsStatus(n)
        \/ \E m \in Nat : m < Len(Answer(op[s])) /\ n = Answer(op[s])[m + 1]
        \/ \E m \in Nat : (op[s] # List => m > 0) /\ collected[s] = Heard(op[s], m)
    BY <1>1, <1>2, HearsEnd DEF n
  <1> HIDE DEF n
  <1>4. ~IsStatus(n)
    BY <1>1, NoticeKinds
  <1>5. ASSUME NEW m \in Nat, m < Len(Answer(op[s])), n = Answer(op[s])[m + 1] PROVE FALSE
    <2>1. m + 1 \in 1..Len(Answer(op[s]))
      BY <1>2, <1>5, AnswerIs
    <2> QED
      BY <1>1, <1>2, <1>5, <2>1, AnswerGoesOn
  <1>6. ASSUME NEW m \in Nat, op[s] # List => m > 0, collected[s] = Heard(op[s], m) PROVE IsAnswer(s)
    <2>1. CASE op[s] = List
      <3>1. collected[s] = [items |-> m, others |-> FALSE, size |-> 0]
        BY <1>6, <2>1 DEF Heard
      <3> QED
        BY <2>1, <3>1 DEF IsAnswer
    <2>2. CASE op[s] # List
      <3>1. collected[s] = [items |-> m - 1, others |-> FALSE, size |-> Size[op[s][2]]]
        BY <1>6, <2>2 DEF Heard
      <3> QED
        BY <2>2, <3>1 DEF IsAnswer
    <2> QED
      BY <2>1, <2>2
  <1> QED
    BY <1>3, <1>4, <1>5, <1>6

(* A session that no other one got in the way of since it was last closed   *)
(* with nothing under way returns what it asked the device for, however     *)
(* late the answers to the sessions before it come (close, fromServices,    *)
(* listFiles, fetchWindow).                                                 *)
THEOREM AnswersWhenAlone == Spec => []AnsweredWhenAlone
  <1>1. Init => CInv /\ AloneInv
    BY InitCInv, InitAlone
  <1>2. CInv /\ AloneInv /\ [Next]_vars => (CInv /\ AloneInv)'
    BY NextCInv, NextAlone
  <1>3. CInv /\ AloneInv => AnsweredWhenAlone
    BY AnswersWhatWasAsked
  <1> QED
    BY <1>1, <1>2, <1>3, PTL DEF Spec

===============================================================================
