----------------------- MODULE WrStorageServiceProofs -----------------------
(***************************************************************************)
(* The storage service is safe for every card, every set of file names and *)
(* every bound on the generation: type correctness, the safety properties  *)
(* of WrStorageService, and that it implements WrTransfer.                 *)
(***************************************************************************)
EXTENDS WrStorageService, TLAPS

(* The inductive invariant.  The handler never holds a generation from the  *)
(* future; while its generation is the current one, the state is still the  *)
(* one it serves and the file is the one that was asked for; and once a     *)
(* stale notification went out, the handler that sent it is past the last   *)
(* point from which it can send.                                            *)
HasSubscriber == state # "IDLE" => subConn
NotFromFuture == wgen <= generation
ServesCurrent == (Serving /\ wgen = generation) => state = wkind
NameIsWanted == state = "FETCHING" => fetchName = wanted
StaleIsSpent == (stale # 0 /\ wpc \in MaySend) => wgen = generation
AnsweredAtFinish ==
  (wpc = "finish" /\ wgen = generation) => (terminal # "none" \/ lost)

IInv ==
  /\ TypeOK
  /\ HasSubscriber
  /\ NotFromFuture
  /\ ServesCurrent
  /\ NameIsWanted
  /\ SendsRequestedFile
  /\ AtMostOneStale
  /\ StaleIsSpent
  /\ AnsweredAtFinish

(* The queue is a sequence without duplicates, and stays one when an item   *)
(* is appended that is not in it, and when its head is taken.               *)
LEMMA QueueAppend ==
  ASSUME NEW q \in Seq(Kinds), NEW k \in Kinds,
         \A i, j \in 1..Len(q) : i # j => q[i] # q[j],
         ~ \E i \in 1..Len(q) : q[i] = k
  PROVE  /\ Append(q, k) \in Seq(Kinds)
         /\ \A i, j \in 1..Len(Append(q, k)) :
              i # j => Append(q, k)[i] # Append(q, k)[j]
  OBVIOUS

LEMMA QueueTail ==
  ASSUME NEW q \in Seq(Kinds), q # <<>>,
         \A i, j \in 1..Len(q) : i # j => q[i] # q[j]
  PROVE  /\ Head(q) \in Kinds
         /\ Tail(q) \in Seq(Kinds)
         /\ \A i, j \in 1..Len(Tail(q)) :
              i # j => Tail(q)[i] # Tail(q)[j]
  OBVIOUS

LEMMA EmptySeq == \A S : <<>> \in Seq(S)
  OBVIOUS

LEMMA InitIInv == Init => IInv
  <1> SUFFICES ASSUME Init PROVE IInv
    OBVIOUS
  <1>1. TypeOK
    <2>1. generation \in 0..MaxGen /\ wgen \in 0..MaxGen
      BY ServiceAssumption DEF Init
    <2>2. queue \in Seq(Kinds) /\ got \in Seq(Nat)
      BY EmptySeq DEF Init
    <2>3. \A i, j \in 1..Len(queue) : i # j => queue[i] # queue[j]
      BY DEF Init
    <2>4. /\ subConn \in BOOLEAN /\ ccc \in BOOLEAN
          /\ failed \in BOOLEAN /\ lost \in BOOLEAN
      BY DEF Init
    <2>5. wkind \in Kinds
      BY DEF Init, Kinds
    <2> QED BY <2>1, <2>2, <2>3, <2>4, <2>5 DEF TypeOK, Init
  <1>2. /\ HasSubscriber /\ NotFromFuture /\ ServesCurrent /\ NameIsWanted
        /\ SendsRequestedFile /\ AtMostOneStale /\ StaleIsSpent
        /\ AnsweredAtFinish
    BY DEF Init, HasSubscriber, NotFromFuture, ServesCurrent, NameIsWanted,
        SendsRequestedFile, AtMostOneStale, StaleIsSpent, AnsweredAtFinish,
        Serving, MaySend
  <1> QED BY <1>1, <1>2 DEF IInv

(* A new generation starts with an empty history.                           *)
LEMMA ForgetHistory ==
  ASSUME NEW name \in Names \cup {None}, Forget(name)
  PROVE  /\ got' \in Seq(Nat)
         /\ wanted' = name
         /\ terminal' = "none"
         /\ stale' = 0
         /\ failed' \in BOOLEAN /\ lost' \in BOOLEAN
  BY EmptySeq DEF Forget

(* Steps of the RX thread. *)
LEMMA CtrlStartIInv ==
  ASSUME IInv, NEW kind \in Kinds, NEW name \in Names \cup {None},
         CtrlStart(kind, name)
  PROVE  IInv'
  <1> USE DEF IInv, CtrlStart, TypeOK, Kinds, HasSubscriber, NotFromFuture,
              ServesCurrent, NameIsWanted, SendsRequestedFile, AtMostOneStale,
              StaleIsSpent, AnsweredAtFinish, Serving, MaySend,
              shared, handler, history
  <1>1. CASE state = "IDLE"
    <2>1. /\ generation' = generation + 1 /\ generation' \in 0..MaxGen
          /\ state' = kind /\ subConn' = TRUE /\ rx' = kind
          /\ fetchName' = IF kind = "FETCHING" THEN name ELSE fetchName
          /\ UNCHANGED <<queue, wpc, handler, ccc>>
      BY <1>1, ServiceAssumption DEF Begin
    <2>2. Forget(name)
      BY <1>1 DEF Begin
    <2>3. /\ wanted' = name /\ terminal' = "none" /\ stale' = 0
          /\ got' \in Seq(Nat) /\ failed' \in BOOLEAN /\ lost' \in BOOLEAN
      BY <2>2, ForgetHistory
    <2> QED
      BY <2>1, <2>3
  <1>2. CASE state # "IDLE"
    BY <1>2
  <1> QED BY <1>1, <1>2

LEMMA RxThreadIInv == ASSUME IInv, RxThread PROVE IInv'
  <1> USE DEF IInv, TypeOK, Kinds, HasSubscriber, NotFromFuture,
              ServesCurrent, NameIsWanted, SendsRequestedFile, AtMostOneStale,
              StaleIsSpent, AnsweredAtFinish, Serving, MaySend,
              shared, handler, history
  <1>1. CASE CtrlList
    BY <1>1, CtrlStartIInv DEF CtrlList
  <1>2. ASSUME NEW name \in Names, CtrlFetch(name) PROVE IInv'
    BY <1>2, CtrlStartIInv DEF CtrlFetch
  <1>3. CASE Submit
    <2>1. /\ queue' \in Seq(Kinds)
          /\ \A i, j \in 1..Len(queue') : i # j => queue'[i] # queue'[j]
      BY <1>3, QueueAppend DEF Submit, Enqueued
    <2> QED BY <2>1, <1>3 DEF Submit, Enqueued
  <1>4. CASE RejectBusy
    BY <1>4 DEF RejectBusy
  <1>5. CASE CtrlAbort
    BY <1>5, ServiceAssumption, ForgetHistory DEF CtrlAbort, AbortedGeneration
  <1>6. CASE Subscribe
    BY <1>6 DEF Subscribe
  <1>7. CASE Unsubscribe
    <2>1. ccc' \in BOOLEAN
      BY <1>7, Zenon DEF Unsubscribe
    <2>2. subConn' \in BOOLEAN
      BY <1>7, Zenon DEF Unsubscribe
    <2>3. /\ generation' \in 0..MaxGen /\ generation' = generation + 1
          /\ state' = "IDLE"
          /\ UNCHANGED <<fetchName, queue, rx, wpc, handler>>
      BY <1>7, ServiceAssumption DEF Unsubscribe
    <2>4. Forget(None)
      BY <1>7 DEF Unsubscribe
    <2> QED BY <2>1, <2>2, <2>3, <2>4, ForgetHistory
  <1> QED BY <1>1, <1>2, <1>3, <1>4, <1>5, <1>6, <1>7 DEF RxThread

(* Steps of the work queue thread. *)
LEMMA WorkThreadIInv == ASSUME IInv, WorkThread PROVE IInv'
  <1> USE ServiceAssumption
      DEF IInv, TypeOK, Kinds, HasSubscriber, NotFromFuture,
              ServesCurrent, NameIsWanted, SendsRequestedFile, AtMostOneStale,
              StaleIsSpent, AnsweredAtFinish, Serving, MaySend,
              shared, handler, history, Fail, Lose
  <1>1. CASE TakeWork
    <2>1. /\ wkind' \in Kinds
          /\ queue' \in Seq(Kinds)
          /\ \A i, j \in 1..Len(queue') : i # j => queue'[i] # queue'[j]
      BY <1>1, QueueTail DEF TakeWork
    <2> QED BY <2>1, <1>1 DEF TakeWork
  <1>2. CASE Snapshot
    BY <1>2 DEF Snapshot
  <1>3. CASE OpenOk
    BY <1>3 DEF OpenOk
  <1>4. CASE OpenError
    BY <1>4 DEF OpenError
  <1>5. CASE CheckLoop
    BY <1>5 DEF CheckLoop, Matches
  <1>6. CASE Read
    BY <1>6 DEF Read, Skip
  <1>7. CASE ReadEnd
    BY <1>7 DEF ReadEnd
  <1>8. CASE ReadError
    BY <1>8 DEF ReadError
  <1>9. CASE NotifyItem
    <2>1. got' \in Seq(Nat) /\ stale' \in Nat /\ stale' <= 1
      <3>1. CASE wgen = generation
        <4>1. stale' = stale /\ got' = Append(got, wpos)
          BY <1>9, <3>1 DEF NotifyItem
        <4> QED BY <4>1
      <3>2. CASE wgen # generation
        <4>1. stale = 0
          BY <1>9, <3>2 DEF NotifyItem
        <4>2. stale' = stale + 1 /\ got' = got
          BY <1>9, <3>2 DEF NotifyItem
        <4> QED BY <4>1, <4>2
      <3> QED BY <3>1, <3>2
    <2>2. /\ wpc = "notify"
          /\ wpc' = "check"
          /\ UNCHANGED <<shared, queue, rx, handler, ccc, wanted, terminal,
                         failed, lost>>
      BY <1>9 DEF NotifyItem
    <2> QED BY <2>1, <2>2
  <1>10. CASE NotifyItemError
    <2>1. lost' \in BOOLEAN
      BY <1>10 DEF NotifyItemError
    <2>2. /\ wpc = "notify"
          /\ wpc' = "endCheck"
          /\ UNCHANGED <<shared, queue, rx, handler, ccc, wanted, got,
                         terminal, stale, failed>>
      BY <1>10 DEF NotifyItemError
    <2> QED BY <2>1, <2>2
  <1>11. CASE CheckEnd
    BY <1>11 DEF CheckEnd, Matches
  <1>12. CASE NotifyTerminal
    <2>1. lost' \in BOOLEAN
      BY <1>12 DEF NotifyTerminal, AfterAnswer
    <2>2. terminal' \in {"none", "END", "ERROR"}
      BY <1>12 DEF NotifyTerminal, AfterAnswer
    <2>3. AnsweredAtFinish'
      BY <1>12 DEF NotifyTerminal, AfterAnswer
    <2>4. /\ stale' \in Nat /\ stale' <= 1
      BY <1>12 DEF NotifyTerminal, AfterAnswer
    <2>5. /\ wpc \in {"end", "openError"}
          /\ wpc' = "finish"
          /\ UNCHANGED <<shared, queue, rx, handler, ccc, wanted, got,
                         failed>>
      BY <1>12 DEF NotifyTerminal, AfterAnswer
    <2> QED BY <2>1, <2>2, <2>3, <2>4, <2>5
  <1>13. CASE Finish
    BY <1>13 DEF Finish, Finished, Matches
  <1> QED BY <1>1, <1>2, <1>3, <1>4, <1>5, <1>6, <1>7, <1>8, <1>9, <1>10,
             <1>11, <1>12, <1>13 DEF WorkThread

LEMMA NextIInv == IInv /\ [Next]_vars => IInv'
  <1> SUFFICES ASSUME IInv, [Next]_vars PROVE IInv'
    OBVIOUS
  <1>1. CASE RxThread
    BY <1>1, RxThreadIInv
  <1>2. CASE WorkThread
    BY <1>2, WorkThreadIInv
  <1>3. CASE UNCHANGED vars
    BY <1>3
    DEF vars, shared, handler, history, IInv, TypeOK, HasSubscriber,
        NotFromFuture, ServesCurrent, NameIsWanted, SendsRequestedFile,
        AtMostOneStale, StaleIsSpent, AnsweredAtFinish, Serving
  <1> QED BY <1>1, <1>2, <1>3 DEF Next

(* The inductive invariant holds in every state of the service.             *)
THEOREM Invariance == Spec => []IInv
  <1> QED BY InitIInv, NextIInv, PTL DEF Spec

(* Every variable keeps its type, and each work item is queued at most once.*)
THEOREM TypeCorrect == Spec => []TypeOK
  <1>1. IInv => TypeOK BY DEF IInv
  <1> QED BY <1>1, Invariance, PTL

(* After an ABORT, an unsubscribe or a new command, at most one notification*)
(* of the older transfer reaches the client.                                *)
THEOREM StaleBounded == Spec => []AtMostOneStale
  <1>1. IInv => AtMostOneStale BY DEF IInv
  <1> QED BY <1>1, Invariance, PTL

(* The handler of the current FETCH serves the file that FETCH named.       *)
THEOREM RequestedFileServed == Spec => []SendsRequestedFile
  <1>1. IInv => SendsRequestedFile BY DEF IInv
  <1> QED BY <1>1, Invariance, PTL

(* No transfer is closed by a handler that did not answer it.               *)
THEOREM ClosedWhenAnswered == Spec => ClosedOnlyWhenAnswered
  <1>1. IInv /\ [Next]_vars
          => [(state # "IDLE" /\ state' = "IDLE" /\ generation' = generation)
                => (terminal # "none" \/ lost)]_vars
    <2> SUFFICES ASSUME IInv, Next, state # "IDLE", state' = "IDLE",
                        generation' = generation
                 PROVE  terminal # "none" \/ lost
      OBVIOUS
    <2>1. CASE RxThread
      BY <2>1, ServiceAssumption
      DEF RxThread, CtrlList, CtrlFetch, CtrlStart, Begin, Submit, Enqueued,
          RejectBusy,
          CtrlAbort, AbortedGeneration, Subscribe, Unsubscribe, shared, IInv, TypeOK
    <2>2. CASE WorkThread
      <3>1. CASE Finish
        BY <3>1 DEF Finish, Finished, Matches, IInv, AnsweredAtFinish
      <3>2. CASE ~Finish
        BY <2>2, <3>2
        DEF WorkThread, TakeWork, Snapshot, OpenOk, OpenError, CheckLoop, Read,
            Skip,
            ReadEnd, ReadError, NotifyItem, NotifyItemError, CheckEnd,
            NotifyTerminal, AfterAnswer, shared
      <3> QED BY <3>1, <3>2
    <2> QED BY <2>1, <2>2 DEF Next
  <1> QED BY <1>1, Invariance, PTL DEF Spec, ClosedOnlyWhenAnswered

-------------------------------------------------------------------------------
(* END only after all of it.  Whether the client has received everything    *)
(* depends on where the handler is: CInv says, at each of its positions,    *)
(* what of the transfer the client already has.                             *)

(* The file is one that was asked for, and exists once it is open.          *)
KindIsWanted ==
  /\ state = "LISTING" => wanted = None
  /\ state = "FETCHING" => wanted \in Names
FileIsOpen ==
  (wkind = "FETCHING" /\ wpc \in {"check", "read", "notify", "endCheck", "end"})
    => wname \in DOMAIN Blocks

(* A transfer no handler serves yet has sent nothing, and one whose handler *)
(* is not about to return has not been answered.                            *)
Current == Serving /\ wgen = generation
Untouched == (state # "IDLE" /\ ~Current) => (got = <<>> /\ terminal = "none")
Unanswered == (Current /\ wpc # "finish") => terminal = "none"

(* What the client has while nothing went wrong.                            *)
Progress ==
  (Current /\ ~failed /\ ~lost) =>
    /\ wpc # "openError"
    /\ wpc = "open" => (got = <<>> /\ wpos = 0)
    /\ wpc \in {"check", "read"} => (Received(wpos) /\ wpos <= Length)
    /\ wpc = "notify" => (Received(wpos - 1) /\ wpos \in Items /\ wpos <= Length)
    /\ wpc \in {"endCheck", "end"} => Complete

CInv == KindIsWanted /\ FileIsOpen /\ Untouched /\ Unanswered /\ Progress /\ EndMeansComplete

(* The handler reads to the end of what the client asked for.               *)
LEMMA ReadsWhatIsWanted ==
  ASSUME IInv, CInv, Current, wpc \in {"check", "read", "notify", "endCheck", "end"}
  PROVE  /\ Length \in Nat
         /\ Length = IF wanted = None THEN Len(Dir) ELSE Blocks[wanted]
         /\ Items \subseteq 1..Length
         /\ wkind = "LISTING" <=> wanted = None
  <1>1. state = wkind /\ wkind \in Kinds
    BY DEF IInv, ServesCurrent, Current, TypeOK
  <1>2. CASE wkind = "LISTING"
    BY <1>1, <1>2, ServiceAssumption DEF CInv, KindIsWanted, Length, Items
  <1>3. CASE wkind = "FETCHING"
    <2>1. wanted \in Names /\ wanted # None /\ wname = wanted
      BY <1>1, <1>3, ServiceAssumption
      DEF CInv, KindIsWanted, IInv, SendsRequestedFile, Current
    <2>2. wname \in DOMAIN Blocks /\ Blocks[wname] \in Nat
      BY <1>3, ServiceAssumption DEF CInv, FileIsOpen
    <2> QED
      BY <1>3, <2>1, <2>2 DEF Length, Items
  <1> QED
    BY <1>1, <1>2, <1>3 DEF Kinds

(* Nothing is expected at place 0, and what is received next comes after    *)
(* all that was received before.                                            *)
LEMMA ReceivedNothing ==
  ASSUME got = <<>>, Items \subseteq Nat \ {0} PROVE Received(0)
  <1>1. 1..Len(got) = {}
    OBVIOUS
  <1>2. {got[i] : i \in 1..Len(got)} = {}
    BY <1>1
  <1>3. {i \in Items : i <= 0} = {}
    <2>1. \A i \in Items : ~ (i <= 0)
      OBVIOUS
    <2> QED
      BY <2>1
  <1> QED
    BY <1>1, <1>2, <1>3 DEF Received

LEMMA ReceivedNext ==
  ASSUME NEW n \in Nat, Items \subseteq Nat, Received(n - 1), n \in Items,
         got \in Seq(Nat), got' = Append(got, n), wanted' = wanted
  PROVE  Received(n)'
  <1>1. Items' = Items
    BY DEF Items
  <1>2. /\ Len(got') = Len(got) + 1
        /\ \A i \in 1..Len(got) : got'[i] = got[i]
        /\ got'[Len(got) + 1] = n
    OBVIOUS
  <1>3. \A i \in 1..Len(got) : got[i] \in Items /\ got[i] <= n - 1
    BY DEF Received
  <1>4. \A i, j \in 1..Len(got') : i < j => got'[i] < got'[j]
    <2> SUFFICES ASSUME NEW i \in 1..Len(got'), NEW j \in 1..Len(got'), i < j
                 PROVE  got'[i] < got'[j]
      OBVIOUS
    <2>1. CASE j = Len(got) + 1
      <3>1. i \in 1..Len(got) /\ got[i] \in Nat
        BY <1>2, <2>1
      <3> QED
        BY <1>2, <1>3, <2>1, <3>1
    <2>2. CASE j # Len(got) + 1
      <3>1. i \in 1..Len(got) /\ j \in 1..Len(got)
        <4>1. Len(got) \in Nat /\ 1..Len(got') = 1..Len(got) + 1
          BY <1>2
        <4>2. i \in Nat /\ j \in Nat /\ 1 <= i /\ j <= Len(got) + 1
          BY <4>1
        <4> QED
          BY <2>2, <4>1, <4>2
      <3>2. got[i] < got[j]
        BY <3>1 DEF Received
      <3> QED
        BY <1>2, <3>1, <3>2
    <2> QED
      BY <2>1, <2>2
  <1>5. {got'[i] : i \in 1..Len(got')} = {got[i] : i \in 1..Len(got)} \cup {n}
    BY <1>2
  <1>6. {i \in Items : i <= n} = {i \in Items : i <= n - 1} \cup {n}
    <2>1. \A i \in Items : i <= n <=> (i <= n - 1 \/ i = n)
      OBVIOUS
    <2> QED
      BY <2>1
  <1> QED
    BY <1>1, <1>4, <1>5, <1>6 DEF Received

(* Steps of the RX thread: a new generation starts with nothing received    *)
(* and no handler; else nothing changes.                                    *)
LEMMA RxThreadCInv ==
  ASSUME IInv, CInv, RxThread PROVE CInv'
  <1> USE DEF shared, handler, history
  <1>1. ASSUME generation' = generation + 1, got' = <<>>, terminal' = "none",
               UNCHANGED <<wpc, handler>>, KindIsWanted'
        PROVE  CInv'
    <2>1. ~ Current'
      BY <1>1 DEF Current, IInv, NotFromFuture, TypeOK
    <2> QED
      BY <1>1, <2>1
      DEF CInv, FileIsOpen, Untouched, Unanswered, Progress, EndMeansComplete
  <1>2. ASSUME UNCHANGED <<state, generation, wpc, handler, history>>
        PROVE  CInv'
    BY <1>2
    DEF CInv, KindIsWanted, FileIsOpen, Untouched, Unanswered, Progress,
        EndMeansComplete, Current, Serving, Complete, Received, Items, Length
  <1>3. ASSUME NEW kind \in Kinds, NEW name \in Names \cup {None},
               CtrlStart(kind, name), (kind = "FETCHING") <=> (name # None)
        PROVE  CInv'
    <2>1. CASE state = "IDLE"
      <3>1. KindIsWanted'
        BY <1>3, <2>1, ServiceAssumption
        DEF CtrlStart, Begin, Forget, KindIsWanted, Kinds
      <3> QED
        BY <1>1, <1>3, <2>1, <3>1 DEF CtrlStart, Begin, Forget
    <2>2. CASE state # "IDLE"
      BY <1>2, <1>3, <2>2 DEF CtrlStart
    <2> QED
      BY <2>1, <2>2
  <1>4. CASE CtrlList
    BY <1>3, <1>4 DEF CtrlList, Kinds
  <1>5. ASSUME NEW name \in Names, CtrlFetch(name) PROVE CInv'
    BY <1>3, <1>5, ServiceAssumption DEF CtrlFetch, Kinds
  <1>6. CASE Submit
    BY <1>2, <1>6 DEF Submit
  <1>7. CASE RejectBusy
    BY <1>2, <1>7 DEF RejectBusy
  <1>8. CASE CtrlAbort
    BY <1>1, <1>8 DEF CtrlAbort, AbortedGeneration, Forget, KindIsWanted
  <1>9. CASE Subscribe
    BY <1>2, <1>9 DEF Subscribe
  <1>10. CASE Unsubscribe
    BY <1>1, <1>10 DEF Unsubscribe, Forget, KindIsWanted
  <1> QED
    BY <1>4, <1>5, <1>6, <1>7, <1>8, <1>9, <1>10 DEF RxThread

(* Steps of the work queue thread.                                          *)
LEMMA WorkThreadCInv ==
  ASSUME IInv, CInv, WorkThread PROVE CInv'
  <1> DEFINE untold == <<state, generation, history>>
  <1> USE DEF shared, handler, history
  <1>0. /\ wpos \in Nat /\ got \in Seq(Nat) /\ wgen \in Nat /\ generation \in Nat
        /\ wkind \in Kinds /\ failed \in BOOLEAN /\ lost \in BOOLEAN
    BY DEF IInv, TypeOK
  (* What a step that leaves the history alone, or only adds an error or a  *)
  (* loss to it, need not be asked about.                                   *)
  <1>1. ASSUME UNCHANGED <<state, generation, wanted, got, terminal>>,
               failed => failed', lost => lost', FileIsOpen',
               Current => Current', Unanswered', Progress'
        PROVE  CInv'
    BY <1>1 DEF CInv, KindIsWanted, Untouched, EndMeansComplete, Complete,
                Received, Items
  <1>2. CASE TakeWork
    BY <1>2
    DEF TakeWork, CInv, KindIsWanted, FileIsOpen, Untouched, Unanswered,
        Progress, EndMeansComplete, Complete, Received, Items, Current, Serving
  <1>3. CASE Snapshot
    <2>1. CASE state = wkind /\ subConn
      <3>1. ~ Current /\ state # "IDLE" /\ got = <<>> /\ terminal = "none"
        BY <1>0, <1>3, <2>1
        DEF Snapshot, CInv, Untouched, Current, Serving, Kinds
      <3>2. /\ wpc' = "open" /\ wpos' = 0
            /\ UNCHANGED <<state, generation, history, wkind>>
        BY <1>3, <2>1 DEF Snapshot
      <3>3. FileIsOpen' /\ Unanswered' /\ Progress'
        BY <3>1, <3>2 DEF FileIsOpen, Unanswered, Progress
      <3> QED
        BY <1>1, <3>1, <3>2, <3>3
    <2>2. CASE ~ (state = wkind /\ subConn)
      <3>1. ~ Current /\ ~ Current' /\ wpc' = "idle" /\ UNCHANGED untold
        BY <1>3, <2>2 DEF Snapshot, Current, Serving
      <3> QED
        BY <1>1, <3>1 DEF FileIsOpen, Unanswered, Progress
    <2> QED
      BY <2>1, <2>2
  <1>4. CASE OpenOk
    <2>1. wpc = "open" /\ wpc' = "check" /\ UNCHANGED <<untold, handler>>
      BY <1>4 DEF OpenOk
    <2>2. FileIsOpen'
      BY <1>4, <2>1 DEF OpenOk, FileIsOpen
    <2>3. (Current <=> Current') /\ Unanswered'
      BY <2>1 DEF Current, Serving, CInv, Unanswered
    <2>4. Progress'
      <3> SUFFICES ASSUME Current, ~failed, ~lost
                   PROVE  Received(0)' /\ wpos' = 0 /\ (0 <= Length)'
        BY <2>1, <2>3 DEF Progress
      <3>1. got = <<>> /\ wpos = 0
        BY <2>1 DEF CInv, Progress
      <3>2. state = wkind /\ (wkind = "FETCHING" => wname = wanted)
        BY DEF IInv, ServesCurrent, SendsRequestedFile, Current
      <3>3. /\ Length \in Nat /\ Items \subseteq 1..Length
        BY <1>0, <1>4, <3>2, ServiceAssumption
        DEF OpenOk, Length, Items, CInv, KindIsWanted, Kinds
      <3>4. Received(0)
        BY <3>1, <3>3, ReceivedNothing
      <3> QED
        BY <2>1, <3>1, <3>3, <3>4 DEF Received, Items, Length
    <2> QED
      BY <1>1, <2>1, <2>2, <2>3, <2>4
  <1>5. CASE OpenError
    <2>0. wgen = generation => failed'
      BY <1>0, <1>5 DEF OpenError, Fail
    <2>1. /\ wpc = "open" /\ wpc' = "openError"
          /\ UNCHANGED <<state, generation, handler, wanted, got, terminal, lost>>
          /\ failed => failed'
      BY <1>0, <1>5 DEF OpenError, Fail
    <2>2. (Current <=> Current') /\ Unanswered' /\ FileIsOpen'
      BY <2>1 DEF Current, Serving, CInv, Unanswered, FileIsOpen
    <2>3. Current' => failed'
      <3>1. wgen' = wgen /\ generation' = generation
        BY <2>1
      <3> QED
        BY <2>0, <3>1, Zenon DEF Current
    <2>4. Progress'
      BY <2>3 DEF Progress
    <2> QED
      BY <1>1, <2>1, <2>2, <2>4
  <1>6. CASE CheckLoop
    <2>1. /\ wpc = "check" /\ wpc' \in {"read", "endCheck"}
          /\ UNCHANGED <<untold, handler>>
      BY <1>6 DEF CheckLoop
    <2>2. (Current <=> Current') /\ Unanswered' /\ FileIsOpen'
      BY <2>1 DEF Current, Serving, CInv, Unanswered, FileIsOpen
    <2>3. Current => wpc' = "read"
      BY <1>6 DEF CheckLoop, Matches, Current, IInv, ServesCurrent
    <2>4. Progress'
      BY <2>1, <2>2, <2>3 DEF Progress, CInv, Received, Items, Length
    <2> QED
      BY <1>1, <2>1, <2>2, <2>4
  <1>7. CASE Read
    <2>1. /\ wpc = "read" /\ wpos < Length /\ wpos' = wpos + 1
          /\ wpc' = IF wkind = "LISTING" /\ Dir[wpos'] \notin Listable
                      THEN "check" ELSE "notify"
          /\ UNCHANGED <<untold, wkind, wgen, wname>>
      BY <1>7 DEF Read, Skip
    <2>2. (Current <=> Current') /\ Unanswered' /\ FileIsOpen'
      BY <2>1 DEF Current, Serving, CInv, Unanswered, FileIsOpen
    <2>3. Progress'
      <3> SUFFICES ASSUME Current, ~failed, ~lost PROVE Progress'
        BY <2>1, <2>2 DEF Progress
      <3>1. /\ Length \in Nat /\ Items \subseteq 1..Length
            /\ Length = IF wanted = None THEN Len(Dir) ELSE Blocks[wanted]
            /\ wkind = "LISTING" <=> wanted = None
        BY <2>1, ReadsWhatIsWanted
      <3>2. Received(wpos)
        BY <2>1 DEF CInv, Progress
      <3>3. wpos' \in 1..Length
        BY <1>0, <2>1, <3>1
      <3>4. Length' = Length /\ Items' = Items
        BY <2>1 DEF Length, Items
      <3>5. CASE wpc' = "notify"
        <4>1. wpos' \in Items
          BY <2>1, <3>1, <3>3, <3>5 DEF Items
        <4>2. wpos' - 1 = wpos
          BY <1>0, <2>1
        <4>3. Received(wpos - 1)'
          BY <2>1, <3>2, <3>4, <4>2 DEF Received
        <4> QED
          BY <3>3, <3>4, <3>5, <4>1, <4>3 DEF Progress
      <3>6. CASE wpc' = "check"
        <4>1. wpos' \notin Items
          BY <2>1, <3>1, <3>6 DEF Items
        <4>2. \A i \in Items : i <= wpos' <=> i <= wpos
          BY <1>0, <2>1, <3>1, <4>1
        <4>3. {i \in Items : i <= wpos'} = {i \in Items : i <= wpos}
          BY <4>2
        <4>4. Received(wpos)'
          BY <2>1, <3>2, <3>4, <4>3 DEF Received
        <4> QED
          BY <3>3, <3>4, <3>6, <4>4 DEF Progress
      <3> QED
        BY <2>1, <3>5, <3>6
    <2> QED
      BY <1>1, <2>1, <2>2, <2>3
  <1>8. CASE ReadEnd
    <2>1. /\ wpc = "read" /\ wpos >= Length /\ wpc' = "endCheck"
          /\ UNCHANGED <<untold, handler>>
      BY <1>8 DEF ReadEnd
    <2>2. (Current <=> Current') /\ Unanswered' /\ FileIsOpen'
      BY <2>1 DEF Current, Serving, CInv, Unanswered, FileIsOpen
    <2>3. Progress'
      <3> SUFFICES ASSUME Current, ~failed, ~lost PROVE Complete'
        BY <2>1, <2>2 DEF Progress
      <3>1. /\ Length \in Nat
            /\ Length = IF wanted = None THEN Len(Dir) ELSE Blocks[wanted]
        BY <2>1, ReadsWhatIsWanted
      <3>2. Received(wpos) /\ wpos = Length
        BY <1>0, <2>1, <3>1 DEF CInv, Progress
      <3> QED
        BY <2>1, <3>1, <3>2 DEF Complete, Received, Items
    <2> QED
      BY <1>1, <2>1, <2>2, <2>3
  <1>9. CASE ReadError
    <2>0. wgen = generation => failed'
      BY <1>0, <1>9 DEF ReadError, Fail
    <2>1. /\ wpc = "read" /\ wpc' = "endCheck"
          /\ UNCHANGED <<state, generation, handler, wanted, got, terminal, lost>>
          /\ failed => failed'
      BY <1>0, <1>9 DEF ReadError, Fail
    <2>2. (Current <=> Current') /\ Unanswered' /\ FileIsOpen'
      BY <2>1 DEF Current, Serving, CInv, Unanswered, FileIsOpen
    <2>3. Current' => failed'
      <3>1. wgen' = wgen /\ generation' = generation
        BY <2>1
      <3> QED
        BY <2>0, <3>1, Zenon DEF Current
    <2>4. Progress'
      BY <2>3 DEF Progress
    <2> QED
      BY <1>1, <2>1, <2>2, <2>4
  <1>10. CASE NotifyItem
    <2>1. /\ wpc = "notify" /\ wpc' = "check"
          /\ UNCHANGED <<state, generation, handler, wanted, terminal, failed, lost>>
      BY <1>10 DEF NotifyItem
    <2>2. (Current <=> Current') /\ Unanswered' /\ FileIsOpen'
      BY <2>1 DEF Current, Serving, CInv, Unanswered, FileIsOpen
    <2>3. CASE wgen # generation
      <3>1. got' = got
        BY <1>10, <2>3 DEF NotifyItem
      <3>2. ~ Current'
        BY <2>1, <2>3 DEF Current
      <3> QED
        BY <1>1, <2>1, <2>2, <3>1, <3>2 DEF Progress
    <2>4. CASE wgen = generation
      <3>1. Current /\ terminal = "none" /\ got' = Append(got, wpos)
        BY <1>10, <2>1, <2>4 DEF NotifyItem, Current, Serving, CInv, Unanswered
      <3>2. Progress'
        <4> SUFFICES ASSUME ~failed, ~lost
                     PROVE  Received(wpos)' /\ (wpos <= Length)'
          BY <2>1 DEF Progress
        <4>1. Received(wpos - 1) /\ wpos \in Items /\ wpos <= Length
          BY <2>1, <3>1 DEF CInv, Progress
        <4>2. Items \subseteq Nat
          BY <2>1, <3>1, ReadsWhatIsWanted
        <4>3. Received(wpos)'
          <5>1. \A n \in Nat : n = wpos => Received(n)'
            BY <1>0, <2>1, <3>1, <4>1, <4>2, ReceivedNext
          <5> QED
            BY <1>0, <2>1, <5>1
        <4> QED
          BY <2>1, <4>1, <4>3 DEF Length
      <3>3. KindIsWanted' /\ Untouched' /\ EndMeansComplete'
        BY <2>1, <2>2, <3>1
        DEF CInv, KindIsWanted, Untouched, EndMeansComplete
      <3> QED
        BY <2>2, <3>2, <3>3 DEF CInv
    <2> QED
      BY <2>3, <2>4
  <1>11. CASE NotifyItemError
    <2>0. wgen = generation => lost'
      BY <1>0, <1>11 DEF NotifyItemError, Lose
    <2>1. /\ wpc = "notify" /\ wpc' = "endCheck"
          /\ UNCHANGED <<state, generation, handler, wanted, got, terminal, failed>>
          /\ lost => lost'
      BY <1>0, <1>11 DEF NotifyItemError, Lose
    <2>2. (Current <=> Current') /\ Unanswered' /\ FileIsOpen'
      BY <2>1 DEF Current, Serving, CInv, Unanswered, FileIsOpen
    <2>3. Current' => lost'
      <3>1. wgen' = wgen /\ generation' = generation
        BY <2>1
      <3> QED
        BY <2>0, <3>1, Zenon DEF Current
    <2>4. Progress'
      BY <2>3 DEF Progress
    <2> QED
      BY <1>1, <2>1, <2>2, <2>4
  <1>12. CASE CheckEnd
    <2>1. /\ wpc = "endCheck" /\ wpc' \in {"end", "finish"}
          /\ UNCHANGED <<untold, handler>>
      BY <1>12 DEF CheckEnd
    <2>2. (Current <=> Current') /\ Unanswered' /\ FileIsOpen'
      BY <2>1 DEF Current, Serving, CInv, Unanswered, FileIsOpen
    <2>3. Progress'
      BY <2>1, <2>2 DEF Progress, CInv, Complete, Received, Items
    <2> QED
      BY <1>1, <2>1, <2>2, <2>3
  <1>13. CASE NotifyTerminal
    <2>1. /\ wpc \in {"end", "openError"} /\ wpc' = "finish"
          /\ UNCHANGED <<state, generation, handler, wanted, got, failed>>
          /\ lost => lost'
      BY <1>0, <1>13 DEF NotifyTerminal, AfterAnswer, Lose
    <2>2. (Current <=> Current') /\ Unanswered' /\ FileIsOpen' /\ Progress'
      BY <2>1 DEF Current, Serving, Unanswered, FileIsOpen, Progress
    <2>3. CASE terminal' = terminal
      BY <1>1, <2>1, <2>2, <2>3
    <2>4. CASE terminal' # terminal
      <3>1. Current /\ (terminal' = "END" => wpc = "end")
        BY <1>13, <2>1, <2>4 DEF NotifyTerminal, Current, Serving
      <3>2. EndMeansComplete'
        BY <2>1, <3>1 DEF CInv, Progress, EndMeansComplete, Complete, Received, Items
      <3> QED
        BY <2>1, <2>2, <3>1, <3>2 DEF CInv, KindIsWanted, Untouched
    <2> QED
      BY <2>3, <2>4
  <1>14. CASE Finish
    <2>1. /\ wpc = "finish" /\ wpc' = "idle"
          /\ UNCHANGED <<generation, handler, history>>
          /\ state' = Finished
      BY <1>14 DEF Finish
    <2>2. FileIsOpen' /\ Unanswered' /\ Progress' /\ EndMeansComplete' /\ ~ Current'
      BY <2>1 DEF FileIsOpen, Unanswered, Progress, EndMeansComplete, Current,
                  Serving, CInv, Complete, Received, Items
    <2>3. CASE Current
      <3>1. state' = "IDLE"
        BY <2>1, <2>3 DEF Finished, Matches, Current, IInv, ServesCurrent
      <3> QED
        BY <2>2, <3>1 DEF CInv, KindIsWanted, Untouched
    <2>4. CASE ~ Current
      <3>1. state' \in {state, "IDLE"}
        BY <2>1 DEF Finished
      <3> QED
        BY <2>1, <2>2, <2>4, <3>1 DEF CInv, KindIsWanted, Untouched
    <2> QED
      BY <2>3, <2>4
  <1> QED
    BY <1>2, <1>3, <1>4, <1>5, <1>6, <1>7, <1>8, <1>9, <1>10, <1>11, <1>12,
       <1>13, <1>14 DEF WorkThread

(* A transfer that met no error and lost no notification only ends when the *)
(* client has every block, or every listable entry, once and in order.      *)
THEOREM EndAfterAll == Spec => []EndMeansComplete
  <1>1. Init => CInv
    BY DEF Init, CInv, KindIsWanted, FileIsOpen, Untouched, Unanswered, Progress,
           EndMeansComplete, Current, Serving
  <1>2. IInv /\ CInv /\ [Next]_vars => CInv'
    <2> SUFFICES ASSUME IInv, CInv, [Next]_vars PROVE CInv'
      OBVIOUS
    <2>1. CASE RxThread
      BY <2>1, RxThreadCInv
    <2>2. CASE WorkThread
      BY <2>2, WorkThreadCInv
    <2>3. CASE UNCHANGED vars
      BY <2>3
      DEF vars, shared, handler, history, CInv, KindIsWanted, FileIsOpen, Untouched,
          Unanswered, Progress, EndMeansComplete, Current, Serving, Complete,
          Received, Items, Length
    <2> QED
      BY <2>1, <2>2, <2>3 DEF Next
  <1>3. CInv => EndMeansComplete
    BY DEF CInv
  <1> QED
    BY <1>1, <1>2, <1>3, Invariance, PTL DEF Spec

-----------------------------------------------------------------------------
(* The refinement: each step of the service is a step of WrTransfer on the  *)
(* mapped variables, or leaves them unchanged.                              *)

LEMMA RxThreadRefines ==
  ASSUME IInv, RxThread PROVE [Transfer!Next]_(Transfer!vars)
  <1> USE DEF Transfer!vars, shared, handler, history
  <1>1. ASSUME NEW kind \in Kinds, NEW name \in Names \cup {None},
               CtrlStart(kind, name)
        PROVE  [Transfer!Next]_(Transfer!vars)
    <2>1. CASE state = "IDLE"
      <3>1. /\ state' # "IDLE" /\ generation' = generation + 1
            /\ Len(got') = 0 /\ stale' = 0
            /\ UNCHANGED <<wpc, wgen>>
        BY <1>1, <2>1 DEF CtrlStart, Begin, Forget, Kinds
      <3>2. (wpc \in MaySend) => wgen # generation
        BY <2>1 DEF IInv, ServesCurrent, Serving, MaySend, TypeOK, Kinds
      <3>3. wgen # generation'
        BY <3>1 DEF IInv, NotFromFuture, TypeOK
      <3>4. Residue' = Residue
        BY <3>1, <3>2, <3>3 DEF Residue
      <3>5. Transfer!Open
        BY <2>1, <3>1, <3>4 DEF Transfer!Open
      <3> QED BY <3>5 DEF Transfer!Next
    <2>2. CASE state # "IDLE"
      BY <1>1, <2>2 DEF CtrlStart, Residue
    <2> QED BY <2>1, <2>2
  <1>2. ASSUME /\ state' = "IDLE" /\ generation' = generation + 1
               /\ Len(got') = 0 /\ stale' = 0
               /\ UNCHANGED <<wpc, wgen>>
        PROVE  Transfer!Cancel
    <2>1. Residue' \in {Residue, 1}
      BY <1>2 DEF Residue, IInv, NotFromFuture, TypeOK
    <2>2. Residue' # Residue => state # "IDLE"
      BY <1>2 DEF Residue, IInv, NotFromFuture, ServesCurrent, Serving,
                  MaySend, TypeOK, Kinds
    <2> QED BY <1>2, <2>1, <2>2 DEF Transfer!Cancel
  <1>3. CASE CtrlList
    BY <1>1, <1>3 DEF CtrlList, Kinds
  <1>4. ASSUME NEW name \in Names, CtrlFetch(name)
        PROVE  [Transfer!Next]_(Transfer!vars)
    BY <1>1, <1>4 DEF CtrlFetch, Kinds
  <1>5. CASE Submit
    BY <1>5 DEF Submit, Enqueued, Residue
  <1>6. CASE RejectBusy
    BY <1>6 DEF RejectBusy, Residue
  <1>7. CASE CtrlAbort
    <2>1. /\ state' = "IDLE" /\ generation' = generation + 1
          /\ Len(got') = 0 /\ stale' = 0
          /\ UNCHANGED <<wpc, wgen>>
      BY <1>7 DEF CtrlAbort, AbortedGeneration, Forget
    <2> QED BY <1>2, <2>1 DEF Transfer!Next
  <1>8. CASE Subscribe
    BY <1>8 DEF Subscribe, Residue
  <1>9. CASE Unsubscribe
    <2>1. /\ state' = "IDLE" /\ generation' = generation + 1
          /\ Len(got') = 0 /\ stale' = 0
          /\ UNCHANGED <<wpc, wgen>>
      BY <1>9 DEF Unsubscribe, Forget
    <2> QED BY <1>2, <2>1 DEF Transfer!Next
  <1> QED BY <1>3, <1>4, <1>5, <1>6, <1>7, <1>8, <1>9 DEF RxThread

LEMMA WorkThreadRefines ==
  ASSUME IInv, WorkThread PROVE [Transfer!Next]_(Transfer!vars)
  <1> USE DEF Transfer!vars, shared, handler, history
  (* A step that leaves state, generation and history alone either leaves   *)
  (* the residue alone or settles it.                                       *)
  <1>1. ASSUME UNCHANGED <<state, generation, got, stale>>,
               Residue' = Residue \/ (Residue = 1 /\ Residue' = 0)
        PROVE  [Transfer!Next]_(Transfer!vars)
    <2>1. CASE Residue' = Residue
      BY <1>1, <2>1
    <2>2. CASE Residue = 1 /\ Residue' = 0
      <3>1. Transfer!Settle
        BY <1>1, <2>2 DEF Transfer!Settle, IInv, AtMostOneStale, TypeOK
      <3> QED BY <3>1 DEF Transfer!Next
    <2> QED BY <1>1, <2>1, <2>2
  <1>2. CASE TakeWork
    BY <1>2 DEF TakeWork, Residue, MaySend
  <1>3. CASE Snapshot
    BY <1>3 DEF Snapshot, Residue, MaySend
  <1>4. CASE OpenOk
    <2>1. Residue' = Residue \/ (Residue = 1 /\ Residue' = 0)
      BY <1>4 DEF OpenOk, Residue, MaySend
    <2> QED BY <1>1, <1>4, <2>1 DEF OpenOk
  <1>5. CASE OpenError
    BY <1>5 DEF OpenError, Residue, MaySend
  <1>6. CASE CheckLoop
    BY <1>6 DEF CheckLoop, Matches, Residue, MaySend
  <1>7. CASE Read
    <2>1. Residue' = Residue \/ (Residue = 1 /\ Residue' = 0)
      BY <1>7 DEF Read, Skip, Residue, MaySend
    <2> QED BY <1>1, <1>7, <2>1 DEF Read, Skip
  <1>8. CASE ReadEnd
    <2>1. Residue' = Residue \/ (Residue = 1 /\ Residue' = 0)
      BY <1>8 DEF ReadEnd, Residue, MaySend
    <2> QED BY <1>1, <1>8, <2>1 DEF ReadEnd
  <1>9. CASE ReadError
    <2>1. Residue' = Residue \/ (Residue = 1 /\ Residue' = 0)
      BY <1>9 DEF ReadError, Residue, MaySend
    <2> QED BY <1>1, <1>9, <2>1 DEF ReadError
  <1>10. CASE NotifyItem
    <2>1. CASE wgen = generation
      <3>1. /\ state # "IDLE" /\ UNCHANGED <<state, generation, stale>>
            /\ got' = Append(got, wpos)
            /\ Residue = 0 /\ Residue' = 0
        BY <1>10, <2>1
        DEF NotifyItem, Residue, IInv, ServesCurrent, Serving, TypeOK, Kinds
      <3>2. Len(got') = Len(got) + 1
        BY <3>1 DEF IInv, TypeOK
      <3>3. Transfer!Item
        BY <3>1, <3>2 DEF Transfer!Item
      <3> QED BY <3>3 DEF Transfer!Next
    <2>2. CASE wgen # generation
      <3>1. /\ stale' = stale + 1 /\ UNCHANGED <<state, generation, got>>
            /\ Residue = 1 /\ Residue' = 0 /\ stale = 0
        BY <1>10, <2>2
        DEF NotifyItem, Residue, MaySend, IInv, StaleIsSpent
      <3>2. Transfer!Settle
        BY <3>1 DEF Transfer!Settle
      <3> QED BY <3>2 DEF Transfer!Next
    <2> QED BY <2>1, <2>2
  <1>11. CASE NotifyItemError
    <2>1. Residue' = Residue \/ (Residue = 1 /\ Residue' = 0)
      BY <1>11 DEF NotifyItemError, Residue, MaySend
    <2> QED BY <1>1, <1>11, <2>1 DEF NotifyItemError
  <1>12. CASE CheckEnd
    BY <1>12 DEF CheckEnd, Matches, Residue, MaySend
  <1>13. CASE NotifyTerminal
    <2>1. /\ UNCHANGED <<state, generation, got>>
          /\ Residue' = 0
          /\ Residue = 0 \/ (Residue = 1 /\ wgen # generation /\ stale = 0)
      BY <1>13
      DEF NotifyTerminal, AfterAnswer, Residue, MaySend, IInv, StaleIsSpent
    <2>2. stale' = stale \/ (wgen # generation /\ stale' = stale + 1)
      BY <1>13 DEF NotifyTerminal, AfterAnswer
    <2>3. wpc \in MaySend
      BY <1>13 DEF NotifyTerminal, AfterAnswer, MaySend
    <2>4. CASE stale' = stale
      BY <1>1, <2>1, <2>4
    <2>5. CASE wgen # generation /\ stale' = stale + 1
      <3>1. Residue = 1 /\ stale = 0
        BY <2>1, <2>3, <2>5 DEF Residue
      <3>2. Transfer!Settle
        BY <2>1, <2>5, <3>1 DEF Transfer!Settle
      <3> QED BY <3>2 DEF Transfer!Next
    <2> QED BY <2>2, <2>4, <2>5
  <1>14. CASE Finish
    <2>1. UNCHANGED <<generation, got, stale>> /\ Residue' = Residue
      BY <1>14 DEF Finish, Finished, Residue, MaySend
    <2>2. CASE state' = state
      BY <2>1, <2>2
    <2>3. CASE state' # state
      <3>1. state # "IDLE" /\ state' = "IDLE"
        BY <1>14, <2>3 DEF Finish, Finished, Matches, IInv, TypeOK, Kinds
      <3>2. Transfer!Close
        BY <2>1, <3>1 DEF Transfer!Close
      <3> QED BY <3>2 DEF Transfer!Next
    <2> QED BY <2>2, <2>3
  <1> QED BY <1>2, <1>3, <1>4, <1>5, <1>6, <1>7, <1>8, <1>9, <1>10, <1>11,
             <1>12, <1>13, <1>14 DEF WorkThread

(* The service implements the abstract transfer: at most one transfer open, *)
(* notifications only while it is open, at most one left over per cancel.   *)
THEOREM Refinement == Spec => ImplementsTransfer
  <1>1. Init => Transfer!Init
    BY DEF Init, Transfer!Init, Residue, MaySend
  <1>2. IInv /\ [Next]_vars => [Transfer!Next]_(Transfer!vars)
    <2> SUFFICES ASSUME IInv, [Next]_vars
                 PROVE  [Transfer!Next]_(Transfer!vars)
      OBVIOUS
    <2>1. CASE RxThread
      BY <2>1, RxThreadRefines
    <2>2. CASE WorkThread
      BY <2>2, WorkThreadRefines
    <2>3. CASE UNCHANGED vars
      BY <2>3 DEF vars, shared, handler, history, Transfer!vars, Residue
    <2> QED BY <2>1, <2>2, <2>3 DEF Next
  <1> QED BY <1>1, <1>2, Invariance, PTL
          DEF Spec, ImplementsTransfer, Transfer!Spec
=============================================================================
