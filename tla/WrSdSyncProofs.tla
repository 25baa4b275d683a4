---------------------------- MODULE WrSdSyncProofs ----------------------------
(***************************************************************************)
(* Theorems about WrSdSync, for every number and content of recordings,    *)
(* window, pass, chunk length and naming of chunks, as long as a process   *)
(* dies at no await inside a checkpoint, stop() is not called and no file  *)
(* name is given twice (Checkpointed; MCSdCrashAfterCut and MCSdStopLoses  *)
(* show what happens otherwise): types; no byte below the cursor is lost;  *)
(* chunks have deterministic boundaries; a file flagged done is stored in  *)
(* full.                                                                   *)
(*                                                                         *)
(* The invariant says, of each recording f with cursor (o, k): the pending *)
(* bytes are those from the beginning of the k-th chunk to the o-th byte,  *)
(* and the chunks before the k-th are in the outbox or on the drive.  It   *)
(* holds of the cursor in memory and of the one on flash, except of the    *)
(* latter inside a checkpoint, which is where a process may not die.       *)
(***************************************************************************)
EXTENDS WrSdSync, Recursion, SequenceTheorems

-------------------------------------------------------------------------------
(* Where frames and chunks begin *)

\* First byte of the k-th chunk of any recording.
Start(k) == FrameStarts[k * FramesPerChunk]

(* What the proofs use of the assumptions on the constants.                  *)
LEMMA Constants ==
  /\ Content \in Seq(Nat) /\ MaxSize \in Nat /\ \A i \in 1..MaxSize : Content[i] \in Nat
  /\ FramesPerChunk \in Nat /\ FramesPerChunk > 0
  BY SyncAssumption DEF MaxSize

(* FrameStarts satisfies its recursive definition: each frame begins after   *)
(* the length byte and the bytes of the one before (the [len][frame]         *)
(* records of wr_sd_sync.dart).                                              *)
LEMMA FrameStartsFcn ==
  /\ FrameStarts \in [Nat -> Nat]
  /\ FrameStarts[0] = 1
  /\ \A n \in Nat :
       /\ FrameStarts[n] > 0
       /\ FrameStarts[n + 1] = IF FrameStarts[n] > MaxSize THEN FrameStarts[n] + 1
                               ELSE FrameStarts[n] + 1 + Content[FrameStarts[n]]
  <1> DEFINE g == [s \in Nat |-> IF s > MaxSize \/ s = 0 THEN s + 1 ELSE s + 1 + Content[s]]
             Is(h) == h = [n \in Nat |->
                             IF n = 0 THEN 1
                             ELSE LET s == h[n - 1]
                                  IN  IF s > MaxSize THEN s + 1 ELSE s + 1 + Content[s]]
  <1>1. g \in [Nat -> Nat] /\ 1 \in Nat
    BY Constants
  <1>2. PICK f \in [Nat -> Nat] : f[0] = 1 /\ \A n \in Nat : f[n + 1] = g[f[n]]
    <2> HIDE DEF g
    <2>1. \E f \in [Nat -> Nat] : IsIteration(f, 1, g)
      BY <1>1, Iterates
    <2> QED
      BY <2>1 DEF IsIteration
  <1>3. \A n \in Nat : f[n] > 0
    <2> DEFINE P == {n \in Nat : f[n] > 0}
    <2>1. 0 \in P
      BY <1>2
    <2>2. ASSUME NEW n \in Nat, n \in P PROVE n + 1 \in P
      <3>1. f[n] \in Nat /\ f[n] > 0 /\ f[n + 1] = g[f[n]]
        BY <1>2, <2>2
      <3>2. \A s \in Nat : g[s] > 0
        <4> TAKE s \in Nat
        <4>1. s \in 1..MaxSize => Content[s] \in Nat
          BY Constants
        <4>2. CASE s > MaxSize \/ s = 0
          BY <4>2
        <4>3. CASE s \in 1..MaxSize
          <5>1. MaxSize \in Nat
            BY Constants
          <5>2. g[s] = s + 1 + Content[s]
            BY <4>3, <5>1
          <5> HIDE DEF g
          <5> QED
            BY <4>1, <4>3, <5>1, <5>2
        <4> QED
          BY <4>2, <4>3, Constants
      <3> QED
        BY <3>1, <3>2
    <2>3. Nat \subseteq P
      <3> HIDE DEF P
      <3> QED
        BY <2>1, <2>2, Induction
    <2> QED
      BY <2>3
  <1>4. Is(f)
    <2>1. ASSUME NEW n \in Nat
          PROVE  f[n] = IF n = 0 THEN 1
                        ELSE LET s == f[n - 1]
                             IN  IF s > MaxSize THEN s + 1 ELSE s + 1 + Content[s]
      <3>1. CASE n = 0
        BY <1>2, <3>1
      <3>2. CASE n # 0
        <4>1. n - 1 \in Nat /\ (n - 1) + 1 = n
          BY <3>2
        <4>2. f[n] = g[f[n - 1]] /\ f[n - 1] > 0 /\ f[n - 1] \in Nat
          BY <1>2, <1>3, <4>1
        <4> QED
          BY <3>2, <4>2
      <3> QED
        BY <3>1, <3>2
    <2> QED
      BY <2>1
  <1>5. Is(FrameStarts)
    BY <1>4 DEF FrameStarts
  <1>6. \A h : Is(h) => h = f
    <2> SUFFICES ASSUME NEW h, Is(h) PROVE h = f
      OBVIOUS
    <2> DEFINE P == {n \in Nat : h[n] = f[n]}
    <2>1. 0 \in P
      BY <1>2
    <2>2. ASSUME NEW n \in Nat, n \in P PROVE n + 1 \in P
      <3>1. n + 1 # 0 /\ (n + 1) - 1 = n /\ n + 1 \in Nat
        OBVIOUS
      <3>2. h[n] = f[n]
        BY <2>2
      <3> QED
        BY <1>4, <3>1, <3>2
    <2>3. Nat \subseteq P
      <3> HIDE DEF P
      <3> QED
        BY <2>1, <2>2, Induction
    <2>4. h = [n \in Nat |-> h[n]] /\ f = [n \in Nat |-> f[n]]
      BY <1>2
    <2> QED
      BY <2>3, <2>4
  <1>7. FrameStarts = f
    <2> HIDE DEF Is
    <2> QED
      BY <1>5, <1>6
  <1>8. ASSUME NEW n \in Nat
        PROVE  f[n + 1] = IF f[n] > MaxSize THEN f[n] + 1 ELSE f[n] + 1 + Content[f[n]]
    <2>1. f[n + 1] = g[f[n]] /\ f[n] \in Nat /\ f[n] # 0
      <3> HIDE DEF g
      <3> QED
        BY <1>2, <1>3
    <2> QED
      BY <2>1
  <1> HIDE DEF g
  <1> QED
    BY <1>2, <1>3, <1>7, <1>8

(* d frames take at least d bytes.                                           *)
LEMMA FramesAdvance ==
  ASSUME NEW m \in Nat, NEW d \in Nat
  PROVE  FrameStarts[m + d] >= FrameStarts[m] + d
  <1> DEFINE P == {n \in Nat : FrameStarts[m + n] >= FrameStarts[m] + n}
  <1>1. 0 \in P
    BY FrameStartsFcn
  <1>2. ASSUME NEW n \in Nat, n \in P PROVE n + 1 \in P
    <2> DEFINE s == FrameStarts[m + n]
    <2>1. FrameStarts[(m + n) + 1] > s
      <3>1. m + n \in Nat
        OBVIOUS
      <3>2. s \in Nat /\ s > 0
            /\ FrameStarts[(m + n) + 1] = IF s > MaxSize THEN s + 1 ELSE s + 1 + Content[s]
        BY <3>1, FrameStartsFcn
      <3>3. s <= MaxSize => Content[s] \in Nat
        BY <3>2, Constants
      <3> HIDE DEF s
      <3> QED
        BY <3>2, <3>3, Constants
    <2>2. m + (n + 1) = (m + n) + 1 /\ FrameStarts[m + n] \in Nat
          /\ FrameStarts[(m + n) + 1] \in Nat /\ FrameStarts[m] \in Nat
      BY FrameStartsFcn
    <2> QED
      BY <1>2, <2>1, <2>2
  <1>3. Nat \subseteq P
    <2> HIDE DEF P
    <2> QED
      BY <1>1, <1>2, Induction
  <1> QED
    BY <1>3

(* Chunks begin one after the other, the k-th beyond the k-th byte.          *)
LEMMA StartGrows ==
  /\ Start(0) = 1
  /\ \A k \in Nat : Start(k) \in Nat /\ Start(k) > k /\ Start(k + 1) > Start(k)
  /\ \A j, k \in Nat : j <= k => Start(j) <= Start(k)
  <1>1. \A j, d \in Nat : Start(j) \in Nat /\ Start(j + d) >= Start(j) + d
    <2> TAKE j, d \in Nat
    <2>1. j * FramesPerChunk \in Nat /\ d * FramesPerChunk \in Nat
          /\ (j + d) * FramesPerChunk = j * FramesPerChunk + d * FramesPerChunk
          /\ d * FramesPerChunk >= d
      BY Constants
    <2>2. FrameStarts[j * FramesPerChunk + d * FramesPerChunk]
            >= FrameStarts[j * FramesPerChunk] + d * FramesPerChunk
      BY <2>1, FramesAdvance
    <2> QED
      BY <2>1, <2>2, FrameStartsFcn DEF Start
  <1>2. Start(0) = 1
    BY Constants, FrameStartsFcn DEF Start
  <1>3. ASSUME NEW k \in Nat PROVE Start(k) > k /\ Start(k + 1) > Start(k)
    <2>1. Start(0 + k) >= Start(0) + k /\ Start(k + 1) >= Start(k) + 1
      BY <1>1
    <2>2. Start(k) \in Nat /\ Start(k + 1) \in Nat
      <3>1. k + 1 \in Nat
        OBVIOUS
      <3> QED
        BY <1>1, <3>1
    <2>3. Start(k) >= 1 + k
      <3>1. 0 + k = k
        OBVIOUS
      <3> QED
        BY <1>2, <2>1, <3>1
    <2> QED
      BY <2>1, <2>2, <2>3
  <1>4. ASSUME NEW j \in Nat, NEW k \in Nat, j <= k PROVE Start(j) <= Start(k)
    <2>1. k - j \in Nat /\ j + (k - j) = k
      BY <1>4
    <2>2. Start(j + (k - j)) >= Start(j) + (k - j) /\ Start(j) \in Nat /\ Start(k) \in Nat
      BY <1>1, <2>1
    <2>3. Start(k) >= Start(j) + (k - j)
      BY <2>1, <2>2
    <2> QED
      BY <2>1, <2>2, <2>3
  <1> QED
    BY <1>1, <1>2, <1>3, <1>4

(* The same for one chunk and the next.                                      *)
LEMMA StartIs ==
  ASSUME NEW k \in Nat
  PROVE  Start(k) \in Nat /\ Start(k) > 0 /\ Start(k + 1) \in Nat /\ Start(k + 1) > Start(k)
  <1>1. k + 1 \in Nat
    OBVIOUS
  <1>2. Start(k) \in Nat /\ Start(k + 1) \in Nat /\ Start(k) > k /\ Start(k + 1) > Start(k)
    BY <1>1, StartGrows
  <1> QED
    BY <1>2

-------------------------------------------------------------------------------
(* Runs of bytes *)

\* Bytes of f from one position to another; none if the first is beyond the last.
Bytes(f, first, last) == Piece(f, 0, first, last)

\* The n bytes of f after the s-th.
Run(f, s, n) == [i \in 1..n |-> <<f, 0, s + i>>]

(* A run of the bytes of a recording is a sequence of bytes.                 *)
LEMMA RunIs ==
  ASSUME NEW f \in Files, NEW s \in Nat, NEW n \in Nat, s + n <= MaxSize
  PROVE  /\ Run(f, s, n) \in Seq(Byte)
         /\ Len(Run(f, s, n)) = n
         /\ \A i \in 1..n : Run(f, s, n)[i] = <<f, 0, s + i>>
  <1>1. ASSUME NEW i \in 1..n PROVE <<f, 0, s + i>> \in Byte
    <2>1. s + i \in 1..MaxSize /\ 0 \in 0..MaxReuses
      BY SyncAssumption, Constants
    <2> QED
      BY <2>1 DEF Byte
  <1> QED
    BY <1>1 DEF Run

(* The first bytes of a run are a run.                                       *)
LEMMA RunFirst ==
  ASSUME NEW f \in Files, NEW s \in Nat, NEW n \in Nat, s + n <= MaxSize, NEW m \in 0..n
  PROVE  SubSeq(Run(f, s, n), 1, m) = Run(f, s, m)
  <1> DEFINE b == Run(f, s, n)
             a == SubSeq(b, 1, m)
             t == Run(f, s, m)
  <1>1. b \in Seq(Byte) /\ Len(b) = n /\ \A i \in 1..n : b[i] = <<f, 0, s + i>>
    BY RunIs
  <1>2. t \in Seq(Byte) /\ Len(t) = m /\ \A i \in 1..m : t[i] = <<f, 0, s + i>>
    <2>1. m \in Nat /\ s + m <= MaxSize
      BY Constants
    <2> QED
      BY <2>1, RunIs
  <1> HIDE DEF b, t
  <1>3. \A i \in 1..m : b[i] \in Byte
    BY <1>1, ElementOfSeq
  <1>4. a \in Seq(Byte) /\ Len(a) = m /\ \A i \in 1..m : a[i] = b[i]
    BY <1>3, SubSeqProperties
  <1> HIDE DEF a
  <1>5. ASSUME NEW i \in 1..m PROVE a[i] = t[i]
    <2>1. i \in 1..n
      OBVIOUS
    <2> QED
      BY <1>1, <1>2, <1>4, <2>1
  <1>6. a = t
    BY <1>2, <1>4, <1>5, SeqEqual
  <1> QED
    BY <1>6 DEF a, b, t

(* What is left of a run is a run.                                           *)
LEMMA RunRest ==
  ASSUME NEW f \in Files, NEW s \in Nat, NEW n \in Nat, s + n <= MaxSize, NEW m \in 0..n
  PROVE  SubSeq(Run(f, s, n), m + 1, n) = Run(f, s + m, n - m)
  <1> DEFINE b == Run(f, s, n)
             a == SubSeq(b, m + 1, n)
             t == Run(f, s + m, n - m)
  <1>1. b \in Seq(Byte) /\ Len(b) = n /\ \A i \in 1..n : b[i] = <<f, 0, s + i>>
    BY RunIs
  <1>2. t \in Seq(Byte) /\ Len(t) = n - m /\ \A i \in 1..n - m : t[i] = <<f, 0, s + m + i>>
    <2>1. s + m \in Nat /\ n - m \in Nat /\ (s + m) + (n - m) <= MaxSize
      BY Constants
    <2> QED
      BY <2>1, RunIs
  <1> HIDE DEF b, t
  <1>3. \A i \in m + 1..n : b[i] \in Byte
    BY <1>1, ElementOfSeq
  <1>4. a \in Seq(Byte) /\ Len(a) = n - m /\ \A i \in 1..n - m : a[i] = b[m + i]
    <2>1. /\ a \in Seq(Byte)
          /\ Len(a) = IF m + 1 <= n THEN n - (m + 1) + 1 ELSE 0
          /\ \A i \in 1..n - (m + 1) + 1 : a[i] = b[m + 1 + i - 1]
      BY <1>3, SubSeqProperties
    <2>2. n - (m + 1) + 1 = n - m /\ (~(m + 1 <= n) => n - m = 0)
      OBVIOUS
    <2>3. \A i \in 1..n - m : m + 1 + i - 1 = m + i
      OBVIOUS
    <2> HIDE DEF a
    <2> QED
      BY <2>1, <2>2, <2>3
  <1>5. ASSUME NEW i \in 1..n - m PROVE a[i] = t[i]
    <2>1. m + i \in 1..n /\ s + (m + i) = s + m + i
      OBVIOUS
    <2> HIDE DEF a
    <2> QED
      BY <1>1, <1>2, <1>4, <2>1
  <1> HIDE DEF a
  <1>6. a = t
    BY <1>2, <1>4, <1>5, SeqEqual
  <1> QED
    BY <1>6 DEF a, b, t

(* A run and the bytes that follow it are a run.                             *)
LEMMA RunMore ==
  ASSUME NEW f \in Files, NEW s \in Nat, NEW n \in Nat, NEW k \in Nat, s + n + k <= MaxSize
  PROVE  Run(f, s, n) \o Run(f, s + n, k) = Run(f, s, n + k)
  <1> DEFINE b == Run(f, s, n)
             g == Run(f, s + n, k)
             a == b \o g
             t == Run(f, s, n + k)
  <1>1. b \in Seq(Byte) /\ Len(b) = n /\ \A i \in 1..n : b[i] = <<f, 0, s + i>>
    <2>1. s + n <= MaxSize
      BY Constants
    <2> QED
      BY <2>1, RunIs
  <1>2. g \in Seq(Byte) /\ Len(g) = k /\ \A i \in 1..k : g[i] = <<f, 0, s + n + i>>
    <2>1. s + n \in Nat /\ (s + n) + k <= MaxSize
      BY Constants
    <2> QED
      BY <2>1, RunIs
  <1>3. t \in Seq(Byte) /\ Len(t) = n + k /\ \A i \in 1..n + k : t[i] = <<f, 0, s + i>>
    <2>1. n + k \in Nat /\ s + (n + k) <= MaxSize
      BY Constants
    <2> QED
      BY <2>1, RunIs
  <1> HIDE DEF b, g, t
  <1>4. a \in Seq(Byte) /\ Len(a) = n + k
        /\ \A i \in 1..n + k : a[i] = IF i <= n THEN b[i] ELSE g[i - n]
    BY <1>1, <1>2, ConcatProperties
  <1> HIDE DEF a
  <1>5. ASSUME NEW i \in 1..n + k PROVE a[i] = t[i]
    <2>1. CASE i <= n
      <3>1. i \in 1..n
        BY <2>1
      <3> QED
        BY <1>1, <1>3, <1>4, <2>1, <3>1
    <2>2. CASE ~(i <= n)
      <3>1. i - n \in 1..k /\ s + n + (i - n) = s + i
        BY <2>2
      <3> QED
        BY <1>2, <1>3, <1>4, <2>2, <3>1
    <2> QED
      BY <2>1, <2>2
  <1>6. a = t
    BY <1>3, <1>4, <1>5, SeqEqual
  <1> QED
    BY <1>6 DEF a, b, g, t

(* The bytes between two positions, as a run.                                *)
LEMMA BytesAreRun ==
  ASSUME NEW f \in Files, NEW first \in Nat, first > 0, NEW last \in 0..MaxSize
  PROVE  /\ first <= last + 1 => Bytes(f, first, last) = Run(f, first - 1, last - first + 1)
         /\ last < first => Bytes(f, first, last) = <<>>
  <1>1. ASSUME first <= last + 1
        PROVE  Bytes(f, first, last) = Run(f, first - 1, last - first + 1)
    <2>1. \A i \in 1..last - first + 1 : first + i - 1 = first - 1 + i
      BY Constants
    <2> QED
      BY <2>1 DEF Bytes, Piece, Run
  <1>2. ASSUME last < first PROVE Bytes(f, first, last) = <<>>
    <2>1. 1..last - first + 1 = 1..0
      BY <1>2, Constants
    <2>2. Bytes(f, first, last) = Run(f, first - 1, 0)
      BY <2>1 DEF Bytes, Piece, Run
    <2> QED
      BY <2>2 DEF Run
  <1> QED
    BY <1>1, <1>2

(* Type, length and elements of the bytes between two positions.             *)
LEMMA BytesAre ==
  ASSUME NEW f \in Files, NEW first \in Nat, first > 0, NEW last \in 0..MaxSize
  PROVE  /\ Bytes(f, first, last) \in Seq(Byte)
         /\ Len(Bytes(f, first, last)) = IF first <= last THEN last - first + 1 ELSE 0
         /\ Bytes(f, first, last) = <<>> <=> last < first
         /\ \A i \in 1..last - first + 1 : Bytes(f, first, last)[i] = <<f, 0, first + i - 1>>
  <1>1. CASE first <= last
    <2> DEFINE s == first - 1
               n == last - first + 1
    <2>1. s \in Nat /\ n \in Nat /\ n > 0 /\ s + n <= MaxSize /\ first = s + 1
      BY <1>1, Constants
    <2>2. Bytes(f, first, last) = Run(f, s, n)
      BY <1>1, BytesAreRun, Constants
    <2> HIDE DEF s, n
    <2>3. /\ Run(f, s, n) \in Seq(Byte)
          /\ Len(Run(f, s, n)) = n
          /\ \A i \in 1..n : Run(f, s, n)[i] = <<f, 0, s + i>>
      BY <2>1, RunIs
    <2>4. \A i \in 1..n : s + i = first + i - 1
      BY <2>1
    <2>5. Run(f, s, n) # <<>>
      BY <2>1, <2>3, EmptySeq
    <2>6. ~(last < first)
      BY <1>1, Constants
    <2> QED
      BY <1>1, <2>2, <2>3, <2>4, <2>5, <2>6 DEF n
  <1>2. CASE last < first
    <2>1. Bytes(f, first, last) = <<>>
      BY <1>2, BytesAreRun
    <2>2. ~(first <= last) /\ 1..last - first + 1 = {}
      BY <1>2, Constants
    <2> QED
      BY <1>2, <2>1, <2>2, EmptySeq
  <1> QED
    BY <1>1, <1>2, Constants

(* SubSeq from the beginning of Bytes.                                       *)
LEMMA FirstBytes ==
  ASSUME NEW f \in Files, NEW first \in Nat, first > 0, NEW last \in 0..MaxSize,
         NEW m \in 0..last - first + 1
  PROVE  SubSeq(Bytes(f, first, last), 1, m) = Bytes(f, first, first + m - 1)
  <1> DEFINE s == first - 1
             n == last - first + 1
  <1>1. /\ s \in Nat /\ n \in Nat /\ s + n <= MaxSize /\ m \in 0..n
        /\ first <= last + 1 /\ first + m - 1 \in 0..MaxSize
        /\ first <= (first + m - 1) + 1 /\ (first + m - 1) - first + 1 = m
    BY Constants
  <1>2. Bytes(f, first, last) = Run(f, s, n) /\ Bytes(f, first, first + m - 1) = Run(f, s, m)
    <2>1. Bytes(f, first, first + m - 1) = Run(f, first - 1, (first + m - 1) - first + 1)
      BY <1>1, BytesAreRun
    <2> QED
      BY <1>1, <2>1, BytesAreRun
  <1> HIDE DEF s, n
  <1> QED
    BY <1>1, <1>2, RunFirst

(* SubSeq of Bytes to the end.                                               *)
LEMMA OtherBytes ==
  ASSUME NEW f \in Files, NEW first \in Nat, first > 0, NEW last \in 0..MaxSize,
         NEW m \in 0..last - first + 1
  PROVE  SubSeq(Bytes(f, first, last), m + 1, Len(Bytes(f, first, last)))
           = Bytes(f, first + m, last)
  <1> DEFINE s == first - 1
             n == last - first + 1
  <1>1. /\ s \in Nat /\ n \in Nat /\ s + n <= MaxSize /\ m \in 0..n
        /\ first <= last + 1 /\ first + m \in Nat /\ first + m > 0
        /\ first + m <= last + 1 /\ (first + m) - 1 = s + m /\ last - (first + m) + 1 = n - m
    BY Constants
  <1>2. Bytes(f, first, last) = Run(f, s, n)
    BY <1>1, BytesAreRun
  <1>3. Bytes(f, first + m, last) = Run(f, s + m, n - m)
    <2>1. Bytes(f, first + m, last) = Run(f, (first + m) - 1, last - (first + m) + 1)
      BY <1>1, BytesAreRun
    <2> QED
      BY <1>1, <2>1
  <1> HIDE DEF s, n
  <1>4. Len(Run(f, s, n)) = n
    BY <1>1, RunIs
  <1>5. SubSeq(Run(f, s, n), m + 1, n) = Run(f, s + m, n - m)
    BY <1>1, RunRest
  <1> QED
    BY <1>2, <1>3, <1>4, <1>5

(* A fetched window joins the pending bytes: they are still the bytes from   *)
(* one position to another.                                                  *)
LEMMA MoreBytes ==
  ASSUME NEW f \in Files, NEW first \in Nat, first > 0, NEW last \in 0..MaxSize,
         NEW k \in Nat, first <= last + 1, last + k <= MaxSize
  PROVE  Bytes(f, first, last) \o [i \in 1..k |-> <<f, 0, last + i>>] = Bytes(f, first, last + k)
  <1> DEFINE s == first - 1
             n == last - first + 1
  <1>1. /\ s \in Nat /\ n \in Nat /\ s + n + k <= MaxSize /\ s + n = last
        /\ last + k \in 0..MaxSize /\ first <= (last + k) + 1 /\ (last + k) - first + 1 = n + k
    BY Constants
  <1>2. Bytes(f, first, last) = Run(f, s, n)
    BY <1>1, BytesAreRun
  <1>3. Bytes(f, first, last + k) = Run(f, s, n + k)
    <2>1. Bytes(f, first, last + k) = Run(f, first - 1, (last + k) - first + 1)
      BY <1>1, BytesAreRun
    <2> QED
      BY <1>1, <2>1
  <1>4. [i \in 1..k |-> <<f, 0, last + i>>] = Run(f, s + n, k)
    BY <1>1 DEF Run
  <1> HIDE DEF s, n
  <1>5. Run(f, s, n) \o Run(f, s + n, k) = Run(f, s, n + k)
    BY <1>1, RunMore
  <1> QED
    BY <1>2, <1>3, <1>4, <1>5

(* Every byte between the two positions is among Bytes.                      *)
LEMMA RangeOfBytes ==
  ASSUME NEW f \in Files, NEW first \in Nat, first > 0, NEW last \in 0..MaxSize,
         NEW i \in first..last
  PROVE  <<f, 0, i>> \in Range(Bytes(f, first, last))
  <1>1. i - first + 1 \in 1..last - first + 1 /\ first + (i - first + 1) - 1 = i
    BY Constants
  <1>2. Bytes(f, first, last)[i - first + 1] = <<f, 0, i>>
    BY <1>1 DEF Bytes, Piece
  <1>3. i - first + 1 \in DOMAIN Bytes(f, first, last)
    BY <1>1 DEF Bytes, Piece
  <1> QED
    BY <1>2, <1>3 DEF Range

-------------------------------------------------------------------------------
(* Where the next chunk is cut *)

(* FrameEnd satisfies its recursive definition.                              *)
LEMMA FrameEndFcn ==
  ASSUME NEW b \in Seq(Byte)
  PROVE  /\ FrameEnd(b)[0] = 0
         /\ \A n \in 0..FramesPerChunk : FrameEnd(b)[n] \in Nat
         /\ \A n \in 0..FramesPerChunk - 1 :
              FrameEnd(b)[n + 1] = IF FrameEnd(b)[n] >= Len(b) THEN Len(b) + 1
                                   ELSE FrameEnd(b)[n] + 1 + Value(b[FrameEnd(b)[n] + 1])
  <1> DEFINE L == Len(b)
             g == [x \in Nat |-> IF x >= L THEN L + 1 ELSE x + 1 + Value(b[x + 1])]
             Is(h) == h = [n \in 0..FramesPerChunk |->
                             IF n = 0 THEN 0
                             ELSE IF h[n - 1] >= Len(b) THEN Len(b) + 1
                             ELSE h[n - 1] + 1 + Value(b[h[n - 1] + 1])]
  <1>1. L \in Nat /\ \A x \in Nat : x < L => Value(b[x + 1]) \in Nat
    <2>1. ASSUME NEW x \in Nat, x < L PROVE Value(b[x + 1]) \in Nat
      <3>1. x + 1 \in 1..L
        BY <2>1
      <3>2. b[x + 1] \in Byte
        BY <3>1, ElementOfSeq
      <3>3. b[x + 1][3] \in 1..MaxSize
        BY <3>2 DEF Byte
      <3> QED
        BY <3>3, Constants DEF Value
    <2> QED
      BY <2>1, LenProperties
  <1> HIDE DEF L
  <1>2. g \in [Nat -> Nat]
    BY <1>1
  <1>3. PICK f \in [Nat -> Nat] : f[0] = 0 /\ \A n \in Nat : f[n + 1] = g[f[n]]
    <2> HIDE DEF g
    <2>1. \E f \in [Nat -> Nat] : IsIteration(f, 0, g)
      BY <1>2, Iterates
    <2> QED
      BY <2>1 DEF IsIteration
  <1>4. Is([n \in 0..FramesPerChunk |-> f[n]])
    <2>1. ASSUME NEW n \in 0..FramesPerChunk
          PROVE  f[n] = IF n = 0 THEN 0
                        ELSE IF f[n - 1] >= Len(b) THEN Len(b) + 1
                        ELSE f[n - 1] + 1 + Value(b[f[n - 1] + 1])
      <3>1. CASE n = 0
        BY <1>3, <3>1
      <3>2. CASE n # 0
        <4>1. n - 1 \in Nat /\ (n - 1) + 1 = n
          BY <3>2, Constants
        <4>2. f[n] = g[f[n - 1]] /\ f[n - 1] \in Nat
          <5> HIDE DEF g
          <5> QED
            BY <1>3, <4>1
        <4> QED
          BY <3>2, <4>2 DEF L
      <3> QED
        BY <3>1, <3>2
    <2>2. \A n \in 0..FramesPerChunk : n # 0 => n - 1 \in 0..FramesPerChunk
      BY Constants
    <2> HIDE DEF g
    <2> QED
      BY <2>1, <2>2
  <1>5. Is(FrameEnd(b))
    BY <1>4 DEF FrameEnd
  <1> DEFINE e == FrameEnd(b)
  <1> HIDE DEF e
  <1>6. Is(e)
    BY <1>5 DEF e
  <1>7. 0 \in 0..FramesPerChunk /\ e[0] = 0
    BY <1>6, Constants
  <1>8. ASSUME NEW n \in 0..FramesPerChunk - 1
        PROVE  e[n + 1] = IF e[n] >= L THEN L + 1 ELSE e[n] + 1 + Value(b[e[n] + 1])
    <2>1. n + 1 \in 0..FramesPerChunk /\ n + 1 # 0 /\ (n + 1) - 1 = n
      BY Constants
    <2> QED
      BY <1>6, <2>1 DEF L
  <1>9. \A n \in 0..FramesPerChunk : e[n] \in Nat
    <2> DEFINE P == {n \in Nat : n <= FramesPerChunk => e[n] \in Nat}
    <2>1. 0 \in P
      BY <1>7
    <2>2. ASSUME NEW n \in Nat, n \in P PROVE n + 1 \in P
      <3>1. CASE n + 1 <= FramesPerChunk
        <4>1. n \in 0..FramesPerChunk - 1
          BY <3>1, Constants
        <4>2. e[n] \in Nat
          BY <2>2, <3>1, Constants
        <4>3. e[n + 1] = IF e[n] >= L THEN L + 1 ELSE e[n] + 1 + Value(b[e[n] + 1])
          BY <1>8, <4>1
        <4>4. e[n + 1] = g[e[n]]
          BY <4>2, <4>3
        <4> HIDE DEF g
        <4>5. e[n + 1] \in Nat
          BY <1>2, <4>2, <4>4
        <4> QED
          BY <4>5
      <3> QED
        BY <3>1
    <2>3. Nat \subseteq P
      <3> HIDE DEF P
      <3> QED
        BY <2>1, <2>2, Induction
    <2> QED
      BY <2>3, Constants
  <1> QED
    BY <1>7, <1>8, <1>9 DEF e, L

(* _chunkBoundary, of the bytes of f from its c-th chunk up to the o-th      *)
(* byte: the length of the c-th chunk if all of it is there, and 0 if not.   *)
(* Where chunks are cut depends on the recording alone.                      *)
LEMMA Boundary ==
  ASSUME NEW f \in Files, NEW c \in Nat, NEW o \in 0..MaxSize
  PROVE  ChunkBoundary(Bytes(f, Start(c), o)) =
           IF Start(c + 1) <= o + 1 THEN Start(c + 1) - Start(c) ELSE 0
  <1> DEFINE p == Start(c)
             b == Bytes(f, p, o)
             L == Len(b)
             e == FrameEnd(b)
             F(n) == FrameStarts[c * FramesPerChunk + n]
             P == {n \in Nat : n <= FramesPerChunk =>
                      /\ F(n) <= o + 1 => e[n] = F(n) - p
                      /\ F(n) > o + 1 /\ n > 0 => e[n] > L}
  <1>1. p \in Nat /\ p > 0 /\ o \in Nat
    <2>1. o \in Nat
      BY Constants
    <2>2. p \in Nat /\ p > 0
      BY StartIs
    <2> QED
      BY <2>1, <2>2
  <1>2. b \in Seq(Byte) /\ L = (IF p <= o THEN o - p + 1 ELSE 0)
        /\ \A i \in 1..o - p + 1 : b[i] = <<f, 0, p + i - 1>>
    BY <1>1, BytesAre
  <1>3. /\ e[0] = 0
        /\ \A n \in 0..FramesPerChunk : e[n] \in Nat
        /\ \A n \in 0..FramesPerChunk - 1 :
              e[n + 1] = IF e[n] >= L THEN L + 1 ELSE e[n] + 1 + Value(b[e[n] + 1])
    BY <1>2, FrameEndFcn
  <1>4. F(0) = p /\ F(FramesPerChunk) = Start(c + 1)
    <2>1. c * FramesPerChunk \in Nat /\ c * FramesPerChunk + 0 = c * FramesPerChunk
          /\ (c + 1) * FramesPerChunk = c * FramesPerChunk + FramesPerChunk
      BY Constants
    <2> QED
      BY <2>1 DEF Start
  <1>5. \A n \in Nat :
          /\ F(n) \in Nat /\ F(n) > 0 /\ F(n) >= p + n /\ F(n + 1) \in Nat /\ F(n + 1) >= F(n) + 1
          /\ F(n) <= MaxSize => F(n + 1) = F(n) + 1 + Content[F(n)]
    <2> TAKE n \in Nat
    <2> DEFINE m == c * FramesPerChunk
    <2>1. m \in Nat /\ m + n \in Nat /\ m + (n + 1) = (m + n) + 1 /\ n + 1 \in Nat
      BY Constants
    <2>2. F(n) = FrameStarts[m + n] /\ F(n + 1) = FrameStarts[(m + n) + 1] /\ p = FrameStarts[m]
      BY <2>1 DEF Start
    <2> HIDE DEF m, F, p
    <2>3. FrameStarts[m + n] >= FrameStarts[m] + n /\ FrameStarts[(m + n) + 1] >= FrameStarts[m + n] + 1
      BY <2>1, FramesAdvance
    <2>4. FrameStarts[(m + n) + 1] \in Nat /\ FrameStarts[m + n] \in Nat /\ FrameStarts[m + n] > 0
          /\ FrameStarts[(m + n) + 1] = IF FrameStarts[m + n] > MaxSize THEN FrameStarts[m + n] + 1
                                       ELSE FrameStarts[m + n] + 1 + Content[FrameStarts[m + n]]
      BY <2>1, FrameStartsFcn
    <2>5. FrameStarts[m + n] <= MaxSize => ~(FrameStarts[m + n] > MaxSize)
      BY <2>4, Constants
    <2> QED
      BY <2>2, <2>3, <2>4, <2>5
  <1> HIDE DEF p, b, e, F, L
  <1>6. 0 \in P
    BY <1>1, <1>3, <1>4
  <1>7. ASSUME NEW n \in Nat, n \in P, n + 1 <= FramesPerChunk PROVE n + 1 \in P
    <2>1. n \in 0..FramesPerChunk - 1 /\ n \in 0..FramesPerChunk /\ n <= FramesPerChunk
      BY <1>7, Constants
    <2>2. /\ e[n] \in Nat /\ L \in Nat
          /\ e[n + 1] = IF e[n] >= L THEN L + 1 ELSE e[n] + 1 + Value(b[e[n] + 1])
      BY <1>1, <1>2, <1>3, <2>1
    <2>3. /\ F(n) \in Nat /\ F(n) > 0 /\ F(n) >= p + n /\ F(n + 1) \in Nat /\ F(n + 1) >= F(n) + 1
          /\ F(n) <= MaxSize => F(n + 1) = F(n) + 1 + Content[F(n)]
      BY <1>5
    <2>4. /\ F(n) <= o + 1 => e[n] = F(n) - p
          /\ F(n) > o + 1 /\ n > 0 => e[n] > L
      BY <1>7, <2>1
    <2>5. CASE F(n) > o
      <3>1. F(n + 1) > o + 1
        BY <1>1, <2>3, <2>5
      <3>2. e[n] >= L
        <4>1. CASE F(n) > o + 1 /\ n > 0
          BY <2>2, <2>4, <4>1
        <4>2. CASE F(n) > o + 1 /\ n = 0
          BY <1>1, <1>2, <1>4, <2>2, <4>2
        <4>3. CASE F(n) = o + 1
          BY <1>1, <1>2, <2>2, <2>3, <2>4, <4>3
        <4> QED
          BY <1>1, <2>3, <2>5, <4>1, <4>2, <4>3
      <3>3. e[n + 1] = L + 1
        BY <2>2, <3>2
      <3>4. ~(F(n + 1) <= o + 1) /\ e[n + 1] > L
        BY <1>1, <2>2, <2>3, <3>1, <3>3
      <3> QED
        BY <3>4
    <2>6. CASE F(n) <= o
      <3>1. e[n] = F(n) - p /\ p <= o /\ L = o - p + 1 /\ e[n] + 1 \in 1..o - p + 1
            /\ ~(e[n] >= L) /\ p + (e[n] + 1) - 1 = F(n)
        <4>1. e[n] = F(n) - p /\ p <= F(n) /\ p <= o
          BY <1>1, <2>3, <2>4, <2>6
        <4>2. L = o - p + 1
          BY <1>2, <4>1
        <4> QED
          BY <1>1, <2>2, <2>3, <2>6, <4>1, <4>2
      <3>2. Value(b[e[n] + 1]) = Content[F(n)]
        <4>1. b[e[n] + 1] = <<f, 0, p + (e[n] + 1) - 1>>
          BY <1>2, <3>1
        <4>2. b[e[n] + 1] = <<f, 0, F(n)>>
          BY <3>1, <4>1
        <4> QED
          BY <4>2 DEF Value
      <3>3. e[n + 1] = e[n] + 1 + Content[F(n)] /\ F(n + 1) = F(n) + 1 + Content[F(n)]
            /\ Content[F(n)] \in Nat
        <4>1. F(n) \in 1..MaxSize
          BY <2>3, <2>6, Constants
        <4>2. F(n) <= MaxSize /\ Content[F(n)] \in Nat
          BY <4>1, Constants
        <4> QED
          BY <2>2, <2>3, <3>1, <3>2, <4>2
      <3>4. e[n + 1] = F(n + 1) - p /\ (F(n + 1) > o + 1 => e[n + 1] > L)
        BY <1>1, <2>3, <3>1, <3>3
      <3> QED
        BY <3>4
    <2> QED
      BY <1>1, <2>3, <2>5, <2>6
  <1>8. Nat \subseteq P
    <2>1. ASSUME NEW n \in Nat, n \in P PROVE n + 1 \in P
      <3>1. CASE ~(n + 1 <= FramesPerChunk)
        BY <3>1
      <3> HIDE DEF P
      <3> QED
        BY <1>7, <2>1, <3>1
    <2> HIDE DEF P
    <2> QED
      BY <1>6, <2>1, Induction
  <1>9. /\ F(FramesPerChunk) <= o + 1 => e[FramesPerChunk] = F(FramesPerChunk) - p
        /\ F(FramesPerChunk) > o + 1 => e[FramesPerChunk] > L
    BY <1>8, Constants
  <1>10. ChunkBoundary(b) = IF e[FramesPerChunk] <= L THEN e[FramesPerChunk] ELSE 0
    BY DEF ChunkBoundary, e, L
  <1>11. Start(c + 1) \in Nat /\ Start(c + 1) > p /\ e[FramesPerChunk] \in Nat /\ L \in Nat
    <2>1. FramesPerChunk \in 0..FramesPerChunk /\ c + 1 \in Nat
      BY Constants
    <2>2. e[FramesPerChunk] \in Nat /\ L \in Nat
      BY <1>2, <1>3, <2>1, LenProperties DEF L
    <2>3. Start(c + 1) \in Nat /\ Start(c + 1) > Start(c)
      BY StartIs
    <2> QED
      BY <2>2, <2>3 DEF p
  <1>12. CASE Start(c + 1) <= o + 1
    <2>1. e[FramesPerChunk] = Start(c + 1) - p /\ e[FramesPerChunk] <= L
      BY <1>1, <1>2, <1>4, <1>9, <1>11, <1>12
    <2> QED
      BY <1>10, <1>12, <2>1 DEF b, p
  <1>13. CASE ~(Start(c + 1) <= o + 1)
    <2>1. e[FramesPerChunk] > L
      BY <1>1, <1>4, <1>9, <1>11, <1>13
    <2>2. ~(e[FramesPerChunk] <= L)
      BY <1>11, <2>1
    <2> QED
      BY <1>10, <1>13, <2>2 DEF b, p
  <1> QED
    BY <1>12, <1>13

-------------------------------------------------------------------------------
(* The inductive invariant *)

\* What the code relies on: the process does not die inside a checkpoint, stop()
\* is not called, and the device gives no file name twice.
Checkpointed ==
  /\ MaxStops = 0 /\ MaxReuses = 0
  /\ CrashAt \cap {"writePending", "saveOffset", "saveIndex"} = {}

\* The await the drain loop is at, and where it goes on after a flush or a
\* checkpoint.
at == pc["loop"]
resume == then["loop"]

Loading   == {"load2", "load3"}
Emitting  == {"write", "delete", "rename"}
Cutting   == Emitting \cup {"cut"}
Saving    == {"writePending", "saveOffset", "saveIndex"}
Flushing  == Cutting \cup {"savePending"} \cup Saving
Away      == {"top", "status", "load1", "list", "pick", "closedReturn"}
OnTarget  == {"check", "fetch", "window", "closedEnd", "markDone"}
Resumes   == {"load1", "fetch", "markDone", "list", "closedReturn"}

\* Name of the k-th chunk of f.
SlotOf(f, k) == Base[f][0] + k

\* b is the k-th chunk of f, when file l is live and the sizes are sz.
IsChunk(l, sz, b, f, k) ==
  /\ Start(k) <= sz[f]
  /\ \/ Start(k + 1) <= sz[f] + 1 /\ b = Bytes(f, Start(k), Start(k + 1) - 1)
     \/ f < l /\ sz[f] + 1 < Start(k + 1) /\ b = Bytes(f, Start(k), sz[f])

\* The chunks of f before the k-th are in the outbox ob or on the drive dr.
Kept(ob, dr, f, k) ==
  \A j \in 0..k - 1 : ob[SlotOf(f, j)] # <<>> \/ dr[SlotOf(f, j)] # <<>>

\* b is what has been fetched of f beyond its first k chunks, o bytes in all.
Fits(l, sz, f, o, k, b) ==
  /\ b = Bytes(f, Start(k), o)
  /\ Start(k) <= o + 1 \/ (f < l /\ o = sz[f])
  /\ k = 0 \/ Start(k - 1) <= o

\* What never changes, and where the drain loop may be.
Quiet ==
  /\ running = TRUE /\ pc["stop"] = "ready" /\ stops = 0 /\ reuses = 0
  /\ version = [f \in Files |-> 0] /\ base = [f \in Files |-> 0]
  /\ at \in Loading \cup Flushing \cup Away \cup OnTarget
  /\ at \in Flushing => resume \in Resumes

\* What is in the outbox and on the drive is a chunk under its own name; one
\* being uploaded is on the drive already.
Boxes ==
  /\ \A s \in Slots : outbox[s] # <<>> =>
       \E f \in Files, k \in 0..MaxSize - 1 : s = SlotOf(f, k) /\ IsChunk(live, size, outbox[s], f, k)
  /\ \A s \in Slots : drive[s] # <<>> =>
       \E f \in Files, k \in 0..MaxSize - 1 : s = SlotOf(f, k) /\ IsChunk(live, size, drive[s], f, k)
  /\ up # None => up \in Slots /\ drive[up] # <<>>

\* The cursors on flash, done files included; that of the file being
\* checkpointed need not fit its pending file.
Cursors ==
  \A f \in Files :
    /\ off[f] \in 0..size[f] /\ ci[f] \in 0..size[f]
    /\ Kept(outbox, drive, f, ci[f])
    /\ done[f] => f < live /\ size[f] < Start(ci[f])
    /\ (at \in Saving /\ name = f) \/ Fits(live, size, f, off[f], ci[f], pend[f])

\* The cursor in memory, which is never behind the one on flash; during a flush
\* the bytes left to cut take the place of the pending ones.
Memory ==
  name # None =>
    /\ offset \in off[name]..size[name] /\ chunkIndex \in ci[name]..size[name]
    /\ Kept(outbox, drive, name, chunkIndex)
    /\ at \notin Loading \cup Cutting => Fits(live, size, name, offset, chunkIndex, pending)
    /\ at = "cut" => Fits(live, size, name, offset, chunkIndex, buf["loop"])

\* The chunk being written, and the part file once it is.
Emission ==
  at \in Emitting =>
    /\ chunkIndex < size[name]
    /\ chunk["loop"].slot = SlotOf(name, chunkIndex)
    /\ chunk["loop"].bytes # <<>>
    /\ IsChunk(live, size, chunk["loop"].bytes, name, chunkIndex)
    /\ Fits(live, size, name, offset, chunkIndex + 1, buf["loop"])
    /\ at # "write" => part[SlotOf(name, chunkIndex)] = chunk["loop"].bytes

\* What each step of a checkpoint has put on flash.
Checkpoint ==
  /\ at \in Flushing => name # None
  /\ at \in {"savePending"} \cup Saving => nm["loop"] = name
  /\ at = "writePending" => buf["loop"] = pending
  /\ at \in {"saveOffset", "saveIndex"} => pend[name] = pending
  /\ at = "saveIndex" => off[name] = offset

\* How the file in memory, the target of the pass and its size are related.
Focus ==
  /\ at \in Loading \cup OnTarget => name = target
  /\ at \in Flushing => (name = target <=> resume # "load1")
  /\ at \in Loading => offset = off[name] /\ chunkIndex = ci[name]
  /\ at = "load3" => pending = <<>>
  /\ \A f \in todo : f < live
  /\ mode = "closed" => target < live /\ limit \in {Unknown, size[target]}
  /\ mode = "live" /\ (at \in Loading \cup {"load1"} \/ (at \in Flushing /\ resume = "load1"))
       => off[target] <= limit
  /\ at = "check" => mode = "live" /\ offset <= limit

\* The end of a closed file: nothing of it is left to cut when it is flagged.
Ending ==
  /\ at \in {"closedEnd", "markDone"} => mode = "closed"
  /\ at = "markDone" => size[target] < Start(ci[target])
  /\ at \in Flushing /\ resume = "markDone" => mode = "closed" /\ offset = size[target]
  /\ at \in Cutting => force["loop"] = (resume = "markDone")
  /\ at \in {"savePending"} \cup Saving /\ resume = "markDone" => size[target] < Start(chunkIndex)

SyncInv ==
  /\ TypeOK /\ Quiet /\ Boxes /\ Cursors /\ Memory
  /\ Emission /\ Checkpoint /\ Focus /\ Ending

-------------------------------------------------------------------------------
(* What a flush cuts *)

(* Cutting a whole chunk off the pending bytes leaves those of the next      *)
(* chunk.                                                                    *)
LEMMA CutWhole ==
  ASSUME NEW l, NEW sz, NEW f \in Files, NEW k \in Nat, NEW o \in 0..MaxSize, sz[f] \in 0..MaxSize,
         o <= sz[f], Start(k + 1) <= o + 1
  PROVE  LET b == Bytes(f, Start(k), o)
             m == Start(k + 1) - Start(k)
             cut1 == SubSeq(b, 1, m)
             rest == SubSeq(b, m + 1, Len(b))
         IN  /\ k < sz[f] /\ cut1 # <<>> /\ IsChunk(l, sz, cut1, f, k)
             /\ Fits(l, sz, f, o, k + 1, rest)
  <1> DEFINE b == Bytes(f, Start(k), o)
             p == Start(k)
             n == Start(k + 1)
             m == n - p
             cut1 == SubSeq(b, 1, m)
             rest == SubSeq(b, m + 1, Len(b))
  <1>1. p \in Nat /\ p > k /\ p > 0 /\ n \in Nat /\ n > p
    BY StartIs, StartGrows
  <1>2. n <= o + 1 /\ o \in Nat /\ sz[f] \in Nat /\ o <= sz[f] /\ MaxSize \in Nat
    BY Constants
  <1>3. b = Bytes(f, p, o)
    OBVIOUS
  <1>4. n <= sz[f] + 1 /\ p <= sz[f] /\ p <= o /\ k < sz[f]
    <2> HIDE DEF p, n
    <2> QED
      BY <1>1, <1>2
  <1>5. m \in 0..o - p + 1 /\ p + m - 1 = n - 1 /\ p + m = n /\ n - 1 \in 0..MaxSize /\ p <= n - 1
    <2>1. o <= MaxSize
      BY Constants
    <2> HIDE DEF p, n
    <2> QED
      BY <1>1, <1>2, <2>1
  <1>6. cut1 = Bytes(f, p, n - 1) /\ rest = Bytes(f, n, o)
    <2> HIDE DEF p, n, m
    <2>1. SubSeq(Bytes(f, p, o), 1, m) = Bytes(f, p, p + m - 1)
      BY <1>1, <1>5, FirstBytes
    <2>2. SubSeq(Bytes(f, p, o), m + 1, Len(Bytes(f, p, o))) = Bytes(f, p + m, o)
      BY <1>1, <1>5, OtherBytes
    <2> QED
      BY <1>3, <1>5, <2>1, <2>2
  <1>7. cut1 # <<>>
    <2> HIDE DEF p, n, m, cut1
    <2>1. Bytes(f, p, n - 1) = <<>> <=> n - 1 < p
      BY <1>1, <1>5, BytesAre
    <2>2. ~(n - 1 < p)
      BY <1>1
    <2> QED
      BY <1>6, <2>1, <2>2
  <1>8. IsChunk(l, sz, cut1, f, k)
    <2> HIDE DEF m, cut1
    <2> QED
      BY <1>4, <1>6 DEF IsChunk
  <1>9. Fits(l, sz, f, o, k + 1, rest)
    <2>1. (k + 1) - 1 = k
      OBVIOUS
    <2> HIDE DEF m, rest
    <2> QED
      BY <1>2, <1>4, <1>6, <2>1 DEF Fits
  <1> QED
    BY <1>4, <1>7, <1>8, <1>9

(* Cutting what remains of a closed file gives its last chunk and leaves     *)
(* nothing.                                                                  *)
LEMMA CutRest ==
  ASSUME NEW l, NEW sz, NEW f \in Files, NEW k \in Nat, NEW o \in 0..MaxSize, sz[f] = o,
         f < l, ~(Start(k + 1) <= o + 1), Start(k) <= o
  PROVE  LET b == Bytes(f, Start(k), o)
         IN  /\ k < sz[f] /\ SubSeq(b, 1, Len(b)) # <<>>
             /\ IsChunk(l, sz, SubSeq(b, 1, Len(b)), f, k)
             /\ Fits(l, sz, f, o, k + 1, SubSeq(b, Len(b) + 1, Len(b)))
  <1> DEFINE b == Bytes(f, Start(k), o)
             p == Start(k)
             n == Start(k + 1)
             cut1 == SubSeq(b, 1, Len(b))
             rest == SubSeq(b, Len(b) + 1, Len(b))
  <1>1. p \in Nat /\ p > k /\ p > 0 /\ n \in Nat /\ n > p /\ o \in Nat /\ sz[f] \in Nat
    <2>1. o \in Nat /\ sz[f] \in Nat
      BY Constants
    <2>2. p \in Nat /\ p > k /\ p > 0 /\ n \in Nat /\ n > p
      BY StartIs, StartGrows
    <2> QED
      BY <2>1, <2>2
  <1>2. o + 1 < n /\ p <= o /\ k < sz[f]
    <2> HIDE DEF p, n
    <2>1. ~(n <= o + 1) /\ p <= o
      BY DEF p, n
    <2> QED
      BY <1>1, <2>1
  <1>3. /\ b \in Seq(Byte) /\ b # <<>> /\ Len(b) \in Nat
        /\ b = Bytes(f, p, o)
    <2>1. b = Bytes(f, p, o)
      OBVIOUS
    <2> HIDE DEF p, n
    <2>2. Bytes(f, p, o) \in Seq(Byte) /\ (Bytes(f, p, o) = <<>> <=> o < p)
      BY <1>1, BytesAre
    <2>3. ~(o < p)
      BY <1>1, <1>2
    <2> QED
      BY <2>1, <2>2, <2>3, LenProperties
  <1>4. cut1 = b /\ rest = <<>>
    BY <1>3, SubSeqFull, SubSeqEmpty
  <1>5. Bytes(f, n, o) = <<>>
    <2> HIDE DEF n
    <2>1. n > 0 /\ o < n
      BY <1>1, <1>2
    <2> QED
      BY <1>1, <2>1, BytesAreRun
  <1> HIDE DEF cut1, rest
  <1>6. IsChunk(l, sz, cut1, f, k)
    BY <1>2, <1>3, <1>4 DEF IsChunk
  <1>7. Fits(l, sz, f, o, k + 1, rest)
    <2>1. (k + 1) - 1 = k
      OBVIOUS
    <2> QED
      BY <1>2, <1>4, <1>5, <2>1 DEF Fits
  <1> QED
    BY <1>2, <1>3, <1>4, <1>6, <1>7 DEF cut1, rest

\* What a flush comes to, o bytes having been fetched of the file in memory: it
\* has the next chunk to write, or nothing is left that it may cut.
Flushed(o, pnd, b, ch, forced, next) ==
  /\ then' = [then EXCEPT !["loop"] = next]
  /\ force' = [force EXCEPT !["loop"] = forced]
  /\ cut' = [cut EXCEPT !["loop"] = ch]
  /\ \/ /\ pc' = [pc EXCEPT !["loop"] = "write"]
        /\ pending' = pnd /\ nm' = nm
        /\ \E bytes, rest :
             /\ chunkIndex < size[name]
             /\ bytes # <<>>
             /\ IsChunk(live, size, bytes, name, chunkIndex)
             /\ Fits(live, size, name, o, chunkIndex + 1, rest)
             /\ buf' = [buf EXCEPT !["loop"] = rest]
             /\ chunk' = [chunk EXCEPT !["loop"] = [slot  |-> SlotOf(name, chunkIndex),
                                                   bytes |-> bytes]]
     \/ /\ pc' = [pc EXCEPT !["loop"] = "savePending"]
        /\ pending' = b
        /\ nm' = [nm EXCEPT !["loop"] = name]
        /\ buf' = [buf EXCEPT !["loop"] = <<>>]
        /\ chunk' = [chunk EXCEPT !["loop"] = NoChunk]
        /\ forced => size[name] < Start(chunkIndex)

(* What _flushPending does before its next await, when the bytes at hand     *)
(* fit the cursor.                                                           *)
LEMMA FlushCuts ==
  ASSUME TypeOK, base = [f \in Files |-> 0], name \in Files,
         NEW o \in 0..MaxSize, NEW pnd, NEW b, NEW ch \in BOOLEAN, NEW forced \in BOOLEAN, NEW next,
         o <= size[name], Fits(live, size, name, o, chunkIndex, b),
         ~ch => pnd = b, forced => name < live /\ o = size[name],
         Flush("loop", pnd, b, ch, forced, next)
  PROVE  Flushed(o, pnd, b, ch, forced, next)
  <1> DEFINE n == ChunkBoundary(b)
             m == IF n > 0 THEN n ELSE IF forced THEN Len(b) ELSE 0
             cut1 == SubSeq(b, 1, m)
             rest == SubSeq(b, m + 1, Len(b))
             p == Start(chunkIndex)
             q == Start(chunkIndex + 1)
  <1>1. /\ chunkIndex \in Nat /\ size[name] \in 0..MaxSize /\ o \in Nat
        /\ p \in Nat /\ p > 0 /\ q \in Nat /\ q > p
    BY StartIs, Constants DEF TypeOK
  <1>2. b = Bytes(name, p, o)
    BY DEF Fits
  <1>3. n = IF q <= o + 1 THEN q - p ELSE 0
    BY <1>1, <1>2, Boundary
  <1>4. Len(b) = IF p <= o THEN o - p + 1 ELSE 0
    BY <1>1, <1>2, BytesAre
  <1>5. Slot(name, chunkIndex) = SlotOf(name, chunkIndex)
    BY DEF Slot, SlotOf
  <1>6. /\ then' = [then EXCEPT !["loop"] = next]
        /\ force' = [force EXCEPT !["loop"] = forced]
        /\ cut' = [cut EXCEPT !["loop"] = ch]
        /\ m > 0 => /\ buf' = [buf EXCEPT !["loop"] = rest]
                    /\ chunk' = [chunk EXCEPT !["loop"] = [slot |-> Slot(name, chunkIndex), bytes |-> cut1]]
                    /\ pc' = [pc EXCEPT !["loop"] = "write"]
                    /\ pending' = pnd /\ nm' = nm
        /\ ~(m > 0) => /\ pending' = IF ch THEN b ELSE pnd
                       /\ pc' = [pc EXCEPT !["loop"] = "savePending"]
                       /\ nm' = [nm EXCEPT !["loop"] = name]
                       /\ buf' = [buf EXCEPT !["loop"] = <<>>]
                       /\ chunk' = [chunk EXCEPT !["loop"] = NoChunk]
    BY DEF Flush, Follow
  <1>7. m > 0 => /\ chunkIndex < size[name] /\ cut1 # <<>>
                 /\ IsChunk(live, size, cut1, name, chunkIndex)
                 /\ Fits(live, size, name, o, chunkIndex + 1, rest)
    <2>1. CASE q <= o + 1
      <3>1. m = q - p
        <4> HIDE DEF p, q, n
        <4> QED
          BY <1>1, <1>3, <2>1
      <3> QED
        BY <1>1, <1>2, <2>1, <3>1, CutWhole
    <2>2. CASE ~(q <= o + 1) /\ m > 0
      <3>1. n = 0 /\ forced /\ m = Len(b)
        <4> HIDE DEF p, q, n
        <4> QED
          BY <1>1, <1>3, <2>2
      <3>2. p <= o
        <4> HIDE DEF p, q, n
        <4> QED
          BY <1>4, <2>2, <3>1
      <3>3. /\ chunkIndex < size[name] /\ SubSeq(b, 1, Len(b)) # <<>>
            /\ IsChunk(live, size, SubSeq(b, 1, Len(b)), name, chunkIndex)
            /\ Fits(live, size, name, o, chunkIndex + 1, SubSeq(b, Len(b) + 1, Len(b)))
        <4>1. size[name] = o /\ name < live /\ ~(Start(chunkIndex + 1) <= o + 1)
              /\ Start(chunkIndex) <= o /\ chunkIndex \in Nat
          BY <1>1, <2>2, <3>1, <3>2
        <4> DEFINE d == Bytes(name, Start(chunkIndex), o)
        <4>2. /\ chunkIndex < size[name] /\ SubSeq(d, 1, Len(d)) # <<>>
              /\ IsChunk(live, size, SubSeq(d, 1, Len(d)), name, chunkIndex)
              /\ Fits(live, size, name, o, chunkIndex + 1, SubSeq(d, Len(d) + 1, Len(d)))
          BY <4>1, CutRest
        <4>3. b = d
          BY <1>2
        <4> HIDE DEF d
        <4> QED
          BY <4>2, <4>3
      <3> HIDE DEF m
      <3> QED
        BY <3>1, <3>3
    <2> QED
      BY <2>1, <2>2
  <1>8. ~(m > 0) /\ forced => size[name] < p
    <2> SUFFICES ASSUME ~(m > 0), forced PROVE size[name] < p
      OBVIOUS
    <2> HIDE DEF p, q, n
    <2>1. Len(b) \in Nat /\ n \in Nat
      BY <1>1, <1>3, <1>4
    <2>2. Len(b) = 0
      BY <2>1
    <2> QED
      BY <1>1, <1>4, <2>2
  <1> HIDE DEF m, cut1, rest, n, q
  <1>9. CASE m > 0
    BY <1>5, <1>6, <1>7, <1>9 DEF Flushed
  <1>10. CASE ~(m > 0)
    BY <1>6, <1>8, <1>10 DEF Flushed
  <1> QED
    BY <1>9, <1>10

(* What fits a cursor is a sequence of bytes.                                *)
LEMMA FitsTyped ==
  ASSUME NEW l, NEW sz, NEW f \in Files, NEW o \in 0..MaxSize, NEW k \in Nat, NEW b,
         Fits(l, sz, f, o, k, b)
  PROVE  b \in Seq(Byte)
  <1>1. b = Bytes(f, Start(k), o)
    BY DEF Fits
  <1>2. Start(k) \in Nat /\ Start(k) > 0
    BY StartIs
  <1> QED
    BY <1>1, <1>2, BytesAre

(* A chunk is a sequence of bytes.                                           *)
LEMMA ChunkTyped ==
  ASSUME NEW l, NEW sz, NEW f \in Files, NEW k \in Nat, NEW b,
         sz[f] \in 0..MaxSize, IsChunk(l, sz, b, f, k)
  PROVE  b \in Seq(Byte)
  <1>1. PICK o \in 0..MaxSize : b = Bytes(f, Start(k), o)
    <2>1. CASE Start(k + 1) <= sz[f] + 1 /\ b = Bytes(f, Start(k), Start(k + 1) - 1)
      <3>1. Start(k + 1) - 1 \in 0..MaxSize
        <4>1. Start(k + 1) \in Nat /\ Start(k + 1) > Start(k) /\ Start(k) \in Nat
          BY StartIs
        <4> QED
          BY <2>1, <4>1, Constants
      <3> QED
        BY <2>1, <3>1
    <2>2. CASE b = Bytes(f, Start(k), sz[f])
      BY <2>2
    <2> QED
      BY <2>1, <2>2 DEF IsChunk
  <1>2. Start(k) \in Nat /\ Start(k) > 0
    BY StartIs
  <1> QED
    BY <1>1, <1>2, BytesAre

(* The name of a chunk is one of the slots.                                  *)
LEMMA SlotTyped ==
  ASSUME NEW f \in Files, NEW k \in 0..MaxSize - 1
  PROVE  SlotOf(f, k) \in Slots
  <1>1. 0 \in 0..MaxReuses
    BY SyncAssumption
  <1> QED
    BY <1>1, SlotAssumption DEF SlotOf

(* A flush keeps the invariant when the bytes at hand, o of the file in      *)
(* all, fit the cursor: the lemma behind every action that begins or goes    *)
(* on with _flushPending.                                                    *)
LEMMA FlushKeeps ==
  ASSUME SyncInv, name # None, at \notin Saving,
         NEW o \in 0..MaxSize, NEW pnd \in Seq(Byte), NEW b, NEW ch \in BOOLEAN, NEW forced \in BOOLEAN,
         NEW next \in Resumes,
         Flush("loop", pnd, b, ch, forced, next),
         Fits(live, size, name, o, chunkIndex, b), ~ch => pnd = b,
         offset <= o, o <= size[name], offset' = o,
         forced = (next = "markDone"),
         next = "markDone" => mode' = "closed" /\ o = size[target'],
         name = target' <=> next # "load1",
         mode' = "closed" => target' < live /\ limit' \in {Unknown, size[target']},
         mode' = "live" /\ next = "load1" => off[target'] <= limit',
         todo' \subseteq Files, \A f \in todo' : f < live,
         mode' \in {"live", "closed"}, target' \in Files, limit' \in 0..Unknown, pulled' \in Nat,
         retry' \subseteq Files,
         UNCHANGED <<live, size, version, off, ci, pend, base, done, part, outbox, drive, running,
                     name, chunkIndex, up, crashes, stops, reuses>>
  PROVE  SyncInv'
  <1> USE DEF at, resume
  <1>1. TypeOK /\ Quiet /\ Boxes /\ Cursors /\ Memory /\ Emission /\ Checkpoint /\ Focus /\ Ending
    BY DEF SyncInv
  <1>2. /\ name \in Files /\ size[name] \in 0..MaxSize /\ chunkIndex \in Nat
        /\ {pc, then} \subseteq [Procs -> Points] /\ {force, cut} \subseteq [Procs -> BOOLEAN]
        /\ buf \in [Procs -> Seq(Byte)] /\ nm \in [Procs -> Files \cup {None}]
        /\ chunk \in [Procs -> [slot : Slots \cup {0}, bytes : Seq(Byte)]]
    BY <1>1 DEF TypeOK
  <1>3. base = [f \in Files |-> 0]
    BY <1>1 DEF Quiet
  <1>4. forced => name < live /\ o = size[name]
    OBVIOUS
  <1>5. Flushed(o, pnd, b, ch, forced, next)
    <2> HIDE DEF at, resume
    <2>1. TypeOK /\ name \in Files
      BY <1>1, <1>2
    <2> QED
      BY <1>3, <1>4, <2>1, FlushCuts, Zenon
  <1>6. b \in Seq(Byte) /\ offset' \in off[name]..size[name]
    <2>1. offset \in off[name]..size[name]
      BY <1>1, <1>2 DEF Memory
    <2>2. off[name] \in Nat /\ size[name] \in Nat /\ o \in Nat
      BY <1>1, <1>2, Constants DEF TypeOK
    <2> QED
      BY <1>2, <2>1, <2>2, FitsTyped
  <1>7. /\ then' \in [Procs -> Points] /\ force' \in [Procs -> BOOLEAN] /\ cut' \in [Procs -> BOOLEAN]
        /\ resume' = next /\ force'["loop"] = forced
    BY <1>2, <1>5 DEF Flushed, Procs, Points, Resumes
  <1>8. at' = "write" \/ at' = "savePending"
    BY <1>2, <1>5 DEF Flushed, Procs
  <1>9. pc' \in [Procs -> Points] /\ pc'["stop"] = pc["stop"]
    BY <1>2, <1>5 DEF Flushed, Procs, Points
  <1>10. CASE at' = "write"
    <2>1. PICK bytes, rest :
            /\ chunkIndex < size[name]
            /\ bytes # <<>>
            /\ IsChunk(live, size, bytes, name, chunkIndex)
            /\ Fits(live, size, name, o, chunkIndex + 1, rest)
            /\ buf' = [buf EXCEPT !["loop"] = rest]
            /\ chunk' = [chunk EXCEPT !["loop"] = [slot |-> SlotOf(name, chunkIndex), bytes |-> bytes]]
            /\ pending' = pnd /\ nm' = nm
      BY <1>2, <1>5, <1>10 DEF Flushed, Procs
    <2>2. bytes \in Seq(Byte)
      BY <1>2, <2>1, ChunkTyped
    <2>3. rest \in Seq(Byte)
      <3>1. chunkIndex + 1 \in Nat
        BY <1>2
      <3> QED
        BY <1>2, <2>1, <3>1, FitsTyped
    <2>4. SlotOf(name, chunkIndex) \in Slots
      <3>1. chunkIndex \in 0..MaxSize - 1
        BY <1>2, <2>1, Constants
      <3> QED
        BY <1>2, <3>1, SlotTyped
    <2>5. /\ buf' \in [Procs -> Seq(Byte)] /\ buf'["loop"] = rest
          /\ chunk' \in [Procs -> [slot : Slots \cup {0}, bytes : Seq(Byte)]]
          /\ chunk'["loop"].slot = SlotOf(name, chunkIndex) /\ chunk'["loop"].bytes = bytes
      BY <1>2, <2>1, <2>2, <2>3, <2>4 DEF Procs
    <2>6. TypeOK'
      BY <1>1, <1>2, <1>7, <1>9, <2>1, <2>5 DEF TypeOK
    <2>7. Quiet'
      BY <1>1, <1>7, <1>9, <1>10 DEF Quiet, Flushing, Cutting, Emitting
    <2>8. Boxes'
      BY <1>1 DEF Boxes
    <2>9. Cursors'
      BY <1>1, <1>10 DEF Cursors, Saving
    <2>10. Memory'
      BY <1>1, <1>6, <1>10 DEF Memory, Loading, Cutting, Emitting
    <2>11. Emission'
      BY <1>10, <2>1, <2>5 DEF Emission
    <2>12. Checkpoint'
      BY <1>10 DEF Checkpoint, Saving
    <2>13. Focus'
      BY <1>7, <1>10 DEF Focus, Loading, OnTarget
    <2>14. Ending'
      BY <1>7, <1>10 DEF Ending, Saving
    <2> QED
      BY <2>6, <2>7, <2>8, <2>9, <2>10, <2>11, <2>12, <2>13, <2>14 DEF SyncInv
  <1>11. CASE at' = "savePending"
    <2>1. /\ pending' = b /\ nm' = [nm EXCEPT !["loop"] = name]
          /\ buf' = [buf EXCEPT !["loop"] = <<>>]
          /\ chunk' = [chunk EXCEPT !["loop"] = NoChunk]
          /\ forced => size[name] < Start(chunkIndex)
      BY <1>2, <1>5, <1>11 DEF Flushed, Procs
    <2>2. /\ buf' \in [Procs -> Seq(Byte)] /\ nm' \in [Procs -> Files \cup {None}] /\ nm'["loop"] = name
          /\ chunk' \in [Procs -> [slot : Slots \cup {0}, bytes : Seq(Byte)]]
      BY <1>2, <2>1 DEF Procs, NoChunk
    <2>3. TypeOK'
      BY <1>1, <1>2, <1>6, <1>7, <1>9, <2>1, <2>2 DEF TypeOK
    <2>4. Quiet'
      BY <1>1, <1>7, <1>9, <1>11 DEF Quiet, Flushing
    <2>5. Boxes'
      BY <1>1 DEF Boxes
    <2>6. Cursors'
      BY <1>1, <1>11 DEF Cursors, Saving
    <2>7. Memory'
      BY <1>1, <1>6, <1>11, <2>1 DEF Memory, Loading, Cutting, Emitting
    <2>8. Emission'
      BY <1>11 DEF Emission, Emitting
    <2>9. Checkpoint'
      BY <1>11, <2>2 DEF Checkpoint, Saving
    <2>10. Focus'
      BY <1>7, <1>11 DEF Focus, Loading, OnTarget
    <2>11. Ending'
      BY <1>7, <1>11, <2>1 DEF Ending, Cutting, Emitting
    <2> QED
      BY <2>3, <2>4, <2>5, <2>6, <2>7, <2>8, <2>9, <2>10, <2>11 DEF SyncInv
  <1> QED
    BY <1>8, <1>10, <1>11

-------------------------------------------------------------------------------
(* Every step of the drain loop keeps the invariant *)

(* The conjuncts of the invariant.                                           *)
LEMMA Parts ==
  ASSUME SyncInv
  PROVE  TypeOK /\ Quiet /\ Boxes /\ Cursors /\ Memory /\ Emission /\ Checkpoint /\ Focus /\ Ending
  BY DEF SyncInv

(* A step of the drain loop moves the drain loop alone.                      *)
LEMMA LoopIsAt ==
  ASSUME TypeOK, NEW point, pc' = [pc EXCEPT !["loop"] = point]
  PROVE  /\ at' = point /\ pc'["stop"] = pc["stop"]
         /\ point \in Points => pc' \in [Procs -> Points]
  BY DEF TypeOK, at, Procs

(* A step that moves the drain loop and at most its locals keeps the         *)
(* invariant.                                                                *)
LEMMA WalkKeeps ==
  ASSUME SyncInv, at \in Away \cup OnTarget,
         NEW point \in Away \cup OnTarget, pc' = [pc EXCEPT !["loop"] = point],
         UNCHANGED <<live, size, version, off, ci, pend, base, done, outbox, drive, up, running,
                     name, offset, chunkIndex, pending, part, cut, chunk, crashes, stops, reuses>>,
         UNCHANGED <<then, force, buf, nm>>,
         mode' \in {"live", "closed"}, target' \in Files, limit' \in 0..Unknown, pulled' \in Nat,
         todo' \subseteq Files, retry' \subseteq Files,
         point \in OnTarget => name = target',
         \A f \in todo' : f < live,
         mode' = "closed" => target' < live /\ limit' \in {Unknown, size[target']},
         mode' = "live" /\ point = "load1" => off[target'] <= limit',
         point = "check" => mode' = "live" /\ offset <= limit',
         point \in {"closedEnd", "markDone"} => mode' = "closed",
         point = "markDone" => size[target'] < Start(ci[target'])
  PROVE  SyncInv'
  <1> USE DEF Away, OnTarget, Loading, Emitting, Cutting, Saving, Flushing
  <1>1. TypeOK /\ Quiet /\ Boxes /\ Cursors /\ Memory /\ Emission /\ Checkpoint /\ Focus /\ Ending
    BY Parts
  <1>2. at' = point /\ pc'["stop"] = pc["stop"]
    BY <1>1, LoopIsAt
  <1>3. TypeOK'
    <2>1. pc' \in [Procs -> Points]
      BY <1>1, LoopIsAt DEF Points
    <2> QED
      BY <1>1, <2>1 DEF TypeOK
  <1>4. Quiet'
    BY <1>1, <1>2 DEF Quiet
  <1>5. Boxes'
    BY <1>1 DEF Boxes
  <1>6. Cursors'
    BY <1>1, <1>2 DEF Cursors
  <1>7. Memory'
    BY <1>1, <1>2 DEF Memory
  <1>8. Emission'
    BY <1>2 DEF Emission
  <1>9. Checkpoint'
    BY <1>2 DEF Checkpoint
  <1>10. Focus'
    BY <1>2 DEF Focus
  <1>11. Ending'
    BY <1>2 DEF Ending
  <1> QED
    BY <1>3, <1>4, <1>5, <1>6, <1>7, <1>8, <1>9, <1>10, <1>11 DEF SyncInv

(* Going to the checkpoint at the end of a pass keeps the invariant.         *)
LEMMA SettleKeeps ==
  ASSUME SyncInv, at \in OnTarget,
         NEW next \in {"list", "closedReturn"}, pc' = [pc EXCEPT !["loop"] = "savePending"],
         then' = [then EXCEPT !["loop"] = next], nm' = [nm EXCEPT !["loop"] = name],
         UNCHANGED <<live, size, version, off, ci, pend, base, done, outbox, drive, up, running,
                     name, offset, chunkIndex, pending, part, force, buf, chunk, mode, target, limit,
                     pulled, todo, crashes, stops, reuses>>,
         cut' = [cut EXCEPT !["loop"] = FALSE], retry' \subseteq Files
  PROVE  SyncInv'
  <1> USE DEF OnTarget, Loading, Emitting, Cutting, Saving, Flushing
  <1>1. TypeOK /\ Quiet /\ Boxes /\ Cursors /\ Memory /\ Emission /\ Checkpoint /\ Focus /\ Ending
    BY Parts
  <1>2. at' = "savePending" /\ pc'["stop"] = pc["stop"]
    BY <1>1, LoopIsAt
  <1>3. resume' = next /\ nm'["loop"] = name
    BY <1>1 DEF TypeOK, Procs, resume
  <1>4. name = target /\ name # None
    <2>1. target \in Files /\ None \notin Files
      BY <1>1, SyncAssumption DEF TypeOK
    <2> QED
      BY <1>1, <2>1 DEF Focus
  <1>5. TypeOK'
    <2>1. pc' \in [Procs -> Points] /\ then' \in [Procs -> Points]
      BY <1>1, LoopIsAt DEF TypeOK, Points
    <2>2. cut' \in [Procs -> BOOLEAN] /\ nm' \in [Procs -> Files \cup {None}]
      BY <1>1 DEF TypeOK
    <2> QED
      BY <1>1, <2>1, <2>2 DEF TypeOK
  <1>6. Quiet'
    BY <1>1, <1>2, <1>3 DEF Quiet, Resumes
  <1>7. Boxes'
    BY <1>1 DEF Boxes
  <1>8. Cursors'
    BY <1>1, <1>2 DEF Cursors
  <1>9. Memory'
    BY <1>1, <1>2 DEF Memory
  <1>10. Emission'
    BY <1>2 DEF Emission
  <1>11. Checkpoint'
    BY <1>2, <1>3, <1>4 DEF Checkpoint
  <1>12. Focus'
    BY <1>1, <1>2, <1>3, <1>4 DEF Focus
  <1>13. Ending'
    BY <1>2, <1>3 DEF Ending
  <1> QED
    BY <1>5, <1>6, <1>7, <1>8, <1>9, <1>10, <1>11, <1>12, <1>13 DEF SyncInv

(* _loop begins a run keeps the invariant.                                   *)
LEMMA TopKeeps ==
  ASSUME SyncInv, Top
  PROVE  SyncInv'
  <1> USE DEF device, flash, cursor, memory, locals, bounds, Goto
  <1> USE DEF Away, OnTarget, Loading, Emitting, Cutting, Saving, Flushing
  <1>1. TypeOK /\ Quiet /\ Boxes /\ Cursors /\ Memory /\ Emission /\ Checkpoint /\ Focus /\ Ending
    BY Parts
  <1>2. at = "top" /\ at' = "status" /\ pc'["stop"] = pc["stop"] /\ pc' \in [Procs -> Points]
    <2>1. pc' = [pc EXCEPT !["loop"] = "status"]
      BY <1>1 DEF Top, NextRun, Quiet
    <2> QED
      BY <1>1, <2>1, LoopIsAt DEF Top, at, Points
  <1>3. TypeOK'
    <2>1. "top" \in Points /\ NoChunk \in [slot : Slots \cup {0}, bytes : Seq(Byte)]
      BY DEF Points, NoChunk
    <2>2. then' \in [Procs -> Points] /\ force' \in [Procs -> BOOLEAN] /\ cut' \in [Procs -> BOOLEAN]
      BY <1>1, <2>1 DEF Top, TypeOK
    <2>3. buf' \in [Procs -> Seq(Byte)] /\ nm' \in [Procs -> Files \cup {None}]
      <3>1. buf \in [Procs -> Seq(Byte)] /\ nm \in [Procs -> Files \cup {None}]
        BY <1>1 DEF TypeOK
      <3>2. buf' = [buf EXCEPT !["loop"] = <<>>] /\ nm' = [nm EXCEPT !["loop"] = None]
        BY DEF Top
      <3>3. nm' \in [Procs -> Files \cup {None}]
        BY <3>1, <3>2
      <3>4. <<>> \in Seq(Byte)
        BY EmptySeq
      <3>5. buf' \in [Procs -> Seq(Byte)]
        BY <3>1, <3>2, <3>4
      <3> QED
        BY <3>3, <3>5
    <2>4. chunk' \in [Procs -> [slot : Slots \cup {0}, bytes : Seq(Byte)]]
      <3>1. chunk \in [Procs -> [slot : Slots \cup {0}, bytes : Seq(Byte)]]
        BY <1>1 DEF TypeOK
      <3>2. chunk' = [chunk EXCEPT !["loop"] = NoChunk]
        BY DEF Top
      <3> QED
        BY <2>1, <3>1, <3>2
    <2>5. mode' = "live" /\ target' \in Files /\ limit' \in 0..Unknown /\ pulled' \in Nat /\ todo' \subseteq Files
      BY SyncAssumption, Constants DEF Top, FreshLocals, Files, Unknown
    <2> QED
      BY <1>1, <1>2, <2>2, <2>3, <2>4, <2>5 DEF TypeOK, Top
  <1>4. Quiet'
    BY <1>1, <1>2 DEF Top, Quiet
  <1>5. Boxes'
    BY <1>1 DEF Top, Boxes
  <1>6. Cursors'
    BY <1>1, <1>2 DEF Top, Cursors
  <1>7. Memory'
    BY <1>1, <1>2 DEF Top, Memory
  <1>8. Emission' /\ Checkpoint' /\ Ending'
    BY <1>2 DEF Emission, Checkpoint, Ending
  <1>9. Focus'
    BY <1>2 DEF Focus, Top, FreshLocals
  <1> QED
    BY <1>3, <1>4, <1>5, <1>6, <1>7, <1>8, <1>9 DEF SyncInv

(* Status() timing out keeps the invariant.                                  *)
LEMMA StatusNullKeeps ==
  ASSUME SyncInv, StatusNull
  PROVE  SyncInv'
  <1> USE DEF device, flash, cursor, memory, locals, straight, bounds, Goto
  <1>1. TypeOK /\ Focus
    BY Parts
  <1>2. at \in Away \cup OnTarget /\ pc' = [pc EXCEPT !["loop"] = "list"]
    BY DEF StatusNull, at, Away
  <1> QED
    BY <1>1, <1>2, WalkKeeps DEF StatusNull, TypeOK, Focus, Away, OnTarget

(* An await of the session throwing keeps the invariant.                     *)
LEMMA SessionFailsKeeps ==
  ASSUME SyncInv, SessionFails
  PROVE  SyncInv'
  <1> USE DEF device, flash, cursor, memory, locals, straight, bounds, Goto
  <1>1. TypeOK /\ Focus
    BY Parts
  <1>2. at \in Away \cup OnTarget /\ pc' = [pc EXCEPT !["loop"] = "top"]
    BY DEF SessionFails, at, Away, OnTarget
  <1> QED
    BY <1>1, <1>2, WalkKeeps DEF SessionFails, TypeOK, Focus, Away, OnTarget

(* The comparison of cursor and size keeps the invariant.                    *)
LEMMA CheckKeeps ==
  ASSUME SyncInv, Check
  PROVE  SyncInv'
  <1> USE DEF device, flash, cursor, memory, locals, straight, bounds, Goto
  <1>1. TypeOK /\ Focus
    BY Parts
  <1>2. at = "check" /\ mode = "live" /\ name = target /\ offset <= limit
        /\ offset \in Nat /\ limit \in Nat
    BY <1>1, Constants DEF Check, at, Focus, OnTarget, TypeOK, Unknown
  <1>3. PICK point \in {"list", "fetch"} : pc' = [pc EXCEPT !["loop"] = point]
    <2>1. CASE offset = limit
      <3>1. ~(offset > limit) /\ ~(offset < limit)
        BY <1>2, <2>1
      <3> QED
        BY <2>1, <3>1 DEF Check
    <2>2. CASE offset < limit
      <3>1. ~(offset > limit) /\ offset # limit
        BY <1>2, <2>2
      <3> QED
        BY <2>2, <3>1 DEF Check
    <2> QED
      BY <1>2, <2>1, <2>2
  <1> QED
    BY <1>1, <1>2, <1>3, WalkKeeps DEF Check, TypeOK, Focus, Away, OnTarget

(* Asking for a window keeps the invariant.                                  *)
LEMMA FetchStartKeeps ==
  ASSUME SyncInv, FetchStart
  PROVE  SyncInv'
  <1> USE DEF device, flash, cursor, memory, locals, straight, bounds, Goto
  <1>1. TypeOK /\ Focus
    BY Parts
  <1>2. at = "fetch" /\ name = target /\ pc' = [pc EXCEPT !["loop"] = "window"]
    BY <1>1 DEF FetchStart, at, Focus, OnTarget
  <1> QED
    BY <1>1, <1>2, WalkKeeps DEF FetchStart, TypeOK, Focus, Away, OnTarget

(* A window without bytes keeps the invariant.                               *)
LEMMA FetchEmptyKeeps ==
  ASSUME SyncInv, FetchEmpty
  PROVE  SyncInv'
  <1> USE DEF device, flash, cursor, memory, locals, straight, bounds, Goto
  <1>1. TypeOK /\ Focus
    BY Parts
  <1>2. at = "window" /\ at \in OnTarget /\ name = target
    BY <1>1 DEF FetchEmpty, at, Focus, OnTarget
  <1>3. CASE mode = "live"
    BY <1>1, <1>2, <1>3, SettleKeeps DEF FetchEmpty, TypeOK
  <1>4. CASE mode = "closed"
    <2>1. limit' = size[target] /\ limit' \in 0..Unknown
      BY <1>1, <1>4, Constants DEF FetchEmpty, TypeOK, Unknown
    <2> QED
      BY <1>1, <1>2, <1>4, <2>1, WalkKeeps DEF FetchEmpty, TypeOK, Focus, OnTarget
  <1> QED
    BY <1>1, <1>3, <1>4 DEF TypeOK

(* A window that throws keeps the invariant.                                 *)
LEMMA FetchErrorKeeps ==
  ASSUME SyncInv, FetchError
  PROVE  SyncInv'
  <1> USE DEF device, flash, cursor, memory, locals, straight, bounds, Goto
  <1>1. TypeOK /\ at \in OnTarget
    BY Parts DEF FetchError, at, OnTarget
  <1> QED
    BY <1>1, SettleKeeps DEF FetchError, TypeOK

(* Leaving the window loop keeps the invariant.                              *)
LEMMA FetchStopKeeps ==
  ASSUME SyncInv, FetchStop
  PROVE  SyncInv'
  <1> USE DEF device, flash, cursor, memory, locals, straight, bounds, Goto
  <1>1. TypeOK /\ Focus
    BY Parts
  <1>2. at = "fetch" /\ at \in OnTarget /\ name = target
    BY <1>1 DEF FetchStop, at, Focus, OnTarget
  <1>3. CASE mode = "live"
    BY <1>1, <1>2, <1>3, SettleKeeps DEF FetchStop, TypeOK
  <1>4. CASE mode = "closed"
    BY <1>1, <1>2, <1>4, WalkKeeps DEF FetchStop, TypeOK, Focus, OnTarget
  <1> QED
    BY <1>1, <1>3, <1>4 DEF TypeOK

(* The return of _drainClosedFile keeps the invariant.                       *)
LEMMA ClosedReturnKeeps ==
  ASSUME SyncInv, ClosedReturn
  PROVE  SyncInv'
  <1> USE DEF device, flash, cursor, memory, locals, straight, bounds, Goto
  <1>1. TypeOK /\ Focus
    BY Parts
  <1>2. PICK point \in {"top", "pick"} : pc' = [pc EXCEPT !["loop"] = point]
    BY DEF ClosedReturn
  <1>3. at \in Away
    BY DEF ClosedReturn, at, Away
  <1> QED
    BY <1>1, <1>2, <1>3, WalkKeeps DEF ClosedReturn, TypeOK, Focus, Away, OnTarget

(* Listing the files keeps the invariant.                                    *)
LEMMA ListFilesKeeps ==
  ASSUME SyncInv, ListFiles
  PROVE  SyncInv'
  <1> USE DEF device, flash, cursor, memory, locals, straight, bounds, Goto
  <1>1. TypeOK /\ Focus
    BY Parts
  <1>2. todo' \subseteq Files /\ \A f \in todo' : f < live
    <2>1. live \in Nat /\ live <= NumFiles /\ NumFiles \in Nat /\ todo' = 1..(live - 1)
      BY <1>1, SyncAssumption DEF ListFiles, TypeOK, Files
    <2> QED
      BY <2>1 DEF Files
  <1>3. at \in Away
    BY DEF ListFiles, at, Away
  <1> QED
    BY <1>1, <1>2, <1>3, WalkKeeps DEF ListFiles, TypeOK, Focus, Away, OnTarget

(* The end of a pass over the closed files keeps the invariant.              *)
LEMMA PassOverKeeps ==
  ASSUME SyncInv, PassOver
  PROVE  SyncInv'
  <1> USE DEF device, flash, cursor, memory, locals, straight, bounds, Goto
  <1>1. TypeOK /\ Focus
    BY Parts
  <1>2. at \in Away
    BY DEF PassOver, at, Away
  <1> QED
    BY <1>1, <1>2, WalkKeeps DEF PassOver, TypeOK, Focus, Away, OnTarget

\* Leaving the file in memory, before the cursor of another is loaded.
(* _flushPending before _loadState keeps the invariant.                      *)
LEMMA LeaveKeeps ==
  ASSUME SyncInv, at \in {"status", "pick"}, LeaveFile, name # target',
         mode' = "closed" => target' < live /\ limit' \in {Unknown, size[target']},
         mode' = "live" => off[target'] <= limit',
         todo' \subseteq Files, \A f \in todo' : f < live,
         mode' \in {"live", "closed"}, target' \in Files, limit' \in 0..Unknown, pulled' \in Nat,
         UNCHANGED <<live, size, version, off, ci, pend, base, done, part, outbox, drive, running,
                     name, offset, chunkIndex, retry, up, crashes, stops, reuses>>
  PROVE  SyncInv'
  <1>1. TypeOK /\ Memory
    BY Parts
  <1>2. CASE name = None
    <2>1. pc' = [pc EXCEPT !["loop"] = "load1"] /\ UNCHANGED <<pending, then, force, buf, cut, chunk, nm>>
      BY <1>2 DEF LeaveFile, Goto, straight
    <2>2. at \in Away \cup OnTarget /\ retry' \subseteq Files
      BY <1>1 DEF Away, TypeOK
    <2> QED
      BY <2>1, <2>2, WalkKeeps DEF Away, OnTarget
  <1>3. CASE name # None
    <2>1. /\ offset \in 0..MaxSize /\ pending \in Seq(Byte) /\ retry' \subseteq Files
          /\ Flush("loop", pending, pending, FALSE, FALSE, "load1")
      BY <1>1, <1>3 DEF TypeOK, LeaveFile
    <2>2. at \notin Saving /\ at \notin Loading \cup Cutting
      BY DEF Saving, Loading, Cutting, Emitting
    <2>3. Fits(live, size, name, offset, chunkIndex, pending) /\ offset <= size[name] /\ offset <= offset
      <3>1. name \in Files /\ offset \in off[name]..size[name]
        BY <1>1, <1>3 DEF Memory, TypeOK
      <3>2. off[name] \in Nat /\ size[name] \in Nat
        BY <1>1, <3>1, Constants DEF TypeOK
      <3> QED
        BY <1>1, <1>3, <2>2, <3>1, <3>2 DEF Memory
    <2>4. "load1" \in Resumes /\ FALSE = ("load1" = "markDone") /\ "load1" # "markDone"
      BY DEF Resumes
    <2>5. offset' = offset /\ (name = target' <=> "load1" # "load1")
      OBVIOUS
    <2>6. UNCHANGED <<live, size, version, off, ci, pend, base, done, part, outbox, drive, running,
                      name, chunkIndex, up, crashes, stops, reuses>>
      OBVIOUS
    <2> QED
      BY <1>3, <2>1, <2>2, <2>3, <2>4, <2>5, <2>6, FlushKeeps
  <1> QED
    BY <1>2, <1>3

(* Status() naming the live file keeps the invariant.                        *)
LEMMA StatusKeeps ==
  ASSUME SyncInv, Status
  PROVE  SyncInv'
  <1> USE DEF device, flash, cursor, memory, locals, bounds
  <1>1. TypeOK /\ Cursors /\ Memory /\ Focus
    BY Parts
  <1>2. /\ mode' = "live" /\ target' = live /\ limit' = size[live] /\ pulled' = 0
        /\ live \in Files /\ limit' \in 0..Unknown /\ off[live] <= size[live] /\ size[live] \in Nat
    <2>1. mode' = "live" /\ target' = live /\ limit' = size[live] /\ pulled' = 0
      BY DEF Status
    <2>2. live \in Files /\ size[live] \in 0..MaxSize /\ off[live] \in 0..MaxSize
      BY <1>1 DEF TypeOK
    <2>3. off[live] \in 0..size[live]
      BY <1>1, <2>2 DEF Cursors
    <2>4. off[live] <= size[live] /\ size[live] \in 0..Unknown /\ size[live] \in Nat
      BY <2>2, <2>3, Constants DEF Unknown
    <2> QED
      BY <2>1, <2>2, <2>4
  <1>3. at = "status"
    BY DEF Status, at
  <1>4. CASE name # live
    BY <1>1, <1>2, <1>3, <1>4, LeaveKeeps DEF Status, TypeOK, Focus
  <1>5. CASE name = live
    <2>1. offset <= size[live]
      <3>1. name # None /\ offset \in off[name]..size[name]
        BY <1>1, <1>2, <1>5, SyncAssumption DEF Memory
      <3>2. off[name] \in Nat
        BY <1>1, <1>2, <1>5, Constants DEF TypeOK
      <3> QED
        BY <1>2, <1>5, <3>1, <3>2
    <2>2. pc' = [pc EXCEPT !["loop"] = "check"] /\ UNCHANGED <<pending, then, force, buf, cut, chunk, nm>>
      BY <1>5 DEF Status, Goto, straight
    <2>3. at \in Away \cup OnTarget
      BY <1>3 DEF Away
    <2> QED
      BY <1>1, <1>2, <1>5, <2>1, <2>2, <2>3, WalkKeeps DEF Status, TypeOK, Focus, Away, OnTarget
  <1> QED
    BY <1>4, <1>5

(* Taking up a closed file keeps the invariant.                              *)
LEMMA PickKeeps ==
  ASSUME SyncInv, Pick
  PROVE  SyncInv'
  <1> USE DEF device, flash, cursor, memory, locals, bounds
  <1>1. TypeOK /\ Focus
    BY Parts
  <1>2. PICK f \in todo :
          /\ todo' = todo \ {f}
          /\ mode' = "closed" /\ target' = f /\ limit' = Unknown /\ pulled' = 0
          /\ IF name # f
               THEN LeaveFile
               ELSE Goto("loop", "fetch") /\ UNCHANGED <<pending, straight>>
    BY DEF Pick
  <1>3. /\ f \in Files /\ f < live /\ todo' \subseteq Files /\ Unknown \in 0..Unknown
        /\ \A g \in todo' : g < live
    <2>1. Unknown \in 0..Unknown
      BY Constants DEF Unknown
    <2>2. todo \subseteq Files /\ \A g \in todo : g < live
      BY <1>1 DEF TypeOK, Focus
    <2> QED
      BY <1>2, <2>1, <2>2
  <1>4. at = "pick"
    BY DEF Pick, at
  <1>5. CASE name # f
    BY <1>1, <1>2, <1>3, <1>4, <1>5, LeaveKeeps DEF Pick
  <1>6. CASE name = f
    <2>1. pc' = [pc EXCEPT !["loop"] = "fetch"] /\ UNCHANGED <<pending, then, force, buf, cut, chunk, nm>>
      BY <1>2, <1>6 DEF Goto, straight
    <2>2. at \in Away \cup OnTarget /\ retry' \subseteq Files
      BY <1>1, <1>4 DEF Away, Pick, TypeOK
    <2> QED
      BY <1>2, <1>3, <1>6, <2>1, <2>2, WalkKeeps DEF Pick, Away, OnTarget
  <1> QED
    BY <1>5, <1>6

(* The end of a closed file keeps the invariant.                             *)
LEMMA ClosedEndKeeps ==
  ASSUME SyncInv, ClosedEnd
  PROVE  SyncInv'
  <1> USE DEF device, flash, cursor, memory, locals, bounds
  <1>1. TypeOK /\ Memory /\ Focus /\ Ending
    BY Parts
  <1>2. /\ at = "closedEnd" /\ mode = "closed" /\ name = target /\ name # None
        /\ target \in Files /\ target < live /\ limit \in {Unknown, size[target]}
    <2>1. at = "closedEnd"
      BY DEF ClosedEnd, at
    <2>2. target \in Files /\ None \notin Files
      BY <1>1, SyncAssumption DEF TypeOK
    <2> QED
      BY <1>1, <2>1, <2>2 DEF Focus, Ending, OnTarget
  <1>3. CASE Finished
    <2>1. limit = size[target] /\ offset >= size[target]
      BY <1>2, <1>3 DEF Finished
    <2>2. offset = size[name] /\ offset \in 0..MaxSize
      <3>1. offset \in off[name]..size[name]
        BY <1>1, <1>2 DEF Memory
      <3>2. off[name] \in Nat /\ size[name] \in Nat /\ offset \in Nat
        BY <1>1, <1>2, Constants DEF TypeOK
      <3> QED
        BY <1>1, <1>2, <2>1, <3>1, <3>2 DEF TypeOK
    <2>3. Fits(live, size, name, offset, chunkIndex, pending)
      BY <1>1, <1>2 DEF Memory, Loading, Cutting, Emitting
    <2>4. at \notin Saving /\ "markDone" \in Resumes /\ "markDone" # "load1"
      BY <1>2 DEF Saving, Resumes
    <2>5. /\ Flush("loop", pending, pending, FALSE, TRUE, "markDone")
          /\ pending \in Seq(Byte) /\ offset' = offset /\ offset <= offset /\ offset <= size[name]
          /\ mode' = "closed" /\ limit' = limit /\ target' = target /\ todo' = todo
      <3>1. offset <= offset
        BY <2>2, Constants
      <3> QED
        BY <1>1, <1>2, <1>3, <2>2, <3>1 DEF ClosedEnd, TypeOK
    <2>6. retry' \subseteq Files /\ limit' \in 0..Unknown /\ pulled' \in Nat
      BY <1>1 DEF ClosedEnd, TypeOK
    <2>7. UNCHANGED <<live, size, version, off, ci, pend, base, done, part, outbox, drive, running,
                      name, chunkIndex, up, crashes, stops, reuses>>
      BY DEF ClosedEnd
    <2>8. todo \subseteq Files /\ \A f \in todo : f < live
      BY <1>1 DEF TypeOK, Focus
    <2> QED
      BY <1>2, <2>2, <2>3, <2>4, <2>5, <2>6, <2>7, <2>8, FlushKeeps
  <1>4. CASE ~Finished
    <2>1. /\ pc' = [pc EXCEPT !["loop"] = "closedReturn"]
          /\ UNCHANGED <<pending, then, force, buf, cut, chunk, nm>>
      BY <1>4 DEF ClosedEnd, Goto, straight
    <2>2. at \in Away \cup OnTarget /\ retry' \subseteq Files
      BY <1>1, <1>2 DEF OnTarget, ClosedEnd, TypeOK
    <2> QED
      BY <1>1, <2>1, <2>2, WalkKeeps DEF ClosedEnd, TypeOK, Focus, Away, OnTarget
  <1> QED
    BY <1>3, <1>4

(* Going on with a flush keeps the invariant.                                *)
LEMMA CutNextKeeps ==
  ASSUME SyncInv, CutNext("loop")
  PROVE  SyncInv'
  <1> USE DEF device, flash, cursor, memory, locals, bounds
  <1>1. TypeOK /\ Quiet /\ Memory /\ Checkpoint /\ Focus /\ Ending
    BY Parts
  <1>2. at = "cut" /\ at \in Cutting /\ at \in Flushing /\ at \notin Saving
    BY DEF CutNext, at, Cutting, Flushing, Saving
  <1>3. /\ name # None /\ name \in Files /\ resume \in Resumes /\ (name = target <=> resume # "load1")
        /\ force["loop"] = (resume = "markDone")
        /\ resume = "markDone" => mode = "closed" /\ offset = size[target]
    BY <1>1, <1>2 DEF Quiet, Checkpoint, Focus, Ending, TypeOK
  <1>4. /\ Fits(live, size, name, offset, chunkIndex, buf["loop"])
        /\ offset \in 0..MaxSize /\ offset <= offset /\ offset <= size[name]
    <2>1. offset \in off[name]..size[name]
      BY <1>1, <1>3 DEF Memory
    <2>2. off[name] \in Nat /\ size[name] \in Nat /\ offset \in 0..MaxSize
      BY <1>1, <1>3, Constants DEF TypeOK
    <2> QED
      BY <1>1, <1>2, <1>3, <2>1, <2>2, Constants DEF Memory
  <1>5. /\ Flush("loop", pending, buf["loop"], TRUE, force["loop"], resume)
        /\ pending \in Seq(Byte) /\ force["loop"] \in BOOLEAN
        /\ UNCHANGED <<live, size, version, off, ci, pend, base, done, part, outbox, drive, running,
                       name, chunkIndex, up, crashes, stops, reuses>>
        /\ offset' = offset /\ mode' = mode /\ limit' = limit /\ target' = target /\ todo' = todo
    BY <1>1 DEF CutNext, TypeOK, Procs, resume
  <1>6. /\ todo' \subseteq Files /\ mode' \in {"live", "closed"} /\ target' \in Files /\ limit' \in 0..Unknown
        /\ pulled' \in Nat /\ retry' \subseteq Files
    BY <1>1 DEF CutNext, TypeOK
  <1>7. /\ \A f \in todo : f < live
        /\ mode = "closed" => target < live /\ limit \in {Unknown, size[target]}
        /\ mode = "live" /\ resume = "load1" => off[target] <= limit
    BY <1>1, <1>2 DEF Focus
  <1>8. /\ name = target' <=> resume # "load1"
        /\ resume = "markDone" => mode' = "closed" /\ offset = size[target']
        /\ mode' = "closed" => target' < live /\ limit' \in {Unknown, size[target']}
        /\ mode' = "live" /\ resume = "load1" => off[target'] <= limit'
        /\ \A f \in todo' : f < live
        /\ ~TRUE => pending = buf["loop"]
    BY <1>3, <1>5, <1>7
  <1> DEFINE forced == force["loop"]
             b == buf["loop"]
  <1>9. forced = (resume = "markDone") /\ forced \in BOOLEAN
        /\ Flush("loop", pending, b, TRUE, forced, resume) /\ Fits(live, size, name, offset, chunkIndex, b)
    BY <1>3, <1>4, <1>5
  <1> HIDE DEF forced, b
  <1> QED
    BY <1>2, <1>3, <1>4, <1>5, <1>6, <1>8, <1>9, FlushKeeps

(* A window of bytes keeps the invariant.                                    *)
LEMMA FetchBytesKeeps ==
  ASSUME SyncInv, FetchBytes
  PROVE  SyncInv'
  <1> USE DEF device, flash, cursor, memory, locals, bounds
  <1>1. TypeOK /\ Quiet /\ Memory /\ Checkpoint /\ Focus /\ Ending
    BY Parts
  <1>2. at = "window" /\ name = target /\ name # None /\ name \in Files
    <2>1. at = "window"
      BY DEF FetchBytes, at
    <2>2. target \in Files /\ None \notin Files
      BY <1>1, SyncAssumption DEF TypeOK
    <2> QED
      BY <1>1, <2>1, <2>2 DEF Focus, OnTarget
  <1> DEFINE got(k) == [i \in 1..k |-> <<target, version[target], offset + i>>]
  <1>3. PICK k \in 1..Window :
          /\ offset + k <= size[target]
          /\ offset' = offset + k /\ pulled' = pulled + k
          /\ Flush("loop", pending \o got(k), pending \o got(k), FALSE, FALSE, "fetch")
    BY DEF FetchBytes, Advance
  <1> DEFINE o == offset + k
             more == pending \o got(k)
  <1>4. /\ k \in Nat /\ k > 0 /\ offset \in Nat /\ size[name] \in 0..MaxSize /\ chunkIndex \in Nat
        /\ off[name] \in Nat /\ offset \in off[name]..size[name]
    <2>1. offset \in off[name]..size[name] /\ offset \in 0..MaxSize
      BY <1>1, <1>2 DEF Memory, TypeOK
    <2>2. size[name] \in 0..MaxSize /\ off[name] \in 0..MaxSize /\ chunkIndex \in Nat
      BY <1>1, <1>2 DEF TypeOK
    <2>3. k \in Nat /\ k > 0
      BY SyncAssumption
    <2> QED
      BY <2>1, <2>2, <2>3, Constants
  <1>5. /\ o \in 0..MaxSize /\ offset <= o /\ o <= size[name] /\ offset + k <= MaxSize
        /\ offset < size[name] /\ offset \in 0..MaxSize
    BY <1>2, <1>3, <1>4, Constants
  <1>6. Fits(live, size, name, o, chunkIndex, more)
    <2>1. Fits(live, size, name, offset, chunkIndex, pending)
      BY <1>1, <1>2 DEF Memory, Loading, Cutting, Emitting
    <2>2. Start(chunkIndex) \in Nat /\ Start(chunkIndex) > 0
      BY <1>4, StartIs
    <2>3. /\ pending = Bytes(name, Start(chunkIndex), offset)
          /\ Start(chunkIndex) <= offset + 1
          /\ chunkIndex = 0 \/ Start(chunkIndex - 1) <= offset
      BY <1>4, <1>5, <2>1 DEF Fits
    <2>4. got(k) = [i \in 1..k |-> <<name, 0, offset + i>>]
      BY <1>1, <1>2 DEF Quiet
    <2>5. more = Bytes(name, Start(chunkIndex), offset + k)
      <3> HIDE DEF got
      <3>1. Bytes(name, Start(chunkIndex), offset) \o [i \in 1..k |-> <<name, 0, offset + i>>]
              = Bytes(name, Start(chunkIndex), offset + k)
        <4>1. offset \in 0..MaxSize /\ offset + k <= MaxSize /\ k \in Nat
          BY <1>4, <1>5
        <4> QED
          BY <1>2, <2>2, <2>3, <4>1, MoreBytes
      <3> QED
        BY <2>3, <2>4, <3>1
    <2>6. Start(chunkIndex) <= o + 1
      BY <1>4, <2>2, <2>3
    <2>7. chunkIndex = 0 \/ Start(chunkIndex - 1) <= o
      <3>1. CASE chunkIndex # 0
        <4>1. Start(chunkIndex - 1) \in Nat
          <5>1. chunkIndex - 1 \in Nat
            BY <1>4, <3>1
          <5> QED
            BY <5>1, StartIs
        <4> QED
          BY <1>4, <2>3, <3>1, <4>1
      <3> QED
        BY <3>1
    <2> HIDE DEF more
    <2> QED
      BY <2>5, <2>6, <2>7 DEF Fits
  <1>7. more \in Seq(Byte)
    BY <1>2, <1>4, <1>5, <1>6, FitsTyped
  <1>8. /\ mode' = mode /\ target' = target /\ todo' = todo
        /\ limit' = IF mode = "live" THEN limit ELSE size[target]
        /\ UNCHANGED <<live, size, version, off, ci, pend, base, done, part, outbox, drive, running,
                       name, chunkIndex, up, retry, crashes, stops, reuses>>
    BY DEF FetchBytes
  <1>9. /\ todo' \subseteq Files /\ mode' \in {"live", "closed"} /\ target' \in Files /\ limit' \in 0..Unknown
        /\ pulled' \in Nat /\ retry' \subseteq Files
    <2>1. pulled' \in Nat
      BY <1>1, <1>3, <1>4 DEF TypeOK
    <2>2. limit' \in 0..Unknown
      <3>1. size[target] \in 0..Unknown
        BY <1>2, <1>4, Constants DEF Unknown
      <3> QED
        BY <1>1, <1>8, <3>1 DEF TypeOK
    <2> QED
      BY <1>1, <1>8, <2>1, <2>2 DEF TypeOK
  <1>10. /\ \A f \in todo : f < live
         /\ mode = "closed" => target < live /\ limit' = size[target]
    BY <1>1, <1>8 DEF Focus
  <1>11. at \notin Saving /\ "fetch" \in Resumes /\ "fetch" # "load1" /\ "fetch" # "markDone"
    BY <1>2 DEF Saving, Resumes
  <1>12. Flush("loop", more, more, FALSE, FALSE, "fetch") /\ offset' = o
    BY <1>3
  <1> HIDE DEF o, more, got
  <1> QED
    BY <1>2, <1>5, <1>6, <1>7, <1>8, <1>9, <1>10, <1>11, <1>12, FlushKeeps

(* _loadState reading the preferences keeps the invariant.                   *)
LEMMA LoadCursorKeeps ==
  ASSUME SyncInv, LoadCursor
  PROVE  SyncInv'
  <1> USE DEF device, flash, cursor, locals, straight, bounds, Goto
  <1> USE DEF Away, OnTarget, Loading, Emitting, Cutting, Saving, Flushing
  <1>1. TypeOK /\ Quiet /\ Boxes /\ Cursors /\ Memory /\ Emission /\ Checkpoint /\ Focus /\ Ending
    BY Parts
  <1>2. at = "load1" /\ at' = "load2" /\ pc'["stop"] = pc["stop"] /\ pc' \in [Procs -> Points]
    BY <1>1, LoopIsAt DEF LoadCursor, at, Points
  <1>3. name' = target /\ offset' = off[target] /\ chunkIndex' = ci[target] /\ target \in Files
    BY <1>1 DEF LoadCursor, TypeOK
  <1>4. TypeOK'
    <2>1. offset' \in 0..MaxSize /\ chunkIndex' \in Nat /\ name' \in Files \cup {None}
      BY <1>1, <1>3 DEF TypeOK
    <2> QED
      BY <1>1, <1>2, <2>1 DEF LoadCursor, TypeOK
  <1>5. Quiet'
    BY <1>1, <1>2 DEF LoadCursor, Quiet
  <1>6. Boxes'
    BY <1>1 DEF LoadCursor, Boxes
  <1>7. Cursors'
    BY <1>1, <1>2 DEF LoadCursor, Cursors
  <1>8. Memory'
    <2>1. off[target] \in 0..size[target] /\ ci[target] \in 0..size[target] /\ Kept(outbox, drive, target, ci[target])
      BY <1>1, <1>3 DEF Cursors
    <2>2. size[target] \in Nat
      BY <1>1, <1>3, Constants DEF TypeOK
    <2>3. off[target] \in off[target]..size[target] /\ ci[target] \in ci[target]..size[target]
      BY <2>1, <2>2
    <2> QED
      BY <1>2, <1>3, <2>1, <2>3 DEF LoadCursor, Memory
  <1>9. Emission' /\ Checkpoint' /\ Ending'
    BY <1>2 DEF Emission, Checkpoint, Ending
  <1>10. Focus'
    BY <1>1, <1>2, <1>3 DEF LoadCursor, Focus
  <1> QED
    BY <1>4, <1>5, <1>6, <1>7, <1>8, <1>9, <1>10 DEF SyncInv

(* _loadState clearing _pending keeps the invariant.                         *)
LEMMA ForgetPendingKeeps ==
  ASSUME SyncInv, ForgetPending
  PROVE  SyncInv'
  <1> USE DEF device, flash, cursor, locals, straight, bounds, Goto
  <1> USE DEF Away, OnTarget, Loading, Emitting, Cutting, Saving, Flushing
  <1>1. TypeOK /\ Quiet /\ Boxes /\ Cursors /\ Memory /\ Emission /\ Checkpoint /\ Focus /\ Ending
    BY Parts
  <1>2. at = "load2" /\ at' = "load3" /\ pc'["stop"] = pc["stop"] /\ pc' \in [Procs -> Points]
    BY <1>1, LoopIsAt DEF ForgetPending, at, Points
  <1>3. TypeOK'
    <2>1. pending' \in Seq(Byte)
      BY EmptySeq DEF ForgetPending
    <2> QED
      BY <1>1, <1>2, <2>1 DEF ForgetPending, TypeOK
  <1>4. Quiet'
    BY <1>1, <1>2 DEF ForgetPending, Quiet
  <1>5. Boxes'
    BY <1>1 DEF ForgetPending, Boxes
  <1>6. Cursors'
    BY <1>1, <1>2 DEF ForgetPending, Cursors
  <1>7. Memory'
    BY <1>1, <1>2 DEF ForgetPending, Memory
  <1>8. Emission' /\ Checkpoint' /\ Ending'
    BY <1>2 DEF Emission, Checkpoint, Ending
  <1>9. Focus'
    BY <1>1, <1>2 DEF ForgetPending, Focus
  <1> QED
    BY <1>3, <1>4, <1>5, <1>6, <1>7, <1>8, <1>9 DEF SyncInv

(* _loadState reading the pending file keeps the invariant.                  *)
LEMMA LoadPendingKeeps ==
  ASSUME SyncInv, LoadPending
  PROVE  SyncInv'
  <1> USE DEF device, flash, cursor, locals, straight, bounds, Goto
  <1> USE DEF Away, OnTarget, Loading, Emitting, Cutting, Saving, Flushing
  <1>1. TypeOK /\ Quiet /\ Boxes /\ Cursors /\ Memory /\ Emission /\ Checkpoint /\ Focus /\ Ending
    BY Parts
  <1>2. /\ at = "load3" /\ name = target /\ target \in Files /\ name # None /\ pending = <<>>
        /\ offset = off[name] /\ chunkIndex = ci[name]
    <2>1. at = "load3" /\ target \in Files /\ None \notin Files
      BY <1>1, SyncAssumption DEF LoadPending, at, TypeOK
    <2> QED
      BY <1>1, <2>1 DEF Focus
  <1>3. PICK point \in {"check", "fetch"} :
          pc' = [pc EXCEPT !["loop"] = point] /\ (point = "check" <=> mode = "live")
    BY DEF LoadPending
  <1>4. at' = point /\ pc'["stop"] = pc["stop"] /\ pc' \in [Procs -> Points]
    BY <1>1, <1>3, LoopIsAt DEF Points
  <1>5. pending' = pend[target] /\ pending' \in Seq(Byte)
    <2>1. pend[target] \in Seq(Byte)
      BY <1>1, <1>2 DEF TypeOK
    <2> QED
      BY <1>2, <2>1, ConcatEmptySeq DEF LoadPending
  <1>6. TypeOK'
    BY <1>1, <1>4, <1>5 DEF LoadPending, TypeOK
  <1>7. Quiet'
    BY <1>1, <1>4 DEF LoadPending, Quiet
  <1>8. Boxes'
    BY <1>1 DEF LoadPending, Boxes
  <1>9. Cursors'
    BY <1>1, <1>2, <1>4 DEF LoadPending, Cursors
  <1>10. Memory'
    <2>1. Fits(live, size, name, offset, chunkIndex, pending')
      BY <1>1, <1>2, <1>5 DEF Cursors
    <2> QED
      BY <1>1, <1>4, <2>1 DEF LoadPending, Memory
  <1>11. Emission' /\ Checkpoint' /\ Ending'
    BY <1>4 DEF Emission, Checkpoint, Ending
  <1>12. Focus'
    BY <1>1, <1>2, <1>3, <1>4 DEF LoadPending, Focus
  <1> QED
    BY <1>6, <1>7, <1>8, <1>9, <1>10, <1>11, <1>12 DEF SyncInv

(* Flagging a file done keeps the invariant.                                 *)
LEMMA MarkDoneKeeps ==
  ASSUME SyncInv, MarkDone
  PROVE  SyncInv'
  <1> USE DEF device, flash, cursor, locals, straight, bounds, Goto
  <1> USE DEF Away, OnTarget, Loading, Emitting, Cutting, Saving, Flushing
  <1>1. TypeOK /\ Quiet /\ Boxes /\ Cursors /\ Memory /\ Emission /\ Checkpoint /\ Focus /\ Ending
    BY Parts
  <1>2. at = "markDone" /\ at' = "closedReturn" /\ pc'["stop"] = pc["stop"] /\ pc' \in [Procs -> Points]
    BY <1>1, LoopIsAt DEF MarkDone, at, Points
  <1>3. /\ target \in Files /\ target < live /\ size[target] < Start(ci[target])
        /\ done' = [done EXCEPT ![target] = TRUE] /\ done \in [Files -> BOOLEAN]
    BY <1>1, <1>2 DEF MarkDone, TypeOK, Focus, Ending
  <1>4. TypeOK'
    <2>1. done' \in [Files -> BOOLEAN] /\ retry' \subseteq Files
      BY <1>1, <1>3 DEF MarkDone, TypeOK
    <2> QED
      BY <1>1, <1>2, <2>1 DEF MarkDone, TypeOK
  <1>5. Quiet'
    BY <1>1, <1>2 DEF MarkDone, Quiet
  <1>6. Boxes'
    BY <1>1 DEF MarkDone, Boxes
  <1>7. Cursors'
    BY <1>1, <1>2, <1>3 DEF MarkDone, Cursors
  <1>8. Memory'
    BY <1>1, <1>2 DEF MarkDone, Memory
  <1>9. Emission' /\ Checkpoint' /\ Ending'
    BY <1>2 DEF Emission, Checkpoint, Ending
  <1>10. Focus'
    BY <1>1, <1>2 DEF MarkDone, Focus
  <1> QED
    BY <1>4, <1>5, <1>6, <1>7, <1>8, <1>9, <1>10 DEF SyncInv

-------------------------------------------------------------------------------
(* Every step of a flush and a checkpoint keeps the invariant *)

(* Two chunks have two names.                                                *)
LEMMA SlotsDiffer ==
  ASSUME NEW f \in Files, NEW g \in Files, NEW j \in 0..MaxSize - 1, NEW k \in 0..MaxSize - 1,
         SlotOf(f, j) = SlotOf(g, k)
  PROVE  f = g /\ j = k
  <1>1. 0 \in 0..MaxReuses
    BY SyncAssumption
  <1> QED
    BY <1>1, SlotAssumption DEF SlotOf

(* What is known while a chunk is being written.                             *)
LEMMA Emits ==
  ASSUME SyncInv, at \in Emitting
  PROVE  /\ name \in Files /\ name # None /\ chunkIndex \in 0..MaxSize - 1
         /\ SlotOf(name, chunkIndex) \in Slots
         /\ chunk["loop"].slot = SlotOf(name, chunkIndex)
         /\ chunk["loop"].bytes \in Seq(Byte)
  <1>1. TypeOK /\ Emission /\ Checkpoint
    BY Parts
  <1>2. name \in Files /\ name # None
    BY <1>1 DEF Checkpoint, Flushing, Cutting, TypeOK
  <1>3. chunkIndex \in 0..MaxSize - 1
    <2>1. chunkIndex < size[name] /\ size[name] \in 0..MaxSize /\ chunkIndex \in Nat
      BY <1>1, <1>2 DEF Emission, TypeOK
    <2> QED
      BY <2>1, Constants
  <1>4. chunk["loop"] \in [slot : Slots \cup {0}, bytes : Seq(Byte)]
    BY <1>1 DEF TypeOK, Procs
  <1> QED
    BY <1>1, <1>2, <1>3, <1>4, SlotTyped DEF Emission

(* _emitChunk writing the part file keeps the invariant.                     *)
LEMMA WritePartKeeps ==
  ASSUME SyncInv, WritePart("loop")
  PROVE  SyncInv'
  <1> USE DEF device, cursor, memory, locals, bounds
  <1> USE DEF Away, OnTarget, Loading, Emitting, Cutting, Saving, Flushing
  <1>1. TypeOK /\ Quiet /\ Boxes /\ Cursors /\ Memory /\ Emission /\ Checkpoint /\ Focus /\ Ending
    BY Parts
  <1>2. at = "write" /\ at' = "delete" /\ pc'["stop"] = pc["stop"] /\ pc' \in [Procs -> Points]
    BY <1>1, LoopIsAt DEF WritePart, at, Points
  <1> DEFINE c == chunk["loop"]
             s == SlotOf(name, chunkIndex)
  <1>3. /\ c.slot = s /\ c.bytes \in Seq(Byte) /\ s \in Slots
        /\ part' = [part EXCEPT ![s] = c.bytes] /\ part \in [Slots -> Seq(Byte)]
    BY <1>1, <1>2, Emits DEF WritePart, TypeOK
  <1>4. TypeOK'
    <2>1. part' \in [Slots -> Seq(Byte)]
      <3> HIDE DEF c, s
      <3> QED
        BY <1>3
    <2> QED
      BY <1>1, <1>2, <2>1 DEF WritePart, TypeOK
  <1>5. Quiet'
    BY <1>1, <1>2 DEF WritePart, Quiet, resume
  <1>6. Boxes'
    BY <1>1 DEF WritePart, Boxes
  <1>7. Cursors'
    BY <1>1, <1>2 DEF WritePart, Cursors
  <1>8. Memory'
    BY <1>1, <1>2 DEF WritePart, Memory
  <1>9. Emission'
    BY <1>1, <1>2, <1>3 DEF WritePart, Emission
  <1>10. Checkpoint'
    BY <1>1, <1>2 DEF WritePart, Checkpoint
  <1>11. Focus'
    BY <1>1, <1>2 DEF WritePart, Focus, resume
  <1>12. Ending'
    BY <1>1, <1>2 DEF WritePart, Ending, resume
  <1> QED
    BY <1>4, <1>5, <1>6, <1>7, <1>8, <1>9, <1>10, <1>11, <1>12 DEF SyncInv

(* _emitChunk deleting an older chunk keeps the invariant.                   *)
LEMMA DeleteOldKeeps ==
  ASSUME SyncInv, DeleteOld("loop")
  PROVE  SyncInv'
  <1> USE DEF device, cursor, memory, locals, bounds
  <1> USE DEF Away, OnTarget, Loading, Emitting, Cutting, Saving, Flushing
  <1>1. TypeOK /\ Quiet /\ Boxes /\ Cursors /\ Memory /\ Emission /\ Checkpoint /\ Focus /\ Ending
    BY Parts
  <1>2. at = "delete" /\ at' = "rename" /\ pc'["stop"] = pc["stop"] /\ pc' \in [Procs -> Points]
    BY <1>1, LoopIsAt DEF DeleteOld, at, Points
  <1> DEFINE s == SlotOf(name, chunkIndex)
  <1>3. /\ name \in Files /\ name # None /\ chunkIndex \in 0..MaxSize - 1 /\ s \in Slots
        /\ outbox' = [outbox EXCEPT ![s] = <<>>] /\ outbox \in [Slots -> Seq(Byte)]
    BY <1>1, <1>2, Emits DEF DeleteOld, TypeOK
  <1>4. outbox' \in [Slots -> Seq(Byte)]
    <2>1. <<>> \in Seq(Byte)
      BY EmptySeq
    <2> HIDE DEF s
    <2> QED
      BY <1>3, <2>1
  <1>5. ASSUME NEW f \in Files, NEW k \in 0..MaxSize, Kept(outbox, drive, f, k), f = name => k <= chunkIndex
        PROVE  Kept(outbox', drive, f, k)
    <2>1. ASSUME NEW j \in 0..k - 1
          PROVE  outbox'[SlotOf(f, j)] # <<>> \/ drive[SlotOf(f, j)] # <<>>
      <3>1. j \in 0..MaxSize - 1 /\ (f = name => j # chunkIndex)
        BY <1>3, <1>5, Constants
      <3>2. SlotOf(f, j) # s /\ SlotOf(f, j) \in Slots
        BY <1>3, <3>1, SlotsDiffer, SlotTyped
      <3>3. outbox'[SlotOf(f, j)] = outbox[SlotOf(f, j)]
        BY <1>3, <3>2
      <3> QED
        BY <1>5, <3>3 DEF Kept
    <2> QED
      BY <2>1 DEF Kept
  <1>6. TypeOK'
    BY <1>1, <1>2, <1>4 DEF DeleteOld, TypeOK
  <1>7. Quiet'
    BY <1>1, <1>2 DEF DeleteOld, Quiet, resume
  <1>8. Boxes'
    <2> HIDE DEF s
    <2>1. \A t \in Slots : outbox'[t] # <<>> => outbox[t] # <<>> /\ outbox'[t] = outbox[t]
      BY <1>3
    <2> QED
      BY <1>1, <2>1 DEF DeleteOld, Boxes
  <1>9. chunkIndex \in ci[name]..size[name] /\ Kept(outbox, drive, name, chunkIndex)
    BY <1>1, <1>3 DEF Memory
  <1>10. \A f \in Files : ci[f] \in 0..MaxSize /\ (f = name => ci[f] <= chunkIndex)
    <2> TAKE f \in Files
    <2>1. ci[f] \in 0..size[f] /\ size[f] \in 0..MaxSize
      BY <1>1 DEF Cursors, TypeOK
    <2> QED
      BY <1>3, <1>9, <2>1, Constants
  <1>11. Cursors'
    <2>1. \A f \in Files : Kept(outbox', drive, f, ci[f])
      BY <1>1, <1>5, <1>10 DEF Cursors
    <2> QED
      BY <1>1, <1>2, <2>1 DEF DeleteOld, Cursors
  <1>12. Memory'
    <2>1. Kept(outbox', drive, name, chunkIndex)
      <3>1. chunkIndex \in 0..MaxSize /\ chunkIndex <= chunkIndex
        BY <1>3, Constants
      <3> QED
        BY <1>3, <1>5, <1>9, <3>1
    <2> QED
      BY <1>1, <1>2, <2>1 DEF DeleteOld, Memory
  <1>13. Emission'
    BY <1>1, <1>2, <1>3 DEF DeleteOld, Emission
  <1>14. Checkpoint'
    BY <1>1, <1>2 DEF DeleteOld, Checkpoint
  <1>15. Focus'
    BY <1>1, <1>2 DEF DeleteOld, Focus, resume
  <1>16. Ending'
    BY <1>1, <1>2 DEF DeleteOld, Ending, resume
  <1> QED
    BY <1>6, <1>7, <1>8, <1>11, <1>12, <1>13, <1>14, <1>15, <1>16 DEF SyncInv

(* Chunks are kept when no slot is emptied in both the outbox and the        *)
(* drive.                                                                    *)
LEMMA KeptMore ==
  ASSUME NEW f \in Files, NEW k \in 0..MaxSize, NEW ob, NEW dr, NEW ob2, NEW dr2,
         Kept(ob, dr, f, k),
         \A t \in Slots : ob[t] # <<>> \/ dr[t] # <<>> => ob2[t] # <<>> \/ dr2[t] # <<>>
  PROVE  Kept(ob2, dr2, f, k)
  <1>1. ASSUME NEW j \in 0..k - 1
        PROVE  ob2[SlotOf(f, j)] # <<>> \/ dr2[SlotOf(f, j)] # <<>>
    <2>1. j \in 0..MaxSize - 1
      BY Constants
    <2>2. SlotOf(f, j) \in Slots
      BY <2>1, SlotTyped
    <2> QED
      BY <2>2 DEF Kept
  <1> QED
    BY <1>1 DEF Kept

(* _emitChunk renaming the part file keeps the invariant.                    *)
LEMMA RenamePartKeeps ==
  ASSUME SyncInv, RenamePart("loop")
  PROVE  SyncInv'
  <1> USE DEF device, cursor, memory, locals, bounds
  <1> USE DEF Away, OnTarget, Loading, Emitting, Cutting, Saving, Flushing
  <1>1. TypeOK /\ Quiet /\ Boxes /\ Cursors /\ Memory /\ Emission /\ Checkpoint /\ Focus /\ Ending
    BY Parts
  <1>2. at = "rename" /\ at' = "cut" /\ pc'["stop"] = pc["stop"] /\ pc' \in [Procs -> Points]
    BY <1>1, LoopIsAt DEF RenamePart, at, Points
  <1> DEFINE s == SlotOf(name, chunkIndex)
             b == chunk["loop"].bytes
  <1>3. /\ name \in Files /\ name # None /\ chunkIndex \in 0..MaxSize - 1 /\ s \in Slots
        /\ chunk["loop"].slot = s /\ b \in Seq(Byte)
    BY <1>2, Emits
  <1>4. /\ b # <<>> /\ part[s] = b /\ chunkIndex < size[name]
        /\ IsChunk(live, size, b, name, chunkIndex)
        /\ Fits(live, size, name, offset, chunkIndex + 1, buf["loop"])
    BY <1>1, <1>2 DEF Emission
  <1>5. /\ outbox' = [outbox EXCEPT ![s] = b] /\ part' = [part EXCEPT ![s] = <<>>]
        /\ chunkIndex' = chunkIndex + 1 /\ chunkIndex' \in Nat
        /\ outbox \in [Slots -> Seq(Byte)] /\ part \in [Slots -> Seq(Byte)]
    <2>1. outbox \in [Slots -> Seq(Byte)] /\ part \in [Slots -> Seq(Byte)] /\ chunkIndex \in Nat
      BY <1>1 DEF TypeOK
    <2>2. /\ outbox' = [outbox EXCEPT ![chunk["loop"].slot] = part[chunk["loop"].slot]]
          /\ part' = [part EXCEPT ![chunk["loop"].slot] = <<>>] /\ chunkIndex' = chunkIndex + 1
      BY DEF RenamePart
    <2> HIDE DEF s, b
    <2> QED
      BY <1>3, <1>4, <2>1, <2>2
  <1>6. outbox' \in [Slots -> Seq(Byte)] /\ part' \in [Slots -> Seq(Byte)]
    <2>1. <<>> \in Seq(Byte)
      BY EmptySeq
    <2> HIDE DEF s, b
    <2> QED
      BY <1>3, <1>5, <2>1
  <1>7. /\ outbox'[s] = b
        /\ \A t \in Slots : t # s => outbox'[t] = outbox[t]
        /\ \A t \in Slots : outbox[t] # <<>> \/ drive[t] # <<>> => outbox'[t] # <<>> \/ drive[t] # <<>>
    <2> HIDE DEF s, b
    <2> QED
      BY <1>3, <1>4, <1>5
  <1>8. TypeOK'
    <2>1. chunkIndex' \in Nat
      BY <1>5
    <2> QED
      BY <1>1, <1>2, <1>6, <2>1 DEF RenamePart, TypeOK
  <1>9. Quiet'
    BY <1>1, <1>2 DEF RenamePart, Quiet, resume
  <1>10. Boxes'
    <2>1. ASSUME NEW t \in Slots, outbox'[t] # <<>>
          PROVE  \E f \in Files, k \in 0..MaxSize - 1 :
                   t = SlotOf(f, k) /\ IsChunk(live, size, outbox'[t], f, k)
      <3>1. CASE t = s
        BY <1>3, <1>4, <1>7, <3>1
      <3>2. CASE t # s
        BY <1>1, <1>7, <2>1, <3>2 DEF Boxes
      <3> QED
        BY <3>1, <3>2
    <2> QED
      BY <1>1, <2>1 DEF RenamePart, Boxes
  <1>11. Cursors'
    <2>1. ASSUME NEW f \in Files PROVE Kept(outbox', drive, f, ci[f])
      <3>1. ci[f] \in 0..MaxSize
        <4>1. ci[f] \in 0..size[f] /\ size[f] \in 0..MaxSize
          BY <1>1 DEF Cursors, TypeOK
        <4> QED
          BY <4>1, Constants
      <3> QED
        BY <1>1, <1>7, <3>1, KeptMore DEF Cursors
    <2> QED
      BY <1>1, <1>2, <2>1 DEF RenamePart, Cursors
  <1>12. Memory'
    <2>1. chunkIndex \in ci[name]..size[name] /\ Kept(outbox, drive, name, chunkIndex)
          /\ ci[name] \in Nat /\ size[name] \in Nat
      BY <1>1, <1>3, Constants DEF Memory, TypeOK
    <2>2. chunkIndex + 1 \in ci[name]..size[name]
      BY <1>3, <1>4, <2>1
    <2>3. Kept(outbox', drive, name, chunkIndex + 1)
      <3>1. chunkIndex \in 0..MaxSize
        BY <1>3, Constants
      <3>2. Kept(outbox', drive, name, chunkIndex)
        BY <1>3, <1>7, <2>1, <3>1, KeptMore
      <3>3. \A j \in 0..(chunkIndex + 1) - 1 : j = chunkIndex \/ j \in 0..chunkIndex - 1
        BY <1>3, Constants
      <3> QED
        BY <1>4, <1>7, <3>2, <3>3 DEF Kept
    <2> QED
      BY <1>1, <1>2, <1>4, <1>5, <2>2, <2>3 DEF RenamePart, Memory
  <1>13. Emission'
    BY <1>2 DEF Emission
  <1>14. Checkpoint'
    BY <1>1, <1>2 DEF RenamePart, Checkpoint
  <1>15. Focus'
    BY <1>1, <1>2 DEF RenamePart, Focus, resume
  <1>16. Ending'
    BY <1>1, <1>2 DEF RenamePart, Ending, resume
  <1> QED
    BY <1>8, <1>9, <1>10, <1>11, <1>12, <1>13, <1>14, <1>15, <1>16 DEF SyncInv

(* _persistPending truncating the pending file keeps the invariant.          *)
LEMMA SavePendingKeeps ==
  ASSUME SyncInv, SavePending("loop")
  PROVE  SyncInv'
  <1> USE DEF device, cursor, memory, locals, bounds
  <1> USE DEF Away, OnTarget, Loading, Emitting, Cutting, Saving, Flushing
  <1>1. TypeOK /\ Quiet /\ Boxes /\ Cursors /\ Memory /\ Emission /\ Checkpoint /\ Focus /\ Ending
    BY Parts
  <1>2. /\ at = "savePending" /\ at' \in {"saveOffset", "writePending"} /\ pc'["stop"] = pc["stop"]
        /\ pc' \in [Procs -> Points]
        /\ at' = "saveOffset" => pending = <<>>
        /\ at' = "writePending" => buf' = [buf EXCEPT !["loop"] = pending]
    <2>1. After("loop", "savePending") = "saveOffset"
      BY DEF After, Follow
    <2>2. CASE pending = <<>>
      <3>1. pc' = [pc EXCEPT !["loop"] = "saveOffset"]
        BY <2>1, <2>2 DEF SavePending
      <3> QED
        BY <1>1, <2>2, <3>1, LoopIsAt DEF SavePending, at, Points
    <2>3. CASE pending # <<>>
      <3>1. pc' = [pc EXCEPT !["loop"] = "writePending"] /\ buf' = [buf EXCEPT !["loop"] = pending]
        BY <2>3 DEF SavePending
      <3> QED
        BY <1>1, <3>1, LoopIsAt DEF SavePending, at, Points
    <2> QED
      BY <2>2, <2>3
  <1>3. /\ name \in Files /\ name # None /\ nm["loop"] = name
        /\ pend' = [pend EXCEPT ![name] = <<>>] /\ pend \in [Files -> Seq(Byte)]
        /\ buf \in [Procs -> Seq(Byte)] /\ nm \in [Procs -> Files \cup {None}] /\ pending \in Seq(Byte)
    BY <1>1, <1>2 DEF SavePending, Checkpoint, TypeOK
  <1>4. TypeOK' /\ (at' = "writePending" => buf'["loop"] = pending) /\ nm'["loop"] = name
    <2>1. pend' \in [Files -> Seq(Byte)]
      <3>1. <<>> \in Seq(Byte)
        BY EmptySeq
      <3> QED
        BY <1>3, <3>1
    <2>2. buf' \in [Procs -> Seq(Byte)]
      BY <1>3 DEF SavePending
    <2>3. nm' \in [Procs -> Files \cup {None}] /\ nm'["loop"] = name
      BY <1>3 DEF SavePending, Procs
    <2>4. at' = "writePending" => buf'["loop"] = pending
      BY <1>2, <1>3 DEF Procs
    <2> QED
      BY <1>1, <1>2, <2>1, <2>2, <2>3, <2>4 DEF SavePending, TypeOK
  <1>5. Quiet'
    BY <1>1, <1>2 DEF SavePending, Quiet, resume
  <1>6. Boxes'
    BY <1>1 DEF SavePending, Boxes
  <1>7. Cursors'
    BY <1>1, <1>2, <1>3 DEF SavePending, Cursors
  <1>8. Memory'
    BY <1>1, <1>2 DEF SavePending, Memory
  <1>9. Emission'
    BY <1>2 DEF Emission
  <1>10. Checkpoint'
    BY <1>2, <1>3, <1>4 DEF SavePending, Checkpoint
  <1>11. Focus'
    BY <1>1, <1>2 DEF SavePending, Focus, resume
  <1>12. Ending'
    BY <1>1, <1>2 DEF SavePending, Ending, resume
  <1> QED
    BY <1>4, <1>5, <1>6, <1>7, <1>8, <1>9, <1>10, <1>11, <1>12 DEF SyncInv

(* _persistPending writing the pending file keeps the invariant.             *)
LEMMA WritePendingKeeps ==
  ASSUME SyncInv, WritePending("loop")
  PROVE  SyncInv'
  <1> USE DEF device, cursor, memory, locals, bounds
  <1> USE DEF Away, OnTarget, Loading, Emitting, Cutting, Saving, Flushing
  <1>1. TypeOK /\ Quiet /\ Boxes /\ Cursors /\ Memory /\ Emission /\ Checkpoint /\ Focus /\ Ending
    BY Parts
  <1>2. at = "writePending" /\ at' = "saveOffset" /\ pc'["stop"] = pc["stop"] /\ pc' \in [Procs -> Points]
    <2>1. After("loop", "savePending") = "saveOffset"
      BY DEF After, Follow
    <2> QED
      BY <1>1, <2>1, LoopIsAt DEF WritePending, at, Points
  <1>3. /\ name \in Files /\ name # None /\ nm["loop"] = name
        /\ pend' = [pend EXCEPT ![name] = pending] /\ pend \in [Files -> Seq(Byte)]
        /\ buf \in [Procs -> Seq(Byte)] /\ nm \in [Procs -> Files \cup {None}] /\ pending \in Seq(Byte)
    BY <1>1, <1>2 DEF WritePending, Checkpoint, TypeOK
  <1>4. TypeOK' /\ nm'["loop"] = name /\ pend'[name] = pending
    <2>1. pend' \in [Files -> Seq(Byte)] /\ pend'[name] = pending
      BY <1>3
    <2>2. buf' \in [Procs -> Seq(Byte)]
      <3>1. <<>> \in Seq(Byte)
        BY EmptySeq
      <3>2. buf' = [buf EXCEPT !["loop"] = <<>>]
        BY DEF WritePending
      <3> QED
        BY <1>3, <3>1, <3>2
    <2>3. nm' \in [Procs -> Files \cup {None}] /\ nm'["loop"] = name
      BY <1>3 DEF WritePending, Procs
    <2> QED
      BY <1>1, <1>2, <2>1, <2>2, <2>3 DEF WritePending, TypeOK
  <1>5. Quiet'
    BY <1>1, <1>2 DEF WritePending, Quiet, resume
  <1>6. Boxes'
    BY <1>1 DEF WritePending, Boxes
  <1>7. Cursors'
    BY <1>1, <1>2, <1>3 DEF WritePending, Cursors
  <1>8. Memory'
    BY <1>1, <1>2 DEF WritePending, Memory
  <1>9. Emission'
    BY <1>2 DEF Emission
  <1>10. Checkpoint'
    BY <1>2, <1>3, <1>4 DEF WritePending, Checkpoint
  <1>11. Focus'
    BY <1>1, <1>2 DEF WritePending, Focus, resume
  <1>12. Ending'
    BY <1>1, <1>2 DEF WritePending, Ending, resume
  <1> QED
    BY <1>4, <1>5, <1>6, <1>7, <1>8, <1>9, <1>10, <1>11, <1>12 DEF SyncInv

(* _persistOffset saving the offset keeps the invariant.                     *)
LEMMA SaveOffsetKeeps ==
  ASSUME SyncInv, SaveOffset("loop")
  PROVE  SyncInv'
  <1> USE DEF device, cursor, memory, locals, bounds
  <1> USE DEF Away, OnTarget, Loading, Emitting, Cutting, Saving, Flushing
  <1>1. TypeOK /\ Quiet /\ Boxes /\ Cursors /\ Memory /\ Emission /\ Checkpoint /\ Focus /\ Ending
    BY Parts
  <1>2. at = "saveOffset" /\ at' = "saveIndex" /\ pc'["stop"] = pc["stop"] /\ pc' \in [Procs -> Points]
    BY <1>1, LoopIsAt DEF SaveOffset, at, Points
  <1>3. /\ name \in Files /\ name # None /\ nm["loop"] = name
        /\ off' = [off EXCEPT ![name] = offset] /\ off \in [Files -> 0..MaxSize] /\ offset \in 0..MaxSize
    BY <1>1, <1>2 DEF SaveOffset, Checkpoint, TypeOK
  <1>4. TypeOK' /\ off'[name] = offset
    <2>1. off' \in [Files -> 0..MaxSize] /\ off'[name] = offset
      BY <1>3
    <2> QED
      BY <1>1, <1>2, <2>1 DEF SaveOffset, TypeOK
  <1>5. Quiet'
    BY <1>1, <1>2 DEF SaveOffset, Quiet, resume
  <1>6. Boxes'
    BY <1>1 DEF SaveOffset, Boxes
  <1>7. offset \in 0..size[name] /\ offset \in offset..size[name]
    <2>1. offset \in off[name]..size[name] /\ off[name] \in Nat /\ size[name] \in Nat
      BY <1>1, <1>3, Constants DEF Memory, TypeOK
    <2> QED
      BY <2>1
  <1>8. Cursors'
    BY <1>1, <1>2, <1>3, <1>7 DEF SaveOffset, Cursors
  <1>9. Memory'
    BY <1>1, <1>2, <1>4, <1>7 DEF SaveOffset, Memory
  <1>10. Emission'
    BY <1>2 DEF Emission
  <1>11. Checkpoint'
    BY <1>1, <1>2, <1>4 DEF SaveOffset, Checkpoint
  <1>12. Focus'
    BY <1>1, <1>2, <1>3 DEF SaveOffset, Focus, resume
  <1>13. Ending'
    BY <1>1, <1>2 DEF SaveOffset, Ending, resume
  <1> QED
    BY <1>4, <1>5, <1>6, <1>8, <1>9, <1>10, <1>11, <1>12, <1>13 DEF SyncInv

(* _persistOffset saving the chunk number keeps the invariant.               *)
LEMMA SaveIndexKeeps ==
  ASSUME SyncInv, SaveIndex("loop")
  PROVE  SyncInv'
  <1> USE DEF device, cursor, memory, locals, bounds
  <1> USE DEF Away, OnTarget, Loading, Emitting, Cutting, Saving, Flushing
  <1>1. TypeOK /\ Quiet /\ Boxes /\ Cursors /\ Memory /\ Emission /\ Checkpoint /\ Focus /\ Ending
    BY Parts
  <1>2. /\ at = "saveIndex" /\ at' = resume /\ pc'["stop"] = pc["stop"] /\ pc' \in [Procs -> Points]
        /\ resume \in Resumes
    <2>1. After("loop", "saveIndex") = resume
      BY DEF After, Follow, resume
    <2>2. at = "saveIndex"
      BY DEF SaveIndex, at
    <2>3. resume \in Resumes
      BY <1>1, <2>2 DEF Quiet
    <2>4. pc' = [pc EXCEPT !["loop"] = resume]
      BY <2>1 DEF SaveIndex
    <2> HIDE DEF Away, OnTarget, Loading, Emitting, Cutting, Saving, Flushing
    <2> QED
      BY <1>1, <2>2, <2>3, <2>4, LoopIsAt DEF Points, Resumes
  <1>3. /\ name \in Files /\ name # None /\ nm["loop"] = name
        /\ ci' = [ci EXCEPT ![name] = chunkIndex] /\ ci \in [Files -> Nat] /\ chunkIndex \in Nat
        /\ nm \in [Procs -> Files \cup {None}] /\ nm' = [nm EXCEPT !["loop"] = name]
    BY <1>1, <1>2 DEF SaveIndex, Checkpoint, TypeOK
  <1>4. TypeOK' /\ ci'[name] = chunkIndex
    <2>1. ci' \in [Files -> Nat] /\ ci'[name] = chunkIndex
      BY <1>3
    <2>2. nm' \in [Procs -> Files \cup {None}]
      BY <1>3
    <2> QED
      BY <1>1, <1>2, <2>1, <2>2 DEF SaveIndex, TypeOK
  <1>5. Quiet'
    BY <1>1, <1>2 DEF SaveIndex, Quiet, Resumes
  <1>6. Boxes'
    BY <1>1 DEF SaveIndex, Boxes
  <1>7. chunkIndex \in 0..size[name] /\ chunkIndex \in chunkIndex..size[name] /\ ci[name] <= chunkIndex
    <2>1. chunkIndex \in ci[name]..size[name] /\ ci[name] \in Nat /\ size[name] \in Nat
      BY <1>1, <1>3, Constants DEF Memory, TypeOK
    <2> QED
      BY <2>1
  <1>8. Fits(live, size, name, off[name], chunkIndex, pend[name]) /\ Kept(outbox, drive, name, chunkIndex)
    BY <1>1, <1>2, <1>3 DEF Memory, Checkpoint
  <1>9. done[name] => name < live /\ size[name] < Start(chunkIndex)
    <2>1. Start(ci[name]) <= Start(chunkIndex) /\ Start(ci[name]) \in Nat /\ Start(chunkIndex) \in Nat
      BY <1>3, <1>7, StartGrows
    <2>2. size[name] \in Nat
      BY <1>1, <1>3, Constants DEF TypeOK
    <2>3. done[name] => name < live /\ size[name] < Start(ci[name])
      BY <1>1, <1>3 DEF Cursors
    <2> QED
      BY <2>1, <2>2, <2>3
  <1>10. Cursors'
    <2>1. ASSUME NEW f \in Files, f # name
          PROVE  /\ off[f] \in 0..size[f] /\ ci'[f] \in 0..size[f]
                 /\ Kept(outbox, drive, f, ci'[f])
                 /\ done[f] => f < live /\ size[f] < Start(ci'[f])
                 /\ Fits(live, size, f, off[f], ci'[f], pend[f])
      BY <1>1, <1>3, <2>1 DEF Cursors
    <2>2. off[name] \in 0..size[name]
      BY <1>1, <1>3 DEF Cursors
    <2> QED
      BY <1>4, <1>7, <1>8, <1>9, <2>1, <2>2 DEF SaveIndex, Cursors
  <1>11. Memory'
    BY <1>1, <1>2, <1>4, <1>7 DEF SaveIndex, Memory, Resumes
  <1>12. Emission' /\ Checkpoint'
    BY <1>2 DEF Emission, Checkpoint, Resumes
  <1>13. Focus'
    BY <1>1, <1>2 DEF SaveIndex, Focus, Resumes
  <1>14. Ending'
    BY <1>1, <1>2, <1>4 DEF SaveIndex, Ending, Focus, Resumes
  <1> QED
    BY <1>4, <1>5, <1>6, <1>10, <1>11, <1>12, <1>13, <1>14 DEF SyncInv

-------------------------------------------------------------------------------
(* The device, the retry times, the upload loop and the death of the process *)

(* Chunks and cursors stay what they are when the live file grows or is      *)
(* closed.                                                                   *)
LEMMA GrowthKeeps ==
  ASSUME NEW l \in Nat, NEW l2 \in Nat, l <= l2, NEW f \in Files,
         NEW sz \in [Files -> 0..MaxSize], NEW sz2 \in [Files -> 0..MaxSize],
         sz[f] <= sz2[f], f < l => sz2[f] = sz[f]
  PROVE  /\ \A b : \A k \in Nat : IsChunk(l, sz, b, f, k) => IsChunk(l2, sz2, b, f, k)
         /\ \A o, k, b : Fits(l, sz, f, o, k, b) => Fits(l2, sz2, f, o, k, b)
  <1>1. sz[f] \in Nat /\ sz2[f] \in Nat /\ f \in Nat
    BY Constants DEF Files
  <1>2. ASSUME NEW b, NEW k \in Nat, IsChunk(l, sz, b, f, k)
        PROVE  IsChunk(l2, sz2, b, f, k)
    <2>1. Start(k) \in Nat /\ Start(k + 1) \in Nat
      BY StartIs
    <2>2. Start(k) <= sz2[f]
      BY <1>1, <1>2, <2>1 DEF IsChunk
    <2>3. CASE Start(k + 1) <= sz[f] + 1 /\ b = Bytes(f, Start(k), Start(k + 1) - 1)
      <3>1. Start(k + 1) <= sz2[f] + 1
        BY <1>1, <2>1, <2>3
      <3> QED
        BY <2>2, <2>3, <3>1 DEF IsChunk
    <2>4. CASE f < l /\ sz[f] + 1 < Start(k + 1) /\ b = Bytes(f, Start(k), sz[f])
      <3>1. f < l2
        BY <1>1, <2>4
      <3> QED
        BY <2>2, <2>4, <3>1 DEF IsChunk
    <2> QED
      BY <1>2, <2>3, <2>4 DEF IsChunk
  <1>3. ASSUME NEW o, NEW k, NEW b, Fits(l, sz, f, o, k, b)
        PROVE  Fits(l2, sz2, f, o, k, b)
    <2>1. f < l => f < l2
      BY <1>1
    <2> QED
      BY <1>3, <2>1 DEF Fits
  <1> QED
    BY <1>2, <1>3

(* The recorder goes on recording: sizes of live files grow, closed files    *)
(* stay as they are.                                                         *)
LEMMA DeviceKeeps ==
  ASSUME SyncInv, live' \in Files, live <= live',
         size' \in [Files -> 0..MaxSize],
         \A f \in Files : size[f] <= size'[f] /\ (f < live => size'[f] = size[f]),
         UNCHANGED <<version, flash, drive, memory, locals, control, up, bounds>>
  PROVE  SyncInv'
  <1> USE DEF flash, cursor, memory, locals, control, bounds
  <1> USE DEF Away, OnTarget, Loading, Emitting, Cutting, Saving, Flushing
  <1>1. TypeOK /\ Quiet /\ Boxes /\ Cursors /\ Memory /\ Emission /\ Checkpoint /\ Focus /\ Ending
    BY Parts
  <1>2. /\ live \in Nat /\ live' \in Nat
        /\ size \in [Files -> 0..MaxSize]
        /\ \A f \in Files : f \in Nat /\ size[f] \in Nat /\ size'[f] \in Nat
        /\ at' = at /\ resume' = resume
    <2>1. live \in Files /\ size \in [Files -> 0..MaxSize] /\ \A f \in Files : f \in Nat
      BY <1>1 DEF TypeOK, Files
    <2>2. \A f \in Files : size[f] \in Nat /\ size'[f] \in Nat
      BY <2>1, Constants
    <2>3. at' = at /\ resume' = resume
      BY DEF at, resume
    <2> QED
      BY <2>1, <2>2, <2>3
  <1>3. \A f \in Files :
          /\ \A b : \A k \in Nat : IsChunk(live, size, b, f, k) => IsChunk(live', size', b, f, k)
          /\ \A o, k, b : Fits(live, size, f, o, k, b) => Fits(live', size', f, o, k, b)
    BY <1>2, GrowthKeeps
  <1>4. \A f \in Files : f < live => f < live' /\ size'[f] = size[f]
    BY <1>2
  <1>5. TypeOK'
    BY <1>1 DEF TypeOK
  <1>6. Quiet'
    BY <1>1, <1>2 DEF Quiet
  <1>7. Boxes'
    <2>1. ASSUME NEW b, NEW s, \E f \in Files, k \in 0..MaxSize - 1 :
                                  s = SlotOf(f, k) /\ IsChunk(live, size, b, f, k)
          PROVE  \E f \in Files, k \in 0..MaxSize - 1 :
                   s = SlotOf(f, k) /\ IsChunk(live', size', b, f, k)
      <3>1. PICK f \in Files, k \in 0..MaxSize - 1 :
              s = SlotOf(f, k) /\ IsChunk(live, size, b, f, k)
        BY <2>1
      <3>2. k \in Nat
        BY Constants
      <3> QED
        BY <1>3, <3>1, <3>2
    <2> QED
      BY <1>1, <2>1 DEF Boxes
  <1>8. Cursors'
    <2>1. ASSUME NEW f \in Files
          PROVE  off[f] \in 0..size'[f] /\ ci[f] \in 0..size'[f]
      BY <1>1, <1>2 DEF Cursors
    <2> QED
      BY <1>1, <1>2, <1>3, <1>4, <2>1 DEF Cursors
  <1>9. ASSUME name # None
        PROVE  name \in Files /\ offset \in off[name]..size'[name] /\ chunkIndex \in ci[name]..size'[name]
    <2>1. name \in Files /\ off[name] \in Nat /\ ci[name] \in Nat
      BY <1>1, <1>9, Constants DEF TypeOK
    <2> QED
      BY <1>1, <1>2, <1>9, <2>1 DEF Memory
  <1>10. Memory'
    BY <1>1, <1>2, <1>3, <1>9 DEF Memory
  <1>11. Emission'
    <2> SUFFICES ASSUME at \in Emitting PROVE Emission'
      BY <1>2 DEF Emission
    <2>1. name \in Files /\ chunkIndex \in Nat /\ chunkIndex < size'[name]
      <3>1. name \in Files /\ chunkIndex \in Nat
        BY <1>1, Emits, Constants DEF TypeOK
      <3>2. chunkIndex < size[name]
        BY <1>1 DEF Emission
      <3> QED
        BY <1>2, <3>1, <3>2
    <2>2. /\ chunk["loop"].slot = SlotOf(name, chunkIndex) /\ chunk["loop"].bytes # <<>>
          /\ IsChunk(live', size', chunk["loop"].bytes, name, chunkIndex)
          /\ Fits(live', size', name, offset, chunkIndex + 1, buf["loop"])
          /\ at # "write" => part[SlotOf(name, chunkIndex)] = chunk["loop"].bytes
      BY <1>1, <1>3, <2>1 DEF Emission
    <2> QED
      BY <1>2, <2>1, <2>2 DEF Emission
  <1>12. Checkpoint'
    BY <1>1, <1>2 DEF Checkpoint
  <1>13. target \in Files
    BY <1>1 DEF TypeOK
  <1>14. Focus'
    BY <1>1, <1>2, <1>4, <1>13 DEF Focus, TypeOK
  <1>15. Ending'
    <2>1. mode = "closed" => size'[target] = size[target]
      BY <1>1, <1>4, <1>13 DEF Focus
    <2> QED
      BY <1>1, <1>2, <2>1 DEF Ending
  <1> QED
    BY <1>5, <1>6, <1>7, <1>8, <1>10, <1>11, <1>12, <1>14, <1>15 DEF SyncInv

(* A growing recording keeps the invariant.                                  *)
LEMMA GrowKeeps ==
  ASSUME SyncInv, Grow
  PROVE  SyncInv'
  <1>1. TypeOK
    BY Parts
  <1>2. PICK n \in Sizes : n > size[live] /\ size' = [size EXCEPT ![live] = n]
    BY DEF Grow
  <1>3. /\ live \in Files /\ size \in [Files -> 0..MaxSize] /\ n \in 0..MaxSize
        /\ \A f \in Files : f \in Nat /\ size[f] \in Nat
        /\ n \in Nat
    <2>1. live \in Files /\ size \in [Files -> 0..MaxSize] /\ n \in 0..MaxSize
      BY <1>1, SyncAssumption DEF TypeOK
    <2>2. \A f \in Files : f \in Nat
      BY DEF Files
    <2> QED
      BY <2>1, <2>2, Constants
  <1>4. size' \in [Files -> 0..MaxSize]
    BY <1>2, <1>3
  <1>5. ASSUME NEW f \in Files
        PROVE  size[f] <= size'[f] /\ (f < live => size'[f] = size[f])
    <2>1. CASE f = live
      BY <1>2, <1>3, <2>1
    <2>2. CASE f # live
      BY <1>2, <1>3, <2>2
    <2> QED
      BY <2>1, <2>2
  <1>6. live' \in Files /\ live <= live'
    BY <1>3 DEF Grow
  <1>7. UNCHANGED <<version, flash, drive, memory, locals, control, up, bounds>>
    BY DEF Grow
  <1> QED
    BY <1>4, <1>5, <1>6, <1>7, DeviceKeeps

(* The next recording keeps the invariant.                                   *)
LEMMA RotateKeeps ==
  ASSUME SyncInv, Rotate
  PROVE  SyncInv'
  <1>1. TypeOK
    BY Parts
  <1>2. /\ live \in Files /\ live' \in Files /\ live <= live' /\ size' = size
        /\ size \in [Files -> 0..MaxSize]
    <2>1. live \in Files /\ size \in [Files -> 0..MaxSize] /\ NumFiles \in Nat
      BY <1>1, SyncAssumption DEF TypeOK
    <2>2. size' = size /\ live < NumFiles /\ live' = live + 1
      BY DEF Rotate
    <2> QED
      BY <2>1, <2>2 DEF Files
  <1>3. \A f \in Files : size[f] \in Nat /\ size[f] <= size[f]
    BY <1>2, Constants
  <1>4. UNCHANGED <<version, flash, drive, memory, locals, control, up, bounds>>
    BY DEF Rotate
  <1> QED
    BY <1>2, <1>3, <1>4, DeviceKeeps

(* A retry time that comes keeps the invariant.                              *)
LEMMA RetryDueKeeps ==
  ASSUME SyncInv, NEW f \in Files, RetryDue(f)
  PROVE  SyncInv'
  <1> USE DEF device, flash, cursor, locals, control, bounds, at, resume
  <1>1. TypeOK /\ Quiet /\ Boxes /\ Cursors /\ Memory /\ Emission /\ Checkpoint /\ Focus /\ Ending
    BY Parts
  <1>2. TypeOK'
    BY <1>1 DEF RetryDue, TypeOK
  <1>3. Quiet' /\ Boxes' /\ Cursors'
    BY <1>1 DEF RetryDue, Quiet, Boxes, Cursors
  <1>4. Memory' /\ Emission' /\ Checkpoint'
    BY <1>1 DEF RetryDue, Memory, Emission, Checkpoint
  <1>5. Focus' /\ Ending'
    BY <1>1 DEF RetryDue, Focus, Ending
  <1> QED
    BY <1>2, <1>3, <1>4, <1>5 DEF SyncInv

(* An upload keeps the invariant.                                            *)
LEMMA UploadKeeps ==
  ASSUME SyncInv, NEW s \in Slots, Upload(s)
  PROVE  SyncInv'
  <1> USE DEF device, flash, cursor, memory, locals, control, bounds, at, resume
  <1>1. TypeOK /\ Quiet /\ Boxes /\ Cursors /\ Memory /\ Emission /\ Checkpoint /\ Focus /\ Ending
    BY Parts
  <1>2. /\ outbox \in [Slots -> Seq(Byte)] /\ drive \in [Slots -> Seq(Byte)] /\ outbox[s] # <<>>
        /\ up' = s
    BY <1>1 DEF Upload, TypeOK
  <1>3. /\ drive' \in [Slots -> Seq(Byte)]
        /\ \A t \in Slots : t # s => drive'[t] = drive[t]
        /\ drive'[s] \in {drive[s], outbox[s]}
        /\ drive'[s] # <<>>
    <2>1. CASE Len(drive[s]) = Len(outbox[s])
      <3>1. drive' = drive
        BY <2>1 DEF Upload
      <3>2. outbox[s] \in Seq(Byte) /\ drive[s] \in Seq(Byte)
        BY <1>2
      <3>3. Len(outbox[s]) # 0 /\ Len(<<>>) = 0
        BY <1>2, <3>2, EmptySeq
      <3>4. drive[s] # <<>>
        BY <2>1, <3>3
      <3> QED
        BY <1>2, <3>1, <3>4
    <2>2. CASE Len(drive[s]) # Len(outbox[s])
      <3>1. drive' = [drive EXCEPT ![s] = outbox[s]]
        BY <2>2 DEF Upload
      <3> QED
        BY <1>2, <3>1
    <2> QED
      BY <2>1, <2>2
  <1>4. \A t \in Slots : outbox[t] # <<>> \/ drive[t] # <<>> => outbox[t] # <<>> \/ drive'[t] # <<>>
    BY <1>3
  <1>5. \A f \in Files, k \in 0..MaxSize : Kept(outbox, drive, f, k) => Kept(outbox, drive', f, k)
    BY <1>4, KeptMore
  <1>6. TypeOK'
    BY <1>1, <1>2, <1>3 DEF Upload, TypeOK
  <1>7. Quiet'
    BY <1>1 DEF Upload, Quiet
  <1>8. Boxes'
    <2>1. ASSUME NEW t \in Slots, drive'[t] # <<>>
          PROVE  \E f \in Files, k \in 0..MaxSize - 1 :
                   t = SlotOf(f, k) /\ IsChunk(live, size, drive'[t], f, k)
      <3>1. CASE drive'[t] = drive[t]
        BY <1>1, <2>1, <3>1 DEF Boxes
      <3>2. CASE drive'[t] = outbox[t]
        BY <1>1, <2>1, <3>2 DEF Boxes
      <3> QED
        BY <1>3, <3>1, <3>2
    <2> QED
      BY <1>1, <1>2, <1>3, <2>1 DEF Upload, Boxes
  <1>9. \A f \in Files : ci[f] \in 0..MaxSize
    <2> TAKE f \in Files
    <2>1. ci[f] \in 0..size[f] /\ size[f] \in 0..MaxSize
      BY <1>1 DEF Cursors, TypeOK
    <2> QED
      BY <2>1, Constants
  <1>10. Cursors'
    BY <1>1, <1>5, <1>9 DEF Upload, Cursors
  <1>11. Memory'
    <2>1. name # None => name \in Files /\ chunkIndex \in 0..MaxSize
      <3> SUFFICES ASSUME name # None PROVE name \in Files /\ chunkIndex \in 0..MaxSize
        OBVIOUS
      <3>1. name \in Files /\ chunkIndex \in Nat /\ size[name] \in 0..MaxSize
        BY <1>1 DEF TypeOK
      <3>2. chunkIndex \in ci[name]..size[name]
        BY <1>1 DEF Memory
      <3>3. ci[name] \in 0..MaxSize
        BY <1>9, <3>1
      <3> QED
        BY <3>1, <3>2, <3>3, Constants
    <2> QED
      BY <1>1, <1>5, <2>1 DEF Upload, Memory
  <1>12. Emission' /\ Checkpoint'
    BY <1>1 DEF Upload, Emission, Checkpoint
  <1>13. Focus' /\ Ending'
    BY <1>1 DEF Upload, Focus, Ending
  <1> QED
    BY <1>6, <1>7, <1>8, <1>10, <1>11, <1>12, <1>13 DEF SyncInv

(* Deleting an uploaded chunk keeps the invariant.                           *)
LEMMA DeleteUploadedKeeps ==
  ASSUME SyncInv, DeleteUploaded
  PROVE  SyncInv'
  <1> USE DEF device, cursor, memory, locals, control, bounds, at, resume
  <1>1. TypeOK /\ Quiet /\ Boxes /\ Cursors /\ Memory /\ Emission /\ Checkpoint /\ Focus /\ Ending
    BY Parts
  <1>2. /\ up \in Slots /\ drive[up] # <<>> /\ outbox \in [Slots -> Seq(Byte)]
        /\ outbox' = [outbox EXCEPT ![up] = <<>>] /\ up' = None
    BY <1>1 DEF DeleteUploaded, Boxes, TypeOK
  <1>3. outbox' \in [Slots -> Seq(Byte)]
    <2>1. <<>> \in Seq(Byte)
      BY EmptySeq
    <2> QED
      BY <1>2, <2>1
  <1>4. /\ \A t \in Slots : outbox'[t] # <<>> => outbox'[t] = outbox[t] /\ outbox[t] # <<>>
        /\ \A t \in Slots : outbox[t] # <<>> \/ drive[t] # <<>> => outbox'[t] # <<>> \/ drive[t] # <<>>
    BY <1>2
  <1>5. \A f \in Files, k \in 0..MaxSize : Kept(outbox, drive, f, k) => Kept(outbox', drive, f, k)
    BY <1>4, KeptMore
  <1>6. TypeOK'
    BY <1>1, <1>2, <1>3 DEF DeleteUploaded, TypeOK
  <1>7. Quiet'
    BY <1>1 DEF DeleteUploaded, Quiet
  <1>8. Boxes'
    BY <1>1, <1>2, <1>4 DEF DeleteUploaded, Boxes
  <1>9. \A f \in Files : ci[f] \in 0..MaxSize
    <2> TAKE f \in Files
    <2>1. ci[f] \in 0..size[f] /\ size[f] \in 0..MaxSize
      BY <1>1 DEF Cursors, TypeOK
    <2> QED
      BY <2>1, Constants
  <1>10. Cursors'
    BY <1>1, <1>5, <1>9 DEF DeleteUploaded, Cursors
  <1>11. Memory'
    <2>1. name # None => name \in Files /\ chunkIndex \in 0..MaxSize
      <3> SUFFICES ASSUME name # None PROVE name \in Files /\ chunkIndex \in 0..MaxSize
        OBVIOUS
      <3>1. name \in Files /\ chunkIndex \in Nat /\ size[name] \in 0..MaxSize
        BY <1>1 DEF TypeOK
      <3>2. chunkIndex \in ci[name]..size[name]
        BY <1>1 DEF Memory
      <3>3. ci[name] \in 0..MaxSize
        BY <1>9, <3>1
      <3> QED
        BY <3>1, <3>2, <3>3, Constants
    <2> QED
      BY <1>1, <1>5, <2>1 DEF DeleteUploaded, Memory
  <1>12. Emission' /\ Checkpoint'
    BY <1>1 DEF DeleteUploaded, Emission, Checkpoint
  <1>13. Focus' /\ Ending'
    BY <1>1 DEF DeleteUploaded, Focus, Ending
  <1> QED
    BY <1>6, <1>7, <1>8, <1>10, <1>11, <1>12, <1>13 DEF SyncInv

(* The memory of a new process.                                              *)
LEMMA FreshTyped ==
  ASSUME FreshMemory
  PROVE  /\ running' \in BOOLEAN /\ name' \in Files \cup {None}
         /\ offset' \in 0..MaxSize /\ chunkIndex' \in Nat
         /\ pending' \in Seq(Byte) /\ retry' \subseteq Files
         /\ mode' \in {"live", "closed"} /\ target' \in Files
         /\ limit' \in 0..Unknown /\ pulled' \in Nat /\ todo' \subseteq Files
         /\ {pc, then}' \subseteq [Procs -> Points]
         /\ {force, cut}' \subseteq [Procs -> BOOLEAN]
         /\ buf' \in [Procs -> Seq(Byte)]
         /\ chunk' \in [Procs -> [slot : Slots \cup {0}, bytes : Seq(Byte)]]
         /\ nm' \in [Procs -> Files \cup {None}]
         /\ up' \in Slots \cup {None}
         /\ at' = "top" /\ pc'["stop"] = "ready"
  <1>1. 1 \in Files /\ 0 \in 0..MaxSize /\ 0 \in 0..Unknown
    BY SyncAssumption, Constants DEF Files, Unknown
  <1>2. <<>> \in Seq(Byte)
    BY EmptySeq
  <1>3. NoChunk \in [slot : Slots \cup {0}, bytes : Seq(Byte)]
    BY <1>2 DEF NoChunk
  <1>4. /\ mode' \in {"live", "closed"} /\ target' \in Files
        /\ limit' \in 0..Unknown /\ pulled' \in Nat /\ todo' \subseteq Files
    BY <1>1 DEF FreshMemory, FreshLocals
  <1>5. /\ running' \in BOOLEAN /\ name' \in Files \cup {None}
        /\ offset' \in 0..MaxSize /\ chunkIndex' \in Nat
        /\ pending' \in Seq(Byte) /\ retry' \subseteq Files /\ up' \in Slots \cup {None}
    BY <1>1, <1>2 DEF FreshMemory
  <1>6. pc' \in [Procs -> Points] /\ then' \in [Procs -> Points]
        /\ at' = "top" /\ pc'["stop"] = "ready"
    BY DEF FreshMemory, Points, Procs, at
  <1>7. force' \in [Procs -> BOOLEAN] /\ cut' \in [Procs -> BOOLEAN]
    BY DEF FreshMemory
  <1>8. buf' \in [Procs -> Seq(Byte)]
    BY <1>2 DEF FreshMemory
  <1>9. chunk' \in [Procs -> [slot : Slots \cup {0}, bytes : Seq(Byte)]]
    BY <1>3 DEF FreshMemory
  <1>10. nm' \in [Procs -> Files \cup {None}]
    BY DEF FreshMemory
  <1> QED
    BY <1>4, <1>5, <1>6, <1>7, <1>8, <1>9, <1>10

(* The death of the process keeps the invariant.                             *)
LEMMA CrashKeeps ==
  ASSUME Checkpointed, SyncInv, Crash
  PROVE  SyncInv'
  <1> USE DEF device, flash, cursor, bounds
  <1> USE DEF Away, OnTarget, Loading, Emitting, Cutting, Saving, Flushing
  <1>1. TypeOK /\ Quiet /\ Boxes /\ Cursors
    BY Parts
  <1>2. FreshMemory
    BY DEF Crash
  <1>3. at' = "top" /\ pc'["stop"] = "ready" /\ name' = None
    BY <1>2, FreshTyped DEF FreshMemory
  <1>4. at \notin Saving
    BY DEF Crash, Checkpointed, at
  <1>5. TypeOK'
    <2>1. crashes' \in 0..MaxCrashes
      BY <1>1, SyncAssumption DEF Crash, TypeOK
    <2> QED
      BY <1>1, <1>2, <2>1, FreshTyped DEF Crash, TypeOK
  <1>6. Quiet'
    BY <1>1, <1>2, <1>3 DEF Crash, Quiet, FreshMemory
  <1>7. Boxes'
    BY <1>1, <1>2 DEF Crash, Boxes, FreshMemory
  <1>8. Cursors'
    BY <1>1, <1>4 DEF Crash, Cursors
  <1>9. Memory'
    BY <1>3 DEF Memory
  <1>10. Emission' /\ Checkpoint'
    BY <1>3 DEF Emission, Checkpoint
  <1>11. Focus' /\ Ending'
    BY <1>2, <1>3 DEF Focus, Ending, FreshMemory, FreshLocals
  <1> QED
    BY <1>5, <1>6, <1>7, <1>8, <1>9, <1>10, <1>11 DEF SyncInv

(* Without a second flush the part file is there when it is renamed          *)
(* (_emitChunk).                                                             *)
LEMMA RenameSucceeds ==
  ASSUME SyncInv
  PROVE  ~RenameFails("loop")
  <1>1. Emission /\ Quiet
    BY Parts
  <1>2. SUFFICES ASSUME at = "rename", part[chunk["loop"].slot] = <<>> PROVE FALSE
    BY DEF RenameFails, at
  <1>3. chunk["loop"].slot = SlotOf(name, chunkIndex) /\ chunk["loop"].bytes # <<>>
        /\ part[SlotOf(name, chunkIndex)] = chunk["loop"].bytes
    BY <1>1, <1>2 DEF Emission, Emitting
  <1> QED
    BY <1>2, <1>3

(* What Checkpointed rules out.                                              *)
LEMMA NeverHappens ==
  ASSUME Checkpointed, SyncInv
  PROVE  /\ ~ReuseName /\ ~ResetOffset /\ ~ResetIndex /\ ~ResetPending
         /\ ~StopCall /\ ~Close /\ ~NewInstance /\ ~FlushAndCheckpoint("stop")
  <1>1. TypeOK /\ Quiet
    BY Parts
  <1>2. ~ReuseName /\ ~StopCall
    BY <1>1 DEF Quiet, Checkpointed, ReuseName, StopCall
  <1>3. ~ResetOffset /\ ~ResetIndex /\ ~ResetPending /\ ~NewInstance
    BY <1>1 DEF Quiet, at, Away, OnTarget, Loading, Emitting, Cutting, Saving, Flushing,
                ResetOffset, ResetIndex, ResetPending, NewInstance
  <1>4. ~Close /\ ~FlushAndCheckpoint("stop")
    BY <1>1 DEF Quiet, Close, FlushAndCheckpoint, WritePart, DeleteOld, RenamePart, RenameFails,
                CutNext, SavePending, WritePending, SaveOffset, SaveIndex
  <1> QED
    BY <1>2, <1>3, <1>4

(* The invariant holds at the beginning.                                     *)
LEMMA InitSync ==
  ASSUME Init
  PROVE  SyncInv
  <1>1. /\ 1 \in Files /\ 0 \in 0..MaxSize /\ 0 \in 0..Unknown /\ 0 \in 0..MaxReuses
        /\ 0 \in 0..MaxStops /\ 0 \in 0..MaxCrashes /\ None \notin Files
    BY SyncAssumption, Constants DEF Files, Unknown
  <1>2. <<>> \in Seq(Byte)
    BY EmptySeq
  <1>3. NoChunk \in [slot : Slots \cup {0}, bytes : Seq(Byte)]
    BY <1>2 DEF NoChunk
  <1>4. TypeOK
    <2>1. /\ live \in Files
          /\ size \in [Files -> 0..MaxSize] /\ version \in [Files -> 0..MaxReuses]
          /\ off \in [Files -> 0..MaxSize] /\ ci \in [Files -> Nat]
          /\ base \in [Files -> 0..MaxReuses] /\ done \in [Files -> BOOLEAN]
      BY <1>1 DEF Init
    <2>2. /\ pend \in [Files -> Seq(Byte)]
          /\ {part, outbox, drive} \subseteq [Slots -> Seq(Byte)]
      BY <1>2 DEF Init
    <2>3. /\ running \in BOOLEAN /\ name \in Files \cup {None}
          /\ offset \in 0..MaxSize /\ chunkIndex \in Nat
          /\ pending \in Seq(Byte) /\ retry \subseteq Files
      BY <1>1, <1>2 DEF Init
    <2>4. /\ mode \in {"live", "closed"} /\ target \in Files
          /\ limit \in 0..Unknown /\ pulled \in Nat /\ todo \subseteq Files
      BY <1>1 DEF Init
    <2>5. {pc, then} \subseteq [Procs -> Points]
      BY DEF Init, Points
    <2>6. {force, cut} \subseteq [Procs -> BOOLEAN]
      BY DEF Init
    <2>7. buf \in [Procs -> Seq(Byte)]
      BY <1>2 DEF Init
    <2>8. chunk \in [Procs -> [slot : Slots \cup {0}, bytes : Seq(Byte)]]
      BY <1>3 DEF Init
    <2>9. nm \in [Procs -> Files \cup {None}] /\ up \in Slots \cup {None}
      BY DEF Init
    <2>10. crashes \in 0..MaxCrashes /\ stops \in 0..MaxStops /\ reuses \in 0..MaxReuses
      BY <1>1 DEF Init
    <2> QED
      BY <2>1, <2>2, <2>3, <2>4, <2>5, <2>6, <2>7, <2>8, <2>9, <2>10 DEF TypeOK
  <1>5. at = "top" /\ pc["stop"] = "ready" /\ name = None
    BY DEF Init, Procs, at
  <1> USE DEF Away, OnTarget, Loading, Emitting, Cutting, Saving, Flushing
  <1>6. Quiet
    BY <1>5 DEF Init, Quiet
  <1>7. Boxes
    <2>1. \A s \in Slots : outbox[s] = <<>> /\ drive[s] = <<>>
      BY DEF Init
    <2>2. up = None
      BY DEF Init
    <2> QED
      BY <2>1, <2>2 DEF Boxes
  <1>8. Cursors
    <2>1. ASSUME NEW f \in Files
          PROVE  /\ off[f] = 0 /\ ci[f] = 0 /\ size[f] = 0 /\ pend[f] = <<>> /\ done[f] = FALSE
      BY DEF Init
    <2>2. ASSUME NEW f \in Files
          PROVE  Fits(live, size, f, 0, 0, <<>>) /\ Kept(outbox, drive, f, 0)
      <3>1. Start(0) = 1
        BY StartGrows
      <3>2. Bytes(f, 1, 0) = <<>>
        BY <1>1, BytesAreRun
      <3>3. 0..0 - 1 = {}
        OBVIOUS
      <3> QED
        BY <3>1, <3>2, <3>3 DEF Fits, Kept
    <2>3. 0 \in 0..0
      OBVIOUS
    <2>4. ASSUME NEW f \in Files
          PROVE  /\ off[f] \in 0..size[f] /\ ci[f] \in 0..size[f] /\ ~done[f]
                 /\ Kept(outbox, drive, f, ci[f])
                 /\ Fits(live, size, f, off[f], ci[f], pend[f])
      BY <2>1, <2>2, <2>3
    <2> QED
      BY <2>4 DEF Cursors
  <1>9. Memory /\ Emission /\ Checkpoint
    BY <1>5 DEF Memory, Emission, Checkpoint
  <1>10. Focus /\ Ending
    BY <1>5 DEF Focus, Ending, Init
  <1> QED
    BY <1>4, <1>6, <1>7, <1>8, <1>9, <1>10 DEF SyncInv

(* The invariant is about the variables alone.                               *)
LEMMA StutterKeeps ==
  ASSUME SyncInv, UNCHANGED vars
  PROVE  SyncInv'
  <1> USE DEF vars, device, flash, cursor, memory, locals, control, bounds, at, resume
  <1>1. TypeOK /\ Quiet /\ Boxes /\ Cursors /\ Memory /\ Emission /\ Checkpoint /\ Focus /\ Ending
    BY Parts
  <1>2. TypeOK' /\ Quiet'
    BY <1>1 DEF TypeOK, Quiet
  <1>3. Boxes' /\ Cursors'
    BY <1>1 DEF Boxes, Cursors
  <1>4. Memory' /\ Emission' /\ Checkpoint'
    BY <1>1 DEF Memory, Emission, Checkpoint
  <1>5. Focus' /\ Ending'
    BY <1>1 DEF Focus, Ending
  <1> QED
    BY <1>2, <1>3, <1>4, <1>5 DEF SyncInv

(* Every step keeps the invariant.                                           *)
LEMMA NextKeeps ==
  ASSUME Checkpointed, SyncInv, [Next]_vars
  PROVE  SyncInv'
  <1>1. ASSUME Device PROVE SyncInv'
    BY <1>1, GrowKeeps, RotateKeeps, NeverHappens DEF Device
  <1>2. ASSUME LoopStep PROVE SyncInv'
    BY <1>2, NeverHappens, TopKeeps, StatusKeeps, StatusNullKeeps, LoadCursorKeeps, ForgetPendingKeeps,
       LoadPendingKeeps, CheckKeeps, FetchStartKeeps, FetchBytesKeeps, FetchEmptyKeeps,
       FetchErrorKeeps, FetchStopKeeps, ClosedEndKeeps, MarkDoneKeeps, ClosedReturnKeeps,
       ListFilesKeeps, PickKeeps, PassOverKeeps
       DEF LoopStep
  <1>3. ASSUME SessionFails PROVE SyncInv'
    BY <1>3, SessionFailsKeeps
  <1>4. ASSUME NEW p \in Procs, FlushAndCheckpoint(p) PROVE SyncInv'
    <2>1. p = "loop"
      BY <1>4, NeverHappens DEF Procs
    <2>2. FlushAndCheckpoint("loop")
      BY <1>4, <2>1
    <2> QED
      BY <2>2, WritePartKeeps, DeleteOldKeeps, RenamePartKeeps, RenameSucceeds, CutNextKeeps,
         SavePendingKeeps, WritePendingKeeps, SaveOffsetKeeps, SaveIndexKeeps
         DEF FlushAndCheckpoint
  <1>5. ASSUME NEW f \in Files, RetryDue(f) PROVE SyncInv'
    BY <1>5, RetryDueKeeps
  <1>6. ASSUME NEW s \in Slots, Upload(s) PROVE SyncInv'
    BY <1>6, UploadKeeps
  <1>7. ASSUME DeleteUploaded PROVE SyncInv'
    BY <1>7, DeleteUploadedKeeps
  <1>8. ~(StopCall \/ Close \/ NewInstance)
    BY NeverHappens
  <1>9. ASSUME Crash PROVE SyncInv'
    BY <1>9, CrashKeeps
  <1>10. ASSUME UNCHANGED vars PROVE SyncInv'
    BY <1>10, StutterKeeps
  <1> QED
    BY <1>1, <1>2, <1>3, <1>4, <1>5, <1>6, <1>7, <1>8, <1>9, <1>10 DEF Next

(* The cursor, the pending bytes and the stored chunks of every recording    *)
(* fit together in every state (the checkpoints of _drainOnce and            *)
(* _drainClosedFile, the cuts of _flushPending).                             *)
THEOREM Invariant ==
  ASSUME Checkpointed
  PROVE  Spec => []SyncInv
  <1>1. Init => SyncInv
    BY InitSync
  <1>2. SyncInv /\ [Next]_vars => SyncInv'
    BY NextKeeps
  <1> QED
    BY <1>1, <1>2, PTL DEF Spec

-------------------------------------------------------------------------------
(* What the invariant says of the recordings *)

(* A byte before the c-th chunk lies in one of the chunks before it.         *)
LEMMA ChunkOf ==
  ASSUME NEW f \in Files, NEW c \in Nat, NEW i \in Nat, i > 0, i < Start(c)
  PROVE  \E k \in 0..c - 1 : Start(k) <= i /\ i < Start(k + 1)
  <1> DEFINE T == {n \in Nat : i < Start(n)}
  <1>1. PICK n \in T : \A m \in T : n <= m
    <2>1. T \in SUBSET Nat /\ T # {}
      OBVIOUS
    <2> HIDE DEF T
    <2> QED
      BY <2>1, LeastNat
  <1>2. n \in Nat /\ n # 0 /\ n <= c /\ i < Start(n)
    <2>1. n <= c
      BY <1>1
    <2>2. Start(0) = 1
      BY StartGrows
    <2>3. n # 0
      BY <1>1, <2>2
    <2> QED
      BY <1>1, <2>1, <2>3
  <1>3. n - 1 \in 0..c - 1 /\ n - 1 \in Nat /\ (n - 1) + 1 = n /\ ~(n <= n - 1)
    BY <1>2
  <1>4. ~(i < Start(n - 1))
    BY <1>1, <1>3
  <1>5. Start(n - 1) \in Nat
    BY <1>3, StartIs
  <1>6. Start(n - 1) <= i /\ i < Start((n - 1) + 1)
    BY <1>2, <1>3, <1>4, <1>5
  <1> QED
    BY <1>3, <1>6

(* A chunk holds every byte from where it begins to where the next one       *)
(* does.                                                                     *)
LEMMA ByteOfChunk ==
  ASSUME NEW l, NEW sz, NEW f \in Files, NEW k \in Nat, NEW b, sz[f] \in 0..MaxSize,
         IsChunk(l, sz, b, f, k), NEW i \in 1..sz[f], Start(k) <= i, i < Start(k + 1)
  PROVE  <<f, 0, i>> \in Range(b)
  <1>1. /\ Start(k) \in Nat /\ Start(k) > 0 /\ Start(k + 1) \in Nat /\ Start(k + 1) > Start(k)
        /\ sz[f] \in Nat /\ i \in Nat /\ i <= sz[f]
    <2>1. sz[f] \in Nat /\ i \in Nat /\ i <= sz[f]
      BY Constants
    <2> QED
      BY <2>1, StartIs
  <1>2. PICK o \in 0..MaxSize : b = Bytes(f, Start(k), o) /\ i <= o
    <2>1. CASE Start(k + 1) <= sz[f] + 1 /\ b = Bytes(f, Start(k), Start(k + 1) - 1)
      <3>1. Start(k + 1) - 1 \in 0..MaxSize /\ i <= Start(k + 1) - 1
        BY <1>1, <2>1, Constants
      <3> QED
        BY <2>1, <3>1
    <2>2. CASE b = Bytes(f, Start(k), sz[f])
      BY <1>1, <2>2
    <2> QED
      BY <2>1, <2>2 DEF IsChunk
  <1>3. i \in Start(k)..o
    BY <1>1, <1>2, Constants
  <1>4. <<f, 0, i>> \in Range(Bytes(f, Start(k), o))
    BY <1>1, <1>3, RangeOfBytes
  <1> QED
    BY <1>2, <1>4

(* The bytes of the chunks that are kept are in the outbox or on the drive.  *)
LEMMA KeptIsStored ==
  ASSUME SyncInv, NEW f \in Files, NEW c \in 0..size[f], Kept(outbox, drive, f, c),
         NEW i \in 1..size[f], i < Start(c)
  PROVE  <<f, 0, i>> \in Stored
  <1>1. TypeOK /\ Boxes
    BY Parts
  <1>2. size[f] \in 0..MaxSize /\ size[f] \in Nat /\ c \in Nat /\ i \in Nat /\ i > 0
    BY <1>1, Constants DEF TypeOK
  <1>3. PICK k \in 0..c - 1 : Start(k) <= i /\ i < Start(k + 1)
    BY <1>2, ChunkOf
  <1>4. k \in Nat /\ k \in 0..MaxSize - 1
    BY <1>2, Constants
  <1> DEFINE s == SlotOf(f, k)
  <1>5. s \in Slots /\ (outbox[s] # <<>> \/ drive[s] # <<>>)
    BY <1>4, SlotTyped DEF Kept
  <1>6. ASSUME NEW b, NEW g \in Files, NEW j \in 0..MaxSize - 1, s = SlotOf(g, j),
               IsChunk(live, size, b, g, j)
        PROVE  <<f, 0, i>> \in Range(b)
    <2>1. f = g /\ k = j
      BY <1>4, <1>6, SlotsDiffer
    <2>2. IsChunk(live, size, b, f, k)
      BY <1>6, <2>1
    <2> QED
      BY <1>2, <1>3, <1>4, <2>2, ByteOfChunk
  <1> HIDE DEF s
  <1>7. CASE outbox[s] # <<>>
    <2>1. <<f, 0, i>> \in Range(outbox[s])
      BY <1>1, <1>5, <1>6, <1>7 DEF Boxes
    <2> QED
      BY <1>5, <2>1 DEF Stored, BytesIn
  <1>8. CASE drive[s] # <<>>
    <2>1. <<f, 0, i>> \in Range(drive[s])
      BY <1>1, <1>5, <1>6, <1>8 DEF Boxes
    <2> QED
      BY <1>5, <2>1 DEF Stored, BytesIn
  <1> QED
    BY <1>5, <1>7, <1>8

(* Every byte below a cursor is stored or among the bytes that fit it.       *)
LEMMA FitsHolds ==
  ASSUME SyncInv, NEW f \in Files, NEW o \in 0..size[f], NEW c \in 0..size[f], NEW b,
         Kept(outbox, drive, f, c), Fits(live, size, f, o, c, b), NEW i \in 1..o
  PROVE  <<f, 0, i>> \in Range(b) \cup Stored
  <1>1. TypeOK
    BY Parts
  <1>2. size[f] \in 0..MaxSize /\ size[f] \in Nat /\ o \in 0..MaxSize /\ o \in Nat /\ c \in Nat
        /\ i \in Nat /\ i \in 1..size[f]
    <2>1. size[f] \in 0..MaxSize
      BY <1>1 DEF TypeOK
    <2> QED
      BY <2>1, Constants
  <1>3. Start(c) \in Nat /\ Start(c) > 0
    BY <1>2, StartIs
  <1>4. CASE i < Start(c)
    BY <1>2, <1>4, KeptIsStored
  <1>5. CASE ~(i < Start(c))
    <2>1. i \in Start(c)..o
      BY <1>2, <1>3, <1>5
    <2>2. <<f, 0, i>> \in Range(Bytes(f, Start(c), o))
      BY <1>2, <1>3, <2>1, RangeOfBytes
    <2> QED
      BY <2>2 DEF Fits
  <1> QED
    BY <1>4, <1>5

(* The invariant implies that no byte is skipped.                            *)
LEMMA KeepsEveryByte ==
  ASSUME SyncInv
  PROVE  NoByteSkipped
  <1>1. TypeOK /\ Quiet /\ Cursors /\ Memory
    BY Parts
  <1>2. ASSUME NEW f \in Files, NEW i \in 1..off[f]
        PROVE  <<f, 0, i>> \in Range(pend[f]) \cup Stored \cup Held(f)
    <2>1. /\ off[f] \in 0..size[f] /\ ci[f] \in 0..size[f] /\ Kept(outbox, drive, f, ci[f])
          /\ (at \in Saving /\ name = f) \/ Fits(live, size, f, off[f], ci[f], pend[f])
      BY <1>1 DEF Cursors
    <2>2. CASE Fits(live, size, f, off[f], ci[f], pend[f])
      <3>1. <<f, 0, i>> \in Range(pend[f]) \cup Stored
        BY <2>1, <2>2, FitsHolds
      <3> QED
        BY <3>1
    <2>3. CASE at \in Saving /\ name = f
      <3>1. /\ name # None /\ name \in Files /\ off[f] \in Nat /\ size[f] \in Nat
            /\ ci[f] \in Nat
        BY <1>1, <2>3, SyncAssumption, Constants DEF TypeOK
      <3>2. /\ offset \in off[f]..size[f] /\ chunkIndex \in ci[f]..size[f]
            /\ Kept(outbox, drive, f, chunkIndex)
            /\ Fits(live, size, f, offset, chunkIndex, pending)
        BY <1>1, <2>3, <3>1 DEF Memory, Saving, Loading, Cutting, Emitting
      <3>3. offset \in 0..size[f] /\ chunkIndex \in 0..size[f] /\ i \in 1..offset
        BY <3>1, <3>2
      <3>4. <<f, 0, i>> \in Range(pending) \cup Stored
        BY <3>2, <3>3, FitsHolds
      <3>5. Range(pending) \subseteq Held(f)
        BY <2>3 DEF Held
      <3> QED
        BY <3>4, <3>5
    <2> QED
      BY <2>1, <2>2, <2>3
  <1>3. \A f \in Files : version[f] = 0
    BY <1>1 DEF Quiet
  <1> QED
    BY <1>2, <1>3 DEF NoByteSkipped, BytesUpTo

(* The invariant implies that chunks have deterministic boundaries.          *)
LEMMA CutsDeterministically ==
  ASSUME SyncInv
  PROVE  DeterministicChunks
  <1>1. TypeOK /\ Boxes
    BY Parts
  <1>2. ASSUME NEW f \in Files, NEW k \in 0..MaxSize - 1, NEW b, IsChunk(live, size, b, f, k)
        PROVE  IsChunkOf(b, f, 0, k)
    <2>1. /\ k \in Nat /\ k + 1 \in Nat /\ size[f] \in Nat /\ size[f] <= MaxSize /\ MaxSize \in Nat
      BY <1>1, Constants DEF TypeOK
    <2>2. Start(k) \in Nat /\ Start(k + 1) \in Nat
      BY <2>1, StartIs
    <2>3. CASE Start(k + 1) <= size[f] + 1 /\ b = Bytes(f, Start(k), Start(k + 1) - 1)
      <3>1. Start(k + 1) <= MaxSize + 1
        BY <2>1, <2>2, <2>3
      <3> QED
        BY <2>3, <3>1 DEF IsChunkOf, Bytes, Start
    <2>4. CASE f < live /\ size[f] + 1 < Start(k + 1) /\ b = Bytes(f, Start(k), size[f])
      <3>1. size[f] < Start(k + 1) - 1
        BY <2>1, <2>2, <2>4
      <3> QED
        BY <2>4, <3>1 DEF IsChunkOf, Bytes, Start
    <2> QED
      BY <1>2, <2>3, <2>4 DEF IsChunk
  <1>3. ASSUME NEW s \in Slots, NEW b,
               \E f \in Files, k \in 0..MaxSize - 1 : s = SlotOf(f, k) /\ IsChunk(live, size, b, f, k)
        PROVE  \E f \in Files, v \in 0..MaxReuses, k \in 0..MaxSize :
                 s = Base[f][v] + k /\ IsChunkOf(b, f, v, k)
    <2>1. PICK f \in Files, k \in 0..MaxSize - 1 : s = SlotOf(f, k) /\ IsChunk(live, size, b, f, k)
      BY <1>3
    <2>2. k \in 0..MaxSize /\ 0 \in 0..MaxReuses
      BY Constants, SyncAssumption
    <2>3. s = Base[f][0] + k /\ IsChunkOf(b, f, 0, k)
      BY <1>2, <2>1 DEF SlotOf
    <2> QED
      BY <2>2, <2>3
  <1>4. ASSUME NEW s \in Slots, NEW box \in {outbox, drive}, box[s] # <<>>
        PROVE  \E f \in Files, k \in 0..MaxSize - 1 : s = SlotOf(f, k) /\ IsChunk(live, size, box[s], f, k)
    <2>1. CASE box = outbox
      BY <1>1, <1>4, <2>1 DEF Boxes
    <2>2. CASE box = drive
      BY <1>1, <1>4, <2>2 DEF Boxes
    <2> QED
      BY <2>1, <2>2
  <1>5. ASSUME NEW s \in Slots, NEW box \in {outbox, drive}, box[s] # <<>>
        PROVE  \E f \in Files, v \in 0..MaxReuses, k \in 0..MaxSize :
                 s = Base[f][v] + k /\ IsChunkOf(box[s], f, v, k)
    <2> DEFINE b == box[s]
    <2>1. \E f \in Files, k \in 0..MaxSize - 1 : s = SlotOf(f, k) /\ IsChunk(live, size, b, f, k)
      BY <1>4, <1>5
    <2> HIDE DEF b
    <2>2. \E f \in Files, v \in 0..MaxReuses, k \in 0..MaxSize :
            s = Base[f][v] + k /\ IsChunkOf(b, f, v, k)
      BY <1>3, <2>1
    <2> QED
      BY <2>2 DEF b
  <1> QED
    BY <1>5 DEF DeterministicChunks

(* The invariant implies that a file flagged done is stored in full.         *)
LEMMA FinishesWhole ==
  ASSUME SyncInv
  PROVE  DoneMeansStored
  <1>1. TypeOK /\ Quiet /\ Cursors
    BY Parts
  <1>2. ASSUME NEW f \in Files, done[f], NEW i \in 1..size[f]
        PROVE  <<f, 0, i>> \in Stored
    <2>1. ci[f] \in 0..size[f] /\ Kept(outbox, drive, f, ci[f]) /\ size[f] < Start(ci[f])
          /\ size[f] \in Nat /\ ci[f] \in Nat
      BY <1>1, <1>2, Constants DEF Cursors, TypeOK
    <2>2. Start(ci[f]) \in Nat
      BY <2>1, StartIs
    <2>3. i < Start(ci[f])
      BY <2>1, <2>2
    <2> QED
      BY <2>1, <2>3, KeptIsStored
  <1>3. \A f \in Files : version[f] = 0
    BY <1>1 DEF Quiet
  <1> QED
    BY <1>2, <1>3 DEF DoneMeansStored, BytesUpTo

(* Every variable of the sync has its type; in particular every chunk has a  *)
(* name of its own.                                                          *)
THEOREM TypeInvariant ==
  ASSUME Checkpointed
  PROVE  Spec => []TypeOK
  <1>1. SyncInv => TypeOK
    BY DEF SyncInv
  <1> QED
    BY <1>1, Invariant, PTL

(* The cursor on flash never runs ahead of the data: a process that dies at  *)
(* any await that is not inside a checkpoint has lost no byte the cursor     *)
(* counts as fetched (_drainOnce, _persistPending, _persistOffset).          *)
THEOREM SkipsNoByte ==
  ASSUME Checkpointed
  PROVE  Spec => []NoByteSkipped
  BY KeepsEveryByte, Invariant, PTL

(* The k-th chunk of a recording is always its k-th run of whole frames, so  *)
(* cutting it again after a death replaces it by itself (_chunkBoundary,     *)
(* _emitChunk).                                                              *)
THEOREM ChunksAreDeterministic ==
  ASSUME Checkpointed
  PROVE  Spec => []DeterministicChunks
  BY CutsDeterministically, Invariant, PTL

(* A recording flagged done is in the outbox or on the drive to its last     *)
(* byte (_drainClosedFile).                                                  *)
THEOREM DoneIsStored ==
  ASSUME Checkpointed
  PROVE  Spec => []DoneMeansStored
  BY FinishesWhole, Invariant, PTL

===============================================================================
