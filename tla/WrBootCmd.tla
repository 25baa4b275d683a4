------------------------------ MODULE WrBootCmd ------------------------------
(***************************************************************************)
(* The console listener that sends the device to its bootloader when it is *)
(* sent the line "boot" (app/src/wr_boot_cmd.c).  Of rx_buf it keeps how   *)
(* many characters it holds, and of the C string in it, which ends at the  *)
(* first zero among them, how much of the word it spells.                  *)
(***************************************************************************)
EXTENDS Integers, Sequences

CONSTANT BufferSize              \* WR_BOOT_CMD_BUFFER, 16

ASSUME BufferAssumption == BufferSize \in Nat /\ BufferSize > 5

Word == <<"b", "o", "o", "t">>
Chars == {Word[i] : i \in DOMAIN Word} \cup {"nul", "other"}

\* spelt: how many letters of the word the string consists of so far, if it is a
\* beginning of the word; else one of these.
Closed == Len(Word) + 1                 \* the word and the zero that ends it
Wrong == Len(Word) + 2                  \* anything else
Buffers(n) == [idx : 0..n, spelt : 0..Wrong]
Empty == [idx |-> 0, spelt |-> 0]

Follows(c, n) == n < Len(Word) /\ c = Word[n + 1]
Spelt(n, c) ==
  CASE n \in {Closed, Wrong} -> n
    [] Follows(c, n) -> n + 1
    [] n = Len(Word) /\ c = "nul" -> Closed
    [] OTHER -> Wrong
Grown(buf, c) == [idx |-> buf.idx + 1, spelt |-> Spelt(buf.spelt, c)]

\* strcmp(rx_buf, "boot") == 0, once the terminating zero is written at idx.
IsBoot(buf) == buf.spelt \in {Len(Word), Closed}

\* Variant: a line that was not the word is left in the buffer.
AfterBreakKept(buf) == buf
AfterBreak(buf) == Empty         \* rx_idx = 0

\* Variant: the last place of the buffer is used too.
AfterCharFull(buf, c) == IF buf.idx < BufferSize THEN Grown(buf, c) ELSE Empty
\* A character that is not a line break.  One that does not fit is dropped with
\* all before it, and the next is again the first.
AfterChar(buf, c) == IF buf.idx < BufferSize - 1 THEN Grown(buf, c) ELSE Empty
===============================================================================
