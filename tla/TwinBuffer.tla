---------------------------- MODULE TwinBuffer ----------------------------
(***************************************************************************)
(* The twin buffered file (I_O_2Buffer.c): one entry of TB[], a file that   *)
(* is read through one buffer and rewritten through another.  Nothing but   *)
(* the guard of write_db_file keeps a flush of the output buffer from       *)
(* reaching words that were not read yet.                                   *)
(*                                                                         *)
(* The loops over a request, one buffer at a time, are given in closed form *)
(* (how often a buffer is loaded or flushed, and what is in it at the end); *)
(* words of a buffer that are past its count are NoWord.                    *)
(***************************************************************************)
EXTENDS Integers

CONSTANTS
  Words, NoWord, MaxWords,
  BUF_SIZE_W     \* words in a buffer

ASSUME TwinBufferAssumption ==
  /\ NoWord \notin Words
  /\ MaxWords \in Nat \ {0}
  /\ BUF_SIZE_W \in Nat \ {0}

VARIABLES
  disk, size,      \* the file, NoWord beyond its end, and its length
  isOpen,          \* does an entry of TB[] have this unit?
  pBuf_IN, pos_in, nb_elmt_Buf_IN, nb_elmt_lu,
  pBuf_OUT, pos_out, nb_elmt_ecrit,
  bucket,          \* what the last read_db_file gave its caller, or was asked for
  old, order       \* history: the file when this pass began, and what the
                   \* pass began with

reading == <<pBuf_IN, pos_in, nb_elmt_Buf_IN, nb_elmt_lu>>
writing == <<pBuf_OUT, pos_out, nb_elmt_ecrit>>
vars == <<disk, size, isOpen, reading, writing, bucket, old, order>>

Addr  == 0 .. MaxWords - 1
Index == 0 .. BUF_SIZE_W - 1
Empty == [a \in Addr |-> NoWord]
Failed(n) == [ok |-> FALSE, asked |-> n]
NoRead    == Failed(0)
EmptyBuffer == [i \in Index |-> NoWord]

Smaller(m, n) == IF m < n THEN m ELSE n
Larger(m, n)  == IF m < n THEN n ELSE m

\* the buffers that n words take, the last one perhaps in part
Buffers(n) == (n + BUF_SIZE_W - 1) \div BUF_SIZE_W

NextWord == nb_elmt_lu - nb_elmt_Buf_IN    \* address of the next word to read
Written  == nb_elmt_ecrit + pos_out        \* words written in this pass

(* The counts stay in their buffers, what is in the input buffer was loaded *)
(* in this pass, and the file has no hole.                                  *)
TypeOK ==
  /\ disk \in [Addr -> Words \cup {NoWord}] /\ old \in [Addr -> Words \cup {NoWord}]
  /\ size \in 0 .. MaxWords /\ \A a \in Addr : a < size <=> disk[a] # NoWord
  /\ isOpen \in BOOLEAN
  /\ pBuf_IN \in [Index -> Words \cup {NoWord}] /\ pBuf_OUT \in [Index -> Words \cup {NoWord}]
  /\ pos_in \in 0 .. BUF_SIZE_W /\ nb_elmt_Buf_IN \in 0 .. BUF_SIZE_W
  /\ pos_in + nb_elmt_Buf_IN <= BUF_SIZE_W /\ nb_elmt_Buf_IN <= nb_elmt_lu
  /\ pos_out \in 0 .. BUF_SIZE_W
  /\ nb_elmt_lu \in 0 .. MaxWords /\ nb_elmt_ecrit \in 0 .. MaxWords
  /\ order \in {"none", "read", "write"}

Init ==
  /\ disk = Empty /\ size = 0 /\ old = Empty /\ isOpen = FALSE
  /\ pBuf_IN = EmptyBuffer /\ pos_in = 0 /\ nb_elmt_Buf_IN = 0 /\ nb_elmt_lu = 0
  /\ pBuf_OUT = EmptyBuffer /\ pos_out = 0 /\ nb_elmt_ecrit = 0
  /\ bucket = NoRead /\ order = "none"

Open ==
  /\ ~isOpen /\ isOpen' = TRUE
  /\ UNCHANGED <<disk, size, reading, writing, bucket, old, order>>

---------------------------------------------------------------------------
(* read_db_file *)

\* the buffer is loaded "loads" times, from nb_elmt_lu on
Load(loads) ==
  LET first == nb_elmt_lu + (loads - 1) * BUF_SIZE_W
      last  == Smaller(first + BUF_SIZE_W, size)
  IN  /\ pBuf_IN' = [i \in Index |-> IF first + i < last THEN disk[first + i] ELSE NoWord]
      /\ nb_elmt_lu' = last

\* enough words are in the buffer
ReadBuffer(n) ==
  /\ n <= nb_elmt_Buf_IN
  /\ pos_in' = pos_in + n
  /\ nb_elmt_Buf_IN' = nb_elmt_Buf_IN - n
  /\ UNCHANGED <<pBuf_IN, nb_elmt_lu>>

\* those of the buffer first, then from the file
ReadFile(n) ==
  LET loads == Buffers(n - nb_elmt_Buf_IN)
  IN  /\ n > nb_elmt_Buf_IN /\ NextWord + n <= size
      /\ Load(loads)
      /\ pos_in' = NextWord + n - (nb_elmt_lu + (loads - 1) * BUF_SIZE_W)
      /\ nb_elmt_Buf_IN' = nb_elmt_lu' - (NextWord + n)

Read(n) ==
  /\ isOpen
  /\ ReadBuffer(n) \/ ReadFile(n)
  /\ bucket' =
       [ok |-> TRUE, from |-> NextWord,
        words |-> [a \in Addr |->
          IF a \notin NextWord .. NextWord + n - 1 THEN NoWord
          ELSE IF a < nb_elmt_lu THEN pBuf_IN[pos_in + a - NextWord] ELSE disk[a]]]
  /\ order' = IF order = "none" THEN "read" ELSE order
  /\ UNCHANGED <<disk, size, isOpen, writing, old>>

\* "try to read past end of file", after all that was left has been loaded; a
\* buffer that could not be loaded again keeps its words and its counts
ReadPastEnd(n) ==
  LET loads == Buffers(size - nb_elmt_lu)
  IN  /\ isOpen
      /\ n > nb_elmt_Buf_IN /\ NextWord + n > size
      /\ IF nb_elmt_lu >= size THEN UNCHANGED reading
         ELSE /\ Load(loads)
              /\ pos_in' = 0
              /\ nb_elmt_Buf_IN' = size - (nb_elmt_lu + (loads - 1) * BUF_SIZE_W)
      /\ bucket' = Failed(n)
      /\ order' = IF order = "none" /\ nb_elmt_lu' # 0 THEN "read" ELSE order
      /\ UNCHANGED <<disk, size, isOpen, writing, old>>

---------------------------------------------------------------------------
(* write_db_file *)

\* "rewriting over unread data" ends the program
CanRewriteUnread(n) == TRUE
CanWrite(n) == nb_elmt_lu = 0 \/ Written + n < nb_elmt_lu + pos_in

\* the words of this pass, w among them: a buffer goes to the file when there
\* is a word more than it holds
Write(n, w) ==
  LET put(a)  == IF a < Written THEN pBuf_OUT[a - nb_elmt_ecrit] ELSE w[a - Written]
      flushed == ((Written + n - 1) \div BUF_SIZE_W) * BUF_SIZE_W
  IN  /\ isOpen
      /\ Written + n <= MaxWords
      /\ CanWrite(n)
      /\ disk' = [a \in Addr |-> IF a \in nb_elmt_ecrit .. flushed - 1 THEN put(a) ELSE disk[a]]
      /\ size' = Larger(size, flushed)
      /\ pBuf_OUT' = [i \in Index |-> IF flushed + i < Written + n THEN put(flushed + i)
                                      ELSE NoWord]
      /\ nb_elmt_ecrit' = flushed
      /\ pos_out' = Written + n - flushed
      /\ order' = IF order = "none" THEN "write" ELSE order
      /\ UNCHANGED <<isOpen, reading, bucket, old>>

---------------------------------------------------------------------------
(* rewind_db_file, close_db_file, and the end of the program *)

ClearButCount ==
  /\ pBuf_IN' = EmptyBuffer /\ pos_in' = 0 /\ nb_elmt_lu' = 0
  /\ pBuf_OUT' = EmptyBuffer /\ pos_out' = 0 /\ nb_elmt_ecrit' = 0
  /\ order' = "none" /\ UNCHANGED nb_elmt_Buf_IN

ClearBuffers ==
  /\ pBuf_IN' = EmptyBuffer /\ pos_in' = 0 /\ nb_elmt_Buf_IN' = 0 /\ nb_elmt_lu' = 0
  /\ pBuf_OUT' = EmptyBuffer /\ pos_out' = 0 /\ nb_elmt_ecrit' = 0
  /\ order' = "none"

\* what was written and is still in the output buffer
FlushAll == disk
Flush == [a \in Addr |-> IF a \in nb_elmt_ecrit .. Written - 1
                         THEN pBuf_OUT[a - nb_elmt_ecrit] ELSE disk[a]]

RewindFile ==
  /\ isOpen
  /\ disk' = Flush /\ size' = Larger(size, Written)
  /\ old' = disk'
  /\ ClearBuffers
  /\ UNCHANGED bucket

Rewind == RewindFile /\ UNCHANGED isOpen

Close == RewindFile /\ isOpen' = FALSE

\* exit, of this module or of the caller, anywhere
Stop ==
  /\ isOpen /\ isOpen' = FALSE
  /\ old' = disk /\ bucket' = NoRead
  /\ ClearBuffers
  /\ UNCHANGED <<disk, size>>

Next ==
  \/ Open \/ Rewind \/ Close \/ Stop
  \/ \E n \in 1 .. MaxWords : Read(n) \/ ReadPastEnd(n)
  \/ \E n \in 1 .. MaxWords : \E w \in [0 .. n - 1 -> Words] : Write(n, w)

Spec == Init /\ [][Next]_vars

---------------------------------------------------------------------------
(* Properties. *)

(* While a file is rewritten as it is read, no flush reaches a word that    *)
(* has not been loaded: from nb_elmt_lu on, the words the file had when the *)
(* pass began are on disk.                                                  *)
UnreadWordsAreOld ==
  order = "read" =>
    \A a \in Addr : a >= nb_elmt_lu /\ old[a] # NoWord => disk[a] = old[a]

(* Every read gives the words, and every rewind leaves the file, that       *)
(* WordStream promises; the words written so far are on disk up to          *)
(* nb_elmt_ecrit, then in the output buffer.                                *)
WS == INSTANCE WordStream WITH
        at  <- NextWord,
        new <- [a \in Addr |-> IF a < nb_elmt_ecrit THEN disk[a]
                               ELSE IF a < Written THEN pBuf_OUT[a - nb_elmt_ecrit]
                               ELSE NoWord]

Promise == WS!Spec
=============================================================================
