------------------------- MODULE TwinBuffer_proofs -------------------------
(***************************************************************************)
(* Proofs about TwinBuffer, for every buffer size, file and sequence of    *)
(* requests.  First, rewriting a file while reading it never reaches an    *)
(* unread word.                                                            *)
(***************************************************************************)
EXTENDS TwinBuffer, TLAPS

B == BUF_SIZE_W

Multiple(n) == \E k \in Nat : n = k * B

(* A flush covers whole buffers, and so does what has been loaded unless   *)
(* the end of the file was reached.  The guard of write_db_file compares   *)
(* with nb_elmt_lu + pos_in, which is up to a buffer too far: only because *)
(* both sides are rounded to whole buffers is it enough.                   *)
Rounded ==
  /\ Multiple(nb_elmt_ecrit)
  /\ \/ Multiple(nb_elmt_lu)
     \/ \A a \in Addr : a >= nb_elmt_lu => old[a] = NoWord

\* the counts that the argument needs
Counts ==
  /\ nb_elmt_lu \in Nat /\ nb_elmt_Buf_IN \in Nat /\ pos_in \in Int /\ pos_out \in Nat
  /\ size \in Nat
  /\ pos_in + nb_elmt_Buf_IN <= B /\ nb_elmt_Buf_IN <= nb_elmt_lu

\* a pass that has read or written nothing has loaded nothing either
Fresh == order = "none" => nb_elmt_lu = 0 /\ nb_elmt_Buf_IN = 0 /\ disk = old

Begun == order = "read" => nb_elmt_lu # 0

OldEnds == \A a \in Addr : a >= size => old[a] = NoWord

HoleFree == \A a \in Addr : a >= size => disk[a] = NoWord

Orders == order \in {"none", "read", "write"}

IInv == Counts /\ Rounded /\ Fresh /\ Begun /\ OldEnds /\ HoleFree /\ Orders
        /\ UnreadWordsAreOld

---------------------------------------------------------------------------
(* Arithmetic of whole buffers. *)

(* Integer division by a positive number, as write_db_file rounds down.    *)
LEMMA Floor ==
  ASSUME NEW x \in Nat
  PROVE  /\ x \div B \in Nat
         /\ (x \div B) * B <= x
         /\ x < (x \div B) * B + B
  BY TwinBufferAssumption, SMTT(30) DEF B

(* The number of buffers that x words take, as read_db_file loads them.    *)
LEMMA Ceiling ==
  ASSUME NEW x \in Nat \ {0}
  PROVE  /\ Buffers(x) \in Nat \ {0}
         /\ x <= Buffers(x) * B
         /\ (Buffers(x) - 1) * B < x
  <1>1. B \in Nat \ {0} BY TwinBufferAssumption DEF B
  <1>2. x + B - 1 \in Nat BY <1>1
  <1>3. Buffers(x) = (x + B - 1) \div B BY DEF Buffers, B
  <1> DEFINE q == (x + B - 1) \div B
  <1>4. q \in Nat /\ q * B <= x + B - 1 /\ x + B - 1 < q * B + B BY <1>2, Floor
  <1>5. q # 0
    <2>1. ASSUME q = 0 PROVE FALSE
      <3>1. q * B = 0 BY <1>1, <2>1
      <3> QED BY <1>1, <1>4, <3>1
    <2> QED BY <2>1
  <1>6. (q - 1) * B = q * B - B BY <1>1, <1>4
  <1> HIDE DEF q
  <1>7. q * B \in Int BY <1>1, <1>4
  <1>8. x <= q * B /\ (q - 1) * B < x BY <1>1, <1>4, <1>6, <1>7
  <1> QED BY <1>3, <1>4, <1>5, <1>8 DEF q

(* Of two multiples, one that is less than a buffer above the other is not *)
(* above it.                                                               *)
LEMMA NoPartialBuffer ==
  ASSUME NEW k \in Nat, NEW m \in Nat, k * B < m * B + B
  PROVE  k * B <= m * B
  <1>1. B \in Nat \ {0} BY TwinBufferAssumption DEF B
  <1>2. CASE k <= m
    <2>1. PICK d \in Nat : m = k + d BY <1>2
    <2>2. m * B = k * B + d * B BY <1>1, <2>1
    <2>3. d * B \in Nat /\ k * B \in Nat BY <1>1
    <2> QED BY <2>2, <2>3
  <1>3. CASE k > m
    <2>1. PICK d \in Nat : k = m + 1 + d BY <1>3
    <2>2. k * B = m * B + B + d * B BY <1>1, <2>1
    <2>3. d * B \in Nat /\ m * B \in Nat BY <1>1
    <2> QED BY <1>1, <2>2, <2>3
  <1> QED BY <1>2, <1>3

---------------------------------------------------------------------------
(* The invariant holds initially and is kept by every operation. *)

LEMMA InitInv == Init => IInv
  <1> SUFFICES ASSUME Init PROVE IInv OBVIOUS
  <1>1. B \in Nat \ {0} BY TwinBufferAssumption DEF B
  <1>2. nb_elmt_lu = 0 * B /\ nb_elmt_ecrit = 0 * B BY <1>1 DEF Init
  <1>3. Rounded BY <1>2 DEF Rounded, Multiple
  <1>4. Counts BY <1>1 DEF Init, Counts
  <1>5. Fresh /\ Begun /\ Orders /\ UnreadWordsAreOld
    BY DEF Init, Fresh, Begun, Orders, UnreadWordsAreOld
  <1>6. OldEnds /\ HoleFree BY DEF Init, OldEnds, HoleFree, Empty
  <1> QED BY <1>3, <1>4, <1>5, <1>6 DEF IInv

(* A new pass starts from whatever is on disk.                             *)
LEMMA NewPass ==
  ASSUME IInv, ClearBuffers, old' = disk', size' \in Nat,
         \A a \in Addr : a >= size' => disk'[a] = NoWord
  PROVE  IInv'
  <1>1. B \in Nat \ {0} BY TwinBufferAssumption DEF B
  <1>2. nb_elmt_lu' = 0 * B /\ nb_elmt_ecrit' = 0 * B BY <1>1 DEF ClearBuffers
  <1>3. Rounded' BY <1>2 DEF Rounded, Multiple
  <1>4. Counts' BY <1>1 DEF ClearBuffers, Counts
  <1>5. Fresh' /\ Begun' /\ Orders' /\ UnreadWordsAreOld'
    BY DEF ClearBuffers, Fresh, Begun, Orders, UnreadWordsAreOld
  <1>6. OldEnds' /\ HoleFree' BY DEF OldEnds, HoleFree
  <1> QED BY <1>3, <1>4, <1>5, <1>6 DEF IInv

(* Loading the buffer ends at a whole number of buffers or at the end of   *)
(* the file.                                                               *)
LEMMA LoadRounds ==
  ASSUME IInv, NEW loads \in Nat \ {0}, Load(loads), UNCHANGED old,
         nb_elmt_lu' >= nb_elmt_lu
  PROVE  \/ Multiple(nb_elmt_lu')
         \/ \A a \in Addr : a >= nb_elmt_lu' => old'[a] = NoWord
  <1>1. B \in Nat \ {0} BY TwinBufferAssumption DEF B
  <1>2. nb_elmt_lu \in Nat /\ size \in Nat BY DEF IInv, Counts
  <1> DEFINE first == nb_elmt_lu + (loads - 1) * B
  <1>3. first \in Nat BY <1>1, <1>2
  <1>4. nb_elmt_lu' = Smaller(first + B, size) BY DEF Load, B
  <1>5. CASE nb_elmt_lu' = size BY <1>5 DEF IInv, OldEnds
  <1>6. CASE nb_elmt_lu' = first + B
    <2>1. CASE Multiple(nb_elmt_lu)
      <3>1. PICK m \in Nat : nb_elmt_lu = m * B BY <2>1 DEF Multiple
      <3>2. first + B = (m + loads) * B BY <1>1, <3>1
      <3>3. m + loads \in Nat BY <3>1
      <3> QED BY <1>6, <3>2, <3>3 DEF Multiple
    <2>2. CASE \A a \in Addr : a >= nb_elmt_lu => old[a] = NoWord
      <3> SUFFICES ASSUME NEW a \in Addr, a >= nb_elmt_lu' PROVE old[a] = NoWord
        OBVIOUS
      <3>1. nb_elmt_lu' \in Nat /\ a \in Int BY <1>1, <1>3, <1>6 DEF Addr
      <3>2. a >= nb_elmt_lu BY <1>2, <3>1
      <3> QED BY <2>2, <3>2
    <2> QED BY <2>1, <2>2 DEF IInv, Rounded
  <1> QED BY <1>4, <1>5, <1>6 DEF Smaller

(* read_db_file, when there are enough words.                              *)
LEMMA ReadInv ==
  ASSUME IInv, NEW n \in 1 .. MaxWords, Read(n)
  PROVE  IInv'
  <1>1. B \in Nat \ {0} /\ n \in Nat \ {0}
    BY TwinBufferAssumption DEF B
  <1>2. /\ nb_elmt_lu \in Nat /\ nb_elmt_Buf_IN \in Nat /\ pos_in \in Int /\ size \in Nat
        /\ nb_elmt_Buf_IN <= nb_elmt_lu /\ pos_in + nb_elmt_Buf_IN <= B
    BY DEF IInv, Counts
  <1>3. UNCHANGED <<disk, size, old, nb_elmt_ecrit, pos_out>> BY DEF Read, writing
  <1>4. OldEnds' /\ HoleFree' BY <1>3 DEF IInv, OldEnds, HoleFree
  <1>5. CASE ReadBuffer(n)
    <2>1. Counts' BY <1>1, <1>2, <1>3, <1>5 DEF ReadBuffer, Counts, IInv
    <2>2. order # "none" BY <1>1, <1>5 DEF ReadBuffer, IInv, Fresh
    <2>3. order' = order /\ nb_elmt_lu' = nb_elmt_lu BY <2>2, <1>5 DEF Read, ReadBuffer
    <2>4. Rounded' BY <1>3, <2>3 DEF IInv, Rounded, Multiple
    <2>5. Fresh' /\ Begun' /\ Orders' /\ UnreadWordsAreOld'
      BY <1>3, <2>2, <2>3 DEF IInv, Fresh, Begun, Orders, UnreadWordsAreOld
    <2> QED BY <1>4, <2>1, <2>4, <2>5 DEF IInv
  <1>6. CASE ReadFile(n)
    <2> DEFINE x     == n - nb_elmt_Buf_IN
               loads == Buffers(x)
               first == nb_elmt_lu + (loads - 1) * B
    <2>1. x \in Nat \ {0} BY <1>1, <1>2, <1>6 DEF ReadFile
    <2>2. /\ loads \in Nat \ {0}
          /\ x <= loads * B /\ (loads - 1) * B < x
      BY <2>1, Ceiling
    <2>3. /\ Load(loads)
          /\ pos_in' = NextWord + n - first
          /\ nb_elmt_Buf_IN' = nb_elmt_lu' - (NextWord + n)
          /\ NextWord + n <= size
      BY <1>6 DEF ReadFile, B
    <2>4. nb_elmt_lu' = Smaller(first + B, size) BY <2>3 DEF Load, B
    <2>5. NextWord + n = nb_elmt_lu + x BY <1>1, <1>2 DEF NextWord
    <2>6. (loads - 1) * B = loads * B - B /\ loads * B \in Nat BY <1>1, <2>2
    <2> HIDE DEF loads
    <2>7. /\ nb_elmt_lu' \in Nat /\ nb_elmt_lu' <= first + B
          /\ nb_elmt_lu + x <= nb_elmt_lu' /\ first \in Nat
      BY <1>1, <1>2, <2>1, <2>2, <2>3, <2>4, <2>5, <2>6 DEF Smaller
    <2> HIDE DEF first
    <2>8. Counts'
      <3>1. PICK f \in Nat : f = first BY <2>7
      <3>2. PICK u \in Nat : u = nb_elmt_lu + x BY <1>2, <2>1
      <3>3. NextWord \in Int /\ n \in Int /\ NextWord + n = u
        BY <1>1, <1>2, <2>5, <3>2 DEF NextWord
      <3>4. pos_in' = u - f /\ nb_elmt_Buf_IN' = nb_elmt_lu' - u BY <2>3, <3>1, <3>3
      <3>5. u <= nb_elmt_lu' /\ nb_elmt_lu' <= f + B /\ nb_elmt_lu' \in Nat
        BY <2>7, <3>1, <3>2
      <3>6. /\ pos_in' \in Int /\ nb_elmt_Buf_IN' \in Nat
            /\ pos_in' + nb_elmt_Buf_IN' <= B /\ nb_elmt_Buf_IN' <= nb_elmt_lu'
        BY <1>1, <3>1, <3>2, <3>4, <3>5
      <3> QED BY <1>3, <3>5, <3>6 DEF Counts, IInv
    <2>9. Rounded'
      <3>1. nb_elmt_lu' >= nb_elmt_lu BY <1>2, <2>1, <2>7
      <3>2. \/ Multiple(nb_elmt_lu')
            \/ \A a \in Addr : a >= nb_elmt_lu' => old'[a] = NoWord
        BY <1>3, <2>2, <2>3, <3>1, LoadRounds
      <3> QED BY <1>3, <3>2 DEF IInv, Rounded, Multiple
    <2>10. nb_elmt_lu' # 0 /\ nb_elmt_lu' >= nb_elmt_lu BY <1>2, <2>1, <2>7
    <2>11. Fresh' /\ Begun' /\ Orders'
      BY <2>10 DEF Read, IInv, Fresh, Begun, Orders
    <2>12. UnreadWordsAreOld'
      <3> SUFFICES ASSUME order' = "read", NEW a \in Addr, a >= nb_elmt_lu', old[a] # NoWord
                   PROVE  disk[a] = old[a]
        BY <1>3 DEF UnreadWordsAreOld
      <3>0. a \in Int BY DEF Addr
      <3>1. a >= nb_elmt_lu BY <1>2, <2>7, <2>10, <3>0
      <3>2. order = "none" \/ order = "read" BY DEF Read, IInv, Orders
      <3> QED BY <3>1, <3>2 DEF IInv, Fresh, UnreadWordsAreOld
    <2> QED BY <1>4, <2>8, <2>9, <2>11, <2>12 DEF IInv
  <1> QED BY <1>5, <1>6 DEF Read

(* read_db_file, when there are not.                                       *)
LEMMA ReadPastEndInv ==
  ASSUME IInv, NEW n \in 1 .. MaxWords, ReadPastEnd(n)
  PROVE  IInv'
  <1>1. B \in Nat \ {0} BY TwinBufferAssumption DEF B
  <1>2. /\ nb_elmt_lu \in Nat /\ nb_elmt_Buf_IN \in Nat /\ pos_in \in Int /\ size \in Nat
        /\ nb_elmt_Buf_IN <= nb_elmt_lu /\ pos_in + nb_elmt_Buf_IN <= B
    BY DEF IInv, Counts
  <1>3. UNCHANGED <<disk, size, old, nb_elmt_ecrit, pos_out>> BY DEF ReadPastEnd, writing
  <1>4. OldEnds' /\ HoleFree' BY <1>3 DEF IInv, OldEnds, HoleFree
  <1>5. order' = IF order = "none" /\ nb_elmt_lu' # 0 THEN "read" ELSE order
    BY DEF ReadPastEnd
  <1>6. CASE nb_elmt_lu >= size
    <2>1. UNCHANGED reading BY <1>6 DEF ReadPastEnd
    <2>2. nb_elmt_lu' = nb_elmt_lu /\ order' = order
      BY <1>5, <2>1 DEF reading, IInv, Fresh
    <2>3. Counts' BY <1>3, <2>1 DEF reading, Counts, IInv
    <2>4. Rounded' BY <1>3, <2>2 DEF IInv, Rounded, Multiple
    <2>5. Fresh' /\ Begun' /\ Orders' /\ UnreadWordsAreOld'
      BY <1>3, <2>1, <2>2 DEF reading, IInv, Fresh, Begun, Orders, UnreadWordsAreOld
    <2> QED BY <1>4, <2>3, <2>4, <2>5 DEF IInv
  <1>7. CASE nb_elmt_lu < size
    <2> DEFINE x     == size - nb_elmt_lu
               loads == Buffers(x)
               first == nb_elmt_lu + (loads - 1) * B
    <2>1. x \in Nat \ {0} BY <1>2, <1>7
    <2>2. /\ loads \in Nat \ {0}
          /\ x <= loads * B /\ (loads - 1) * B < x
      BY <2>1, Ceiling
    <2>3. ~(nb_elmt_lu >= size) BY <1>2, <1>7
    <2>4. Load(loads) /\ pos_in' = 0 /\ nb_elmt_Buf_IN' = size - first
      BY <2>3 DEF ReadPastEnd, B
    <2>5. nb_elmt_lu' = Smaller(first + B, size) BY <2>4 DEF Load, B
    <2>6. (loads - 1) * B = loads * B - B /\ loads * B \in Nat BY <1>1, <2>2
    <2> HIDE DEF loads
    <2>7. /\ nb_elmt_lu' = size /\ first \in Nat
          /\ first <= size /\ size <= first + B
      BY <1>1, <1>2, <2>1, <2>2, <2>5, <2>6 DEF Smaller
    <2> HIDE DEF first
    <2>8. Counts' BY <1>1, <1>2, <1>3, <2>4, <2>7 DEF Counts, IInv
    <2>9. Rounded' BY <1>3, <2>7 DEF IInv, OldEnds, Rounded, Multiple
    <2>10. Fresh' /\ Begun' /\ Orders'
      BY <1>2, <1>5, <1>7, <2>7 DEF IInv, Fresh, Begun, Orders
    <2>11. UnreadWordsAreOld' BY <1>3, <2>7 DEF IInv, OldEnds, UnreadWordsAreOld
    <2> QED BY <1>4, <2>8, <2>9, <2>10, <2>11 DEF IInv
  <1> QED BY <1>2, <1>6, <1>7

(* write_db_file: the guard and the rounding keep the flush below what has *)
(* been loaded.                                                            *)
LEMMA WriteInv ==
  ASSUME IInv, NEW n \in 1 .. MaxWords, NEW w \in [0 .. n - 1 -> Words], Write(n, w)
  PROVE  IInv'
  <1>1. B \in Nat \ {0} /\ n \in Nat \ {0} BY TwinBufferAssumption DEF B
  <1>2. /\ nb_elmt_lu \in Nat /\ nb_elmt_Buf_IN \in Nat /\ pos_in \in Int /\ size \in Nat
        /\ pos_out \in Nat /\ nb_elmt_ecrit \in Nat /\ pos_in <= B
    <2>1. nb_elmt_ecrit \in Nat BY <1>1 DEF IInv, Rounded, Multiple
    <2> QED BY <1>1, <2>1 DEF IInv, Counts
  <1> DEFINE q       == (Written + n - 1) \div B
             flushed == q * B
  <1>3. Written + n - 1 \in Nat BY <1>1, <1>2 DEF Written
  <1>4. q \in Nat /\ flushed <= Written + n - 1 BY <1>3, Floor
  <1> HIDE DEF q
  <1>5. flushed \in Nat BY <1>1, <1>4
  <1>6. /\ size' = Larger(size, flushed) /\ nb_elmt_ecrit' = flushed
        /\ pos_out' = Written + n - flushed
        /\ order' = IF order = "none" THEN "write" ELSE order
        /\ UNCHANGED <<isOpen, reading, bucket, old>>
        /\ \A a \in Addr : a \notin nb_elmt_ecrit .. flushed - 1 => disk'[a] = disk[a]
    BY DEF Write, B, q
  <1>7. Counts' BY <1>1, <1>2, <1>4, <1>5, <1>6 DEF IInv, Counts, reading, Written, Larger
  <1>8. Rounded' BY <1>4, <1>6 DEF IInv, Rounded, Multiple, reading
  <1>9. Fresh' /\ Begun' /\ Orders' BY <1>6 DEF IInv, Fresh, Begun, Orders, reading
  <1>10. OldEnds' /\ HoleFree'
    <2>1. size' \in Nat /\ size' >= size /\ size' >= flushed BY <1>2, <1>5, <1>6 DEF Larger
    <2> SUFFICES ASSUME NEW a \in Addr, a >= size' PROVE old[a] = NoWord /\ disk'[a] = NoWord
      BY <1>6 DEF OldEnds, HoleFree
    <2>2. a >= size /\ a \notin nb_elmt_ecrit .. flushed - 1 BY <1>2, <1>5, <2>1 DEF Addr
    <2> QED BY <1>6, <2>2 DEF IInv, OldEnds, HoleFree
  <1>11. UnreadWordsAreOld'
    <2> SUFFICES ASSUME order' = "read", NEW a \in Addr, a >= nb_elmt_lu, old[a] # NoWord
                 PROVE  disk'[a] = old[a]
      BY <1>6 DEF UnreadWordsAreOld, reading
    <2>1. order = "read" BY <1>6
    <2>2. disk[a] = old[a] BY <2>1 DEF IInv, UnreadWordsAreOld
    <2>3. PICK m \in Nat : nb_elmt_lu = m * B BY DEF IInv, Rounded, Multiple
    <2>4. Written + n < nb_elmt_lu + pos_in
      BY <2>1 DEF Write, CanWrite, IInv, Begun
    <2>5. q * B < m * B + B
      BY <1>1, <1>2, <1>3, <1>4, <1>5, <2>3, <2>4 DEF Written
    <2>6. flushed <= nb_elmt_lu BY <1>4, <2>3, <2>5, NoPartialBuffer
    <2>7. a \notin nb_elmt_ecrit .. flushed - 1 BY <1>2, <1>5, <2>6 DEF Addr
    <2> QED BY <1>6, <2>2, <2>7
  <1> QED BY <1>7, <1>8, <1>9, <1>10, <1>11 DEF IInv

(* rewind_db_file flushes whatever is in the output buffer.                *)
LEMMA RewindInv == ASSUME IInv, RewindFile PROVE IInv'
  <1>1. B \in Nat \ {0} BY TwinBufferAssumption DEF B
  <1>2. size \in Nat /\ pos_out \in Nat BY DEF IInv, Counts
  <1>3. nb_elmt_ecrit \in Nat BY <1>1 DEF IInv, Rounded, Multiple
  <1>4. Written \in Nat BY <1>2, <1>3 DEF Written
  <1>5. size' = Larger(size, Written) /\ disk' = Flush /\ old' = disk' BY DEF RewindFile
  <1>6. size' \in Nat /\ size' >= size /\ size' >= Written BY <1>2, <1>4, <1>5 DEF Larger
  <1>7. ASSUME NEW a \in Addr, a >= size' PROVE disk'[a] = NoWord
    <2>1. a >= size /\ a \notin nb_elmt_ecrit .. Written - 1
      BY <1>2, <1>3, <1>4, <1>6, <1>7 DEF Addr
    <2>2. disk'[a] = disk[a] BY <1>5, <2>1 DEF Flush
    <2> QED BY <2>1, <2>2 DEF IInv, HoleFree
  <1> QED BY <1>5, <1>6, <1>7, NewPass DEF RewindFile

LEMMA NextInv == IInv /\ [Next]_vars => IInv'
  <1> SUFFICES ASSUME IInv, [Next]_vars PROVE IInv' OBVIOUS
  <1>1. CASE UNCHANGED vars \/ Open
    <2>1. UNCHANGED <<disk, size, reading, writing, old, order>> BY <1>1 DEF vars, Open
    <2> QED BY <2>1 DEF reading, writing, IInv, Counts, Rounded, Multiple, Fresh, Begun,
                        OldEnds, HoleFree, Orders, UnreadWordsAreOld
  <1>2. CASE Rewind \/ Close BY <1>2, RewindInv DEF Rewind, Close
  <1>3. CASE Stop
    <2>1. ClearBuffers /\ old' = disk' /\ size' = size /\ disk' = disk BY <1>3 DEF Stop
    <2>2. size' \in Nat BY <2>1 DEF IInv, Counts
    <2> QED BY <2>1, <2>2, NewPass DEF IInv, HoleFree
  <1>4. ASSUME NEW n \in 1 .. MaxWords, Read(n) PROVE IInv' BY <1>4, ReadInv
  <1>5. ASSUME NEW n \in 1 .. MaxWords, ReadPastEnd(n) PROVE IInv' BY <1>5, ReadPastEndInv
  <1>6. ASSUME NEW n \in 1 .. MaxWords, NEW w \in [0 .. n - 1 -> Words], Write(n, w)
        PROVE  IInv'
    BY <1>6, WriteInv
  <1> QED BY <1>1, <1>2, <1>3, <1>4, <1>5, <1>6 DEF Next

(* However a program mixes reads, writes, rewinds, closes and stops, and   *)
(* whatever the size of the buffers, a flush of write_db_file never covers *)
(* a word of the file that this pass has not loaded yet.                   *)
THEOREM UnreadIsSafe == Spec => []UnreadWordsAreOld
  <1>1. IInv => UnreadWordsAreOld BY DEF IInv
  <1> QED BY InitInv, NextInv, <1>1, PTL DEF Spec

---------------------------------------------------------------------------
(***************************************************************************)
(* The twin buffered file implements WordStream, for every buffer size,    *)
(* file and sequence of requests: the words a read gives, and the file a   *)
(* rewind or a stop leaves, are those the caller is promised.              *)
(***************************************************************************)

\* what this pass has written, as WordStream sees it
New == [a \in Addr |-> IF a < nb_elmt_ecrit THEN disk[a]
                       ELSE IF a < Written THEN pBuf_OUT[a - nb_elmt_ecrit]
                       ELSE NoWord]

\* may a read give word x at address a?
Promised(a, x) ==
  /\ x # NoWord
  /\ x = old[a] \/ (x = New[a] /\ (order = "write" \/ old[a] = NoWord))

\* the output buffer is full up to its position, and ends within the file
OutputIsFull ==
  /\ \A i \in Index : i < pos_out => pBuf_OUT[i] # NoWord
  /\ nb_elmt_ecrit <= size
  /\ Written <= MaxWords

\* beyond what has been flushed, the file is as the pass found it
BeyondIsOld == \A a \in Addr : a >= nb_elmt_ecrit => disk[a] = old[a]

\* what waits in the input buffer was right when it was loaded, and stays so
InputIsPromised ==
  \A a \in Addr : NextWord <= a /\ a < nb_elmt_lu => Promised(a, pBuf_IN[pos_in + a - NextWord])

Contents == OutputIsFull /\ BeyondIsOld /\ InputIsPromised

SInv == IInv /\ TypeOK /\ Contents

---------------------------------------------------------------------------
(* The numbers that every step below needs.                                *)
LEMMA Numbered ==
  ASSUME SInv
  PROVE  /\ B \in Nat \ {0} /\ MaxWords \in Nat \ {0}
         /\ size \in 0 .. MaxWords
         /\ pos_in \in 0 .. B /\ nb_elmt_Buf_IN \in 0 .. B /\ pos_in + nb_elmt_Buf_IN <= B
         /\ nb_elmt_lu \in 0 .. MaxWords /\ nb_elmt_Buf_IN <= nb_elmt_lu
         /\ NextWord \in Nat /\ NextWord <= nb_elmt_lu
         /\ pos_out \in 0 .. B /\ nb_elmt_ecrit \in 0 .. MaxWords
         /\ Written \in Nat /\ nb_elmt_ecrit <= Written /\ Written <= MaxWords
  BY TwinBufferAssumption DEF SInv, TypeOK, Contents, OutputIsFull, NextWord, Written, B

(* A word on disk that is not loaded yet may be read.                      *)
LEMMA DiskIsPromised ==
  ASSUME SInv, NEW a \in Addr, a >= nb_elmt_lu, a < size
  PROVE  Promised(a, disk[a])
  <1>1. disk[a] # NoWord BY DEF SInv, TypeOK
  <1>2. CASE a >= nb_elmt_ecrit
    BY <1>1, <1>2 DEF Promised, SInv, Contents, BeyondIsOld
  <1>3. CASE ~(a >= nb_elmt_ecrit)
    <2>1. a < nb_elmt_ecrit BY <1>3, Numbered DEF Addr
    <2>2. New[a] = disk[a] BY <2>1 DEF New
    <2>3. \/ order = "write"
          \/ order = "none" /\ disk = old
          \/ order = "read" /\ (old[a] # NoWord => disk[a] = old[a])
      BY DEF SInv, IInv, Orders, Fresh, UnreadWordsAreOld
    <2> QED BY <1>1, <2>2, <2>3 DEF Promised
  <1> QED BY <1>2, <1>3

(* What WordStream has written so far.                                     *)
LEMMA NewWords ==
  ASSUME SInv
  PROVE  /\ New \in [Addr -> Words \cup {NoWord}]
         /\ \A a \in Addr : a < Written <=> New[a] # NoWord
  <1>1. ASSUME NEW a \in Addr, a < nb_elmt_ecrit
        PROVE  New[a] = disk[a] /\ New[a] # NoWord /\ New[a] \in Words \cup {NoWord}
    <2>1. a < size BY <1>1, Numbered DEF SInv, Contents, OutputIsFull, Addr
    <2>2. New[a] = disk[a] BY <1>1 DEF New
    <2> QED BY <2>1, <2>2 DEF SInv, TypeOK
  <1>2. ASSUME NEW a \in Addr, ~(a < nb_elmt_ecrit), a < Written
        PROVE  New[a] # NoWord /\ New[a] \in Words \cup {NoWord}
    <2>1. a - nb_elmt_ecrit \in Index /\ a - nb_elmt_ecrit < pos_out
      BY <1>2, Numbered DEF Addr, Index, Written, B
    <2>2. New[a] = pBuf_OUT[a - nb_elmt_ecrit] BY <1>2 DEF New
    <2> QED BY <2>1, <2>2 DEF SInv, TypeOK, Contents, OutputIsFull
  <1>3. ASSUME NEW a \in Addr, ~(a < nb_elmt_ecrit), ~(a < Written)
        PROVE  New[a] = NoWord
    BY <1>3 DEF New
  <1>4. ASSUME NEW a \in Addr, a < nb_elmt_ecrit PROVE a < Written
    BY <1>4, Numbered DEF Addr
  <1>5. \A a \in Addr : New[a] \in Words \cup {NoWord} BY <1>1, <1>2, <1>3
  <1>6. New \in [Addr -> Words \cup {NoWord}] BY <1>5 DEF New
  <1> QED BY <1>1, <1>2, <1>3, <1>4, <1>6

(* Above what has been written, or below, the file is either generation.   *)
LEMMA Generations ==
  ASSUME SInv, NEW a \in Addr
  PROVE  /\ a < nb_elmt_ecrit => New[a] = disk[a] /\ New[a] # NoWord
         /\ a >= nb_elmt_ecrit => disk[a] = old[a]
         /\ a \in nb_elmt_ecrit .. Written - 1 =>
              New[a] = pBuf_OUT[a - nb_elmt_ecrit] /\ New[a] # NoWord
         /\ a >= Written => New[a] = NoWord
  <1>1. a \in Int BY DEF Addr
  <1>2. ASSUME a < nb_elmt_ecrit PROVE New[a] = disk[a] /\ New[a] # NoWord
    <2>1. a < Written BY <1>1, <1>2, Numbered
    <2> QED BY <1>2, <2>1, NewWords DEF New
  <1>3. ASSUME a \in nb_elmt_ecrit .. Written - 1
        PROVE  New[a] = pBuf_OUT[a - nb_elmt_ecrit] /\ New[a] # NoWord
    <2>1. ~(a < nb_elmt_ecrit) /\ a < Written BY <1>1, <1>3, Numbered
    <2> QED BY <2>1, NewWords DEF New
  <1>4. ASSUME a >= Written PROVE New[a] = NoWord
    <2>1. ~(a < Written) BY <1>1, <1>4, Numbered
    <2> QED BY <2>1, NewWords
  <1> QED BY <1>2, <1>3, <1>4 DEF SInv, Contents, BeyondIsOld

---------------------------------------------------------------------------
(* read_db_file. *)

(* What is in the buffer after it has been loaded up to last.              *)
LEMMA LoadedIsPromised ==
  ASSUME SInv, UNCHANGED <<disk, old, writing>>,
         order' = order \/ order = "none",
         NEW f \in Nat, f >= nb_elmt_lu,
         NEW e \in Nat, nb_elmt_lu' = e, e <= size, e <= f + B,
         \A i \in Index : pBuf_IN'[i] = IF f + i < e THEN disk[f + i] ELSE NoWord,
         NEW k \in Nat, pos_in' = k, NextWord' = f + k
  PROVE  InputIsPromised'
  <1> SUFFICES ASSUME NEW a \in Addr, f + k <= a, a < e
               PROVE  Promised(a, pBuf_IN[pos_in + a - NextWord])'
    BY DEF InputIsPromised
  <1>1. a \in Int /\ B \in Nat /\ size \in Nat /\ nb_elmt_lu \in Nat
    BY Numbered DEF Addr
  <1>2. /\ a >= f /\ a < size /\ a >= nb_elmt_lu
        /\ k + a - (f + k) = a - f /\ a - f \in 0 .. B - 1
    BY <1>1
  <1>3. pBuf_IN'[a - f] = disk[a]
    <2>1. f + (a - f) = a /\ a - f \in Index BY <1>1, <1>2 DEF Index, B
    <2> QED BY <2>1
  <1>4. Promised(a, disk[a]) BY <1>2, DiskIsPromised
  <1>5. New' = New BY DEF New, writing, Written
  <1>6. Promised(a, disk[a])'
    <2>1. CASE order' = order BY <1>4, <1>5, <2>1 DEF Promised
    <2>2. CASE order = "none"
      <3>1. disk = old BY <2>2 DEF SInv, IInv, Fresh
      <3> QED BY <1>4, <3>1 DEF Promised
    <2> QED BY <2>1, <2>2
  <1> QED BY <1>2, <1>3, <1>6

(* Reading leaves the file and the output buffer alone.                    *)
LEMMA ReadingOnly ==
  ASSUME SInv, UNCHANGED <<disk, size, old, writing>>
  PROVE  OutputIsFull' /\ BeyondIsOld'
  BY DEF SInv, Contents, OutputIsFull, BeyondIsOld, writing, Written

(* What a successful load leaves, for the caller and in the buffer.        *)
LEMMA ReadFileLoads ==
  ASSUME SInv, NEW n \in 1 .. MaxWords, ReadFile(n), UNCHANGED <<disk, size>>
  PROVE  \E f \in Nat :
           /\ f >= nb_elmt_lu /\ f + pos_in' = NextWord + n /\ NextWord' = NextWord + n
           /\ nb_elmt_lu' \in Nat /\ nb_elmt_lu' <= size /\ nb_elmt_lu' <= f + B
           /\ nb_elmt_lu' >= NextWord + n
           /\ pos_in' \in 0 .. B /\ nb_elmt_Buf_IN' = nb_elmt_lu' - (NextWord + n)
           /\ pBuf_IN' = [i \in Index |-> IF f + i < nb_elmt_lu' THEN disk[f + i] ELSE NoWord]
  <1> DEFINE x     == n - nb_elmt_Buf_IN
             loads == Buffers(x)
             first == nb_elmt_lu + (loads - 1) * B
  <1>1. x \in Nat \ {0} /\ n \in Nat \ {0} BY Numbered DEF ReadFile
  <1>2. loads \in Nat \ {0} /\ x <= loads * B /\ (loads - 1) * B < x BY <1>1, Ceiling
  <1>3. (loads - 1) * B = loads * B - B /\ loads * B \in Nat BY <1>2, Numbered
  <1>4. /\ Load(loads) /\ NextWord + n <= size
        /\ pos_in' = NextWord + n - first
        /\ nb_elmt_Buf_IN' = nb_elmt_lu' - (NextWord + n)
    BY DEF ReadFile, B
  <1>5. /\ nb_elmt_lu' = Smaller(first + B, size)
        /\ pBuf_IN' = [i \in Index |-> IF first + i < nb_elmt_lu' THEN disk[first + i]
                                       ELSE NoWord]
    BY <1>4 DEF Load, B
  <1>6. (loads - 1) * B \in Nat BY <1>2, Numbered
  <1> HIDE DEF loads
  <1>7. first \in Nat /\ first >= nb_elmt_lu BY <1>6, Numbered
  <1>8. NextWord + n = nb_elmt_lu + x BY <1>1, Numbered DEF NextWord
  <1>9. first < NextWord + n /\ NextWord + n <= first + B
    BY <1>1, <1>2, <1>3, <1>6, <1>8, Numbered
  <1> HIDE DEF first, x
  <1>10. /\ nb_elmt_lu' \in Nat /\ nb_elmt_lu' <= size /\ nb_elmt_lu' <= first + B
         /\ nb_elmt_lu' >= NextWord + n
    BY <1>4, <1>5, <1>7, <1>9, Numbered DEF Smaller
  <1>11. pos_in' \in 0 .. B /\ first + pos_in' = NextWord + n
    BY <1>1, <1>4, <1>7, <1>9, Numbered
  <1>12. NextWord' = NextWord + n BY <1>1, <1>4, <1>10, Numbered DEF NextWord
  <1> QED BY <1>4, <1>5, <1>7, <1>10, <1>11, <1>12

LEMMA ReadContents ==
  ASSUME SInv, NEW n \in 1 .. MaxWords, Read(n)
  PROVE  TypeOK' /\ Contents'
  <1>1. /\ UNCHANGED <<disk, size, isOpen, writing, old>>
        /\ order' = IF order = "none" THEN "read" ELSE order
    BY DEF Read
  <1>2. OutputIsFull' /\ BeyondIsOld' BY <1>1, ReadingOnly
  <1>3. CASE ReadBuffer(n)
    <2>1. /\ pos_in' = pos_in + n /\ nb_elmt_Buf_IN' = nb_elmt_Buf_IN - n
          /\ n <= nb_elmt_Buf_IN /\ UNCHANGED <<pBuf_IN, nb_elmt_lu>>
      BY <1>3 DEF ReadBuffer
    <2>2. TypeOK'
      <3>1. /\ pos_in' \in 0 .. B /\ nb_elmt_Buf_IN' \in 0 .. B
            /\ pos_in' + nb_elmt_Buf_IN' <= B /\ nb_elmt_Buf_IN' <= nb_elmt_lu'
        BY <2>1, Numbered
      <3> QED BY <1>1, <2>1, <3>1 DEF SInv, TypeOK, writing, B
    <2>3. InputIsPromised'
      <3> SUFFICES ASSUME NEW a \in Addr, NextWord' <= a, a < nb_elmt_lu'
                   PROVE  Promised(a, pBuf_IN[pos_in + a - NextWord])'
        BY DEF InputIsPromised
      <3>1. NextWord' = NextWord + n BY <2>1, Numbered DEF NextWord
      <3>2. pos_in' + a - NextWord' = pos_in + a - NextWord
        BY <2>1, <3>1, Numbered DEF Addr
      <3>3. Promised(a, pBuf_IN[pos_in + a - NextWord])
        <4>1. NextWord <= a BY <3>1, Numbered DEF Addr
        <4> QED BY <2>1, <4>1 DEF SInv, Contents, InputIsPromised
      <3>4. order' = order BY <1>1, <2>1, Numbered DEF SInv, IInv, Fresh
      <3>5. New' = New BY <1>1 DEF New, writing, Written
      <3> QED BY <1>1, <2>1, <3>2, <3>3, <3>4, <3>5 DEF Promised
    <2> QED BY <1>2, <2>2, <2>3 DEF Contents
  <1>4. CASE ReadFile(n)
    <2>1. PICK f \in Nat :
           /\ f >= nb_elmt_lu /\ f + pos_in' = NextWord + n /\ NextWord' = NextWord + n
           /\ nb_elmt_lu' \in Nat /\ nb_elmt_lu' <= size /\ nb_elmt_lu' <= f + B
           /\ nb_elmt_lu' >= NextWord + n
           /\ pos_in' \in 0 .. B /\ nb_elmt_Buf_IN' = nb_elmt_lu' - (NextWord + n)
           /\ pBuf_IN' = [i \in Index |-> IF f + i < nb_elmt_lu' THEN disk[f + i] ELSE NoWord]
      BY <1>1, <1>4, ReadFileLoads
    <2>2. InputIsPromised'
      <3>1. PICK e \in Nat, k \in Nat : e = nb_elmt_lu' /\ k = pos_in' BY <2>1, Numbered
      <3>2. \A i \in Index : pBuf_IN'[i] = IF f + i < e THEN disk[f + i] ELSE NoWord
        BY <2>1, <3>1
      <3>3. e <= size /\ e <= f + B /\ NextWord' = f + k BY <2>1, <3>1
      <3>4. order' = order \/ order = "none" BY <1>1
      <3> QED BY <1>1, <2>1, <3>1, <3>2, <3>3, <3>4, LoadedIsPromised
    <2>3. TypeOK'
      <3>1. /\ pos_in' \in 0 .. B /\ nb_elmt_Buf_IN' \in 0 .. B
            /\ pos_in' + nb_elmt_Buf_IN' <= B /\ nb_elmt_Buf_IN' <= nb_elmt_lu'
            /\ nb_elmt_lu' \in 0 .. MaxWords
        <4>1. PICK u \in Nat : u = NextWord + n BY Numbered
        <4>2. /\ f + pos_in' = u /\ nb_elmt_Buf_IN' = nb_elmt_lu' - u /\ nb_elmt_lu' >= u
              /\ pos_in' \in 0 .. B /\ nb_elmt_lu' <= f + B
          BY <2>1, <4>1
        <4> QED BY <2>1, <4>2, Numbered
      <3>2. pBuf_IN' \in [Index -> Words \cup {NoWord}]
        <4>1. ASSUME NEW i \in Index, f + i < nb_elmt_lu'
              PROVE  disk[f + i] \in Words \cup {NoWord}
          <5>1. i \in Nat BY DEF Index
          <5>2. f + i \in Nat /\ f + i < size BY <2>1, <4>1, <5>1, Numbered
          <5>3. f + i \in Addr BY <5>2, Numbered DEF Addr
          <5> QED BY <5>3 DEF SInv, TypeOK
        <4> QED BY <2>1, <4>1
      <3> QED BY <1>1, <3>1, <3>2 DEF SInv, TypeOK, writing, B
    <2> QED BY <1>2, <2>2, <2>3 DEF Contents
  <1> QED BY <1>3, <1>4 DEF Read

(* A read of n words is a read of WordStream.                              *)
LEMMA ReadImplements ==
  ASSUME SInv, NEW n \in 1 .. MaxWords, Read(n)
  PROVE  WS!Read
  <1>1. /\ UNCHANGED <<disk, size, isOpen, writing, old>>
        /\ order' = IF order = "none" THEN "read" ELSE order
    BY DEF Read
  <1>2. n \in Nat \ {0} BY Numbered
  <1>3. NextWord' = NextWord + n /\ NextWord + n <= MaxWords
        /\ (NextWord + n <= nb_elmt_lu \/ NextWord + n <= size)
    <2>1. CASE ReadBuffer(n)
      BY <1>2, <2>1, Numbered DEF ReadBuffer, NextWord
    <2>2. CASE ReadFile(n)
      <3>1. NextWord' = NextWord + n BY <1>1, <2>2, ReadFileLoads
      <3> QED BY <2>2, <3>1, Numbered DEF ReadFile
    <2> QED BY <2>1, <2>2 DEF Read
  <1> DEFINE got(a) == IF a \notin NextWord .. NextWord + n - 1 THEN NoWord
                       ELSE IF a < nb_elmt_lu THEN pBuf_IN[pos_in + a - NextWord] ELSE disk[a]
  <1>4. bucket' = [ok |-> TRUE, from |-> NextWord, words |-> [a \in Addr |-> got(a)]]
    BY DEF Read
  <1>5. ASSUME NEW a \in Addr, a \in NextWord .. NextWord + n - 1
        PROVE  Promised(a, got(a)) /\ got(a) \in Words \cup {NoWord}
    <2>1. CASE a < nb_elmt_lu
      <3>1. NextWord <= a BY <1>2, <1>5, Numbered
      <3>2. got(a) = pBuf_IN[pos_in + a - NextWord] BY <1>5, <2>1
      <3>3. pos_in + a - NextWord \in Index
        <4>1. nb_elmt_lu = NextWord + nb_elmt_Buf_IN BY Numbered DEF NextWord
        <4> QED BY <2>1, <3>1, <4>1, Numbered DEF Index, Addr, B
      <3>4. Promised(a, pBuf_IN[pos_in + a - NextWord])
        BY <2>1, <3>1 DEF SInv, Contents, InputIsPromised
      <3> QED BY <3>2, <3>3, <3>4 DEF SInv, TypeOK
    <2>2. CASE ~(a < nb_elmt_lu)
      <3>1. a >= nb_elmt_lu /\ a < size BY <1>2, <1>3, <1>5, <2>2, Numbered DEF Addr
      <3>2. got(a) = disk[a] BY <1>5, <2>2
      <3> QED BY <3>1, <3>2, DiskIsPromised DEF SInv, TypeOK
    <2> QED BY <2>1, <2>2
  <1>6. ASSUME NEW a \in Addr, a \notin NextWord .. NextWord + n - 1 PROVE got(a) = NoWord
    BY <1>6
  <1> HIDE DEF got
  <1>7. [a \in Addr |-> got(a)] \in [Addr -> Words \cup {NoWord}] BY <1>5, <1>6
  <1>8. \A a \in Addr : bucket'.words[a] = got(a) BY <1>4
  <1>9. New' = New BY <1>1 DEF New, writing, Written
  <1>10. NextWord' \in NextWord + 1 .. MaxWords BY <1>2, <1>3, Numbered
  <1>11. NextWord' - 1 = NextWord + n - 1 BY <1>2, <1>3, Numbered
  <1>12. \A a \in Addr :
           IF a \in NextWord .. NextWord' - 1
           THEN /\ bucket'.words[a] # NoWord
                /\ \/ bucket'.words[a] = old[a]
                   \/ bucket'.words[a] = New[a] /\ (order = "write" \/ old[a] = NoWord)
           ELSE bucket'.words[a] = NoWord
    BY <1>5, <1>6, <1>8, <1>11 DEF Promised
  <1>13. bucket' \in [ok : {TRUE}, from : {NextWord}, words : [Addr -> Words \cup {NoWord}]]
    BY <1>4, <1>7
  <1> QED BY <1>1, <1>9, <1>10, <1>12, <1>13 DEF WS!Read, WS!Addr, New, Addr

(* A read past the end, when there was something left to load.             *)
LEMMA PastEndLoads ==
  ASSUME SInv, NEW n \in 1 .. MaxWords, ReadPastEnd(n), nb_elmt_lu < size
  PROVE  \E f \in Nat :
           /\ f >= nb_elmt_lu /\ f < size /\ size <= f + B
           /\ nb_elmt_lu' = size /\ pos_in' = 0 /\ nb_elmt_Buf_IN' = size - f /\ NextWord' = f
           /\ pBuf_IN' = [i \in Index |-> IF f + i < size THEN disk[f + i] ELSE NoWord]
  <1> DEFINE x     == size - nb_elmt_lu
             loads == Buffers(x)
             first == nb_elmt_lu + (loads - 1) * B
  <1>1. x \in Nat \ {0} BY Numbered
  <1>2. loads \in Nat \ {0} /\ x <= loads * B /\ (loads - 1) * B < x BY <1>1, Ceiling
  <1>3. (loads - 1) * B = loads * B - B /\ loads * B \in Nat /\ (loads - 1) * B \in Nat
    BY <1>2, Numbered
  <1>4. ~(nb_elmt_lu >= size) BY Numbered
  <1>5. Load(loads) /\ pos_in' = 0 /\ nb_elmt_Buf_IN' = size - first
    BY <1>4 DEF ReadPastEnd, B
  <1>6. /\ nb_elmt_lu' = Smaller(first + B, size)
        /\ pBuf_IN' = [i \in Index |-> IF first + i < nb_elmt_lu' THEN disk[first + i]
                                       ELSE NoWord]
    BY <1>5 DEF Load, B
  <1> HIDE DEF loads
  <1>7. first \in Nat /\ first >= nb_elmt_lu /\ first < size /\ size <= first + B
    BY <1>1, <1>2, <1>3, Numbered
  <1> HIDE DEF first
  <1>8. nb_elmt_lu' = size BY <1>6, <1>7, Numbered DEF Smaller
  <1>9. NextWord' = first BY <1>5, <1>7, <1>8, Numbered DEF NextWord
  <1> QED BY <1>5, <1>6, <1>7, <1>8, <1>9

LEMMA ReadPastEndContents ==
  ASSUME SInv, NEW n \in 1 .. MaxWords, ReadPastEnd(n)
  PROVE  TypeOK' /\ Contents' /\ WS!ReadPastEnd
  <1>1. /\ UNCHANGED <<disk, size, isOpen, writing, old>> /\ bucket' = Failed(n)
        /\ order' = IF order = "none" /\ nb_elmt_lu' # 0 THEN "read" ELSE order
    BY DEF ReadPastEnd
  <1>2. OutputIsFull' /\ BeyondIsOld' BY <1>1, ReadingOnly
  <1>3. New' = New BY <1>1 DEF New, writing, Written
  <1>4. order' \in {order, IF order = "none" THEN "read" ELSE order} BY <1>1
  \* the words asked for are not all in the file, nor were they
  <1>7. NextWord + n <= MaxWords => old[NextWord + n - 1] = NoWord
    <2> SUFFICES ASSUME NextWord + n <= MaxWords PROVE old[NextWord + n - 1] = NoWord
      OBVIOUS
    <2>1. NextWord + n - 1 \in Addr /\ NextWord + n - 1 >= size
      BY Numbered DEF ReadPastEnd, Addr
    <2> QED BY <2>1 DEF SInv, IInv, OldEnds
  <1>8. Failed(n) = WS!Failed(n) BY DEF Failed, WS!Failed
  <1>5. CASE nb_elmt_lu >= size
    <2>1. UNCHANGED reading BY <1>5 DEF ReadPastEnd
    <2>2. order' = order BY <1>1, <2>1 DEF reading, SInv, IInv, Fresh
    <2>3. TypeOK' BY <1>1, <2>1, <2>2 DEF reading, writing, SInv, TypeOK
    <2>4. UNCHANGED NextWord BY <2>1 DEF reading, NextWord
    <2>5. InputIsPromised'
      BY <1>1, <1>3, <2>1, <2>2, <2>4
         DEF reading, SInv, Contents, InputIsPromised, Promised
    <2>6. NextWord \in NextWord .. MaxWords /\ ~(NextWord > NextWord) BY Numbered
    <2>7. WS!ReadPastEnd BY <1>1, <1>3, <1>4, <1>7, <1>8, <2>4, <2>6
            DEF WS!ReadPastEnd, New
    <2> QED BY <1>2, <2>3, <2>5, <2>7 DEF Contents
  <1>6. CASE ~(nb_elmt_lu >= size)
    <2>1. nb_elmt_lu < size BY <1>6, Numbered
    <2>2. PICK f \in Nat :
           /\ f >= nb_elmt_lu /\ f < size /\ size <= f + B
           /\ nb_elmt_lu' = size /\ pos_in' = 0 /\ nb_elmt_Buf_IN' = size - f /\ NextWord' = f
           /\ pBuf_IN' = [i \in Index |-> IF f + i < size THEN disk[f + i] ELSE NoWord]
      BY <2>1, PastEndLoads
    <2>3. order' = order \/ order = "none" BY <1>1
    <2>4. InputIsPromised'
      <3>1. size \in Nat /\ size <= size /\ NextWord' = f + 0 BY <2>2, Numbered
      <3>2. \A i \in Index : pBuf_IN'[i] = IF f + i < size THEN disk[f + i] ELSE NoWord
        BY <2>2
      <3> QED BY <1>1, <2>2, <2>3, <3>1, <3>2, LoadedIsPromised
    <2>5. TypeOK'
      <3>1. /\ pos_in' \in 0 .. B /\ nb_elmt_Buf_IN' \in 0 .. B
            /\ pos_in' + nb_elmt_Buf_IN' <= B /\ nb_elmt_Buf_IN' <= nb_elmt_lu'
            /\ nb_elmt_lu' \in 0 .. MaxWords
        BY <2>2, Numbered
      <3>2. pBuf_IN' \in [Index -> Words \cup {NoWord}]
        <4>1. ASSUME NEW i \in Index, f + i < size
              PROVE  disk[f + i] \in Words \cup {NoWord}
          <5>1. i \in Nat BY DEF Index
          <5>2. f + i \in Addr BY <4>1, <5>1, Numbered DEF Addr
          <5> QED BY <5>2 DEF SInv, TypeOK
        <4> QED BY <2>2, <4>1
      <3>3. order' \in {"none", "read", "write"} BY <1>1 DEF SInv, TypeOK
      <3> QED BY <1>1, <3>1, <3>2, <3>3 DEF SInv, TypeOK, writing, B
    <2>6. NextWord' \in NextWord .. MaxWords BY <2>2, Numbered
    <2>7. NextWord' > NextWord => WS!Over(New, old)[NextWord' - 1] # NoWord
      <3> SUFFICES ASSUME f > NextWord PROVE WS!Over(New, old)[f - 1] # NoWord BY <2>2
      <3>1. f - 1 \in Addr /\ f - 1 < size BY <2>2, Numbered DEF Addr
      <3>2. disk[f - 1] # NoWord BY <3>1 DEF SInv, TypeOK
      <3>3. f - 1 < nb_elmt_ecrit \/ f - 1 >= nb_elmt_ecrit BY <3>1, Numbered DEF Addr
      <3>4. New[f - 1] # NoWord \/ disk[f - 1] = old[f - 1] BY <3>1, <3>3, Generations
      <3> QED BY <3>1, <3>2, <3>4 DEF WS!Over, WS!Addr, Addr
    <2>8. WS!ReadPastEnd BY <1>1, <1>3, <1>4, <1>7, <1>8, <2>6, <2>7
            DEF WS!ReadPastEnd, New
    <2> QED BY <1>2, <2>4, <2>5, <2>8 DEF Contents
  <1> QED BY <1>5, <1>6

---------------------------------------------------------------------------
(* write_db_file. *)

(* The flush ends at a whole buffer between what was flushed before and    *)
(* the last word written.                                                  *)
LEMMA FlushEnds ==
  ASSUME SInv, NEW n \in Nat \ {0}, Written + n <= MaxWords
  PROVE  LET flushed == ((Written + n - 1) \div B) * B
         IN  /\ flushed \in Nat /\ nb_elmt_ecrit <= flushed
             /\ flushed < Written + n /\ Written + n <= flushed + B
  <1> DEFINE q == (Written + n - 1) \div B
  <1>1. Written + n - 1 \in Nat BY Numbered
  <1>2. q \in Nat /\ q * B <= Written + n - 1 /\ Written + n - 1 < q * B + B
    BY <1>1, Floor
  <1> HIDE DEF q
  <1>3. q * B \in Nat BY <1>2, Numbered
  <1>4. PICK m \in Nat : nb_elmt_ecrit = m * B BY DEF SInv, IInv, Rounded, Multiple
  <1>5. m * B < q * B + B BY <1>1, <1>2, <1>3, <1>4, Numbered
  <1>6. nb_elmt_ecrit <= q * B BY <1>2, <1>4, <1>5, NoPartialBuffer
  <1> QED BY <1>1, <1>2, <1>3, <1>6, Numbered DEF q

LEMMA WriteContents ==
  ASSUME SInv, NEW n \in 1 .. MaxWords, NEW w \in [0 .. n - 1 -> Words], Write(n, w)
  PROVE  TypeOK' /\ Contents' /\ WS!Write
  <1> DEFINE put(a)  == IF a < Written THEN pBuf_OUT[a - nb_elmt_ecrit] ELSE w[a - Written]
  <1>0. /\ B \in Nat \ {0} /\ MaxWords \in Nat \ {0} /\ size \in 0 .. MaxWords
        /\ Written \in Nat /\ nb_elmt_ecrit \in Nat /\ nb_elmt_ecrit <= Written
        /\ Written <= MaxWords
    BY Numbered
  <1>1. n \in Nat \ {0} /\ Written + n \in Nat /\ Written + n <= MaxWords
    BY <1>0 DEF Write
  <1> DEFINE flushed == ((Written + n - 1) \div B) * B
  <1>2. /\ flushed \in Nat /\ nb_elmt_ecrit <= flushed
        /\ flushed < Written + n /\ Written + n <= flushed + B
    BY <1>1, FlushEnds
  <1>3. /\ disk' = [a \in Addr |-> IF a \in nb_elmt_ecrit .. flushed - 1 THEN put(a) ELSE disk[a]]
        /\ size' = Larger(size, flushed)
        /\ pBuf_OUT' = [i \in Index |-> IF flushed + i < Written + n THEN put(flushed + i)
                                        ELSE NoWord]
        /\ nb_elmt_ecrit' = flushed /\ pos_out' = Written + n - flushed
        /\ order' = IF order = "none" THEN "write" ELSE order
        /\ UNCHANGED <<isOpen, reading, bucket, old>>
    BY DEF Write, B
  <1> HIDE DEF flushed
  <1>4. ASSUME NEW a \in Addr, a >= nb_elmt_ecrit, a < Written + n
        PROVE  put(a) \in Words /\ put(a) # NoWord /\ (a < Written => put(a) = New[a])
    <2>1. CASE a < Written
      <3>1. a \in nb_elmt_ecrit .. Written - 1 BY <1>0, <1>4, <2>1 DEF Addr
      <3>2. put(a) = New[a] /\ New[a] # NoWord BY <2>1, <3>1, Generations
      <3> QED BY <3>2, NewWords
    <2>2. CASE ~(a < Written)
      <3>1. a - Written \in 0 .. n - 1 BY <1>0, <1>1, <1>2, <1>4, <2>2 DEF Addr
      <3>2. put(a) = w[a - Written] BY <2>2
      <3> QED BY <2>2, <3>1, <3>2, TwinBufferAssumption
    <2> QED BY <2>1, <2>2
  <1> HIDE DEF put
  <1>5. pos_out' = Written + n - flushed /\ pos_out' \in 1 .. B BY <1>0, <1>1, <1>2, <1>3
  <1>6. Written' = Written + n
    <2>1. Written' = flushed + pos_out' BY <1>3 DEF Written
    <2> QED BY <1>0, <1>1, <1>2, <1>5, <2>1
  <1>7. size' \in 0 .. MaxWords /\ size' >= size /\ size' >= flushed
        /\ (size' = size \/ size' = flushed)
    <2>1. size' = IF size < flushed THEN flushed ELSE size BY <1>3 DEF Larger
    <2> QED BY <1>0, <1>1, <1>2, <1>5, <2>1
  <1>8. ASSUME NEW i \in Index
        PROVE  /\ pBuf_OUT'[i] \in Words \cup {NoWord}
               /\ i < pos_out' => pBuf_OUT'[i] # NoWord /\ pBuf_OUT'[i] = put(flushed + i)
    <2>1. i \in Nat BY DEF Index
    <2>2. CASE flushed + i < Written + n
      <3>1. flushed + i \in Addr /\ flushed + i >= nb_elmt_ecrit
        BY <1>0, <1>1, <1>2, <2>1, <2>2 DEF Addr
      <3>2. pBuf_OUT'[i] = put(flushed + i) BY <1>3, <2>2
      <3> QED BY <1>4, <2>2, <3>1, <3>2
    <2>3. CASE ~(flushed + i < Written + n)
      <3>1. pBuf_OUT'[i] = NoWord BY <1>3, <2>3
      <3>2. ~(i < pos_out') BY <1>0, <1>1, <1>2, <1>5, <2>1, <2>3
      <3> QED BY <3>1, <3>2
    <2> QED BY <2>2, <2>3
  <1>9. ASSUME NEW a \in Addr
        PROVE  /\ disk'[a] \in Words \cup {NoWord}
               /\ a < size' <=> disk'[a] # NoWord
               /\ a >= flushed => disk'[a] = disk[a]
               /\ a < nb_elmt_ecrit => disk'[a] = disk[a]
               /\ a >= nb_elmt_ecrit /\ a < flushed => disk'[a] = put(a)
    <2>0. a \in Nat BY DEF Addr
    <2>1. CASE a \in nb_elmt_ecrit .. flushed - 1
      <3>1. a >= nb_elmt_ecrit /\ a < flushed /\ a < Written + n
        BY <1>1, <1>2, <2>0, <2>1
      <3>2. disk'[a] = put(a) BY <1>3, <2>1
      <3>3. a < size' /\ ~(a >= flushed) /\ ~(a < nb_elmt_ecrit)
        <4>1. size' \in Nat /\ size' >= flushed BY <1>0, <1>7
        <4>2. flushed \in Nat /\ nb_elmt_ecrit \in Nat BY <1>0, <1>2
        <4> QED BY <2>0, <3>1, <4>1, <4>2
      <3> QED BY <1>4, <3>1, <3>2, <3>3
    <2>2. CASE a \notin nb_elmt_ecrit .. flushed - 1
      <3>1. disk'[a] = disk[a] BY <1>3, <2>2
      <3>2. ~(a >= nb_elmt_ecrit /\ a < flushed) BY <1>0, <1>2, <2>0, <2>2
      <3>3. a < size' <=> a < size
        <4>1. nb_elmt_ecrit <= size BY DEF SInv, Contents, OutputIsFull
        <4>2. a < flushed => a < nb_elmt_ecrit BY <1>0, <1>2, <2>0, <3>2
        <4>3. size' \in Nat /\ size \in Nat /\ nb_elmt_ecrit \in Nat BY <1>0, <1>7
        <4>4. a < size => a < size' BY <1>7, <2>0, <4>3
        <4>5. CASE size' = size BY <4>5
        <4>6. CASE size' = flushed
          <5>1. a < size' => a < nb_elmt_ecrit BY <4>2, <4>6
          <5> QED BY <2>0, <4>1, <4>3, <4>4, <5>1
        <4> QED BY <1>7, <4>5, <4>6
      <3> QED BY <3>1, <3>2, <3>3 DEF SInv, TypeOK
    <2> QED BY <2>1, <2>2
  <1>10. TypeOK'
    <2>1. pBuf_OUT' \in [Index -> Words \cup {NoWord}] BY <1>3, <1>8
    <2>2. disk' \in [Addr -> Words \cup {NoWord}] BY <1>3, <1>9
    <2>3. pos_out' \in 0 .. B /\ nb_elmt_ecrit' \in 0 .. MaxWords
      <3>1. nb_elmt_ecrit' = flushed BY <1>3
      <3> QED BY <1>0, <1>1, <1>2, <1>5, <3>1
    <2>4. order' \in {"none", "read", "write"} BY <1>3 DEF SInv, TypeOK
    <2> QED BY <1>3, <1>7, <1>9, <2>1, <2>2, <2>3, <2>4 DEF SInv, TypeOK, reading, B
  <1>11. OutputIsFull' BY <1>1, <1>3, <1>6, <1>7, <1>8 DEF OutputIsFull
  <1>12. BeyondIsOld'
    <2> SUFFICES ASSUME NEW a \in Addr, a >= flushed PROVE disk'[a] = old[a]
      BY <1>3 DEF BeyondIsOld
    <2>1. a >= nb_elmt_ecrit BY <1>0, <1>2 DEF Addr
    <2> QED BY <1>9, <2>1, Generations
  <1>13. ASSUME NEW a \in Addr
         PROVE  /\ New'[a] \in Words \cup {NoWord}
                /\ New'[a] # NoWord <=> a < Written + n
                /\ New[a] # NoWord => New'[a] = New[a]
    <2>0. a \in Nat BY DEF Addr
    <2>1. New'[a] = IF a < flushed THEN disk'[a]
                    ELSE IF a < Written + n THEN pBuf_OUT'[a - flushed] ELSE NoWord
      BY <1>3, <1>6 DEF New
    <2>2. CASE a < nb_elmt_ecrit
      <3>1. a < flushed /\ a < Written + n BY <1>0, <1>2, <2>0, <2>2
      <3>2. New'[a] = New[a] /\ New[a] # NoWord BY <1>9, <2>1, <2>2, <3>1, Generations
      <3> QED BY <3>1, <3>2, NewWords
    <2>3. CASE a >= nb_elmt_ecrit /\ a < Written + n
      <3>1. New'[a] = put(a)
        <4>1. CASE a < flushed BY <1>9, <2>1, <2>3, <4>1
        <4>2. CASE ~(a < flushed)
          <5>1. a - flushed \in Index /\ a - flushed < pos_out' /\ flushed + (a - flushed) = a
            <6>1. a - flushed \in Nat /\ a - flushed < Written + n - flushed /\ flushed + (a - flushed) = a
              BY <1>0, <1>1, <1>2, <1>5, <2>0, <2>3, <4>2
            <6>2. a - flushed \in 0 .. B - 1 BY <1>0, <1>1, <1>2, <1>5, <6>1
            <6> QED BY <1>5, <6>1, <6>2 DEF Index, B
          <5>2. pBuf_OUT'[a - flushed] = put(a) BY <1>8, <5>1
          <5> QED BY <2>1, <2>3, <4>2, <5>2
        <4> QED BY <4>1, <4>2
      <3>2. New[a] # NoWord => a < Written BY NewWords
      <3> QED BY <1>4, <2>3, <3>1, <3>2
    <2>4. CASE ~(a < Written + n)
      <3>1. ~(a < flushed) /\ ~(a < Written) BY <1>0, <1>1, <1>2, <2>0, <2>4
      <3>2. New'[a] = NoWord BY <2>1, <2>4, <3>1
      <3>3. New[a] = NoWord BY <3>1, NewWords
      <3> QED BY <2>4, <3>2, <3>3
    <2> QED BY <1>0, <1>1, <2>0, <2>2, <2>3, <2>4
  <1>14. InputIsPromised'
    <2>1. CASE order = "none"
      <3>1. nb_elmt_lu = 0 /\ nb_elmt_Buf_IN = 0 BY <2>1 DEF SInv, IInv, Fresh
      <3>2. nb_elmt_lu' = 0 BY <1>3, <3>1 DEF reading
      <3>3. \A a \in Addr : ~(a < nb_elmt_lu') BY <3>2 DEF Addr
      <3> QED BY <3>3 DEF InputIsPromised
    <2>2. CASE order # "none"
      <3>1. order' = order BY <1>3, <2>2
      <3>2. UNCHANGED <<NextWord, pBuf_IN, pos_in, nb_elmt_lu, old>>
        BY <1>3 DEF reading, NextWord
      <3> SUFFICES ASSUME NEW a \in Addr, NextWord <= a, a < nb_elmt_lu
                   PROVE  Promised(a, pBuf_IN[pos_in + a - NextWord])'
        BY <3>2 DEF InputIsPromised
      <3>3. Promised(a, pBuf_IN[pos_in + a - NextWord])
        BY DEF SInv, Contents, InputIsPromised
      <3>4. New[a] # NoWord => New'[a] = New[a] BY <1>13
      <3> QED BY <3>1, <3>2, <3>3, <3>4 DEF Promised
    <2> QED BY <2>1, <2>2
  <1>15. WS!Write
    <2>1. New' \in [Addr -> Words \cup {NoWord}] BY <1>13 DEF New
    <2>2. New' # New
      <3>1. Written \in Addr /\ Written < Written + n /\ ~(Written < Written)
        BY <1>0, <1>1 DEF Addr
      <3>2. New'[Written] # NoWord BY <1>13, <3>1
      <3>3. New[Written] = NoWord BY <3>1, NewWords
      <3> QED BY <3>2, <3>3
    <2>3. \A a \in Addr : New[a] # NoWord => New'[a] = New[a] BY <1>13
    <2>4. \E m \in 0 .. MaxWords : \A a \in Addr : a < m <=> New'[a] # NoWord
      <3>1. Written + n \in 0 .. MaxWords BY <1>0, <1>1
      <3> QED BY <1>13, <3>1
    <2>5. UNCHANGED NextWord BY <1>3 DEF reading, NextWord
    <2> QED BY <1>3, <2>1, <2>2, <2>3, <2>4, <2>5 DEF WS!Write, WS!Addr, New, Addr
  <1> QED BY <1>10, <1>11, <1>12, <1>14, <1>15 DEF Contents

---------------------------------------------------------------------------
(* The other operations, and the theorem. *)

LEMMA EmptyBuffers ==
  ASSUME SInv, ClearBuffers
  PROVE  /\ New' = Empty /\ NextWord' = 0 /\ Written' = 0 /\ nb_elmt_lu' = 0 /\ pos_out' = 0
         /\ nb_elmt_ecrit' = 0 /\ order' = "none"
         /\ InputIsPromised'
  <1>1. /\ NextWord' = 0 /\ Written' = 0 /\ nb_elmt_lu' = 0 /\ pos_out' = 0
        /\ nb_elmt_ecrit' = 0 /\ order' = "none"
    BY DEF ClearBuffers, NextWord, Written
  <1>2. \A a \in Addr : ~(a < 0) BY DEF Addr
  <1>3. New' = Empty BY <1>1, <1>2 DEF New, Empty
  <1> QED BY <1>1, <1>2, <1>3 DEF InputIsPromised

(* A new pass is well typed when what it starts from is.                   *)
LEMMA NewPassContents ==
  ASSUME SInv, ClearBuffers, old' = disk', isOpen' \in BOOLEAN,
         size' \in 0 .. MaxWords, disk' \in [Addr -> Words \cup {NoWord}],
         \A a \in Addr : a < size' <=> disk'[a] # NoWord
  PROVE  TypeOK' /\ Contents'
  <1>1. EmptyBuffer \in [Index -> Words \cup {NoWord}] BY DEF EmptyBuffer
  <1>2. TypeOK' BY <1>1, Numbered DEF ClearBuffers, TypeOK, B
  <1>3. OutputIsFull'
    <2>1. pos_out' = 0 /\ nb_elmt_ecrit' = 0 /\ Written' = 0 BY EmptyBuffers
    <2>2. \A i \in Index : ~(i < 0) BY DEF Index
    <2> QED BY <2>1, <2>2, Numbered DEF OutputIsFull
  <1>4. BeyondIsOld' BY DEF BeyondIsOld
  <1> QED BY <1>2, <1>3, <1>4, EmptyBuffers DEF Contents

LEMMA RewindContents ==
  ASSUME SInv, RewindFile, isOpen' \in BOOLEAN
  PROVE  TypeOK' /\ Contents' /\ WS!Rewind
  <1>1. /\ disk' = Flush /\ size' = Larger(size, Written) /\ old' = disk'
        /\ ClearBuffers /\ UNCHANGED bucket
    BY DEF RewindFile
  <1>2. ASSUME NEW a \in Addr
        PROVE  /\ disk'[a] = IF New[a] # NoWord THEN New[a] ELSE old[a]
               /\ disk'[a] \in Words \cup {NoWord}
               /\ disk'[a] # NoWord <=> a < Written \/ a < size
    <2>0. a \in Nat BY DEF Addr
    <2>1. CASE a < nb_elmt_ecrit
      <3>1. a \notin nb_elmt_ecrit .. Written - 1 BY <2>0, <2>1, Numbered
      <3>2. disk'[a] = disk[a] BY <1>1, <3>1 DEF Flush
      <3>3. New[a] = disk[a] /\ New[a] # NoWord BY <2>1, Generations
      <3> QED BY <3>2, <3>3, NewWords
    <2>2. CASE a \in nb_elmt_ecrit .. Written - 1
      <3>1. disk'[a] = pBuf_OUT[a - nb_elmt_ecrit] BY <1>1, <2>2 DEF Flush
      <3>2. New[a] = pBuf_OUT[a - nb_elmt_ecrit] /\ New[a] # NoWord BY <2>2, Generations
      <3> QED BY <3>1, <3>2, NewWords
    <2>3. CASE a >= Written
      <3>1. a \notin nb_elmt_ecrit .. Written - 1 /\ a >= nb_elmt_ecrit /\ ~(a < Written)
        BY <2>0, <2>3, Numbered
      <3>2. disk'[a] = disk[a] BY <1>1, <3>1 DEF Flush
      <3>3. New[a] = NoWord /\ disk[a] = old[a] BY <2>3, <3>1, Generations
      <3> QED BY <3>1, <3>2, <3>3 DEF SInv, TypeOK
    <2> QED BY <2>0, <2>1, <2>2, <2>3, Numbered
  <1>3. disk' \in [Addr -> Words \cup {NoWord}] BY <1>1, <1>2 DEF Flush
  <1>4. size' \in 0 .. MaxWords /\ \A a \in Addr : a < size' <=> a < Written \/ a < size
    <2>1. size \in Nat /\ Written \in Nat /\ size <= MaxWords /\ Written <= MaxWords
      BY Numbered
    <2>2. size' = IF size < Written THEN Written ELSE size BY <1>1 DEF Larger
    <2> QED BY <2>1, <2>2 DEF Addr
  <1>5. TypeOK' /\ Contents' BY <1>1, <1>2, <1>3, <1>4, NewPassContents
  <1>6. disk' = [a \in Addr |-> disk'[a]] BY <1>3
  <1>7. disk' = WS!Over(New, old) BY <1>2, <1>6 DEF WS!Over, WS!Addr, Addr
  <1>8. /\ New' = Empty /\ NextWord' = 0 /\ order' = "none" BY <1>1, EmptyBuffers
  <1> QED BY <1>1, <1>5, <1>7, <1>8 DEF WS!Rewind, WS!Empty, WS!Addr, Empty, New, Addr

LEMMA StopContents ==
  ASSUME SInv, Stop
  PROVE  TypeOK' /\ Contents' /\ WS!Stop
  <1>1. /\ isOpen' = FALSE /\ old' = disk /\ bucket' = NoRead /\ ClearBuffers
        /\ UNCHANGED <<disk, size>>
    BY DEF Stop
  <1>2. TypeOK' /\ Contents' BY <1>1, NewPassContents DEF SInv, TypeOK
  <1>3. New' = Empty /\ NextWord' = 0 /\ order' = "none" BY <1>1, EmptyBuffers
  <1>4. nb_elmt_ecrit \in 0 .. MaxWords BY Numbered
  <1>5. ASSUME NEW a \in Addr
        PROVE  disk[a] = IF a < nb_elmt_ecrit /\ New[a] # NoWord THEN New[a] ELSE old[a]
    <2>1. a < nb_elmt_ecrit \/ a >= nb_elmt_ecrit BY <1>4 DEF Addr
    <2>2. CASE a < nb_elmt_ecrit BY <2>2, Generations
    <2>3. CASE ~(a < nb_elmt_ecrit) BY <2>1, <2>3, Generations
    <2> QED BY <2>2, <2>3
  <1>6. disk = [a \in Addr |-> disk[a]] BY DEF SInv, TypeOK
  <1>7. old' = [a \in Addr |-> IF a < nb_elmt_ecrit /\ New[a] # NoWord THEN New[a]
                               ELSE old[a]]
    BY <1>1, <1>5, <1>6
  <1> QED BY <1>1, <1>2, <1>3, <1>4, <1>7
          DEF WS!Stop, WS!NoRead, NoRead, WS!Failed, Failed, WS!Empty, Empty, WS!Addr, Addr, New

LEMMA InitContents == Init => TypeOK /\ Contents /\ WS!Init
  <1> SUFFICES ASSUME Init PROVE TypeOK /\ Contents /\ WS!Init OBVIOUS
  <1>0. B \in Nat \ {0} /\ MaxWords \in Nat \ {0} BY TwinBufferAssumption DEF B
  <1>1. \A a \in Addr : ~(a < 0) /\ Empty[a] = NoWord BY DEF Addr, Empty
  <1>2. Empty \in [Addr -> Words \cup {NoWord}] /\ EmptyBuffer \in [Index -> Words \cup {NoWord}]
    BY DEF Empty, EmptyBuffer
  <1>3. TypeOK
    <2>1. \A a \in Addr : a < 0 <=> Empty[a] # NoWord BY <1>1
    <2>2. /\ size \in 0 .. MaxWords /\ nb_elmt_lu \in 0 .. MaxWords
          /\ nb_elmt_ecrit \in 0 .. MaxWords
          /\ pos_in \in 0 .. BUF_SIZE_W /\ nb_elmt_Buf_IN \in 0 .. BUF_SIZE_W
          /\ pos_out \in 0 .. BUF_SIZE_W
          /\ pos_in + nb_elmt_Buf_IN <= BUF_SIZE_W /\ nb_elmt_Buf_IN <= nb_elmt_lu
      BY <1>0 DEF B, Init
    <2>3. \A a \in Addr : a < size <=> disk[a] # NoWord BY <2>1 DEF Init
    <2> QED BY <1>2, <2>2, <2>3 DEF Init, TypeOK
  <1>4. Written = 0 /\ NextWord = 0 BY DEF Init, Written, NextWord
  <1>5. New = Empty BY <1>1, <1>4 DEF Init, New, Empty
  <1>6. \A i \in Index : ~(i < 0) BY DEF Index
  <1>7. Contents
    BY <1>0, <1>1, <1>4, <1>6 DEF Init, Contents, OutputIsFull, BeyondIsOld, InputIsPromised
  <1>8. WS!Init
    BY <1>4, <1>5 DEF Init, WS!Init, WS!Empty, Empty, WS!Addr, Addr, WS!NoRead, NoRead, WS!Failed, Failed, New
  <1> QED BY <1>3, <1>7, <1>8

LEMMA StepContents == SInv /\ [Next]_vars => SInv' /\ [WS!Next]_(WS!vars)
  <1> SUFFICES ASSUME SInv, [Next]_vars PROVE SInv' /\ [WS!Next]_(WS!vars) OBVIOUS
  <1>1. IInv' BY NextInv DEF SInv
  <1>2. CASE UNCHANGED vars \/ Open
    <2>1. UNCHANGED <<disk, size, reading, writing, bucket, old, order>> /\ isOpen' \in BOOLEAN
      BY <1>2 DEF vars, Open, SInv, TypeOK
    <2>2. TypeOK' BY <2>1 DEF SInv, TypeOK, reading, writing
    <2>3. UNCHANGED <<New, NextWord, Written>>
      BY <2>1 DEF New, NextWord, Written, reading, writing
    <2>4. Contents' BY <2>1, <2>3 DEF SInv, Contents, OutputIsFull, BeyondIsOld,
                                      InputIsPromised, Promised, reading, writing
    <2>5. UNCHANGED WS!vars BY <2>1, <2>3 DEF WS!vars, New
    <2> QED BY <1>1, <2>2, <2>4, <2>5 DEF SInv
  <1>3. CASE Rewind \/ Close
    <2>1. RewindFile /\ isOpen' \in BOOLEAN
      BY <1>3 DEF Rewind, Close, SInv, TypeOK
    <2> QED BY <1>1, <2>1, RewindContents DEF SInv, WS!Next
  <1>4. CASE Stop BY <1>1, <1>4, StopContents DEF SInv, WS!Next
  <1>5. ASSUME NEW n \in 1 .. MaxWords, Read(n) PROVE SInv' /\ WS!Next
    BY <1>1, <1>5, ReadContents, ReadImplements DEF SInv, WS!Next
  <1>6. ASSUME NEW n \in 1 .. MaxWords, ReadPastEnd(n) PROVE SInv' /\ WS!Next
    BY <1>1, <1>6, ReadPastEndContents DEF SInv, WS!Next
  <1>7. ASSUME NEW n \in 1 .. MaxWords, NEW w \in [0 .. n - 1 -> Words], Write(n, w)
        PROVE  SInv' /\ WS!Next
    BY <1>1, <1>7, WriteContents DEF SInv, WS!Next
  <1> QED BY <1>2, <1>3, <1>4, <1>5, <1>6, <1>7 DEF Next

(* The counts of the two buffers stay in them, and the file has no hole.   *)
THEOREM TwinTypes == Spec => []TypeOK
  <1>1. Init => SInv BY InitInv, InitContents DEF SInv
  <1>2. SInv /\ [Next]_vars => SInv' BY StepContents
  <1>3. SInv => TypeOK BY DEF SInv
  <1> QED BY <1>1, <1>2, <1>3, PTL DEF Spec

(* Reading and rewriting one file through two buffers is reading and       *)
(* rewriting a plain stream of words: every read gives what WordStream      *)
(* promises, every rewind and every stop leaves the file it promises.       *)
THEOREM KeepsPromise == Spec => Promise
  <1>1. Init => SInv /\ WS!Init BY InitInv, InitContents DEF SInv
  <1>2. SInv /\ [Next]_vars => SInv' /\ [WS!Next]_(WS!vars) BY StepContents
  <1> QED BY <1>1, <1>2, PTL DEF Spec, Promise, WS!Spec
=============================================================================
