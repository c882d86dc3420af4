---------------------------- MODULE WordStream ----------------------------
(***************************************************************************)
(* What the twin buffered file (I_O_2Buffer.c) promises its caller.  A file *)
(* of words is read from its start and, in the same pass, rewritten from    *)
(* its start; rewinding begins a new pass over what the last one left.      *)
(*                                                                         *)
(* In a pass whose first transfer is a read, the words read are those the   *)
(* file had when the pass began, however many were rewritten meanwhile.  A  *)
(* pass that writes first may read either generation of a word, and so may *)
(* one that reads beyond the words the file had.                           *)
(***************************************************************************)
EXTENDS Integers

CONSTANTS
  Words,     \* what a word may hold
  NoWord,    \* what there is past the end of a file
  MaxWords   \* bound: length of the file

VARIABLES
  old,       \* the file as this pass found it
  new,       \* what this pass has written so far
  at,        \* number of words read in this pass
  order,     \* what the pass began with: "none", "read" or "write"
  bucket     \* the words the last read gave, or the number asked for if it failed

vars == <<old, new, at, order, bucket>>

Addr   == 0 .. MaxWords - 1
Empty  == [a \in Addr |-> NoWord]
Failed(n) == [ok |-> FALSE, asked |-> n]
NoRead    == Failed(0)

Over(f, g) == [a \in Addr |-> IF f[a] # NoWord THEN f[a] ELSE g[a]]

Init ==
  /\ old = Empty /\ new = Empty
  /\ at = 0 /\ order = "none" /\ bucket = NoRead

\* the words from where the last successful read ended to at'
Read ==
  /\ at' \in at + 1 .. MaxWords
  /\ bucket' \in [ok : {TRUE}, from : {at}, words : [Addr -> Words \cup {NoWord}]]
  /\ \A a \in Addr :
       LET got == bucket'.words[a]
       IN  IF a \in at .. at' - 1
           THEN /\ got # NoWord
                /\ got = old[a] \/ (got = new[a] /\ (order = "write" \/ old[a] = NoWord))
           ELSE got = NoWord
  /\ order' = IF order = "none" THEN "read" ELSE order
  /\ UNCHANGED <<old, new>>

\* more words were asked for than the file had when the pass began: those
\* passed over are lost to the caller, at most to the end of the file
ReadPastEnd ==
  /\ \E n \in 1 .. MaxWords :
       /\ bucket' = Failed(n)
       /\ at + n <= MaxWords => old[at + n - 1] = NoWord
  /\ at' \in at .. MaxWords
  /\ at' > at => Over(new, old)[at' - 1] # NoWord
  /\ order' \in {order, IF order = "none" THEN "read" ELSE order}
  /\ UNCHANGED <<old, new>>

\* the words go behind those this pass has written
Write ==
  /\ new' \in [Addr -> Words \cup {NoWord}] /\ new' # new
  /\ \A a \in Addr : new[a] # NoWord => new'[a] = new[a]
  /\ \E n \in 0 .. MaxWords : \A a \in Addr : a < n <=> new'[a] # NoWord
  /\ order' = IF order = "none" THEN "write" ELSE order
  /\ UNCHANGED <<old, at, bucket>>

\* rewind, or close and open again: the file is what was written, and beyond
\* it what it was
Rewind ==
  /\ old' = Over(new, old) /\ new' = Empty
  /\ at' = 0 /\ order' = "none"
  /\ UNCHANGED bucket

\* the program stops: of the words written, the first ones are in the file
Stop ==
  \E kept \in 0 .. MaxWords :
    /\ old' = [a \in Addr |-> IF a < kept /\ new[a] # NoWord THEN new[a] ELSE old[a]]
    /\ new' = Empty /\ at' = 0 /\ order' = "none" /\ bucket' = NoRead

Next == Read \/ ReadPastEnd \/ Write \/ Rewind \/ Stop

Spec == Init /\ [][Next]_vars
=============================================================================
