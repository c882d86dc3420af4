----------------------------- MODULE WordArray -----------------------------
(***************************************************************************)
(* What word addressable files (c_baseio.c) promise the program that uses  *)
(* them: each file is an array of words, whatever pages of it are kept in  *)
(* memory.  A program that stops without closing its files may lose words  *)
(* it wrote since it opened them, and no others; a file that was closed is *)
(* as the program left it.                                                 *)
(***************************************************************************)
EXTENDS Integers, Sequences

CONSTANTS
  Files,
  ReadOnly, \* the files with the attribute R/O
  Initial,  \* Initial[f]: the words of f before
  Marks,   \* what tells one write from another: word a of a write is <<mark, a>>
  Junk,    \* what nobody wrote: the words of a gap
  Starts,  \* the addresses that programs read and write from
  Lengths, \* the numbers of words they ask for
  Hole     \* WA_HOLE: how far behind the end of a file a write may start

VARIABLES
  words,   \* words[f]: the file, as the program sees it
  opened,  \* the files the program has open
  fresh,   \* fresh[f]: the addresses written since f was opened
  got      \* the answer to the last call

vars == <<words, opened, fresh, got>>

NoAnswer == [file |-> "none"]

Init ==
  /\ words = Initial
  /\ opened = {}
  /\ fresh = [f \in Files |-> {}]
  /\ got = NoAnswer

Open(f) ==
  /\ f \notin opened
  /\ opened' = opened \cup {f}
  /\ fresh' = [fresh EXCEPT ![f] = {}]
  /\ got' = NoAnswer
  /\ UNCHANGED words

\* after which nothing of f can be lost
Close(f) ==
  /\ f \in opened
  /\ opened' = opened \ {f}
  /\ fresh' = [fresh EXCEPT ![f] = {}]
  /\ got' = NoAnswer
  /\ UNCHANGED words

Write(f, adr, n, w) ==
  LET old  == words[f]
      last == adr + n - 1
      top  == IF last > Len(old) THEN last ELSE Len(old)
  IN
  /\ f \in opened \ ReadOnly
  /\ UNCHANGED opened
  /\ got' = NoAnswer
  /\ adr <= Len(old) + Hole
  /\ fresh' = [fresh EXCEPT ![f] = @ \cup (adr .. last) \cup (Len(old) + 1 .. last)]
  /\ words' = [words EXCEPT ![f] = [a \in 1 .. top |->
                 IF a \in adr .. last THEN <<w, a>>
                 ELSE IF a <= Len(old) THEN old[a] ELSE Junk]]

\* of the n words from adr on, those the file has
Read(f, adr, n) ==
  LET last == IF adr + n - 1 > Len(words[f]) THEN Len(words[f]) ELSE adr + n - 1 IN
  /\ f \in opened
  /\ got' = [file |-> f, adr |-> adr, words |-> SubSeq(words[f], adr, last)]
  /\ UNCHANGED <<words, opened, fresh>>

Kept(f, s) ==
  /\ Len(s) <= Len(words[f])
  /\ \A a \in (1 .. Len(words[f])) \ fresh[f] : a <= Len(s) /\ s[a] = words[f][a]

Stop ==
  /\ opened' = {}
  /\ fresh' = [f \in Files |-> {}]
  /\ got' = NoAnswer
  /\ \A f \in Files : Kept(f, words'[f])

Next ==
  \/ \E f \in Files :
       \/ Open(f) \/ Close(f)
       \/ \E adr \in Starts, n \in Lengths :
            Read(f, adr, n) \/ \E w \in Marks : Write(f, adr, n, w)
  \/ Stop

Spec == Init /\ [][Next]_vars
=============================================================================
