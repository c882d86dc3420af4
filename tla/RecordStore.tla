---------------------------- MODULE RecordStore -----------------------------
(***************************************************************************)
(* What a random file promises the applications of a site where one at a   *)
(* time writes (xdf98.c): the file is a set of records; a session works on *)
(* a set of its own, which replaces the file's at a close or checkpoint.   *)
(* The replacement takes a while, and may be broken off: what both sets    *)
(* have is in the file all the while, and a file whose replacement was     *)
(* broken off is never opened to write again.                              *)
(***************************************************************************)
CONSTANTS
  Procs,   \* the applications
  Records  \* the records there can be, each with its handle

VARIABLES
  file,    \* the records somebody who opens the file now finds
  sealed,  \* is the file as the last session left it?
  phase,   \* phase[p]: is p in a session, or at the end of one?
  work     \* work[p]: the records as p will leave them

vars == <<file, sealed, phase, work>>

Init ==
  /\ file = {}
  /\ sealed = TRUE
  /\ phase = [p \in Procs |-> "idle"]
  /\ work = [p \in Procs |-> {}]

Begin(p) ==
  /\ sealed
  /\ \A q \in Procs : phase[q] = "idle"
  /\ phase' = [phase EXCEPT ![p] = "session"]
  /\ work' = [work EXCEPT ![p] = file]
  /\ UNCHANGED <<file, sealed>>

AtMostOne(S) == {{}} \cup {{r} : r \in S}

\* one record is erased, added, or replaced by a new one
Change(p) ==
  /\ phase[p] = "session"
  /\ UNCHANGED <<file, sealed, phase>>
  /\ \E gone \in AtMostOne(work[p]), new \in AtMostOne(Records \ (work[p] \cup file)) :
       work' = [work EXCEPT ![p] = (@ \ gone) \cup new]

Commit(p) ==
  /\ phase[p] = "session"
  /\ phase' = [phase EXCEPT ![p] = "commit"]
  /\ sealed' = FALSE
  /\ UNCHANGED <<file, work>>

Publish(p) ==
  /\ phase[p] = "commit"
  /\ file \cap work[p] \subseteq file'
  /\ file' \subseteq file \cup work[p]
  /\ UNCHANGED <<sealed, phase, work>>

Committed(p) == phase[p] = "commit" /\ file = work[p] /\ UNCHANGED file

Checkpoint(p) ==
  /\ Committed(p)
  /\ phase' = [phase EXCEPT ![p] = "session"]
  /\ UNCHANGED <<sealed, work>>

Close(p) ==
  /\ Committed(p)
  /\ phase' = [phase EXCEPT ![p] = "idle"]
  /\ work' = [work EXCEPT ![p] = {}]
  /\ sealed' = TRUE

\* p stops: its session leaves what it has published, and nothing else
Crash(p) ==
  /\ phase' = [phase EXCEPT ![p] = "idle"]
  /\ work' = [work EXCEPT ![p] = {}]
  /\ UNCHANGED <<file, sealed>>

Next ==
  \E p \in Procs :
    \/ Begin(p) \/ Change(p) \/ Commit(p) \/ Publish(p)
    \/ Checkpoint(p) \/ Close(p) \/ Crash(p)

Spec == Init /\ [][Next]_vars
=============================================================================
