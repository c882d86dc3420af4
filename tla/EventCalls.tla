----------------------------- MODULE EventCalls -----------------------------
(***************************************************************************)
(* What f90_threads.c promises the threads of a Fortran program: every call *)
(* on a lock, an event or a thread takes effect at one moment.  A wait      *)
(* takes effect when the event has the value waited for, and does so sooner *)
(* or later when the event keeps that value; a join when all calls of the   *)
(* thread have taken effect.                                                *)
(***************************************************************************)
EXTENDS Integers, Sequences

CONSTANTS
  Threads, NoThread,
  Main,       \* the thread there is from the start
  Objects,    \* the locks and the events
  NoValue     \* what a thread has read before it reads anything

VARIABLES
  program,    \* the calls of each thread: [op, on, val]
  started,    \* the threads that were created
  done,       \* how many of them have taken effect
  value,      \* of an event; -1 once it is created
  owner,      \* of a lock
  seen        \* what check_event returned last

vars == <<program, started, done, value, owner, seen>>

Init ==
  /\ started = {Main}
  /\ done  = [t \in Threads |-> 0]
  /\ value = [e \in Objects |-> -1]
  /\ owner = [l \in Objects |-> NoThread]
  /\ seen  = [t \in Threads |-> NoValue]

Effect(t, c) ==
  \/ /\ c.op = "post" /\ value' = [value EXCEPT ![c.on] = c.val]
     /\ UNCHANGED <<started, owner, seen>>
  \/ /\ c.op = "wait" /\ value[c.on] = c.val
     /\ UNCHANGED <<started, value, owner, seen>>
  \/ /\ c.op = "check" /\ seen' = [seen EXCEPT ![t] = value[c.on]]
     /\ UNCHANGED <<started, value, owner>>
  \/ /\ c.op = "acquire" /\ owner[c.on] = NoThread /\ owner' = [owner EXCEPT ![c.on] = t]
     /\ UNCHANGED <<started, value, seen>>
  \/ /\ c.op = "release" /\ owner' = [owner EXCEPT ![c.on] = NoThread]
     /\ UNCHANGED <<started, value, seen>>
  \/ /\ c.op \in {"create", "destroy"}
     /\ UNCHANGED <<started, value, owner, seen>>
  \/ /\ c.op = "create_thread" /\ started' = started \cup {c.on}
     /\ UNCHANGED <<value, owner, seen>>
  \/ /\ c.op = "join_thread" /\ done[c.on] = Len(program[c.on])
     /\ UNCHANGED <<started, value, owner, seen>>

Call(t) ==
  /\ t \in started
  /\ done[t] < Len(program[t])
  /\ Effect(t, program[t][done[t] + 1])
  /\ done' = [done EXCEPT ![t] = @ + 1]
  /\ UNCHANGED program

Next == \E t \in Threads : Call(t)

Spec == Init /\ [][Next]_vars /\ \A t \in Threads : WF_vars(Call(t))
=============================================================================
