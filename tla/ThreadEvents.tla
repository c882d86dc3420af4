---------------------------- MODULE ThreadEvents ----------------------------
(***************************************************************************)
(* Locks and events for Fortran threads (f90_threads.c).  An event is a     *)
(* value with a mutex and a condition; posting locks, sets, broadcasts and  *)
(* unlocks; waiting locks, and sleeps on the condition until the value is   *)
(* the one it wants.  Each of these is a step: threads interleave between   *)
(* them.                                                                    *)
(*                                                                         *)
(* The mutexes and conditions are those of POSIX threads, external to the   *)
(* code: pthread_cond_wait unlocks and sleeps in one step, and may wake by  *)
(* itself.  A program begins with one thread, which creates locks and       *)
(* events and the other threads, and may join them.                         *)
(*                                                                         *)
(* An object is created once, as the memory that create_event initializes   *)
(* is new; create_lock stands for the Fortran entry (c_create_lock leaves   *)
(* its mutex uninitialized).  The identifier of a thread is returned as a   *)
(* wordint: it is taken to fit.                                             *)
(***************************************************************************)
EXTENDS Integers, Sequences

CONSTANTS
  Threads, NoThread,
  Main,         \* the thread that is there from the start
  Objects,
  NoValue,
  Programs,     \* what the threads of a program may call, one after another
  MaxSpurious   \* bound: wake-ups of pthread_cond_wait without a broadcast

LockOps   == {"acquire", "release"}
EventOps  == {"post", "wait", "check"}
ObjectOps == LockOps \cup EventOps \cup {"create", "destroy"}
Calls ==
  [op : ObjectOps, on : Objects, val : Int] \cup
  [op : {"create_thread", "join_thread"}, on : Threads, val : Int]

ASSUME ThreadEventsAssumption ==
  /\ NoThread \notin Threads /\ Main \in Threads
  /\ Threads \cap Objects = {}
  /\ Programs \subseteq [Threads -> Seq(Calls)]
  /\ MaxSpurious \in Nat

\* an object is a lock (pthread_mutex_t) or an event, whoever uses it
ASSUME LocksAreNotEvents ==
  \A p \in Programs : \A t, u \in Threads :
    \A k \in 1 .. Len(p[t]), m \in 1 .. Len(p[u]) :
      p[t][k].op \in LockOps /\ p[u][m].op \in EventOps => p[t][k].on # p[u][m].on

VARIABLES
  program,      \* the one of Programs that runs
  started,      \* the threads there are
  line,         \* the call each thread is in, past the last one at its end
  step,         \* where in that call the thread is
  mutex,        \* holder of the mutex of an event, or of a user lock
  value,        \* the_event->value
  alive,        \* created and not destroyed yet
  seen,         \* what check_event returned last
  spurious      \* wake-ups without a broadcast so far

vars == <<program, started, line, step, mutex, value, alive, seen, spurious>>

Running(t) == line[t] <= Len(program[t])
Current(t) == program[t][line[t]]

Init ==
  /\ program \in Programs
  /\ started = {Main}
  /\ line  = [t \in Threads |-> 1]
  /\ step  = [t \in Threads |-> "enter"]
  /\ mutex = [o \in Objects |-> NoThread]
  /\ value = [o \in Objects |-> -1]
  /\ alive = [o \in Objects |-> FALSE]
  /\ seen  = [t \in Threads |-> NoValue]
  /\ spurious = 0

\* thread t is at this step of a call of op, on object o
At(t, op, s, o) == Running(t) /\ Current(t).op = op /\ step[t] = s /\ Current(t).on = o

Goto(t, s) == step' = [step EXCEPT ![t] = s] /\ UNCHANGED line
Return(t)  == step' = [step EXCEPT ![t] = "enter"] /\ line' = [line EXCEPT ![t] = @ + 1]

\* pthread_mutex_lock and pthread_mutex_unlock
Lock(t, o)   == mutex[o] = NoThread /\ mutex' = [mutex EXCEPT ![o] = t]
Unlock(t, o) == mutex' = [mutex EXCEPT ![o] = NoThread]

---------------------------------------------------------------------------
(* post_event *)

AfterSetUnlock(s) == IF s = "set" THEN "leave" ELSE IF s = "leave" THEN "wake" ELSE "enter"
AfterSet(s) == IF s = "set" THEN "wake" ELSE IF s = "wake" THEN "leave" ELSE "enter"

\* to the step after s, or back to the caller
Proceed(t, s) == IF AfterSet(s) = "enter" THEN Return(t) ELSE Goto(t, AfterSet(s))

PostLock(t, o) ==
  /\ At(t, "post", "enter", o)
  /\ Lock(t, o) /\ Goto(t, "set")
  /\ UNCHANGED <<value, seen, spurious>>

PostSet(t, o) ==
  /\ At(t, "post", "set", o)
  /\ value' = [value EXCEPT ![o] = Current(t).val]
  /\ Proceed(t, "set")
  /\ UNCHANGED <<mutex, seen, spurious>>

\* who sleeps on the condition of o
Sleepers(o) == {u \in Threads : At(u, "wait", "asleep", o)}

\* pthread_cond_broadcast: they go and lock the mutex again
WokenOne(o) == {CHOOSE u \in Threads : Sleepers(o) # {} => u \in Sleepers(o)} \cap Sleepers(o)
Woken(o) == Sleepers(o)

PostBroadcast(t, o) ==
  /\ At(t, "post", "wake", o)
  /\ LET next == AfterSet("wake")
     IN  /\ step' = [u \in Threads |-> IF u = t THEN next
                                       ELSE IF u \in Woken(o) THEN "awake" ELSE step[u]]
         /\ line' = IF next = "enter" THEN [line EXCEPT ![t] = @ + 1] ELSE line
  /\ UNCHANGED <<mutex, value, seen, spurious>>

PostUnlock(t, o) ==
  /\ At(t, "post", "leave", o)
  /\ Unlock(t, o) /\ Proceed(t, "leave")
  /\ UNCHANGED <<value, seen, spurious>>

---------------------------------------------------------------------------
(* wait_event *)

WaitLock(t, o) ==
  /\ At(t, "wait", "enter", o) \/ At(t, "wait", "awake", o)
  /\ Lock(t, o)
  /\ Goto(t, IF step[t] = "enter" THEN "test" ELSE "retest")
  /\ UNCHANGED <<value, seen, spurious>>

Tests == {"test", "retest"}
TestsOnce == {"test"}

\* is the value not the one waited for, as the while loop tests it?
WaitAgainOnce(t, o) == step[t] \in TestsOnce /\ value[o] # Current(t).val
WaitAgain(t, o) == step[t] \in Tests /\ value[o] # Current(t).val

WaitTest(t, o) ==
  /\ \E s \in Tests : At(t, "wait", s, o)
  /\ ~WaitAgain(t, o)
  /\ Goto(t, "leave")
  /\ UNCHANGED <<mutex, value, seen, spurious>>

WaitSleep(t, o) ==
  /\ \E s \in Tests : At(t, "wait", s, o)
  /\ WaitAgain(t, o)
  /\ Unlock(t, o) /\ Goto(t, "asleep")
  /\ UNCHANGED <<value, seen, spurious>>

WaitUnlock(t, o) ==
  /\ At(t, "wait", "leave", o)
  /\ Unlock(t, o) /\ Return(t)
  /\ UNCHANGED <<value, seen, spurious>>

\* the condition wakes a thread by itself
Wake(t, o) ==
  /\ At(t, "wait", "asleep", o)
  /\ spurious < MaxSpurious /\ spurious' = spurious + 1
  /\ Goto(t, "awake")
  /\ UNCHANGED <<mutex, value, seen>>

---------------------------------------------------------------------------
(* check_event reads without the mutex; acquire_lock and release_lock.       *)

Check(t, o) ==
  /\ At(t, "check", "enter", o)
  /\ seen' = [seen EXCEPT ![t] = value[o]]
  /\ Return(t)
  /\ UNCHANGED <<mutex, value, spurious>>

Acquire(t, o) ==
  /\ At(t, "acquire", "enter", o)
  /\ Lock(t, o) /\ Return(t)
  /\ UNCHANGED <<value, seen, spurious>>

Release(t, o) ==
  /\ At(t, "release", "enter", o)
  /\ Unlock(t, o) /\ Return(t)
  /\ UNCHANGED <<value, seen, spurious>>

---------------------------------------------------------------------------
(* create_event and create_lock, destroy_event and destroy_lock;             *)
(* create_thread and join_thread, which waits until the thread has returned. *)

Create(t, o) ==
  /\ At(t, "create", "enter", o)
  /\ alive' = [alive EXCEPT ![o] = TRUE]
  /\ Return(t)
  /\ UNCHANGED <<started, mutex, value, seen, spurious>>

Destroy(t, o) ==
  /\ At(t, "destroy", "enter", o)
  /\ alive' = [alive EXCEPT ![o] = FALSE]
  /\ Return(t)
  /\ UNCHANGED <<started, mutex, value, seen, spurious>>

CreateThread(t, u) ==
  /\ At(t, "create_thread", "enter", u)
  /\ started' = started \cup {u}
  /\ Return(t)
  /\ UNCHANGED <<mutex, value, alive, seen, spurious>>

JoinThread(t, u) ==
  /\ At(t, "join_thread", "enter", u)
  /\ ~Running(u)
  /\ Return(t)
  /\ UNCHANGED <<started, mutex, value, alive, seen, spurious>>

\* what thread t does when it is scheduled
Run(t) ==
  /\ t \in started
  /\ \/ /\ \E o \in Objects :
             \/ PostLock(t, o) \/ PostSet(t, o) \/ PostBroadcast(t, o) \/ PostUnlock(t, o)
             \/ WaitLock(t, o) \/ WaitTest(t, o) \/ WaitSleep(t, o) \/ WaitUnlock(t, o)
             \/ Check(t, o) \/ Acquire(t, o) \/ Release(t, o)
        /\ UNCHANGED <<started, alive>>
     \/ \E o \in Objects : Create(t, o) \/ Destroy(t, o)
     \/ \E u \in Threads : CreateThread(t, u) \/ JoinThread(t, u)
  /\ UNCHANGED program

WakeUp == \E t \in Threads, o \in Objects : Wake(t, o) /\ UNCHANGED <<program, started, alive>>

Next == WakeUp \/ \E t \in Threads : Run(t)

(* A thread that can go on is scheduled some time; conditions need not wake *)
(* by themselves, and who gets a mutex is not decided fairly.               *)
Spec == Init /\ [][Next]_vars /\ \A t \in Threads : WF_vars(Run(t))

---------------------------------------------------------------------------
(* Properties. *)

(* No wake-up is lost: a thread that sleeps on an event which has the value *)
(* it wants is about to be woken, by a post that has not broadcast yet.     *)
SleepersAreOwed ==
  \A t \in Threads, o \in Objects :
    At(t, "wait", "asleep", o) /\ value[o] = Current(t).val =>
      \E u \in Threads : At(u, "post", "wake", o)

(* A thread may destroy an event as soon as its wait has returned, or once  *)
(* it has joined the threads that use it: the post that let it go has       *)
(* nothing more to do with the event, a thread joined is in no call.  A     *)
(* thread that is in a call has its object, from its creation on.           *)
DestroyedIsUnused ==
  \A t \in started :
    Running(t) /\ Current(t).op \in LockOps \cup EventOps => alive[Current(t).on]

\* how a program has to be for that: call k of t uses object o
Uses(p, t, k, o) == p[t][k].op \in LockOps \cup EventOps /\ p[t][k].on = o

\* call n of u, and no other, posts value v to o
OnlyPost(p, u, n, o, v) ==
  \A w \in Threads : \A m \in 1 .. Len(p[w]) :
    p[w][m].op = "post" /\ p[w][m].on = o /\ p[w][m].val = v <=> w = u /\ m = n

\* thread t knows, before its call k, that call m of u is over: it has joined
\* u, or waited for what u posts, and nobody else, in that call or later
Knows(p, t, k, u, m) ==
  \E j \in 1 .. k - 1 :
    \/ p[t][j].op = "join_thread" /\ p[t][j].on = u
    \/ /\ p[t][j].op = "wait" /\ p[t][j].val # -1
       /\ \E n \in m .. Len(p[u]) : OnlyPost(p, u, n, p[t][j].on, p[t][j].val)

\* the first thread creates what is used before it starts another one
CreatesFirst(p) ==
  \A t \in Threads : \A k \in 1 .. Len(p[t]) : \A o \in Objects : Uses(p, t, k, o) =>
    \E c \in 1 .. Len(p[Main]) :
      /\ p[Main][c].op = "create" /\ p[Main][c].on = o
      /\ t = Main => c < k
      /\ \A n \in 1 .. Len(p[Main]) : p[Main][n].op = "create_thread" => c < n

\* who destroys an object has no more use for it, and knows that nobody has
DestroysLast(p) ==
  \A t \in Threads : \A k \in 1 .. Len(p[t]) : p[t][k].op = "destroy" =>
    \A u \in Threads : \A m \in 1 .. Len(p[u]) : Uses(p, u, m, p[t][k].on) =>
      IF u = t THEN m < k ELSE Knows(p, t, k, u, m)

\* calls of thread t that have taken effect
Effective(t) ==
  line[t] - 1 +
    (IF \/ \E o \in Objects : At(t, "post", "wake", o) \/ At(t, "post", "leave", o)
        \/ \E o \in Objects : At(t, "wait", "leave", o)
     THEN 1 ELSE 0)

\* the owner of a user lock; the mutex of an event is no one's concern
OwnerOf(o) ==
  IF \E t \in Threads : \E k \in 1 .. line[t] - 1 :
       program[t][k].on = o /\ program[t][k].op = "acquire"
  THEN mutex[o] ELSE NoThread

EC == INSTANCE EventCalls WITH
        done  <- [t \in Threads |-> Effective(t)],
        owner <- [o \in Objects |-> OwnerOf(o)]

(* Every call takes effect at one moment, and every call that can take      *)
(* effect for ever does: in particular a wait returns once the value it     *)
(* wants has come to stay, whatever spurious wake-ups and races there are.  *)
CallsAreAtomic == EC!Spec
=============================================================================
