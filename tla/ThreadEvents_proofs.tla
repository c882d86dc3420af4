------------------------ MODULE ThreadEvents_proofs ------------------------
(***************************************************************************)
(* For any number of threads, locks and events and for all programs: no    *)
(* wake-up is lost, and every call takes effect at one moment.             *)
(***************************************************************************)
EXTENDS ThreadEvents, TLAPS

\* the domains of the tables, and where a thread is in its program
Typed ==
  /\ program \in Programs
  /\ line \in [Threads -> Nat \ {0}]
  /\ DOMAIN step = Threads
  /\ DOMAIN value = Objects /\ DOMAIN mutex = Objects /\ DOMAIN seen = Threads
  /\ step = [t \in Threads |-> step[t]]

IInv == Typed /\ SleepersAreOwed

\* the steps on an event or a lock that do not create or destroy it
InUse(t, o) ==
  \/ PostLock(t, o) \/ PostSet(t, o) \/ PostBroadcast(t, o) \/ PostUnlock(t, o)
  \/ WaitLock(t, o) \/ WaitTest(t, o) \/ WaitSleep(t, o) \/ WaitUnlock(t, o)
  \/ Check(t, o) \/ Acquire(t, o) \/ Release(t, o)

\* the other calls: one step, which touches neither mutexes nor values
Others(t, x) == Create(t, x) \/ Destroy(t, x) \/ CreateThread(t, x) \/ JoinThread(t, x)

LEMMA RunIs ==
  ASSUME NEW t \in Threads, Run(t)
  PROVE  /\ t \in started /\ program' = program
         /\ \/ \E o \in Objects : InUse(t, o) /\ started' = started
            \/ \E x : Others(t, x)
  BY DEF Run, InUse, Others

LEMMA OthersReturn ==
  ASSUME NEW t \in Threads, NEW x, Others(t, x)
  PROVE  /\ Running(t) /\ Current(t).on = x /\ step[t] = "enter" /\ Return(t)
         /\ Current(t).op \in {"create", "destroy", "create_thread", "join_thread"}
         /\ UNCHANGED <<mutex, value, seen>>
  BY DEF Others, Create, Destroy, CreateThread, JoinThread, At

(* What a step of one thread does to the tables.                           *)
LEMMA TypedStep ==
  ASSUME Typed, [Next]_vars
  PROVE  Typed'
  <1>1. CASE UNCHANGED vars BY <1>1 DEF Typed, vars
  <1>2. CASE WakeUp BY <1>2 DEF Typed, WakeUp, Wake, Goto
  <1>3. ASSUME NEW t \in Threads, Run(t) PROVE Typed'
    <2>1. program' = program BY <1>3, RunIs
    <2>2. CASE \E x : Others(t, x)
      BY <2>1, <2>2, OthersReturn DEF Typed, Return
    <2>3. CASE \E o \in Objects : InUse(t, o)
      <3>1. PICK o \in Objects : InUse(t, o) BY <2>3
      <3>2. line' = line \/ line' = [line EXCEPT ![t] = @ + 1]
        BY <3>1 DEF InUse, PostLock, PostSet, PostBroadcast, PostUnlock, WaitLock, WaitTest,
                    WaitSleep, WaitUnlock, Check, Acquire, Release, Goto, Return, Proceed
      <3>3. DOMAIN step' = Threads /\ step' = [u \in Threads |-> step'[u]]
        BY <3>1 DEF Typed, InUse, PostLock, PostSet, PostBroadcast, PostUnlock, WaitLock, WaitTest,
                    WaitSleep, WaitUnlock, Check, Acquire, Release, Goto, Return, Proceed
      <3>4. DOMAIN value' = Objects /\ DOMAIN mutex' = Objects /\ DOMAIN seen' = Threads
        BY <3>1 DEF Typed, InUse, PostLock, PostSet, PostBroadcast, PostUnlock, WaitLock, WaitTest,
                    WaitSleep, WaitUnlock, Check, Acquire, Release, Lock, Unlock
      <3> QED BY <2>1, <3>2, <3>3, <3>4 DEF Typed
    <2> QED BY <1>3, <2>2, <2>3, RunIs
  <1> QED BY <1>1, <1>2, <1>3 DEF Next

---------------------------------------------------------------------------
(* No wake-up is lost. *)

(* A step that leaves alone who is about to broadcast, and puts no one to  *)
(* sleep, takes no wake-up away.                                           *)
LEMMA OwedStays ==
  ASSUME Typed, SleepersAreOwed, program' = program, value' = value,
         NEW t \in Threads, step[t] # "wake", step'[t] # "asleep",
         \A u \in Threads \ {t} : step'[u] = step[u] /\ line'[u] = line[u]
  PROVE  SleepersAreOwed'
  <1> SUFFICES ASSUME NEW s \in Threads, NEW o \in Objects,
                      At(s, "wait", "asleep", o)', value'[o] = Current(s)'.val
               PROVE  \E u \in Threads : At(u, "post", "wake", o)'
    BY DEF SleepersAreOwed
  <1>1. s # t BY DEF At
  <1>2. At(s, "wait", "asleep", o) /\ value[o] = Current(s).val
    BY <1>1 DEF At, Running, Current
  <1>3. PICK u \in Threads : At(u, "post", "wake", o) BY <1>2 DEF SleepersAreOwed
  <1>4. u # t BY <1>3 DEF At
  <1>5. At(u, "post", "wake", o)' BY <1>3, <1>4 DEF At, Running, Current
  <1> QED BY <1>5

LEMMA OwedStep ==
  ASSUME Typed, SleepersAreOwed, [Next]_vars
  PROVE  SleepersAreOwed'
  <1>1. CASE UNCHANGED vars
    BY <1>1 DEF SleepersAreOwed, vars, At, Running, Current
  <1>2. CASE WakeUp
    <2>1. PICK t \in Threads, o \in Objects : Wake(t, o) /\ UNCHANGED <<program, alive>>
      BY <1>2 DEF WakeUp
    <2>2. step[t] # "wake" /\ step' = [step EXCEPT ![t] = "awake"] /\ line' = line
      BY <2>1 DEF Wake, Goto, At
    <2>3. step'[t] # "asleep" /\ \A u \in Threads \ {t} : step'[u] = step[u] /\ line'[u] = line[u]
      BY <2>2 DEF Typed
    <2> QED BY <2>1, <2>2, <2>3, OwedStays DEF Wake
  <1>3. ASSUME NEW t \in Threads, Run(t) PROVE SleepersAreOwed'
    <2> USE <1>3
    <2>1. program' = program BY RunIs
    <2>0. CASE \E x : Others(t, x)
      <3>1. value' = value /\ step[t] # "wake" /\ Return(t) BY <2>0, OthersReturn
      <3>2. step'[t] # "asleep" /\ \A u \in Threads \ {t} : step'[u] = step[u] /\ line'[u] = line[u]
        BY <3>1 DEF Return, Typed
      <3> QED BY <2>1, <3>1, <3>2, OwedStays
    <2> SUFFICES ASSUME \E o \in Objects : InUse(t, o) PROVE SleepersAreOwed' BY <2>0, RunIs
    <2>2. PICK o \in Objects :
            \/ PostLock(t, o) \/ PostSet(t, o) \/ PostBroadcast(t, o) \/ PostUnlock(t, o)
            \/ WaitLock(t, o) \/ WaitTest(t, o) \/ WaitSleep(t, o) \/ WaitUnlock(t, o)
            \/ Check(t, o) \/ Acquire(t, o) \/ Release(t, o)
      BY DEF InUse
    <2>3. CASE \/ PostLock(t, o) \/ PostUnlock(t, o) \/ WaitLock(t, o) \/ WaitTest(t, o)
               \/ WaitUnlock(t, o) \/ Check(t, o) \/ Acquire(t, o) \/ Release(t, o)
      <3>1. value' = value /\ step[t] # "wake"
        BY <2>3 DEF PostLock, PostUnlock, WaitLock, WaitTest, WaitUnlock, Check, Acquire, Release,
                    At, Tests
      <3>2. \E s \in {"set", "test", "retest", "leave", "enter"} : step' = [step EXCEPT ![t] = s]
        BY <2>3 DEF PostLock, PostUnlock, WaitLock, WaitTest, WaitUnlock, Check, Acquire, Release,
                    Goto, Return, Proceed, AfterSet
      <3>3. line' = line \/ line' = [line EXCEPT ![t] = @ + 1]
        BY <2>3 DEF PostLock, PostUnlock, WaitLock, WaitTest, WaitUnlock, Check, Acquire, Release,
                    Goto, Return, Proceed
      <3>4. step'[t] # "asleep" /\ \A u \in Threads \ {t} : step'[u] = step[u] /\ line'[u] = line[u]
        BY <3>2, <3>3 DEF Typed
      <3> QED BY <2>1, <3>1, <3>4, OwedStays
    <2>4. CASE PostSet(t, o)
      <3>1. At(t, "post", "set", o) /\ step' = [step EXCEPT ![t] = "wake"] /\ line' = line
            /\ value' = [value EXCEPT ![o] = Current(t).val]
        BY <2>4 DEF PostSet, Proceed, AfterSet, Goto
      <3>2. At(t, "post", "wake", o)' BY <2>1, <3>1 DEF At, Running, Current, Typed
      <3> SUFFICES ASSUME NEW s \in Threads, NEW e \in Objects,
                          At(s, "wait", "asleep", e)', value'[e] = Current(s)'.val
                   PROVE  \E u \in Threads : At(u, "post", "wake", e)'
        BY DEF SleepersAreOwed
      <3>3. CASE e = o BY <3>2, <3>3
      <3>4. CASE e # o
        <4>1. s # t BY <3>1 DEF At, Typed
        <4>2. At(s, "wait", "asleep", e) /\ value[e] = Current(s).val
          BY <2>1, <3>1, <3>4, <4>1 DEF At, Running, Current, Typed
        <4>3. PICK u \in Threads : At(u, "post", "wake", e) BY <4>2 DEF SleepersAreOwed
        <4>4. u # t BY <3>1, <4>3 DEF At
        <4>5. At(u, "post", "wake", e)' BY <2>1, <3>1, <4>3, <4>4 DEF At, Running, Current, Typed
        <4> QED BY <4>5
      <3> QED BY <3>3, <3>4
    <2>5. CASE PostBroadcast(t, o)
      <3>1. /\ At(t, "post", "wake", o) /\ line' = line /\ value' = value
            /\ step' = [u \in Threads |-> IF u = t THEN "leave"
                                          ELSE IF u \in Woken(o) THEN "awake" ELSE step[u]]
        BY <2>5 DEF PostBroadcast, AfterSet
      <3> SUFFICES ASSUME NEW s \in Threads, NEW e \in Objects,
                          At(s, "wait", "asleep", e)', value'[e] = Current(s)'.val
                   PROVE  \E u \in Threads : At(u, "post", "wake", e)'
        BY DEF SleepersAreOwed
      <3>2. s # t /\ s \notin Woken(o) BY <3>1 DEF At
      <3>3. At(s, "wait", "asleep", e) /\ value[e] = Current(s).val
        BY <2>1, <3>1, <3>2 DEF At, Running, Current
      <3>4. e # o BY <3>2, <3>3 DEF Woken, Sleepers
      <3>5. PICK u \in Threads : At(u, "post", "wake", e) BY <3>3 DEF SleepersAreOwed
      <3>6. u # t /\ u \notin Woken(o) BY <3>1, <3>4, <3>5 DEF At, Woken, Sleepers
      <3>7. At(u, "post", "wake", e)' BY <2>1, <3>1, <3>5, <3>6 DEF At, Running, Current
      <3> QED BY <3>7
    <2>6. CASE WaitSleep(t, o)
      <3>1. /\ \E s \in Tests : At(t, "wait", s, o)
            /\ step' = [step EXCEPT ![t] = "asleep"] /\ line' = line
            /\ value' = value /\ value[o] # Current(t).val
        BY <2>6 DEF WaitSleep, WaitAgain, Goto
      <3> SUFFICES ASSUME NEW s \in Threads, NEW e \in Objects,
                          At(s, "wait", "asleep", e)', value'[e] = Current(s)'.val
                   PROVE  \E u \in Threads : At(u, "post", "wake", e)'
        BY DEF SleepersAreOwed
      <3>2. s # t BY <2>1, <3>1 DEF At, Current
      <3>3. At(s, "wait", "asleep", e) /\ value[e] = Current(s).val
        BY <2>1, <3>1, <3>2 DEF At, Running, Current, Typed
      <3>4. PICK u \in Threads : At(u, "post", "wake", e) BY <3>3 DEF SleepersAreOwed
      <3>5. u # t BY <3>1, <3>4 DEF At, Tests
      <3>6. At(u, "post", "wake", e)' BY <2>1, <3>1, <3>4, <3>5 DEF At, Running, Current, Typed
      <3> QED BY <3>6
    <2> QED BY <2>2, <2>3, <2>4, <2>5, <2>6
  <1> QED BY <1>1, <1>2, <1>3 DEF Next

(* SleepersAreOwed: whatever the programs, a thread that sleeps on an      *)
(* event with the value it wants has a post that is about to wake it.      *)
THEOREM NoLostWakeUp == Spec => []SleepersAreOwed
  <1>1. Init => IInv
    BY DEF Init, IInv, Typed, SleepersAreOwed, At
  <1>2. IInv /\ [Next]_vars => IInv'
    BY TypedStep, OwedStep DEF IInv
  <1>3. IInv => SleepersAreOwed BY DEF IInv
  <1> QED BY <1>1, <1>2, <1>3, PTL DEF Spec

---------------------------------------------------------------------------
(* Every call takes effect at one moment. *)

(* The call a thread is in has a number, an operation and an object.       *)
LEMMA InProgram ==
  ASSUME Typed, NEW t \in Threads
  PROVE  /\ program[t] \in Seq(Calls)
         /\ Running(t) => line[t] \in 1 .. Len(program[t]) /\ Current(t) \in Calls
  <1>1. program \in [Threads -> Seq(Calls)] BY ThreadEventsAssumption DEF Typed
  <1>2. program[t] \in Seq(Calls) BY <1>1
  <1>3. ASSUME Running(t) PROVE line[t] \in 1 .. Len(program[t])
    BY <1>2, <1>3 DEF Running, Typed
  <1> QED BY <1>2, <1>3 DEF Current

\* some call that has returned was to acquire o
Acquired(o) ==
  \E u \in Threads : \E k \in 1 .. line[u] - 1 :
    program[u][k].on = o /\ program[u][k].op = "acquire"

(* Only acquire and release change who owns a lock: when another call is   *)
(* about its object, nobody has acquired that.                             *)
LEMMA EventsAreNotAcquired ==
  ASSUME Typed, NEW t \in Threads, Running(t), Current(t).op \in EventOps,
         \A u \in Threads : line[u] - 1 <= Len(program[u])
  PROVE  ~Acquired(Current(t).on)
  <1> SUFFICES ASSUME NEW u \in Threads, NEW k \in 1 .. line[u] - 1,
                      program[u][k].on = Current(t).on, program[u][k].op = "acquire"
               PROVE  FALSE
    BY DEF Acquired
  <1>1. program \in Programs BY DEF Typed
  <1>2. k \in 1 .. Len(program[u]) BY InProgram DEF Typed
  <1>3. line[t] \in 1 .. Len(program[t]) BY InProgram
  <1>4. program[u][k].op \in LockOps BY DEF LockOps
  <1> QED BY <1>1, <1>2, <1>3, <1>4, LocksAreNotEvents DEF Current

\* no thread is more than one call past the end of its program
Ends == \A u \in Threads : line[u] - 1 <= Len(program[u])

LEMMA EndsStep ==
  ASSUME Typed, Ends, [Next]_vars
  PROVE  Ends'
  <1>1. CASE UNCHANGED vars BY <1>1 DEF Ends, vars
  <1>2. CASE WakeUp BY <1>2 DEF Ends, WakeUp, Wake, Goto
  <1>3. ASSUME NEW t \in Threads, Run(t) PROVE Ends'
    <2>2. program' = program BY <1>3, RunIs
    <2>3. line' = line \/ (line' = [line EXCEPT ![t] = @ + 1] /\ Running(t))
      <3>1. CASE \E x : Others(t, x) BY <3>1, OthersReturn DEF Return
      <3>2. CASE \E o \in Objects : InUse(t, o)
        BY <3>2 DEF InUse, PostLock, PostSet, PostBroadcast, PostUnlock, WaitLock, WaitTest,
                    WaitSleep, WaitUnlock, Check, Acquire, Release, Goto, Return, Proceed, At
      <3> QED BY <1>3, <3>1, <3>2, RunIs
    <2>4. \A u \in Threads : Len(program[u]) \in Nat /\ line[u] \in Nat BY InProgram DEF Typed
    <2>5. SUFFICES ASSUME NEW u \in Threads PROVE line'[u] - 1 <= Len(program[u])
      BY <2>2 DEF Ends
    <2>6. CASE line' = line BY <2>6 DEF Ends
    <2>7. CASE line' = [line EXCEPT ![t] = @ + 1] /\ Running(t)
      <3>1. CASE u = t BY <2>4, <2>7, <3>1 DEF Running, Typed
      <3>2. CASE u # t BY <2>7, <3>2 DEF Ends, Typed
      <3> QED BY <3>1, <3>2
    <2> QED BY <2>3, <2>6, <2>7
  <1> QED BY <1>1, <1>2, <1>3 DEF Next

(* The returns of calls other than acquire leave the acquired locks alone. *)
LEMMA AcquiredStays ==
  ASSUME Typed, program' = program, NEW t \in Threads,
         line' = line \/ (line' = [line EXCEPT ![t] = @ + 1] /\ Current(t).op # "acquire"),
         NEW o \in Objects
  PROVE  Acquired(o)' = Acquired(o)
  <1>1. CASE line' = line BY <1>1 DEF Acquired
  <1>2. CASE line' = [line EXCEPT ![t] = @ + 1] /\ Current(t).op # "acquire"
    <2>1. \A u \in Threads : line'[u] = IF u = t THEN line[u] + 1 ELSE line[u]
      BY <1>2 DEF Typed
    <2>2. ASSUME NEW u \in Threads, NEW k \in 1 .. line[u] - 1 PROVE k \in 1 .. line'[u] - 1
      BY <2>1 DEF Typed
    <2>3. ASSUME NEW u \in Threads, NEW k \in 1 .. line'[u] - 1, program[u][k].op = "acquire"
          PROVE  k \in 1 .. line[u] - 1
      <3>1. CASE u # t BY <2>1, <3>1
      <3>2. CASE u = t
        <4>1. k # line[t] BY <1>2, <2>3, <3>2 DEF Current
        <4>2. k \in 1 .. line[t] BY <2>1, <3>2 DEF Typed
        <4> QED BY <3>2, <4>1, <4>2 DEF Typed
      <3> QED BY <3>1, <3>2
    <2>4. Acquired(o) => Acquired(o)' BY <2>2 DEF Acquired
    <2>5. Acquired(o)' => Acquired(o) BY <2>3 DEF Acquired
    <2> QED BY <2>4, <2>5 DEF Acquired
  <1> QED BY <1>1, <1>2

(* A step on an event changes the owner of no lock.                        *)
LEMMA OwnersStay ==
  ASSUME Typed, Ends, program' = program, NEW t \in Threads, NEW o \in Objects,
         Running(t), Current(t).op \in EventOps, Current(t).on = o,
         line' = line \/ line' = [line EXCEPT ![t] = @ + 1],
         \A p \in Objects \ {o} : mutex'[p] = mutex[p]
  PROVE  [p \in Objects |-> OwnerOf(p)]' = [p \in Objects |-> OwnerOf(p)]
  <1> SUFFICES ASSUME NEW p \in Objects PROVE OwnerOf(p)' = OwnerOf(p)
    OBVIOUS
  <1>1. Acquired(p)' = Acquired(p) BY AcquiredStays DEF EventOps
  <1>2. ~Acquired(o) BY EventsAreNotAcquired DEF Ends
  <1>3. OwnerOf(p) = IF Acquired(p) THEN mutex[p] ELSE NoThread BY DEF OwnerOf, Acquired
  <1>4. OwnerOf(p)' = IF Acquired(p)' THEN mutex'[p] ELSE NoThread BY DEF OwnerOf, Acquired
  <1> QED BY <1>1, <1>2, <1>3, <1>4

\* the call thread t is in has taken effect and has yet to return
Late(t) ==
  /\ Running(t)
  /\ \/ Current(t).op = "post" /\ step[t] \in {"wake", "leave"}
     \/ Current(t).op = "wait" /\ step[t] = "leave"

(* The calls that have taken effect, without the objects.                  *)
LEMMA EffectiveIs ==
  ASSUME Typed, NEW t \in Threads
  PROVE  Effective(t) = line[t] - 1 + (IF Late(t) THEN 1 ELSE 0)
  <1>1. Running(t) /\ Current(t).op \in {"post", "wait"} => Current(t).on \in Objects
    BY InProgram DEF Calls
  <1>2. (\/ \E o \in Objects : At(t, "post", "wake", o) \/ At(t, "post", "leave", o)
         \/ \E o \in Objects : At(t, "wait", "leave", o)) <=> Late(t)
    BY <1>1 DEF At, Late
  <1> QED BY <1>2 DEF Effective

(* A call of t that takes effect, when every other call stays as it was.    *)
LEMMA Takes ==
  ASSUME Typed, program' = program, NEW t \in Threads, t \in started, Running(t),
         Effective(t) = line[t] - 1, Effective(t)' = Effective(t) + 1,
         \A u \in Threads \ {t} : Effective(u)' = Effective(u),
         EC!Effect(t, Current(t))
  PROVE  EC!Next
  <1>1. line[t] \in 1 .. Len(program[t]) /\ Len(program[t]) \in Nat BY InProgram
  <1>2. program[t][Effective(t) + 1] = Current(t) BY <1>1 DEF Current
  <1>3. [u \in Threads |-> Effective(u)]' = [[u \in Threads |-> Effective(u)] EXCEPT ![t] = @ + 1]
    OBVIOUS
  <1>4. EC!Call(t) BY <1>1, <1>2, <1>3 DEF EC!Call
  <1> QED BY <1>4 DEF EC!Next

(* A step that leaves every call as it was.                                *)
LEMMA Stutters ==
  ASSUME program' = program, started' = started, value' = value, seen' = seen,
         [o \in Objects |-> OwnerOf(o)]' = [o \in Objects |-> OwnerOf(o)],
         \A u \in Threads : Effective(u)' = Effective(u)
  PROVE  UNCHANGED EC!vars
  BY DEF EC!vars

(* The same of the next state.                                             *)
LEMMA EffectiveIsNext ==
  ASSUME Typed, Typed', program' = program, NEW t \in Threads
  PROVE  Effective(t)' = line'[t] - 1 + (IF Late(t)' THEN 1 ELSE 0)
  <1>1. ASSUME Running(t)', Current(t)'.op \in {"post", "wait"} PROVE Current(t)'.on \in Objects
    <2>1. program[t] \in Seq(Calls) BY InProgram
    <2>2. line'[t] \in 1 .. Len(program[t]) BY <1>1, <2>1 DEF Running, Typed
    <2>3. program[t][line'[t]] \in Calls BY <2>1, <2>2
    <2> QED BY <1>1, <2>3 DEF Current, Calls
  <1>2. (\/ \E o \in Objects : At(t, "post", "wake", o)' \/ At(t, "post", "leave", o)'
         \/ \E o \in Objects : At(t, "wait", "leave", o)') <=> Late(t)'
    BY <1>1 DEF At, Late
  <1> QED BY <1>2 DEF Effective

(* A thread other than the one that runs has no more calls in effect.      *)
LEMMA EffectiveStays ==
  ASSUME Typed, Typed', program' = program, NEW u \in Threads, line'[u] = line[u],
         step'[u] = step[u] \/ (step[u] = "asleep" /\ step'[u] = "awake")
  PROVE  Effective(u)' = Effective(u)
  <1>1. Late(u)' = Late(u) BY DEF Late, Running, Current
  <1> QED BY <1>1, EffectiveIs, EffectiveIsNext

---------------------------------------------------------------------------
(* One lemma for each of the steps. *)

\* the effect of a step of t on the calls of the others
Alone(t) == \A u \in Threads \ {t} : Effective(u)' = Effective(u)

(* A step of t on an event at which its call takes no effect.              *)
LEMMA InsideACall ==
  ASSUME Typed, Typed', Ends, program' = program, NEW t \in Threads, NEW o \in Objects,
         Running(t), Current(t).op \in EventOps, Current(t).on = o, Alone(t),
         \A p \in Objects \ {o} : mutex'[p] = mutex[p], started' = started,
         value' = value, seen' = seen,
         \/ line' = line /\ Late(t)' = Late(t)
         \/ line' = [line EXCEPT ![t] = @ + 1] /\ Late(t) /\ ~Late(t)'
  PROVE  UNCHANGED EC!vars
  <1>1. Effective(t) = line[t] - 1 + (IF Late(t) THEN 1 ELSE 0) BY EffectiveIs
  <1>2. Effective(t)' = line'[t] - 1 + (IF Late(t)' THEN 1 ELSE 0) BY EffectiveIsNext
  <1>3. Effective(t)' = Effective(t) BY <1>1, <1>2 DEF Typed
  <1>4. \A u \in Threads : Effective(u)' = Effective(u) BY <1>3 DEF Alone
  <1>5. [p \in Objects |-> OwnerOf(p)]' = [p \in Objects |-> OwnerOf(p)] BY OwnersStay
  <1> QED BY <1>4, <1>5, Stutters

(* A step of t on an event at which its call takes effect.                 *)
LEMMA InEffect ==
  ASSUME Typed, Typed', program' = program, NEW t \in Threads, t \in started, Running(t), Alone(t), ~Late(t),
         \/ line' = line /\ Late(t)'
         \/ line' = [line EXCEPT ![t] = @ + 1] /\ ~Late(t)',
         EC!Effect(t, Current(t))
  PROVE  EC!Next
  <1>1. Effective(t) = line[t] - 1 BY EffectiveIs DEF Typed
  <1>2. Effective(t)' = line'[t] - 1 + (IF Late(t)' THEN 1 ELSE 0) BY EffectiveIsNext
  <1>3. Effective(t)' = Effective(t) + 1 BY <1>1, <1>2 DEF Typed
  <1> QED BY <1>1, <1>3, Takes DEF Alone

(* A step on an event or a lock is a call in effect, or none is.           *)
LEMMA InUseRefines ==
  ASSUME Typed, Typed', Ends, NEW t \in Threads, t \in started, NEW o \in Objects,
         InUse(t, o), program' = program, started' = started
  PROVE  EC!Next \/ UNCHANGED EC!vars
  <1>1. \/ PostLock(t, o) \/ PostSet(t, o) \/ PostBroadcast(t, o) \/ PostUnlock(t, o)
        \/ WaitLock(t, o) \/ WaitTest(t, o) \/ WaitSleep(t, o) \/ WaitUnlock(t, o)
        \/ Check(t, o) \/ Acquire(t, o) \/ Release(t, o)
    BY DEF InUse
  <1>2. program' = program OBVIOUS
  <1>3. \A u \in Threads \ {t} :
          line'[u] = line[u] /\ (step'[u] = step[u] \/ (step[u] = "asleep" /\ step'[u] = "awake"))
    BY <1>1 DEF Typed, PostLock, PostSet, PostBroadcast, PostUnlock, WaitLock, WaitTest, WaitSleep,
                WaitUnlock, Check, Acquire, Release, Goto, Return, Proceed, Woken, Sleepers, At
  <1>4. Alone(t) BY <1>2, <1>3, EffectiveStays DEF Alone
  <1>5. \A p \in Objects \ {o} : mutex'[p] = mutex[p]
    BY <1>1 DEF Typed, PostLock, PostSet, PostBroadcast, PostUnlock, WaitLock, WaitTest, WaitSleep,
                WaitUnlock, Check, Acquire, Release, Lock, Unlock
  <1>6. Running(t) /\ Current(t).on = o
    BY <1>1 DEF PostLock, PostSet, PostBroadcast, PostUnlock, WaitLock, WaitTest, WaitSleep,
                WaitUnlock, Check, Acquire, Release, At
  <1>7. ASSUME NEW s, step' = [step EXCEPT ![t] = s], line' = line
        PROVE  step'[t] = s /\ Running(t)' /\ Current(t)' = Current(t)
    BY <1>2, <1>6, <1>7 DEF Typed, Running, Current
  <1>8. ASSUME Return(t) PROVE line' = [line EXCEPT ![t] = @ + 1] /\ step'[t] = "enter" /\ ~Late(t)'
    BY <1>8 DEF Return, Typed, Late
  <1>11. CASE PostLock(t, o)
    <2>1. ~Late(t) /\ Current(t).op \in EventOps BY <1>11 DEF PostLock, At, Late, EventOps
    <2>2. ~Late(t)' BY <1>7, <1>11 DEF PostLock, Goto, At, Late
    <2>3. line' = line /\ value' = value /\ seen' = seen BY <1>11 DEF PostLock, Goto
    <2>4. Late(t)' = Late(t) BY <2>1, <2>2 DEF Late
    <2> QED BY <1>2, <1>4, <1>5, <1>6, <2>1, <2>3, <2>4, InsideACall
  <1>12. CASE PostSet(t, o)
    <2>1. ~Late(t) /\ Current(t).op = "post" BY <1>12 DEF PostSet, At, Late
    <2>2. step' = [step EXCEPT ![t] = "wake"] /\ line' = line
      BY <1>12 DEF PostSet, Proceed, AfterSet, Goto
    <2>3. Late(t)' BY <1>7, <2>1, <2>2 DEF Late
    <2>4. [p \in Objects |-> OwnerOf(p)]' = [p \in Objects |-> OwnerOf(p)]
      BY <1>2, <1>5, <1>6, <2>1, <2>2, OwnersStay DEF EventOps
    <2>5. EC!Effect(t, Current(t)) BY <1>6, <1>12, <2>1, <2>4 DEF PostSet, EC!Effect
    <2> QED BY <1>2, <1>4, <1>6, <2>1, <2>2, <2>3, <2>5, InEffect
  <1>13. CASE PostBroadcast(t, o)
    <2>1. Late(t) /\ Current(t).op = "post" /\ Current(t).op \in EventOps
      BY <1>6, <1>13 DEF PostBroadcast, At, Late, EventOps
    <2>2. step'[t] = "leave" /\ line' = line BY <1>13 DEF PostBroadcast, AfterSet
    <2>3. Late(t)' BY <1>2, <1>6, <2>1, <2>2 DEF Late, Running, Current
    <2>4. value' = value /\ seen' = seen BY <1>13 DEF PostBroadcast
    <2> QED BY <1>2, <1>4, <1>5, <1>6, <2>1, <2>2, <2>3, <2>4, InsideACall
  <1>14. CASE PostUnlock(t, o)
    <2>1. Late(t) /\ Current(t).op \in EventOps BY <1>14 DEF PostUnlock, At, Late, EventOps
    <2>2. Return(t) BY <1>14 DEF PostUnlock, Proceed, AfterSet
    <2>3. value' = value /\ seen' = seen BY <1>14 DEF PostUnlock
    <2> QED BY <1>2, <1>4, <1>5, <1>6, <1>8, <2>1, <2>2, <2>3, InsideACall
  <1>15. CASE WaitLock(t, o)
    <2>1. ~Late(t) /\ Current(t).op = "wait" /\ Current(t).op \in EventOps
      BY <1>15 DEF WaitLock, At, Late, EventOps
    <2>2. ~Late(t)'
      <3>1. PICK s \in Tests : step' = [step EXCEPT ![t] = s] /\ line' = line
        BY <1>15 DEF WaitLock, Goto, Tests
      <3> QED BY <1>7, <2>1, <3>1 DEF Late, Tests
    <2>3. line' = line /\ value' = value /\ seen' = seen BY <1>15 DEF WaitLock, Goto
    <2>4. Late(t)' = Late(t) BY <2>1, <2>2 DEF Late
    <2> QED BY <1>2, <1>4, <1>5, <1>6, <2>1, <2>3, <2>4, InsideACall
  <1>16. CASE WaitTest(t, o)
    <2>1. ~Late(t) /\ Current(t).op = "wait" /\ step[t] \in Tests BY <1>16 DEF WaitTest, At, Late, Tests
    <2>2. step' = [step EXCEPT ![t] = "leave"] /\ line' = line BY <1>16 DEF WaitTest, Goto
    <2>3. Late(t)' BY <1>7, <2>1, <2>2 DEF Late
    <2>4. [p \in Objects |-> OwnerOf(p)]' = [p \in Objects |-> OwnerOf(p)]
      BY <1>2, <1>5, <1>6, <2>1, <2>2, OwnersStay DEF EventOps
    <2>5. value[o] = Current(t).val BY <1>16, <2>1 DEF WaitTest, WaitAgain
    <2>6. EC!Effect(t, Current(t)) BY <1>6, <1>16, <2>1, <2>4, <2>5 DEF WaitTest, EC!Effect
    <2> QED BY <1>2, <1>4, <1>6, <2>1, <2>2, <2>3, <2>6, InEffect
  <1>17. CASE WaitSleep(t, o)
    <2>1. ~Late(t) /\ Current(t).op \in EventOps BY <1>17 DEF WaitSleep, At, Late, EventOps, Tests
    <2>2. ~Late(t)' BY <1>7, <1>17 DEF WaitSleep, Goto, At, Late
    <2>3. line' = line /\ value' = value /\ seen' = seen BY <1>17 DEF WaitSleep, Goto
    <2>4. Late(t)' = Late(t) BY <2>1, <2>2 DEF Late
    <2> QED BY <1>2, <1>4, <1>5, <1>6, <2>1, <2>3, <2>4, InsideACall
  <1>18. CASE WaitUnlock(t, o)
    <2>1. Late(t) /\ Current(t).op \in EventOps BY <1>18 DEF WaitUnlock, At, Late, EventOps
    <2>2. Return(t) /\ value' = value /\ seen' = seen BY <1>18 DEF WaitUnlock
    <2> QED BY <1>2, <1>4, <1>5, <1>6, <1>8, <2>1, <2>2, InsideACall
  <1>19. CASE Check(t, o)
    <2>1. ~Late(t) /\ Current(t).op = "check" BY <1>19 DEF Check, At, Late
    <2>2. Return(t) BY <1>19 DEF Check
    <2>3. [p \in Objects |-> OwnerOf(p)]' = [p \in Objects |-> OwnerOf(p)]
      BY <1>2, <1>5, <1>6, <1>8, <2>1, <2>2, OwnersStay DEF EventOps
    <2>4. EC!Effect(t, Current(t)) BY <1>6, <1>19, <2>1, <2>3 DEF Check, EC!Effect
    <2> QED BY <1>2, <1>4, <1>6, <1>8, <2>1, <2>2, <2>4, InEffect
  <1>21. CASE Release(t, o)
    <2>1. ~Late(t) /\ Current(t).op = "release" BY <1>21 DEF Release, At, Late
    <2>2. Return(t) BY <1>21 DEF Release
    <2>3. \A p \in Objects : Acquired(p)' = Acquired(p) BY <1>2, <1>8, <2>1, <2>2, AcquiredStays
    <2>4. mutex'[o] = NoThread BY <1>21 DEF Release, Unlock, Typed
    <2>5. \A p \in Objects : OwnerOf(p)' = IF p = o THEN NoThread ELSE OwnerOf(p)
      BY <1>5, <2>3, <2>4 DEF OwnerOf, Acquired
    <2>6. EC!Effect(t, Current(t)) BY <1>6, <1>21, <2>1, <2>5 DEF Release, EC!Effect
    <2> QED BY <1>2, <1>4, <1>6, <1>8, <2>1, <2>2, <2>6, InEffect
  <1>22. CASE Acquire(t, o)
    <2>1. ~Late(t) /\ Current(t).op = "acquire" BY <1>22 DEF Acquire, At, Late
    <2>2. Return(t) BY <1>22 DEF Acquire
    <2>3. \A u \in Threads : line'[u] = IF u = t THEN line[u] + 1 ELSE line[u]
      BY <1>8, <2>2 DEF Typed
    <2>4. ASSUME NEW p \in Objects \ {o} PROVE OwnerOf(p)' = OwnerOf(p)
      <3>1. Acquired(p)' <=> Acquired(p)
        <4>1. ASSUME Acquired(p) PROVE Acquired(p)'
          <5>0. PICK u \in Threads : \E k \in 1 .. line[u] - 1 :
                  program[u][k].on = p /\ program[u][k].op = "acquire"
            BY <4>1 DEF Acquired
          <5>1. PICK k \in 1 .. line[u] - 1 : program[u][k].on = p /\ program[u][k].op = "acquire"
            BY <5>0
          <5>2. k \in 1 .. line'[u] - 1 BY <2>3 DEF Typed
          <5> QED BY <1>2, <5>1, <5>2 DEF Acquired
        <4>2. ASSUME Acquired(p)' PROVE Acquired(p)
          <5>0. PICK u \in Threads : \E k \in 1 .. line'[u] - 1 :
                  program[u][k].on = p /\ program[u][k].op = "acquire"
            BY <1>2, <4>2 DEF Acquired
          <5>1. PICK k \in 1 .. line'[u] - 1 : program[u][k].on = p /\ program[u][k].op = "acquire"
            BY <5>0
          <5>2. u = t => k # line[t] BY <1>6, <5>1 DEF Current
          <5>3. k \in 1 .. line[u] - 1 BY <2>3, <5>2 DEF Typed
          <5> QED BY <5>1, <5>3 DEF Acquired
        <4> QED BY <4>1, <4>2 DEF Acquired
      <3> QED BY <1>5, <3>1 DEF OwnerOf, Acquired
    <2>5. OwnerOf(o) = NoThread BY <1>22 DEF Acquire, Lock, OwnerOf
    <2>6. OwnerOf(o)' = t
      <3>1. line[t] \in 1 .. line'[t] - 1 BY <2>3 DEF Typed
      <3>2. program'[t][line[t]].on = o /\ program'[t][line[t]].op = "acquire"
        BY <1>2, <1>6, <2>1 DEF Current
      <3>3. mutex'[o] = t BY <1>22 DEF Acquire, Lock, Typed
      <3> QED BY <3>1, <3>2, <3>3 DEF OwnerOf
    <2>7. [p \in Objects |-> OwnerOf(p)]' = [[p \in Objects |-> OwnerOf(p)] EXCEPT ![o] = t]
      BY <2>4, <2>6
    <2>8. EC!Effect(t, Current(t)) BY <1>6, <1>22, <2>1, <2>5, <2>7 DEF Acquire, EC!Effect
    <2> QED BY <1>2, <1>4, <1>6, <1>8, <2>1, <2>2, <2>8, InEffect
  <1> QED BY <1>1, <1>11, <1>12, <1>13, <1>14, <1>15, <1>16, <1>17, <1>18, <1>19, <1>21, <1>22

(* The other calls take effect in one step: a join, once all calls of the  *)
(* thread have returned, and so have taken effect.                         *)
LEMMA OthersRefine ==
  ASSUME Typed, Typed', Ends, NEW t \in Threads, t \in started, NEW x, Others(t, x),
         program' = program
  PROVE  EC!Next
  <1>1. /\ Running(t) /\ Current(t).on = x /\ step[t] = "enter" /\ Return(t)
        /\ Current(t).op \in {"create", "destroy", "create_thread", "join_thread"}
        /\ UNCHANGED <<mutex, value, seen>>
    BY OthersReturn
  <1>2. /\ line' = [line EXCEPT ![t] = @ + 1]
        /\ \A u \in Threads \ {t} : line'[u] = line[u] /\ step'[u] = step[u]
    BY <1>1 DEF Return, Typed
  <1>3. ~Late(t) /\ ~Late(t)' BY <1>1 DEF Late, Return, Typed
  <1>4. Alone(t) BY <1>2, EffectiveStays DEF Alone
  <1>5. [p \in Objects |-> OwnerOf(p)]' = [p \in Objects |-> OwnerOf(p)]
    <2>1. \A p \in Objects : Acquired(p)' = Acquired(p) BY <1>1, <1>2, AcquiredStays
    <2>2. \A p \in Objects : OwnerOf(p)' = OwnerOf(p) BY <1>1, <2>1 DEF OwnerOf, Acquired
    <2> QED BY <2>2
  <1>6. CASE Create(t, x) \/ Destroy(t, x)
    <2>1. Current(t).op \in {"create", "destroy"} /\ started' = started
      BY <1>6 DEF Create, Destroy, At
    <2> QED BY <1>1, <1>2, <1>3, <1>4, <1>5, <2>1, InEffect DEF EC!Effect
  <1>7. CASE CreateThread(t, x)
    <2>1. Current(t).op = "create_thread" /\ started' = started \cup {x}
      BY <1>7 DEF CreateThread, At
    <2> QED BY <1>1, <1>2, <1>3, <1>4, <1>5, <2>1, InEffect DEF EC!Effect
  <1>8. CASE JoinThread(t, x)
    <2>1. Current(t).op = "join_thread" /\ started' = started /\ ~Running(x)
      BY <1>8 DEF JoinThread, At
    <2>2. x \in Threads BY <1>1, <2>1, InProgram DEF Calls, ObjectOps, LockOps, EventOps
    <2>3. Len(program[x]) \in Nat /\ line[x] \in Nat BY <2>2, InProgram DEF Typed
    <2>4. line[x] - 1 = Len(program[x]) BY <2>1, <2>2, <2>3 DEF Ends, Running
    <2>5. Effective(x) = Len(program[x]) BY <2>1, <2>2, <2>3, <2>4, EffectiveIs DEF Late
    <2>6. EC!Effect(t, Current(t)) BY <1>1, <1>5, <2>1, <2>2, <2>5 DEF EC!Effect
    <2> QED BY <1>1, <1>2, <1>3, <1>4, <2>6, InEffect
  <1> QED BY <1>6, <1>7, <1>8 DEF Others

(* So does every step of the specification, a wake-up as well.             *)
LEMMA StepRefines ==
  ASSUME Typed, Typed', Ends, [Next]_vars
  PROVE  EC!Next \/ UNCHANGED EC!vars
  <1>1. CASE UNCHANGED vars
    <2>1. \A u \in Threads : Effective(u)' = Effective(u)
      BY <1>1 DEF vars, Effective, At, Running, Current
    <2>2. [p \in Objects |-> OwnerOf(p)]' = [p \in Objects |-> OwnerOf(p)]
      BY <1>1 DEF vars, OwnerOf
    <2> QED BY <1>1, <2>1, <2>2, Stutters DEF vars
  <1>2. CASE WakeUp
    <2>1. PICK t \in Threads, o \in Objects : Wake(t, o) BY <1>2 DEF WakeUp
    <2>2. program' = program /\ started' = started /\ line' = line /\ value' = value /\ seen' = seen /\ mutex' = mutex
      BY <1>2 DEF WakeUp, Wake, Goto
    <2>3. \A u \in Threads : step'[u] = step[u] \/ (step[u] = "asleep" /\ step'[u] = "awake")
      BY <2>1 DEF Wake, Goto, At, Typed
    <2>4. \A u \in Threads : Effective(u)' = Effective(u) BY <2>2, <2>3, EffectiveStays
    <2>5. [p \in Objects |-> OwnerOf(p)]' = [p \in Objects |-> OwnerOf(p)]
      BY <2>2 DEF OwnerOf
    <2> QED BY <2>2, <2>4, <2>5, Stutters
  <1>3. CASE \E t \in Threads : Run(t)
    BY <1>3, RunIs, InUseRefines, OthersRefine
  <1> QED BY <1>1, <1>2, <1>3 DEF Next

(* Whatever the programs, the steps of the threads are calls of EventCalls *)
(* that take effect one after another: a post, a wait that meets its value,*)
(* a check, an acquisition of a lock no one holds.                         *)
THEOREM CallsTakeEffectAtOnce == Spec => EC!Init /\ [][EC!Next]_(EC!vars)
  <1>1. Init => EC!Init
    <2> SUFFICES ASSUME Init PROVE EC!Init OBVIOUS
    <2>1. ASSUME NEW t \in Threads PROVE Effective(t) = 0
      <3>1. Typed BY DEF Init, Typed
      <3>2. ~Late(t) /\ line[t] = 1 BY DEF Init, Late
      <3> QED BY <3>1, <3>2, EffectiveIs
    <2>2. \A o \in Objects : OwnerOf(o) = NoThread BY DEF Init, OwnerOf
    <2> QED BY <2>1, <2>2 DEF Init, EC!Init
  <1>2. Init => Typed BY DEF Init, Typed
  <1>3. Init => Ends
    <2> SUFFICES ASSUME Init, NEW u \in Threads PROVE line[u] - 1 <= Len(program[u]) BY DEF Ends
    <2>1. Typed BY <1>2
    <2>2. program[u] \in Seq(Calls) BY <2>1, InProgram
    <2> QED BY <2>2 DEF Init
  <1>4. Typed /\ Ends /\ [Next]_vars => Typed' /\ Ends' BY TypedStep, EndsStep
  <1>5. Typed /\ Typed' /\ Ends /\ [Next]_vars => [EC!Next]_(EC!vars) BY StepRefines
  <1> QED BY <1>1, <1>2, <1>3, <1>4, <1>5, PTL DEF Spec
---------------------------------------------------------------------------
(* What is destroyed is not used any more. *)

(* What a step leaves as it was in the thread that runs and the others.    *)
LEMMA RunMoves ==
  ASSUME Typed, NEW t \in Threads, Run(t)
  PROVE  /\ program' = program /\ Running(t)
         /\ \A u \in Threads \ {t} :
              line'[u] = line[u] /\ (step'[u] = step[u] \/ (step[u] = "asleep" /\ step'[u] = "awake"))
         /\ line'[t] = line[t] \/ (line'[t] = line[t] + 1 /\ step'[t] = "enter")
  <1>1. program' = program BY RunIs
  <1>2. CASE \E x : Others(t, x)
    <2>1. Running(t) /\ Return(t) BY <1>2, OthersReturn
    <2> QED BY <1>1, <2>1 DEF Return, Typed
  <1>3. CASE \E o \in Objects : InUse(t, o)
    <2>1. PICK o \in Objects : InUse(t, o) BY <1>3
    <2>2. \A u \in Threads \ {t} :
            line'[u] = line[u] /\ (step'[u] = step[u] \/ (step[u] = "asleep" /\ step'[u] = "awake"))
      BY <2>1 DEF Typed, InUse, PostLock, PostSet, PostBroadcast, PostUnlock, WaitLock, WaitTest,
                  WaitSleep, WaitUnlock, Check, Acquire, Release, Goto, Return, Proceed, Woken,
                  Sleepers, At
    <2>3. line' = line \/ Return(t)
      BY <2>1 DEF InUse, PostLock, PostSet, PostBroadcast, PostUnlock, WaitLock, WaitTest,
                  WaitSleep, WaitUnlock, Check, Acquire, Release, Goto, Proceed, AfterSet
    <2>4. Running(t)
      BY <2>1 DEF InUse, PostLock, PostSet, PostBroadcast, PostUnlock, WaitLock, WaitTest,
                  WaitSleep, WaitUnlock, Check, Acquire, Release, At
    <2> QED BY <1>1, <2>2, <2>3, <2>4 DEF Return, Typed
  <1> QED BY <1>2, <1>3, RunIs

\* call k of t has returned; or, of a post or a wait, has taken effect
Over(t, k) == k < line[t]
Done(t, k) == k < line[t] \/ (k = line[t] /\ step[t] \in {"wake", "leave"})

LEMMA OverStays ==
  ASSUME Typed, [Next]_vars
  PROVE  /\ program' = program
         /\ \A u \in Threads : \A k \in Int : Over(u, k) => Over(u, k)'
  <1>1. CASE UNCHANGED vars BY <1>1 DEF vars, Over
  <1>2. CASE WakeUp BY <1>2 DEF WakeUp, Wake, Goto, Over
  <1>3. ASSUME NEW t \in Threads, Run(t)
        PROVE  /\ program' = program
               /\ \A u \in Threads : \A k \in Int : Over(u, k) => Over(u, k)'
    <2>1. program' = program /\ \A u \in Threads : line'[u] = line[u] \/ line'[u] = line[u] + 1
      BY <1>3, RunMoves
    <2>2. \A u \in Threads : line[u] \in Nat BY DEF Typed
    <2> QED BY <2>1, <2>2 DEF Over
  <1> QED BY <1>1, <1>2, <1>3 DEF Next

\* inside the critical section of a post or a wait
In(t, o) ==
  \/ \E s \in {"set", "wake", "leave"} : At(t, "post", s, o)
  \/ \E s \in {"test", "retest", "leave"} : At(t, "wait", s, o)

Held == \A t \in Threads, o \in Objects : In(t, o) => mutex[o] = t

(* No lock is the mutex of an event.                                       *)
LEMMA LocksApart ==
  ASSUME Typed, NEW t \in Threads, NEW u \in Threads, NEW o \in Objects,
         Running(t), Current(t).op \in LockOps, Current(t).on = o
  PROVE  ~In(u, o)
  <1> SUFFICES ASSUME In(u, o) PROVE FALSE OBVIOUS
  <1>1. Running(u) /\ Current(u).op \in EventOps /\ Current(u).on = o BY DEF In, At, EventOps
  <1>2. line[t] \in 1 .. Len(program[t]) /\ line[u] \in 1 .. Len(program[u]) BY <1>1, InProgram
  <1> QED BY <1>1, <1>2, LocksAreNotEvents DEF Current, Typed

LEMMA InStays ==
  ASSUME program' = program, NEW u \in Threads, NEW o, line'[u] = line[u],
         step'[u] = step[u] \/ (step[u] = "asleep" /\ step'[u] = "awake"), In(u, o)'
  PROVE  In(u, o)
  BY DEF In, At, Running, Current

LEMMA HeldRun ==
  ASSUME Typed, Held, NEW t \in Threads, Run(t)
  PROVE  Held'
  <1>1. /\ program' = program /\ Running(t)
        /\ \A u \in Threads \ {t} : \A x : In(u, x)' => In(u, x)
    BY RunMoves, InStays
  <1>2. CASE \E x : Others(t, x)
    <2>1. mutex' = mutex /\ Return(t) BY <1>2, OthersReturn
    <2>2. \A x : ~In(t, x)' BY <2>1 DEF Return, Typed, In, At
    <2> QED BY <1>1, <2>1, <2>2 DEF Held
  <1>3. ASSUME NEW o \in Objects, InUse(t, o) PROVE Held'
    <2>1. CASE \/ PostLock(t, o) \/ WaitLock(t, o) \/ Acquire(t, o)
      <3>1. mutex[o] = NoThread /\ mutex' = [mutex EXCEPT ![o] = t] /\ Current(t).on = o
        BY <2>1 DEF PostLock, WaitLock, Acquire, Lock, At
      <3>2. \A u \in Threads : ~In(u, o) BY <3>1, ThreadEventsAssumption DEF Held
      <3>3. \A x \in Objects \ {o} : ~In(t, x)'
        <4>1. CASE Return(t) BY <4>1 DEF Return, Typed, In, At
        <4>2. CASE line' = line BY <1>1, <3>1, <4>2 DEF In, At, Current
        <4> QED BY <2>1, <4>1, <4>2 DEF PostLock, WaitLock, Acquire, Goto
      <3>4. mutex'[o] = t /\ \A x \in Objects \ {o} : mutex'[x] = mutex[x] BY <3>1 DEF Typed
      <3> QED BY <1>1, <3>2, <3>3, <3>4 DEF Held
    <2>2. CASE \/ PostSet(t, o) \/ PostBroadcast(t, o) \/ WaitTest(t, o)
      <3>1. mutex' = mutex /\ line' = line /\ In(t, o)
        BY <2>2 DEF PostSet, PostBroadcast, WaitTest, Proceed, AfterSet, Goto, In, At, Tests
      <3>2. \A x \in Objects : In(t, x)' => x = o BY <1>1, <3>1 DEF In, At, Current
      <3> QED BY <1>1, <3>1, <3>2 DEF Held
    <2>3. CASE \/ PostUnlock(t, o) \/ WaitSleep(t, o) \/ WaitUnlock(t, o)
      <3>1. mutex' = [mutex EXCEPT ![o] = NoThread] /\ In(t, o)
        BY <2>3 DEF PostUnlock, WaitSleep, WaitUnlock, Unlock, In, At, Tests
      <3>2. \A x : ~In(t, x)'
        <4>1. CASE Return(t) BY <4>1 DEF Return, Typed, In, At
        <4>2. CASE step' = [step EXCEPT ![t] = "asleep"] BY <4>2 DEF Typed, In, At
        <4> QED BY <2>3, <4>1, <4>2
              DEF PostUnlock, WaitSleep, WaitUnlock, Goto, Proceed, AfterSet
      <3>3. \A u \in Threads \ {t} : ~In(u, o) BY <3>1 DEF Held
      <3>4. \A x \in Objects \ {o} : mutex'[x] = mutex[x] BY <3>1 DEF Typed
      <3> QED BY <1>1, <3>2, <3>3, <3>4 DEF Held
    <2>4. CASE Check(t, o)
      <3>1. mutex' = mutex /\ Return(t) BY <2>4 DEF Check
      <3>2. \A x : ~In(t, x)' BY <3>1 DEF Return, Typed, In, At
      <3> QED BY <1>1, <3>1, <3>2 DEF Held
    <2>5. CASE Release(t, o)
      <3>1. /\ mutex' = [mutex EXCEPT ![o] = NoThread] /\ Return(t)
            /\ Current(t).op \in LockOps /\ Current(t).on = o
        BY <2>5 DEF Release, Unlock, At, LockOps
      <3>2. \A x : ~In(t, x)' BY <3>1 DEF Return, Typed, In, At
      <3>3. \A u \in Threads : ~In(u, o) BY <1>1, <3>1, LocksApart
      <3>4. \A x \in Objects \ {o} : mutex'[x] = mutex[x] BY <3>1 DEF Typed
      <3> QED BY <1>1, <3>2, <3>3, <3>4 DEF Held
    <2> QED BY <1>3, <2>1, <2>2, <2>3, <2>4, <2>5 DEF InUse
  <1> QED BY <1>2, <1>3, RunIs

LEMMA HeldStep ==
  ASSUME Typed, Held, [Next]_vars
  PROVE  Held'
  <1>1. CASE UNCHANGED vars BY <1>1 DEF vars, Held, In, At, Running, Current
  <1>2. CASE WakeUp
    <2>1. PICK t \in Threads, o \in Objects :
            Wake(t, o) /\ UNCHANGED <<program, started, alive>>
      BY <1>2 DEF WakeUp
    <2>2. /\ program' = program /\ mutex' = mutex
          /\ \A u \in Threads :
               line'[u] = line[u] /\ (step'[u] = step[u] \/ (step[u] = "asleep" /\ step'[u] = "awake"))
      BY <2>1 DEF Wake, Goto, At, Typed
    <2>3. \A u \in Threads : \A x : In(u, x)' => In(u, x) BY <2>2, InStays
    <2> QED BY <2>2, <2>3 DEF Held
  <1>3. CASE \E t \in Threads : Run(t) BY <1>3, HeldRun
  <1> QED BY <1>1, <1>2, <1>3 DEF Next

\* call k of t posts the value v to o
Posts(t, k, o, v) ==
  program[t][k].op = "post" /\ program[t][k].on = o /\ program[t][k].val = v

(* An event has its first value, or one that was posted.                   *)
Posted ==
  \A o \in Objects : value[o] # -1 =>
    \E u \in Threads : \E n \in 1 .. Len(program[u]) : Posts(u, n, o, value[o]) /\ Done(u, n)

(* A thread that was joined has returned; a wait that has met a value only *)
(* one post has, comes after that.                                         *)
Joined ==
  \A t \in Threads : \A k \in 1 .. Len(program[t]) :
    program[t][k].op = "join_thread" /\ Over(t, k) => ~Running(program[t][k].on)

Met ==
  \A t \in Threads : \A k \in 1 .. Len(program[t]) :
    program[t][k].op = "wait" /\ program[t][k].val # -1 /\ Done(t, k) =>
      \A u \in Threads : \A n \in 1 .. Len(program[u]) :
        OnlyPost(program, u, n, program[t][k].on, program[t][k].val) => Over(u, n)

(* The first thread has started another one.                               *)
Begun ==
  started # {Main} =>
    \E k \in 1 .. Len(program[Main]) : program[Main][k].op = "create_thread" /\ Over(Main, k)

\* the first thread has created o
Created(o) ==
  \E c \in 1 .. Len(program[Main]) :
    program[Main][c].op = "create" /\ program[Main][c].on = o /\ Over(Main, c)

(* Of an object that was created and is not there, every use is over.      *)
Gone ==
  \A o \in Objects : ~alive[o] /\ Created(o) =>
    \A u \in Threads : \A m \in 1 .. Len(program[u]) : Uses(program, u, m, o) => Over(u, m)

DInv ==
  /\ Typed /\ Ends /\ alive \in [Objects -> BOOLEAN] /\ started \subseteq Threads
  /\ Held /\ Posted /\ Joined /\ Met /\ Begun /\ Gone

(* A post that has taken effect has, whatever step comes next.             *)
LEMMA DoneStays ==
  ASSUME Typed, [Next]_vars, NEW u \in Threads, NEW k \in 1 .. Len(program[u]),
         program[u][k].op = "post", Done(u, k)
  PROVE  Done(u, k)'
  <1>1. CASE UNCHANGED vars BY <1>1 DEF vars, Done
  <1>2. CASE WakeUp
    <2>1. PICK t \in Threads, o \in Objects : Wake(t, o) BY <1>2 DEF WakeUp
    <2>2. line' = line /\ (step'[u] = step[u] \/ step[u] = "asleep")
      BY <2>1 DEF Wake, Goto, At, Typed
    <2> QED BY <2>2 DEF Done
  <1>3. ASSUME NEW t \in Threads, Run(t) PROVE Done(u, k)'
    <2>1. line[u] \in Nat /\ k \in Int BY DEF Typed
    <2>2. CASE u # t BY <1>3, <2>2, RunMoves DEF Done
    <2>3. CASE u = t
      <3>1. line'[t] = line[t] \/ line'[t] = line[t] + 1 BY <1>3, RunMoves
      <3>2. CASE k < line[u] BY <2>1, <2>3, <3>1, <3>2 DEF Done
      <3>3. CASE k = line[u] /\ step[u] \in {"wake", "leave"}
        <4>1. Current(t).op = "post" /\ step[t] \in {"wake", "leave"} BY <2>3, <3>3 DEF Current
        <4>2. ~\E x : Others(t, x) BY <4>1, OthersReturn
        <4>3. PICK o \in Objects : InUse(t, o) BY <1>3, <4>2, RunIs
        <4>4. PostBroadcast(t, o) \/ PostUnlock(t, o)
          BY <4>1, <4>3 DEF InUse, PostLock, PostSet, WaitLock, WaitTest, WaitSleep, WaitUnlock,
                            Check, Acquire, Release, At
        <4>5. CASE PostBroadcast(t, o)
          BY <2>3, <3>3, <4>5 DEF PostBroadcast, AfterSet, Done
        <4>6. CASE PostUnlock(t, o)
          <5>1. line' = [line EXCEPT ![t] = @ + 1] BY <4>6 DEF PostUnlock, Proceed, AfterSet, Return
          <5>2. line'[t] = line[t] + 1 BY <5>1 DEF Typed
          <5> QED BY <2>1, <2>3, <3>3, <5>2 DEF Done
        <4> QED BY <4>4, <4>5, <4>6
      <3> QED BY <3>2, <3>3 DEF Done
    <2> QED BY <2>2, <2>3
  <1> QED BY <1>1, <1>2, <1>3 DEF Next

LEMMA PostedStep ==
  ASSUME Typed, Posted, [Next]_vars
  PROVE  Posted'
  <1>1. program' = program BY OverStays
  <1>2. ASSUME NEW o \in Objects, value'[o] = value[o], value'[o] # -1
        PROVE  \E u \in Threads : \E n \in 1 .. Len(program[u]) : Posts(u, n, o, value[o]) /\ Done(u, n)'
    <2>1. PICK u \in Threads : \E n \in 1 .. Len(program[u]) : Posts(u, n, o, value[o]) /\ Done(u, n)
      BY <1>2 DEF Posted
    <2>2. PICK n \in 1 .. Len(program[u]) : Posts(u, n, o, value[o]) /\ Done(u, n) BY <2>1
    <2>3. Done(u, n)' BY <2>2, DoneStays DEF Posts
    <2> QED BY <2>2, <2>3
  <1>3. ASSUME NEW o \in Objects, value'[o] # value[o]
        PROVE  \E u \in Threads : \E n \in 1 .. Len(program[u]) : Posts(u, n, o, value'[o]) /\ Done(u, n)'
    <2>1. PICK t \in Threads, x \in Objects : PostSet(t, x)
      <3>1. ~UNCHANGED vars BY <1>3 DEF vars
      <3>2. ~WakeUp BY <1>3 DEF WakeUp, Wake
      <3>3. PICK t \in Threads : Run(t) BY <3>1, <3>2 DEF Next
      <3>4. ~\E x : Others(t, x) BY <1>3, OthersReturn
      <3>5. PICK x \in Objects : InUse(t, x) BY <3>3, <3>4, RunIs
      <3> QED BY <1>3, <3>5
            DEF InUse, PostLock, PostBroadcast, PostUnlock, WaitLock, WaitTest, WaitSleep,
                WaitUnlock, Check, Acquire, Release
    <2>2. /\ Running(t) /\ Current(t).op = "post" /\ Current(t).on = x
          /\ value' = [value EXCEPT ![x] = Current(t).val]
          /\ step' = [step EXCEPT ![t] = "wake"] /\ line' = line
      BY <2>1 DEF PostSet, At, Proceed, AfterSet, Goto
    <2>3. o = x /\ value'[o] = Current(t).val BY <1>3, <2>2 DEF Typed
    <2>4. PICK k \in 1 .. Len(program[t]) : k = line[t] BY <2>2, InProgram
    <2>5. Posts(t, k, o, value'[o]) BY <2>2, <2>3, <2>4 DEF Posts, Current
    <2>6. Done(t, k)'
      <3>1. step'[t] = "wake" /\ line'[t] = line[t] BY <2>2 DEF Typed
      <3> QED BY <2>2, <2>4, <3>1 DEF Done
    <2> QED BY <2>4, <2>5, <2>6
  <1>4. ASSUME NEW o \in Objects, value'[o] # -1
        PROVE  \E u \in Threads : \E n \in 1 .. Len(program'[u]) :
                 Posts(u, n, o, value[o])' /\ Done(u, n)'
    <2>1. PICK u \in Threads : \E n \in 1 .. Len(program[u]) : Posts(u, n, o, value'[o]) /\ Done(u, n)'
      BY <1>2, <1>3, <1>4
    <2>2. PICK n \in 1 .. Len(program[u]) : Posts(u, n, o, value'[o]) /\ Done(u, n)' BY <2>1
    <2> QED BY <1>1, <2>2 DEF Posts
  <1> QED BY <1>4 DEF Posted

(* The call of a thread that returns, of another kind than t was in.       *)
LEMMA Returns ==
  ASSUME Typed, [Next]_vars, NEW t \in Threads, NEW k \in 1 .. Len(program[t]),
         ~Over(t, k), Over(t, k)'
  PROVE  Run(t) /\ k = line[t] /\ Running(t) /\ Current(t) = program[t][k]
  <1>1. line[t] \in Nat /\ k \in Int /\ ~(k < line[t]) /\ k < line'[t] BY DEF Typed, Over
  <1>2. line'[t] # line[t] BY <1>1
  <1>3. ~UNCHANGED vars BY <1>2 DEF vars
  <1>4. ~WakeUp BY <1>2 DEF WakeUp, Wake, Goto
  <1>5. PICK u \in Threads : Run(u) BY <1>3, <1>4 DEF Next
  <1>6. u = t BY <1>2, <1>5, RunMoves
  <1>7. line'[t] = line[t] + 1 /\ Running(t) BY <1>2, <1>5, <1>6, RunMoves
  <1>8. k = line[t] BY <1>1, <1>7
  <1> QED BY <1>5, <1>6, <1>7, <1>8 DEF Current

LEMMA JoinedStep ==
  ASSUME Typed, Joined, [Next]_vars
  PROVE  Joined'
  <1>1. program' = program BY OverStays
  <1>2. \A u \in Threads : ~Running(u) => ~Running(u)'
    <2> SUFFICES ASSUME NEW u \in Threads, ~Running(u) PROVE ~Running(u)' OBVIOUS
    <2>1. Len(program[u]) \in Int BY InProgram
    <2>2. Over(u, Len(program[u])) BY <2>1 DEF Running, Over, Typed
    <2>3. Len(program[u]) < line'[u] BY <2>1, <2>2, OverStays DEF Over
    <2>4. line'[u] \in Int BY TypedStep DEF Typed
    <2> QED BY <1>1, <2>1, <2>3, <2>4 DEF Running
  <1>3. ASSUME NEW t \in Threads, NEW k \in 1 .. Len(program[t]),
               program[t][k].op = "join_thread", Over(t, k)'
        PROVE  ~Running(program[t][k].on)'
    <2>1. PICK u \in Threads : u = program[t][k].on
      <3>1. program[t][k] \in Calls BY InProgram
      <3> QED BY <1>3, <3>1 DEF Calls, ObjectOps, LockOps, EventOps
    <2>2. ~Running(u)
      <3>1. CASE Over(t, k) BY <1>3, <2>1, <3>1 DEF Joined
      <3>2. CASE ~Over(t, k)
        <4>1. Run(t) /\ Current(t) = program[t][k] BY <1>3, <3>2, Returns
        <4>2. Current(t).op = "join_thread" BY <1>3, <4>1
        <4>3. ~\E o \in Objects : InUse(t, o)
          BY <4>2 DEF InUse, PostLock, PostSet, PostBroadcast, PostUnlock, WaitLock, WaitTest,
                      WaitSleep, WaitUnlock, Check, Acquire, Release, At
        <4>4. PICK x : Others(t, x) BY <4>1, <4>3, RunIs
        <4>5. JoinThread(t, x) BY <4>2, <4>4 DEF Others, Create, Destroy, CreateThread, At
        <4> QED BY <2>1, <4>1, <4>5 DEF JoinThread, At
      <3> QED BY <3>1, <3>2
    <2>3. ~Running(u)' BY <1>2, <2>2
    <2>4. u = program'[t][k].on BY <1>1, <2>1
    <2> QED BY <2>3, <2>4 DEF Running
  <1> QED BY <1>1, <1>3 DEF Joined

(* A wait passes its test with the value of a post that has left: both     *)
(* hold the mutex of the event while they look at it.                      *)
LEMMA MetStep ==
  ASSUME Typed, Held, Posted, Met, [Next]_vars
  PROVE  Met'
  <1>1. program' = program BY OverStays
  <1>2. ASSUME NEW t \in Threads, NEW k \in 1 .. Len(program[t]),
               program[t][k].op = "wait", program[t][k].val # -1, Done(t, k)',
               NEW u \in Threads, NEW n \in 1 .. Len(program[u]),
               OnlyPost(program, u, n, program[t][k].on, program[t][k].val)
        PROVE  Over(u, n)
    <2>1. CASE Done(t, k) BY <1>2, <2>1 DEF Met
    <2>2. CASE ~Done(t, k)
      <3> DEFINE o == program[t][k].on
      <3>1. PICK x \in Objects : WaitTest(t, x) /\ k = line[t]
        <4>1. ~UNCHANGED vars BY <1>2, <2>2 DEF vars, Done
        <4>2. ~WakeUp
          <5> SUFFICES ASSUME NEW w \in Threads, NEW x \in Objects, Wake(w, x) PROVE FALSE
            BY DEF WakeUp
          <5>1. line' = line /\ (step'[t] = step[t] \/ step'[t] = "awake")
            BY DEF Wake, Goto, Typed
          <5> QED BY <1>2, <2>2, <5>1 DEF Done
        <4>3. PICK w \in Threads : Run(w) BY <4>1, <4>2 DEF Next
        <4>4. w = t
          <5> SUFFICES ASSUME w # t PROVE FALSE OBVIOUS
          <5>1. line'[t] = line[t] /\ (step'[t] = step[t] \/ step'[t] = "awake")
            BY <4>3, RunMoves
          <5> QED BY <1>2, <2>2, <5>1 DEF Done
        <4>5. k = line[t] /\ step[t] # "leave"
          <5>1. line[t] \in Nat /\ k \in Int /\ ~(k < line[t]) BY <2>2 DEF Done, Typed
          <5>2. line'[t] = line[t] \/ (line'[t] = line[t] + 1) BY <4>3, <4>4, RunMoves
          <5>3. k <= line'[t]
            <6>1. k < line'[t] \/ k = line'[t] BY <1>2 DEF Done
            <6> QED BY <5>1, <5>2, <6>1
          <5>4. k = line[t] \/ (k = line[t] + 1 /\ k = line'[t]) BY <5>1, <5>2, <5>3
          <5>5. k # line[t] + 1
            <6> SUFFICES ASSUME k = line[t] + 1 PROVE FALSE OBVIOUS
            <6>1. line'[t] = line[t] + 1 /\ ~(k < line'[t]) BY <5>1, <5>2, <5>3
            <6>2. step'[t] = "enter" BY <4>3, <4>4, <5>1, <6>1, RunMoves
            <6> QED BY <1>2, <6>1, <6>2 DEF Done
          <5>6. k = line[t] BY <5>4, <5>5
          <5> QED BY <2>2, <5>6 DEF Done
        <4>6. Current(t).op = "wait" BY <1>2, <4>5 DEF Current
        <4>7. PICK x \in Objects : InUse(t, x) BY <4>3, <4>4, <4>6, OthersReturn, RunIs
        <4>8. WaitLock(t, x) \/ WaitTest(t, x) \/ WaitSleep(t, x)
          BY <4>5, <4>6, <4>7
             DEF InUse, PostLock, PostSet, PostBroadcast, PostUnlock, WaitUnlock, Check, Acquire,
                 Release, At
        <4>9. ASSUME \/ WaitLock(t, x) \/ WaitSleep(t, x) PROVE FALSE
          <5>1. line' = line /\ step'[t] \in {"test", "retest", "asleep"}
            BY <4>9 DEF WaitLock, WaitSleep, Goto, Typed
          <5> QED BY <1>2, <4>5, <5>1 DEF Done, Typed
        <4> QED BY <4>5, <4>8, <4>9
      <3>2. /\ In(t, x) /\ value[x] = program[t][k].val /\ x = o
        BY <3>1 DEF WaitTest, WaitAgain, In, At, Tests, Current
      <3>3. mutex[x] = t BY <3>2 DEF Held
      <3>4. PICK w \in Threads : \E m \in 1 .. Len(program[w]) : Posts(w, m, x, value[x]) /\ Done(w, m)
        BY <1>2, <3>2 DEF Posted
      <3>5. PICK m \in 1 .. Len(program[w]) : Posts(w, m, x, value[x]) /\ Done(w, m) BY <3>4
      <3>6. w = u /\ m = n BY <1>2, <3>2, <3>5 DEF OnlyPost, Posts
      <3>7. ~(n = line[u] /\ step[u] \in {"wake", "leave"})
        <4> SUFFICES ASSUME n = line[u], step[u] \in {"wake", "leave"} PROVE FALSE OBVIOUS
        <4>1. Running(u) /\ Current(u).op = "post" /\ Current(u).on = x
          <5>1. Len(program[u]) \in Nat BY InProgram
          <5> QED BY <3>5, <3>6, <5>1 DEF Running, Current, Posts
        <4>2. In(u, x) BY <4>1 DEF In, At
        <4>3. u = t BY <3>3, <4>2 DEF Held
        <4> QED BY <3>1, <4>1, <4>3 DEF WaitTest, At
      <3> QED BY <3>5, <3>6, <3>7 DEF Done, Over
    <2> QED BY <2>1, <2>2
  <1>3. ASSUME NEW t \in Threads, NEW k \in 1 .. Len(program[t]),
               program[t][k].op = "wait", program[t][k].val # -1, Done(t, k)',
               NEW u \in Threads, NEW n \in 1 .. Len(program[u]),
               OnlyPost(program, u, n, program[t][k].on, program[t][k].val)
        PROVE  Over(u, n)'
    <2>1. Over(u, n) BY <1>2, <1>3
    <2>2. n \in Int OBVIOUS
    <2> QED BY <2>1, <2>2, OverStays
  <1> QED BY <1>1, <1>3 DEF Met

LEMMA BegunStep ==
  ASSUME Typed, Begun, [Next]_vars
  PROVE  Begun'
  <1>1. program' = program BY OverStays
  <1>2. ASSUME started' # {Main}
        PROVE  \E k \in 1 .. Len(program[Main]) :
                 program[Main][k].op = "create_thread" /\ Over(Main, k)'
    <2>1. Main \in Threads BY ThreadEventsAssumption
    <2>2. CASE started # {Main}
      <3>1. PICK k \in 1 .. Len(program[Main]) :
              program[Main][k].op = "create_thread" /\ Over(Main, k)
        BY <2>2 DEF Begun
      <3>2. k \in Int OBVIOUS
      <3> QED BY <2>1, <3>1, <3>2, OverStays
    <2>3. CASE started = {Main}
      <3>1. PICK t \in Threads : Run(t)
        BY <1>2, <2>3 DEF Next, vars, WakeUp
      <3>2. t = Main BY <2>3, <3>1, RunIs
      <3>3. PICK x : Others(t, x) BY <1>2, <2>3, <3>1, RunIs
      <3>4. Current(t).op = "create_thread" /\ Running(t) /\ Return(t)
        BY <1>2, <2>3, <3>3, OthersReturn
           DEF Others, Create, Destroy, CreateThread, JoinThread, At
      <3>5. PICK k \in 1 .. Len(program[Main]) : k = line[Main] BY <3>2, <3>4, InProgram
      <3>6. line'[Main] = line[Main] + 1 BY <2>1, <3>2, <3>4 DEF Return, Typed
      <3>7. Over(Main, k)' BY <3>5, <3>6 DEF Over
      <3> QED BY <3>2, <3>4, <3>5, <3>7 DEF Current
    <2> QED BY <2>2, <2>3
  <1> QED BY <1>1, <1>2 DEF Begun

LEMMA StartedStep ==
  ASSUME started \subseteq Threads, [Next]_vars
  PROVE  started' \subseteq Threads
  BY DEF Next, vars, WakeUp, Run, Create, Destroy, CreateThread, JoinThread

\* of the tables, only alive changes when an object is created or destroyed
LEMMA AliveStep ==
  ASSUME Typed, alive \in [Objects -> BOOLEAN], [Next]_vars
  PROVE  /\ alive' \in [Objects -> BOOLEAN]
         /\ \A o \in Objects :
              \/ alive'[o] = alive[o]
              \/ alive'[o] /\ \E t \in Threads : Run(t) /\ Create(t, o)
              \/ ~alive'[o] /\ \E t \in Threads : Run(t) /\ Destroy(t, o)
  <1>1. CASE UNCHANGED vars BY <1>1 DEF vars
  <1>2. CASE WakeUp BY <1>2 DEF WakeUp
  <1>3. ASSUME NEW t \in Threads, Run(t)
        PROVE  /\ alive' \in [Objects -> BOOLEAN]
               /\ \A o \in Objects :
                    \/ alive'[o] = alive[o]
                    \/ alive'[o] /\ \E u \in Threads : Run(u) /\ Create(u, o)
                    \/ ~alive'[o] /\ \E u \in Threads : Run(u) /\ Destroy(u, o)
    <2>1. \/ alive' = alive
          \/ \E x \in Objects : Create(t, x) /\ alive' = [alive EXCEPT ![x] = TRUE]
          \/ \E x \in Objects : Destroy(t, x) /\ alive' = [alive EXCEPT ![x] = FALSE]
      BY <1>3 DEF Run, Create, Destroy, CreateThread, JoinThread
    <2>2. CASE alive' = alive BY <2>2
    <2>3. ASSUME NEW x \in Objects, Create(t, x), alive' = [alive EXCEPT ![x] = TRUE]
          PROVE  /\ alive' \in [Objects -> BOOLEAN]
                 /\ \A o \in Objects : alive'[o] = alive[o] \/ (o = x /\ alive'[o])
      BY <2>3
    <2>4. ASSUME NEW x \in Objects, Destroy(t, x), alive' = [alive EXCEPT ![x] = FALSE]
          PROVE  /\ alive' \in [Objects -> BOOLEAN]
                 /\ \A o \in Objects : alive'[o] = alive[o] \/ (o = x /\ ~alive'[o])
      BY <2>4
    <2> QED BY <1>3, <2>1, <2>2, <2>3, <2>4
  <1> QED BY <1>1, <1>2, <1>3 DEF Next

(* What a thread knows to be over before its call, is over when it gets    *)
(* there.                                                                  *)
LEMMA KnownIsOver ==
  ASSUME Typed, Joined, Met, NEW t \in Threads, Running(t),
         NEW u \in Threads, NEW m \in 1 .. Len(program[u]), Knows(program, t, line[t], u, m)
  PROVE  Over(u, m)
  <1>1. line[t] \in 1 .. Len(program[t]) /\ Len(program[t]) \in Nat BY InProgram
  <1>2. PICK j \in 1 .. line[t] - 1 :
          \/ program[t][j].op = "join_thread" /\ program[t][j].on = u
          \/ /\ program[t][j].op = "wait" /\ program[t][j].val # -1
             /\ \E n \in m .. Len(program[u]) :
                  OnlyPost(program, u, n, program[t][j].on, program[t][j].val)
    BY DEF Knows
  <1>3. j \in 1 .. Len(program[t]) /\ Over(t, j) /\ Done(t, j) BY <1>1 DEF Over, Done
  <1>4. Len(program[u]) \in Nat /\ line[u] \in Nat /\ m \in Nat /\ m >= 1 /\ m <= Len(program[u])
    BY InProgram DEF Typed
  <1>5. CASE program[t][j].op = "join_thread" /\ program[t][j].on = u
    <2>1. ~Running(u) BY <1>3, <1>5 DEF Joined
    <2> QED BY <1>4, <2>1 DEF Running, Over
  <1>6. CASE /\ program[t][j].op = "wait" /\ program[t][j].val # -1
             /\ \E n \in m .. Len(program[u]) :
                  OnlyPost(program, u, n, program[t][j].on, program[t][j].val)
    <2>1. PICK n \in m .. Len(program[u]) :
            OnlyPost(program, u, n, program[t][j].on, program[t][j].val)
      BY <1>6
    <2>2. n \in 1 .. Len(program[u]) BY <1>4
    <2>3. Over(u, n) BY <1>3, <1>6, <2>1, <2>2 DEF Met
    <2> QED BY <1>4, <2>1, <2>3 DEF Over
  <1> QED BY <1>2, <1>5, <1>6

LEMMA GoneStep ==
  ASSUME DInv, DestroysLast(program), CreatesFirst(program), [Next]_vars
  PROVE  Gone'
  <1>1. program' = program BY OverStays DEF DInv
  <1>2. ASSUME NEW o \in Objects, ~alive'[o], Created(o)',
               NEW u \in Threads, NEW m \in 1 .. Len(program[u]), Uses(program, u, m, o)
        PROVE  Over(u, m)'
    <2>1. m \in Int OBVIOUS
    <2>2. CASE ~alive[o] /\ Created(o)
      <3>1. Over(u, m) BY <1>2, <2>2 DEF DInv, Gone
      <3> QED BY <2>1, <3>1, OverStays DEF DInv
    <2>3. CASE ~alive[o] /\ ~Created(o)
      <3>1. PICK c \in 1 .. Len(program[Main]) :
              program[Main][c].op = "create" /\ program[Main][c].on = o /\ Over(Main, c)'
        BY <1>1, <1>2 DEF Created
      <3>2. Main \in Threads /\ ~Over(Main, c) BY <2>3, <3>1, ThreadEventsAssumption DEF Created
      <3>3. Run(Main) /\ Running(Main) /\ Current(Main) = program[Main][c]
        BY <3>1, <3>2, Returns DEF DInv
      <3>4. Current(Main).op = "create" /\ Current(Main).on = o BY <3>1, <3>3
      <3>5. ~\E x \in Objects : InUse(Main, x)
        BY <3>4 DEF InUse, PostLock, PostSet, PostBroadcast, PostUnlock, WaitLock, WaitTest,
                    WaitSleep, WaitUnlock, Check, Acquire, Release, At
      <3>6. PICK x : Others(Main, x) BY <3>2, <3>3, <3>5, RunIs
      <3>7. Create(Main, x) /\ x = o BY <3>4, <3>6 DEF Others, Create, Destroy, CreateThread, JoinThread, At
      <3> QED BY <1>2, <3>7 DEF Create, DInv
    <2>4. CASE alive[o]
      <3>1. PICK t \in Threads : Run(t) /\ Destroy(t, o) BY <1>2, <2>4, AliveStep DEF DInv
      <3>2. Running(t) /\ Current(t).op = "destroy" /\ Current(t).on = o
        BY <3>1 DEF Destroy, At
      <3>3. line[t] \in 1 .. Len(program[t]) BY <3>2, InProgram DEF DInv
      <3>4. IF u = t THEN m < line[t] ELSE Knows(program, t, line[t], u, m)
        BY <1>2, <3>2, <3>3 DEF DestroysLast, Current
      <3>5. Over(u, m)
        <4>1. CASE u = t BY <3>4, <4>1 DEF Over
        <4>2. CASE u # t BY <3>2, <3>4, <4>2, KnownIsOver DEF DInv
        <4> QED BY <4>1, <4>2
      <3> QED BY <2>1, <3>5, OverStays DEF DInv
    <2> QED BY <2>2, <2>3, <2>4
  <1> QED BY <1>1, <1>2 DEF Gone, Created, Uses

(* In a program that creates its objects first and destroys an object last *)
(* (CreatesFirst, DestroysLast), no thread is ever in a call on an object  *)
(* that is not there: a thread that waited for a post may destroy what the *)
(* post was about, as the post has left its critical section by then.      *)
THEOREM NoUseAfterDestroy ==
  ASSUME \A p \in Programs : CreatesFirst(p) /\ DestroysLast(p)
  PROVE  Spec => []DestroyedIsUnused
  <1>1. Init => DInv
    <2> SUFFICES ASSUME Init PROVE DInv OBVIOUS
    <2>1. /\ Typed /\ alive \in [Objects -> BOOLEAN] /\ started = {Main} /\ started \subseteq Threads
          /\ \A o \in Objects : value[o] = -1
      BY ThreadEventsAssumption DEF Init, Typed
    <2>2. Ends
      <3> SUFFICES ASSUME NEW u \in Threads PROVE line[u] - 1 <= Len(program[u]) BY DEF Ends
      <3>1. program[u] \in Seq(Calls) BY <2>1, InProgram
      <3> QED BY <3>1 DEF Init
    <2>3. ASSUME NEW t \in Threads, NEW k \in 1 .. Len(program[t]) PROVE ~Over(t, k) /\ ~Done(t, k)
      BY DEF Init, Over, Done
    <2>4. Held BY DEF Init, Held, In, At
    <2>5. Posted /\ Begun BY <2>1 DEF Posted, Begun
    <2>6. Joined /\ Met BY <2>3 DEF Joined, Met
    <2>7. Gone BY <2>3, ThreadEventsAssumption DEF Gone, Created
    <2> QED BY <2>1, <2>2, <2>4, <2>5, <2>6, <2>7 DEF DInv
  <1>2. DInv /\ [Next]_vars => DInv'
    <2> SUFFICES ASSUME DInv, [Next]_vars PROVE DInv' OBVIOUS
    <2>1. program \in Programs BY DEF DInv, Typed
    <2>2. Gone' BY <2>1, GoneStep
    <2> QED BY <2>2, TypedStep, EndsStep, AliveStep, StartedStep, HeldStep, PostedStep,
               JoinedStep, MetStep, BegunStep
         DEF DInv
  <1>3. DInv => DestroyedIsUnused
    <2> SUFFICES ASSUME DInv, NEW t \in started, Running(t), Current(t).op \in LockOps \cup EventOps
                 PROVE  alive[Current(t).on]
      BY DEF DestroyedIsUnused
    <2> DEFINE k == line[t]
    <2>1. t \in Threads /\ Main \in Threads BY ThreadEventsAssumption DEF DInv
    <2>2. k \in 1 .. Len(program[t]) /\ Current(t) \in Calls /\ Current(t) = program[t][k]
      BY <2>1, InProgram DEF DInv, Current
    <2>3. PICK o \in Objects : o = Current(t).on BY <2>2 DEF Calls, LockOps, EventOps
    <2>4. Uses(program, t, k, o) BY <2>2, <2>3 DEF Uses
    <2>5. CreatesFirst(program) BY DEF DInv, Typed
    <2> HIDE DEF k
    <2>6. PICK c \in 1 .. Len(program[Main]) :
            /\ program[Main][c].op = "create" /\ program[Main][c].on = o
            /\ t = Main => c < k
            /\ \A n \in 1 .. Len(program[Main]) : program[Main][n].op = "create_thread" => c < n
      BY <2>1, <2>2, <2>4, <2>5 DEF CreatesFirst
    <2>7. Over(Main, c)
      <3>1. CASE t = Main BY <2>6, <3>1 DEF Over, k
      <3>2. CASE t # Main
        <4>1. PICK n \in 1 .. Len(program[Main]) :
                program[Main][n].op = "create_thread" /\ Over(Main, n)
          BY <3>2 DEF DInv, Begun
        <4>2. c < n BY <2>6, <4>1
        <4>3. line[Main] \in Int BY <2>1 DEF DInv, Typed
        <4> QED BY <4>1, <4>2, <4>3 DEF Over
      <3> QED BY <3>1, <3>2
    <2>8. Created(o) BY <2>6, <2>7 DEF Created
    <2>9. ~Over(t, k)
      <3>1. line[t] \in Int BY <2>1 DEF DInv, Typed
      <3> QED BY <3>1 DEF Over, k
    <2>10. alive[o] BY <2>1, <2>2, <2>4, <2>8, <2>9 DEF DInv, Gone
    <2> QED BY <2>3, <2>10
  <1> QED BY <1>1, <1>2, <1>3, PTL DEF Spec

=============================================================================
