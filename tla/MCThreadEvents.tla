--------------------------- MODULE MCThreadEvents ---------------------------
(***************************************************************************)
(* Programs of three threads, on two events and a lock: a handshake, after *)
(* which the event is destroyed; two waiters for one post; posts that      *)
(* follow each other so fast that a waiter may miss one; posts in turn     *)
(* under a user lock; and two at once, joined before the event goes.  And  *)
(* all short programs on one event.  Thread "p" starts the others.         *)
(***************************************************************************)
EXTENDS ThreadEvents, TLC

Do(op, on, val) == [op |-> op, on |-> on, val |-> val]
Make(o)     == Do("create", o, 0)
DestroyIt(o) == Do("destroy", o, 0)
Post(e, v)  == Do("post", e, v)
Wait(e, v)  == Do("wait", e, v)
CheckOn(e)  == Do("check", e, 0)
Take(l)     == Do("acquire", l, 0)
Give(l)     == Do("release", l, 0)
Start(u)    == Do("create_thread", u, 0)
Join(u)     == Do("join_thread", u, 0)

Run3(p, q, r) == ("p" :> p) @@ ("q" :> q) @@ ("r" :> r)

Both == <<Make("e"), Make("f"), Start("q"), Start("r")>>

\* "q" knows that "p" has given the lock back because it took it itself
UnderALock ==
  Run3(<<Make("l")>> \o Both \o <<Take("l"), Post("e", 1), Wait("f", 1), Give("l"), Join("q")>>,
       <<Wait("e", 1), Post("f", 1), Take("l"), Post("e", 2), Give("l"), Join("r"), DestroyIt("l")>>,
       <<Take("l"), CheckOn("e"), Give("l"), Wait("e", 2)>>)

Hand == {
  Run3(Both \o <<Post("e", 1), Wait("f", 1), Post("e", 2), Join("r"), Join("q"), DestroyIt("f")>>,
       <<Wait("e", 1), Post("f", 1), Wait("e", 2), DestroyIt("e")>>, <<CheckOn("f")>>),
  Run3(Both \o <<Post("e", 1)>>, <<Wait("e", 1), Post("f", 1)>>,
       <<Wait("e", 1), Wait("f", 1), DestroyIt("e"), DestroyIt("f")>>),
  Run3(Both \o <<Post("e", 1), Post("e", 2), Post("e", 1)>>,
       <<Wait("e", 2)>>, <<Wait("e", 1), CheckOn("e")>>),
  UnderALock,
  Run3(<<Make("e"), Start("q"), Start("r"), Join("q"), Join("r"), DestroyIt("e")>>,
       <<Post("e", 1), Post("e", 2)>>, <<Post("e", 2), CheckOn("e"), Wait("e", 2)>>)
}

\* all short programs of two threads that post and wait, next to a waiter
Short == LET calls == {Post("e", 1), Post("e", 2), Wait("e", 1)}
             texts == {<<c>> : c \in calls} \cup {<<c, d>> : c \in calls, d \in calls}
             begin == <<Make("e"), Start("q"), Start("r")>>
         IN  {Run3(begin \o a, b, <<Wait("e", 1), CheckOn("e")>>) : a \in texts, b \in texts}

MCPrograms == Hand \cup Short

\* the programs, but one, are of those the proofs are about
ASSUME OrderlyPrograms ==
  \A p \in MCPrograms : CreatesFirst(p) /\ (p # UnderALock => DestroysLast(p))
=============================================================================
