------------------------------ MODULE XdfStore ------------------------------
(***************************************************************************)
(* A random file of a coordinated site (XdfFile) implements RecordStore.   *)
(* The file is what its directory on disk names, a session what the        *)
(* directory in the memory of the application that writes names, and the   *)
(* file is sealed when the flag in its header is down.                     *)
(***************************************************************************)
EXTENDS XdfFile

(***************************************************************************)
(* A record and its handle: the address of its directory page, its slot.   *)
(***************************************************************************)
Handled(a, s, e) == <<a, s, RecordOf(e)>>

OnFile == {Handled(as[1], as[2], disk[as[1]].ent[as[2]]) : as \in LiveOnDisk}

InMemory(f) == {Handled(f.page[h[1]].addr, h[2], EntryAt(f, h)) : h \in LiveHandles(f)}

(***************************************************************************)
(* The part of an application in the store, by its file table entry.       *)
(***************************************************************************)
InSession(f) == Writable(f) /\ f.st \in {"open", "failed", "closing", "marked"}

Phase(f) ==
  IF ~InSession(f) THEN "idle"
  ELSE IF f.st \in {"open", "failed"} THEN "session" ELSE "commit"

Work(f) == IF InSession(f) THEN InMemory(f) ELSE {}

Sealed(H) == H.rwflg \in {"none", RDMODE}

Store == INSTANCE RecordStore WITH
  Records <- Addr \X Slots \X Record,
  file    <- OnFile,
  sealed  <- Sealed(header),
  phase   <- [p \in Procs |-> Phase(tab[p])],
  work    <- [p \in Procs |-> Work(tab[p])]

(***************************************************************************)
(* Sessions, commits page by page, and stops anywhere: what is in the file *)
(* and stays in it is always found, a commit that completes leaves exactly *)
(* the records of the session, one that does not is never built upon.      *)
(***************************************************************************)
StoreIsKept == Store!Spec
=============================================================================
