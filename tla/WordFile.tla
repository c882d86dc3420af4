------------------------------ MODULE WordFile ------------------------------
(***************************************************************************)
(* Word addressable files (c_baseio.c): c_waopen2, c_wawrit2, c_waread2    *)
(* and c_waclos2, over the pages that qqcwawr and qqcward keep in memory,  *)
(* in a pool that all files share, when WA_CONFIG asks for them.           *)
(*                                                                         *)
(* A call works on one page after the other; the program may stop between  *)
(* two of them, and a program that starts later may have another WA_CONFIG.*)
(*                                                                         *)
(* Abstractions: a page in memory is known by its number, page k being the *)
(* words k * WA_PAGE_SIZE + 1 to (k + 1) * WA_PAGE_SIZE; the page that     *)
(* makes room is any of those scrap_page compares, whatever their          *)
(* access_count; reads and writes of the system are whole, or the program  *)
(* ends.  Left out: address 0 (the position of the last access), remote    *)
(* files and members of CMCARC archives.                                   *)
(***************************************************************************)
EXTENDS Integers, Sequences, FiniteSets

CONSTANTS
  Files,
  ReadOnly, \* the files with the attribute R/O
  Initial,  \* Initial[f]: the words of f before the first program
  Marks,    \* what tells one write from another: word a of a write is <<mark, a>>
  Zero,     \* what the system or ZERO fills with
  Junk,     \* what memory that was never written to may hold
  Starts,   \* the addresses that programs read and write from
  Lengths,  \* the numbers of words they ask for
  Configs,  \* what WA_CONFIG may say
  AllAlike, \* do the programs of the site all use pages, or all none?
  Hole,     \* WA_HOLE (2048)
  MaxSize   \* bound: MaxSize[f] is the length of file f

VARIABLES
  disk,     \* disk[f]: the words of file f that the system has
  config,   \* WA_CONFIG of the program that runs
  opened,   \* the files it has open
  size,     \* size[f]: FGFDT[].file_size
  page,     \* page[f]: the pages of f in memory, by page number
  call,     \* the call in course
  fresh,    \* history: fresh[f], the addresses written since f was opened
  got       \* history: the answer to the last call

vars == <<disk, config, opened, size, page, call, fresh, got>>

WordFileAssumption ==
  /\ Zero # Junk
  /\ Configs \subseteq [WA_PAGE_SIZE : Nat, WA_PAGE_NB : Nat \ {0}, WA_PAGE_LIMIT : Nat \ {0}]
  /\ Starts \subseteq Nat \ {0} /\ Lengths \subseteq Nat \ {0} /\ Hole \in Nat \ {0}
  /\ MaxSize \in [Files -> Nat]
  /\ ReadOnly \subseteq Files /\ AllAlike \in BOOLEAN
  /\ Initial \in [Files -> Seq({Zero})] /\ \A f \in Files : Len(Initial[f]) <= MaxSize[f]
ASSUME WordFileAssumption

Value(f) == {Zero, Junk} \cup (Marks \X (1 .. MaxSize[f]))

NoCall   == [op |-> "none"]
NoAnswer == [file |-> "none"]
NoPages  == [k \in {} |-> NoCall]

Larger(a, b)  == IF a > b THEN a ELSE b
Smaller(a, b) == IF a < b THEN a ELSE b

Paged == config.WA_PAGE_SIZE # 0

PageOf(a)    == (a - 1) \div config.WA_PAGE_SIZE
First(k)     == k * config.WA_PAGE_SIZE + 1
Last(k)      == (k + 1) * config.WA_PAGE_SIZE
InMemory(f)  == DOMAIN page[f]
PagesInUse   == UNION {{<<f, k>> : k \in InMemory(f)} : f \in Files}

Init ==
  /\ disk = Initial
  /\ config \in Configs
  /\ opened = {}
  /\ size = [f \in Files |-> 0]
  /\ page = [f \in Files |-> NoPages]
  /\ call = NoCall
  /\ fresh = [f \in Files |-> {}]
  /\ got = NoAnswer

(***************************************************************************)
(* qqcopen: the size of a file is asked of the system.                     *)
(***************************************************************************)
Open(f) ==
  /\ call = NoCall /\ f \notin opened
  /\ opened' = opened \cup {f}
  /\ size' = [size EXCEPT ![f] = Len(disk[f])]
  /\ fresh' = [fresh EXCEPT ![f] = {}]
  /\ got' = NoAnswer
  /\ UNCHANGED <<disk, config, page, call>>

(***************************************************************************)
(* The loops of qqcwawr and qqcward: a request is cut where pages end.     *)
(***************************************************************************)
Piece(adr, n, k) ==
  LET from == Larger(adr, First(k))
  IN  [adr |-> from, n |-> Smaller(adr + n - 1, Last(k)) - from + 1]

Pieces(adr, n) ==
  IF ~Paged THEN <<[adr |-> adr, n |-> n]>>
  ELSE [i \in 1 .. PageOf(adr + n - 1) - PageOf(adr) + 1 |-> Piece(adr, n, PageOf(adr) + i - 1)]

WritePieces(adr, buf) ==
  LET p == Pieces(adr, Len(buf))
  IN  [i \in DOMAIN p |-> [adr |-> p[i].adr,
                           buf |-> SubSeq(buf, p[i].adr - adr + 1, p[i].adr - adr + p[i].n)]]

(***************************************************************************)
(* The system's write: what lies between the end of the file and adr reads *)
(* as zeros afterwards.                                                    *)
(***************************************************************************)
Written(s, adr, w) ==
  IF w = <<>> THEN s
  ELSE [a \in 1 .. Larger(Len(s), adr + Len(w) - 1) |->
          IF a \in adr .. adr + Len(w) - 1 THEN w[a - adr + 1]
          ELSE IF a <= Len(s) THEN s[a] ELSE Zero]

(***************************************************************************)
(* scrap_page: the words of the page up to walast are written if a write   *)
(* touched it.                                                             *)
(***************************************************************************)
Scrapped(d, f, k) ==
  LET m == page[f][k] IN
  IF m.touched
  THEN [d EXCEPT ![f] = Written(@, First(k), [i \in 1 .. m.walast - First(k) + 1 |-> m.data[First(k) + i - 1]])]
  ELSE d

Without(pages, k) == [j \in DOMAIN pages \ {k} |-> pages[j]]

(***************************************************************************)
(* get_new_page: a file that has WA_PAGE_NB pages gives one of its own;    *)
(* when WA_PAGE_LIMIT pages are in use, any file gives one.  GetNewPage    *)
(* holds of the disk d and the pages m that may be left.                   *)
(***************************************************************************)
Victims(f) ==
  IF Cardinality(InMemory(f)) >= config.WA_PAGE_NB THEN {<<f, k>> : k \in InMemory(f)}
  ELSE IF Cardinality(PagesInUse) >= config.WA_PAGE_LIMIT THEN PagesInUse
  ELSE {}

GetNewPage(f) ==
  IF Victims(f) = {} THEN {[disk |-> disk, page |-> page]}
  ELSE {[disk |-> Scrapped(disk, v[1], v[2]),
         page |-> [page EXCEPT ![v[1]] = Without(@, v[2])]] : v \in Victims(f)}

\* the page that the read and write of word adr obtain, and its words as read
NewNumber(adr) == adr \div config.WA_PAGE_SIZE

PageReadToEnd(s, k) ==  \* faulty variant: the page ends where pages end
  [data |-> [a \in First(k) .. Last(k) |-> IF a <= Len(s) THEN s[a] ELSE Zero],
   walast |-> Last(k), touched |-> FALSE]

PageRead(s, k) ==
  [data |-> [a \in First(k) .. Last(k) |-> IF a <= Len(s) THEN s[a] ELSE Zero],
   walast |-> Smaller(Len(s), Last(k)), touched |-> FALSE]

PageNotRead(k) ==
  [data |-> [a \in First(k) .. Last(k) |-> Junk], walast |-> 0, touched |-> FALSE]

\* the system has the words of page k that the file should have
CanRead(s, k, f) == Len(s) >= Smaller(size[f], Last(k))

WithPage(pages, k, m) == [j \in DOMAIN pages \cup {k} |-> IF j = k THEN m ELSE pages[j]]

(***************************************************************************)
(* c_wawrit2: a gap behind the end of the file is filled first, with what  *)
(* the stack holds, up to and including the first word to write.           *)
(***************************************************************************)
StartWrite(f, adr, n, w) ==
  LET gap == [i \in 1 .. adr - size[f] |-> Junk]
      buf == [i \in 1 .. n |-> <<w, adr + i - 1>>]
  IN
  /\ call = NoCall /\ f \in opened /\ f \notin ReadOnly
  /\ adr <= size[f] + Hole
  /\ adr + n - 1 <= MaxSize[f]
  /\ call' = [op |-> "write", file |-> f,
              todo |-> (IF adr > size[f] + 1 THEN WritePieces(size[f] + 1, gap) ELSE <<>>)
                       \o WritePieces(adr, buf)]
  /\ fresh' = [fresh EXCEPT ![f] = @ \cup (adr .. adr + n - 1) \cup (size[f] + 1 .. adr)]
  /\ got' = NoAnswer
  /\ UNCHANGED <<disk, config, opened, size, page>>

AfterPiece == IF Len(call.todo) = 1 THEN NoCall ELSE [call EXCEPT !.todo = Tail(@)]

DirectWrite ==
  LET f == call.file
      p == Head(call.todo)
  IN
  /\ call.op = "write" /\ ~Paged
  /\ disk' = [disk EXCEPT ![f] = Written(@, p.adr, p.buf)]
  /\ size' = [size EXCEPT ![f] = Larger(@, p.adr + Len(p.buf) - 1)]
  /\ call' = AfterPiece
  /\ UNCHANGED <<config, opened, page, fresh, got>>

(***************************************************************************)
(* wa_page_write.  A new page is read before it is written to, unless the  *)
(* write starts with it and covers it, or goes on to the end of the file   *)
(* (as coded: to the last word but one).                                   *)
(***************************************************************************)
MustReadBefore(adr, n, k, f) == adr > First(k)  \* faulty variant: a page written from its start is not read

MustRead(adr, n, k, f) ==
  \/ adr > First(k)
  \/ adr + n # First(k) + config.WA_PAGE_SIZE /\ adr + n < size[f]

StoredInPlace(m, adr, buf) ==  \* faulty variant: a write does not make the page longer
  [m EXCEPT !.data = [a \in DOMAIN m.data |-> IF a \in adr .. adr + Len(buf) - 1 THEN buf[a - adr + 1]
                                              ELSE m.data[a]],
            !.touched = TRUE]

Stored(m, adr, buf) ==
  [data |-> [a \in DOMAIN m.data |-> IF a \in adr .. adr + Len(buf) - 1 THEN buf[a - adr + 1]
                                     ELSE m.data[a]],
   walast |-> Larger(m.walast, adr + Len(buf) - 1), touched |-> TRUE]

WaPageWrite ==
  LET f == call.file
      p == Head(call.todo)
      n == Len(p.buf)
  IN
  /\ call.op = "write" /\ Paged
  /\ p.adr <= size[f] + 1
  /\ IF PageOf(p.adr) \in InMemory(f)
     THEN /\ page' = [page EXCEPT ![f][PageOf(p.adr)] = Stored(@, p.adr, p.buf)]
          /\ UNCHANGED disk
     ELSE \E room \in GetNewPage(f) :
            LET k == NewNumber(p.adr)
                s == room.disk[f]
            IN
            /\ k \notin DOMAIN room.page[f]
            /\ MustRead(p.adr, n, k, f) => CanRead(s, k, f)
            /\ page' = [room.page EXCEPT ![f] =
                          WithPage(@, k, Stored(IF MustRead(p.adr, n, k, f) THEN PageRead(s, k)
                                                ELSE PageNotRead(k), p.adr, p.buf))]
            /\ disk' = room.disk
  /\ size' = [size EXCEPT ![f] = Larger(@, p.adr + n - 1)]
  /\ call' = AfterPiece
  /\ UNCHANGED <<config, opened, fresh, got>>

(***************************************************************************)
(* c_waread2: the request is cut at the end of the file.                   *)
(***************************************************************************)
Answer(f, adr, w) == [file |-> f, adr |-> adr, words |-> w]

StartRead(f, adr, n) ==
  LET m == IF adr + n - 1 > size[f] THEN size[f] - adr + 1 ELSE n IN
  /\ call = NoCall /\ f \in opened
  /\ IF adr > size[f] + 2 \/ size[f] = 0 \/ m = 0
     THEN got' = Answer(f, adr, <<>>) /\ UNCHANGED call
     ELSE /\ m > 0
          /\ call' = [op |-> "read", file |-> f, adr |-> adr, words |-> <<>>, todo |-> Pieces(adr, m)]
          /\ UNCHANGED got
  /\ UNCHANGED <<disk, config, opened, size, page, fresh>>

\* the words w of the piece that was read go to the caller's buffer
Delivered(w) ==
  /\ call' = IF Len(call.todo) = 1 THEN NoCall
             ELSE [call EXCEPT !.todo = Tail(@), !.words = @ \o w]
  /\ got' = IF Len(call.todo) = 1 THEN Answer(call.file, call.adr, call.words \o w) ELSE got
  /\ UNCHANGED <<config, opened, size, fresh>>

DirectRead ==
  LET f == call.file
      p == Head(call.todo)
  IN
  /\ call.op = "read" /\ ~Paged
  /\ p.adr + p.n - 1 <= Len(disk[f])
  /\ Delivered(SubSeq(disk[f], p.adr, p.adr + p.n - 1))
  /\ UNCHANGED <<disk, page>>

Taken(m, adr, n) ==
  [i \in 1 .. n |-> IF adr + i - 1 \in DOMAIN m.data THEN m.data[adr + i - 1] ELSE Junk]

WaPageRead ==
  LET f == call.file
      p == Head(call.todo)
  IN
  /\ call.op = "read" /\ Paged
  /\ IF PageOf(p.adr) \in InMemory(f)
     THEN /\ Delivered(Taken(page[f][PageOf(p.adr)], p.adr, p.n))
          /\ UNCHANGED <<disk, page>>
     ELSE \E room \in GetNewPage(f) :
            LET k == NewNumber(p.adr)
                m == PageRead(room.disk[f], k)
            IN
            /\ k \notin DOMAIN room.page[f]
            /\ CanRead(room.disk[f], k, f)
            /\ page' = [room.page EXCEPT ![f] = WithPage(@, k, m)]
            /\ disk' = room.disk
            /\ Delivered(Taken(m, p.adr, p.n))

(***************************************************************************)
(* qqcclos: the pages are scrapped one after the other (wa_pages_flush),   *)
(* then the file is closed; the size of a closed file is of no use.        *)
(***************************************************************************)
StartClose(f) ==
  /\ call = NoCall /\ f \in opened
  /\ call' = [op |-> "close", file |-> f]
  /\ UNCHANGED <<disk, config, opened, size, page, fresh, got>>

FlushPage(k) ==
  LET f == call.file IN
  /\ call.op = "close" /\ k \in InMemory(f)
  /\ disk' = Scrapped(disk, f, k)
  /\ page' = [page EXCEPT ![f] = Without(@, k)]
  /\ UNCHANGED <<config, opened, size, call, fresh, got>>

EndClose ==
  LET f == call.file IN
  /\ call.op = "close" /\ InMemory(f) = {}
  /\ opened' = opened \ {f}
  /\ size' = [size EXCEPT ![f] = 0]
  /\ call' = NoCall
  /\ fresh' = [fresh EXCEPT ![f] = {}]
  /\ got' = NoAnswer
  /\ UNCHANGED <<disk, config, page>>

(***************************************************************************)
(* The program ends without closing its files: it is killed, it returns,   *)
(* or it makes a call that exits (a write beyond WA_HOLE, a read the       *)
(* system fails).  Another program starts.                                 *)
(***************************************************************************)
Stop ==
  /\ config' \in Configs
  /\ AllAlike => (config'.WA_PAGE_SIZE = 0 <=> ~Paged)
  /\ opened' = {}
  /\ size' = [f \in Files |-> 0]
  /\ page' = [f \in Files |-> NoPages]
  /\ call' = NoCall
  /\ fresh' = [f \in Files |-> {}]
  /\ got' = NoAnswer
  /\ UNCHANGED disk

Next ==
  \/ \E f \in Files :
       \/ Open(f) \/ StartClose(f)
       \/ \E adr \in Starts, n \in Lengths :
            StartRead(f, adr, n) \/ \E w \in Marks : StartWrite(f, adr, n, w)
  \/ DirectWrite \/ WaPageWrite \/ DirectRead \/ WaPageRead
  \/ (call.op = "close" /\ \E k \in InMemory(call.file) : FlushPage(k))
  \/ EndClose
  \/ Stop

Spec == Init /\ [][Next]_vars

(***************************************************************************)
(* The types of the variables.                                             *)
(***************************************************************************)
PageType(f, k) ==
  [data : [First(k) .. Last(k) -> Value(f)], walast : 0 .. MaxSize[f], touched : BOOLEAN]

TypeOK ==
  /\ config \in Configs
  /\ opened \subseteq Files
  /\ size \in [Files -> Nat]
  /\ \A f \in Files :
       /\ Len(disk[f]) <= MaxSize[f] /\ \A a \in 1 .. Len(disk[f]) : disk[f][a] \in Value(f)
       /\ \A k \in InMemory(f) : k \in Nat /\ page[f][k] \in PageType(f, k)
       /\ fresh[f] \subseteq 1 .. MaxSize[f]

(***************************************************************************)
(* Every word of an open file is on disk or in a page in memory that will  *)
(* be written that far, so that no page the pool gave up is read back      *)
(* short: get_new_page of any file, extension by wa_page_write.            *)
(***************************************************************************)
NoWordIsMissing ==
  \A f \in opened :
    /\ Len(disk[f]) <= size[f]
    /\ \A a \in Len(disk[f]) + 1 .. size[f] :
         \E k \in InMemory(f) : a \in First(k) .. Last(k) /\ a <= page[f][k].walast /\ page[f][k].touched

(***************************************************************************)
(* The array of words that the program sees: what is on disk, the pages in *)
(* memory over it, and the rest of the write in course over both.          *)
(***************************************************************************)
Todo(f) == IF call.op = "write" /\ call.file = f THEN call.todo ELSE <<>>
Covers(t, a) == {i \in DOMAIN t : a \in t[i].adr .. t[i].adr + Len(t[i].buf) - 1}

Held(f, a) ==
  IF f \in opened /\ Paged /\ PageOf(a) \in InMemory(f) THEN page[f][PageOf(a)].data[a]
  ELSE IF a <= Len(disk[f]) THEN disk[f][a] ELSE Zero

Seen(f) ==
  LET t == Todo(f)
      n == IF f \in opened THEN size[f] ELSE Len(disk[f])
      top == IF t = <<>> THEN n ELSE Larger(n, t[Len(t)].adr + Len(t[Len(t)].buf) - 1)
  IN [a \in 1 .. top |->
        IF Covers(t, a) = {} THEN Held(f, a)
        ELSE LET i == CHOOSE i \in Covers(t, a) : \A j \in Covers(t, a) : j <= i
             IN  t[i].buf[a - t[i].adr + 1]]

A == INSTANCE WordArray WITH words <- [f \in Files |-> Seen(f)]

(***************************************************************************)
(* Through pages that come and go, gaps, files that share the pool and     *)
(* programs that stop, the files are the arrays of words of WordArray.     *)
(***************************************************************************)
Promise == A!Spec

=============================================================================
