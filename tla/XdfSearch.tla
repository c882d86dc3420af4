------------------------------ MODULE XdfSearch ------------------------------
(***************************************************************************)
(* Searching the directories of random-access files (xdf98.c): one         *)
(* application searches the records of file 1 and of the files linked      *)
(* behind it, and goes on writing, rewriting, erasing and linking between  *)
(* two calls.                                                              *)
(*                                                                         *)
(* The position of a search lives in the file table entry of file 1 in     *)
(* four fields (page, page number, entry, record number) that c_xdfloc2,   *)
(* next_match and c_xdfput each set in part.  Pages and records count from *)
(* 1 here, from 0 in the code; page number 0 stands for the code's -1.     *)
(* A handle has 12 bits for the page number (qstdir.h:197): the pages of a *)
(* long chain of files share handles.                                      *)
(*                                                                         *)
(* Abstractions: a key stands for all that a search compares, the record   *)
(* filter included; the directories are those in memory; records have no   *)
(* data, whether a rewritten record keeps its length is a choice; the      *)
(* files behind file 1 are not themselves searched, so that their own      *)
(* positions are left out.                                                 *)
(***************************************************************************)
EXTENDS Integers, FiniteSets, Sequences

CONSTANTS
  NFiles,         \* open files; c_xdflnk links 1, 2, ... in this order
  Keys,           \* what the primary keys of a record may be
  AnyKey,         \* the target whose mask is 0 everywhere
  Targets,        \* what the application looks for
  NoTarget,       \* before the first target: valid_target is 0
  EntriesPerPage, \* ENTRIES_PER_PAGE (256)
  MaxDirPages,    \* MAX_DIR_PAGES (1024)
  HandlePages,    \* page numbers that a handle can hold (4096)
  Opened,         \* the directories of the files when they were opened
  MaxEntries      \* bound: entries of all the directories together

(***************************************************************************)
(* Entries: the keys of a record, Gone once it is erased, and Blank for an *)
(* entry that was counted and never filled (idtyp 0).                      *)
(***************************************************************************)
Gone  == "gone"
Blank == "blank"
Entry == Keys \cup {Gone, Blank}

ASSUME XdfSearchAssumption ==
  /\ NFiles \in Nat \ {0}
  /\ EntriesPerPage \in Nat \ {0}
  /\ MaxDirPages \in Nat \ {0}
  /\ HandlePages \in Nat \ {0}
  /\ MaxEntries \in Nat
  /\ AnyKey \notin Keys /\ NoTarget \notin Keys \cup {AnyKey}
  /\ Targets \subseteq Keys \cup {AnyKey}

ASSUME OpenedAssumption ==
  /\ Opened \in [1 .. NFiles -> Seq(Seq(Entry))]
  /\ \A i \in 1 .. NFiles :
       /\ Len(Opened[i]) \in 1 .. MaxDirPages
       /\ \A j \in 1 .. Len(Opened[i]) : Len(Opened[i][j]) <= EntriesPerPage

VARIABLES
  dir,   \* dir[i]: the directory pages of file i, each the sequence of its entries
  link,  \* link[i]: the file linked behind file i
  after, \* after[i]: the file whose first page is next_page of the last page of i
  cur,   \* the position of the search and its target
  last,  \* history: what the last call returned, and should have
  stand, \* history: the record last found, if the position is still there
  owed   \* history: what a search of the whole chain has still to find

vars == <<dir, link, after, cur, last, stand, owed>>

Files  == 1 .. NFiles
NoFile == 0
NULL   == <<0, 0>>   \* no page

NPages(i) == Len(dir[i])
Page(p)   == dir[p[1]][p[2]]
LastPage(i) == <<i, NPages(i)>>

\* idtyp < 127: a blank entry, whose words are all 0, passes too
Matches(e, t) == e # Gone /\ (t = AnyKey \/ e = t)

NextPage(p) ==
  IF p = NULL THEN NULL
  ELSE IF p[2] < NPages(p[1]) THEN <<p[1], p[2] + 1>>
  ELSE IF after[p[1]] = NoFile THEN NULL ELSE <<after[p[1]], 1>>

\* the page d pages after p, NULL when there are not so many
Ahead(p, d) ==
  LET at[k \in 0 .. d] == IF k = 0 THEN p ELSE NextPage(at[k - 1])
  IN at[d]

(***************************************************************************)
(* A place is a page number and a record number; a handle is a place whose *)
(* page number was cut to what it has room for.  Pages of linked files are *)
(* numbered on from the last page of file 1, and found by following the    *)
(* chain (c_xdfget, c_xdfprm, c_xdfdel, c_xdfput).                         *)
(***************************************************************************)
MaxPageNo == NFiles * MaxDirPages
Places    == (1 .. MaxPageNo) \X (1 .. EntriesPerPage)
Start     == <<1, 0>>   \* the place before the first record

HandleOf(g) == <<((g[1] - 1) % HandlePages) + 1, g[2]>>

Handles == {h \in Places : h[1] <= HandlePages}

\* what is returned instead of a handle, a negative number in the code
Ok             == <<0, 0>>
ERR_NOT_FOUND  == <<0, 1>>
ERR_NO_POS     == <<0, 2>>
ERR_NO_TARGET  == <<0, 3>>
ERR_BAD_PAGENO == <<0, 4>>
ERR_SPECIAL    == <<0, 5>>
ERR_DELETED    == <<0, 6>>
ERR_DIR_FULL   == <<0, 7>>
ERR_BAD_HNDL   == <<0, 8>>
Undefined      == <<0, 9>>   \* any outcome: memory was read beyond a table
Lost           == <<0, 10>>  \* history: no known place

PageOfShort(h) ==  \* faulty variant: stops one page early
  IF h[1] <= NPages(1) THEN <<1, h[1]>>
  ELSE IF link[1] = NoFile THEN NULL ELSE Ahead(LastPage(1), h[1] - NPages(1) - 1)

PageOf(h) ==
  IF h[1] <= NPages(1) THEN <<1, h[1]>>
  ELSE IF link[1] = NoFile THEN NULL ELSE Ahead(LastPage(1), h[1] - NPages(1))

(***************************************************************************)
(* What a search is about: the pages of file 1 and of the files linked     *)
(* behind it, in order, and the first match behind a place.                *)
(***************************************************************************)
AllPages ==
  LET from[i \in Files] == dir[i] \o (IF link[i] = NoFile THEN <<>> ELSE from[link[i]])
  IN from[1]

Before(g, h) == g[1] < h[1] \/ (g[1] = h[1] /\ g[2] < h[2])

MatchesBehind(h, t) ==
  LET pages == AllPages IN
  {g \in Places : /\ Before(h, g)
                  /\ g[1] <= Len(pages) /\ g[2] <= Len(pages[g[1]])
                  /\ Matches(pages[g[1]][g[2]], t)}

\* add_dir_page on a file that has another linked behind it cuts the chain
ChainIsWhole == \A i \in Files : after[i] = link[i]

Init ==
  /\ dir = Opened
  /\ link = [i \in Files |-> NoFile]
  /\ after = [i \in Files |-> NoFile]
  /\ cur = [page |-> NULL, pageno |-> 0, at |-> NULL, entry |-> 0, record |-> 1,
            target |-> NoTarget]
  /\ last = [op |-> "open", due |-> Lost, got |-> Ok, at |-> Lost, early |-> FALSE]
  /\ stand = Lost
  /\ owed = {}

(***************************************************************************)
(* next_match, from position c: the outcome and the position it leaves.    *)
(* The entry pointer is <<c.at, c.entry>>.                                 *)
(***************************************************************************)
HitsOn(p, r, t) == {s \in r .. Len(Page(p)) : Matches(Page(p)[s], t)}

Smallest(S) == CHOOSE x \in S : \A y \in S : x <= y

\* pages that follow p in the chain
Following(p) == Cardinality({d \in 1 .. MaxPageNo : Ahead(p, d) # NULL})

InvalidPosition(c) == c.page = NULL \/ c.at # c.page \/ c.entry # c.record

FirstRecordLeft(c, d) == c.record  \* faulty variant: not reset on the next page

\* where next_match starts on the page d pages further
FirstRecord(c, d) == IF d = 0 THEN c.record ELSE 1

NextMatch(c) ==
  LET from(d) == FirstRecord(c, d)
      hits(d) == HitsOn(Ahead(c.page, d), from(d), c.target)
      more    == Following(c.page)
      found   == {d \in 0 .. more : hits(d) # {}}
      final   == Ahead(c.page, more)
  IN
  IF InvalidPosition(c) THEN [got |-> ERR_NO_POS, cur |-> c]
  ELSE IF found = {}
  THEN [got |-> ERR_NOT_FOUND,
        cur |-> [c EXCEPT !.page = NULL, !.pageno = @ + more, !.at = final, !.record = 1,
                          !.entry = IF from(more) > Len(Page(final)) THEN from(more)
                                    ELSE Len(Page(final)) + 1]]
  ELSE LET d == Smallest(found)
           p == Ahead(c.page, d)
           s == Smallest(hits(d))
       IN [got |-> HandleOf(<<c.pageno + d, s>>),
           cur |-> [c EXCEPT !.page = p, !.at = p, !.pageno = @ + d,
                             !.entry = s + 1, !.record = s + 1]]

(***************************************************************************)
(* c_xdfloc2: position the search, then next_match.  The walk to a page of *)
(* a linked file compares its counter with a distance that shrinks as it   *)
(* goes, so that it makes d \div 2 + 1 moves for a page d behind file 1.   *)
(* A linked page that is the current one is looked up among the pages of   *)
(* file 1, in a table that has NULL for it: an address is computed from    *)
(* that and not used, for next_match refuses the page; beyond the end of   *)
(* the table there is any page.                                            *)
(***************************************************************************)
MovesPast(d) == d + 1  \* faulty variant: one page too far
Moves(d)     == d \div 2 + 1

Unusable == <<0, 1>>  \* where an entry pointer made from NULL points

Found(c, r) == NextMatch([c EXCEPT !.at = c.page, !.entry = r, !.record = r])

LinkedAndCurrent(c, h) == h[1] > NPages(1) /\ h[1] = c.pageno

LocateFrom(c, h) ==
  LET n == NPages(1)
      moves == Moves(h[1] - n)
      p == Ahead(LastPage(1), moves)
      lost == [c EXCEPT !.page = NULL, !.at = NULL, !.entry = 0]
      misled == [c EXCEPT !.page = NULL, !.at = Unusable, !.entry = h[2] + 1, !.record = h[2] + 1]
  IN
  IF h[1] <= n THEN Found([c EXCEPT !.page = <<1, h[1]>>, !.pageno = h[1]], h[2] + 1)
  ELSE IF LinkedAndCurrent(c, h)
  THEN IF h[1] <= MaxDirPages THEN NextMatch(misled) ELSE [got |-> Undefined, cur |-> misled]
  ELSE IF link[1] = NoFile
  THEN [got |-> ERR_BAD_PAGENO, cur |-> [c EXCEPT !.at = NULL, !.entry = 0]]
  ELSE IF p = NULL
  THEN [got |-> ERR_BAD_PAGENO,
        cur |-> [lost EXCEPT !.pageno = n + Following(LastPage(1)) + 1]]
  ELSE Found([c EXCEPT !.page = p, !.pageno = n + moves], h[2] + 1)

Running == last.got # Undefined

\* where the walk of c_xdfloc2 may stop too early
Far(h) == h[1] > NPages(1) + 2

\* the first match behind a place, Lost when nothing is claimed
Due(at, t) ==
  LET M == MatchesBehind(at, t) IN
  IF at = Lost \/ ~ChainIsWhole THEN Lost
  ELSE IF M = {} THEN ERR_NOT_FOUND
  ELSE CHOOSE g \in M : \A m \in M : ~Before(m, g)

\* the search as the application sees it: where it started, what it got, and
\* where it is now (next_match makes the handle of that place)
Returned(at, early, r, all) ==
  LET due == Due(at, r.cur.target)
      place == IF r.got \in Handles THEN <<r.cur.pageno, r.cur.record - 1>> ELSE Lost
      still == IF at # Start THEN owed
               ELSE IF due = Lost THEN {} ELSE MatchesBehind(Start, r.cur.target)
  IN
  /\ cur' = r.cur
  /\ last' = [op |-> "loc", due |-> due, got |-> r.got, at |-> place, early |-> early]
  /\ stand' = IF due # Lost THEN place ELSE Lost
  /\ owed' = IF all THEN still \ {place} ELSE {}
  /\ UNCHANGED <<dir, link, after>>

\* from the beginning of the file (handle 0)
LocateFirst(t) ==
  /\ Running
  /\ Returned(Start, FALSE, LocateFrom([cur EXCEPT !.pageno = 0, !.target = t], Start), TRUE)

\* from a record (handle > 0)
LocateBehind(h, t) ==
  LET undefined == LinkedAndCurrent(cur, h) /\ h[1] > MaxDirPages IN
  /\ Running
  /\ Returned(IF PageOf(h) = NULL \/ undefined THEN Lost ELSE h,
              Far(h) \/ LinkedAndCurrent(cur, h),
              LocateFrom([cur EXCEPT !.target = t], h), FALSE)

\* from the current position (handle -1), for the same target or a new one;
\* bound: rewrites between two calls can make cur_pageno grow without end
LocateNext(t) ==
  LET c == [cur EXCEPT !.target = t] IN
  /\ Running
  /\ IF cur.at = NULL \/ cur.pageno = 0
     THEN Returned(Lost, FALSE, [got |-> ERR_NO_POS, cur |-> cur], FALSE)
     ELSE IF t = NoTarget THEN Returned(Lost, FALSE, [got |-> ERR_NO_TARGET, cur |-> c], FALSE)
     ELSE /\ NextMatch(c).cur.pageno <= MaxPageNo
          /\ Returned(stand, FALSE, NextMatch(c), t = cur.target /\ stand # Lost)

(***************************************************************************)
(* add_dir_page: the new page becomes next_page of the last one, whatever  *)
(* was linked there.                                                       *)
(***************************************************************************)
EntriesInUse ==
  {x \in Files \X (1 .. MaxDirPages) \X (1 .. EntriesPerPage) :
     x[2] <= NPages(x[1]) /\ x[3] <= Len(dir[x[1]][x[2]])}

Room == Cardinality(EntriesInUse) < MaxEntries

Full(i) == Len(Page(LastPage(i))) >= EntriesPerPage

WithEntry(d, i, e) ==
  [d EXCEPT ![i] = IF Full(i) THEN Append(d[i], <<e>>)
                   ELSE [d[i] EXCEPT ![NPages(i)] = Append(@, e)]]

Unlinked(i) == IF Full(i) THEN [after EXCEPT ![i] = NoFile] ELSE after

NoMorePages(i) == Full(i) /\ NPages(i) >= MaxDirPages

(***************************************************************************)
(* c_xdfput at the end of file 1 moves the page, the page number (to that  *)
(* of the page that was last before one was added) and the entry, not the  *)
(* record number.                                                          *)
(***************************************************************************)
AtLastPage(c) == [c EXCEPT !.page = LastPage(1), !.pageno = NPages(1)]

AtEnd(c) ==
  LET p == IF Full(1) THEN <<1, NPages(1) + 1>> ELSE LastPage(1) IN
  [AtLastPage(c) EXCEPT !.page = p, !.at = p,
                        !.entry = IF Full(1) THEN 1 ELSE Len(Page(p)) + 1]

Wrote == last' = [op |-> "write", due |-> Lost, got |-> Ok, at |-> Lost, early |-> FALSE]

\* the position is not that of the search any more
Disturbed == stand' = Lost /\ owed' = {}

\* a new record, in file 1
PutNew(k) ==
  /\ Running
  /\ NoMorePages(1) \/ Room
  /\ IF NoMorePages(1)
     THEN /\ cur' = AtLastPage(cur)
          /\ Wrote
          /\ UNCHANGED <<dir, after>>
     ELSE /\ cur' = AtEnd(cur)
          /\ dir' = WithEntry(dir, 1, k)
          /\ after' = Unlinked(1)
          /\ Wrote
  /\ Disturbed
  /\ UNCHANGED link

\* a new record, in a file that may be linked behind file 1
PutElsewhere(i, k) ==
  /\ Running
  /\ Room
  /\ i # 1 /\ ~NoMorePages(i)
  /\ dir' = WithEntry(dir, i, k)
  /\ after' = Unlinked(i)
  /\ Wrote
  /\ IF Full(i) /\ link[i] # NoFile THEN Disturbed ELSE UNCHANGED <<stand, owed>>
  /\ UNCHANGED <<link, cur>>

(***************************************************************************)
(* c_xdfput over the record of a handle, which stays where it is when the  *)
(* length is the same.  Otherwise a new entry is counted in file 1, then   *)
(* c_xdfdel is called with the handle; when a page was added the handle of *)
(* a linked record does not name it any more, c_xdfdel refuses it, and the *)
(* new entry stays blank.                                                  *)
(***************************************************************************)
EraseAndClose(d, p, s) ==  \* faulty variant: the entries behind move up
  [d EXCEPT ![p[1]][p[2]] = [n \in 1 .. Len(@) - 1 |-> IF n < s THEN @[n] ELSE @[n + 1]]]

Erase(d, p, s)      == [d EXCEPT ![p[1]][p[2]][s] = Gone]
Replace(d, p, s, k) == [d EXCEPT ![p[1]][p[2]][s] = k]

\* the slot behind the last entry of a page is all zeros
Slot(p, s) == IF s <= Len(Page(p)) THEN Page(p)[s] ELSE Blank

PutOver(h, k, same_length) ==
  LET p == PageOf(h)
      c == [cur EXCEPT !.page = p, !.at = p, !.entry = h[2]]
      refused == IF p = NULL THEN ERR_BAD_PAGENO
                 ELSE IF h[2] > Len(Page(p)) + 1 THEN ERR_BAD_HNDL
                 ELSE IF Slot(p, h[2]) = Blank THEN ERR_SPECIAL
                 ELSE IF Slot(p, h[2]) = Gone THEN ERR_DELETED
                 ELSE IF ~same_length /\ NoMorePages(1) THEN ERR_DIR_FULL ELSE Ok
      orphan == p # NULL /\ p[1] # 1 /\ Full(1)
  IN
  /\ Running
  /\ \/ /\ refused # Ok
        /\ cur' = IF refused = ERR_DIR_FULL THEN AtLastPage(c)
                  ELSE IF refused = ERR_BAD_HNDL THEN [cur EXCEPT !.page = p]
                  ELSE IF p # NULL THEN c
                  ELSE IF link[1] = NoFile THEN cur ELSE [cur EXCEPT !.page = NULL]
        /\ Wrote
        /\ UNCHANGED <<dir, after>>
     \/ /\ refused = Ok /\ same_length
        /\ cur' = c
        /\ dir' = Replace(dir, p, h[2], k)
        /\ Wrote
        /\ UNCHANGED after
     \/ /\ refused = Ok /\ ~same_length /\ ~orphan
        /\ Room
        /\ cur' = AtEnd(c)
        /\ dir' = Erase(WithEntry(dir, 1, k), p, h[2])
        /\ after' = Unlinked(1)
        /\ Wrote
     \/ /\ refused = Ok /\ ~same_length /\ orphan
        /\ Room
        /\ cur' = AtEnd(c)
        /\ dir' = WithEntry(dir, 1, Blank)
        /\ after' = Unlinked(1)
        /\ Wrote
  /\ Disturbed
  /\ UNCHANGED link

(***************************************************************************)
(* c_xdfdel: the position of the search stays.  A call that is refused (no *)
(* such page or record, record erased, idtyp 0) changes nothing.           *)
(***************************************************************************)
Del(h) ==
  LET p == PageOf(h) IN
  /\ Running
  /\ p # NULL /\ Slot(p, h[2]) \notin {Gone, Blank}
  /\ dir' = Erase(dir, p, h[2])
  /\ Wrote
  /\ owed' = owed \ {h}
  /\ UNCHANGED <<link, after, cur, stand>>

(***************************************************************************)
(* c_xdflnk of the files 1 .. n, c_xdfunl of the same.                     *)
(***************************************************************************)
Lnk(n) ==
  LET linked(m) == [i \in Files |-> IF i < n THEN i + 1 ELSE m[i]] IN
  /\ Running
  /\ link' = linked(link)
  /\ after' = linked(after)
  /\ Wrote
  /\ UNCHANGED <<dir, cur, stand, owed>>

Unl(n) ==
  LET unlinked(m) == [i \in Files |-> IF i <= n THEN NoFile ELSE m[i]] IN
  /\ Running
  /\ link' = unlinked(link)
  /\ after' = unlinked(after)
  /\ Wrote
  /\ stand' = IF stand[1] > NPages(1) THEN Lost ELSE stand
  /\ owed' = {g \in owed : g[1] <= NPages(1)}
  /\ UNCHANGED <<dir, cur>>

Next ==
  \/ \E t \in Targets : LocateFirst(t)
  \/ \E h \in Handles, t \in Targets : LocateBehind(h, t)
  \/ \E t \in Targets \cup {cur.target} : LocateNext(t)
  \/ \E k \in Keys : PutNew(k)
  \/ \E i \in Files, k \in Keys : PutElsewhere(i, k)
  \/ \E h \in Handles, k \in Keys, same_length \in BOOLEAN : PutOver(h, k, same_length)
  \/ \E h \in Handles : Del(h)
  \/ \E n \in 2 .. NFiles : Lnk(n)
  \/ \E n \in Files : Unl(n)

Spec == Init /\ [][Next]_vars

(***************************************************************************)
(* A search returns the first record that matches behind the place it      *)
(* starts from, in file 1 and the files linked to it, or says that there   *)
(* is none, and stays at that record: from the beginning, from the record  *)
(* that a handle designates, and, as long as the position is that of the   *)
(* record last found, from there, whatever was erased, linked or written   *)
(* to other files in between.  What is returned is the handle of its       *)
(* place.  Not claimed where the code is early: from a record of a linked  *)
(* page that is the current one, or lies more than two pages behind file 1.*)
(***************************************************************************)
SearchIsExact ==
  last.op = "loc" /\ last.due # Lost /\ ~last.early =>
    IF last.due = ERR_NOT_FOUND THEN last.got = ERR_NOT_FOUND
    ELSE last.got = HandleOf(last.due) /\ last.at = last.due

(***************************************************************************)
(* Whatever record the search begins from, those too that SearchIsExact    *)
(* leaves out: it is refused, or it returns a match that is not behind the *)
(* first one it should find.  A search may begin too early and find again  *)
(* what was found before, but no match is passed over.                     *)
(***************************************************************************)
NoMatchIsPassedOver ==
  last.op = "loc" /\ last.due # Lost =>
    \/ last.got = ERR_NO_POS
    \/ last.got = ERR_NOT_FOUND /\ last.due = ERR_NOT_FOUND
    \/ /\ last.at \in MatchesBehind(Start, cur.target)
       /\ last.due \in Places => ~Before(last.due, last.at)

(***************************************************************************)
(* An application that asks for the first record, then for the next one    *)
(* until none is left, has been given every record that matched when it    *)
(* began and was not erased since: nothing the code lets it do in between  *)
(* without losing its position (erase what it found, write to a linked     *)
(* file, link one more) makes it miss a record.                            *)
(***************************************************************************)
NothingIsMissed == last.op = "loc" /\ last.got = ERR_NOT_FOUND => owed = {}

(***************************************************************************)
(* Erasing or replacing the record of a handle changes one entry of the    *)
(* linked files, a live one for which a search gives this handle, and no   *)
(* other entry.  In a chain of HandlePages pages or less no two entries    *)
(* have the same handle; in a longer one it need not be the entry the      *)
(* application means.                                                      *)
(***************************************************************************)
Rewrites(h) == Del(h) \/ \E k \in Keys, same_length \in BOOLEAN : PutOver(h, k, same_length)

Exists(pages, g) == g[1] <= Len(pages) /\ g[2] <= Len(pages[g[1]])

OnlyTheNamedRecordChanges ==
  [][ last'.op = "write" /\ dir' # dir /\ ChainIsWhole /\ ChainIsWhole' =>
      LET pages == AllPages
          named(h) == {g \in Places : HandleOf(g) = h /\ Exists(pages, g)}
      IN
      \A h \in Handles : Rewrites(h) =>
        /\ Len(pages) <= HandlePages => named(h) = {h}
        /\ \E g \in named(h) :
             /\ pages[g[1]][g[2]] # Gone
             /\ \A f \in Places \ {g} :
                  Exists(pages, f) => AllPages'[f[1]][f[2]] = pages[f[1]][f[2]] ]_vars

(***************************************************************************)
(* "Upon completion a "pointer" to the record (handle) is returned"        *)
(* (c_xdfloc2): a handle returned designates a record that matches.        *)
(***************************************************************************)
HandleDesignatesAMatch ==
  last.op = "loc" /\ last.got \in Handles =>
    /\ PageOf(last.got) # NULL
    /\ last.got[2] <= Len(Page(PageOf(last.got)))
    /\ Matches(Page(PageOf(last.got))[last.got[2]], cur.target)

=============================================================================
