--------------------------- MODULE XdfFile_proofs ---------------------------
(***************************************************************************)
(* Proofs about XdfFile, for any number of applications, keys, record      *)
(* lengths, entries per page and pages, and a file of any size.  In five   *)
(* parts, each of which rests on those before it: the types; what entries  *)
(* designate; what survives applications that stop; the accounts; and that *)
(* the file of a site with one writer at a time is a RecordStore.          *)
(***************************************************************************)
EXTENDS XdfStore, FunctionTheorems, FiniteSetTheorems, WellFoundedInduction, TLAPS

(***************************************************************************)
(* How many pages an application holds at each point of its calls.  This   *)
(* is what keeps the page numbers of open, put and close within the        *)
(* directory.                                                              *)
(***************************************************************************)
Counted(f) ==
  /\ f.npages <= f.hdr.nbd
  /\ f.st = "closed" => f.npages = 0
  /\ f.st = "creating" => f.hdr.nbd = 0
  /\ f.st = "opening" => f.npages < f.hdr.nbd
  /\ f.st = "open" \/ f.modified \/ f.xdf_checkpoint => f.npages = f.hdr.nbd /\ f.npages >= 1

PagesCounted == \A p \in Procs : Counted(tab[p])

TypeInv == TypeOK /\ PagesCounted

(***************************************************************************)
(* The values the code starts from have their types.                       *)
(***************************************************************************)
LEMMA Constants ==
  /\ NoFile \in Header
  /\ FreeEntry \in Entry
  /\ NoEntries \in [Slots -> Entry]
  /\ EmptyPage \in PageImage
  /\ NoMemPage \in MemPage
  /\ Closed \in FileEntry
<1> USE XdfAssumption
<1>1. NoFile \in Header BY DEF NoFile, Header
<1>2. FreeEntry \in Entry BY DEF FreeEntry, Entry
<1>3. NoEntries \in [Slots -> Entry] BY <1>2 DEF NoEntries
<1>4. EmptyPage \in PageImage BY <1>3 DEF EmptyPage, PageImage
<1>5. NoMemPage \in MemPage BY <1>3 DEF NoMemPage, MemPage
<1>6. Closed \in FileEntry BY <1>1, <1>5 DEF Closed, FileEntry, States
<1> QED BY <1>1, <1>2, <1>3, <1>4, <1>5, <1>6

(***************************************************************************)
(* A word that is a directory page has the shape of one; the disk image of *)
(* a page in memory is a word.                                             *)
(***************************************************************************)
LEMMA PageWords ==
  /\ \A w \in Word : w.kind = "page" => w \in PageImage
  /\ \A m \in MemPage : Image(m) \in PageImage
BY DEF Word, Blank, PageImage, RecWord, Image, MemPage

(***************************************************************************)
(* What each change to a directory page or entry yields is one.            *)
(***************************************************************************)
LEMMA PageOps ==
  /\ \A a \in Addr : NewPage(a) \in MemPage
  /\ \A m \in MemPage, a \in Addr : LinkTo(m, a) \in MemPage
  /\ \A m \in MemPage, b \in BOOLEAN : Flagged(m, b) \in MemPage
<1>1. ASSUME NEW a \in Addr PROVE NewPage(a) \in MemPage
  <2>1. a \in 0 .. MaxAddr + 1 BY XdfAssumption DEF Addr
  <2> QED BY <2>1, Constants DEF NewPage, MemPage
<1>2. ASSUME NEW m \in MemPage, NEW a \in Addr PROVE LinkTo(m, a) \in MemPage
  <2>1. a \in 0 .. MaxAddr BY XdfAssumption DEF Addr
  <2> QED BY <2>1 DEF LinkTo, MemPage
<1>3. ASSUME NEW m \in MemPage, NEW b \in BOOLEAN PROVE Flagged(m, b) \in MemPage
  BY DEF Flagged, MemPage
<1> QED BY <1>1, <1>2, <1>3

LEMMA EntryOps ==
  ASSUME NEW m \in MemPage, NEW s \in Slots
  PROVE  /\ EraseEntry(m, s) \in MemPage
         /\ \A k \in Keys : Rekey(m, s, k) \in MemPage
         /\ \A e \in Entry : m.nent < EntriesPerPage => AddEntry(m, e) \in MemPage
         /\ Deaden(m) \in MemPage
<1>0. m.ent \in [Slots -> Entry] /\ m.ent[s] \in Entry BY DEF MemPage
<1>1. EraseEntry(m, s) \in MemPage
  <2>1. [m.ent[s] EXCEPT !.id = "erased"] \in Entry BY <1>0 DEF Entry
  <2> QED BY <2>1, <1>0 DEF EraseEntry, MemPage
<1>2. ASSUME NEW k \in Keys PROVE Rekey(m, s, k) \in MemPage
  <2>1. [m.ent[s] EXCEPT !.key = k] \in Entry BY <1>0 DEF Entry
  <2> QED BY <2>1, <1>0 DEF Rekey, MemPage
<1>3. ASSUME NEW e \in Entry, m.nent < EntriesPerPage PROVE AddEntry(m, e) \in MemPage
  <2>1. m.nent + 1 \in Slots /\ m.nent + 1 \in 0 .. EntriesPerPage
    BY <1>3, XdfAssumption DEF MemPage, Slots
  <2> QED BY <2>1, <1>0 DEF AddEntry, MemPage
<1>4. Deaden(m) \in MemPage
  <2>1. \A t \in Slots : [m.ent[t] EXCEPT !.id = "dead"] \in Entry BY DEF Entry, MemPage
  <2> QED BY <2>1 DEF Deaden, MemPage
<1> QED BY <1>1, <1>2, <1>3, <1>4

(***************************************************************************)
(* add_dir_page yields a file table entry, one page longer.                *)
(***************************************************************************)
LEMMA WithNewPageFields ==
  ASSUME NEW f \in FileEntry, CanAddPage(f), f.npages = f.hdr.nbd
  PROVE  LET a == f.hdr.fsiz + 1
             g == WithNewPage(f) IN
         /\ a \in Addr /\ f.npages + 1 \in PageNos
         /\ g \in FileEntry
         /\ g.npages = f.npages + 1 /\ g.hdr.nbd = g.npages
         /\ g.hdr = [f.hdr EXCEPT !.fsiz = a, !.nbd = f.hdr.nbd + 1] /\ g.hdr.fsiz = a
         /\ g.st = f.st /\ g.read_only = f.read_only
         /\ g.modified = f.modified /\ g.xdf_checkpoint = f.xdf_checkpoint
         /\ g.page = [i \in PageNos |-> IF i = f.npages + 1 THEN NewPage(a)
                                       ELSE IF i = f.npages THEN LinkTo(f.page[i], a)
                                       ELSE f.page[i]]
<1> USE XdfAssumption
<1> DEFINE a == f.hdr.fsiz + 1
           n == f.npages + 1
           pg == [i \in PageNos |-> IF i = n THEN NewPage(a)
                                   ELSE IF i = f.npages THEN LinkTo(f.page[i], a)
                                   ELSE f.page[i]]
           hd == [f.hdr EXCEPT !.fsiz = a, !.nbd = f.hdr.nbd + 1]
<1>1. a \in Addr /\ n \in PageNos /\ f.hdr.nbd + 1 \in 0 .. MaxDirPages
  BY DEF CanAddPage, FileEntry, Header, Addr, PageNos
<1>2. pg \in [PageNos -> MemPage]
  BY <1>1, PageOps DEF FileEntry
<1>3. a \in 0 .. MaxAddr /\ n \in 0 .. MaxDirPages
  BY <1>1 DEF Addr, PageNos
<1>4. hd \in Header /\ hd.fsiz = a /\ hd.nbd = n
  BY <1>1, <1>3 DEF Header, FileEntry
<1>5. WithNewPage(f) = [f EXCEPT !.hdr = hd, !.npages = n, !.page = pg]
  BY DEF WithNewPage
<1> HIDE DEF hd, n, pg
<1>6. /\ WithNewPage(f) \in FileEntry
      /\ WithNewPage(f).hdr = hd /\ WithNewPage(f).npages = n /\ WithNewPage(f).page = pg
      /\ WithNewPage(f).st = f.st /\ WithNewPage(f).read_only = f.read_only
      /\ WithNewPage(f).modified = f.modified
      /\ WithNewPage(f).xdf_checkpoint = f.xdf_checkpoint
  BY <1>2, <1>3, <1>4, <1>5 DEF FileEntry
<1>7. WithNewPage(f).npages = f.npages + 1 BY <1>6 DEF n
<1>8. WithNewPage(f).hdr = [f.hdr EXCEPT !.fsiz = f.hdr.fsiz + 1, !.nbd = f.hdr.nbd + 1]
  BY <1>6 DEF hd
<1>9. WithNewPage(f).page = [i \in PageNos |-> IF i = f.npages + 1 THEN NewPage(a)
                                              ELSE IF i = f.npages THEN LinkTo(f.page[i], a)
                                              ELSE f.page[i]]
  BY <1>6 DEF pg, n
<1>10. f.npages + 1 \in PageNos BY <1>1 DEF n
<1>11. WithNewPage(f).hdr.nbd = WithNewPage(f).npages /\ WithNewPage(f).hdr.fsiz = a
  BY <1>4, <1>6
<1> QED
  BY <1>1, <1>6, <1>7, <1>8, <1>9, <1>10, <1>11

(***************************************************************************)
(* Erasing an entry, and adding one to the last page, yield file table     *)
(* entries.                                                                *)
(***************************************************************************)
LEMMA EraseFields ==
  ASSUME NEW f \in FileEntry, NEW h \in PageNos \X Slots
  PROVE  LET g == Erase(f, h) IN
         /\ g \in FileEntry
         /\ g.hdr = [f.hdr EXCEPT !.nrec = f.hdr.nrec - 1]
         /\ g.hdr.nbd = f.hdr.nbd /\ g.hdr.fsiz = f.hdr.fsiz /\ g.hdr.rwflg = f.hdr.rwflg
         /\ g.npages = f.npages /\ g.st = f.st /\ g.read_only = f.read_only
         /\ g.modified = TRUE /\ g.xdf_checkpoint = f.xdf_checkpoint
         /\ g.page = [f.page EXCEPT ![h[1]] = EraseEntry(f.page[h[1]], h[2])]
<1> DEFINE pg == [f.page EXCEPT ![h[1]] = EraseEntry(f.page[h[1]], h[2])]
           hd == [f.hdr EXCEPT !.nrec = f.hdr.nrec - 1]
<1>1. EraseEntry(f.page[h[1]], h[2]) \in MemPage
  BY EntryOps DEF FileEntry
<1>2. pg \in [PageNos -> MemPage]
  BY <1>1 DEF FileEntry
<1>3. /\ hd \in Header
      /\ hd.nbd = f.hdr.nbd /\ hd.fsiz = f.hdr.fsiz /\ hd.rwflg = f.hdr.rwflg
  BY DEF Header, FileEntry
<1>4. Erase(f, h) = [f EXCEPT !.page = pg, !.hdr = hd, !.modified = TRUE]
  BY DEF Erase, FileEntry
<1> HIDE DEF hd, pg
<1>5. /\ Erase(f, h) \in FileEntry
      /\ Erase(f, h).hdr = hd /\ Erase(f, h).page = pg
      /\ Erase(f, h).npages = f.npages
      /\ Erase(f, h).st = f.st /\ Erase(f, h).read_only = f.read_only
      /\ Erase(f, h).modified = TRUE
      /\ Erase(f, h).xdf_checkpoint = f.xdf_checkpoint
  BY <1>2, <1>3, <1>4 DEF FileEntry
<1> QED BY <1>3, <1>5 DEF hd, pg

NewEntry(f, k, l) == [id |-> "live", key |-> k, addr |-> f.hdr.fsiz + 1, lng |-> l]

LEMMA AppendedFields ==
  ASSUME NEW f \in FileEntry, NEW k \in Keys, NEW l \in Lengths,
         f.npages \in PageNos, ~LastPageFull(f), f.hdr.fsiz + l <= MaxAddr
  PROVE  LET g == Appended(f, k, l) IN
         /\ g \in FileEntry
         /\ g.hdr.nbd = f.hdr.nbd /\ g.hdr.fsiz = f.hdr.fsiz + l /\ g.hdr.rwflg = f.hdr.rwflg
         /\ g.npages = f.npages /\ g.st = f.st /\ g.read_only = f.read_only
         /\ g.modified = TRUE /\ g.xdf_checkpoint = f.xdf_checkpoint
<1> DEFINE e == NewEntry(f, k, l)
           pg == [f.page EXCEPT ![f.npages] = AddEntry(f.page[f.npages], e)]
           hd == [f.hdr EXCEPT !.fsiz = f.hdr.fsiz + l, !.nrec = f.hdr.nrec + 1]
<1>0. l \in Nat \ {0} /\ f.hdr.fsiz \in 0 .. MaxAddr /\ MaxAddr \in Nat
  BY XdfAssumption DEF FileEntry, Header
<1>1. e \in Entry
  <2> DEFINE a == f.hdr.fsiz + 1
  <2>1. a \in 0 .. MaxAddr /\ a + l <= MaxAddr + 1 BY <1>0
  <2> HIDE DEF a
  <2>2. [id |-> "live", key |-> k, addr |-> a, lng |-> l] \in Entry BY <2>1 DEF Entry
  <2> QED BY <2>2 DEF NewEntry, a
<1>2. pg \in [PageNos -> MemPage]
  <2>1. f.page[f.npages] \in MemPage /\ f.page[f.npages].nent < EntriesPerPage
    BY XdfAssumption DEF FileEntry, MemPage, LastPageFull
  <2>2. \E s : s \in Slots BY XdfAssumption DEF Slots
  <2>3. AddEntry(f.page[f.npages], e) \in MemPage BY <1>1, <2>1, <2>2, EntryOps
  <2> QED BY <2>3 DEF FileEntry
<1>3. /\ hd \in Header
      /\ hd.nbd = f.hdr.nbd /\ hd.fsiz = f.hdr.fsiz + l /\ hd.rwflg = f.hdr.rwflg
  <2>1. f.hdr.fsiz + l \in 0 .. MaxAddr /\ f.hdr.nrec + 1 \in Int
    BY <1>0 DEF FileEntry, Header
  <2> QED BY <2>1 DEF Header, FileEntry
<1>4. Appended(f, k, l) = [f EXCEPT !.page = pg, !.hdr = hd, !.modified = TRUE]
  BY DEF Appended, NewEntry
<1> HIDE DEF hd, pg, e
<1>5. /\ Appended(f, k, l) \in FileEntry
      /\ Appended(f, k, l).hdr = hd /\ Appended(f, k, l).page = pg
      /\ Appended(f, k, l).npages = f.npages
      /\ Appended(f, k, l).st = f.st /\ Appended(f, k, l).read_only = f.read_only
      /\ Appended(f, k, l).modified = TRUE
      /\ Appended(f, k, l).xdf_checkpoint = f.xdf_checkpoint
  BY <1>2, <1>3, <1>4 DEF FileEntry
<1> QED BY <1>3, <1>5

LEMMA AppendedPages ==
  ASSUME NEW f \in FileEntry, NEW k \in Keys, NEW l \in Lengths, NEW i \in PageNos
  PROVE  Appended(f, k, l).page[i] =
           IF i = f.npages THEN AddEntry(f.page[i], NewEntry(f, k, l)) ELSE f.page[i]
<1> DEFINE pg == [f.page EXCEPT ![f.npages] = AddEntry(f.page[f.npages], NewEntry(f, k, l))]
<1>1. pg[i] = IF i = f.npages THEN AddEntry(f.page[i], NewEntry(f, k, l)) ELSE f.page[i]
  BY DEF FileEntry
<1>2. Appended(f, k, l).page = pg BY DEF Appended, NewEntry, FileEntry
<1> QED BY <1>1, <1>2

(***************************************************************************)
(* The initial state.                                                      *)
(***************************************************************************)
LEMMA TypeInit == Init => TypeInv
<1> SUFFICES ASSUME Init PROVE TypeInv OBVIOUS
<1> USE XdfAssumption
<1>1. Blank \in Word BY DEF Word
<1>2. Counted(Closed) BY DEF Counted, Closed, NoFile
<1> QED BY <1>1, <1>2, Constants DEF Init, TypeInv, TypeOK, PagesCounted

(***************************************************************************)
(* Live handles point into the pages; records and pages written are words  *)
(* of the disk.                                                            *)
(***************************************************************************)
LEMMA HandleTypes ==
  ASSUME NEW f \in FileEntry
  PROVE  /\ \A h \in LiveHandles(f) :
              h \in PageNos \X Slots /\ h # NoHandle /\ RecordOf(EntryAt(f, h)) \in Record
         /\ LiveRecords(f) \subseteq Record
         /\ \A k \in Keys : FirstMatch(f, k) \subseteq LiveHandles(f) \cup {NoHandle}
<1>1. ASSUME NEW h \in LiveHandles(f)
      PROVE  h \in PageNos \X Slots /\ h # NoHandle /\ RecordOf(EntryAt(f, h)) \in Record
  <2>1. h \in PageNos \X Slots BY DEF LiveHandles
  <2>2. h # NoHandle BY <2>1, XdfAssumption DEF NoHandle, PageNos
  <2>3. f.page[h[1]] \in MemPage BY <2>1 DEF FileEntry
  <2>4. f.page[h[1]].ent[h[2]] \in Entry BY <2>1, <2>3 DEF MemPage
  <2>5. RecordOf(EntryAt(f, h)) \in Record
    BY <2>4 DEF RecordOf, EntryAt, Record, Entry
  <2> QED BY <2>1, <2>2, <2>5
<1>2. LiveRecords(f) \subseteq Record BY <1>1 DEF LiveRecords
<1>3. \A k \in Keys : FirstMatch(f, k) \subseteq LiveHandles(f) \cup {NoHandle}
  BY DEF FirstMatch
<1> QED BY <1>1, <1>2, <1>3

LEMMA WithRecordType ==
  ASSUME NEW d \in [Addr -> Word], NEW a \in 0 .. MaxAddr, NEW k \in Keys, NEW l \in Lengths
  PROVE  WithRecord(d, a, k, l) \in [Addr -> Word]
<1>1. ASSUME NEW x \in Addr, x \in a .. a + l - 1
      PROVE  [kind |-> "rec", key |-> k, lng |-> l, off |-> x - a, mark |-> FALSE] \in Word
  <2>1. x - a \in 0 .. MaxAddr BY <1>1, XdfAssumption DEF Addr
  <2> QED BY <2>1 DEF Word, RecWord
<1> QED BY <1>1 DEF WithRecord

LEMMA LastWordType ==
  ASSUME size \in 0 .. MaxAddr, NEW a \in 0 .. MaxAddr + 1, NEW n \in Nat \ {0}, a + n - 1 <= MaxAddr
  PROVE  /\ LastWord(a, n) \in 0 .. MaxAddr
         /\ LastWord(a, n) >= size /\ LastWord(a, n) >= a + n - 1
BY XdfAssumption DEF LastWord, Addr

(***************************************************************************)
(* An action changes the file table entry of one application.              *)
(***************************************************************************)
LEMMA TabStep ==
  ASSUME TypeInv, NEW p \in Procs, NEW g \in FileEntry, Counted(g),
         tab' = [tab EXCEPT ![p] = g]
  PROVE  tab' \in [Procs -> FileEntry] /\ PagesCounted'
BY DEF TypeInv, TypeOK, PagesCounted

(***************************************************************************)
(* Put, at the end: the file table entry after a new page, if one is       *)
(* needed, has room for the record.                                        *)
(***************************************************************************)
Roomy(f) == IF LastPageFull(f) THEN WithNewPage(f) ELSE f

LEMMA RoomyFields ==
  ASSUME NEW f \in FileEntry, f.npages = f.hdr.nbd, f.npages >= 1, LastPageFull(f) => CanAddPage(f)
  PROVE  LET g == Roomy(f) IN
         /\ g \in FileEntry
         /\ g.npages = g.hdr.nbd /\ g.npages >= f.npages /\ g.npages \in PageNos
         /\ g.st = f.st /\ g.read_only = f.read_only /\ g.hdr.rwflg = f.hdr.rwflg
         /\ g.xdf_checkpoint = f.xdf_checkpoint
         /\ ~LastPageFull(g)
         /\ f.hdr.fsiz <= g.hdr.fsiz
<1>1. f.npages \in PageNos BY XdfAssumption DEF FileEntry, PageNos
<1>2. CASE ~LastPageFull(f)
  BY <1>1, <1>2 DEF Roomy, FileEntry, Header
<1>3. CASE LastPageFull(f)
  <2> DEFINE g == WithNewPage(f)
  <2>1. CanAddPage(f) BY <1>3
  <2>2. /\ g \in FileEntry
        /\ g.hdr = [f.hdr EXCEPT !.fsiz = f.hdr.fsiz + 1, !.nbd = f.hdr.nbd + 1]
        /\ g.hdr.fsiz = f.hdr.fsiz + 1 /\ g.npages = f.npages + 1 /\ g.hdr.nbd = g.npages
        /\ f.npages + 1 \in PageNos
        /\ g.st = f.st /\ g.read_only = f.read_only /\ g.xdf_checkpoint = f.xdf_checkpoint
    BY <2>1, WithNewPageFields
  <2>3. g.page[f.npages + 1] = NewPage(f.hdr.fsiz + 1)
    <3>1. g.page = [i \in PageNos |-> IF i = f.npages + 1 THEN NewPage(f.hdr.fsiz + 1)
                                      ELSE IF i = f.npages THEN LinkTo(f.page[i], f.hdr.fsiz + 1)
                                      ELSE f.page[i]]
      BY <2>1, WithNewPageFields
    <3> HIDE DEF g
    <3> QED BY <3>1, <2>2
  <2>4. g.page[g.npages].nent = 0 BY <2>2, <2>3 DEF NewPage, NoMemPage
  <2>5. ~LastPageFull(g)
    <3> HIDE DEF g
    <3> QED BY <2>4, XdfAssumption DEF LastPageFull
  <2>6. f.hdr.fsiz \in Nat /\ f.npages \in Nat /\ f.hdr \in Header
    BY DEF FileEntry, Header
  <2>7. f.hdr.fsiz <= g.hdr.fsiz /\ g.npages >= f.npages
    BY <2>2, <2>6
  <2>8. g.hdr.rwflg = f.hdr.rwflg BY <2>2, <2>6 DEF Header
  <2>9. g = Roomy(f) BY <1>3 DEF Roomy
  <2> HIDE DEF g
  <2> QED BY <2>2, <2>5, <2>7, <2>8, <2>9
<1> QED BY <1>2, <1>3

LEMMA PutAtEndType ==
  ASSUME TypeInv, NEW p \in Procs, tab[p].st = "open",
         NEW h \in LiveHandles(tab[p]) \cup {NoHandle}, NEW k \in Keys, NEW l \in Lengths,
         PutAtEnd(p, h, k, l)
  PROVE  TypeInv'
<1> DEFINE f == tab[p]
           g == Roomy(f)
           w == Appended(g, k, l)
           d == IF LastPageFull(f) THEN [disk EXCEPT ![g.hdr.fsiz] = EmptyPage] ELSE disk
           t == IF h = NoHandle THEN w ELSE Erase(w, h)
<1>1. f \in FileEntry /\ f.npages = f.hdr.nbd /\ f.npages >= 1 /\ (LastPageFull(f) => CanAddPage(f))
  BY DEF TypeInv, TypeOK, PagesCounted, Counted, PutAtEnd
<1>2. /\ g \in FileEntry /\ g.npages = g.hdr.nbd /\ g.npages >= f.npages /\ g.npages \in PageNos
      /\ g.st = f.st /\ ~LastPageFull(g)
  BY <1>1, RoomyFields
<1>3. /\ g.hdr.fsiz + l <= MaxAddr
      /\ disk' = WithRecord(d, g.hdr.fsiz + 1, k, l)
      /\ size' = LastWord(g.hdr.fsiz + 1, l)
      /\ tab' = [tab EXCEPT ![p] = t]
      /\ header' = header /\ safe' \subseteq safe
  BY DEF PutAtEnd, Roomy
<1>4. /\ w \in FileEntry /\ w.npages = g.npages /\ w.hdr.nbd = g.hdr.nbd /\ w.st = g.st
  BY <1>2, <1>3, AppendedFields
<1>5. h # NoHandle => h \in PageNos \X Slots
  BY <1>1, HandleTypes
<1>6. t \in FileEntry /\ t.npages = g.npages /\ t.hdr.nbd = g.hdr.nbd /\ t.st = "open"
  <2>1. h # NoHandle => /\ Erase(w, h) \in FileEntry /\ Erase(w, h).npages = w.npages
                        /\ Erase(w, h).hdr.nbd = w.hdr.nbd /\ Erase(w, h).st = w.st
    BY <1>4, <1>5, EraseFields
  <2> HIDE DEF w, g
  <2> QED BY <1>2, <1>4, <2>1
<1>7. Counted(t)
  BY <1>1, <1>2, <1>6 DEF Counted, FileEntry, Header
<1>8. tab' \in [Procs -> FileEntry] /\ PagesCounted'
  BY <1>3, <1>6, <1>7, TabStep
<1>9. l \in Nat \ {0} /\ g.hdr.fsiz + 1 \in 0 .. MaxAddr /\ g.hdr.fsiz + 1 + l - 1 <= MaxAddr
  BY <1>2, <1>3, XdfAssumption DEF FileEntry, Header, Addr
<1>10. size' \in 0 .. MaxAddr
  <2> DEFINE a == g.hdr.fsiz + 1
  <2>1. a \in 0 .. MaxAddr + 1 /\ a + l - 1 <= MaxAddr BY <1>9, XdfAssumption
  <2>2. size \in 0 .. MaxAddr BY DEF TypeInv, TypeOK
  <2>3. size' = LastWord(a, l) BY <1>3
  <2> HIDE DEF a
  <2> QED BY <1>9, <2>1, <2>2, <2>3, LastWordType
<1>11. d \in [Addr -> Word]
  BY Constants DEF TypeInv, TypeOK, Word
<1>12. disk' \in [Addr -> Word]
  BY <1>3, <1>9, <1>11, WithRecordType
<1> QED BY <1>3, <1>8, <1>10, <1>12 DEF TypeInv, TypeOK

LEMMA PutInPlaceType ==
  ASSUME TypeInv, NEW p \in Procs, tab[p].st = "open",
         NEW h \in LiveHandles(tab[p]), NEW k \in Keys, NEW l \in Lengths,
         EntryAt(tab[p], h).lng = l, PutInPlace(p, h, k, l)
  PROVE  TypeInv'
<1> DEFINE f == tab[p]
           e == EntryAt(f, h)
           pg == [f.page EXCEPT ![h[1]] = Rekey(f.page[h[1]], h[2], k)]
           t == [f EXCEPT !.page = pg, !.modified = TRUE]
<1>1. f \in FileEntry /\ Counted(f)
  BY DEF TypeInv, TypeOK, PagesCounted
<1>2. h \in PageNos \X Slots BY <1>1, HandleTypes
<1>3. f.page[h[1]] \in MemPage BY <1>1, <1>2 DEF FileEntry
<1>4. e \in Entry BY <1>2, <1>3 DEF EntryAt, MemPage
<1>5. Rekey(f.page[h[1]], h[2], k) \in MemPage BY <1>2, <1>3, EntryOps
<1>6. pg \in [PageNos -> MemPage] BY <1>1, <1>5 DEF FileEntry
<1>7. tab' = [tab EXCEPT ![p] = t] BY DEF PutInPlace
<1> HIDE DEF pg
<1>8. /\ t \in FileEntry /\ t.st = f.st /\ t.npages = f.npages /\ t.hdr = f.hdr
      /\ t.xdf_checkpoint = f.xdf_checkpoint
  BY <1>1, <1>6 DEF FileEntry
<1>9. Counted(t) BY <1>1, <1>8 DEF Counted
<1>10. tab' \in [Procs -> FileEntry] /\ PagesCounted' BY <1>7, <1>8, <1>9, TabStep

<1>11. l \in Nat \ {0} /\ e.addr \in 0 .. MaxAddr /\ e.addr + l - 1 <= MaxAddr
  BY <1>4, XdfAssumption DEF Entry
<1>12. size' \in 0 .. MaxAddr
  <2>1. size' = LastWord(e.addr, l) BY DEF PutInPlace
  <2> QED BY <2>1, <1>11, LastWordType, XdfAssumption DEF TypeInv, TypeOK
<1>13. disk' \in [Addr -> Word]
  <2>1. disk' = WithRecord(disk, e.addr, k, l) BY DEF PutInPlace
  <2> QED BY <2>1, <1>11, WithRecordType DEF TypeInv, TypeOK
<1> QED BY <1>10, <1>12, <1>13 DEF TypeInv, TypeOK, PutInPlace

(***************************************************************************)
(* Every action keeps the types.                                           *)
(***************************************************************************)
LEMMA CreateType ==
  ASSUME TypeInv, NEW p \in Procs, CreateHeader(p) \/ CreatePage(p)
  PROVE  TypeInv'
<1> USE XdfAssumption
<1>1. CASE CreateHeader(p)
  <2> DEFINE new == [NoFile EXCEPT !.rwflg = RDMODE]
             hd  == [new EXCEPT !.rwflg = CREATE]
             g   == [Closed EXCEPT !.st = "creating", !.hdr = hd]
  <2>1. new \in Header /\ hd \in Header /\ hd.nbd = 0
    BY Constants DEF Header, NoFile, RwFlags, RDMODE, CREATE
  <2>2. header' = new /\ tab' = [tab EXCEPT ![p] = g]
    BY <1>1 DEF CreateHeader
  <2> HIDE DEF hd, new
  <2>3. /\ g \in FileEntry /\ g.hdr = hd /\ g.npages = 0 /\ g.st = "creating"
        /\ ~g.modified /\ ~g.xdf_checkpoint
    BY <2>1, Constants DEF FileEntry, Closed, States
  <2>4. Counted(g) BY <2>1, <2>3 DEF Counted
  <2>5. tab' \in [Procs -> FileEntry] /\ PagesCounted' BY <2>2, <2>3, <2>4, TabStep
  <2> QED BY <1>1, <2>1, <2>2, <2>5 DEF CreateHeader, TypeInv, TypeOK
<1>2. CASE CreatePage(p)
  <2> DEFINE f == tab[p]
             w == WithNewPage(f)
             g == [w EXCEPT !.st = "open", !.modified = TRUE]
  <2>1. f \in FileEntry /\ f.st = "creating" /\ f.hdr.nbd = 0 /\ f.npages = 0 /\ CanAddPage(f)
    BY <1>2 DEF CreatePage, TypeInv, TypeOK, PagesCounted, Counted, FileEntry
  <2>2. /\ f.hdr.fsiz + 1 \in Addr /\ w \in FileEntry /\ w.npages = f.npages + 1
        /\ w.hdr.nbd = w.npages
    BY <2>1, WithNewPageFields
  <2>3. tab' = [tab EXCEPT ![p] = g] BY <1>2 DEF CreatePage
  <2> HIDE DEF w
  <2>4. /\ g \in FileEntry /\ g.hdr = w.hdr /\ g.npages = w.npages /\ g.st = "open"
    BY <2>2 DEF FileEntry, States
  <2>5. Counted(g) BY <2>1, <2>2, <2>4 DEF Counted
  <2>6. tab' \in [Procs -> FileEntry] /\ PagesCounted' BY <2>3, <2>4, <2>5, TabStep
  <2>7. disk' \in [Addr -> Word]
    BY <1>2, Constants DEF CreatePage, TypeInv, TypeOK, Word
  <2>8. size' \in 0 .. MaxAddr
    BY <1>2, <2>2 DEF CreatePage, LastWord, Addr, TypeInv, TypeOK
  <2> QED BY <1>2, <2>6, <2>7, <2>8 DEF CreatePage, TypeInv, TypeOK
<1> QED BY <1>1, <1>2

LEMMA OpenType ==
  ASSUME TypeInv, NEW p \in Procs,
         \/ \E mode \in {RDMODE, RWMODE, APPEND}, ro \in BOOLEAN : OpenHeader(p, mode, ro)
         \/ OpenPage(p)
  PROVE  TypeInv'
<1> USE XdfAssumption
<1>1. ASSUME NEW mode \in {RDMODE, RWMODE, APPEND}, NEW ro \in BOOLEAN, OpenHeader(p, mode, ro)
      PROVE  TypeInv'
  <2> DEFINE st == IF header.nbd = 0 THEN "failed" ELSE "opening"
             hd == [header EXCEPT !.rwflg = mode]
             g  == [Closed EXCEPT !.st = st, !.read_only = ro, !.hdr = hd, !.fsize = size, !.next = 1]
  <2>1. tab' = [tab EXCEPT ![p] = g] BY <1>1 DEF OpenHeader
  <2>2. hd \in Header /\ hd.nbd = header.nbd /\ hd.nbd \in Nat
    BY DEF TypeInv, TypeOK, Header, RwFlags
  <2>3. st \in States /\ (st = "opening" => hd.nbd > 0) /\ st \in {"failed", "opening"}
    BY <2>2 DEF States
  <2>4. size \in 0 .. MaxAddr /\ 1 \in 0 .. MaxAddr BY DEF TypeInv, TypeOK
  <2> HIDE DEF st, hd
  <2>5. /\ g \in FileEntry /\ g.hdr = hd /\ g.npages = 0 /\ g.st = st
        /\ ~g.modified /\ ~g.xdf_checkpoint
    BY <2>2, <2>3, <2>4, Constants DEF FileEntry, Closed
  <2>6. Counted(g) BY <2>2, <2>3, <2>5 DEF Counted
  <2>7. tab' \in [Procs -> FileEntry] /\ PagesCounted' BY <2>1, <2>5, <2>6, TabStep
  <2> QED BY <1>1, <2>7 DEF OpenHeader, TypeInv, TypeOK
<1>2. CASE OpenPage(p)
  <2> DEFINE f == tab[p]
             n == f.npages + 1
             img == PageRead(f)
             a == IF IsPage(f.next) THEN f.next ELSE f.hdr.fsiz + 1
             m == [addr |-> a, nxt |-> img.nxt, nent |-> img.nent, ent |-> img.ent, modified |-> FALSE]
             pg == [f.page EXCEPT ![n] = m]
             st == IF img.nxt > f.fsize THEN "failed" ELSE IF n = f.hdr.nbd THEN "open" ELSE "opening"
             g == [f EXCEPT !.page = pg, !.npages = n, !.next = img.nxt, !.st = st]
  <2>1. f \in FileEntry /\ f.st = "opening" /\ Counted(f)
    BY <1>2 DEF OpenPage, TypeInv, TypeOK, PagesCounted
  <2>2. /\ n \in 1 .. MaxDirPages /\ n \in PageNos /\ n <= f.hdr.nbd
        /\ f.hdr.nbd \in Nat /\ f.hdr.fsiz \in 0 .. MaxAddr /\ f.next \in 0 .. MaxAddr
    BY <2>1 DEF Counted, FileEntry, Header, PageNos
  <2>3. img \in PageImage
    <3>1. \A b \in Addr : disk[b] \in Word BY DEF TypeInv, TypeOK
    <3> QED BY <3>1, Constants, PageWords DEF PageRead, IsPage
  <2>4. a \in 0 .. MaxAddr + 1 BY <2>2
  <2>5. img.nxt \in 0 .. MaxAddr /\ m \in MemPage
    <3> HIDE DEF a, img
    <3> QED BY <2>3, <2>4 DEF PageImage, MemPage
  <2>6. pg \in [PageNos -> MemPage] BY <2>1, <2>2, <2>5 DEF FileEntry
  <2>7. st \in {"failed", "open", "opening"} /\ (st = "open" => n = f.hdr.nbd)
        /\ (st = "opening" => n # f.hdr.nbd)
    OBVIOUS
  <2>8. tab' = [tab EXCEPT ![p] = g]
    BY <1>2 DEF OpenPage
  <2>9. n \in 0 .. MaxDirPages BY <2>2
  <2> HIDE DEF st, n, m, pg, img
  <2>10. /\ g \in FileEntry /\ g.hdr = f.hdr /\ g.npages = n /\ g.st = st
         /\ g.modified = f.modified /\ g.xdf_checkpoint = f.xdf_checkpoint
    BY <2>1, <2>5, <2>6, <2>7, <2>9 DEF FileEntry, States
  <2>11. Counted(g)
    <3>1. ~f.modified /\ ~f.xdf_checkpoint
      <4>1. f.npages # f.hdr.nbd BY <2>1 DEF Counted, FileEntry, Header
      <4> QED BY <4>1, <2>1, Zenon DEF Counted
    <3> QED BY <3>1, <2>2, <2>7, <2>10 DEF Counted
  <2>12. tab' \in [Procs -> FileEntry] /\ PagesCounted' BY <2>8, <2>10, <2>11, TabStep
  <2> QED BY <1>2, <2>12 DEF OpenPage, TypeInv, TypeOK
<1> QED BY <1>1, <1>2

LEMMA DelType ==
  ASSUME TypeInv, NEW p \in Procs, NEW h \in LiveHandles(tab[p]), XdfDel(p, h)
  PROVE  TypeInv'
<1> DEFINE f == tab[p]
           g == Erase(f, h)
<1>1. f \in FileEntry /\ f.st = "open" /\ Counted(f)
  BY DEF XdfDel, TypeInv, TypeOK, PagesCounted
<1>2. h \in PageNos \X Slots BY <1>1, HandleTypes
<1>3. /\ g \in FileEntry /\ g.hdr.nbd = f.hdr.nbd /\ g.npages = f.npages /\ g.st = f.st
  BY <1>1, <1>2, EraseFields
<1>4. tab' = [tab EXCEPT ![p] = g] BY DEF XdfDel
<1>5. Counted(g) BY <1>1, <1>3 DEF Counted
<1>6. tab' \in [Procs -> FileEntry] /\ PagesCounted' BY <1>3, <1>4, <1>5, TabStep
<1> QED BY <1>6 DEF XdfDel, TypeInv, TypeOK

LEMMA PutType ==
  ASSUME TypeInv, NEW p \in Procs, NEW k \in Keys, NEW l \in Lengths,
         \/ \E rewrit \in BOOLEAN : FstEcr(p, k, l, rewrit)
         \/ \E h \in LiveHandles(tab[p]) : MrfPut(p, h, k, l)
  PROVE  TypeInv'
<1>1. PICK h \in LiveHandles(tab[p]) \cup {NoHandle}, b \in BOOLEAN : XdfPut(p, h, k, l, b)
  <2>1. tab[p] \in FileEntry BY DEF TypeInv, TypeOK
  <2>2. ASSUME NEW rewrit \in BOOLEAN, FstEcr(p, k, l, rewrit)
        PROVE  \E h \in LiveHandles(tab[p]) \cup {NoHandle} : XdfPut(p, h, k, l, FALSE)
    BY <2>1, <2>2, HandleTypes DEF FstEcr
  <2> QED BY <2>2 DEF MrfPut
<1>2. tab[p].st = "open" BY <1>1 DEF XdfPut
<1>3. CASE PutAtEnd(p, h, k, l) BY <1>2, <1>3, PutAtEndType
<1>4. CASE h # NoHandle /\ EntryAt(tab[p], h).lng = l /\ PutInPlace(p, h, k, l)
  BY <1>2, <1>4, PutInPlaceType
<1> QED BY <1>1, <1>3, <1>4 DEF XdfPut

LEMMA PutDirFullType ==
  ASSUME TypeInv, NEW p \in Procs, PutDirFull(p)
  PROVE  TypeInv'
<1> DEFINE f == tab[p]
           pg == [f.page EXCEPT ![f.npages] = Flagged(f.page[f.npages], TRUE)]
           g == [f EXCEPT !.page = pg]
<1>1. f \in FileEntry /\ f.st = "open" /\ Counted(f)
  BY DEF PutDirFull, TypeInv, TypeOK, PagesCounted
<1>2. f.npages \in PageNos BY <1>1, XdfAssumption DEF Counted, FileEntry, PageNos
<1>3. pg \in [PageNos -> MemPage] BY <1>1, <1>2, PageOps DEF FileEntry
<1>4. tab' = [tab EXCEPT ![p] = g] BY DEF PutDirFull
<1> HIDE DEF pg
<1>5. /\ g \in FileEntry /\ g.hdr = f.hdr /\ g.npages = f.npages /\ g.st = f.st
      /\ g.modified = f.modified /\ g.xdf_checkpoint = f.xdf_checkpoint
  BY <1>1, <1>3 DEF FileEntry
<1>6. Counted(g) BY <1>1, <1>5 DEF Counted
<1>7. tab' \in [Procs -> FileEntry] /\ PagesCounted' BY <1>4, <1>5, <1>6, TabStep
<1> QED BY <1>7 DEF PutDirFull, TypeInv, TypeOK

LEMMA CloseType ==
  ASSUME TypeInv, NEW p \in Procs,
         \/ CloseReader(p) \/ Crash(p) \/ CloseSeal(p)
         \/ Checkpointed(p)
         \/ \E checkpoint \in BOOLEAN : CloseHeader(p, checkpoint)
  PROVE  TypeInv'
<1> DEFINE f == tab[p]
<1>0. f \in FileEntry /\ Counted(f) BY DEF TypeInv, TypeOK, PagesCounted
<1>1. CASE CloseReader(p) \/ Crash(p) \/ CloseSeal(p)
  <2>1. tab' = [tab EXCEPT ![p] = Closed] BY <1>1 DEF CloseReader, Crash, CloseSeal
  <2>2. Counted(Closed) BY DEF Counted, Closed, NoFile
  <2>3. tab' \in [Procs -> FileEntry] /\ PagesCounted' BY <2>1, <2>2, Constants, TabStep
  <2>4. header' \in Header
    <3>1. [f.hdr EXCEPT !.rwflg = RDMODE] \in Header BY <1>0 DEF FileEntry, Header, RwFlags
    <3> QED BY <3>1, <1>1 DEF CloseReader, Crash, CloseSeal, TypeInv, TypeOK
  <2>5. safe' \subseteq Record
    BY <1>0, <1>1, HandleTypes DEF CloseReader, Crash, CloseSeal, TypeInv, TypeOK
  <2> QED BY <1>1, <2>3, <2>4, <2>5 DEF CloseReader, Crash, CloseSeal, TypeInv, TypeOK
<1>2. CASE Checkpointed(p)
  <2> DEFINE g == [f EXCEPT !.st = "open", !.modified = FALSE, !.xdf_checkpoint = FALSE]
  <2>1. tab' = [tab EXCEPT ![p] = g] BY <1>2 DEF Checkpointed
  <2>2. g \in FileEntry /\ g.hdr = f.hdr /\ g.npages = f.npages /\ g.st = "open"
    BY <1>0 DEF FileEntry, States
  <2>3. f.xdf_checkpoint BY <1>2 DEF Checkpointed
  <2>4. Counted(g) BY <1>0, <2>2, <2>3 DEF Counted
  <2>5. tab' \in [Procs -> FileEntry] /\ PagesCounted' BY <2>1, <2>2, <2>4, TabStep
  <2> QED BY <1>0, <1>2, <2>5, HandleTypes DEF Checkpointed, TypeInv, TypeOK
<1>3. ASSUME NEW checkpoint \in BOOLEAN, CloseHeader(p, checkpoint)
      PROVE  TypeInv'
  <2> DEFINE g == [f EXCEPT !.st = "closing", !.xdf_checkpoint = checkpoint]
  <2>1. tab' = [tab EXCEPT ![p] = g] BY <1>3 DEF CloseHeader
  <2>2. /\ g \in FileEntry /\ g.hdr = f.hdr /\ g.npages = f.npages /\ g.st = "closing"
        /\ g.modified = f.modified /\ g.xdf_checkpoint = checkpoint
    BY <1>0 DEF FileEntry, States
  <2>3. checkpoint => f.st = "open" BY <1>3 DEF CloseHeader
  <2>4. Counted(g) BY <1>0, <2>2, <2>3 DEF Counted
  <2>5. tab' \in [Procs -> FileEntry] /\ PagesCounted' BY <2>1, <2>2, <2>4, TabStep
  <2> QED BY <1>0, <1>3, <2>5 DEF CloseHeader, TypeInv, TypeOK, FileEntry
<1> QED BY <1>1, <1>2, <1>3

LEMMA WritePageType ==
  ASSUME TypeInv, NEW p \in Procs, NEW i \in PageNos, CloseMarks(p, i) \/ ClosePage(p, i)
  PROVE  TypeInv'
<1> DEFINE f == tab[p]
           m == f.page[i]
<1>0. f \in FileEntry /\ Counted(f) BY DEF TypeInv, TypeOK, PagesCounted
<1>1. m \in MemPage BY <1>0 DEF FileEntry
<1>2. CASE CloseMarks(p, i)
  <2> DEFINE pg == [f.page EXCEPT ![i] = Deaden(m)]
             g == [f EXCEPT !.st = "marked", !.page = pg]
  <2>1. tab' = [tab EXCEPT ![p] = g] BY <1>2 DEF CloseMarks
  <2>2. \E s : s \in Slots BY XdfAssumption DEF Slots
  <2>3. Deaden(m) \in MemPage BY <1>1, <2>2, EntryOps
  <2>4. pg \in [PageNos -> MemPage] BY <1>0, <2>3 DEF FileEntry
  <2> HIDE DEF pg
  <2>5. /\ g \in FileEntry /\ g.hdr = f.hdr /\ g.npages = f.npages /\ g.st = "marked"
        /\ g.modified = f.modified /\ g.xdf_checkpoint = f.xdf_checkpoint
    BY <1>0, <2>4 DEF FileEntry, States
  <2>6. Counted(g) BY <1>0, <2>5 DEF Counted
  <2>7. tab' \in [Procs -> FileEntry] /\ PagesCounted' BY <2>1, <2>5, <2>6, TabStep
  <2>8. \A a \in Addr : disk[a].kind = "rec" => [disk[a] EXCEPT !.mark = TRUE] \in Word
    BY DEF TypeInv, TypeOK, Word, Blank, PageImage, RecWord
  <2>9. disk' \in [Addr -> Word]
    BY <1>2, <2>8 DEF CloseMarks, TypeInv, TypeOK
  <2> QED BY <1>2, <2>7, <2>9 DEF CloseMarks, TypeInv, TypeOK
<1>3. CASE ClosePage(p, i)
  <2> DEFINE pg == [f.page EXCEPT ![i] = Flagged(m, FALSE)]
             g == [f EXCEPT !.st = "closing", !.page = pg]
  <2>1. tab' = [tab EXCEPT ![p] = g] BY <1>3 DEF ClosePage
  <2>2. pg \in [PageNos -> MemPage] BY <1>0, <1>1, PageOps DEF FileEntry
  <2> HIDE DEF pg
  <2>3. /\ g \in FileEntry /\ g.hdr = f.hdr /\ g.npages = f.npages /\ g.st = "closing"
        /\ g.modified = f.modified /\ g.xdf_checkpoint = f.xdf_checkpoint
    BY <1>0, <2>2 DEF FileEntry, States
  <2>4. Counted(g) BY <1>0, <2>3 DEF Counted
  <2>5. tab' \in [Procs -> FileEntry] /\ PagesCounted' BY <2>1, <2>3, <2>4, TabStep
  <2>6. disk' \in [Addr -> Word] BY <1>1, <1>3, PageWords DEF ClosePage, TypeInv, TypeOK, Word
  <2>7. size' \in 0 .. MaxAddr
    BY <1>3, XdfAssumption DEF ClosePage, LastWord, Addr, TypeInv, TypeOK
  <2> QED BY <1>3, <2>5, <2>6, <2>7 DEF ClosePage, TypeInv, TypeOK
<1> QED BY <1>2, <1>3

LEMMA TypeStep == TypeInv /\ [Next]_vars => TypeInv'
<1> SUFFICES ASSUME TypeInv, [Next]_vars PROVE TypeInv' OBVIOUS
<1>1. CASE UNCHANGED vars
  BY <1>1 DEF vars, TypeInv, TypeOK, PagesCounted, Counted
<1>2. ASSUME NEW p \in Procs, Step(p) PROVE TypeInv'
  BY <1>2, CreateType, OpenType, DelType, PutType, PutDirFullType, CloseType, WritePageType
     DEF Step
<1> QED BY <1>1, <1>2 DEF Next

(***************************************************************************)
(* Every variable keeps its type: page and slot numbers, addresses and     *)
(* lengths stay within the file and its directory.                         *)
(***************************************************************************)
THEOREM Types == Spec => []TypeOK
<1>1. TypeInv => TypeOK BY DEF TypeInv
<1> QED BY <1>1, TypeInit, TypeStep, PTL DEF Spec

---------------------------------------------------------------------------
(***************************************************************************)
(* Proof that directory entries always designate whole records when the    *)
(* sites run one writing application at a time: EntriesDesignateRecords,   *)
(* for any number of applications, readers that open the file at any       *)
(* moment, and applications that stop at any moment.                       *)
(*                                                                         *)
(* The predicates of the invariant take the disk d, the header H and the   *)
(* file size z as parameters, so that the lemmas about one write compose.  *)
(***************************************************************************)

Active(f) == f.st # "closed" /\ Writable(f)

(***************************************************************************)
(* Entry e designates a whole record of disk d that ends at L or before.   *)
(***************************************************************************)
WholeIn(d, e) ==
  \A j \in 0 .. e.lng - 1 :
    /\ e.addr + j \in Addr
    /\ d[e.addr + j].kind = "rec"
    /\ d[e.addr + j].key = e.key /\ d[e.addr + j].lng = e.lng /\ d[e.addr + j].off = j

Good(d, e, L) == WholeIn(d, e) /\ e.addr + e.lng - 1 <= L

HeldGood(d, f, L) ==
  \A i \in 1 .. f.npages : \A s \in 1 .. f.page[i].nent : Good(d, f.page[i].ent[s], L)

DiskGood(d, L) ==
  \A a \in Addr : d[a].kind = "page" => \A s \in 1 .. d[a].nent : Good(d, d[a].ent[s], L)

(***************************************************************************)
(* Function c gives the addresses of the n pages of a complete directory.  *)
(***************************************************************************)
IsDir(d, c, n) ==
  /\ \A i \in 1 .. n : c[i] \in Addr /\ d[c[i]].kind = "page"
  /\ \A i, j \in 1 .. n : c[i] = c[j] => i = j
  /\ n >= 1 => c[1] = 1 /\ d[c[n]].nxt = 0
  /\ \A i \in 1 .. n - 1 : d[c[i]].nxt = c[i + 1]

CleanDir(d, H) ==
  H.rwflg = RDMODE => \E c \in [1 .. H.nbd -> 1 .. H.fsiz] : IsDir(d, c, H.nbd)

(***************************************************************************)
(* The pages an application that writes holds in memory: each is on disk   *)
(* at its address, linked to the next, and differs from its image on disk  *)
(* only when it is flagged as modified.                                    *)
(***************************************************************************)
Pages(d, f) ==
  /\ \A i \in 1 .. f.npages :
       /\ f.page[i].addr \in Addr /\ f.page[i].addr <= f.hdr.fsiz
       /\ d[f.page[i].addr].kind = "page"
       /\ ~f.page[i].modified => d[f.page[i].addr] = Image(f.page[i])
  /\ \A i, j \in 1 .. f.npages : f.page[i].addr = f.page[j].addr => i = j
  /\ f.npages >= 1 => f.page[1].addr = 1
  /\ \A i \in 1 .. f.npages - 1 : f.page[i].nxt = f.page[i + 1].addr

LastPageEnds(f) == f.npages >= 1 => f.page[f.npages].nxt = 0

AllImages(d, f) == \A i \in 1 .. f.npages : d[f.page[i].addr] = Image(f.page[i])

OpeningDir(d, f) ==
  /\ ~f.modified
  /\ f.hdr.fsiz <= f.fsize
  /\ \E c \in [1 .. f.hdr.nbd -> 1 .. f.hdr.fsiz] :
       /\ IsDir(d, c, f.hdr.nbd)
       /\ \A i \in 1 .. f.npages : f.page[i].addr = c[i]
       /\ f.next = c[f.npages + 1]

WriterOK(d, H, z, f) ==
  /\ H.fsiz <= f.hdr.fsiz /\ f.hdr.fsiz <= z
  /\ Pages(d, f)
  /\ ~f.modified => AllImages(d, f)
  /\ f.st = "creating" => f.hdr.fsiz = 0
  /\ f.st = "opening" => OpeningDir(d, f)
  /\ f.st # "opening" => LastPageEnds(f)
  /\ f.st = "failed" => f.hdr.nbd = 0
  /\ f.st \in {"closing", "marked"} =>
       H.fsiz = f.hdr.fsiz /\ H.rwflg # RDMODE /\ f.npages = f.hdr.nbd

(***************************************************************************)
(* The invariant of one application, and the whole invariant.              *)
(***************************************************************************)
Bound(H, f) == IF Active(f) THEN f.hdr.fsiz ELSE H.fsiz

PInv(d, H, z, f) ==
  /\ HeldGood(d, f, Bound(H, f))
  /\ f.st \in {"creating", "closing", "marked"} => Writable(f)
  /\ Active(f) => WriterOK(d, H, z, f)

OneWriter == \A p, q \in Procs : Active(tab[p]) /\ Active(tab[q]) => p = q

IInv ==
  /\ TypeInv
  /\ OneWriter
  /\ header.fsiz <= size
  /\ DiskGood(disk, header.fsiz)
  /\ CleanDir(disk, header)
  /\ \A p \in Procs : PInv(disk, header, size, tab[p])

(***************************************************************************)
(* A write that keeps the records and the pages up to L.                   *)
(***************************************************************************)
KeptRecs(d, e, L) ==
  \A a \in Addr : a <= L /\ d[a].kind = "rec" =>
    e[a].kind = "rec" /\ e[a].key = d[a].key /\ e[a].lng = d[a].lng /\ e[a].off = d[a].off

KeptPages(d, e, L) == \A a \in Addr : a <= L /\ d[a].kind = "page" => e[a] = d[a]

(***************************************************************************)
(* Entries, and all that is made of them, stay good through such a write.  *)
(***************************************************************************)
LEMMA GoodKept ==
  ASSUME NEW d, NEW e, NEW x \in Entry, NEW L \in Int, NEW M \in Int, L <= M,
         Good(d, x, L), KeptRecs(d, e, L)
  PROVE  Good(e, x, M)
<1>1. x.addr \in Int /\ x.lng \in Int
  <2>1. x.addr \in 0 .. MaxAddr /\ x.lng \in {0} \cup Lengths BY DEF Entry
  <2>2. x.addr \in Int BY <2>1
  <2>3. \A l \in Lengths : l \in Int BY XdfAssumption
  <2>4. \A l \in {0} \cup Lengths : l \in Int BY <2>3
  <2> QED BY <2>1, <2>2, <2>4
<1>2. ASSUME NEW j \in 0 .. x.lng - 1
      PROVE  /\ x.addr + j \in Addr /\ e[x.addr + j].kind = "rec"
             /\ e[x.addr + j].key = x.key /\ e[x.addr + j].lng = x.lng /\ e[x.addr + j].off = j
  <2>1. /\ x.addr + j \in Addr /\ d[x.addr + j].kind = "rec"
        /\ d[x.addr + j].key = x.key /\ d[x.addr + j].lng = x.lng /\ d[x.addr + j].off = j
    BY DEF Good, WholeIn
  <2>2. x.addr + j <= L BY <1>1 DEF Good
  <2> QED BY <2>1, <2>2 DEF KeptRecs
<1>3. x.addr + x.lng - 1 <= M BY <1>1 DEF Good
<1> QED BY <1>2, <1>3 DEF Good, WholeIn

LEMMA GoodSame ==
  ASSUME NEW d, NEW x, NEW y, NEW L, Good(d, x, L),
         y.key = x.key, y.addr = x.addr, y.lng = x.lng
  PROVE  Good(d, y, L)
BY DEF Good, WholeIn

LEMMA FileTypes ==
  ASSUME NEW f \in FileEntry
  PROVE  /\ f.npages \in 0 .. MaxDirPages /\ f.hdr \in Header
         /\ f.hdr.nbd \in 0 .. MaxDirPages /\ f.hdr.fsiz \in 0 .. MaxAddr
         /\ MaxAddr \in Nat /\ MaxDirPages \in Nat /\ EntriesPerPage \in Nat
         /\ \A i \in 1 .. f.npages : i \in PageNos
         /\ \A i \in PageNos : f.page[i] \in MemPage
BY XdfAssumption DEF FileEntry, Header, PageNos

LEMMA PageTypes ==
  ASSUME NEW m \in MemPage
  PROVE  /\ m.nent \in 0 .. EntriesPerPage
         /\ \A s \in 1 .. m.nent : s \in Slots /\ m.ent[s] \in Entry
         /\ m.ent \in [Slots -> Entry]
BY XdfAssumption DEF MemPage, Slots

LEMMA HeldKept ==
  ASSUME NEW d, NEW e, NEW f \in FileEntry, NEW L \in Int, NEW M \in Int, L <= M,
         HeldGood(d, f, L), KeptRecs(d, e, L)
  PROVE  HeldGood(e, f, M)
<1>1. ASSUME NEW i \in 1 .. f.npages, NEW s \in 1 .. f.page[i].nent
      PROVE  Good(e, f.page[i].ent[s], M)
  <2>1. f.page[i].ent[s] \in Entry BY FileTypes, PageTypes
  <2>2. Good(d, f.page[i].ent[s], L) BY DEF HeldGood
  <2> QED BY <2>1, <2>2, GoodKept
<1> QED BY <1>1 DEF HeldGood

LEMMA DiskKept ==
  ASSUME NEW d \in [Addr -> Word], NEW e, NEW L \in Int, NEW M \in Int, L <= M,
         DiskGood(d, L), KeptRecs(d, e, L),
         \A a \in Addr : e[a].kind = "page" =>
           e[a] = d[a] \/ \A s \in 1 .. e[a].nent : Good(e, e[a].ent[s], M)
  PROVE  DiskGood(e, M)
<1>1. ASSUME NEW a \in Addr, e[a].kind = "page", e[a] = d[a], NEW s \in 1 .. d[a].nent
      PROVE  Good(e, d[a].ent[s], M)
  <2>1. d[a] \in PageImage BY <1>1, PageWords
  <2>2. d[a].ent[s] \in Entry
    <3>1. d[a].nent \in 0 .. EntriesPerPage /\ d[a].ent \in [Slots -> Entry] BY <2>1 DEF PageImage
    <3>2. s \in Slots BY <3>1, XdfAssumption DEF Slots
    <3> QED BY <3>1, <3>2
  <2>3. Good(d, d[a].ent[s], L) BY <1>1 DEF DiskGood
  <2> QED BY <2>2, <2>3, GoodKept
<1> QED BY <1>1 DEF DiskGood

LEMMA CleanDirKept ==
  ASSUME NEW d, NEW e, NEW H \in Header, CleanDir(d, H), KeptPages(d, e, H.fsiz)
  PROVE  CleanDir(e, H)
<1> SUFFICES ASSUME H.rwflg = RDMODE
             PROVE  \E c \in [1 .. H.nbd -> 1 .. H.fsiz] : IsDir(e, c, H.nbd)
  BY DEF CleanDir
<1>1. PICK c \in [1 .. H.nbd -> 1 .. H.fsiz] : IsDir(d, c, H.nbd) BY DEF CleanDir
<1>2. H.nbd \in Nat /\ H.fsiz \in Nat BY XdfAssumption DEF Header
<1>3. \A i \in 1 .. H.nbd : c[i] \in Addr /\ c[i] <= H.fsiz /\ d[c[i]].kind = "page"
  <2>1. \A i \in 1 .. H.nbd : c[i] \in 1 .. H.fsiz BY <1>1
  <2>2. \A i \in 1 .. H.nbd : c[i] <= H.fsiz BY <2>1, <1>2
  <2> QED BY <1>1, <2>2 DEF IsDir
<1>4. \A i \in 1 .. H.nbd : e[c[i]] = d[c[i]] BY <1>3 DEF KeptPages
<1>5. IsDir(e, c, H.nbd) BY <1>1, <1>2, <1>4 DEF IsDir
<1> QED BY <1>5

(***************************************************************************)
(* A step of an application that does not write, or that stops: disk and   *)
(* header stay.                                                            *)
(***************************************************************************)
Sets(p, g)    == tab' = [tab EXCEPT ![p] = g]
OnlyWriter(p) == \A q \in Procs \ {p} : ~Active(tab[q])

LEMMA ReaderStep ==
  ASSUME IInv, TypeInv', NEW p \in Procs, NEW g, Sets(p, g),
         UNCHANGED <<disk, header, size>>, ~Active(g), PInv(disk, header, size, g)
  PROVE  IInv'
<1>1. tab \in [Procs -> FileEntry] BY DEF IInv, TypeInv, TypeOK
<1>2. \A q \in Procs : tab'[q] = IF q = p THEN g ELSE tab[q] BY <1>1 DEF Sets
<1>3. OneWriter' BY <1>2 DEF OneWriter, IInv
<1>4. \A q \in Procs : PInv(disk, header, size, tab'[q]) BY <1>2 DEF IInv
<1> QED BY <1>3, <1>4 DEF IInv

(***************************************************************************)
(* A step of the only application that writes.                             *)
(***************************************************************************)
LEMMA WriterStep ==
  ASSUME IInv, TypeInv', NEW p \in Procs, NEW g, Sets(p, g), OnlyWriter(p),
         KeptRecs(disk, disk', header.fsiz), header.fsiz <= header'.fsiz,
         header'.fsiz <= size', DiskGood(disk', header'.fsiz), CleanDir(disk', header'),
         PInv(disk', header', size', g)
  PROVE  IInv'
<1>1. tab \in [Procs -> FileEntry] /\ header.fsiz \in Int /\ header'.fsiz \in Int
  BY XdfAssumption DEF IInv, TypeInv, TypeOK, Header
<1>2. \A q \in Procs : tab'[q] = IF q = p THEN g ELSE tab[q] BY <1>1 DEF Sets
<1>3. OneWriter' BY <1>2 DEF OneWriter, OnlyWriter
<1>4. ASSUME NEW q \in Procs, q # p PROVE PInv(disk', header', size', tab[q])
  <2>1. ~Active(tab[q]) BY <1>4 DEF OnlyWriter
  <2>2. HeldGood(disk, tab[q], header.fsiz)
    BY <2>1 DEF IInv, PInv, Bound
  <2>3. HeldGood(disk', tab[q], header'.fsiz) BY <1>1, <2>2, HeldKept
  <2> QED BY <2>1, <2>3 DEF PInv, Bound, IInv
<1>5. \A q \in Procs : PInv(disk', header', size', tab'[q]) BY <1>2, <1>4
<1> QED BY <1>3, <1>5 DEF IInv

(***************************************************************************)
(* Changing identifiers or flags in a page that is marked as modified      *)
(* leaves its records as good as they were.                                *)
(***************************************************************************)
SamePage(m, n) ==
  /\ n.addr = m.addr /\ n.nxt = m.nxt /\ n.nent = m.nent
  /\ n.modified
  /\ \A s \in 1 .. m.nent :
       n.ent[s].key = m.ent[s].key /\ n.ent[s].addr = m.ent[s].addr /\ n.ent[s].lng = m.ent[s].lng

LEMMA SamePageOps ==
  ASSUME NEW m \in MemPage
  PROVE  /\ \A s \in Slots : SamePage(m, EraseEntry(m, s))
         /\ \A s \in Slots, k \in Keys : m.ent[s].key = k => SamePage(m, Rekey(m, s, k))
         /\ SamePage(m, Flagged(m, TRUE))
         /\ m.modified => SamePage(m, Deaden(m))
<1>0. \A t \in 1 .. m.nent : t \in Slots /\ m.ent[t] \in Entry BY PageTypes
<1>1. ASSUME NEW s \in Slots PROVE SamePage(m, EraseEntry(m, s))
  <2>1. \A t \in 1 .. m.nent : EraseEntry(m, s).ent[t] =
           IF t = s THEN [m.ent[t] EXCEPT !.id = "erased"] ELSE m.ent[t]
    BY <1>0 DEF EraseEntry, MemPage
  <2>2. \A t \in 1 .. m.nent : /\ EraseEntry(m, s).ent[t].key = m.ent[t].key
                               /\ EraseEntry(m, s).ent[t].addr = m.ent[t].addr
                               /\ EraseEntry(m, s).ent[t].lng = m.ent[t].lng
    BY <1>0, <2>1 DEF Entry
  <2> QED BY <2>2 DEF SamePage, EraseEntry, MemPage
<1>2. ASSUME NEW s \in Slots, NEW k \in Keys, m.ent[s].key = k PROVE SamePage(m, Rekey(m, s, k))
  <2>1. \A t \in 1 .. m.nent : Rekey(m, s, k).ent[t] =
           IF t = s THEN [m.ent[t] EXCEPT !.key = k] ELSE m.ent[t]
    BY <1>0 DEF Rekey, MemPage
  <2>2. \A t \in 1 .. m.nent : /\ Rekey(m, s, k).ent[t].key = m.ent[t].key
                               /\ Rekey(m, s, k).ent[t].addr = m.ent[t].addr
                               /\ Rekey(m, s, k).ent[t].lng = m.ent[t].lng
    BY <1>0, <1>2, <2>1 DEF Entry
  <2> QED BY <2>2 DEF SamePage, Rekey, MemPage
<1>3. SamePage(m, Flagged(m, TRUE)) BY DEF SamePage, Flagged, MemPage
<1>4. ASSUME m.modified PROVE SamePage(m, Deaden(m))
  <2>1. \A t \in 1 .. m.nent : /\ Deaden(m).ent[t].key = m.ent[t].key
                               /\ Deaden(m).ent[t].addr = m.ent[t].addr
                               /\ Deaden(m).ent[t].lng = m.ent[t].lng
    BY <1>0 DEF Deaden, MemPage, Entry
  <2> QED BY <1>4, <2>1 DEF SamePage, Deaden, MemPage
<1> QED BY <1>1, <1>2, <1>3, <1>4

LEMMA OnePage ==
  ASSUME NEW d, NEW f \in FileEntry, NEW g \in FileEntry, NEW n \in PageNos, NEW m, NEW L,
         g.page = [f.page EXCEPT ![n] = m], SamePage(f.page[n], m),
         g.npages = f.npages, g.hdr.fsiz = f.hdr.fsiz,
         Pages(d, f), HeldGood(d, f, L)
  PROVE  /\ Pages(d, g) /\ HeldGood(d, g, L)
         /\ LastPageEnds(f) => LastPageEnds(g)
<1>0. \A i \in 1 .. f.npages : i \in PageNos BY FileTypes
<1>1. \A i \in 1 .. f.npages :
        /\ g.page[i].addr = f.page[i].addr /\ g.page[i].nxt = f.page[i].nxt
        /\ g.page[i].nent = f.page[i].nent
        /\ g.page[i].modified \/ g.page[i] = f.page[i]
        /\ \A s \in 1 .. f.page[i].nent : /\ g.page[i].ent[s].key = f.page[i].ent[s].key
                                          /\ g.page[i].ent[s].addr = f.page[i].ent[s].addr
                                          /\ g.page[i].ent[s].lng = f.page[i].ent[s].lng
  <2>1. \A i \in 1 .. f.npages : g.page[i] = IF i = n THEN m ELSE f.page[i]
    BY <1>0 DEF FileEntry
  <2> QED BY <2>1 DEF SamePage
<1>2. f.npages \in Nat BY FileTypes
<1>3. Pages(d, g) BY <1>1, <1>2 DEF Pages
<1>4. HeldGood(d, g, L)
  <2> SUFFICES ASSUME NEW i \in 1 .. f.npages, NEW s \in 1 .. f.page[i].nent
               PROVE  Good(d, g.page[i].ent[s], L)
    BY <1>1 DEF HeldGood
  <2>1. Good(d, f.page[i].ent[s], L) BY DEF HeldGood
  <2> QED BY <1>1, <2>1, GoodSame
<1>5. LastPageEnds(f) => LastPageEnds(g) BY <1>1, <1>2 DEF LastPageEnds
<1> QED BY <1>3, <1>4, <1>5

(***************************************************************************)
(* A new page lies beyond everything that the writer knows of.             *)
(***************************************************************************)
LEMMA NewPageGood ==
  ASSUME NEW d \in [Addr -> Word], NEW f \in FileEntry, CanAddPage(f), f.npages = f.hdr.nbd,
         f.npages = 0 => f.hdr.fsiz = 0,
         Pages(d, f), HeldGood(d, f, f.hdr.fsiz)
  PROVE  LET g == WithNewPage(f)
             e == [d EXCEPT ![f.hdr.fsiz + 1] = EmptyPage] IN
         /\ Pages(e, g) /\ HeldGood(e, g, g.hdr.fsiz)
         /\ LastPageEnds(g)
         /\ KeptRecs(d, e, f.hdr.fsiz) /\ KeptPages(d, e, f.hdr.fsiz)
         /\ g.page[g.npages].modified
<1> DEFINE a == f.hdr.fsiz + 1
           g == WithNewPage(f)
           e == [d EXCEPT ![a] = EmptyPage]
           n == f.npages + 1
<1>1. /\ a \in Addr /\ n \in PageNos /\ g \in FileEntry /\ g.npages = n /\ g.hdr.fsiz = a
      /\ g.page = [i \in PageNos |-> IF i = n THEN NewPage(a)
                                    ELSE IF i = f.npages THEN LinkTo(f.page[i], a)
                                    ELSE f.page[i]]
  BY WithNewPageFields
<1>2. f.npages \in Nat /\ f.hdr.fsiz \in Nat /\ (\A i \in 1 .. f.npages : i \in PageNos /\ f.page[i] \in MemPage)
  BY FileTypes
<1>3. e[a].kind = "page" BY <1>1 DEF EmptyPage
<1>4. \A b \in Addr : b <= f.hdr.fsiz => e[b] = d[b] BY <1>1, <1>2
<1>5. KeptRecs(d, e, f.hdr.fsiz) /\ KeptPages(d, e, f.hdr.fsiz)
  BY <1>4 DEF KeptRecs, KeptPages
<1> HIDE DEF e, g
<1>6. /\ g.page[n].addr = a /\ g.page[n].nxt = 0 /\ g.page[n].nent = 0 /\ g.page[n].modified
  BY <1>1 DEF NewPage, NoMemPage
<1>7. ASSUME NEW i \in 1 .. f.npages
      PROVE  /\ g.page[i].addr = f.page[i].addr /\ g.page[i].nent = f.page[i].nent
             /\ g.page[i].ent = f.page[i].ent
             /\ g.page[i].nxt = IF i = f.npages THEN a ELSE f.page[i].nxt
             /\ g.page[i].modified \/ g.page[i] = f.page[i]
  <2>1. g.page[i] = IF i = f.npages THEN LinkTo(f.page[i], a) ELSE f.page[i] BY <1>1, <1>2
  <2> QED BY <1>2, <2>1 DEF LinkTo, MemPage
<1>8. Pages(e, g)
  <2>1. ASSUME NEW i \in 1 .. n
        PROVE  /\ g.page[i].addr \in Addr /\ g.page[i].addr <= a
               /\ e[g.page[i].addr].kind = "page"
               /\ ~g.page[i].modified => e[g.page[i].addr] = Image(g.page[i])
               /\ i # n => g.page[i].addr < a
    <3>1. CASE i = n BY <1>1, <1>2, <1>3, <1>6, <3>1
    <3>2. CASE i # n
      <4>1. i \in 1 .. f.npages BY <1>2, <3>2
      <4>2. /\ f.page[i].addr \in Addr /\ f.page[i].addr <= f.hdr.fsiz
            /\ d[f.page[i].addr].kind = "page"
            /\ ~f.page[i].modified => d[f.page[i].addr] = Image(f.page[i])
        BY <4>1 DEF Pages
      <4>3. e[f.page[i].addr] = d[f.page[i].addr] BY <1>4, <4>2
      <4>4. f.page[i].addr < a BY <1>2, <4>2 DEF Addr
      <4>5. g.page[i].addr = f.page[i].addr /\ (g.page[i].modified \/ g.page[i] = f.page[i])
        BY <1>7, <4>1
      <4>6. a \in Int /\ f.page[i].addr \in Int BY <1>2, <4>2 DEF Addr
      <4> HIDE DEF a
      <4>7. g.page[i].addr \in Addr /\ g.page[i].addr <= a /\ g.page[i].addr < a
        BY <4>2, <4>4, <4>5, <4>6
      <4>8. e[g.page[i].addr].kind = "page" BY <4>2, <4>3, <4>5
      <4>9. g.page[i].modified \/ e[g.page[i].addr] = Image(g.page[i])
        BY <4>2, <4>3, <4>5, Zenon
      <4> QED BY <4>7, <4>8, <4>9
    <3> QED BY <3>1, <3>2
  <2>2. \A i, j \in 1 .. n : g.page[i].addr = g.page[j].addr => i = j
    <3> SUFFICES ASSUME NEW i \in 1 .. n, NEW j \in 1 .. n, g.page[i].addr = g.page[j].addr
                 PROVE  i = j
      OBVIOUS
    <3>1. CASE i = n \/ j = n
      <4>1. i # n => g.page[i].addr < a BY <2>1
      <4>2. j # n => g.page[j].addr < a BY <2>1
      <4>3. g.page[n].addr = a /\ a \in Int BY <1>2, <1>6
      <4> HIDE DEF a, n
      <4> QED BY <3>1, <4>1, <4>2, <4>3
    <3>2. CASE i # n /\ j # n
      <4>1. i \in 1 .. f.npages /\ j \in 1 .. f.npages BY <1>2, <3>2
      <4>2. f.page[i].addr = f.page[j].addr BY <1>7, <4>1
      <4> QED BY <4>1, <4>2 DEF Pages
    <3> QED BY <3>1, <3>2
  <2>3. g.page[1].addr = 1
    <3>1. CASE f.npages = 0 BY <1>2, <1>6, <3>1
    <3>2. CASE f.npages # 0
      <4>1. 1 \in 1 .. f.npages /\ f.npages >= 1 BY <1>2, <3>2
      <4> QED BY <1>7, <4>1 DEF Pages
    <3> QED BY <3>1, <3>2
  <2>4. \A i \in 1 .. n - 1 : g.page[i].nxt = g.page[i + 1].addr
    <3> SUFFICES ASSUME NEW i \in 1 .. f.npages PROVE g.page[i].nxt = g.page[i + 1].addr
      BY <1>2
    <3>1. CASE i = f.npages BY <1>6, <1>7, <3>1
    <3>2. CASE i # f.npages
      <4>1. i \in 1 .. f.npages - 1 /\ i + 1 \in 1 .. f.npages BY <1>2, <3>2
      <4>2. f.page[i].nxt = f.page[i + 1].addr BY <4>1 DEF Pages
      <4> QED BY <1>7, <3>2, <4>1, <4>2
    <3> QED BY <3>1, <3>2
  <2> QED BY <1>1, <2>1, <2>2, <2>3, <2>4 DEF Pages
<1>9. HeldGood(e, g, a)
  <2> SUFFICES ASSUME NEW i \in 1 .. n, NEW s \in 1 .. g.page[i].nent
               PROVE  Good(e, g.page[i].ent[s], a)
    BY <1>1 DEF HeldGood
  <2>1. HeldGood(e, f, a) BY <1>2, <1>5, HeldKept
  <2>2. i # n BY <1>6
  <2>3. i \in 1 .. f.npages BY <1>2, <2>2
  <2> QED BY <1>7, <2>1, <2>3 DEF HeldGood
<1>10. LastPageEnds(g) BY <1>1, <1>6 DEF LastPageEnds
<1> QED BY <1>1, <1>5, <1>6, <1>8, <1>9, <1>10 DEF e, g

(***************************************************************************)
(* A record written at the end of the file, and its entry.                 *)
(***************************************************************************)
LEMMA RecordWritten ==
  ASSUME NEW d \in [Addr -> Word], NEW a \in Nat, a >= 1, NEW k \in Keys, NEW l \in Lengths,
         a + l - 1 <= MaxAddr
  PROVE  LET e == WithRecord(d, a, k, l) IN
         /\ \A b \in Addr : b < a => e[b] = d[b]
         /\ \A x : x.key = k /\ x.addr = a /\ x.lng = l => Good(e, x, a + l - 1)
         /\ \A b \in Addr : e[b].kind = "page" => e[b] = d[b]
<1> DEFINE e == WithRecord(d, a, k, l)
<1>0. l \in Nat /\ MaxAddr \in Nat BY XdfAssumption
<1>1. \A b \in Addr : b < a => e[b] = d[b] BY <1>0 DEF WithRecord, Addr
<1>2. \A j \in 0 .. l - 1 :
        /\ a + j \in Addr
        /\ e[a + j].kind = "rec" /\ e[a + j].key = k /\ e[a + j].lng = l /\ e[a + j].off = j
  <2> SUFFICES ASSUME NEW j \in 0 .. l - 1
               PROVE  /\ a + j \in Addr
                      /\ e[a + j].kind = "rec" /\ e[a + j].key = k /\ e[a + j].lng = l
                      /\ e[a + j].off = j
    OBVIOUS
  <2>1. a + j \in Addr /\ a + j \in a .. a + l - 1 BY <1>0 DEF Addr
  <2>2. e[a + j] = [kind |-> "rec", key |-> k, lng |-> l, off |-> (a + j) - a, mark |-> FALSE]
    BY <2>1 DEF WithRecord
  <2>3. (a + j) - a = j OBVIOUS
  <2> HIDE DEF e
  <2> QED BY <2>1, <2>2, <2>3
<1>3. ASSUME NEW b \in Addr, e[b].kind = "page" PROVE e[b] = d[b]
  <2>1. CASE b \in a .. a + l - 1
    <3>1. e[b] = [kind |-> "rec", key |-> k, lng |-> l, off |-> b - a, mark |-> FALSE]
      BY <2>1 DEF WithRecord
    <3>2. e[b].kind = "rec" BY <3>1
    <3> QED BY <1>3, <3>2
  <2>2. CASE b \notin a .. a + l - 1 BY <2>2 DEF WithRecord
  <2> QED BY <2>1, <2>2
<1> HIDE DEF e
<1>4. ASSUME NEW x, x.key = k, x.addr = a, x.lng = l PROVE Good(e, x, a + l - 1)
  BY <1>0, <1>2, <1>4 DEF Good, WholeIn
<1> QED BY <1>1, <1>3, <1>4 DEF e

LEMMA AppendGood ==
  ASSUME NEW d \in [Addr -> Word], NEW f \in FileEntry, NEW k \in Keys, NEW l \in Lengths,
         f.npages \in PageNos, ~LastPageFull(f), f.hdr.fsiz + l <= MaxAddr,
         Pages(d, f), HeldGood(d, f, f.hdr.fsiz), LastPageEnds(f)
  PROVE  LET g == Appended(f, k, l)
             e == WithRecord(d, f.hdr.fsiz + 1, k, l) IN
         /\ Pages(e, g) /\ HeldGood(e, g, g.hdr.fsiz)
         /\ LastPageEnds(g)
         /\ KeptRecs(d, e, f.hdr.fsiz) /\ KeptPages(d, e, f.hdr.fsiz)
         /\ \A b \in Addr : e[b].kind = "page" => e[b] = d[b]
<1> DEFINE a == f.hdr.fsiz + 1
           g == Appended(f, k, l)
           e == WithRecord(d, a, k, l)
           n == f.npages
           x == NewEntry(f, k, l)
           z == f.hdr.fsiz + l
<1>0. /\ n \in Nat /\ f.hdr.fsiz \in Nat /\ l \in Nat /\ l >= 1 /\ a \in Nat /\ a >= 1
      /\ z \in Nat /\ a + l - 1 = z /\ f.hdr.fsiz <= z /\ f.hdr.fsiz < a
      /\ n \in PageNos /\ n \in 1 .. n
      /\ \A i \in 1 .. n : i \in PageNos /\ f.page[i] \in MemPage
  <2>1. l \in Nat /\ l >= 1 BY XdfAssumption
  <2>2. n \in Nat /\ f.hdr.fsiz \in Nat /\ n >= 1 BY FileTypes DEF PageNos
  <2> QED BY <2>1, <2>2, FileTypes
<1>1. /\ g \in FileEntry /\ g.npages = n /\ g.hdr.fsiz = z
      /\ \A i \in PageNos : g.page[i] = IF i = n THEN AddEntry(f.page[i], x) ELSE f.page[i]
  <2>1. g \in FileEntry BY AppendedFields
  <2>2. g.npages = n BY AppendedFields
  <2>3. g.hdr.fsiz = z BY AppendedFields
  <2>4. \A i \in PageNos : g.page[i] = IF i = n THEN AddEntry(f.page[i], x) ELSE f.page[i]
    BY AppendedPages
  <2> QED BY <2>1, <2>2, <2>3, <2>4
<1>2. /\ \A b \in Addr : b < a => e[b] = d[b]
      /\ \A b \in Addr : e[b].kind = "page" => e[b] = d[b]
      /\ \A y : y.key = k /\ y.addr = a /\ y.lng = l => Good(e, y, a + l - 1)
  BY <1>0, RecordWritten
<1>3. x.key = k /\ x.addr = a /\ x.lng = l BY DEF NewEntry
<1> HIDE DEF e, g, x, a
<1>4. Good(e, x, z) BY <1>0, <1>2, <1>3
<1>5. \A b \in Addr : b <= f.hdr.fsiz => e[b] = d[b] BY <1>0, <1>2 DEF Addr
<1>6. KeptRecs(d, e, f.hdr.fsiz) /\ KeptPages(d, e, f.hdr.fsiz)
  BY <1>5 DEF KeptRecs, KeptPages
<1>7. ASSUME NEW i \in 1 .. n
      PROVE  /\ g.page[i].addr = f.page[i].addr /\ g.page[i].nxt = f.page[i].nxt
             /\ g.page[i].modified \/ g.page[i] = f.page[i]
             /\ i # n => g.page[i] = f.page[i]
  <2>1. g.page[i] = IF i = n THEN AddEntry(f.page[i], x) ELSE f.page[i]
    BY <1>0, <1>1
  <2> QED BY <1>0, <2>1 DEF AddEntry, MemPage
<1>8. /\ g.page[n].nent = f.page[n].nent + 1
      /\ f.page[n].nent \in Nat
      /\ g.page[n].ent[f.page[n].nent + 1] = x
      /\ \A s \in 1 .. f.page[n].nent : g.page[n].ent[s] = f.page[n].ent[s]
  <2> DEFINE m == f.page[n]
  <2>1. m \in MemPage BY <1>0
  <2>2. g.page[n] = AddEntry(m, x) BY <1>0, <1>1
  <2>3. m.nent \in Nat /\ m.nent < EntriesPerPage /\ m.ent \in [Slots -> Entry]
    <3>1. m.nent \in 0 .. EntriesPerPage /\ m.ent \in [Slots -> Entry] BY <2>1, PageTypes
    <3>2. ~(m.nent >= EntriesPerPage) BY DEF LastPageFull
    <3> QED BY <3>1, <3>2, XdfAssumption
  <2>4. m.nent + 1 \in Slots /\ \A s \in 1 .. m.nent : s \in Slots /\ s # m.nent + 1
    <3> HIDE DEF m
    <3>1. EntriesPerPage \in Nat BY XdfAssumption
    <3> QED BY <2>3, <3>1 DEF Slots
  <2> HIDE DEF m
  <2>5. /\ AddEntry(m, x).nent = m.nent + 1
        /\ AddEntry(m, x).ent = [m.ent EXCEPT ![m.nent + 1] = x]
    BY <2>1 DEF AddEntry, MemPage
  <2>6. m = f.page[n] BY DEF m
  <2> QED BY <2>2, <2>3, <2>4, <2>5, <2>6
<1>9. Pages(e, g)
  <2>1. ASSUME NEW i \in 1 .. n
        PROVE  /\ g.page[i].addr \in Addr /\ g.page[i].addr <= z
               /\ e[g.page[i].addr].kind = "page"
               /\ ~g.page[i].modified => e[g.page[i].addr] = Image(g.page[i])
    <3>1. /\ f.page[i].addr \in Addr /\ f.page[i].addr <= f.hdr.fsiz
          /\ d[f.page[i].addr].kind = "page"
          /\ ~f.page[i].modified => d[f.page[i].addr] = Image(f.page[i])
      BY DEF Pages
    <3>2. e[f.page[i].addr] = d[f.page[i].addr] BY <1>5, <3>1
    <3>3. f.page[i].addr <= z BY <1>0, <3>1 DEF Addr
    <3>4. g.page[i].modified \/ e[g.page[i].addr] = Image(g.page[i])
      BY <1>7, <3>1, <3>2, Zenon
    <3>5. g.page[i].addr = f.page[i].addr BY <1>7
    <3> QED BY <3>1, <3>2, <3>3, <3>4, <3>5
  <2>2. \A i, j \in 1 .. n : g.page[i].addr = g.page[j].addr => i = j BY <1>7 DEF Pages
  <2>3. g.page[1].addr = 1
    <3>1. 1 \in 1 .. n /\ n >= 1 BY <1>0
    <3> QED BY <1>7, <3>1 DEF Pages
  <2>4. \A i \in 1 .. n - 1 : g.page[i].nxt = g.page[i + 1].addr
    <3> SUFFICES ASSUME NEW i \in 1 .. n - 1 PROVE g.page[i].nxt = g.page[i + 1].addr
      OBVIOUS
    <3>1. i \in 1 .. n /\ i + 1 \in 1 .. n BY <1>0
    <3>2. f.page[i].nxt = f.page[i + 1].addr BY DEF Pages
    <3> QED BY <1>7, <3>1, <3>2
  <2> QED BY <1>1, <2>1, <2>2, <2>3, <2>4 DEF Pages
<1>10. HeldGood(e, g, z)
  <2> SUFFICES ASSUME NEW i \in 1 .. n, NEW s \in 1 .. g.page[i].nent
               PROVE  Good(e, g.page[i].ent[s], z)
    BY <1>1 DEF HeldGood
  <2>1. HeldGood(e, f, z) BY <1>0, <1>6, HeldKept
  <2>2. CASE i # n BY <1>7, <2>1, <2>2 DEF HeldGood
  <2>3. CASE i = n
    <3>1. s \in 1 .. f.page[n].nent \/ s = f.page[n].nent + 1 BY <1>8, <2>3
    <3>2. CASE s = f.page[n].nent + 1 BY <1>4, <1>8, <2>3, <3>2
    <3>3. CASE s \in 1 .. f.page[n].nent
      <4>1. Good(e, f.page[n].ent[s], z) BY <1>0, <2>1, <3>3 DEF HeldGood
      <4> QED BY <1>8, <2>3, <3>3, <4>1
    <3> QED BY <3>1, <3>2, <3>3
  <2> QED BY <2>2, <2>3
<1>11. LastPageEnds(g) BY <1>0, <1>1, <1>7 DEF LastPageEnds
<1> QED BY <1>1, <1>2, <1>6, <1>9, <1>10, <1>11 DEF e, g, a

(***************************************************************************)
(* What the invariant says of an application before its step.              *)
(***************************************************************************)
LEMMA Facts ==
  ASSUME IInv, NEW p \in Procs
  PROVE  /\ tab[p] \in FileEntry /\ Counted(tab[p]) /\ PInv(disk, header, size, tab[p])
         /\ disk \in [Addr -> Word] /\ header \in Header
         /\ header.fsiz \in Nat /\ size \in Nat /\ header.fsiz <= size
         /\ Active(tab[p]) => OnlyWriter(p)
         /\ DiskGood(disk, header.fsiz) /\ CleanDir(disk, header)
<1>1. TypeInv BY DEF IInv
<1>2. header.fsiz \in 0 .. MaxAddr /\ size \in 0 .. MaxAddr /\ header \in Header
  BY <1>1 DEF TypeInv, TypeOK, Header
<1> QED BY <1>1, <1>2 DEF IInv, OneWriter, OnlyWriter, TypeInv, TypeOK, PagesCounted

(***************************************************************************)
(* Nothing happens to the disk.                                            *)
(***************************************************************************)
LEMMA NothingWritten ==
  ASSUME NEW d, NEW L
  PROVE  KeptRecs(d, d, L) /\ KeptPages(d, d, L)
BY DEF KeptRecs, KeptPages

LEMMA WriterInv ==
  ASSUME NEW d, NEW H, NEW z, NEW f, f.st # "closed", Writable(f)
  PROVE  PInv(d, H, z, f) <=> WriterOK(d, H, z, f) /\ HeldGood(d, f, f.hdr.fsiz)
BY DEF PInv, Bound, Active

LEMMA InitGood == Init => IInv
<1> SUFFICES ASSUME Init PROVE IInv OBVIOUS
<1>1. TypeInv BY TypeInit
<1>2. OneWriter BY DEF OneWriter, Active, Init, Closed
<1>3. header.fsiz = 0 /\ size = 0 BY DEF Init, NoFile
<1>4. \A a \in Addr : disk[a].kind # "page" BY DEF Init, Blank
<1>5. DiskGood(disk, header.fsiz) BY <1>4 DEF DiskGood
<1>6. CleanDir(disk, header) BY DEF CleanDir, Init, NoFile, RDMODE
<1>7. \A p \in Procs : PInv(disk, header, size, tab[p])
  <2> SUFFICES ASSUME NEW p \in Procs PROVE PInv(disk, header, size, Closed)
    BY DEF Init
  <2> QED BY DEF PInv, HeldGood, Active, Closed
<1> QED BY <1>1, <1>2, <1>3, <1>5, <1>6, <1>7 DEF IInv

LEMMA ClosedGood == \A d, H, z : PInv(d, H, z, Closed) /\ ~Active(Closed)
BY DEF PInv, HeldGood, Active, Closed

(***************************************************************************)
(* Creation.                                                               *)
(***************************************************************************)
LEMMA CreateHeaderGood ==
  ASSUME Coordinated, IInv, TypeInv', NEW p \in Procs, CreateHeader(p)
  PROVE  IInv'
<1> DEFINE new == [NoFile EXCEPT !.rwflg = RDMODE]
           g == [Closed EXCEPT !.st = "creating", !.hdr = [new EXCEPT !.rwflg = CREATE]]
<1>1. /\ header = NoFile /\ header' = new /\ Sets(p, g)
      /\ disk' = disk /\ size' = size
      /\ OnlyWriter(p)
  BY DEF CreateHeader, MayWrite, Writing, Active, Sets, OnlyWriter
<1>2. header.fsiz = 0 /\ header'.fsiz = 0 /\ header'.nbd = 0 BY <1>1 DEF NoFile
<1>3. KeptRecs(disk, disk', header.fsiz) BY <1>1, NothingWritten
<1>4. 0 <= size BY Facts
<1>5. DiskGood(disk', header'.fsiz) BY <1>1, <1>2, Facts
<1>6. CleanDir(disk', header')
  <2> DEFINE c == [i \in 1 .. 0 |-> 1]
  <2>1. c \in [1 .. 0 -> 1 .. 0] OBVIOUS
  <2>2. IsDir(disk', c, 0) BY DEF IsDir
  <2> QED BY <1>2, <2>1, <2>2 DEF CleanDir
<1>7. /\ g.npages = 0 /\ g.st = "creating" /\ g.hdr.fsiz = 0 /\ Writable(g)
      /\ ~g.modified
  BY DEF Closed, NoFile, Writable, CREATE, RDMODE
<1> HIDE DEF g
<1>8. PInv(disk', header', size', g)
  BY <1>1, <1>2, <1>4, <1>7
     DEF PInv, HeldGood, WriterOK, Pages, AllImages, LastPageEnds, Active
<1>9. header.fsiz <= header'.fsiz /\ header'.fsiz <= size' BY <1>1, <1>2, <1>4
<1> QED BY <1>1, <1>3, <1>5, <1>6, <1>8, <1>9, WriterStep

LEMMA CreatePageGood ==
  ASSUME IInv, TypeInv', NEW p \in Procs, CreatePage(p)
  PROVE  IInv'
<1> DEFINE f == tab[p]
           w == WithNewPage(f)
           g == [w EXCEPT !.st = "open", !.modified = TRUE]
           a == f.hdr.fsiz + 1
<1>1. /\ f.st = "creating" /\ CanAddPage(f)
      /\ disk' = [disk EXCEPT ![a] = EmptyPage] /\ size' = LastWord(a, 1)
      /\ Sets(p, g) /\ header' = header
  BY DEF CreatePage, Sets
<1>2. /\ f \in FileEntry /\ Counted(f) /\ PInv(disk, header, size, f)
      /\ disk \in [Addr -> Word] /\ header.fsiz \in Nat /\ size \in Nat /\ header.fsiz <= size
      /\ Active(f) => OnlyWriter(p)
      /\ DiskGood(disk, header.fsiz) /\ CleanDir(disk, header) /\ header \in Header
  BY Facts
<1>3. Active(f) /\ WriterOK(disk, header, size, f) /\ HeldGood(disk, f, f.hdr.fsiz)
  BY <1>1, <1>2 DEF PInv, Active, Bound
<1>4. f.hdr.fsiz = 0 /\ header.fsiz <= f.hdr.fsiz /\ Pages(disk, f)
  BY <1>1, <1>3 DEF WriterOK
<1>5. f.npages = 0 /\ f.hdr.nbd = 0 BY <1>1, <1>2 DEF Counted, FileEntry
<1>6. /\ Pages(disk', w) /\ HeldGood(disk', w, w.hdr.fsiz) /\ LastPageEnds(w)
      /\ KeptRecs(disk, disk', f.hdr.fsiz) /\ KeptPages(disk, disk', f.hdr.fsiz)
  BY <1>1, <1>2, <1>3, <1>4, <1>5, NewPageGood
<1>7. /\ w \in FileEntry /\ w.hdr.fsiz = a /\ w.hdr.rwflg = f.hdr.rwflg
      /\ w.read_only = f.read_only
  <2>1. /\ w \in FileEntry /\ w.hdr.fsiz = a /\ w.read_only = f.read_only
        /\ w.hdr = [f.hdr EXCEPT !.fsiz = a, !.nbd = f.hdr.nbd + 1]
    BY <1>1, <1>2, <1>5, WithNewPageFields
  <2>2. w.hdr.rwflg = f.hdr.rwflg BY <1>2, <2>1, FileTypes DEF Header
  <2> QED BY <2>1, <2>2
<1> HIDE DEF w
<1>8. /\ g.page = w.page /\ g.npages = w.npages /\ g.hdr = w.hdr /\ g.read_only = w.read_only
      /\ g.st = "open" /\ g.modified
  BY <1>7 DEF FileEntry
<1>9. header.fsiz = 0 /\ f.hdr.fsiz = header.fsiz BY <1>2, <1>4
<1>10. size' >= 1 /\ a = 1 BY <1>1, <1>2, <1>4 DEF LastWord
<1> HIDE DEF g
<1>11. Writable(g) BY <1>3, <1>7, <1>8 DEF Active, Writable
<1>12. WriterOK(disk', header', size', g)
  BY <1>1, <1>6, <1>7, <1>8, <1>9, <1>10 DEF WriterOK, Pages, LastPageEnds
<1>13. PInv(disk', header', size', g)
  BY <1>6, <1>8, <1>11, <1>12 DEF PInv, Bound, Active, HeldGood
<1>14. DiskGood(disk', header'.fsiz)
  <2>1. \A b \in Addr : disk'[b] = IF b = a THEN EmptyPage ELSE disk[b] BY <1>1, <1>2
  <2>2. EmptyPage.nent = 0 BY DEF EmptyPage
  <2>3. \A b \in Addr : disk'[b] = disk[b] \/ \A s \in 1 .. disk'[b].nent : Good(disk', disk'[b].ent[s], header.fsiz)
    BY <2>1, <2>2
  <2>4. KeptRecs(disk, disk', header.fsiz) /\ header.fsiz \in Int /\ header.fsiz <= header.fsiz
    BY <1>2, <1>6, <1>9
  <2>5. DiskGood(disk', header.fsiz) BY <1>2, <2>3, <2>4, DiskKept
  <2> QED BY <1>1, <2>5
<1>15. CleanDir(disk', header') BY <1>1, <1>2, <1>6, <1>9, CleanDirKept
<1>16. KeptRecs(disk, disk', header.fsiz) BY <1>6, <1>9
<1>17. header.fsiz <= header'.fsiz /\ header'.fsiz <= size'
  <2>1. size' \in Int BY DEF TypeInv, TypeOK
  <2> QED BY <1>1, <1>9, <1>10, <2>1
<1> QED BY <1>1, <1>2, <1>3, <1>13, <1>14, <1>15, <1>16, <1>17, WriterStep

(***************************************************************************)
(* Opening.                                                                *)
(***************************************************************************)
LEMMA OpenHeaderGood ==
  ASSUME Coordinated, IInv, TypeInv', NEW p \in Procs,
         NEW mode \in {RDMODE, RWMODE, APPEND}, NEW ro \in BOOLEAN, OpenHeader(p, mode, ro)
  PROVE  IInv'
<1> DEFINE g == [Closed EXCEPT !.st = IF header.nbd = 0 THEN "failed" ELSE "opening",
                               !.read_only = ro, !.hdr = [header EXCEPT !.rwflg = mode],
                               !.fsize = size, !.next = 1]
<1>1. /\ Sets(p, g) /\ disk' = disk /\ header' = header /\ size' = size
      /\ mode # RDMODE => header.rwflg = RDMODE
      /\ Writable(g) => MayWrite(p)
  BY DEF OpenHeader, Sets
<1>2. /\ disk \in [Addr -> Word] /\ header \in Header /\ header.fsiz \in Nat /\ size \in Nat
      /\ header.fsiz <= size /\ DiskGood(disk, header.fsiz) /\ CleanDir(disk, header)
  BY Facts
<1>3. header.nbd \in Nat BY <1>2, XdfAssumption DEF Header
<1>4. /\ g.st = IF header.nbd = 0 THEN "failed" ELSE "opening"
      /\ g.hdr.rwflg = mode /\ g.hdr.nbd = header.nbd /\ g.hdr.fsiz = header.fsiz
      /\ g.npages = 0 /\ g.fsize = size /\ g.next = 1 /\ g.modified = FALSE
  BY <1>2 DEF Closed, Header
<1> HIDE DEF g
<1>5. \A L : HeldGood(disk, g, L) BY <1>4 DEF HeldGood
<1>6. CASE ~Writable(g)
  <2>1. ~Active(g) BY <1>6 DEF Active
  <2>2. PInv(disk, header, size, g) BY <1>4, <1>5, <2>1 DEF PInv
  <2> QED BY <1>1, <2>1, <2>2, ReaderStep
<1>7. CASE Writable(g)
  <2>1. OnlyWriter(p) BY <1>1, <1>7 DEF MayWrite, Writing, Active, OnlyWriter
  <2>2. header.rwflg = RDMODE BY <1>1, <1>4, <1>7 DEF Writable
  <2>3. PICK c \in [1 .. header.nbd -> 1 .. header.fsiz] : IsDir(disk, c, header.nbd)
    BY <1>2, <2>2 DEF CleanDir
  <2>4. g.st = "opening" => OpeningDir(disk, g)
    <3> SUFFICES ASSUME header.nbd # 0 PROVE OpeningDir(disk, g) BY <1>4
    <3>1. c[1] = 1 BY <1>3, <2>3 DEF IsDir
    <3>2. g.next = c[g.npages + 1] BY <1>4, <3>1
    <3>3. \A i \in 1 .. g.npages : g.page[i].addr = c[i] BY <1>4
    <3>4. ~g.modified /\ g.hdr.fsiz <= g.fsize BY <1>2, <1>4
    <3>5. c \in [1 .. g.hdr.nbd -> 1 .. g.hdr.fsiz] /\ IsDir(disk, c, g.hdr.nbd) BY <1>4, <2>3
    <3> HIDE DEF g
    <3> QED BY <3>2, <3>3, <3>4, <3>5 DEF OpeningDir
  <2>5. Pages(disk, g) /\ AllImages(disk, g) /\ LastPageEnds(g)
    BY <1>4 DEF Pages, AllImages, LastPageEnds
  <2>6. WriterOK(disk, header, size, g) BY <1>2, <1>4, <2>4, <2>5 DEF WriterOK
  <2>7. PInv(disk, header, size, g) BY <1>5, <1>7, <2>6 DEF PInv
  <2>8. KeptRecs(disk, disk', header.fsiz) BY <1>1, NothingWritten
  <2> QED BY <1>1, <1>2, <2>1, <2>7, <2>8, WriterStep
<1> QED BY <1>6, <1>7

(***************************************************************************)
(* The page read is the one of the directory that its predecessor points   *)
(* to; what it holds is good because everything on disk is.                *)
(***************************************************************************)
LEMMA OpenPageWriter ==
  ASSUME NEW d, NEW f \in FileEntry, NEW g \in FileEntry, NEW m, OpeningDir(d, f),
         f.npages < f.hdr.nbd, Pages(d, f), AllImages(d, f),
         g.npages = f.npages + 1, g.hdr = f.hdr, g.modified = f.modified, g.fsize = f.fsize,
         g.page = [f.page EXCEPT ![f.npages + 1] = m],
         m.addr = f.next, m.nxt = g.next, Image(m) = d[f.next], d[f.next].nxt = g.next
  PROVE  /\ Pages(d, g) /\ AllImages(d, g)
         /\ g.next <= f.fsize
         /\ f.npages + 1 = f.hdr.nbd => LastPageEnds(g)
         /\ f.npages + 1 # f.hdr.nbd => OpeningDir(d, g)
<1> DEFINE n == f.npages + 1
<1>1. /\ f.npages \in Nat /\ f.hdr.nbd \in Nat /\ f.hdr.fsiz \in Nat /\ f.fsize \in Nat
      /\ n \in PageNos /\ n \in 1 .. f.hdr.nbd /\ n >= 1 /\ (\A i \in 1 .. n : i \in PageNos)
      /\ (\A i \in 1 .. n : i \in 1 .. f.hdr.nbd)
  BY XdfAssumption DEF FileEntry, Header, PageNos
<1>2. PICK c \in [1 .. f.hdr.nbd -> 1 .. f.hdr.fsiz] :
         /\ IsDir(d, c, f.hdr.nbd)
         /\ \A i \in 1 .. f.npages : f.page[i].addr = c[i]
         /\ f.next = c[n]
  BY DEF OpeningDir
<1>3. \A i \in 1 .. n : g.page[i] = IF i = n THEN m ELSE f.page[i] BY <1>1 DEF FileEntry
<1>4. ASSUME NEW i \in 1 .. n
      PROVE  /\ g.page[i].addr = c[i] /\ d[c[i]] = Image(g.page[i])
             /\ c[i] \in Addr /\ c[i] <= f.hdr.fsiz /\ d[c[i]].kind = "page"
  <2>1. c[i] \in Addr /\ d[c[i]].kind = "page" BY <1>1, <1>2 DEF IsDir
  <2>2. c[i] \in 1 .. f.hdr.fsiz BY <1>1, <1>2
  <2>3. CASE i = n BY <1>1, <1>2, <1>3, <2>1, <2>2, <2>3
  <2>4. CASE i # n
    <3>1. i \in 1 .. f.npages BY <1>1, <2>4
    <3>2. f.page[i].addr = c[i] /\ d[c[i]] = Image(f.page[i]) BY <1>2, <3>1 DEF AllImages
    <3> QED BY <1>1, <1>3, <2>1, <2>2, <2>4, <3>2
  <2> QED BY <2>3, <2>4
<1>5. ASSUME NEW i \in 1 .. n PROVE d[c[i]].nxt = g.page[i].nxt
  <2>1. d[c[i]] = Image(g.page[i]) BY <1>4
  <2>2. Image(g.page[i]).nxt = g.page[i].nxt BY DEF Image
  <2> QED BY <2>1, <2>2
<1>6. Pages(d, g)
  <2>1. \A i, j \in 1 .. n : g.page[i].addr = g.page[j].addr => i = j
    <3> SUFFICES ASSUME NEW i \in 1 .. n, NEW j \in 1 .. n, c[i] = c[j] PROVE i = j BY <1>4
    <3>1. i \in 1 .. f.hdr.nbd /\ j \in 1 .. f.hdr.nbd BY <1>1
    <3> QED BY <1>2, <3>1 DEF IsDir
  <2>2. g.page[1].addr = 1
    <3>1. 1 \in 1 .. n /\ f.hdr.nbd >= 1 BY <1>1
    <3> QED BY <1>2, <1>4, <3>1 DEF IsDir
  <2>3. ASSUME NEW i \in 1 .. n - 1 PROVE g.page[i].nxt = g.page[i + 1].addr
    <3>1. i \in 1 .. n /\ i + 1 \in 1 .. n /\ i \in 1 .. f.hdr.nbd - 1 BY <1>1
    <3>2. d[c[i]].nxt = c[i + 1] BY <1>2, <3>1 DEF IsDir
    <3> QED BY <1>4, <1>5, <3>1, <3>2
  <2> QED BY <1>4, <2>1, <2>2, <2>3 DEF Pages
<1>7. AllImages(d, g) BY <1>4 DEF AllImages
<1>8. n = f.hdr.nbd => g.next = 0 BY <1>1, <1>2 DEF IsDir
<1>9. n # f.hdr.nbd => g.next = c[n + 1] /\ n + 1 \in 1 .. f.hdr.nbd
  <2> SUFFICES ASSUME n # f.hdr.nbd PROVE g.next = c[n + 1] /\ n + 1 \in 1 .. f.hdr.nbd
    OBVIOUS
  <2>1. n \in 1 .. f.hdr.nbd - 1 /\ n + 1 \in 1 .. f.hdr.nbd BY <1>1
  <2> QED BY <1>2, <2>1 DEF IsDir
<1>10. g.next <= f.fsize
  <2>1. f.hdr.fsiz <= f.fsize BY DEF OpeningDir
  <2>2. CASE n = f.hdr.nbd BY <1>1, <1>8, <2>2
  <2>3. CASE n # f.hdr.nbd
    <3>1. g.next \in 1 .. f.hdr.fsiz BY <1>2, <1>9, <2>3
    <3> QED BY <1>1, <2>1, <3>1
  <2> QED BY <2>2, <2>3
<1>11. n = f.hdr.nbd => LastPageEnds(g)
  <2> SUFFICES ASSUME n = f.hdr.nbd PROVE g.page[n].nxt = 0 BY DEF LastPageEnds
  <2>1. g.page[n] = m BY <1>1, <1>3
  <2> QED BY <1>8, <2>1
<1>12. n # f.hdr.nbd => OpeningDir(d, g)
  <2> SUFFICES ASSUME n # f.hdr.nbd PROVE OpeningDir(d, g) OBVIOUS
  <2>1. ~g.modified /\ g.hdr.fsiz <= g.fsize BY DEF OpeningDir
  <2>2. \A i \in 1 .. n : g.page[i].addr = c[i] BY <1>4
  <2> QED BY <1>2, <1>9, <2>1, <2>2 DEF OpeningDir
<1> QED BY <1>6, <1>7, <1>10, <1>11, <1>12

LEMMA OpenPageGood ==
  ASSUME IInv, TypeInv', NEW p \in Procs, OpenPage(p)
  PROVE  IInv'
<1> DEFINE f == tab[p]
           n == f.npages + 1
           img == PageRead(f)
           m == [addr |-> IF IsPage(f.next) THEN f.next ELSE f.hdr.fsiz + 1,
                 nxt |-> img.nxt, nent |-> img.nent, ent |-> img.ent, modified |-> FALSE]
           st == IF img.nxt > f.fsize THEN "failed" ELSE IF n = f.hdr.nbd THEN "open" ELSE "opening"
           g == [f EXCEPT !.page[n] = m, !.npages = n, !.next = img.nxt, !.st = st]
<1>1. /\ f.st = "opening" /\ Sets(p, g)
      /\ disk' = disk /\ header' = header /\ size' = size
  BY DEF OpenPage, Sets
<1>2. /\ f \in FileEntry /\ Counted(f) /\ PInv(disk, header, size, f)
      /\ disk \in [Addr -> Word] /\ header \in Header /\ header.fsiz \in Nat /\ size \in Nat
      /\ header.fsiz <= size /\ DiskGood(disk, header.fsiz) /\ CleanDir(disk, header)
      /\ Active(f) => OnlyWriter(p)
  BY Facts
<1>3. g \in FileEntry
  <2>1. tab' \in [Procs -> FileEntry] BY DEF TypeInv, TypeOK
  <2>2. tab \in [Procs -> FileEntry] BY DEF IInv, TypeInv, TypeOK
  <2>3. tab'[p] = g BY <1>1, <2>2 DEF Sets
  <2> QED BY <2>1, <2>3
<1>4. /\ f.npages \in Nat /\ n \in PageNos /\ f.npages < f.hdr.nbd /\ n >= 1
      /\ (\A i \in 1 .. n : i \in PageNos)
  <2>1. f.npages < f.hdr.nbd BY <1>1, <1>2 DEF Counted
  <2>2. f.npages \in 0 .. MaxDirPages /\ f.hdr.nbd \in 0 .. MaxDirPages /\ MaxDirPages \in Nat
    BY <1>2, FileTypes
  <2> QED BY <2>1, <2>2 DEF PageNos
<1>5. /\ g.page = [f.page EXCEPT ![n] = m] /\ g.npages = n /\ g.hdr = f.hdr
      /\ g.read_only = f.read_only /\ g.modified = f.modified /\ g.fsize = f.fsize
      /\ g.next = img.nxt /\ g.st = st
  BY <1>2 DEF FileEntry
<1>6. /\ m.addr = IF IsPage(f.next) THEN f.next ELSE f.hdr.fsiz + 1
      /\ m.nxt = img.nxt /\ m.nent = img.nent /\ m.ent = img.ent
  OBVIOUS
<1>7. st \in {"failed", "open", "opening"} OBVIOUS
<1>8. Image(m) = [kind |-> "page", nxt |-> img.nxt, nent |-> img.nent, ent |-> img.ent]
  BY DEF Image
<1> HIDE DEF g, m, st
<1>9. Writable(g) <=> Writable(f) BY <1>5 DEF Writable
<1>10. ASSUME NEW L, HeldGood(disk, f, L), DiskGood(disk, L) PROVE HeldGood(disk, g, L)
  <2> SUFFICES ASSUME NEW i \in 1 .. n, NEW s \in 1 .. g.page[i].nent
               PROVE  Good(disk, g.page[i].ent[s], L)
    BY <1>5 DEF HeldGood
  <2>1. g.page[i] = IF i = n THEN m ELSE f.page[i] BY <1>2, <1>4, <1>5 DEF FileEntry
  <2>2. CASE i # n
    <3>1. i \in 1 .. f.npages BY <1>4, <2>2
    <3> QED BY <1>10, <2>1, <2>2, <3>1 DEF HeldGood
  <2>3. CASE i = n
    <3>1. s \in 1 .. img.nent /\ g.page[i].ent = img.ent BY <1>6, <2>1, <2>3
    <3>2. CASE IsPage(f.next) BY <1>10, <3>1, <3>2 DEF DiskGood, PageRead, IsPage
    <3>3. CASE ~IsPage(f.next) BY <3>1, <3>3 DEF PageRead, EmptyPage
    <3> QED BY <3>2, <3>3
  <2> QED BY <2>2, <2>3
<1>11. CASE ~Writable(f)
  <2>1. ~Active(g) /\ ~Active(f) BY <1>9, <1>11 DEF Active
  <2>2. HeldGood(disk, f, header.fsiz) BY <1>2, <2>1 DEF PInv, Bound
  <2>3. HeldGood(disk, g, header.fsiz) BY <1>2, <1>10, <2>2
  <2>4. PInv(disk, header, size, g) BY <1>5, <1>7, <2>1, <2>3 DEF PInv, Bound
  <2> QED BY <1>1, <2>1, <2>4, ReaderStep
<1>12. CASE Writable(f)
  <2>1. Active(f) BY <1>1, <1>12 DEF Active
  <2>2. WriterOK(disk, header, size, f) /\ HeldGood(disk, f, f.hdr.fsiz)
    BY <1>2, <2>1 DEF PInv, Bound
  <2>3. /\ OpeningDir(disk, f) /\ Pages(disk, f) /\ AllImages(disk, f)
        /\ header.fsiz <= f.hdr.fsiz /\ f.hdr.fsiz <= size
    BY <1>1, <2>2 DEF WriterOK, OpeningDir
  <2>4. IsPage(f.next)
    <3>1. n \in 1 .. f.hdr.nbd BY <1>2, <1>4 DEF FileEntry, Header
    <3> QED BY <2>3, <3>1 DEF OpeningDir, IsDir, IsPage
  <2>5. disk[f.next] = img BY <2>4 DEF PageRead
  <2>6. Image(m) = img
    <3>1. img \in PageImage BY <1>2, <2>4, <2>5, PageWords DEF IsPage
    <3> QED BY <1>8, <3>1 DEF PageImage
  <2>7. m.addr = f.next /\ m.nxt = g.next /\ Image(m) = disk[f.next] /\ disk[f.next].nxt = g.next
    BY <1>5, <1>6, <2>4, <2>5, <2>6
  <2>8. /\ Pages(disk, g) /\ AllImages(disk, g) /\ g.next <= f.fsize
        /\ n = f.hdr.nbd => LastPageEnds(g)
        /\ n # f.hdr.nbd => OpeningDir(disk, g)
    BY <1>2, <1>3, <1>4, <1>5, <2>3, <2>7, OpenPageWriter
  <2>9. st = IF n = f.hdr.nbd THEN "open" ELSE "opening"
    <3>1. g.next \in Int /\ f.fsize \in Int BY <1>2, <1>3, XdfAssumption DEF FileEntry
    <3>2. ~(img.nxt > f.fsize) BY <1>5, <2>8, <3>1
    <3> QED BY <3>2 DEF st
  <2>10. WriterOK(disk, header, size, g)
    BY <1>5, <2>3, <2>8, <2>9 DEF WriterOK
  <2>11. DiskGood(disk, f.hdr.fsiz) 
    <3>1. f.hdr.fsiz \in Int BY <1>2, FileTypes
    <3> QED BY <1>2, <2>3, <3>1, NothingWritten, DiskKept
  <2>12. HeldGood(disk, g, g.hdr.fsiz)
    <3>1. HeldGood(disk, g, f.hdr.fsiz) BY <1>10, <2>2, <2>11
    <3> QED BY <1>5, <3>1
  <2>13. PInv(disk, header, size, g)
    <3>1. g.st # "closed" /\ Writable(g) BY <1>5, <1>7, <1>9, <1>12
    <3> QED BY <2>10, <2>12, <3>1, WriterInv
  <2>14. KeptRecs(disk, disk', header.fsiz) BY <1>1, NothingWritten
  <2> QED BY <1>1, <1>2, <2>1, <2>13, <2>14, WriterStep
<1> QED BY <1>11, <1>12

(***************************************************************************)
(* A write that only changes the marks of erased records.                  *)
(***************************************************************************)
OnlyMarks(d, e) ==
  \A a \in Addr :
    \/ e[a] = d[a]
    \/ /\ d[a].kind = "rec" /\ e[a].kind = "rec"
       /\ e[a].key = d[a].key /\ e[a].lng = d[a].lng /\ e[a].off = d[a].off

LEMMA MarksKeep ==
  ASSUME NEW d \in [Addr -> Word], NEW e, OnlyMarks(d, e)
  PROVE  /\ \A L : KeptRecs(d, e, L) /\ KeptPages(d, e, L)
         /\ \A L \in Int : DiskGood(d, L) => DiskGood(e, L)
         /\ \A f \in FileEntry : \A L \in Int : HeldGood(d, f, L) => HeldGood(e, f, L)
         /\ \A f : Pages(d, f) => Pages(e, f)
<1>1. "rec" # "page" OBVIOUS
<1>2. ASSUME NEW L PROVE KeptRecs(d, e, L) BY DEF KeptRecs, OnlyMarks
<1>3. \A a \in Addr : d[a].kind = "page" \/ e[a].kind = "page" => e[a] = d[a]
  BY <1>1 DEF OnlyMarks
<1>4. ASSUME NEW L PROVE KeptPages(d, e, L) BY <1>3 DEF KeptPages
<1>5. ASSUME NEW L \in Int, DiskGood(d, L) PROVE DiskGood(e, L)
  <2>1. KeptRecs(d, e, L) /\ L <= L BY <1>2
  <2>2. \A a \in Addr : e[a].kind = "page" => e[a] = d[a] BY <1>3
  <2> QED BY <1>5, <2>1, <2>2, DiskKept
<1>6. ASSUME NEW f \in FileEntry, NEW L \in Int, HeldGood(d, f, L) PROVE HeldGood(e, f, L)
  <2>1. KeptRecs(d, e, L) /\ L <= L BY <1>2
  <2> QED BY <1>6, <2>1, HeldKept
<1>7. ASSUME NEW f, Pages(d, f) PROVE Pages(e, f)
  <2>1. \A n \in 1 .. f.npages : e[f.page[n].addr] = d[f.page[n].addr]
    BY <1>3, <1>7 DEF Pages
  <2> QED BY <1>7, <2>1 DEF Pages
<1> QED BY <1>2, <1>4, <1>5, <1>6, <1>7

LEMMA NoMarks == \A d : OnlyMarks(d, d)
BY DEF OnlyMarks

(***************************************************************************)
(* A step that keeps every page as SamePage says, and writes marks only:   *)
(* the erasures and flags of an application that writes, and records       *)
(* written again where they are.                                           *)
(***************************************************************************)
LEMMA MemoryStep ==
  ASSUME IInv, TypeInv', NEW p \in Procs, NEW f \in FileEntry, f = tab[p],
         NEW g \in FileEntry, Sets(p, g), UNCHANGED <<header, size>>, OnlyMarks(disk, disk'),
         f.st # "closed", Writable(f), NEW n \in PageNos, NEW m,
         g.page = [f.page EXCEPT ![n] = m], SamePage(f.page[n], m),
         g.npages = f.npages, g.hdr.fsiz = f.hdr.fsiz, g.hdr.nbd = f.hdr.nbd,
         g.hdr.rwflg = f.hdr.rwflg, g.read_only = f.read_only,
         ~g.modified => AllImages(disk', g),
         \/ f.st = "open" /\ g.st = "open"
         \/ f.st = "closing" /\ g.st = "marked"
  PROVE  IInv'
<1>1. /\ PInv(disk, header, size, f) /\ OnlyWriter(p) /\ disk \in [Addr -> Word]
      /\ header.fsiz \in Nat /\ header.fsiz <= size /\ header \in Header
      /\ DiskGood(disk, header.fsiz) /\ CleanDir(disk, header)
  BY Facts DEF Active
<1>2. WriterOK(disk, header, size, f) /\ HeldGood(disk, f, f.hdr.fsiz) /\ f.hdr.fsiz \in Int
  BY <1>1, WriterInv, FileTypes
<1>3. Pages(disk, f) /\ LastPageEnds(f) BY <1>2 DEF WriterOK
<1>4. /\ KeptRecs(disk, disk', header.fsiz) /\ KeptPages(disk, disk', header.fsiz)
      /\ DiskGood(disk', header.fsiz)
      /\ HeldGood(disk', f, f.hdr.fsiz) /\ Pages(disk', f)
  BY <1>1, <1>2, <1>3, MarksKeep
<1>5. Pages(disk', g) /\ HeldGood(disk', g, f.hdr.fsiz) /\ LastPageEnds(g)
  BY <1>3, <1>4, OnePage
<1>6. CleanDir(disk', header) BY <1>1, <1>4, CleanDirKept
<1>7. WriterOK(disk', header, size, g) BY <1>2, <1>5 DEF WriterOK
<1>8. HeldGood(disk', g, g.hdr.fsiz) BY <1>5
<1>9. g.st # "closed" /\ Writable(g) BY DEF Writable
<1>10. PInv(disk', header, size, g) BY <1>7, <1>8, <1>9, WriterInv
<1>11. header.fsiz <= header.fsiz BY <1>1
<1> QED BY <1>1, <1>4, <1>6, <1>10, <1>11, WriterStep

LEMMA NextEntry ==
  ASSUME IInv, TypeInv', NEW p \in Procs, NEW g, Sets(p, g)
  PROVE  g \in FileEntry
<1>1. tab' \in [Procs -> FileEntry] BY DEF TypeInv, TypeOK
<1>2. tab \in [Procs -> FileEntry] BY DEF IInv, TypeInv, TypeOK
<1>3. tab'[p] = g BY <1>2 DEF Sets
<1> QED BY <1>1, <1>3

LEMMA XdfDelGood ==
  ASSUME IInv, TypeInv', NEW p \in Procs, NEW h \in LiveHandles(tab[p]), XdfDel(p, h)
  PROVE  IInv'
<1> DEFINE f == tab[p]
           g == Erase(f, h)
<1>1. /\ f.st = "open" /\ Writable(f) /\ Sets(p, g) /\ UNCHANGED <<disk, header, size>>
  BY DEF XdfDel, Sets, Writable
<1>2. f \in FileEntry BY Facts
<1>3. h \in PageNos \X Slots BY <1>2, HandleTypes
<1>4. f.page[h[1]] \in MemPage /\ h[1] \in PageNos /\ h[2] \in Slots BY <1>2, <1>3, FileTypes
<1>5. SamePage(f.page[h[1]], EraseEntry(f.page[h[1]], h[2])) BY <1>4, SamePageOps
<1>6. /\ g \in FileEntry
      /\ g.hdr.nbd = f.hdr.nbd /\ g.hdr.fsiz = f.hdr.fsiz /\ g.hdr.rwflg = f.hdr.rwflg
      /\ g.npages = f.npages /\ g.st = f.st /\ g.read_only = f.read_only /\ g.modified = TRUE
      /\ g.page = [f.page EXCEPT ![h[1]] = EraseEntry(f.page[h[1]], h[2])]
  BY <1>2, <1>3, EraseFields
<1>7. OnlyMarks(disk, disk') BY <1>1, NoMarks
<1> HIDE DEF g
<1> QED BY <1>1, <1>2, <1>4, <1>5, <1>6, <1>7, MemoryStep

LEMMA PutDirFullGood ==
  ASSUME IInv, TypeInv', NEW p \in Procs, PutDirFull(p)
  PROVE  IInv'
<1> DEFINE f == tab[p]
           n == f.npages
           m == Flagged(f.page[n], TRUE)
           pg == [f.page EXCEPT ![n] = m]
           g == [f EXCEPT !.page = pg]
<1>1. /\ f.st = "open" /\ Writable(f) /\ f.npages >= MaxDirPages
      /\ Sets(p, g) /\ UNCHANGED <<disk, header, size>>
  BY DEF PutDirFull, Sets
<1>2. f \in FileEntry /\ Counted(f) /\ PInv(disk, header, size, f) BY Facts
<1>3. n \in PageNos
  <2>1. n \in 0 .. MaxDirPages /\ MaxDirPages \in Nat /\ n >= 1
    BY <1>1, <1>2, FileTypes DEF Counted
  <2> QED BY <2>1 DEF PageNos
<1>4. f.page[n] \in MemPage /\ f.page \in [PageNos -> MemPage] BY <1>2, <1>3 DEF FileEntry
<1>5. SamePage(f.page[n], m) BY <1>4, SamePageOps
<1>6. g \in FileEntry BY <1>1, NextEntry
<1>7. Image(m) = Image(f.page[n]) /\ m.addr = f.page[n].addr
  BY <1>4 DEF Image, Flagged, MemPage
<1>8. \A i \in PageNos : pg[i] = IF i = n THEN m ELSE f.page[i] BY <1>4
<1> HIDE DEF m
<1>9. pg = [f.page EXCEPT ![n] = m] OBVIOUS
<1> HIDE DEF pg
<1>10. /\ g.page = pg /\ g.npages = f.npages /\ g.hdr = f.hdr /\ g.read_only = f.read_only
       /\ g.modified = f.modified /\ g.st = f.st
  BY <1>2 DEF FileEntry
<1> HIDE DEF g
<1>11. ~g.modified => AllImages(disk', g)
  <2> SUFFICES ASSUME ~f.modified PROVE AllImages(disk, g) BY <1>1, <1>10
  <2>1. AllImages(disk, f)
    <3>1. WriterOK(disk, header, size, f) BY <1>1, <1>2, WriterInv
    <3> QED BY <3>1 DEF WriterOK
  <2>2. \A i \in 1 .. f.npages : i \in PageNos BY <1>2, FileTypes
  <2>3. \A i \in 1 .. f.npages : g.page[i] = IF i = n THEN m ELSE f.page[i]
    BY <1>8, <1>10, <2>2
  <2> QED BY <1>7, <1>10, <2>1, <2>3 DEF AllImages
<1>12. OnlyMarks(disk, disk') BY <1>1, NoMarks
<1>13. g.page = [f.page EXCEPT ![n] = m] BY <1>9, <1>10
<1> QED BY <1>1, <1>2, <1>3, <1>5, <1>6, <1>10, <1>11, <1>12, <1>13, MemoryStep

(***************************************************************************)
(* Closing without writing, or stopping.                                   *)
(***************************************************************************)
LEMMA CloseReaderGood ==
  ASSUME IInv, TypeInv', NEW p \in Procs, CloseReader(p) \/ Crash(p)
  PROVE  IInv'
<1>1. Sets(p, Closed) /\ UNCHANGED <<disk, header, size>>
  BY DEF CloseReader, Crash, Sets
<1>2. PInv(disk, header, size, Closed) /\ ~Active(Closed) BY ClosedGood
<1> QED BY <1>1, <1>2, ReaderStep

LEMMA CloseHeaderGood ==
  ASSUME IInv, TypeInv', NEW p \in Procs, NEW checkpoint \in BOOLEAN, CloseHeader(p, checkpoint)
  PROVE  IInv'
<1> DEFINE f == tab[p]
           g == [f EXCEPT !.st = "closing", !.xdf_checkpoint = checkpoint]
<1>1. /\ f.st \in {"open", "failed"} /\ Writable(f)
      /\ header' = f.hdr /\ Sets(p, g) /\ disk' = disk /\ size' = size
  BY DEF CloseHeader, Sets
<1>2. /\ f \in FileEntry /\ Counted(f) /\ PInv(disk, header, size, f)
      /\ header.fsiz \in Nat /\ OnlyWriter(p)
      /\ disk \in [Addr -> Word] /\ DiskGood(disk, header.fsiz)
  BY <1>1, Facts DEF Active
<1>3. WriterOK(disk, header, size, f) /\ HeldGood(disk, f, f.hdr.fsiz) BY <1>1, <1>2, WriterInv
<1>4. /\ g.page = f.page /\ g.npages = f.npages /\ g.hdr = f.hdr /\ g.read_only = f.read_only
      /\ g.modified = f.modified /\ g.st = "closing"
  BY <1>2 DEF FileEntry
<1> HIDE DEF g
<1>5. f.npages = f.hdr.nbd
  <2>1. f.npages \in Nat /\ f.hdr.nbd \in Nat /\ f.npages <= f.hdr.nbd BY <1>2, FileTypes DEF Counted
  <2>2. CASE f.st = "failed" BY <1>3, <2>1, <2>2 DEF WriterOK
  <2>3. CASE f.st = "open" BY <1>2, <2>3 DEF Counted
  <2> QED BY <1>1, <2>2, <2>3
<1>6. f.hdr.rwflg # RDMODE BY <1>1 DEF Writable
<1>7. f.hdr.fsiz \in Nat /\ f.hdr.fsiz <= f.hdr.fsiz BY <1>2, FileTypes
<1>8. header.fsiz <= f.hdr.fsiz /\ f.hdr.fsiz <= size BY <1>3 DEF WriterOK
<1>9. Pages(disk, g) /\ LastPageEnds(g) /\ (~g.modified => AllImages(disk, g))
  BY <1>1, <1>3, <1>4 DEF WriterOK, Pages, LastPageEnds, AllImages
<1>10. WriterOK(disk, f.hdr, size, g)
  BY <1>4, <1>5, <1>6, <1>7, <1>8, <1>9 DEF WriterOK
<1>11. HeldGood(disk, g, g.hdr.fsiz) BY <1>3, <1>4 DEF HeldGood
<1>12. g.st # "closed" /\ Writable(g) BY <1>1, <1>4 DEF Writable
<1>13. PInv(disk, f.hdr, size, g) BY <1>10, <1>11, <1>12, WriterInv
<1>14. KeptRecs(disk, disk, header.fsiz) BY NothingWritten
<1>15. DiskGood(disk, f.hdr.fsiz) BY <1>2, <1>7, <1>8, <1>14, DiskKept
<1>16. CleanDir(disk, f.hdr) BY <1>6 DEF CleanDir
<1>17. /\ KeptRecs(disk, disk', header.fsiz) /\ DiskGood(disk', header'.fsiz)
       /\ CleanDir(disk', header') /\ PInv(disk', header', size', g)
       /\ header.fsiz <= header'.fsiz /\ header'.fsiz <= size'
  BY <1>1, <1>8, <1>13, <1>14, <1>15, <1>16
<1> QED BY <1>1, <1>2, <1>17, WriterStep

LEMMA MarksWritten ==
  ASSUME IInv, NEW p \in Procs, NEW i \in PageNos, CloseMarks(p, i)
  PROVE  OnlyMarks(disk, disk')
<1> SUFFICES ASSUME NEW a \in Addr, disk[a].kind = "rec", disk'[a] = [disk[a] EXCEPT !.mark = TRUE]
             PROVE  /\ disk'[a].kind = "rec" /\ disk'[a].key = disk[a].key
                    /\ disk'[a].lng = disk[a].lng /\ disk'[a].off = disk[a].off
  BY DEF CloseMarks, OnlyMarks
<1>1. disk \in [Addr -> Word] BY Facts
<1>2. disk[a] \in RecWord BY <1>1 DEF Word, Blank, PageImage
<1> QED BY <1>2 DEF RecWord

LEMMA CloseMarksGood ==
  ASSUME IInv, TypeInv', NEW p \in Procs, NEW i \in PageNos, CloseMarks(p, i)
  PROVE  IInv'
<1> DEFINE f == tab[p]
           m == Deaden(f.page[i])
           pg == [f.page EXCEPT ![i] = m]
           g == [f EXCEPT !.st = "marked", !.page = pg]
<1>1. /\ f.st = "closing" /\ i \in PagesToWrite(f) /\ Sets(p, g) /\ header' = header /\ size' = size
  BY DEF CloseMarks, NextToWrite, Sets
<1>2. f \in FileEntry /\ Counted(f) /\ PInv(disk, header, size, f)
  BY Facts
<1>3. f.modified /\ f.page[i].modified BY <1>1 DEF PagesToWrite
<1>4. Writable(f) BY <1>1, <1>2 DEF PInv
<1>5. f.page[i] \in MemPage BY <1>2 DEF FileEntry
<1>6. SamePage(f.page[i], m) BY <1>3, <1>5, SamePageOps
<1>7. OnlyMarks(disk, disk') BY MarksWritten
<1>8. g \in FileEntry BY <1>1, NextEntry
<1> HIDE DEF m
<1>9. pg = [f.page EXCEPT ![i] = m] OBVIOUS
<1> HIDE DEF pg
<1>10. /\ g.page = pg /\ g.npages = f.npages /\ g.hdr = f.hdr /\ g.read_only = f.read_only
       /\ g.modified = f.modified /\ g.st = "marked"
  BY <1>2 DEF FileEntry
<1> HIDE DEF g
<1>11. g.page = [f.page EXCEPT ![i] = m] BY <1>9, <1>10
<1> QED BY <1>1, <1>2, <1>3, <1>4, <1>6, <1>7, <1>8, <1>10, <1>11, MemoryStep

LEMMA ClosePageGood ==
  ASSUME IInv, TypeInv', NEW p \in Procs, NEW i \in PageNos, ClosePage(p, i)
  PROVE  IInv'
<1> DEFINE f == tab[p]
           b == f.page[i].addr
           m == Flagged(f.page[i], FALSE)
           pg == [f.page EXCEPT ![i] = m]
           g == [f EXCEPT !.st = "closing", !.page = pg]
<1>1. /\ f.st = "marked" /\ i \in PagesToWrite(f) /\ Sets(p, g) /\ header' = header
      /\ disk' = [disk EXCEPT ![b] = Image(f.page[i])] /\ size' = LastWord(b, 1)
  BY DEF ClosePage, NextToWrite, Sets
<1>2. /\ f \in FileEntry /\ Counted(f) /\ PInv(disk, header, size, f) /\ disk \in [Addr -> Word]
      /\ header \in Header /\ header.fsiz \in Nat /\ size \in Nat /\ header.fsiz <= size
      /\ DiskGood(disk, header.fsiz)
  BY Facts
<1>3. Writable(f) /\ OnlyWriter(p) BY <1>1, <1>2, Facts DEF PInv, Active
<1>4. WriterOK(disk, header, size, f) /\ HeldGood(disk, f, f.hdr.fsiz)
  BY <1>1, <1>2, <1>3, WriterInv
<1>5. /\ header.fsiz = f.hdr.fsiz /\ header.rwflg # RDMODE /\ f.npages = f.hdr.nbd
      /\ Pages(disk, f) /\ LastPageEnds(f) /\ f.hdr.fsiz <= size
  BY <1>1, <1>4 DEF WriterOK
<1>6. f.modified /\ i \in 1 .. f.npages BY <1>1, <1>5 DEF PagesToWrite
<1>7. b \in Addr /\ b <= f.hdr.fsiz /\ disk[b].kind = "page" BY <1>5, <1>6 DEF Pages
<1>8. f.page[i] \in MemPage /\ (\A j \in 1 .. f.npages : j \in PageNos) BY <1>2, FileTypes
<1>9. \A a \in Addr : disk'[a] = IF a = b THEN Image(f.page[i]) ELSE disk[a] BY <1>1, <1>2
<1>10. KeptRecs(disk, disk', header.fsiz) BY <1>7, <1>9 DEF KeptRecs
<1>11. size' = size
  <2>1. b \in Int /\ f.hdr.fsiz \in Int /\ b <= size BY <1>2, <1>5, <1>7, FileTypes DEF Addr
  <2> QED BY <1>1, <1>2, <2>1 DEF LastWord
<1>12. HeldGood(disk', f, header.fsiz)
  <2>1. header.fsiz <= header.fsiz /\ header.fsiz \in Int BY <1>2
  <2> QED BY <1>2, <1>4, <1>5, <1>10, <2>1, HeldKept
<1>13. DiskGood(disk', header.fsiz)
  <2>1. \A s \in 1 .. f.page[i].nent : Good(disk', f.page[i].ent[s], header.fsiz)
    BY <1>6, <1>12 DEF HeldGood
  <2>2. Image(f.page[i]).nent = f.page[i].nent /\ Image(f.page[i]).ent = f.page[i].ent
    BY DEF Image
  <2>3. \A a \in Addr : disk'[a] = disk[a] \/ \A s \in 1 .. disk'[a].nent : Good(disk', disk'[a].ent[s], header.fsiz)
    BY <1>9, <2>1, <2>2
  <2>4. header.fsiz \in Int /\ header.fsiz <= header.fsiz BY <1>2
  <2> QED BY <1>2, <1>10, <2>3, <2>4, DiskKept
<1>14. g \in FileEntry BY <1>1, NextEntry
<1>15. /\ m.addr = b /\ m.nxt = f.page[i].nxt /\ m.nent = f.page[i].nent /\ m.ent = f.page[i].ent
       /\ Image(m) = Image(f.page[i])
  BY <1>8 DEF Flagged, MemPage, Image
<1>16. \A j \in PageNos : pg[j] = IF j = i THEN m ELSE f.page[j]
  BY <1>2 DEF FileEntry
<1> HIDE DEF m, pg
<1>17. /\ g.page = pg /\ g.npages = f.npages /\ g.hdr = f.hdr /\ g.read_only = f.read_only
       /\ g.modified = f.modified /\ g.st = "closing"
  BY <1>2 DEF FileEntry
<1> HIDE DEF g
<1>18. \A j \in 1 .. f.npages : g.page[j] = IF j = i THEN m ELSE f.page[j]
  BY <1>8, <1>16, <1>17
<1>19. \A j \in 1 .. f.npages :
         /\ g.page[j].addr = f.page[j].addr /\ g.page[j].nxt = f.page[j].nxt
         /\ g.page[j].nent = f.page[j].nent /\ g.page[j].ent = f.page[j].ent
  BY <1>15, <1>18
<1>20. Image(f.page[i]).kind = "page" BY DEF Image
<1>21. \A j \in 1 .. f.npages :
         /\ disk'[g.page[j].addr].kind = "page"
         /\ ~g.page[j].modified => disk'[g.page[j].addr] = Image(g.page[j])
  <2> SUFFICES ASSUME NEW j \in 1 .. f.npages
               PROVE  /\ disk'[g.page[j].addr].kind = "page"
                      /\ ~g.page[j].modified => disk'[g.page[j].addr] = Image(g.page[j])
    OBVIOUS
  <2>1. CASE j = i BY <1>7, <1>9, <1>15, <1>18, <1>20, <2>1
  <2>2. CASE j # i
    <3>1. f.page[j].addr # b BY <1>5, <1>6, <2>2 DEF Pages
    <3>2. /\ f.page[j].addr \in Addr /\ disk[f.page[j].addr].kind = "page"
          /\ ~f.page[j].modified => disk[f.page[j].addr] = Image(f.page[j])
      BY <1>5 DEF Pages
    <3>3. g.page[j] = f.page[j] BY <1>18, <2>2
    <3>4. disk'[f.page[j].addr] = disk[f.page[j].addr] BY <1>9, <3>1, <3>2
    <3> QED BY <3>2, <3>3, <3>4
  <2> QED BY <2>1, <2>2
<1>22. Pages(disk', g)
  <2>1. f.npages \in Nat BY <1>2, FileTypes
  <2>2. \A j \in 1 .. f.npages : f.page[j].addr \in Addr /\ f.page[j].addr <= f.hdr.fsiz
    BY <1>5 DEF Pages
  <2>3. \A j \in 1 .. f.npages - 1 : g.page[j].nxt = g.page[j + 1].addr
    BY <1>5, <1>19, <2>1 DEF Pages
  <2>4. \A j, k \in 1 .. f.npages : g.page[j].addr = g.page[k].addr => j = k
    BY <1>5, <1>19 DEF Pages
  <2>5. f.npages >= 1 => g.page[1].addr = 1 BY <1>5, <1>19, <2>1 DEF Pages
  <2> QED BY <1>17, <1>19, <1>21, <2>2, <2>3, <2>4, <2>5 DEF Pages
<1>23. LastPageEnds(g)
  <2>1. f.npages \in Nat BY <1>2, FileTypes
  <2> QED BY <1>5, <1>17, <1>19, <2>1 DEF LastPageEnds
<1>24. HeldGood(disk', g, header.fsiz) BY <1>12, <1>17, <1>19 DEF HeldGood
<1>25. WriterOK(disk', header, size, g)
  <2>1. header.fsiz <= header.fsiz BY <1>2
  <2> QED BY <1>5, <1>6, <1>17, <1>22, <1>23, <2>1 DEF WriterOK
<1>26. PInv(disk', header, size, g)
  <2>1. g.st # "closed" /\ Writable(g) /\ g.hdr.fsiz = header.fsiz BY <1>3, <1>5, <1>17 DEF Writable
  <2> QED BY <1>24, <1>25, <2>1, WriterInv
<1>27. CleanDir(disk', header) BY <1>5 DEF CleanDir
<1>28. header.fsiz <= header.fsiz BY <1>2
<1> QED BY <1>1, <1>2, <1>3, <1>10, <1>11, <1>13, <1>26, <1>27, <1>28, WriterStep

(***************************************************************************)
(* When no page is left to write, the disk holds them all.                 *)
(***************************************************************************)
LEMMA AllWritten ==
  ASSUME NEW f \in FileEntry, NEW d, NEW H, NEW z, WriterOK(d, H, z, f), f.st = "closing",
         PagesToWrite(f) = {}
  PROVE  AllImages(d, f)
<1>1. f.npages = f.hdr.nbd /\ Pages(d, f) /\ (~f.modified => AllImages(d, f)) BY DEF WriterOK
<1>2. CASE ~f.modified BY <1>1, <1>2
<1>3. CASE f.modified
  <2>1. \A i \in 1 .. f.npages : ~f.page[i].modified BY <1>1, <1>3 DEF PagesToWrite
  <2> QED BY <1>1, <2>1 DEF Pages, AllImages
<1> QED BY <1>2, <1>3

LEMMA CheckpointedGood ==
  ASSUME IInv, TypeInv', NEW p \in Procs, Checkpointed(p)
  PROVE  IInv'
<1> DEFINE f == tab[p]
           g == [f EXCEPT !.st = "open", !.modified = FALSE, !.xdf_checkpoint = FALSE]
<1>1. /\ f.st = "closing" /\ PagesToWrite(f) = {} /\ Sets(p, g)
      /\ header' = header /\ size' = size /\ disk' = disk
  BY DEF Checkpointed, Sets
<1>2. /\ f \in FileEntry /\ PInv(disk, header, size, f)
      /\ header.fsiz \in Nat /\ header.fsiz <= size
      /\ DiskGood(disk, header.fsiz) /\ CleanDir(disk, header)
  BY Facts
<1>3. Writable(f) /\ OnlyWriter(p) BY <1>1, <1>2, Facts DEF PInv, Active
<1>4. WriterOK(disk, header, size, f) /\ HeldGood(disk, f, f.hdr.fsiz)
  BY <1>1, <1>2, <1>3, WriterInv
<1>5. AllImages(disk, f) BY <1>1, <1>2, <1>4, AllWritten
<1>6. /\ g.page = f.page /\ g.npages = f.npages /\ g.hdr = f.hdr /\ g.read_only = f.read_only
      /\ g.st = "open"
  BY <1>2 DEF FileEntry
<1> HIDE DEF g
<1>7. Pages(disk, g) /\ LastPageEnds(g) /\ AllImages(disk, g) /\ HeldGood(disk, g, g.hdr.fsiz)
  BY <1>1, <1>4, <1>5, <1>6 DEF WriterOK, Pages, LastPageEnds, AllImages, HeldGood
<1>8. WriterOK(disk, header, size, g) BY <1>4, <1>6, <1>7 DEF WriterOK
<1>9. g.st # "closed" /\ Writable(g) BY <1>3, <1>6 DEF Writable
<1>10. PInv(disk, header, size, g) BY <1>7, <1>8, <1>9, WriterInv
<1>11. KeptRecs(disk, disk', header.fsiz) BY <1>1, NothingWritten
<1>12. header.fsiz <= header.fsiz BY <1>2
<1> QED BY <1>1, <1>2, <1>3, <1>10, <1>11, <1>12, WriterStep

LEMMA CloseSealGood ==
  ASSUME IInv, TypeInv', NEW p \in Procs, CloseSeal(p)
  PROVE  IInv'
<1> DEFINE f == tab[p]
           new == [f.hdr EXCEPT !.rwflg = RDMODE]
<1>1. /\ f.st = "closing" /\ PagesToWrite(f) = {} /\ Sets(p, Closed)
      /\ header' = new /\ size' = size /\ disk' = disk
  BY DEF CloseSeal, Sets
<1>2. /\ f \in FileEntry /\ PInv(disk, header, size, f)
      /\ header.fsiz \in Nat /\ header.fsiz <= size /\ DiskGood(disk, header.fsiz)
  BY Facts
<1>3. Writable(f) /\ OnlyWriter(p) BY <1>1, <1>2, Facts DEF PInv, Active
<1>4. WriterOK(disk, header, size, f) BY <1>1, <1>2, <1>3, WriterInv
<1>5. /\ header.fsiz = f.hdr.fsiz /\ f.npages = f.hdr.nbd /\ Pages(disk, f) /\ LastPageEnds(f)
  BY <1>1, <1>4 DEF WriterOK
<1>6. AllImages(disk, f) BY <1>1, <1>2, <1>4, AllWritten
<1>7. new.fsiz = f.hdr.fsiz /\ new.nbd = f.hdr.nbd BY <1>2, FileTypes DEF Header
<1> HIDE DEF new
<1>8. CleanDir(disk, new)
  <2> DEFINE c == [i \in 1 .. f.hdr.nbd |-> f.page[i].addr]
  <2>1. \A i \in 1 .. f.hdr.nbd :
          /\ c[i] = f.page[i].addr /\ c[i] \in Addr /\ c[i] <= f.hdr.fsiz
          /\ disk[c[i]] = Image(f.page[i]) /\ disk[c[i]].kind = "page"
    BY <1>5, <1>6 DEF Pages, AllImages
  <2>2. f.hdr.nbd \in Nat /\ f.hdr.fsiz \in Nat BY <1>2, FileTypes
  <2>3. ASSUME NEW i \in 1 .. f.hdr.nbd PROVE f.page[i].addr \in 1 .. f.hdr.fsiz
    <3>1. f.page[i].addr \in Addr /\ f.page[i].addr <= f.hdr.fsiz BY <1>5 DEF Pages
    <3> QED BY <2>2, <3>1, XdfAssumption DEF Addr
  <2>4. c \in [1 .. f.hdr.nbd -> 1 .. f.hdr.fsiz] BY <2>3
  <2> HIDE DEF c
  <2>5. ASSUME NEW i \in 1 .. f.hdr.nbd PROVE disk[c[i]].nxt = f.page[i].nxt
    <3>1. Image(f.page[i]).nxt = f.page[i].nxt BY DEF Image
    <3> QED BY <2>1, <3>1
  <2>6. \A i, j \in 1 .. f.hdr.nbd : c[i] = c[j] => i = j BY <1>5, <2>1 DEF Pages
  <2>7. f.hdr.nbd >= 1 => c[1] = 1 /\ disk[c[f.hdr.nbd]].nxt = 0
    <3> SUFFICES ASSUME f.hdr.nbd >= 1 PROVE c[1] = 1 /\ disk[c[f.hdr.nbd]].nxt = 0 OBVIOUS
    <3>1. 1 \in 1 .. f.hdr.nbd /\ f.hdr.nbd \in 1 .. f.hdr.nbd BY <2>2
    <3> QED BY <1>5, <2>1, <2>5, <3>1 DEF Pages, LastPageEnds
  <2>8. ASSUME NEW i \in 1 .. f.hdr.nbd - 1 PROVE disk[c[i]].nxt = c[i + 1]
    <3>1. i \in 1 .. f.hdr.nbd /\ i + 1 \in 1 .. f.hdr.nbd BY <2>2
    <3>2. f.page[i].nxt = f.page[i + 1].addr BY <1>5 DEF Pages
    <3> QED BY <2>1, <2>5, <3>1, <3>2
  <2>9. IsDir(disk, c, f.hdr.nbd) BY <2>1, <2>6, <2>7, <2>8 DEF IsDir
  <2> QED BY <1>7, <2>4, <2>9 DEF CleanDir
<1>9. PInv(disk, new, size, Closed) BY ClosedGood
<1>10. KeptRecs(disk, disk', header.fsiz) BY <1>1, NothingWritten
<1>11. /\ DiskGood(disk', header'.fsiz) /\ CleanDir(disk', header')
       /\ PInv(disk', header', size', Closed)
       /\ header.fsiz <= header'.fsiz /\ header'.fsiz <= size'
  BY <1>1, <1>2, <1>5, <1>7, <1>8, <1>9
<1> QED BY <1>1, <1>3, <1>10, <1>11, WriterStep

(***************************************************************************)
(* A record written in place has the keys of its entry: c_fstecr looks for *)
(* a record with the keys it writes.                                       *)
(***************************************************************************)
LEMMA InPlaceWritten ==
  ASSUME IInv, NEW p \in Procs, tab[p].st = "open", Writable(tab[p]),
         NEW h \in LiveHandles(tab[p]), NEW k \in Keys, NEW l \in Lengths,
         EntryAt(tab[p], h).lng = l, EntryAt(tab[p], h).key = k, PutInPlace(p, h, k, l)
  PROVE  size' = size /\ OnlyMarks(disk, disk')
<1> DEFINE f == tab[p]
           e == EntryAt(f, h)
<1>1. disk' = WithRecord(disk, e.addr, k, l) /\ size' = LastWord(e.addr, l)
  BY DEF PutInPlace
<1>2. f \in FileEntry /\ PInv(disk, header, size, f) /\ size \in Nat
  BY Facts
<1>3. WriterOK(disk, header, size, f) /\ HeldGood(disk, f, f.hdr.fsiz) BY <1>2, WriterInv
<1>4. h[1] \in PageNos /\ h[2] \in Slots /\ h[1] <= f.npages /\ h[2] <= f.page[h[1]].nent
  BY DEF LiveHandles
<1>5. f.page[h[1]] \in MemPage BY <1>2, <1>4 DEF FileEntry
<1>6. h[1] \in 1 .. f.npages /\ h[2] \in 1 .. f.page[h[1]].nent
  <2>1. f.npages \in Nat /\ f.page[h[1]].nent \in Nat BY <1>2, <1>5, FileTypes, PageTypes
  <2> QED BY <1>4, <2>1 DEF PageNos, Slots
<1>7. e \in Entry /\ Good(disk, e, f.hdr.fsiz)
  BY <1>3, <1>5, <1>6, PageTypes DEF EntryAt, HeldGood
<1>8. e.addr \in Nat /\ l \in Nat /\ l >= 1 /\ e.addr + l - 1 <= f.hdr.fsiz /\ f.hdr.fsiz \in Nat
      /\ f.hdr.fsiz <= size
  <2>1. e.addr \in 0 .. MaxAddr BY <1>7 DEF Entry
  <2>2. e.lng = l /\ e.addr + e.lng - 1 <= f.hdr.fsiz BY <1>7 DEF Good
  <2>3. l \in Nat /\ l >= 1 BY XdfAssumption
  <2>4. f.hdr.fsiz \in 0 .. MaxAddr BY <1>2, FileTypes
  <2>5. f.hdr.fsiz <= size BY <1>3 DEF WriterOK
  <2> HIDE DEF e, f
  <2> QED BY <2>1, <2>2, <2>3, <2>4, <2>5
<1>9. size' = size
  <2> HIDE DEF e, f
  <2>1. ~(e.addr + l - 1 > size) BY <1>2, <1>8
  <2> QED BY <1>1, <2>1 DEF LastWord
<1>10. OnlyMarks(disk, disk')
  <2> SUFFICES ASSUME NEW a \in Addr, a \in e.addr .. e.addr + l - 1
               PROVE  /\ disk[a].kind = "rec" /\ disk'[a].kind = "rec"
                      /\ disk'[a].key = disk[a].key /\ disk'[a].lng = disk[a].lng
                      /\ disk'[a].off = disk[a].off
    BY <1>1, Zenon DEF OnlyMarks, WithRecord
  <2>1. disk'[a] = [kind |-> "rec", key |-> k, lng |-> l, off |-> a - e.addr, mark |-> FALSE]
    BY <1>1 DEF WithRecord
  <2> DEFINE j == a - e.addr
  <2>2. j \in 0 .. l - 1 /\ e.addr + j = a BY <1>8
  <2>3. e.lng = l /\ e.key = k OBVIOUS
  <2> HIDE DEF j, e
  <2>4. disk[a].kind = "rec" /\ disk[a].key = k /\ disk[a].lng = l /\ disk[a].off = j
    BY <1>7, <2>2, <2>3 DEF Good, WholeIn
  <2> QED BY <2>1, <2>4 DEF j
<1> QED BY <1>9, <1>10

LEMMA PutInPlaceGood ==
  ASSUME IInv, TypeInv', NEW p \in Procs, tab[p].st = "open", Writable(tab[p]),
         NEW h \in LiveHandles(tab[p]), NEW k \in Keys, NEW l \in Lengths,
         EntryAt(tab[p], h).lng = l, EntryAt(tab[p], h).key = k, PutInPlace(p, h, k, l)
  PROVE  IInv'
<1> DEFINE f == tab[p]
           m == Rekey(f.page[h[1]], h[2], k)
           pg == [f.page EXCEPT ![h[1]] = m]
           g == [f EXCEPT !.page = pg, !.modified = TRUE]
<1>1. Sets(p, g) /\ header' = header
  BY DEF PutInPlace, Sets
<1>2. f \in FileEntry BY Facts
<1>3. size' = size /\ OnlyMarks(disk, disk') BY InPlaceWritten
<1>4. h[1] \in PageNos /\ h[2] \in Slots /\ h[1] <= f.npages /\ h[2] <= f.page[h[1]].nent
  BY DEF LiveHandles
<1>5. f.page[h[1]] \in MemPage BY <1>2, <1>4 DEF FileEntry
<1>6. SamePage(f.page[h[1]], m)
  BY <1>4, <1>5, SamePageOps DEF EntryAt
<1>7. g \in FileEntry BY <1>1, NextEntry
<1> HIDE DEF m
<1>8. pg = [f.page EXCEPT ![h[1]] = m] OBVIOUS
<1> HIDE DEF pg
<1>9. /\ g.page = pg /\ g.npages = f.npages /\ g.hdr = f.hdr /\ g.read_only = f.read_only
       /\ g.modified = TRUE /\ g.st = f.st
  BY <1>2 DEF FileEntry
<1> HIDE DEF g
<1>10. g.page = [f.page EXCEPT ![h[1]] = m] BY <1>8, <1>9
<1> QED BY <1>1, <1>2, <1>3, <1>4, <1>6, <1>7, <1>9, <1>10, MemoryStep

(***************************************************************************)
(* A record at the end: the page it needs, the record and its entry, and   *)
(* the erasure of the one it replaces.                                     *)
(***************************************************************************)
RoomyDisk(d, f) ==
  IF LastPageFull(f) THEN [d EXCEPT ![WithNewPage(f).hdr.fsiz] = EmptyPage] ELSE d

LEMMA RoomyGood ==
  ASSUME NEW d \in [Addr -> Word], NEW f \in FileEntry, f.npages = f.hdr.nbd, f.npages >= 1,
         LastPageFull(f) => CanAddPage(f),
         Pages(d, f), HeldGood(d, f, f.hdr.fsiz), LastPageEnds(f)
  PROVE  LET g == Roomy(f)
             e == RoomyDisk(d, f) IN
         /\ e \in [Addr -> Word]
         /\ Pages(e, g) /\ HeldGood(e, g, g.hdr.fsiz) /\ LastPageEnds(g)
         /\ KeptRecs(d, e, f.hdr.fsiz) /\ KeptPages(d, e, f.hdr.fsiz)
         /\ \A b \in Addr : e[b] = d[b] \/ e[b].nent = 0
<1>1. CASE ~LastPageFull(f)
  BY <1>1, NothingWritten DEF Roomy, RoomyDisk
<1>2. CASE LastPageFull(f)
  <2> DEFINE g == WithNewPage(f)
             a == f.hdr.fsiz + 1
             e == [d EXCEPT ![a] = EmptyPage]
  <2>1. CanAddPage(f) BY <1>2
  <2>2. g.hdr.fsiz = a /\ a \in Addr BY <2>1, WithNewPageFields
  <2>3. f.npages # 0 BY FileTypes
  <2>4. /\ Pages(e, g) /\ HeldGood(e, g, g.hdr.fsiz) /\ LastPageEnds(g)
        /\ KeptRecs(d, e, f.hdr.fsiz) /\ KeptPages(d, e, f.hdr.fsiz)
    BY <2>1, <2>3, NewPageGood
  <2>5. g = Roomy(f) /\ e = RoomyDisk(d, f) BY <1>2, <2>2 DEF Roomy, RoomyDisk
  <2>6. e \in [Addr -> Word] BY Constants DEF Word
  <2>7. \A b \in Addr : e[b] = IF b = a THEN EmptyPage ELSE d[b] OBVIOUS
  <2>8. EmptyPage.nent = 0 BY DEF EmptyPage
  <2> HIDE DEF e, g
  <2>9. \A b \in Addr : e[b] = d[b] \/ e[b].nent = 0 BY <2>7, <2>8
  <2> QED BY <2>4, <2>5, <2>6, <2>9
<1> QED BY <1>1, <1>2

LEMMA KeptTwice ==
  ASSUME NEW d, NEW e, NEW x, NEW L \in Int, NEW M \in Int, L <= M
  PROVE  /\ KeptRecs(d, e, L) /\ KeptRecs(e, x, M) => KeptRecs(d, x, L)
         /\ KeptPages(d, e, L) /\ KeptPages(e, x, M) => KeptPages(d, x, L)
<1>1. \A a \in Addr : a <= L => a <= M BY XdfAssumption DEF Addr
<1>2. KeptRecs(d, e, L) /\ KeptRecs(e, x, M) => KeptRecs(d, x, L) BY <1>1 DEF KeptRecs
<1>3. KeptPages(d, e, L) /\ KeptPages(e, x, M) => KeptPages(d, x, L) BY <1>1 DEF KeptPages
<1> QED BY <1>2, <1>3

LEMMA PutAtEndGood ==
  ASSUME IInv, TypeInv', NEW p \in Procs, tab[p].st = "open", Writable(tab[p]),
         NEW h \in LiveHandles(tab[p]) \cup {NoHandle}, NEW k \in Keys, NEW l \in Lengths,
         PutAtEnd(p, h, k, l)
  PROVE  IInv'
<1> DEFINE f == tab[p]
           g == Roomy(f)
           w == Appended(g, k, l)
           d == RoomyDisk(disk, f)
           e == WithRecord(d, g.hdr.fsiz + 1, k, l)
           t == IF h = NoHandle THEN w ELSE Erase(w, h)
<1>1. /\ LastPageFull(f) => CanAddPage(f)
      /\ g.hdr.fsiz + l <= MaxAddr
      /\ disk' = e /\ size' = LastWord(g.hdr.fsiz + 1, l)
      /\ Sets(p, t) /\ header' = header
  BY DEF PutAtEnd, Sets, Roomy, RoomyDisk
<1>2. /\ f \in FileEntry /\ Counted(f) /\ PInv(disk, header, size, f) /\ disk \in [Addr -> Word]
      /\ size \in Nat /\ header \in Header /\ header.fsiz \in Nat
      /\ DiskGood(disk, header.fsiz) /\ CleanDir(disk, header) /\ OnlyWriter(p)
  BY Facts DEF Active
<1>3. WriterOK(disk, header, size, f) /\ HeldGood(disk, f, f.hdr.fsiz) BY <1>2, WriterInv
<1>4. /\ Pages(disk, f) /\ LastPageEnds(f) /\ header.fsiz <= f.hdr.fsiz
      /\ f.npages = f.hdr.nbd /\ f.npages >= 1
  BY <1>2, <1>3 DEF WriterOK, Counted
<1>5. /\ g \in FileEntry /\ g.npages \in PageNos /\ ~LastPageFull(g)
      /\ g.st = f.st /\ g.read_only = f.read_only /\ g.hdr.rwflg = f.hdr.rwflg
      /\ f.hdr.fsiz <= g.hdr.fsiz
  BY <1>1, <1>2, <1>4, RoomyFields
<1>6. /\ d \in [Addr -> Word]
      /\ Pages(d, g) /\ HeldGood(d, g, g.hdr.fsiz) /\ LastPageEnds(g)
      /\ KeptRecs(disk, d, f.hdr.fsiz) /\ KeptPages(disk, d, f.hdr.fsiz)
      /\ \A b \in Addr : d[b] = disk[b] \/ d[b].nent = 0
  BY <1>1, <1>2, <1>3, <1>4, RoomyGood
<1>7. h # NoHandle => h \in PageNos \X Slots BY <1>2, HandleTypes
<1> HIDE DEF g, d
<1>8. /\ Pages(e, w) /\ HeldGood(e, w, w.hdr.fsiz) /\ LastPageEnds(w)
      /\ KeptRecs(d, e, g.hdr.fsiz) /\ KeptPages(d, e, g.hdr.fsiz)
      /\ \A b \in Addr : e[b].kind = "page" => e[b] = d[b]
  BY <1>1, <1>5, <1>6, AppendGood
<1>9. /\ w \in FileEntry /\ w.hdr.fsiz = g.hdr.fsiz + l /\ w.hdr.rwflg = g.hdr.rwflg
      /\ w.st = g.st /\ w.read_only = g.read_only /\ w.modified = TRUE
  BY <1>1, <1>5, AppendedFields
<1> HIDE DEF w, e
<1>10. /\ t \in FileEntry /\ t.hdr.fsiz = w.hdr.fsiz /\ t.hdr.rwflg = w.hdr.rwflg
       /\ t.st = w.st /\ t.read_only = w.read_only /\ t.modified = TRUE
       /\ Pages(e, t) /\ HeldGood(e, t, w.hdr.fsiz) /\ LastPageEnds(t)
  <2>1. CASE h = NoHandle BY <1>8, <1>9, <2>1
  <2>2. CASE h # NoHandle
    <3> DEFINE m == EraseEntry(w.page[h[1]], h[2])
               v == Erase(w, h)
    <3>1. h \in PageNos \X Slots /\ h[1] \in PageNos /\ h[2] \in Slots BY <1>7, <2>2
    <3>2. /\ v \in FileEntry /\ v.hdr.fsiz = w.hdr.fsiz /\ v.hdr.rwflg = w.hdr.rwflg
          /\ v.npages = w.npages /\ v.st = w.st /\ v.read_only = w.read_only /\ v.modified = TRUE
          /\ v.page = [w.page EXCEPT ![h[1]] = m]
      BY <1>9, <3>1, EraseFields
    <3>3. w.page[h[1]] \in MemPage BY <1>9, <3>1, FileTypes
    <3>4. SamePage(w.page[h[1]], m) BY <3>1, <3>3, SamePageOps
    <3>5. t = v BY <2>2
    <3> HIDE DEF m, v, t
    <3>6. Pages(e, v) /\ HeldGood(e, v, w.hdr.fsiz) /\ LastPageEnds(v)
      BY <1>8, <1>9, <3>1, <3>2, <3>4, OnePage
    <3> QED BY <3>2, <3>5, <3>6
  <2> QED BY <2>1, <2>2
<1> HIDE DEF t
<1>11. /\ g.hdr.fsiz \in Nat /\ f.hdr.fsiz \in Nat /\ l \in Nat /\ l >= 1
       /\ w.hdr.fsiz \in Nat /\ g.hdr.fsiz <= w.hdr.fsiz
  <2>1. g.hdr.fsiz \in Nat /\ f.hdr.fsiz \in Nat BY <1>2, <1>5, FileTypes
  <2>2. l \in Nat /\ l >= 1 BY XdfAssumption
  <2> QED BY <1>9, <2>1, <2>2
<1>12. KeptRecs(disk, e, f.hdr.fsiz) /\ KeptPages(disk, e, f.hdr.fsiz)
  BY <1>5, <1>6, <1>8, <1>11, KeptTwice
<1>13. KeptRecs(disk, e, header.fsiz) /\ KeptPages(disk, e, header.fsiz)
  <2>1. KeptRecs(disk, disk, header.fsiz) /\ KeptPages(disk, disk, header.fsiz)
    BY NothingWritten
  <2> QED BY <1>2, <1>4, <1>11, <1>12, <2>1, KeptTwice
<1>14. DiskGood(e, header.fsiz)
  <2>1. \A b \in Addr : e[b].kind = "page" =>
          e[b] = disk[b] \/ \A s \in 1 .. e[b].nent : Good(e, e[b].ent[s], header.fsiz)
    <3> SUFFICES ASSUME NEW b \in Addr, e[b].kind = "page", e[b] # disk[b]
                 PROVE  \A s \in 1 .. e[b].nent : Good(e, e[b].ent[s], header.fsiz)
      OBVIOUS
    <3>1. e[b].nent = 0 BY <1>6, <1>8
    <3> QED BY <3>1
  <2>2. header.fsiz \in Int /\ header.fsiz <= header.fsiz BY <1>2
  <2> QED BY <1>2, <1>13, <2>1, <2>2, DiskKept
<1>15. CleanDir(e, header) BY <1>2, <1>13, CleanDirKept
<1>16. w.hdr.fsiz <= size'
  <2> DEFINE a == g.hdr.fsiz + 1
  <2>1. a \in Nat /\ a + l - 1 = w.hdr.fsiz BY <1>9, <1>11
  <2>2. size' = LastWord(a, l) BY <1>1
  <2> HIDE DEF a
  <2> QED BY <1>2, <1>11, <2>1, <2>2 DEF LastWord
<1>17. header.fsiz <= w.hdr.fsiz /\ header.fsiz <= size'
  <2>1. size' \in Int BY DEF TypeInv, TypeOK
  <2> QED BY <1>2, <1>4, <1>5, <1>11, <1>16, <2>1
<1>18. WriterOK(e, header, size', t)
  <2>1. t.st = "open" BY <1>5, <1>9, <1>10
  <2> QED BY <1>10, <1>16, <1>17, <2>1 DEF WriterOK
<1>19. t.st # "closed" /\ Writable(t) BY <1>5, <1>9, <1>10 DEF Writable
<1>20. HeldGood(e, t, t.hdr.fsiz) BY <1>10
<1>21. PInv(e, header, size', t) BY <1>18, <1>19, <1>20, WriterInv
<1>22. header.fsiz <= header.fsiz BY <1>2
<1> QED BY <1>1, <1>2, <1>13, <1>14, <1>15, <1>17, <1>21, <1>22, WriterStep

LEMMA XdfPutGood ==
  ASSUME IInv, TypeInv', NEW p \in Procs,
         \/ \E k \in Keys, l \in Lengths, rewrit \in BOOLEAN : FstEcr(p, k, l, rewrit)
         \/ \E h \in LiveHandles(tab[p]), k \in Keys, l \in Lengths : MrfPut(p, h, k, l)
  PROVE  IInv'
<1> DEFINE f == tab[p]
<1>0. f \in FileEntry BY Facts
<1>1. ASSUME NEW k \in Keys, NEW l \in Lengths, NEW rewrit \in BOOLEAN, FstEcr(p, k, l, rewrit)
      PROVE  IInv'
  <2>1. PICK h \in IF rewrit THEN FirstMatch(f, k) ELSE {NoHandle} : XdfPut(p, h, k, l, FALSE)
    BY <1>1 DEF FstEcr
  <2>2. h \in LiveHandles(f) \cup {NoHandle} BY <1>0, HandleTypes
  <2>3. h # NoHandle => EntryAt(f, h).key = k BY DEF FirstMatch
  <2>4. f.st = "open" /\ Writable(f) BY <2>1 DEF XdfPut
  <2>5. CASE PutAtEnd(p, h, k, l) BY <2>2, <2>4, <2>5, PutAtEndGood
  <2>6. CASE h # NoHandle /\ EntryAt(f, h).lng = l /\ PutInPlace(p, h, k, l)
    BY <2>2, <2>3, <2>4, <2>6, PutInPlaceGood
  <2> QED BY <2>1, <2>5, <2>6 DEF XdfPut
<1>2. ASSUME NEW h \in LiveHandles(f), NEW k \in Keys, NEW l \in Lengths, MrfPut(p, h, k, l)
      PROVE  IInv'
  <2>1. f.st = "open" /\ Writable(f) /\ PutAtEnd(p, h, k, l) BY <1>2 DEF MrfPut, XdfPut
  <2> QED BY <2>1, PutAtEndGood
<1> QED BY <1>1, <1>2

LEMMA StepGood ==
  ASSUME Coordinated, IInv, [Next]_vars
  PROVE  IInv'
<1>1. TypeInv' BY TypeStep DEF IInv
<1>2. CASE UNCHANGED vars
  BY <1>2 DEF vars, IInv, TypeInv, TypeOK, PagesCounted, OneWriter
<1>3. ASSUME NEW p \in Procs, Step(p) PROVE IInv'
  BY <1>1, <1>3, CreateHeaderGood, CreatePageGood, OpenHeaderGood, OpenPageGood, XdfDelGood,
     XdfPutGood, PutDirFullGood, CloseReaderGood, CloseHeaderGood, CloseMarksGood, ClosePageGood,
     CheckpointedGood, CloseSealGood, Zenon
     DEF Step
<1> QED BY <1>2, <1>3 DEF Next

(***************************************************************************)
(* When the sites run at most one writing application at a time, whatever  *)
(* entry an application holds, and whatever entry is in a directory page   *)
(* on disk, designates a record that is on disk, whole and with the keys   *)
(* of the entry: c_xdfput and c_xdfcls, with any number of readers that    *)
(* open meanwhile, and applications that stop between any two writes.      *)
(***************************************************************************)
THEOREM Designation == ASSUME Coordinated PROVE Spec => []EntriesDesignateRecords
<1>1. Init => IInv BY InitGood
<1>2. IInv /\ [Next]_vars => IInv' BY StepGood
<1>3. IInv => EntriesDesignateRecords
  <2> SUFFICES ASSUME IInv PROVE EntriesDesignateRecords OBVIOUS
  <2>1. \A e : WholeIn(disk, e) => Whole(e) BY DEF WholeIn, Whole
  <2>2. ASSUME NEW p \in Procs, NEW i \in 1 .. tab[p].npages, NEW e \in UsedEntries(tab[p].page[i])
        PROVE  Whole(e)
    <3>1. HeldGood(disk, tab[p], Bound(header, tab[p])) BY DEF IInv, PInv
    <3> QED BY <2>1, <3>1 DEF HeldGood, Good, UsedEntries
  <2>3. ASSUME NEW a \in Addr, disk[a].kind = "page", NEW e \in UsedEntries(disk[a])
        PROVE  Whole(e)
    BY <2>1, <2>3 DEF IInv, DiskGood, Good, UsedEntries
  <2> QED BY <2>2, <2>3 DEF EntriesDesignateRecords
<1> QED BY <1>1, <1>2, <1>3, PTL DEF Spec

---------------------------------------------------------------------------
(***************************************************************************)
(* Proof that directories are durable when the sites run one writing       *)
(* application at a time: a slot of a directory page on disk keeps its     *)
(* record (SlotsAreStable), and what a completed close or checkpoint left  *)
(* in the file is found by following the directory on disk, wherever the   *)
(* applications that wrote since have stopped (CommittedRecordsSurvive).   *)
(*                                                                         *)
(* The argument rests on what a directory page on disk says of the page in *)
(* the memory of the application that writes: the latter continues it.     *)
(***************************************************************************)

(***************************************************************************)
(* Page y has the entries of page x, and those of S that are live in x are *)
(* live in y; the link of x to its successor is in y.                      *)
(***************************************************************************)
Continues(x, y, S) ==
  /\ x.nent <= y.nent
  /\ x.nxt # 0 => y.nxt = x.nxt
  /\ \A s \in 1 .. x.nent :
       /\ RecordOf(y.ent[s]) = RecordOf(x.ent[s])
       /\ x.ent[s].id = "dead" => y.ent[s].id = "dead"
       /\ x.ent[s].id = "live" /\ RecordOf(x.ent[s]) \in S => y.ent[s].id = "live"

Ahead(d, f, S) == \A i \in 1 .. f.npages : Continues(d[f.page[i].addr], f.page[i], S)

(***************************************************************************)
(* Record r is live on the n-th page, for an n of at most N, of the chain  *)
(* of pages that starts right after the header.                            *)
(***************************************************************************)
Leads(d, c, n) ==
  /\ c[1] = 1
  /\ \A i \in 1 .. n : c[i] \in Addr /\ d[c[i]].kind = "page"
  /\ \A i \in 1 .. n - 1 : d[c[i]].nxt = c[i + 1]

LiveOnPage(pg, r) ==
  \E s \in 1 .. pg.nent : pg.ent[s].id = "live" /\ RecordOf(pg.ent[s]) = r

Findable(d, N, r) ==
  \E n \in 1 .. N : \E c : Leads(d, c, n) /\ LiveOnPage(d[c[n]], r)

(***************************************************************************)
(* Pages beyond what the header counts, which applications that stopped    *)
(* left behind, hold nothing, so that records may be written over them.    *)
(***************************************************************************)
Used(pg) == pg.kind = "page" /\ (pg.nent >= 1 \/ pg.nxt # 0)

NoUsedPageBeyond(d, L) == \A a \in Addr : Used(d[a]) => a <= L

WriterAhead(d, H, S, f) ==
  /\ Ahead(d, f, S)
  /\ H.nbd <= f.hdr.nbd
  /\ f.st \in {"closing", "marked"} => H.nbd = f.hdr.nbd

SInv ==
  /\ IInv
  /\ NoUsedPageBeyond(disk, header.fsiz)
  /\ \A p \in Procs : Active(tab[p]) => WriterAhead(disk, header, safe, tab[p])
  /\ \A r \in safe : Findable(disk, header.nbd, r)

(***************************************************************************)
(* Continues is reflexive and transitive, and holds for an empty page.     *)
(***************************************************************************)
LEMMA SameContinues ==
  ASSUME NEW x, NEW y, x.nent \in Int, y.nent = x.nent, y.nxt = x.nxt, y.ent = x.ent
  PROVE  \A S : Continues(x, y, S)
BY DEF Continues

LEMMA EmptyContinues ==
  ASSUME NEW m \in MemPage
  PROVE  \A S : Continues(EmptyPage, m, S)
<1>1. m.nent \in Nat BY PageTypes
<1>2. EmptyPage.nent = 0 /\ EmptyPage.nxt = 0 BY DEF EmptyPage
<1> QED BY <1>1, <1>2 DEF Continues

LEMMA ContinuesTwice ==
  ASSUME NEW x, NEW y, NEW z, NEW S, NEW T, T \subseteq S,
         x.nent \in Int, y.nent \in Int, z.nent \in Int,
         Continues(x, y, S), Continues(y, z, T)
  PROVE  Continues(x, z, T)
<1>1. x.nent <= z.nent BY DEF Continues
<1>2. x.nxt # 0 => z.nxt = x.nxt BY DEF Continues
<1>3. ASSUME NEW s \in 1 .. x.nent
      PROVE  /\ RecordOf(z.ent[s]) = RecordOf(x.ent[s])
             /\ x.ent[s].id = "dead" => z.ent[s].id = "dead"
             /\ x.ent[s].id = "live" /\ RecordOf(x.ent[s]) \in T => z.ent[s].id = "live"
  <2>1. s \in 1 .. y.nent BY DEF Continues
  <2> QED BY <2>1 DEF Continues
<1> QED BY <1>1, <1>2, <1>3 DEF Continues

(***************************************************************************)
(* What the operations make of a page continues it.                        *)
(***************************************************************************)
LEMMA PageOpsContinue ==
  ASSUME NEW m \in MemPage, NEW S
  PROVE  /\ \A s \in Slots : m.ent[s].id = "live" =>
              Continues(m, EraseEntry(m, s), S \ {RecordOf(m.ent[s])})
         /\ \A s \in Slots, k \in Keys : m.ent[s].key = k => Continues(m, Rekey(m, s, k), S)
         /\ \A b : Continues(m, Flagged(m, b), S)
         /\ Continues(m, Deaden(m), S)
         /\ m.nxt = 0 => \A a : Continues(m, LinkTo(m, a), S)
         /\ \A e : m.nent < EntriesPerPage => Continues(m, AddEntry(m, e), S)
<1>0. m.nent \in Nat /\ \A t \in 1 .. m.nent : t \in Slots /\ m.ent[t] \in Entry BY PageTypes
<1>1. ASSUME NEW s \in Slots, m.ent[s].id = "live"
      PROVE  Continues(m, EraseEntry(m, s), S \ {RecordOf(m.ent[s])})
  <2> DEFINE n == EraseEntry(m, s)
  <2>1. n.nent = m.nent /\ n.nxt = m.nxt BY DEF EraseEntry, MemPage
  <2>2. \A t \in 1 .. m.nent : n.ent[t] = IF t = s THEN [m.ent[t] EXCEPT !.id = "erased"] ELSE m.ent[t]
    BY <1>0 DEF EraseEntry, MemPage
  <2> HIDE DEF n
  <2>3. \A t \in 1 .. m.nent : RecordOf(n.ent[t]) = RecordOf(m.ent[t])
    BY <1>0, <2>2 DEF RecordOf, Entry
  <2>4. \A t \in 1 .. m.nent : t # s => n.ent[t] = m.ent[t] BY <2>2
  <2>5. m.ent[s].id # "dead" BY <1>1
  <2> QED BY <1>0, <2>1, <2>3, <2>4, <2>5 DEF Continues, n
<1>2. ASSUME NEW s \in Slots, NEW k \in Keys, m.ent[s].key = k PROVE Continues(m, Rekey(m, s, k), S)
  <2> DEFINE n == Rekey(m, s, k)
  <2>1. n.nent = m.nent /\ n.nxt = m.nxt BY DEF Rekey, MemPage
  <2>2. \A t \in 1 .. m.nent : n.ent[t] = IF t = s THEN [m.ent[t] EXCEPT !.key = k] ELSE m.ent[t]
    BY <1>0 DEF Rekey, MemPage
  <2>3. \A t \in 1 .. m.nent : n.ent[t] = m.ent[t] BY <1>0, <1>2, <2>2 DEF Entry
  <2> HIDE DEF n
  <2> QED BY <1>0, <2>1, <2>3 DEF Continues, n
<1>3. ASSUME NEW b PROVE Continues(m, Flagged(m, b), S)
  <2>1. /\ Flagged(m, b).nent = m.nent /\ Flagged(m, b).nxt = m.nxt
        /\ Flagged(m, b).ent = m.ent
    BY DEF Flagged, MemPage
  <2> QED BY <1>0, <2>1, SameContinues
<1>4. Continues(m, Deaden(m), S)
  <2>1. Deaden(m).nent = m.nent /\ Deaden(m).nxt = m.nxt BY DEF Deaden, MemPage
  <2>2. \A t \in 1 .. m.nent :
          Deaden(m).ent[t] = IF m.ent[t].id = "erased" THEN [m.ent[t] EXCEPT !.id = "dead"] ELSE m.ent[t]
    BY <1>0 DEF Deaden, MemPage
  <2>3. \A t \in 1 .. m.nent : RecordOf(Deaden(m).ent[t]) = RecordOf(m.ent[t])
    BY <1>0, <2>2 DEF RecordOf, Entry
  <2>4. \A t \in 1 .. m.nent : m.ent[t].id # "erased" => Deaden(m).ent[t] = m.ent[t] BY <2>2
  <2> QED BY <1>0, <2>1, <2>3, <2>4 DEF Continues
<1>5. ASSUME m.nxt = 0, NEW a PROVE Continues(m, LinkTo(m, a), S)
  <2>1. LinkTo(m, a).nent = m.nent /\ LinkTo(m, a).ent = m.ent BY DEF LinkTo, MemPage
  <2> QED BY <1>0, <1>5, <2>1 DEF Continues
<1>6. ASSUME NEW e, m.nent < EntriesPerPage PROVE Continues(m, AddEntry(m, e), S)
  <2>1. AddEntry(m, e).nent = m.nent + 1 /\ AddEntry(m, e).nxt = m.nxt BY DEF AddEntry, MemPage
  <2>2. \A t \in 1 .. m.nent : AddEntry(m, e).ent[t] = m.ent[t]
    BY <1>0 DEF AddEntry, MemPage
  <2> QED BY <1>0, <2>1, <2>2 DEF Continues
<1> QED BY <1>1, <1>2, <1>3, <1>4, <1>5, <1>6

(***************************************************************************)
(* The directory in memory stays ahead of the one on disk when one of its  *)
(* pages changes, and when the disk keeps the pages.                       *)
(***************************************************************************)
LEMMA DiskPages ==
  ASSUME NEW d \in [Addr -> Word]
  PROVE  \A a \in Addr : d[a].kind = "page" => d[a] \in PageImage /\ d[a].nent \in Nat
<1> SUFFICES ASSUME NEW a \in Addr, d[a].kind = "page" PROVE d[a] \in PageImage /\ d[a].nent \in Nat
  OBVIOUS
<1>1. d[a] \in PageImage BY PageWords
<1> QED BY <1>1, XdfAssumption DEF PageImage

LEMMA AheadKept ==
  ASSUME NEW d, NEW e, NEW f, NEW S, NEW T, T \subseteq S, Pages(d, f), Ahead(d, f, S),
         KeptPages(d, e, f.hdr.fsiz)
  PROVE  Ahead(e, f, T)
<1>1. \A i \in 1 .. f.npages : e[f.page[i].addr] = d[f.page[i].addr] BY DEF Pages, KeptPages
<1> QED BY <1>1 DEF Ahead, Continues

LEMMA AheadOnePage ==
  ASSUME NEW d \in [Addr -> Word], NEW f \in FileEntry, NEW g \in FileEntry,
         NEW n \in PageNos, NEW m, NEW S, NEW T, T \subseteq S,
         g.page = [f.page EXCEPT ![n] = m], m.addr = f.page[n].addr,
         Continues(f.page[n], m, T), g.npages = f.npages, Pages(d, f), Ahead(d, f, S)
  PROVE  Ahead(d, g, T)
<1> SUFFICES ASSUME NEW i \in 1 .. f.npages PROVE Continues(d[g.page[i].addr], g.page[i], T)
  BY DEF Ahead
<1>1. i \in PageNos /\ f.page[i] \in MemPage /\ g.page[i] \in MemPage BY FileTypes
<1>2. g.page[i] = IF i = n THEN m ELSE f.page[i] BY <1>1 DEF FileEntry
<1>3. g.page[i].addr = f.page[i].addr BY <1>2
<1>4. /\ f.page[i].nent \in Int /\ g.page[i].nent \in Int
      /\ d[f.page[i].addr].nent \in Int
  BY <1>1, PageTypes, DiskPages DEF Pages
<1>5. Continues(d[f.page[i].addr], f.page[i], S) BY DEF Ahead
<1>6. Continues(f.page[i], g.page[i], T)
  BY <1>2, <1>4, SameContinues
<1> QED BY <1>3, <1>4, <1>5, <1>6, ContinuesTwice

LEMMA ImagesAhead ==
  ASSUME NEW d, NEW f \in FileEntry, AllImages(d, f)
  PROVE  \A S : Ahead(d, f, S)
<1> SUFFICES ASSUME NEW S, NEW i \in 1 .. f.npages PROVE Continues(d[f.page[i].addr], f.page[i], S)
  BY DEF Ahead
<1>1. f.page[i].nent \in Nat BY FileTypes, PageTypes
<1>2. d[f.page[i].addr] = Image(f.page[i]) BY DEF AllImages
<1>3. /\ Image(f.page[i]).nent = f.page[i].nent /\ Image(f.page[i]).nxt = f.page[i].nxt
      /\ Image(f.page[i]).ent = f.page[i].ent
  BY DEF Image
<1> QED BY <1>1, <1>2, <1>3, SameContinues

(***************************************************************************)
(* A record stays findable when the used pages are kept, and when one page *)
(* is rewritten by another that continues it.                              *)
(***************************************************************************)
LEMMA FindableKept ==
  ASSUME NEW d \in [Addr -> Word], NEW e, NEW L, NEW N \in Nat, NEW M \in Nat, N <= M, NEW r,
         NoUsedPageBeyond(d, L), KeptPages(d, e, L), Findable(d, N, r)
  PROVE  Findable(e, M, r)
<1>0. PICK n \in 1 .. N : \E c : Leads(d, c, n) /\ LiveOnPage(d[c[n]], r) BY DEF Findable
<1>1. PICK c : Leads(d, c, n) /\ LiveOnPage(d[c[n]], r) BY <1>0
<1>2. n \in 1 .. M /\ n \in 1 .. n /\ n \in Nat OBVIOUS
<1>3. ASSUME NEW i \in 1 .. n PROVE e[c[i]] = d[c[i]]
  <2>1. c[i] \in Addr /\ d[c[i]].kind = "page" BY <1>1 DEF Leads
  <2>2. Used(d[c[i]])
    <3>1. CASE i = n
      <4>1. d[c[i]].nent \in Nat BY <2>1, DiskPages
      <4>2. \E s \in 1 .. d[c[i]].nent : TRUE BY <1>1, <3>1 DEF LiveOnPage
      <4> QED BY <2>1, <4>1, <4>2 DEF Used
    <3>2. CASE i # n
      <4>1. i \in 1 .. n - 1 /\ i + 1 \in 1 .. n BY <1>2, <3>2
      <4>2. d[c[i]].nxt \in Addr BY <1>1, <4>1 DEF Leads
      <4> QED BY <2>1, <4>2 DEF Used, Addr
    <3> QED BY <3>1, <3>2
  <2> QED BY <2>1, <2>2 DEF NoUsedPageBeyond, KeptPages
<1>4. \A i \in 1 .. n - 1 : i \in 1 .. n BY <1>2
<1>5. Leads(e, c, n) BY <1>1, <1>3, <1>4 DEF Leads
<1>6. LiveOnPage(e[c[n]], r) BY <1>1, <1>2, <1>3
<1> QED BY <1>2, <1>5, <1>6 DEF Findable

LEMMA FindableRewritten ==
  ASSUME NEW d \in [Addr -> Word], NEW e, NEW b, NEW S, NEW N \in Nat, NEW r \in S,
         \A a \in Addr : a # b => e[a] = d[a],
         e[b].kind = "page", e[b].nent \in Int, Continues(d[b], e[b], S),
         Findable(d, N, r)
  PROVE  Findable(e, N, r)
<1>0. PICK n \in 1 .. N : \E c : Leads(d, c, n) /\ LiveOnPage(d[c[n]], r) BY DEF Findable
<1>1. PICK c : Leads(d, c, n) /\ LiveOnPage(d[c[n]], r) BY <1>0
<1>2. n \in 1 .. n /\ n \in Nat OBVIOUS
<1>3. ASSUME NEW i \in 1 .. n PROVE e[c[i]].kind = "page" BY <1>1 DEF Leads
<1>4. ASSUME NEW i \in 1 .. n - 1 PROVE e[c[i]].nxt = c[i + 1]
  <2>1. i \in 1 .. n /\ i + 1 \in 1 .. n BY <1>2
  <2>2. c[i] \in Addr /\ d[c[i]].nxt = c[i + 1] /\ c[i + 1] \in Addr BY <1>1, <2>1 DEF Leads
  <2>3. d[c[i]].nxt # 0 BY <2>2 DEF Addr
  <2>4. CASE c[i] = b BY <2>2, <2>3, <2>4 DEF Continues
  <2>5. CASE c[i] # b BY <2>2, <2>5
  <2> QED BY <2>4, <2>5
<1>5. Leads(e, c, n) BY <1>1, <1>3, <1>4 DEF Leads
<1>6. LiveOnPage(e[c[n]], r)
  <2>1. c[n] \in Addr BY <1>1, <1>2 DEF Leads
  <2>2. CASE c[n] # b BY <1>1, <2>1, <2>2
  <2>3. CASE c[n] = b
    <3>1. PICK s \in 1 .. d[b].nent : d[b].ent[s].id = "live" /\ RecordOf(d[b].ent[s]) = r
      BY <1>1, <2>3 DEF LiveOnPage
    <3>2. s \in 1 .. e[b].nent
      <4>1. d[b].nent \in Nat BY <1>1, <1>2, <2>3, DiskPages DEF Leads
      <4> QED BY <4>1 DEF Continues
    <3>3. e[b].ent[s].id = "live" /\ RecordOf(e[b].ent[s]) = r BY <3>1 DEF Continues
    <3> QED BY <2>3, <3>2, <3>3 DEF LiveOnPage
  <2> QED BY <2>2, <2>3
<1> QED BY <1>5, <1>6 DEF Findable

(***************************************************************************)
(* The live records of an application whose pages are all on disk.         *)
(***************************************************************************)
LEMMA FindableWritten ==
  ASSUME NEW d, NEW f \in FileEntry, Pages(d, f), AllImages(d, f), NEW r \in LiveRecords(f)
  PROVE  Findable(d, f.npages, r)
<1>1. PICK h \in LiveHandles(f) : r = RecordOf(EntryAt(f, h)) BY DEF LiveRecords
<1>2. /\ h[1] \in PageNos /\ h[2] \in Slots
      /\ h[1] <= f.npages /\ h[2] <= f.page[h[1]].nent /\ EntryAt(f, h).id = "live"
  BY DEF LiveHandles, EntryAt
<1> DEFINE n == h[1]
           c == [i \in 1 .. n |-> f.page[i].addr]
<1>3. f.npages \in Nat /\ n \in Nat /\ n >= 1 /\ n <= f.npages
  BY <1>2, FileTypes DEF PageNos
<1>4. \A i \in 1 .. n : i \in 1 .. f.npages BY <1>3
<1>5. \A i \in 1 .. n : c[i] = f.page[i].addr OBVIOUS
<1> HIDE DEF c
<1>6. \A i \in 1 .. n : c[i] \in Addr /\ d[c[i]].kind = "page" BY <1>4, <1>5 DEF Pages
<1>7. c[1] = 1
  <2>1. 1 \in 1 .. n /\ f.npages >= 1 BY <1>3
  <2> QED BY <1>5, <2>1 DEF Pages
<1>8. ASSUME NEW i \in 1 .. n - 1 PROVE d[c[i]].nxt = c[i + 1]
  <2>1. i \in 1 .. n /\ i + 1 \in 1 .. n /\ i \in 1 .. f.npages - 1 BY <1>3
  <2>2. d[c[i]] = Image(f.page[i]) BY <1>4, <1>5, <2>1 DEF AllImages
  <2>3. d[c[i]].nxt = f.page[i].nxt BY <2>2 DEF Image
  <2>4. f.page[i].nxt = f.page[i + 1].addr BY <2>1 DEF Pages
  <2> QED BY <1>5, <2>1, <2>3, <2>4
<1>9. Leads(d, c, n) BY <1>6, <1>7, <1>8 DEF Leads
<1>10. LiveOnPage(d[c[n]], r)
  <2>1. n \in 1 .. n /\ n \in 1 .. f.npages BY <1>3
  <2>2. d[c[n]] = Image(f.page[n]) BY <1>5, <2>1 DEF AllImages
  <2>3. d[c[n]].nent = f.page[n].nent /\ d[c[n]].ent = f.page[n].ent BY <2>2 DEF Image
  <2>4. h[2] \in 1 .. f.page[n].nent BY <1>2 DEF Slots
  <2> QED BY <1>1, <1>2, <2>3, <2>4 DEF LiveOnPage, EntryAt
<1>11. n \in 1 .. f.npages BY <1>3
<1> QED BY <1>9, <1>10, <1>11 DEF Findable

(***************************************************************************)
(* What the invariant says of an application before its step, and of the   *)
(* only one that writes after it.                                          *)
(***************************************************************************)
LEMMA SFacts ==
  ASSUME SInv, NEW p \in Procs
  PROVE  /\ IInv /\ tab[p] \in FileEntry /\ disk \in [Addr -> Word]
         /\ header.nbd \in Nat /\ header.fsiz \in Nat
         /\ NoUsedPageBeyond(disk, header.fsiz)
         /\ \A r \in safe : Findable(disk, header.nbd, r)
         /\ Active(tab[p]) =>
              /\ WriterAhead(disk, header, safe, tab[p]) /\ OnlyWriter(p)
              /\ WriterOK(disk, header, size, tab[p])
<1>1. IInv BY DEF SInv
<1>2. /\ tab[p] \in FileEntry /\ disk \in [Addr -> Word] /\ header \in Header
      /\ Active(tab[p]) => OnlyWriter(p) /\ WriterOK(disk, header, size, tab[p])
  BY <1>1, Facts DEF PInv
<1>3. header.nbd \in Nat /\ header.fsiz \in Nat BY <1>2, XdfAssumption DEF Header
<1> QED BY <1>1, <1>2, <1>3 DEF SInv

(***************************************************************************)
(* A step that changes nothing on disk, of an application that does not    *)
(* write afterwards.                                                       *)
(***************************************************************************)
LEMMA ReaderSurvives ==
  ASSUME SInv, IInv', NEW p \in Procs, NEW g, Sets(p, g), UNCHANGED <<disk, header, safe>>,
         ~Active(g)
  PROVE  SInv' /\ SlotKeepsItsRecord
<1>1. tab \in [Procs -> FileEntry] BY DEF SInv, IInv, TypeInv, TypeOK
<1>2. \A q \in Procs : tab'[q] = IF q = p THEN g ELSE tab[q] BY <1>1 DEF Sets
<1>3. \A q \in Procs : Active(tab'[q]) => WriterAhead(disk, header, safe, tab'[q])
  BY <1>2 DEF SInv
<1>4. SInv' BY <1>3 DEF SInv
<1>5. SlotKeepsItsRecord BY DEF SlotKeepsItsRecord
<1> QED BY <1>4, <1>5

(***************************************************************************)
(* A step of the only application that writes, which keeps the used pages. *)
(***************************************************************************)
LEMMA WriterSurvives ==
  ASSUME SInv, IInv', NEW p \in Procs, NEW g, Sets(p, g), OnlyWriter(p),
         KeptPages(disk, disk', header.fsiz),
         \A a \in Addr : Used(disk'[a]) => disk'[a] = disk[a],
         header.fsiz <= header'.fsiz, header.nbd <= header'.nbd,
         Active(g) => WriterAhead(disk', header', safe', g),
         safe' \subseteq safe \/ \A r \in safe' : Findable(disk', header'.nbd, r)
  PROVE  SInv' /\ SlotKeepsItsRecord
<1>1. tab \in [Procs -> FileEntry] BY DEF SInv, IInv, TypeInv, TypeOK
<1>2. \A q \in Procs : tab'[q] = IF q = p THEN g ELSE tab[q] BY <1>1 DEF Sets
<1>3. \A q \in Procs : Active(tab'[q]) => WriterAhead(disk', header', safe', tab'[q])
  BY <1>2 DEF OnlyWriter
<1>4. /\ header.nbd \in Nat /\ header.fsiz \in Nat /\ NoUsedPageBeyond(disk, header.fsiz)
      /\ disk \in [Addr -> Word] /\ \A r \in safe : Findable(disk, header.nbd, r)
  BY SFacts
<1>5. header'.nbd \in Nat /\ header'.fsiz \in Nat
  BY XdfAssumption DEF IInv, TypeInv, TypeOK, Header
<1>6. NoUsedPageBeyond(disk', header'.fsiz)
  <2> SUFFICES ASSUME NEW a \in Addr, Used(disk'[a]) PROVE a <= header'.fsiz
    BY DEF NoUsedPageBeyond
  <2>1. a <= header.fsiz BY <1>4 DEF NoUsedPageBeyond
  <2> QED BY <1>4, <1>5, <2>1, XdfAssumption DEF Addr
<1>7. ASSUME NEW r \in safe' PROVE Findable(disk', header'.nbd, r)
  <2>1. CASE safe' \subseteq safe BY <1>4, <1>5, <2>1, FindableKept
  <2> QED BY <2>1
<1>8. SInv' BY <1>3, <1>6, <1>7 DEF SInv
<1>9. SlotKeepsItsRecord
  <2>0. \A a \in Addr : disk[a].kind = "page" => disk[a].nent \in Nat BY SFacts, DiskPages
  <2> SUFFICES ASSUME NEW a \in Addr, disk[a].kind = "page", NEW s \in 1 .. disk[a].nent
               PROVE  /\ disk'[a].kind = "page" /\ s <= disk'[a].nent
                      /\ RecordOf(disk'[a].ent[s]) = RecordOf(disk[a].ent[s])
                      /\ disk[a].ent[s].id = "dead" => disk'[a].ent[s].id = "dead"
    BY DEF SlotKeepsItsRecord
  <2>1. Used(disk[a]) BY <2>0 DEF Used
  <2>2. disk'[a] = disk[a] BY <1>4, <2>1 DEF NoUsedPageBeyond, KeptPages
  <2> QED BY <2>0, <2>2
<1> QED BY <1>8, <1>9

LEMMA NextFacts ==
  ASSUME SInv, IInv', NEW p \in Procs, NEW g, Sets(p, g)
  PROVE  /\ g \in FileEntry
         /\ Active(g) => WriterOK(disk', header', size', g)
<1>1. TypeInv' BY DEF IInv
<1>2. g \in FileEntry BY <1>1, NextEntry DEF SInv
<1>3. tab'[p] = g
  <2>1. tab \in [Procs -> FileEntry] BY DEF SInv, IInv, TypeInv, TypeOK
  <2> QED BY <2>1 DEF Sets
<1>4. PInv(disk', header', size', g) BY <1>3 DEF IInv
<1> QED BY <1>2, <1>4 DEF PInv

(***************************************************************************)
(* Creation, and opening.                                                  *)
(***************************************************************************)
LEMMA CreateSurvives ==
  ASSUME Coordinated, SInv, IInv', NEW p \in Procs, CreateHeader(p) \/ CreatePage(p)
  PROVE  SInv' /\ SlotKeepsItsRecord
<1>1. CASE CreateHeader(p)
  <2> DEFINE new == [NoFile EXCEPT !.rwflg = RDMODE]
             g == [Closed EXCEPT !.st = "creating", !.hdr = [new EXCEPT !.rwflg = CREATE]]
  <2>1. /\ header = NoFile /\ header' = new /\ Sets(p, g) /\ disk' = disk /\ safe' = safe
        /\ OnlyWriter(p)
    BY <1>1 DEF CreateHeader, MayWrite, Writing, Active, Sets, OnlyWriter
  <2>2. header.fsiz = 0 /\ header'.fsiz = 0 /\ header'.nbd = 0 /\ header.nbd = 0
    BY <2>1 DEF NoFile
  <2>3. g.npages = 0 /\ g.st = "creating" /\ g.hdr.nbd = 0 BY DEF Closed, NoFile
  <2> HIDE DEF g, new
  <2>4. WriterAhead(disk', header', safe', g)
    BY <2>2, <2>3 DEF WriterAhead, Ahead
  <2>5. KeptPages(disk, disk', header.fsiz) BY <2>1, NothingWritten
  <2> QED BY <2>1, <2>2, <2>4, <2>5, WriterSurvives
<1>2. CASE CreatePage(p)
  <2> DEFINE f == tab[p]
             w == WithNewPage(f)
             g == [w EXCEPT !.st = "open", !.modified = TRUE]
             a == f.hdr.fsiz + 1
  <2>1. /\ f.st = "creating" /\ CanAddPage(f) /\ disk' = [disk EXCEPT ![a] = EmptyPage]
        /\ Sets(p, g) /\ header' = header /\ safe' = safe
    BY <1>2 DEF CreatePage, Sets
  <2>2. /\ IInv /\ f \in FileEntry /\ disk \in [Addr -> Word]
        /\ header.nbd \in Nat /\ header.fsiz \in Nat
    BY SFacts
  <2>3. Counted(f) /\ PInv(disk, header, size, f) BY <2>2, Facts
  <2>4. Active(f) BY <2>1, <2>3 DEF PInv, Active
  <2>5. /\ OnlyWriter(p) /\ WriterOK(disk, header, size, f) /\ WriterAhead(disk, header, safe, f)
    BY <2>4, SFacts
  <2>6. f.hdr.fsiz = 0 /\ header.fsiz = 0
    <3>1. f.hdr.fsiz = 0 /\ header.fsiz <= f.hdr.fsiz BY <2>1, <2>5 DEF WriterOK
    <3> QED BY <2>2, <3>1
  <2>7. f.npages = 0 /\ f.hdr.nbd = 0 BY <2>1, <2>2, <2>3 DEF Counted, FileEntry
  <2>8. w \in FileEntry /\ w.npages = f.npages + 1 /\ w.hdr.nbd = w.npages
    BY <2>1, <2>2, <2>7, WithNewPageFields
  <2> HIDE DEF w
  <2>9. g.npages = 1 /\ g.st = "open" /\ g.hdr.nbd = 1 BY <2>7, <2>8 DEF FileEntry
  <2> HIDE DEF g
  <2>10. \A x \in Addr : disk'[x] = IF x = a THEN EmptyPage ELSE disk[x] BY <2>1, <2>2
  <2>11. ~Used(EmptyPage) BY DEF Used, EmptyPage
  <2>12. \A x \in Addr : Used(disk'[x]) => disk'[x] = disk[x] BY <2>10, <2>11
  <2>13. KeptPages(disk, disk', header.fsiz) BY <2>6, <2>10 DEF KeptPages, Addr
  <2>14. ASSUME Active(g) PROVE WriterAhead(disk', header', safe', g)
    <3>1. g \in FileEntry /\ WriterOK(disk', header', size', g) BY <2>1, <2>14, NextFacts
    <3>2. g.page[1].addr = 1 /\ g.page[1] \in MemPage
      BY <2>9, <3>1, FileTypes DEF WriterOK, Pages
    <3>3. 1 \in Addr BY XdfAssumption DEF Addr
    <3>4. disk'[1] = EmptyPage BY <2>6, <2>10, <3>3
    <3>5. Ahead(disk', g, safe') BY <2>9, <3>2, <3>4, EmptyContinues DEF Ahead
    <3>6. header.nbd <= 1
      <4>1. header.nbd <= f.hdr.nbd BY <2>5 DEF WriterAhead
      <4> QED BY <2>2, <2>7, <4>1
    <3> QED BY <2>1, <2>9, <3>5, <3>6 DEF WriterAhead
  <2>15. header.fsiz <= header'.fsiz /\ header.nbd <= header'.nbd BY <2>1, <2>2
  <2> QED BY <2>1, <2>5, <2>12, <2>13, <2>14, <2>15, WriterSurvives
<1> QED BY <1>1, <1>2

LEMMA OpenHeaderSurvives ==
  ASSUME Coordinated, SInv, IInv', NEW p \in Procs,
         NEW mode \in {RDMODE, RWMODE, APPEND}, NEW ro \in BOOLEAN, OpenHeader(p, mode, ro)
  PROVE  SInv' /\ SlotKeepsItsRecord
<1> DEFINE g == [Closed EXCEPT !.st = IF header.nbd = 0 THEN "failed" ELSE "opening",
                               !.read_only = ro, !.hdr = [header EXCEPT !.rwflg = mode],
                               !.fsize = size, !.next = 1]
<1>1. /\ Sets(p, g) /\ disk' = disk /\ header' = header /\ safe' = safe
      /\ Writable(g) => MayWrite(p)
  BY DEF OpenHeader, Sets
<1>2. header \in Header /\ header.nbd \in Nat /\ header.fsiz \in Nat
  BY SFacts, Facts
<1>3. g.st \in {"failed", "opening"} /\ g.hdr.nbd = header.nbd /\ g.npages = 0
  BY <1>2 DEF Closed, Header
<1> HIDE DEF g
<1>4. CASE ~Writable(g)
  <2>1. ~Active(g) BY <1>4 DEF Active
  <2> QED BY <1>1, <2>1, ReaderSurvives
<1>5. CASE Writable(g)
  <2>1. OnlyWriter(p) BY <1>1, <1>5 DEF MayWrite, Writing, Active, OnlyWriter
  <2>2. WriterAhead(disk', header', safe', g) BY <1>1, <1>2, <1>3 DEF WriterAhead, Ahead
  <2>3. KeptPages(disk, disk', header.fsiz) BY <1>1, NothingWritten
  <2> QED BY <1>1, <1>2, <2>1, <2>2, <2>3, WriterSurvives
<1> QED BY <1>4, <1>5

LEMMA OpenPageSurvives ==
  ASSUME SInv, IInv', NEW p \in Procs, OpenPage(p)
  PROVE  SInv' /\ SlotKeepsItsRecord
<1> DEFINE f == tab[p]
           g == tab'[p]
<1>1. Sets(p, g) /\ disk' = disk /\ header' = header /\ size' = size /\ safe' = safe
  BY SFacts DEF OpenPage, Sets, SInv, IInv, TypeInv, TypeOK
<1>2. f \in FileEntry BY SFacts
<1>3. /\ f.st = "opening" /\ g.hdr = f.hdr /\ g.modified = f.modified
      /\ g.read_only = f.read_only /\ g.st \notin {"closing", "marked"}
  <2>1. tab \in [Procs -> FileEntry] BY DEF SInv, IInv, TypeInv, TypeOK
  <2> QED BY <1>2, <2>1 DEF OpenPage, FileEntry
<1> HIDE DEF g
<1>4. CASE ~Writable(f)
  <2>1. ~Active(g) BY <1>3, <1>4 DEF Active, Writable
  <2> QED BY <1>1, <2>1, ReaderSurvives
<1>5. CASE Writable(f)
  <2>1. Active(f) BY <1>3, <1>5 DEF Active
  <2>2. OnlyWriter(p) /\ WriterOK(disk, header, size, f) /\ WriterAhead(disk, header, safe, f)
        /\ header.nbd \in Nat /\ header.fsiz \in Nat
    BY <2>1, SFacts
  <2>3. ~f.modified BY <1>3, <2>2 DEF WriterOK, OpeningDir
  <2>4. ASSUME Active(g) PROVE WriterAhead(disk', header', safe', g)
    <3>1. g \in FileEntry /\ WriterOK(disk', header', size', g) BY <1>1, <2>4, NextFacts
    <3>2. AllImages(disk', g) BY <1>3, <2>3, <3>1 DEF WriterOK
    <3>3. Ahead(disk', g, safe') BY <3>1, <3>2, ImagesAhead
    <3> QED BY <1>1, <1>3, <2>2, <3>3 DEF WriterAhead
  <2>5. KeptPages(disk, disk', header.fsiz) BY <1>1, NothingWritten
  <2> QED BY <1>1, <2>2, <2>4, <2>5, WriterSurvives
<1> QED BY <1>4, <1>5

(***************************************************************************)
(* A step that replaces one page in memory by one that continues it, and   *)
(* writes no page: erasures, flags, and records written where they are.    *)
(***************************************************************************)
LEMMA MemorySurvives ==
  ASSUME SInv, IInv', NEW p \in Procs, NEW f \in FileEntry, f = tab[p], Active(f),
         NEW g \in FileEntry, Sets(p, g), header' = header, OnlyMarks(disk, disk'),
         NEW n \in PageNos, NEW m, g.page = [f.page EXCEPT ![n] = m], m.addr = f.page[n].addr,
         safe' \subseteq safe, Continues(f.page[n], m, safe'),
         g.npages = f.npages, g.hdr.nbd = f.hdr.nbd,
         g.st \in {"closing", "marked"} => f.st \in {"closing", "marked"}
  PROVE  SInv' /\ SlotKeepsItsRecord
<1>1. /\ disk \in [Addr -> Word] /\ header.nbd \in Nat /\ header.fsiz \in Nat
      /\ WriterAhead(disk, header, safe, f) /\ OnlyWriter(p) /\ WriterOK(disk, header, size, f)
  BY SFacts
<1>2. \A L : KeptPages(disk, disk', L) BY <1>1, MarksKeep
<1>3. ASSUME NEW a \in Addr, Used(disk'[a]) PROVE disk'[a] = disk[a]
  <2>1. disk'[a].kind # "rec" BY <1>3 DEF Used
  <2> QED BY <2>1 DEF OnlyMarks
<1>4. Ahead(disk, f, safe) /\ Pages(disk, f) BY <1>1 DEF WriterAhead, WriterOK
<1>5. Ahead(disk, g, safe') BY <1>1, <1>4, AheadOnePage
<1>6. Ahead(disk', g, safe')
  <2> SUFFICES ASSUME NEW i \in 1 .. g.npages PROVE disk'[g.page[i].addr] = disk[g.page[i].addr]
    BY <1>5 DEF Ahead
  <2>1. g.page[i].addr = f.page[i].addr
    <3>1. i \in PageNos BY FileTypes
    <3> QED BY <3>1 DEF FileEntry
  <2>2. f.page[i].addr \in Addr /\ disk[f.page[i].addr].kind = "page" BY <1>4 DEF Pages
  <2>3. f.page[i].addr <= MaxAddr BY <2>2, XdfAssumption DEF Addr
  <2> QED BY <1>2, <2>1, <2>2, <2>3 DEF KeptPages
<1>7. WriterAhead(disk', header', safe', g) BY <1>1, <1>6 DEF WriterAhead
<1>8. header.fsiz <= header'.fsiz /\ header.nbd <= header'.nbd BY <1>1
<1> QED BY <1>1, <1>2, <1>3, <1>7, <1>8, WriterSurvives

LEMMA XdfDelSurvives ==
  ASSUME SInv, IInv', NEW p \in Procs, NEW h \in LiveHandles(tab[p]), XdfDel(p, h)
  PROVE  SInv' /\ SlotKeepsItsRecord
<1> DEFINE f == tab[p]
           g == Erase(f, h)
           m == EraseEntry(f.page[h[1]], h[2])
<1>1. /\ f.st = "open" /\ Writable(f) /\ Sets(p, g) /\ UNCHANGED <<disk, header, size>>
      /\ safe' = safe \ {RecordOf(EntryAt(f, h))}
  BY DEF XdfDel, Sets, Writable
<1>2. f \in FileEntry BY SFacts
<1>3. h \in PageNos \X Slots /\ h[1] \in PageNos /\ h[2] \in Slots BY <1>2, HandleTypes
<1>4. f.page[h[1]] \in MemPage /\ f.page[h[1]].ent[h[2]].id = "live"
  BY <1>2, <1>3, FileTypes DEF LiveHandles
<1>5. Continues(f.page[h[1]], m, safe') BY <1>1, <1>3, <1>4, PageOpsContinue DEF EntryAt
<1>6. m.addr = f.page[h[1]].addr BY <1>4 DEF EraseEntry, MemPage
<1>7. /\ g \in FileEntry /\ g.hdr.nbd = f.hdr.nbd /\ g.npages = f.npages /\ g.st = f.st
      /\ g.page = [f.page EXCEPT ![h[1]] = m]
  BY <1>2, <1>3, EraseFields
<1>8. OnlyMarks(disk, disk') BY <1>1, NoMarks
<1>9. Active(f) /\ safe' \subseteq safe BY <1>1 DEF Active
<1> HIDE DEF g, m
<1> QED BY <1>1, <1>2, <1>3, <1>5, <1>6, <1>7, <1>8, <1>9, MemorySurvives

LEMMA PutDirFullSurvives ==
  ASSUME SInv, IInv', NEW p \in Procs, PutDirFull(p)
  PROVE  SInv' /\ SlotKeepsItsRecord
<1> DEFINE f == tab[p]
           n == f.npages
           m == Flagged(f.page[n], TRUE)
           pg == [f.page EXCEPT ![n] = m]
           g == [f EXCEPT !.page = pg]
<1>1. /\ f.st = "open" /\ Writable(f) /\ Sets(p, g) /\ UNCHANGED <<disk, header, safe>>
  BY DEF PutDirFull, Sets
<1>2. f \in FileEntry /\ Counted(f) BY SFacts, Facts
<1>3. n \in PageNos
  <2>1. n \in 0 .. MaxDirPages /\ MaxDirPages \in Nat /\ n >= 1
    BY <1>1, <1>2, FileTypes DEF Counted
  <2> QED BY <2>1 DEF PageNos
<1>4. f.page[n] \in MemPage BY <1>2, <1>3 DEF FileEntry
<1>5. Continues(f.page[n], m, safe') BY <1>4, PageOpsContinue
<1>6. m.addr = f.page[n].addr BY <1>4 DEF Flagged, MemPage
<1>7. g \in FileEntry BY <1>1, NextFacts
<1> HIDE DEF m
<1>8. pg = [f.page EXCEPT ![n] = m] OBVIOUS
<1> HIDE DEF pg
<1>9. g.page = pg /\ g.npages = f.npages /\ g.hdr = f.hdr /\ g.st = f.st BY <1>2 DEF FileEntry
<1> HIDE DEF g
<1>10. OnlyMarks(disk, disk') BY <1>1, NoMarks
<1>11. Active(f) /\ safe' \subseteq safe /\ header' = header BY <1>1 DEF Active
<1> QED BY <1>1, <1>2, <1>3, <1>5, <1>6, <1>7, <1>8, <1>9, <1>10, <1>11, MemorySurvives

LEMMA PutInPlaceSurvives ==
  ASSUME SInv, IInv', NEW p \in Procs, tab[p].st = "open", Writable(tab[p]),
         NEW h \in LiveHandles(tab[p]), NEW k \in Keys, NEW l \in Lengths,
         EntryAt(tab[p], h).lng = l, EntryAt(tab[p], h).key = k, PutInPlace(p, h, k, l)
  PROVE  SInv' /\ SlotKeepsItsRecord
<1> DEFINE f == tab[p]
           m == Rekey(f.page[h[1]], h[2], k)
           pg == [f.page EXCEPT ![h[1]] = m]
           g == [f EXCEPT !.page = pg, !.modified = TRUE]
<1>1. Sets(p, g) /\ header' = header /\ safe' = safe
  BY DEF PutInPlace, Sets
<1>2. f \in FileEntry BY SFacts
<1>3. OnlyMarks(disk, disk') BY InPlaceWritten DEF SInv
<1>4. h[1] \in PageNos /\ h[2] \in Slots BY DEF LiveHandles
<1>5. f.page[h[1]] \in MemPage BY <1>2, <1>4 DEF FileEntry
<1>6. Continues(f.page[h[1]], m, safe') BY <1>4, <1>5, PageOpsContinue DEF EntryAt
<1>7. m.addr = f.page[h[1]].addr BY <1>5 DEF Rekey, MemPage
<1>8. g \in FileEntry BY <1>1, NextFacts
<1> HIDE DEF m
<1>9. pg = [f.page EXCEPT ![h[1]] = m] OBVIOUS
<1> HIDE DEF pg
<1>10. g.page = pg /\ g.npages = f.npages /\ g.hdr = f.hdr /\ g.st = f.st BY <1>2 DEF FileEntry
<1> HIDE DEF g
<1>11. Active(f) /\ safe' \subseteq safe BY <1>1 DEF Active
<1> QED BY <1>1, <1>2, <1>3, <1>4, <1>6, <1>7, <1>8, <1>9, <1>10, <1>11, MemorySurvives

LEMMA CloseMarksSurvives ==
  ASSUME SInv, IInv', NEW p \in Procs, NEW i \in PageNos, CloseMarks(p, i)
  PROVE  SInv' /\ SlotKeepsItsRecord
<1> DEFINE f == tab[p]
           m == Deaden(f.page[i])
           pg == [f.page EXCEPT ![i] = m]
           g == [f EXCEPT !.st = "marked", !.page = pg]
<1>1. f.st = "closing" /\ Sets(p, g) /\ header' = header /\ safe' = safe
  BY DEF CloseMarks, Sets
<1>2. f \in FileEntry /\ PInv(disk, header, size, f) BY SFacts, Facts
<1>3. OnlyMarks(disk, disk') BY MarksWritten DEF SInv
<1>4. f.page[i] \in MemPage BY <1>2 DEF FileEntry
<1>5. Continues(f.page[i], m, safe') BY <1>4, PageOpsContinue
<1>6. m.addr = f.page[i].addr BY <1>4 DEF Deaden, MemPage
<1>7. g \in FileEntry BY <1>1, NextFacts
<1> HIDE DEF m
<1>8. pg = [f.page EXCEPT ![i] = m] OBVIOUS
<1> HIDE DEF pg
<1>9. g.page = pg /\ g.npages = f.npages /\ g.hdr = f.hdr BY <1>2 DEF FileEntry
<1> HIDE DEF g
<1>10. Active(f) /\ safe' \subseteq safe BY <1>1, <1>2 DEF PInv, Active
<1> QED BY <1>1, <1>2, <1>3, <1>5, <1>6, <1>7, <1>8, <1>9, <1>10, MemorySurvives

(***************************************************************************)
(* Closing: the header, a page, and the end.                               *)
(***************************************************************************)
LEMMA CloseReaderSurvives ==
  ASSUME SInv, IInv', NEW p \in Procs, CloseReader(p) \/ Crash(p)
  PROVE  SInv' /\ SlotKeepsItsRecord
<1>1. Sets(p, Closed) /\ UNCHANGED <<disk, header, safe>> BY DEF CloseReader, Crash, Sets
<1> QED BY <1>1, ClosedGood, ReaderSurvives

LEMMA CloseHeaderSurvives ==
  ASSUME SInv, IInv', NEW p \in Procs, NEW checkpoint \in BOOLEAN, CloseHeader(p, checkpoint)
  PROVE  SInv' /\ SlotKeepsItsRecord
<1> DEFINE f == tab[p]
           g == [f EXCEPT !.st = "closing", !.xdf_checkpoint = checkpoint]
<1>1. /\ f.st \in {"open", "failed"} /\ Writable(f)
      /\ header' = f.hdr /\ Sets(p, g) /\ disk' = disk /\ safe' = safe
  BY DEF CloseHeader, Sets
<1>2. Active(f) BY <1>1 DEF Active
<1>3. /\ f \in FileEntry /\ header.nbd \in Nat /\ header.fsiz \in Nat
      /\ WriterAhead(disk, header, safe, f) /\ OnlyWriter(p) /\ WriterOK(disk, header, size, f)
  BY <1>2, SFacts
<1>4. g.page = f.page /\ g.npages = f.npages /\ g.hdr = f.hdr BY <1>3 DEF FileEntry
<1> HIDE DEF g
<1>5. header.fsiz <= header'.fsiz /\ header.nbd <= header'.nbd
  BY <1>1, <1>3 DEF WriterOK, WriterAhead
<1>6. WriterAhead(disk', header', safe', g)
  <2>1. f.hdr.nbd <= f.hdr.nbd
    <3>1. f.hdr.nbd \in 0 .. MaxDirPages /\ MaxDirPages \in Nat BY <1>3, FileTypes
    <3> QED BY <3>1
  <2>2. Ahead(disk', g, safe') BY <1>1, <1>3, <1>4 DEF WriterAhead, Ahead
  <2> QED BY <1>1, <1>4, <2>1, <2>2 DEF WriterAhead
<1>7. KeptPages(disk, disk', header.fsiz) BY <1>1, NothingWritten
<1> QED BY <1>1, <1>3, <1>5, <1>6, <1>7, WriterSurvives

LEMMA FinishedSurvives ==
  ASSUME SInv, IInv', NEW p \in Procs, Checkpointed(p) \/ CloseSeal(p)
  PROVE  SInv' /\ SlotKeepsItsRecord
<1> DEFINE f == tab[p]
           o == [f EXCEPT !.st = "open", !.modified = FALSE, !.xdf_checkpoint = FALSE]
           new == [f.hdr EXCEPT !.rwflg = RDMODE]
<1>1. /\ f.st = "closing" /\ PagesToWrite(f) = {} /\ disk' = disk /\ safe' = LiveRecords(f)
      /\ \/ Sets(p, o) /\ header' = header
         \/ Sets(p, Closed) /\ header' = new
  BY DEF Checkpointed, CloseSeal, Sets
<1>2. f \in FileEntry /\ PInv(disk, header, size, f) BY SFacts, Facts
<1>3. Active(f) BY <1>1, <1>2 DEF PInv, Active
<1>4. /\ header.nbd \in Nat /\ header.fsiz \in Nat
      /\ WriterAhead(disk, header, safe, f) /\ OnlyWriter(p) /\ WriterOK(disk, header, size, f)
  BY <1>3, SFacts
<1>5. AllImages(disk, f) BY <1>1, <1>2, <1>4, AllWritten
<1>6. /\ header.nbd = f.hdr.nbd /\ header.fsiz = f.hdr.fsiz /\ f.npages = f.hdr.nbd
      /\ Pages(disk, f)
  BY <1>1, <1>4 DEF WriterAhead, WriterOK
<1>7. \A r \in LiveRecords(f) : Findable(disk, header.nbd, r)
  BY <1>2, <1>5, <1>6, FindableWritten
<1>8. new.nbd = f.hdr.nbd /\ new.fsiz = f.hdr.fsiz BY <1>2, FileTypes DEF Header
<1>9. o.page = f.page /\ o.npages = f.npages /\ o.hdr = f.hdr /\ o.st = "open"
  BY <1>2 DEF FileEntry
<1> HIDE DEF o, new
<1>10. WriterAhead(disk, header, LiveRecords(f), o)
  <2>1. Ahead(disk, f, LiveRecords(f)) BY <1>2, <1>5, ImagesAhead
  <2>2. Ahead(disk, o, LiveRecords(f)) BY <1>9, <2>1 DEF Ahead
  <2> QED BY <1>4, <1>6, <1>9, <2>2 DEF WriterAhead
<1>11. header'.nbd = header.nbd /\ header'.fsiz = header.fsiz BY <1>1, <1>6, <1>8
<1>12. \A r \in safe' : Findable(disk', header'.nbd, r) BY <1>1, <1>7, <1>11
<1>13. KeptPages(disk, disk', header.fsiz) BY <1>1, NothingWritten
<1>14. header.fsiz <= header'.fsiz /\ header.nbd <= header'.nbd BY <1>4, <1>11
<1>15. CASE Sets(p, o) /\ header' = header
  <2>1. WriterAhead(disk', header', safe', o) BY <1>1, <1>10, <1>15
  <2> QED BY <1>1, <1>4, <1>12, <1>13, <1>14, <1>15, <2>1, WriterSurvives
<1>16. CASE Sets(p, Closed)
  BY <1>1, <1>4, <1>12, <1>13, <1>14, <1>16, ClosedGood, WriterSurvives
<1> QED BY <1>1, <1>15, <1>16

LEMMA ClosePageSurvives ==
  ASSUME SInv, IInv', NEW p \in Procs, NEW i \in PageNos, ClosePage(p, i)
  PROVE  SInv' /\ SlotKeepsItsRecord
<1> DEFINE f == tab[p]
           b == f.page[i].addr
           m == Flagged(f.page[i], FALSE)
           pg == [f.page EXCEPT ![i] = m]
           g == [f EXCEPT !.st = "closing", !.page = pg]
<1>1. /\ f.st = "marked" /\ i \in PagesToWrite(f) /\ Sets(p, g) /\ header' = header
      /\ disk' = [disk EXCEPT ![b] = Image(f.page[i])] /\ safe' = safe
  BY DEF ClosePage, NextToWrite, Sets
<1>2. f \in FileEntry /\ PInv(disk, header, size, f) BY SFacts, Facts
<1>3. Active(f) BY <1>1, <1>2 DEF PInv, Active
<1>4. /\ disk \in [Addr -> Word] /\ header.nbd \in Nat /\ header.fsiz \in Nat
      /\ NoUsedPageBeyond(disk, header.fsiz)
      /\ WriterAhead(disk, header, safe, f) /\ OnlyWriter(p) /\ WriterOK(disk, header, size, f)
      /\ \A r \in safe : Findable(disk, header.nbd, r)
  BY <1>3, SFacts
<1>5. /\ header.fsiz = f.hdr.fsiz /\ header.nbd = f.hdr.nbd /\ f.npages = f.hdr.nbd
      /\ Pages(disk, f) /\ Ahead(disk, f, safe)
  BY <1>1, <1>4 DEF WriterOK, WriterAhead
<1>6. i \in 1 .. f.npages BY <1>1, <1>5 DEF PagesToWrite
<1>7. b \in Addr /\ b <= header.fsiz /\ disk[b].kind = "page" BY <1>5, <1>6 DEF Pages
<1>8. f.page[i] \in MemPage /\ f.page[i].nent \in Nat BY <1>2, FileTypes, PageTypes
<1>9. /\ disk'[b] = Image(f.page[i]) /\ disk'[b].kind = "page"
      /\ disk'[b].nent = f.page[i].nent /\ disk'[b].nxt = f.page[i].nxt
      /\ disk'[b].ent = f.page[i].ent
  BY <1>1, <1>4, <1>7 DEF Image
<1>10. \A a \in Addr : a # b => disk'[a] = disk[a] BY <1>1, <1>4
<1>11. Continues(disk[b], disk'[b], safe)
  <2>1. Continues(disk[b], f.page[i], safe) BY <1>5, <1>6 DEF Ahead
  <2> HIDE DEF b, f
  <2> QED BY <1>9, <2>1 DEF Continues
<1>12. /\ m.addr = b /\ m.nxt = f.page[i].nxt /\ m.nent = f.page[i].nent /\ m.ent = f.page[i].ent
  BY <1>8 DEF Flagged, MemPage
<1>13. \A j \in PageNos : pg[j] = IF j = i THEN m ELSE f.page[j] BY <1>2 DEF FileEntry
<1> HIDE DEF m, pg
<1>14. g.page = pg /\ g.npages = f.npages /\ g.hdr = f.hdr BY <1>2 DEF FileEntry
<1> HIDE DEF g
<1>15. Ahead(disk', g, safe)
  <2> SUFFICES ASSUME NEW j \in 1 .. f.npages
               PROVE  Continues(disk'[g.page[j].addr], g.page[j], safe)
    BY <1>14 DEF Ahead
  <2>1. g.page[j] = IF j = i THEN m ELSE f.page[j]
    BY <1>2, <1>13, <1>14, FileTypes
  <2>2. CASE j = i
    <3>1. g.page[j] = m BY <2>1, <2>2
    <3> QED BY <1>8, <1>9, <1>12, <3>1, SameContinues
  <2>3. CASE j # i
    <3>1. f.page[j].addr # b /\ f.page[j].addr \in Addr BY <1>5, <1>6, <2>3 DEF Pages
    <3>2. disk'[f.page[j].addr] = disk[f.page[j].addr] BY <1>10, <3>1
    <3>3. Continues(disk[f.page[j].addr], f.page[j], safe) BY <1>5 DEF Ahead
    <3> QED BY <2>1, <2>3, <3>2, <3>3
  <2> QED BY <2>2, <2>3
<1>16. WriterAhead(disk', header', safe', g)
  BY <1>1, <1>4, <1>5, <1>14, <1>15 DEF WriterAhead
<1>17. tab \in [Procs -> FileEntry] BY DEF SInv, IInv, TypeInv, TypeOK
<1>18. \A q \in Procs : tab'[q] = IF q = p THEN g ELSE tab[q] BY <1>1, <1>17 DEF Sets
<1>19. \A q \in Procs : Active(tab'[q]) => WriterAhead(disk', header', safe', tab'[q])
  BY <1>4, <1>16, <1>18 DEF OnlyWriter
<1>20. NoUsedPageBeyond(disk', header'.fsiz)
  BY <1>1, <1>4, <1>7, <1>10 DEF NoUsedPageBeyond
<1>21. \A r \in safe : Findable(disk', header.nbd, r)
  BY <1>4, <1>8, <1>9, <1>10, <1>11, FindableRewritten
<1>22. SInv' BY <1>1, <1>19, <1>20, <1>21 DEF SInv
<1>23. SlotKeepsItsRecord
  <2>0. \A a \in Addr : disk[a].kind = "page" => disk[a].nent \in Nat BY <1>4, DiskPages
  <2> SUFFICES ASSUME NEW a \in Addr, disk[a].kind = "page", NEW s \in 1 .. disk[a].nent
               PROVE  /\ disk'[a].kind = "page" /\ s <= disk'[a].nent
                      /\ RecordOf(disk'[a].ent[s]) = RecordOf(disk[a].ent[s])
                      /\ disk[a].ent[s].id = "dead" => disk'[a].ent[s].id = "dead"
    BY DEF SlotKeepsItsRecord
  <2>1. CASE a # b BY <1>10, <2>0, <2>1
  <2>2. CASE a = b
    <3>1. disk'[b].nent \in Nat BY <1>8, <1>9
    <3>2. disk[b].nent \in Nat BY <1>7, <2>0
    <3> HIDE DEF b
    <3> QED BY <1>9, <1>11, <2>2, <3>1, <3>2 DEF Continues
  <2> QED BY <2>1, <2>2
<1> QED BY <1>22, <1>23

(***************************************************************************)
(* Put at the end: the page that the record may need, then the record and  *)
(* its entry, then the erasure of the record it replaces.                  *)
(***************************************************************************)
LEMMA RoomyAhead ==
  ASSUME NEW d \in [Addr -> Word], NEW f \in FileEntry, f.npages = f.hdr.nbd, f.npages >= 1,
         LastPageFull(f) => CanAddPage(f), Pages(d, f), LastPageEnds(f), NEW S, Ahead(d, f, S)
  PROVE  LET g == Roomy(f)
             e == RoomyDisk(d, f) IN
         /\ Ahead(e, g, S)
         /\ g.hdr.nbd >= f.hdr.nbd
         /\ \A i \in 1 .. f.npages :
              /\ i \in 1 .. g.npages
              /\ g.page[i].nent = f.page[i].nent /\ g.page[i].ent = f.page[i].ent
         /\ \A b \in Addr : Used(e[b]) => e[b] = d[b]
<1>0. f.npages \in Nat /\ f.hdr.nbd \in Nat BY FileTypes
<1>1. CASE ~LastPageFull(f)
  BY <1>0, <1>1 DEF Roomy, RoomyDisk
<1>2. CASE LastPageFull(f)
  <2> DEFINE g == WithNewPage(f)
             a == f.hdr.fsiz + 1
             e == [d EXCEPT ![a] = EmptyPage]
  <2>1. /\ a \in Addr /\ g \in FileEntry /\ g.npages = f.npages + 1 /\ g.hdr.nbd = g.npages
        /\ g.hdr.fsiz = a /\ f.npages + 1 \in PageNos
        /\ g.page = [i \in PageNos |-> IF i = f.npages + 1 THEN NewPage(a)
                                       ELSE IF i = f.npages THEN LinkTo(f.page[i], a)
                                       ELSE f.page[i]]
    BY <1>2, WithNewPageFields
  <2>2. g = Roomy(f) /\ e = RoomyDisk(d, f) BY <1>2, <2>1 DEF Roomy, RoomyDisk
  <2>3. \A b \in Addr : e[b] = IF b = a THEN EmptyPage ELSE d[b] OBVIOUS
  <2>4. f.hdr.fsiz \in Nat BY FileTypes
  <2> HIDE DEF g, e
  <2>5. \A i \in 1 .. f.npages + 1 : i \in PageNos
    <3>1. MaxDirPages \in Nat BY XdfAssumption
    <3> QED BY <1>0, <2>1, <3>1 DEF PageNos
  <2>6. \A i \in 1 .. f.npages : f.page[i] \in MemPage BY FileTypes
  <2>7. \A i \in 1 .. f.npages : g.page[i] = IF i = f.npages THEN LinkTo(f.page[i], a) ELSE f.page[i]
    BY <1>0, <2>1, <2>5
  <2>8. \A i \in 1 .. f.npages :
          g.page[i].nent = f.page[i].nent /\ g.page[i].ent = f.page[i].ent /\ g.page[i].addr = f.page[i].addr
    BY <2>6, <2>7 DEF LinkTo, MemPage
  <2>9. ASSUME NEW i \in 1 .. f.npages PROVE Continues(e[g.page[i].addr], g.page[i], S)
    <3>1. f.page[i].addr \in Addr /\ f.page[i].addr <= f.hdr.fsiz /\ d[f.page[i].addr].kind = "page"
      BY DEF Pages
    <3>2. f.page[i].addr # a BY <2>4, <3>1 DEF Addr
    <3>3. e[g.page[i].addr] = d[f.page[i].addr] BY <2>3, <2>8, <3>1, <3>2
    <3>4. d[f.page[i].addr].nent \in Nat /\ f.page[i].nent \in Nat
      BY <2>6, <3>1, DiskPages, PageTypes
    <3>5. Continues(d[f.page[i].addr], f.page[i], S) BY DEF Ahead
    <3>6. Continues(f.page[i], g.page[i], S)
      <4>1. CASE i = f.npages
        <5>1. f.page[i].nxt = 0 BY <4>1 DEF LastPageEnds
        <5>2. g.page[i] = LinkTo(f.page[i], a) BY <2>7, <4>1
        <5>3. f.page[i] \in MemPage BY <2>6
        <5> HIDE DEF a
        <5> QED BY <5>1, <5>2, <5>3, PageOpsContinue
      <4>2. CASE i # f.npages BY <2>7, <3>4, <4>2, SameContinues
      <4> QED BY <4>1, <4>2
    <3> QED BY <2>8, <3>3, <3>4, <3>5, <3>6, ContinuesTwice
  <2>10. Continues(e[g.page[f.npages + 1].addr], g.page[f.npages + 1], S)
    <3>1. g.page[f.npages + 1] = NewPage(a) BY <2>1
    <3>2. NewPage(a).addr = a BY DEF NewPage, NoMemPage
    <3>3. g.page[f.npages + 1] \in MemPage BY <2>1, FileTypes
    <3> QED BY <2>1, <2>3, <3>1, <3>2, <3>3, EmptyContinues
  <2>11. Ahead(e, g, S)
    <3>1. \A i \in 1 .. g.npages : i \in 1 .. f.npages \/ i = f.npages + 1 BY <1>0, <2>1
    <3> QED BY <2>9, <2>10, <3>1 DEF Ahead
  <2>12. ~Used(EmptyPage) BY DEF Used, EmptyPage
  <2>13. \A b \in Addr : Used(e[b]) => e[b] = d[b] BY <2>3, <2>12
  <2>14. g.hdr.nbd >= f.hdr.nbd /\ \A i \in 1 .. f.npages : i \in 1 .. g.npages BY <1>0, <2>1
  <2> QED BY <2>2, <2>8, <2>11, <2>13, <2>14
<1> QED BY <1>1, <1>2

LEMMA PutAtEndSurvives ==
  ASSUME SInv, IInv', NEW p \in Procs, tab[p].st = "open", Writable(tab[p]),
         NEW h \in LiveHandles(tab[p]) \cup {NoHandle}, NEW k \in Keys, NEW l \in Lengths,
         PutAtEnd(p, h, k, l)
  PROVE  SInv' /\ SlotKeepsItsRecord
<1> DEFINE f == tab[p]
           g == Roomy(f)
           w == Appended(g, k, l)
           d == RoomyDisk(disk, f)
           e == WithRecord(d, g.hdr.fsiz + 1, k, l)
           t == IF h = NoHandle THEN w ELSE Erase(w, h)
           m == EraseEntry(w.page[h[1]], h[2])
<1>1. /\ LastPageFull(f) => CanAddPage(f)
      /\ g.hdr.fsiz + l <= MaxAddr
      /\ disk' = e /\ Sets(p, t) /\ header' = header
      /\ safe' = IF h = NoHandle THEN safe ELSE safe \ {RecordOf(EntryAt(f, h))}
  BY DEF PutAtEnd, Sets, Roomy, RoomyDisk
<1>2. f \in FileEntry /\ Counted(f) /\ HeldGood(disk, f, f.hdr.fsiz)
  BY SFacts, Facts DEF PInv, Active, Bound
<1>3. /\ disk \in [Addr -> Word] /\ header.nbd \in Nat /\ header.fsiz \in Nat
      /\ WriterAhead(disk, header, safe, f) /\ OnlyWriter(p) /\ WriterOK(disk, header, size, f)
  BY SFacts DEF Active
<1>4. /\ Pages(disk, f) /\ LastPageEnds(f) /\ header.fsiz <= f.hdr.fsiz
      /\ f.npages = f.hdr.nbd /\ f.npages >= 1 /\ Ahead(disk, f, safe)
      /\ header.nbd <= f.hdr.nbd
  BY <1>2, <1>3 DEF WriterOK, WriterAhead, Counted
<1>5. /\ g \in FileEntry /\ g.npages \in PageNos /\ ~LastPageFull(g) /\ g.st = f.st
      /\ f.hdr.fsiz <= g.hdr.fsiz
  BY <1>1, <1>2, <1>4, RoomyFields
<1>6. /\ d \in [Addr -> Word]
      /\ Pages(d, g) /\ HeldGood(d, g, g.hdr.fsiz) /\ LastPageEnds(g)
      /\ KeptPages(disk, d, f.hdr.fsiz)
  BY <1>1, <1>2, <1>3, <1>4, RoomyGood
<1>7. /\ Ahead(d, g, safe) /\ g.hdr.nbd >= f.hdr.nbd
      /\ \A i \in 1 .. f.npages :
           /\ i \in 1 .. g.npages
           /\ g.page[i].nent = f.page[i].nent /\ g.page[i].ent = f.page[i].ent
      /\ \A b \in Addr : Used(d[b]) => d[b] = disk[b]
  BY <1>1, <1>2, <1>3, <1>4, RoomyAhead
<1> HIDE DEF g, d
<1>8. Pages(e, w) /\ KeptPages(d, e, g.hdr.fsiz) /\ \A b \in Addr : e[b].kind = "page" => e[b] = d[b]
  BY <1>1, <1>5, <1>6, AppendGood
<1>9. /\ w \in FileEntry /\ w.npages = g.npages /\ w.hdr.nbd = g.hdr.nbd /\ w.st = g.st
  BY <1>1, <1>5, AppendedFields
<1>10. \A i \in 1 .. g.npages :
         /\ i \in PageNos
         /\ w.page[i] = IF i = g.npages THEN AddEntry(g.page[i], NewEntry(g, k, l)) ELSE g.page[i]
  BY <1>5, FileTypes, AppendedPages
<1>11. e \in [Addr -> Word]
  <2>1. disk' \in [Addr -> Word] BY DEF IInv, TypeInv, TypeOK
  <2> QED BY <1>1, <2>1
<1>12. e = disk' BY <1>1
<1> HIDE DEF w, e
<1>13. ASSUME NEW i \in 1 .. g.npages
       PROVE  /\ w.page[i].addr = g.page[i].addr
              /\ Continues(g.page[i], w.page[i], safe)
              /\ \A s \in 1 .. g.page[i].nent : w.page[i].ent[s] = g.page[i].ent[s]
  <2>1. g.page[i] \in MemPage /\ g.page[i].nent \in Nat BY <1>5, <1>10, FileTypes, PageTypes
  <2>2. CASE i # g.npages
    <3>1. w.page[i] = g.page[i] BY <1>10, <2>2
    <3> QED BY <2>1, <3>1, SameContinues
  <2>3. CASE i = g.npages
    <3> DEFINE x == NewEntry(g, k, l)
    <3>1. g.page[i].nent < EntriesPerPage BY <1>5, <2>1, <2>3, XdfAssumption DEF LastPageFull
    <3>2. w.page[i] = AddEntry(g.page[i], x) BY <1>10, <2>3
    <3>3. AddEntry(g.page[i], x).addr = g.page[i].addr BY <2>1 DEF AddEntry, MemPage
    <3>4. \A s \in 1 .. g.page[i].nent : AddEntry(g.page[i], x).ent[s] = g.page[i].ent[s]
      BY <2>1 DEF AddEntry, MemPage, Slots
    <3> HIDE DEF x
    <3> QED BY <2>1, <3>1, <3>2, <3>3, <3>4, PageOpsContinue
  <2> QED BY <2>2, <2>3
<1>14. Ahead(e, w, safe)
  <2>1. Ahead(e, g, safe) BY <1>6, <1>7, <1>8, AheadKept
  <2> SUFFICES ASSUME NEW i \in 1 .. g.npages PROVE Continues(e[w.page[i].addr], w.page[i], safe)
    BY <1>9 DEF Ahead
  <2>2. Continues(e[g.page[i].addr], g.page[i], safe) BY <2>1 DEF Ahead
  <2>3. g.page[i].nent \in Nat /\ w.page[i].nent \in Nat
    BY <1>5, <1>9, <1>10, FileTypes, PageTypes
  <2>4. e[w.page[i].addr].nent \in Nat BY <1>8, <1>9, <1>11, DiskPages DEF Pages
  <2> QED BY <1>13, <2>2, <2>3, <2>4, ContinuesTwice
<1>15. /\ t \in FileEntry /\ t.hdr.nbd = w.hdr.nbd /\ t.st = w.st /\ Ahead(e, t, safe')
  <2>1. CASE h = NoHandle BY <1>1, <1>9, <1>14, <2>1
  <2>2. CASE h # NoHandle
    <3>1. h \in LiveHandles(f) /\ h \in PageNos \X Slots /\ h[1] \in PageNos /\ h[2] \in Slots
      BY <1>2, <2>2, HandleTypes
    <3>2. h[1] \in 1 .. f.npages /\ h[2] \in 1 .. f.page[h[1]].nent
      <4>1. f.npages \in Nat /\ f.page[h[1]].nent \in Nat BY <1>2, <3>1, FileTypes, PageTypes
      <4> QED BY <3>1, <4>1 DEF LiveHandles, PageNos, Slots
    <3>3. w.page[h[1]].ent[h[2]] = EntryAt(f, h)
      <4>1. /\ h[1] \in 1 .. g.npages
            /\ g.page[h[1]].nent = f.page[h[1]].nent /\ g.page[h[1]].ent = f.page[h[1]].ent
        BY <1>7, <3>2
      <4>2. h[2] \in 1 .. g.page[h[1]].nent BY <3>2, <4>1
      <4>3. w.page[h[1]].ent[h[2]] = g.page[h[1]].ent[h[2]] BY <1>13, <4>1, <4>2
      <4> QED BY <4>1, <4>3 DEF EntryAt
    <3>4. EntryAt(f, h).id = "live" BY <3>1 DEF LiveHandles, EntryAt
    <3>5. /\ Erase(w, h) \in FileEntry /\ Erase(w, h).hdr.nbd = w.hdr.nbd
          /\ Erase(w, h).npages = w.npages /\ Erase(w, h).st = w.st
          /\ Erase(w, h).page = [w.page EXCEPT ![h[1]] = m]
      BY <1>9, <3>1, EraseFields
    <3>6. w.page[h[1]] \in MemPage BY <1>9, <3>1, FileTypes
    <3>7. m.addr = w.page[h[1]].addr BY <3>6 DEF EraseEntry, MemPage
    <3>8. Continues(w.page[h[1]], m, safe') BY <1>1, <2>2, <3>1, <3>3, <3>4, <3>6, PageOpsContinue
    <3>9. t = Erase(w, h) /\ safe' \subseteq safe BY <1>1, <2>2
    <3> HIDE DEF m, t
    <3>10. t.page = [w.page EXCEPT ![h[1]] = m] /\ t \in FileEntry /\ t.npages = w.npages
      BY <3>5, <3>9
    <3>11. Ahead(e, t, safe') BY <1>8, <1>9, <1>11, <1>14, <3>1, <3>7, <3>8, <3>9, <3>10, AheadOnePage
    <3> QED BY <3>5, <3>9, <3>11
  <2> QED BY <2>1, <2>2
<1>16. /\ t.hdr.nbd = g.hdr.nbd /\ t.st = "open" BY <1>5, <1>9, <1>15
<1> HIDE DEF t
<1>17. WriterAhead(disk', header', safe', t)
  <2>1. header.nbd <= g.hdr.nbd
    <3>1. f.hdr.nbd \in Nat /\ g.hdr.nbd \in Nat BY <1>2, <1>5, FileTypes
    <3> QED BY <1>3, <1>4, <1>7, <3>1
  <2> QED BY <1>1, <1>12, <1>15, <1>16, <2>1 DEF WriterAhead
<1>18. KeptPages(disk, disk', header.fsiz)
  <2>1. f.hdr.fsiz \in Nat /\ g.hdr.fsiz \in Nat BY <1>2, <1>5, FileTypes
  <2>2. KeptPages(disk, e, f.hdr.fsiz) BY <1>5, <1>6, <1>8, <2>1, KeptTwice
  <2>3. KeptPages(disk, disk, header.fsiz) BY NothingWritten
  <2> QED BY <1>3, <1>4, <1>12, <2>1, <2>2, <2>3, KeptTwice
<1>19. \A a \in Addr : Used(disk'[a]) => disk'[a] = disk[a]
  <2> SUFFICES ASSUME NEW a \in Addr, Used(e[a]) PROVE e[a] = disk[a] BY <1>12
  <2>1. e[a] = d[a] BY <1>8 DEF Used
  <2> QED BY <1>7, <2>1
<1>20. header.fsiz <= header'.fsiz /\ header.nbd <= header'.nbd /\ safe' \subseteq safe
  BY <1>1, <1>3
<1> QED BY <1>1, <1>3, <1>17, <1>18, <1>19, <1>20, WriterSurvives

LEMMA XdfPutSurvives ==
  ASSUME SInv, IInv', NEW p \in Procs,
         \/ \E k \in Keys, l \in Lengths, rewrit \in BOOLEAN : FstEcr(p, k, l, rewrit)
         \/ \E h \in LiveHandles(tab[p]), k \in Keys, l \in Lengths : MrfPut(p, h, k, l)
  PROVE  SInv' /\ SlotKeepsItsRecord
<1> DEFINE f == tab[p]
<1>0. f \in FileEntry BY SFacts
<1>1. ASSUME NEW k \in Keys, NEW l \in Lengths, NEW rewrit \in BOOLEAN, FstEcr(p, k, l, rewrit)
      PROVE  SInv' /\ SlotKeepsItsRecord
  <2>1. PICK h \in IF rewrit THEN FirstMatch(f, k) ELSE {NoHandle} : XdfPut(p, h, k, l, FALSE)
    BY <1>1 DEF FstEcr
  <2>2. h \in LiveHandles(f) \cup {NoHandle} BY <1>0, HandleTypes
  <2>3. h # NoHandle => EntryAt(f, h).key = k BY DEF FirstMatch
  <2>4. f.st = "open" /\ Writable(f) BY <2>1 DEF XdfPut
  <2>5. CASE PutAtEnd(p, h, k, l) BY <2>2, <2>4, <2>5, PutAtEndSurvives
  <2>6. CASE h # NoHandle /\ EntryAt(f, h).lng = l /\ PutInPlace(p, h, k, l)
    BY <2>2, <2>3, <2>4, <2>6, PutInPlaceSurvives
  <2> QED BY <2>1, <2>5, <2>6 DEF XdfPut
<1>2. ASSUME NEW h \in LiveHandles(f), NEW k \in Keys, NEW l \in Lengths, MrfPut(p, h, k, l)
      PROVE  SInv' /\ SlotKeepsItsRecord
  <2>1. f.st = "open" /\ Writable(f) /\ PutAtEnd(p, h, k, l) BY <1>2 DEF MrfPut, XdfPut
  <2> QED BY <2>1, PutAtEndSurvives
<1> QED BY <1>1, <1>2

(***************************************************************************)
(* The invariant holds initially, and every step keeps it.                 *)
(***************************************************************************)
LEMMA InitSurvives == Init => SInv
<1> SUFFICES ASSUME Init PROVE SInv OBVIOUS
<1>1. IInv BY InitGood
<1>2. NoUsedPageBeyond(disk, header.fsiz) BY DEF Init, Blank, NoUsedPageBeyond, Used
<1>3. \A p \in Procs : ~Active(tab[p]) BY ClosedGood DEF Init
<1>4. safe = {} BY DEF Init
<1> QED BY <1>1, <1>2, <1>3, <1>4 DEF SInv

LEMMA StepSurvives ==
  ASSUME Coordinated, SInv, [Next]_vars
  PROVE  SInv' /\ [SlotKeepsItsRecord]_vars
<1>1. IInv' BY StepGood DEF SInv
<1>2. CASE UNCHANGED vars
  <2>1. disk' = disk /\ header' = header /\ tab' = tab /\ safe' = safe BY <1>2 DEF vars
  <2>2. SInv' BY <1>1, <2>1 DEF SInv
  <2> QED BY <1>2, <2>2
<1>3. ASSUME NEW p \in Procs, Step(p) PROVE SInv' /\ SlotKeepsItsRecord
  BY <1>1, <1>3, CreateSurvives, OpenHeaderSurvives, OpenPageSurvives, XdfDelSurvives,
     XdfPutSurvives, PutDirFullSurvives, CloseReaderSurvives, CloseHeaderSurvives,
     CloseMarksSurvives, ClosePageSurvives, FinishedSurvives, Zenon
     DEF Step
<1> QED BY <1>2, <1>3 DEF Next

(***************************************************************************)
(* Chain, which is recursive, follows the links of the pages on disk: by   *)
(* the least page number for which it would not.                           *)
(***************************************************************************)
LEMMA Least ==
  ASSUME NEW T \in SUBSET Nat, T # {}
  PROVE  \E n \in T : \A m \in T : n <= m
<1> DEFINE R == {ss \in Nat \X Nat : ss[1] < ss[2]}
<1>1. IsWellFoundedOn(R, Nat) BY NatLessThanWellFounded DEF OpToRel
<1>2. \A x, y \in Nat : x < y => <<x, y>> \in R OBVIOUS
<1> HIDE DEF R
<1>3. PICK x \in T : \A y \in T : ~(<<y, x>> \in R) BY <1>1, WFMin
<1>4. \A y \in T : ~(y < x) BY <1>2, <1>3
<1> QED BY <1>4

After(a) == IF IsPage(a) THEN disk[a].nxt ELSE 0

Follows(g, n) == \A i \in 1 .. n : g[i] = IF i = 1 THEN 1 ELSE After(g[i - 1])

LEMMA FollowsExists == \A n \in Nat : \E g : Follows(g, n)
<1> DEFINE T == {n \in Nat : ~\E g : Follows(g, n)}
<1>1. CASE T # {}
  <2>1. PICK n \in T : \A m \in T : n <= m BY <1>1, Least
  <2>2. n \in Nat /\ ~\E g : Follows(g, n) OBVIOUS
  <2>3. n # 0 BY <2>2 DEF Follows
  <2>4. n - 1 \in Nat /\ n - 1 \notin T BY <2>1, <2>2, <2>3
  <2>5. PICK g : Follows(g, n - 1) BY <2>4
  <2> DEFINE h == [i \in 1 .. n |-> IF i < n THEN g[i] ELSE IF n = 1 THEN 1 ELSE After(g[n - 1])]
  <2>6. \A i \in 1 .. n : h[i] = IF i < n THEN g[i] ELSE IF n = 1 THEN 1 ELSE After(g[n - 1])
    OBVIOUS
  <2> HIDE DEF h
  <2>7. ASSUME NEW i \in 1 .. n PROVE h[i] = IF i = 1 THEN 1 ELSE After(h[i - 1])
    <3>1. i # 1 => h[i - 1] = g[i - 1] BY <2>2, <2>6
    <3>2. CASE i < n BY <2>2, <2>5, <2>6, <3>1, <3>2 DEF Follows
    <3>3. CASE i = n BY <2>2, <2>6, <3>1, <3>3
    <3> QED BY <2>2, <3>2, <3>3
  <2>8. Follows(h, n) BY <2>7 DEF Follows
  <2> QED BY <2>2, <2>8
<1> QED BY <1>1

LEMMA ChainFollows == Follows(Chain, MaxDirPages)
<1> DEFINE F(g) == [i \in PageNos |->
                      IF i = 1 THEN 1 ELSE IF IsPage(g[i - 1]) THEN disk[g[i - 1]].nxt ELSE 0]
<1>0. MaxDirPages \in Nat BY XdfAssumption
<1>1. \E g : g = F(g)
  <2>1. PICK h : Follows(h, MaxDirPages) BY <1>0, FollowsExists
  <2> DEFINE g == [i \in PageNos |-> h[i]]
  <2>2. \A i \in PageNos : g[i] = h[i] OBVIOUS
  <2>3. g = F(h) BY <1>0, <2>1 DEF Follows, PageNos, After
  <2> HIDE DEF g
  <2>4. \A i \in PageNos : i # 1 => i - 1 \in PageNos BY <1>0 DEF PageNos
  <2>5. F(h) = F(g) BY <2>2, <2>4
  <2> QED BY <2>3, <2>5
<1> DEFINE c == CHOOSE g : g = F(g)
<1>2. Chain = c BY DEF Chain
<1>3. c = F(c) BY <1>1
<1> HIDE DEF c
<1>4. \A i \in PageNos :
        c[i] = IF i = 1 THEN 1 ELSE IF IsPage(c[i - 1]) THEN disk[c[i - 1]].nxt ELSE 0
  BY <1>3
<1> QED BY <1>0, <1>2, <1>4 DEF Follows, PageNos, After

LEMMA ChainLeads ==
  ASSUME NEW c, NEW n \in 1 .. MaxDirPages, Leads(disk, c, n)
  PROVE  \A i \in 1 .. n : Chain[i] = c[i]
<1>0. MaxDirPages \in Nat /\ n \in Nat BY XdfAssumption
<1> DEFINE T == {i \in 1 .. n : Chain[i] # c[i]}
<1>1. T \in SUBSET Nat BY <1>0
<1>2. CASE T # {}
  <2>1. PICK m \in T : \A i \in T : m <= i BY <1>1, <1>2, Least
  <2>2. m \in 1 .. n /\ Chain[m] # c[m] OBVIOUS
  <2>3. Chain[m] = IF m = 1 THEN 1 ELSE After(Chain[m - 1])
    BY <1>0, <2>2, ChainFollows DEF Follows
  <2>4. m # 1 BY <2>2, <2>3 DEF Leads
  <2>5. m - 1 \in 1 .. n - 1 /\ m - 1 \in 1 .. n /\ m - 1 \notin T BY <1>0, <2>1, <2>2, <2>4
  <2>6. Chain[m - 1] = c[m - 1] BY <2>5
  <2>7. IsPage(c[m - 1]) BY <2>5 DEF Leads, IsPage
  <2>8. disk[c[m - 1]].nxt = c[(m - 1) + 1] BY <2>5 DEF Leads
  <2>9. (m - 1) + 1 = m BY <1>0, <2>2
  <2> QED BY <2>2, <2>3, <2>4, <2>6, <2>7, <2>8, <2>9 DEF After
<1> QED BY <1>2

(***************************************************************************)
(* When the sites run at most one writing application at a time, a slot of *)
(* a directory page on disk keeps its record and an erasure that reached   *)
(* the disk is never undone, so that handles stay valid from one open to   *)
(* the next (c_xdfcls, c_xdfput, c_xdfdel), wherever applications stop.    *)
(***************************************************************************)
THEOREM StableSlots == ASSUME Coordinated PROVE Spec => SlotsAreStable
<1>1. Init => SInv BY InitSurvives
<1>2. SInv /\ [Next]_vars => SInv' /\ [SlotKeepsItsRecord]_vars BY StepSurvives
<1> QED BY <1>1, <1>2, PTL DEF Spec, SlotsAreStable

(***************************************************************************)
(* When the sites run at most one writing application at a time, a record  *)
(* that a completed close or checkpoint left in the file, and that nobody  *)
(* erased or moved since, is found by following the directory on disk, and *)
(* is whole, wherever the applications that wrote since have stopped.      *)
(***************************************************************************)
THEOREM Survival == ASSUME Coordinated PROVE Spec => []CommittedRecordsSurvive
<1>1. Init => SInv BY InitSurvives
<1>2. SInv /\ [Next]_vars => SInv' BY StepSurvives
<1>3. SInv => CommittedRecordsSurvive
  <2> SUFFICES ASSUME SInv, NEW r \in safe
               PROVE  \E as \in LiveOnDisk :
                        LET e == disk[as[1]].ent[as[2]] IN RecordOf(e) = r /\ Whole(e)
    BY DEF CommittedRecordsSurvive
  <2>1. /\ disk \in [Addr -> Word] /\ header \in Header /\ DiskGood(disk, header.fsiz)
        /\ MaxDirPages \in Nat /\ EntriesPerPage \in Nat
    BY XdfAssumption DEF SInv, IInv, TypeInv, TypeOK
  <2>2. header.nbd \in 0 .. MaxDirPages BY <2>1 DEF Header
  <2>3. PICK n \in 1 .. header.nbd : \E c : Leads(disk, c, n) /\ LiveOnPage(disk[c[n]], r)
    BY DEF SInv, Findable
  <2>4. PICK c : Leads(disk, c, n) /\ LiveOnPage(disk[c[n]], r) BY <2>3
  <2>5. n \in 1 .. MaxDirPages /\ n \in 1 .. n BY <2>1, <2>2
  <2>6. Chain[n] = c[n] BY <2>4, <2>5, ChainLeads
  <2>7. IsPage(c[n]) /\ c[n] \in Addr /\ disk[c[n]].kind = "page" BY <2>4, <2>5 DEF Leads, IsPage
  <2>8. PICK s \in 1 .. disk[c[n]].nent :
          disk[c[n]].ent[s].id = "live" /\ RecordOf(disk[c[n]].ent[s]) = r
    BY <2>4 DEF LiveOnPage
  <2>9. disk[c[n]].nent \in 0 .. EntriesPerPage
    <3>1. disk[c[n]] \in Word BY <2>1, <2>7
    <3> QED BY <2>7, <3>1 DEF Word, Blank, RecWord, PageImage
  <2>10. s \in Slots /\ s <= disk[c[n]].nent BY <2>1, <2>8, <2>9 DEF Slots
  <2>11. <<c[n], s>> \in LiveOnDisk BY <2>6, <2>7, <2>8, <2>10 DEF LiveOnDisk
  <2>12. Whole(disk[c[n]].ent[s]) BY <2>1, <2>7, <2>8 DEF DiskGood, Good, WholeIn, Whole
  <2> QED BY <2>8, <2>11, <2>12
<1> QED BY <1>1, <1>2, <1>3, PTL DEF Spec

---------------------------------------------------------------------------
(***************************************************************************)
(* Proof that the accounts of a random file are exact when the sites run   *)
(* one writing application at a time: an application that writes counts    *)
(* its live entries and gives no two records the same words                *)
(* (WriterAccountsForEveryWord), and a header on disk whose flag is down   *)
(* comes with its whole directory (CleanFileIsComplete).                   *)
(*                                                                         *)
(* A directory is in two places, in the memory of the application and in   *)
(* the pages of a clean file; both are functions from page numbers to      *)
(* pages, and the accounts are stated of such a function pg of n pages.    *)
(***************************************************************************)

EntryIn(pg, h) == pg[h[1]].ent[h[2]]

UsedIn(n, pg) == {h \in PageNos \X Slots : h[1] <= n /\ h[2] <= pg[h[1]].nent}
LiveIn(n, pg) == {h \in UsedIn(n, pg) : EntryIn(pg, h).id = "live"}

(***************************************************************************)
(* Every word of a record says how far it is from its first: two entries   *)
(* with a word in common would have the same address.                      *)
(***************************************************************************)
Apart(e, x) == e.lng >= 1 /\ x.lng >= 1 => e.addr # x.addr

Accounted(n, pg, nrec) ==
  /\ \A g, h \in UsedIn(n, pg) : g # h => Apart(EntryIn(pg, g), EntryIn(pg, h))
  /\ nrec = Cardinality(LiveIn(n, pg))

Clear(m) == \A s \in 1 .. m.nent : m.ent[s].id # "erased"

(***************************************************************************)
(* The invariant.  A clean file has exact accounts and no entry that waits *)
(* for its erasure to be written; an application that is opening the file  *)
(* has the counts of a clean header; one that has it open has exact        *)
(* accounts, and its erasures are in pages that the close will write, or,  *)
(* past the step that overwrites the record headers, has marked.           *)
(***************************************************************************)
OnDisk(d, c, n) == [i \in 1 .. n |-> d[c[i]]]

CleanAccounts(d, H) ==
  H.rwflg = RDMODE =>
    \E c \in [1 .. H.nbd -> 1 .. H.fsiz] :
      /\ IsDir(d, c, H.nbd)
      /\ Accounted(H.nbd, OnDisk(d, c, H.nbd), H.nrec)
      /\ \A i \in 1 .. H.nbd : Clear(d[c[i]])

Entering(f) == f.st \in {"creating", "opening"}

Settled(f, i) ==
  \/ ~f.modified
  \/ ~f.page[i].modified
  \/ f.st = "marked" /\ NextToWrite(f, i)

WriterAccounts(H, f) ==
  /\ Entering(f) => H.rwflg = RDMODE /\ H.nbd = f.hdr.nbd /\ H.nrec = f.hdr.nrec
  /\ ~Entering(f) => Accounted(f.npages, f.page, f.hdr.nrec)
  /\ ~Entering(f) => \A i \in 1 .. f.npages : Settled(f, i) => Clear(f.page[i])

AInv ==
  /\ IInv
  /\ CleanAccounts(disk, header)
  /\ \A p \in Procs : Active(tab[p]) => WriterAccounts(header, tab[p])

(***************************************************************************)
(* Sets of handles are finite, so that one more and one less can be        *)
(* counted.                                                                *)
(***************************************************************************)
LEMMA HandlesFinite ==
  ASSUME NEW n, NEW pg
  PROVE  IsFiniteSet(LiveIn(n, pg))
<1>1. IsFiniteSet(1 .. MaxDirPages) /\ IsFiniteSet(1 .. EntriesPerPage)
  BY FS_Interval, XdfAssumption
<1>2. IsFiniteSet((1 .. MaxDirPages) \X (1 .. EntriesPerPage)) BY <1>1, FS_Product
<1>3. LiveIn(n, pg) \subseteq (1 .. MaxDirPages) \X (1 .. EntriesPerPage)
  BY DEF LiveIn, UsedIn, PageNos, Slots
<1> QED BY <1>2, <1>3, FS_Subset

LEMMA HandlesOf ==
  ASSUME NEW f
  PROVE  /\ UsedHandles(f) = UsedIn(f.npages, f.page)
         /\ LiveHandles(f) = LiveIn(f.npages, f.page)
         /\ \A h : EntryAt(f, h) = EntryIn(f.page, h)
BY DEF UsedHandles, LiveHandles, UsedIn, LiveIn, EntryAt, EntryIn

LEMMA InUse ==
  ASSUME NEW n \in 0 .. MaxDirPages, NEW pg, NEW h \in UsedIn(n, pg),
         \A i \in 1 .. n : pg[i].nent \in 0 .. EntriesPerPage
  PROVE  h[1] \in 1 .. n /\ h[1] \in PageNos /\ h[2] \in 1 .. pg[h[1]].nent /\ h[2] \in Slots
<1>1. h[1] \in PageNos /\ h[2] \in Slots /\ h[1] <= n /\ h[2] <= pg[h[1]].nent BY DEF UsedIn
<1>2. h[1] \in 1 .. n BY <1>1, XdfAssumption DEF PageNos
<1>3. pg[h[1]].nent \in 0 .. EntriesPerPage BY <1>2
<1>4. h[2] \in 1 .. pg[h[1]].nent
  <2> DEFINE m == pg[h[1]].nent
  <2>1. h[2] \in 1 .. EntriesPerPage /\ h[2] <= m /\ m \in 0 .. EntriesPerPage BY <1>1, <1>3 DEF Slots
  <2> HIDE DEF m
  <2>2. h[2] \in 1 .. m BY <2>1, XdfAssumption
  <2> QED BY <2>2 DEF m
<1> QED BY <1>1, <1>2, <1>4

(***************************************************************************)
(* The accounts depend on what is told of the entries: how many there are  *)
(* on each page, their addresses and lengths, and which are live.          *)
(***************************************************************************)
SameAccount(m, v) ==
  /\ v.nent = m.nent
  /\ \A s \in 1 .. m.nent :
       /\ v.ent[s].addr = m.ent[s].addr /\ v.ent[s].lng = m.ent[s].lng
       /\ v.ent[s].id = "live" <=> m.ent[s].id = "live"

LEMMA AccountsKept ==
  ASSUME NEW n \in 0 .. MaxDirPages, NEW pg, NEW qg, NEW N, Accounted(n, pg, N),
         \A i \in 1 .. n : pg[i].nent \in 0 .. EntriesPerPage /\ SameAccount(pg[i], qg[i])
  PROVE  Accounted(n, qg, N) /\ LiveIn(n, qg) = LiveIn(n, pg)
<1>1. UsedIn(n, qg) = UsedIn(n, pg)
  <2>1. ASSUME NEW h \in PageNos \X Slots, h[1] <= n PROVE qg[h[1]].nent = pg[h[1]].nent
    <3>1. h[1] \in 1 .. n BY <2>1, XdfAssumption DEF PageNos
    <3> QED BY <3>1 DEF SameAccount
  <2> QED BY <2>1 DEF UsedIn
<1>2. ASSUME NEW h \in UsedIn(n, pg)
      PROVE  /\ EntryIn(qg, h).addr = EntryIn(pg, h).addr /\ EntryIn(qg, h).lng = EntryIn(pg, h).lng
             /\ EntryIn(qg, h).id = "live" <=> EntryIn(pg, h).id = "live"
  <2>1. h[1] \in 1 .. n /\ h[2] \in 1 .. pg[h[1]].nent BY InUse
  <2> QED BY <2>1 DEF SameAccount, EntryIn
<1>3. LiveIn(n, qg) = LiveIn(n, pg) BY <1>1, <1>2 DEF LiveIn
<1>4. ASSUME NEW g \in UsedIn(n, qg), NEW h \in UsedIn(n, qg), g # h
      PROVE  Apart(EntryIn(qg, g), EntryIn(qg, h))
  <2>1. Apart(EntryIn(pg, g), EntryIn(pg, h)) BY <1>1, <1>4 DEF Accounted
  <2> QED BY <1>1, <1>2, <2>1 DEF Apart
<1> QED BY <1>3, <1>4 DEF Accounted

LEMMA NothingToCount ==
  ASSUME NEW n, NEW pg, \A h \in PageNos \X Slots : h[1] <= n => ~(h[2] <= pg[h[1]].nent)
  PROVE  \A N : Accounted(n, pg, N) <=> N = 0
<1>1. UsedIn(n, pg) = {} BY DEF UsedIn
<1>2. LiveIn(n, pg) = {} BY <1>1 DEF LiveIn
<1>3. Cardinality({}) = 0 BY FS_EmptySet
<1> QED BY <1>1, <1>2, <1>3 DEF Accounted

LEMMA NoPages ==
  ASSUME NEW pg
  PROVE  \A N : Accounted(0, pg, N) <=> N = 0
<1>1. \A h \in PageNos \X Slots : ~(h[1] <= 0) BY XdfAssumption DEF PageNos
<1> QED BY <1>1, NothingToCount

(***************************************************************************)
(* A write that keeps the pages up to what the header counts keeps the     *)
(* accounts of a clean file.                                               *)
(***************************************************************************)
LEMMA CleanAccountsKept ==
  ASSUME NEW d, NEW e, NEW H \in Header, CleanAccounts(d, H), KeptPages(d, e, H.fsiz)
  PROVE  CleanAccounts(e, H)
<1> SUFFICES ASSUME H.rwflg = RDMODE
             PROVE  \E c \in [1 .. H.nbd -> 1 .. H.fsiz] :
                      /\ IsDir(e, c, H.nbd)
                      /\ Accounted(H.nbd, OnDisk(e, c, H.nbd), H.nrec)
                      /\ \A i \in 1 .. H.nbd : Clear(e[c[i]])
  BY DEF CleanAccounts
<1>1. PICK c \in [1 .. H.nbd -> 1 .. H.fsiz] :
         /\ IsDir(d, c, H.nbd)
         /\ Accounted(H.nbd, OnDisk(d, c, H.nbd), H.nrec)
         /\ \A i \in 1 .. H.nbd : Clear(d[c[i]])
  BY DEF CleanAccounts
<1>2. H.nbd \in Nat BY XdfAssumption DEF Header
<1>3. \A i \in 1 .. H.nbd : e[c[i]] = d[c[i]]
  <2> SUFFICES ASSUME NEW i \in 1 .. H.nbd PROVE e[c[i]] = d[c[i]] OBVIOUS
  <2>1. c[i] \in Addr /\ d[c[i]].kind = "page" BY <1>1 DEF IsDir
  <2>2. c[i] <= H.fsiz BY <1>1
  <2> QED BY <2>1, <2>2 DEF KeptPages
<1>4. OnDisk(e, c, H.nbd) = OnDisk(d, c, H.nbd) BY <1>3 DEF OnDisk
<1>5. IsDir(e, c, H.nbd)
  <2>1. H.nbd >= 1 => H.nbd \in 1 .. H.nbd BY <1>2
  <2>2. \A i \in 1 .. H.nbd - 1 : i \in 1 .. H.nbd BY <1>2
  <2> QED BY <1>1, <1>3, <2>1, <2>2 DEF IsDir
<1> QED BY <1>1, <1>3, <1>4, <1>5

LEMMA SealedUncounted == \A d, H : H.rwflg # RDMODE => CleanAccounts(d, H)
BY DEF CleanAccounts

(***************************************************************************)
(* What the invariant says of an application before its step, and what is  *)
(* left to show of it after.                                               *)
(***************************************************************************)
LEMMA AFacts ==
  ASSUME AInv, NEW p \in Procs
  PROVE  /\ IInv /\ tab[p] \in FileEntry /\ Counted(tab[p]) /\ PInv(disk, header, size, tab[p])
         /\ disk \in [Addr -> Word] /\ header \in Header /\ header.fsiz \in Nat /\ header.nbd \in Nat
         /\ CleanAccounts(disk, header)
         /\ Active(tab[p]) =>
              /\ WriterAccounts(header, tab[p]) /\ OnlyWriter(p)
              /\ WriterOK(disk, header, size, tab[p])
              /\ HeldGood(disk, tab[p], tab[p].hdr.fsiz)
<1>1. IInv BY DEF AInv
<1>2. header.nbd \in Nat BY <1>1, Facts, XdfAssumption DEF Header
<1>3. Active(tab[p]) => WriterOK(disk, header, size, tab[p]) /\ HeldGood(disk, tab[p], tab[p].hdr.fsiz)
  BY <1>1, Facts, WriterInv DEF Active
<1> QED BY <1>1, <1>2, <1>3, Facts DEF AInv

LEMMA NextA ==
  ASSUME AInv, IInv', NEW p \in Procs, NEW g, Sets(p, g), OnlyWriter(p) \/ header' = header,
         CleanAccounts(disk', header'), Active(g) => WriterAccounts(header', g)
  PROVE  AInv'
<1>1. tab \in [Procs -> FileEntry] BY DEF AInv, IInv, TypeInv, TypeOK
<1>2. \A q \in Procs : tab'[q] = IF q = p THEN g ELSE tab[q] BY <1>1 DEF Sets
<1>3. ASSUME NEW q \in Procs, Active(tab'[q]) PROVE WriterAccounts(header', tab'[q])
  <2>1. CASE q = p BY <1>2, <1>3, <2>1
  <2>2. CASE q # p
    <3>1. tab'[q] = tab[q] BY <1>2, <2>2
    <3>2. ~OnlyWriter(p) BY <1>3, <2>2, <3>1 DEF OnlyWriter
    <3>3. header' = header BY <3>2
    <3> QED BY <1>3, <3>1, <3>3 DEF AInv
  <2> QED BY <2>1, <2>2
<1> QED BY <1>3 DEF AInv

LEMMA NextEntryA ==
  ASSUME AInv, IInv', NEW p \in Procs, NEW g, Sets(p, g)
  PROVE  /\ g \in FileEntry /\ Counted(g) /\ disk' \in [Addr -> Word]
         /\ Active(g) => WriterOK(disk', header', size', g) /\ HeldGood(disk', g, g.hdr.fsiz)
<1>1. /\ tab' \in [Procs -> FileEntry] /\ disk' \in [Addr -> Word]
      /\ \A q \in Procs : Counted(tab'[q]) /\ PInv(disk', header', size', tab'[q])
  BY DEF IInv, TypeInv, TypeOK, PagesCounted
<1>2. tab \in [Procs -> FileEntry] BY DEF AInv, IInv, TypeInv, TypeOK
<1>3. tab'[p] = g BY <1>2 DEF Sets
<1> QED BY <1>1, <1>3, WriterInv DEF Active

(***************************************************************************)
(* A step of an application that does not write afterwards, and changes    *)
(* nothing on disk.                                                        *)
(***************************************************************************)
LEMMA ReaderAccounts ==
  ASSUME AInv, IInv', NEW p \in Procs, NEW g, Sets(p, g), UNCHANGED <<disk, header>>, ~Active(g)
  PROVE  AInv'
<1>1. CleanAccounts(disk', header') BY DEF AInv
<1> QED BY <1>1, NextA

(***************************************************************************)
(* Creation.                                                               *)
(***************************************************************************)
LEMMA InitAccounts == Init => AInv
<1> SUFFICES ASSUME Init PROVE AInv OBVIOUS
<1>1. IInv BY InitGood
<1>2. header.rwflg # RDMODE BY DEF Init, NoFile, RDMODE
<1>3. \A p \in Procs : ~Active(tab[p]) BY DEF Init, Active, Closed
<1> QED BY <1>1, <1>2, <1>3, SealedUncounted DEF AInv

LEMMA CreateHeaderAccounts ==
  ASSUME Coordinated, AInv, IInv', NEW p \in Procs, CreateHeader(p)
  PROVE  AInv'
<1> DEFINE new == [NoFile EXCEPT !.rwflg = RDMODE]
           g == [Closed EXCEPT !.st = "creating", !.hdr = [new EXCEPT !.rwflg = CREATE]]
<1>1. /\ header = NoFile /\ header' = new /\ Sets(p, g) /\ disk' = disk
      /\ MayWrite(p)
  BY DEF CreateHeader, Sets
<1>2. header'.rwflg = RDMODE /\ header'.nbd = 0 /\ header'.nrec = 0 /\ header'.fsiz = 0
  BY <1>1 DEF NoFile
<1>3. /\ g.st = "creating" /\ g.hdr.nbd = 0 /\ g.hdr.nrec = 0
  BY DEF Closed, NoFile
<1>4. CleanAccounts(disk', header')
  <2> DEFINE c == [i \in 1 .. 0 |-> 1]
  <2>1. c \in [1 .. 0 -> 1 .. 0] OBVIOUS
  <2>2. IsDir(disk', c, 0) BY DEF IsDir
  <2>3. Accounted(0, OnDisk(disk', c, 0), 0) BY NoPages
  <2>4. \A i \in 1 .. 0 : Clear(disk'[c[i]]) OBVIOUS
  <2> HIDE DEF c
  <2> QED BY <1>2, <2>1, <2>2, <2>3, <2>4 DEF CleanAccounts
<1> HIDE DEF g
<1>5. WriterAccounts(header', g) BY <1>2, <1>3 DEF WriterAccounts, Entering
<1>6. OnlyWriter(p) BY <1>1 DEF MayWrite, Writing, Active, OnlyWriter
<1> QED BY <1>1, <1>4, <1>5, <1>6, NextA

LEMMA CreatePageAccounts ==
  ASSUME AInv, IInv', NEW p \in Procs, CreatePage(p)
  PROVE  AInv'
<1> DEFINE f == tab[p]
           w == WithNewPage(f)
           g == [w EXCEPT !.st = "open", !.modified = TRUE]
           a == f.hdr.fsiz + 1
<1>1. /\ f.st = "creating" /\ CanAddPage(f) /\ disk' = [disk EXCEPT ![a] = EmptyPage]
      /\ Sets(p, g) /\ header' = header
  BY DEF CreatePage, Sets
<1>2. f \in FileEntry /\ Counted(f) /\ PInv(disk, header, size, f) /\ header \in Header
  BY AFacts
<1>3. Active(f) BY <1>1, <1>2 DEF PInv, Active
<1>4. /\ CleanAccounts(disk, header) /\ WriterAccounts(header, f) /\ OnlyWriter(p)
      /\ WriterOK(disk, header, size, f) /\ disk \in [Addr -> Word]
      /\ HeldGood(disk, f, f.hdr.fsiz)
  BY <1>3, AFacts
<1>5. f.npages = 0 /\ f.hdr.nbd = 0 BY <1>1, <1>2 DEF Counted, FileEntry
<1>6. header.rwflg = RDMODE /\ header.nbd = 0 /\ header.nrec = f.hdr.nrec
  BY <1>1, <1>4, <1>5 DEF WriterAccounts, Entering
<1>7. header.nrec = 0 BY <1>4, <1>6, NoPages DEF CleanAccounts
<1>8. /\ w \in FileEntry /\ w.npages = 1 /\ 1 \in PageNos /\ w.page[1] = NewPage(a)
      /\ w.hdr.nrec = f.hdr.nrec
  <2>1. /\ w \in FileEntry /\ w.npages = f.npages + 1 /\ f.npages + 1 \in PageNos
        /\ w.hdr = [f.hdr EXCEPT !.fsiz = a, !.nbd = f.hdr.nbd + 1]
        /\ w.page = [i \in PageNos |-> IF i = f.npages + 1 THEN NewPage(a)
                                      ELSE IF i = f.npages THEN LinkTo(f.page[i], a)
                                      ELSE f.page[i]]
    BY <1>1, <1>2, <1>5, WithNewPageFields
  <2>2. w.hdr.nrec = f.hdr.nrec BY <1>2, <2>1, FileTypes DEF Header
  <2> QED BY <1>5, <2>1, <2>2
<1> HIDE DEF w
<1>9. g.page = w.page /\ g.npages = 1 /\ g.hdr = w.hdr /\ g.st = "open"
  BY <1>8 DEF FileEntry
<1> HIDE DEF g
<1>10. g.page[1].nent = 0 BY <1>8, <1>9 DEF NewPage, NoMemPage
<1>11. Accounted(g.npages, g.page, g.hdr.nrec)
  <2>1. ASSUME NEW h \in PageNos \X Slots, h[1] <= 1 PROVE ~(h[2] <= g.page[h[1]].nent)
    <3>1. h[1] = 1 BY <2>1, XdfAssumption DEF PageNos
    <3>2. h[2] >= 1 /\ h[2] \in Nat BY XdfAssumption DEF Slots
    <3> QED BY <1>10, <3>1, <3>2
  <2> QED BY <1>6, <1>7, <1>8, <1>9, <2>1, NothingToCount
<1>12. \A i \in 1 .. g.npages : Clear(g.page[i])
  <2>1. \A i \in 1 .. 1 : i = 1 OBVIOUS
  <2> QED BY <1>9, <1>10, <2>1 DEF Clear
<1>13. WriterAccounts(header', g) BY <1>9, <1>11, <1>12 DEF WriterAccounts, Entering
<1>14. CleanAccounts(disk', header')
  <2>1. KeptPages(disk, disk', f.hdr.fsiz)
    <3>1. f.npages = 0 => f.hdr.fsiz = 0 BY <1>1, <1>4 DEF WriterOK
    <3>2. f.npages = f.hdr.nbd /\ Pages(disk, f) BY <1>4, <1>5 DEF WriterOK
    <3> QED BY <1>1, <1>2, <1>4, <3>1, <3>2, NewPageGood
  <2>2. KeptPages(disk, disk', header.fsiz)
    <3>1. f.hdr.fsiz = 0 /\ header.fsiz <= f.hdr.fsiz /\ header.fsiz \in Nat
      BY <1>1, <1>4, AFacts DEF WriterOK
    <3>2. header.fsiz = f.hdr.fsiz BY <3>1
    <3> QED BY <2>1, <3>2
  <2> QED BY <1>1, <1>2, <1>4, <2>2, CleanAccountsKept
<1> QED BY <1>1, <1>4, <1>13, <1>14, NextA

(***************************************************************************)
(* Opening.  The directory of a clean file is the chain, so that the pages *)
(* an application has read when it is done are those the accounts are of.  *)
(***************************************************************************)
LEMMA DirIsChain ==
  ASSUME NEW n \in 0 .. MaxDirPages, NEW c, IsDir(disk, c, n)
  PROVE  \A i \in 1 .. n : Chain[i] = c[i]
<1> SUFFICES ASSUME NEW i \in 1 .. n PROVE Chain[i] = c[i] OBVIOUS
<1>1. n \in 1 .. MaxDirPages /\ n >= 1 BY XdfAssumption
<1>2. Leads(disk, c, n) BY <1>1 DEF IsDir, Leads
<1> QED BY <1>1, <1>2, ChainLeads

LEMMA PagesAreDir ==
  ASSUME NEW d, NEW f \in FileEntry, Pages(d, f), LastPageEnds(f), AllImages(d, f)
  PROVE  LET c == [i \in 1 .. f.npages |-> f.page[i].addr] IN
         /\ c \in [1 .. f.npages -> 1 .. f.hdr.fsiz]
         /\ IsDir(d, c, f.npages)
         /\ \A i \in 1 .. f.npages : d[c[i]] = Image(f.page[i])
<1> DEFINE n == f.npages
           c == [i \in 1 .. n |-> f.page[i].addr]
<1>1. n \in Nat /\ f.hdr.fsiz \in Nat BY FileTypes
<1>2. ASSUME NEW i \in 1 .. n
      PROVE  /\ c[i] = f.page[i].addr /\ c[i] \in Addr /\ c[i] <= f.hdr.fsiz
             /\ d[c[i]] = Image(f.page[i]) /\ d[c[i]].kind = "page" /\ d[c[i]].nxt = f.page[i].nxt
  <2>1. /\ c[i] = f.page[i].addr /\ c[i] \in Addr /\ c[i] <= f.hdr.fsiz
        /\ d[c[i]] = Image(f.page[i]) /\ d[c[i]].kind = "page"
    BY DEF Pages, AllImages
  <2>2. Image(f.page[i]).nxt = f.page[i].nxt BY DEF Image
  <2> QED BY <2>1, <2>2
<1>3. c \in [1 .. n -> 1 .. f.hdr.fsiz]
  <2>1. ASSUME NEW i \in 1 .. n PROVE f.page[i].addr \in 1 .. f.hdr.fsiz
    <3>1. f.page[i].addr \in Addr /\ f.page[i].addr <= f.hdr.fsiz BY DEF Pages
    <3> QED BY <1>1, <3>1, XdfAssumption DEF Addr
  <2> QED BY <2>1
<1> HIDE DEF c
<1>4. IsDir(d, c, n)
  <2>1. \A i, j \in 1 .. n : c[i] = c[j] => i = j BY <1>2 DEF Pages
  <2>2. n >= 1 => c[1] = 1 /\ d[c[n]].nxt = 0
    <3> SUFFICES ASSUME n >= 1 PROVE c[1] = 1 /\ d[c[n]].nxt = 0 OBVIOUS
    <3>1. 1 \in 1 .. n /\ n \in 1 .. n BY <1>1
    <3> QED BY <1>2, <3>1 DEF Pages, LastPageEnds
  <2>3. ASSUME NEW i \in 1 .. n - 1 PROVE d[c[i]].nxt = c[i + 1]
    <3>1. i \in 1 .. n /\ i + 1 \in 1 .. n BY <1>1
    <3>2. f.page[i].nxt = f.page[i + 1].addr BY DEF Pages
    <3> QED BY <1>2, <3>1, <3>2
  <2> QED BY <1>2, <2>1, <2>2, <2>3 DEF IsDir
<1> QED BY <1>2, <1>3, <1>4 DEF c

LEMMA DirAccounts ==
  ASSUME NEW f \in FileEntry, NEW n \in 0 .. MaxDirPages, f.npages = n, NEW d, NEW c, NEW N,
         \A i \in 1 .. n : d[c[i]] = Image(f.page[i])
  PROVE  /\ Accounted(n, OnDisk(d, c, n), N) <=> Accounted(n, f.page, N)
         /\ \A i \in 1 .. n : Clear(d[c[i]]) <=> Clear(f.page[i])
<1> DEFINE pg == OnDisk(d, c, n)
<1>1. ASSUME NEW i \in 1 .. n
      PROVE  /\ pg[i] = Image(f.page[i]) /\ f.page[i] \in MemPage
             /\ f.page[i].nent \in 0 .. EntriesPerPage
             /\ Image(f.page[i]).nent = f.page[i].nent /\ Image(f.page[i]).ent = f.page[i].ent
  <2>1. pg[i] = Image(f.page[i]) BY DEF OnDisk
  <2>2. f.page[i] \in MemPage BY FileTypes
  <2> QED BY <2>1, <2>2, PageTypes DEF Image
<1> HIDE DEF pg
<1>2. \A i \in 1 .. n : /\ pg[i].nent \in 0 .. EntriesPerPage /\ f.page[i].nent \in 0 .. EntriesPerPage
                        /\ SameAccount(pg[i], f.page[i]) /\ SameAccount(f.page[i], pg[i])
  BY <1>1 DEF SameAccount
<1>3. Accounted(n, pg, N) <=> Accounted(n, f.page, N) BY <1>2, AccountsKept
<1>4. \A i \in 1 .. n : Clear(d[c[i]]) <=> Clear(f.page[i]) BY <1>1 DEF Clear
<1> QED BY <1>3, <1>4 DEF pg

LEMMA OpenHeaderAccounts ==
  ASSUME Coordinated, AInv, IInv', NEW p \in Procs,
         NEW mode \in {RDMODE, RWMODE, APPEND}, NEW ro \in BOOLEAN, OpenHeader(p, mode, ro)
  PROVE  AInv'
<1> DEFINE g == [Closed EXCEPT !.st = IF header.nbd = 0 THEN "failed" ELSE "opening",
                               !.read_only = ro, !.hdr = [header EXCEPT !.rwflg = mode],
                               !.fsize = size, !.next = 1]
<1>1. /\ Sets(p, g) /\ disk' = disk /\ header' = header
      /\ mode # RDMODE => header.rwflg = RDMODE
      /\ Writable(g) => MayWrite(p)
  BY DEF OpenHeader, Sets
<1>2. header \in Header /\ header.nbd \in Nat /\ CleanAccounts(disk, header) BY AFacts
<1>3. /\ g.st = IF header.nbd = 0 THEN "failed" ELSE "opening"
      /\ g.hdr.rwflg = mode /\ g.hdr.nbd = header.nbd /\ g.hdr.nrec = header.nrec
      /\ g.npages = 0
  BY <1>2 DEF Closed, Header
<1> HIDE DEF g
<1>4. CASE ~Writable(g)
  <2>1. ~Active(g) BY <1>4 DEF Active
  <2> QED BY <1>1, <2>1, ReaderAccounts
<1>5. CASE Writable(g)
  <2>1. header.rwflg = RDMODE BY <1>1, <1>3, <1>5 DEF Writable
  <2>2. header.nbd = 0 => Accounted(g.npages, g.page, g.hdr.nrec)
    <3> SUFFICES ASSUME header.nbd = 0 PROVE Accounted(0, g.page, header.nrec) BY <1>3
    <3>1. header.nrec = 0 BY <1>2, <2>1, NoPages DEF CleanAccounts
    <3> QED BY <3>1, NoPages
  <2>3. WriterAccounts(header, g)
    <3>1. \A i \in 1 .. 0 : FALSE OBVIOUS
    <3> QED BY <1>3, <2>1, <2>2, <3>1 DEF WriterAccounts, Entering
  <2> QED BY <1>1, <1>2, <2>3, NextA
<1> QED BY <1>4, <1>5

LEMMA OpenPageAccounts ==
  ASSUME AInv, IInv', NEW p \in Procs, OpenPage(p)
  PROVE  AInv'
<1> DEFINE f == tab[p]
           n == f.npages + 1
           img == PageRead(f)
           m == [addr |-> IF IsPage(f.next) THEN f.next ELSE f.hdr.fsiz + 1,
                 nxt |-> img.nxt, nent |-> img.nent, ent |-> img.ent, modified |-> FALSE]
           st == IF img.nxt > f.fsize THEN "failed" ELSE IF n = f.hdr.nbd THEN "open" ELSE "opening"
           g == [f EXCEPT !.page[n] = m, !.npages = n, !.next = img.nxt, !.st = st]
<1>1. f.st = "opening" /\ Sets(p, g) /\ disk' = disk /\ header' = header
  BY DEF OpenPage, Sets
<1>2. f \in FileEntry /\ Counted(f) /\ disk \in [Addr -> Word] /\ header \in Header BY AFacts
<1>3. g \in FileEntry /\ Counted(g) /\ (Active(g) => WriterOK(disk, header, size', g))
  BY <1>1, NextEntryA
<1>4. /\ g.npages = n /\ g.hdr = f.hdr /\ g.read_only = f.read_only /\ g.modified = f.modified
      /\ g.st = st
  BY <1>2 DEF FileEntry
<1>5. st \in {"failed", "open", "opening"} OBVIOUS
<1> HIDE DEF g, m, st
<1>6. CASE ~Writable(f)
  <2>1. ~Active(g) BY <1>4, <1>6 DEF Active, Writable
  <2> QED BY <1>1, <2>1, ReaderAccounts
<1>7. CASE Writable(f)
  <2>1. Active(f) /\ Active(g) BY <1>1, <1>4, <1>5, <1>7 DEF Active, Writable
  <2>2. /\ WriterAccounts(header, f) /\ CleanAccounts(disk, header)
        /\ WriterOK(disk, header, size, f) /\ WriterOK(disk, header, size', g)
    BY <1>3, <2>1, AFacts
  <2>3. header.rwflg = RDMODE /\ header.nbd = f.hdr.nbd /\ header.nrec = f.hdr.nrec
    BY <1>1, <2>2 DEF WriterAccounts, Entering
  <2>4. ~f.modified BY <1>1, <2>2 DEF WriterOK, OpeningDir
  <2>5. g.st # "failed"
    <3> SUFFICES ASSUME g.st = "failed" PROVE FALSE OBVIOUS
    <3>1. f.hdr.nbd = 0 BY <1>4, <2>2 DEF WriterOK
    <3>2. f.npages < f.hdr.nbd /\ f.npages \in Nat BY <1>1, <1>2, FileTypes DEF Counted
    <3> QED BY <3>1, <3>2
  <2>6. CASE g.st = "opening"
    <3>1. WriterAccounts(header, g) BY <1>4, <2>3, <2>6 DEF WriterAccounts, Entering
    <3> QED BY <1>1, <2>2, <3>1, NextA
  <2>7. CASE g.st = "open"
    <3>1. g.npages = header.nbd /\ header.nbd \in 0 .. MaxDirPages
      BY <1>2, <1>3, <1>4, <2>3, <2>7 DEF Counted, Header
    <3>2. Pages(disk, g) /\ LastPageEnds(g) /\ AllImages(disk, g)
      BY <1>4, <2>2, <2>4, <2>7 DEF WriterOK
    <3>3. PICK c \in [1 .. header.nbd -> 1 .. header.fsiz] :
            /\ IsDir(disk, c, header.nbd)
            /\ Accounted(header.nbd, OnDisk(disk, c, header.nbd), header.nrec)
            /\ \A i \in 1 .. header.nbd : Clear(disk[c[i]])
      BY <2>2, <2>3 DEF CleanAccounts
    <3> DEFINE b == [i \in 1 .. g.npages |-> g.page[i].addr]
    <3>4. IsDir(disk, b, g.npages) /\ \A i \in 1 .. g.npages : disk[b[i]] = Image(g.page[i])
      BY <1>3, <3>2, PagesAreDir
    <3> HIDE DEF b
    <3>5. \A i \in 1 .. header.nbd : c[i] = b[i]
      <4>1. \A i \in 1 .. header.nbd : Chain[i] = c[i] BY <3>1, <3>3, DirIsChain
      <4>2. \A i \in 1 .. header.nbd : Chain[i] = b[i] BY <3>1, <3>4, DirIsChain
      <4> QED BY <4>1, <4>2
    <3>6. \A i \in 1 .. header.nbd : disk[c[i]] = Image(g.page[i]) BY <3>1, <3>4, <3>5
    <3>7. /\ Accounted(header.nbd, g.page, header.nrec)
          /\ \A i \in 1 .. header.nbd : Clear(g.page[i])
      BY <1>3, <3>1, <3>3, <3>6, DirAccounts
    <3>8. WriterAccounts(header, g)
      BY <1>4, <2>3, <2>7, <3>1, <3>7 DEF WriterAccounts, Entering
    <3> QED BY <1>1, <2>2, <3>8, NextA
  <2> QED BY <1>4, <1>5, <2>5, <2>6, <2>7
<1> QED BY <1>6, <1>7

(***************************************************************************)
(* Changes of a session in memory: one page is replaced by one with the    *)
(* same accounts, or one live entry is erased.                             *)
(***************************************************************************)
LEMMA MemEntries ==
  ASSUME NEW f \in FileEntry
  PROVE  /\ f.npages \in 0 .. MaxDirPages
         /\ \A i \in 1 .. f.npages : f.page[i] \in MemPage /\ f.page[i].nent \in 0 .. EntriesPerPage
         /\ \A h \in UsedIn(f.npages, f.page) :
              /\ h[1] \in 1 .. f.npages /\ h[1] \in PageNos
              /\ h[2] \in 1 .. f.page[h[1]].nent /\ h[2] \in Slots
              /\ EntryIn(f.page, h) \in Entry
<1>1. f.npages \in 0 .. MaxDirPages BY FileTypes
<1>2. \A i \in 1 .. f.npages : f.page[i] \in MemPage /\ f.page[i].nent \in 0 .. EntriesPerPage
  BY FileTypes, PageTypes
<1>3. ASSUME NEW h \in UsedIn(f.npages, f.page)
      PROVE  /\ h[1] \in 1 .. f.npages /\ h[1] \in PageNos
             /\ h[2] \in 1 .. f.page[h[1]].nent /\ h[2] \in Slots
             /\ EntryIn(f.page, h) \in Entry
  <2>1. /\ h[1] \in 1 .. f.npages /\ h[1] \in PageNos
        /\ h[2] \in 1 .. f.page[h[1]].nent /\ h[2] \in Slots
    BY <1>1, <1>2, InUse
  <2>2. EntryIn(f.page, h) \in Entry BY <1>2, <2>1, PageTypes DEF EntryIn
  <2> QED BY <2>1, <2>2
<1> QED BY <1>1, <1>2, <1>3

LEMMA OnePageAccounts ==
  ASSUME NEW f \in FileEntry, NEW n \in PageNos, NEW m, SameAccount(f.page[n], m), NEW N,
         Accounted(f.npages, f.page, N)
  PROVE  Accounted(f.npages, [f.page EXCEPT ![n] = m], N)
<1> DEFINE qg == [f.page EXCEPT ![n] = m]
<1>1. \A i \in 1 .. f.npages : i \in PageNos BY FileTypes
<1>2. \A i \in PageNos : qg[i] = IF i = n THEN m ELSE f.page[i] BY DEF FileEntry
<1> HIDE DEF qg
<1>3. \A i \in 1 .. f.npages : f.page[i].nent \in 0 .. EntriesPerPage /\ SameAccount(f.page[i], qg[i])
  BY <1>1, <1>2, MemEntries DEF SameAccount
<1>4. f.npages \in 0 .. MaxDirPages BY MemEntries
<1>5. Accounted(f.npages, qg, N) BY <1>3, <1>4, AccountsKept
<1> QED BY <1>5 DEF qg

LEMMA EraseAccounts ==
  ASSUME NEW f \in FileEntry, NEW h \in LiveIn(f.npages, f.page), NEW N,
         Accounted(f.npages, f.page, N)
  PROVE  Accounted(f.npages, [f.page EXCEPT ![h[1]] = EraseEntry(f.page[h[1]], h[2])], N - 1)
<1> DEFINE n == f.npages
           pg == f.page
           m == EraseEntry(pg[h[1]], h[2])
           qg == [pg EXCEPT ![h[1]] = m]
<1>1. /\ h \in UsedIn(n, pg) /\ h \in PageNos \X Slots /\ h[1] \in PageNos /\ h[2] \in Slots
      /\ pg \in [PageNos -> MemPage]
  BY DEF LiveIn, UsedIn, FileEntry
<1>2. pg[h[1]] \in MemPage /\ pg[h[1]].ent \in [Slots -> Entry] BY <1>1 DEF MemPage
<1>3. m.nent = pg[h[1]].nent /\ m.ent = [pg[h[1]].ent EXCEPT ![h[2]].id = "erased"]
  BY <1>2 DEF EraseEntry, MemPage
<1>4. \A s \in Slots :
        /\ m.ent[s].addr = pg[h[1]].ent[s].addr /\ m.ent[s].lng = pg[h[1]].ent[s].lng
        /\ m.ent[s].id = IF s = h[2] THEN "erased" ELSE pg[h[1]].ent[s].id
  BY <1>1, <1>2, <1>3 DEF Entry
<1>5. \A i \in PageNos : qg[i] = IF i = h[1] THEN m ELSE pg[i] BY <1>1
<1> HIDE DEF m, qg
<1>6. UsedIn(n, qg) = UsedIn(n, pg)
  <2>1. \A i \in PageNos : qg[i].nent = pg[i].nent BY <1>3, <1>5
  <2> QED BY <2>1 DEF UsedIn
<1>7. ASSUME NEW g \in UsedIn(n, pg)
      PROVE  /\ EntryIn(qg, g).addr = EntryIn(pg, g).addr /\ EntryIn(qg, g).lng = EntryIn(pg, g).lng
             /\ EntryIn(qg, g).id = IF g = h THEN "erased" ELSE EntryIn(pg, g).id
  <2>1. g[1] \in PageNos /\ g[2] \in Slots /\ g = <<g[1], g[2]>> /\ h = <<h[1], h[2]>>
    BY <1>1 DEF UsedIn
  <2>2. g = h <=> g[1] = h[1] /\ g[2] = h[2] BY <2>1
  <2> QED BY <1>4, <1>5, <2>1, <2>2 DEF EntryIn
<1>8. LiveIn(n, qg) = LiveIn(n, pg) \ {h} BY <1>6, <1>7 DEF LiveIn
<1>9. Cardinality(LiveIn(n, qg)) = Cardinality(LiveIn(n, pg)) - 1
  BY <1>8, HandlesFinite, FS_RemoveElement
<1>10. ASSUME NEW a \in UsedIn(n, qg), NEW b \in UsedIn(n, qg), a # b
       PROVE  Apart(EntryIn(qg, a), EntryIn(qg, b))
  <2>1. Apart(EntryIn(pg, a), EntryIn(pg, b)) BY <1>6, <1>10 DEF Accounted
  <2> QED BY <1>6, <1>7, <2>1 DEF Apart
<1>11. Accounted(n, qg, N - 1) BY <1>9, <1>10 DEF Accounted
<1> QED BY <1>11 DEF qg, m

LEMMA XdfDelAccounts ==
  ASSUME AInv, IInv', NEW p \in Procs, NEW h \in LiveHandles(tab[p]), XdfDel(p, h)
  PROVE  AInv'
<1> DEFINE f == tab[p]
           g == Erase(f, h)
           m == EraseEntry(f.page[h[1]], h[2])
<1>1. /\ f.st = "open" /\ Writable(f) /\ Sets(p, g) /\ UNCHANGED <<disk, header>>
  BY DEF XdfDel, Sets, Writable
<1>2. f \in FileEntry /\ Active(f) BY <1>1, AFacts DEF Active
<1>3. WriterAccounts(header, f) /\ CleanAccounts(disk, header) BY <1>2, AFacts
<1>4. h \in LiveIn(f.npages, f.page) BY HandlesOf
<1>5. h \in PageNos \X Slots /\ h[1] \in PageNos BY <1>4 DEF LiveIn, UsedIn
<1>6. /\ g.hdr = [f.hdr EXCEPT !.nrec = f.hdr.nrec - 1]
      /\ g.npages = f.npages /\ g.st = f.st /\ g.modified = TRUE
      /\ g.page = [f.page EXCEPT ![h[1]] = m]
  BY <1>2, <1>5, EraseFields
<1>7. g.hdr.nrec = f.hdr.nrec - 1 BY <1>2, <1>6, FileTypes DEF Header
<1>8. Accounted(f.npages, f.page, f.hdr.nrec) /\ \A i \in 1 .. f.npages : Settled(f, i) => Clear(f.page[i])
  BY <1>1, <1>3 DEF WriterAccounts, Entering
<1>9. Accounted(g.npages, g.page, g.hdr.nrec) BY <1>2, <1>4, <1>6, <1>7, <1>8, EraseAccounts
<1>10. m.modified BY <1>2, <1>5 DEF EraseEntry, FileEntry, MemPage
<1>11. \A i \in PageNos : g.page[i] = IF i = h[1] THEN m ELSE f.page[i] BY <1>2, <1>6 DEF FileEntry
<1> HIDE DEF g, m
<1>12. \A i \in 1 .. g.npages : Settled(g, i) => Clear(g.page[i])
  <2> SUFFICES ASSUME NEW i \in 1 .. f.npages, Settled(g, i) PROVE Clear(g.page[i]) BY <1>6
  <2>1. i \in PageNos BY <1>2, FileTypes
  <2>2. ~g.page[i].modified BY <1>1, <1>6 DEF Settled
  <2>3. g.page[i] = f.page[i] BY <1>10, <1>11, <2>1, <2>2
  <2> QED BY <1>8, <2>2, <2>3 DEF Settled
<1>13. WriterAccounts(header, g) BY <1>1, <1>6, <1>9, <1>12 DEF WriterAccounts, Entering
<1> QED BY <1>1, <1>3, <1>13, NextA

LEMMA PutDirFullAccounts ==
  ASSUME AInv, IInv', NEW p \in Procs, PutDirFull(p)
  PROVE  AInv'
<1> DEFINE f == tab[p]
           n == f.npages
           m == Flagged(f.page[n], TRUE)
           pg == [f.page EXCEPT ![n] = m]
           g == [f EXCEPT !.page = pg]
<1>1. /\ f.st = "open" /\ Writable(f) /\ f.npages >= MaxDirPages
      /\ Sets(p, g) /\ UNCHANGED <<disk, header>>
  BY DEF PutDirFull, Sets
<1>2. f \in FileEntry /\ Counted(f) /\ Active(f) BY <1>1, AFacts DEF Active
<1>3. WriterAccounts(header, f) /\ CleanAccounts(disk, header) BY <1>2, AFacts
<1>4. n \in PageNos
  <2>1. n \in 0 .. MaxDirPages /\ MaxDirPages \in Nat /\ n >= 1
    BY <1>1, <1>2, FileTypes DEF Counted
  <2> QED BY <2>1 DEF PageNos
<1>5. f.page[n] \in MemPage /\ f.page \in [PageNos -> MemPage] BY <1>2, <1>4 DEF FileEntry
<1>6. m.nent = f.page[n].nent /\ m.ent = f.page[n].ent /\ m.modified
  BY <1>5 DEF Flagged, MemPage
<1>7. \A i \in PageNos : pg[i] = IF i = n THEN m ELSE f.page[i] BY <1>5
<1>8. SameAccount(f.page[n], m) BY <1>6 DEF SameAccount
<1>9. Accounted(f.npages, f.page, f.hdr.nrec) /\ \A i \in 1 .. f.npages : Settled(f, i) => Clear(f.page[i])
  BY <1>1, <1>3 DEF WriterAccounts, Entering
<1> HIDE DEF m
<1>10. Accounted(f.npages, pg, f.hdr.nrec) BY <1>2, <1>4, <1>8, <1>9, OnePageAccounts
<1> HIDE DEF pg
<1>11. /\ g.page = pg /\ g.npages = f.npages /\ g.hdr = f.hdr /\ g.modified = f.modified
       /\ g.st = f.st
  BY <1>2 DEF FileEntry
<1> HIDE DEF g
<1>12. \A i \in 1 .. g.npages : Settled(g, i) => Clear(g.page[i])
  <2> SUFFICES ASSUME NEW i \in 1 .. f.npages, Settled(g, i) PROVE Clear(g.page[i]) BY <1>11
  <2>1. i \in PageNos BY <1>2, FileTypes
  <2>2. ~f.modified \/ ~g.page[i].modified BY <1>1, <1>11 DEF Settled
  <2>3. g.page[i] = IF i = n THEN m ELSE f.page[i] BY <1>7, <1>11, <2>1
  <2>4. Clear(f.page[i]) BY <1>6, <1>9, <2>2, <2>3 DEF Settled
  <2> QED BY <1>6, <2>3, <2>4 DEF Clear
<1>13. WriterAccounts(header, g) BY <1>1, <1>10, <1>11, <1>12 DEF WriterAccounts, Entering
<1> QED BY <1>1, <1>3, <1>13, NextA

LEMMA RekeyAccount ==
  ASSUME NEW m \in MemPage, NEW i \in Slots, NEW k \in Keys
  PROVE  SameAccount(m, Rekey(m, i, k))
<1> DEFINE a == m.ent
           b == Rekey(m, i, k).ent
           n == Rekey(m, i, k).nent
<1>1. a \in [Slots -> Entry] BY DEF MemPage
<1>2. n = m.nent /\ b = [a EXCEPT ![i].key = k] BY DEF Rekey, MemPage
<1> HIDE DEF a, b, n
<1>3. \A s \in Slots : b[s].addr = a[s].addr /\ b[s].lng = a[s].lng /\ b[s].id = a[s].id
  <2> SUFFICES ASSUME NEW s \in Slots
               PROVE  b[s].addr = a[s].addr /\ b[s].lng = a[s].lng /\ b[s].id = a[s].id
    OBVIOUS
  <2>1. CASE s # i
    <3>1. b[s] = a[s] BY <1>1, <1>2, <2>1
    <3> QED BY <3>1
  <2>2. CASE s = i
    <3> DEFINE x == a[s]
    <3>1. b[s] = [x EXCEPT !.key = k] BY <1>1, <1>2, <2>2
    <3>2. x \in Entry BY <1>1
    <3> HIDE DEF x
    <3>3. b[s].addr = x.addr /\ b[s].lng = x.lng /\ b[s].id = x.id BY <3>1, <3>2 DEF Entry
    <3> QED BY <3>3 DEF x
  <2> QED BY <2>1, <2>2
<1> QED BY <1>2, <1>3 DEF SameAccount, a, b, n

LEMMA PutInPlaceAccounts ==
  ASSUME AInv, IInv', NEW p \in Procs, tab[p].st = "open", Writable(tab[p]),
         NEW h \in LiveHandles(tab[p]), NEW k \in Keys, NEW l \in Lengths,
         EntryAt(tab[p], h).lng = l, EntryAt(tab[p], h).key = k, PutInPlace(p, h, k, l)
  PROVE  AInv'
<1> DEFINE f == tab[p]
           m == Rekey(f.page[h[1]], h[2], k)
           pg == [f.page EXCEPT ![h[1]] = m]
           g == [f EXCEPT !.page = pg, !.modified = TRUE]
<1>1. Sets(p, g) /\ header' = header BY DEF PutInPlace, Sets
<1>2. f \in FileEntry /\ Active(f) /\ IInv /\ disk \in [Addr -> Word] /\ header \in Header
  BY AFacts DEF Active
<1>3. WriterAccounts(header, f) /\ CleanAccounts(disk, header) BY <1>2, AFacts
<1>4. OnlyMarks(disk, disk') BY <1>2, InPlaceWritten
<1>5. CleanAccounts(disk', header') BY <1>1, <1>2, <1>3, <1>4, MarksKeep, CleanAccountsKept
<1>6. h[1] \in PageNos /\ h[2] \in Slots BY DEF LiveHandles
<1>7. f.page[h[1]] \in MemPage /\ f.page \in [PageNos -> MemPage] BY <1>2, <1>6 DEF FileEntry
<1>8. m.nent = f.page[h[1]].nent /\ m.modified /\ m.ent = [f.page[h[1]].ent EXCEPT ![h[2]].key = k]
  BY <1>7 DEF Rekey, MemPage
<1>9. SameAccount(f.page[h[1]], m) BY <1>6, <1>7, RekeyAccount
<1>10. \A i \in PageNos : pg[i] = IF i = h[1] THEN m ELSE f.page[i] BY <1>7
<1>11. Accounted(f.npages, f.page, f.hdr.nrec) /\ \A i \in 1 .. f.npages : Settled(f, i) => Clear(f.page[i])
  BY <1>3 DEF WriterAccounts, Entering
<1> HIDE DEF m
<1>12. Accounted(f.npages, pg, f.hdr.nrec) BY <1>2, <1>6, <1>9, <1>11, OnePageAccounts
<1> HIDE DEF pg
<1>13. /\ g.page = pg /\ g.npages = f.npages /\ g.hdr = f.hdr /\ g.modified = TRUE /\ g.st = f.st
  BY <1>2 DEF FileEntry
<1> HIDE DEF g
<1>14. \A i \in 1 .. g.npages : Settled(g, i) => Clear(g.page[i])
  <2> SUFFICES ASSUME NEW i \in 1 .. f.npages, Settled(g, i) PROVE Clear(g.page[i]) BY <1>13
  <2>1. i \in PageNos BY <1>2, FileTypes
  <2>2. ~g.page[i].modified BY <1>13 DEF Settled
  <2>3. g.page[i] = f.page[i] BY <1>8, <1>10, <1>13, <2>1, <2>2
  <2> QED BY <1>11, <2>2, <2>3 DEF Settled
<1>15. WriterAccounts(header, g) BY <1>12, <1>13, <1>14 DEF WriterAccounts, Entering
<1> QED BY <1>1, <1>2, <1>5, <1>15, NextA

(***************************************************************************)
(* The end of a session: given up, or written.  The header of a file that  *)
(* is being written is not clean.                                          *)
(***************************************************************************)
LEMMA CloseReaderAccounts ==
  ASSUME AInv, IInv', NEW p \in Procs, CloseReader(p) \/ Crash(p)
  PROVE  AInv'
<1>1. Sets(p, Closed) /\ UNCHANGED <<disk, header>> BY DEF CloseReader, Crash, Sets
<1>2. ~Active(Closed) BY ClosedGood
<1> QED BY <1>1, <1>2, ReaderAccounts

LEMMA CloseHeaderAccounts ==
  ASSUME AInv, IInv', NEW p \in Procs, NEW checkpoint \in BOOLEAN, CloseHeader(p, checkpoint)
  PROVE  AInv'
<1> DEFINE f == tab[p]
           g == [f EXCEPT !.st = "closing", !.xdf_checkpoint = checkpoint]
<1>1. f.st \in {"open", "failed"} /\ Writable(f) /\ header' = f.hdr /\ Sets(p, g)
  BY DEF CloseHeader, Sets
<1>2. f \in FileEntry /\ Active(f) BY <1>1, AFacts DEF Active
<1>3. WriterAccounts(header, f) /\ OnlyWriter(p) BY <1>2, AFacts
<1>4. CleanAccounts(disk', header') BY <1>1, SealedUncounted DEF Writable
<1>5. /\ g.page = f.page /\ g.npages = f.npages /\ g.hdr = f.hdr /\ g.modified = f.modified
      /\ g.st = "closing"
  BY <1>2 DEF FileEntry
<1> HIDE DEF g
<1>6. \A i \in 1 .. g.npages : Settled(g, i) => Settled(f, i) BY <1>5 DEF Settled
<1>7. WriterAccounts(header', g) BY <1>1, <1>3, <1>5, <1>6 DEF WriterAccounts, Entering
<1> QED BY <1>1, <1>3, <1>4, <1>7, NextA

LEMMA ClosingFacts ==
  ASSUME AInv, NEW p \in Procs, tab[p].st \in {"closing", "marked"}
  PROVE  LET f == tab[p] IN
         /\ f \in FileEntry /\ Active(f) /\ OnlyWriter(p)
         /\ WriterOK(disk, header, size, f)
         /\ header.rwflg # RDMODE /\ f.npages = f.hdr.nbd
         /\ Accounted(f.npages, f.page, f.hdr.nrec)
         /\ \A i \in 1 .. f.npages : Settled(f, i) => Clear(f.page[i])
<1> DEFINE f == tab[p]
<1>1. f \in FileEntry /\ PInv(disk, header, size, f) BY AFacts
<1>2. Active(f) BY <1>1 DEF PInv, Active
<1>3. WriterAccounts(header, f) /\ OnlyWriter(p) /\ WriterOK(disk, header, size, f) BY <1>2, AFacts
<1>4. header.rwflg # RDMODE /\ f.npages = f.hdr.nbd BY <1>3 DEF WriterOK
<1>5. /\ Accounted(f.npages, f.page, f.hdr.nrec)
      /\ \A i \in 1 .. f.npages : Settled(f, i) => Clear(f.page[i])
  BY <1>3 DEF WriterAccounts, Entering
<1> QED BY <1>1, <1>2, <1>3, <1>4, <1>5

LEMMA CloseMarksAccounts ==
  ASSUME AInv, IInv', NEW p \in Procs, NEW i \in PageNos, CloseMarks(p, i)
  PROVE  AInv'
<1> DEFINE f == tab[p]
           m == Deaden(f.page[i])
           pg == [f.page EXCEPT ![i] = m]
           g == [f EXCEPT !.st = "marked", !.page = pg]
<1>1. f.st = "closing" /\ NextToWrite(f, i) /\ Sets(p, g) /\ header' = header
  BY DEF CloseMarks, Sets
<1>2. /\ f \in FileEntry /\ OnlyWriter(p) /\ header.rwflg # RDMODE
      /\ Accounted(f.npages, f.page, f.hdr.nrec) /\ f.npages = f.hdr.nbd
      /\ \A j \in 1 .. f.npages : Settled(f, j) => Clear(f.page[j])
  BY <1>1, ClosingFacts
<1>3. f.modified /\ f.page[i].modified /\ i \in 1 .. f.hdr.nbd
  BY <1>1 DEF NextToWrite, PagesToWrite
<1>4. f.page \in [PageNos -> MemPage] /\ f.page[i] \in MemPage /\ f.page[i].ent \in [Slots -> Entry]
  BY <1>2 DEF FileEntry, MemPage
<1>5. /\ m.nent = f.page[i].nent /\ m.modified
      /\ \A s \in Slots : m.ent[s] = IF s <= f.page[i].nent /\ f.page[i].ent[s].id = "erased"
                                     THEN [f.page[i].ent[s] EXCEPT !.id = "dead"] ELSE f.page[i].ent[s]
  BY <1>3, <1>4 DEF Deaden, MemPage
<1>6. \A s \in Slots :
        /\ m.ent[s].addr = f.page[i].ent[s].addr /\ m.ent[s].lng = f.page[i].ent[s].lng
        /\ m.ent[s].id = "live" <=> f.page[i].ent[s].id = "live"
        /\ s <= f.page[i].nent => m.ent[s].id # "erased"
  BY <1>4, <1>5 DEF Entry
<1>7. SameAccount(f.page[i], m) /\ Clear(m)
  <2>1. \A s \in 1 .. f.page[i].nent : s \in Slots /\ s <= f.page[i].nent
    BY <1>4, PageTypes
  <2> QED BY <1>5, <1>6, <2>1 DEF SameAccount, Clear
<1>8. \A j \in PageNos : pg[j] = IF j = i THEN m ELSE f.page[j] BY <1>4
<1> HIDE DEF m
<1>9. Accounted(f.npages, pg, f.hdr.nrec) BY <1>2, <1>7, OnePageAccounts
<1> HIDE DEF pg
<1>10. /\ g.page = pg /\ g.npages = f.npages /\ g.hdr = f.hdr /\ g.modified = f.modified
       /\ g.st = "marked"
  BY <1>2 DEF FileEntry
<1> HIDE DEF g
<1>11. \A j \in 1 .. f.npages : j \in PageNos /\ g.page[j] = IF j = i THEN m ELSE f.page[j]
  BY <1>2, <1>8, <1>10, FileTypes
<1>12. PagesToWrite(g) = PagesToWrite(f)
  BY <1>2, <1>3, <1>5, <1>10, <1>11 DEF PagesToWrite
<1>13. \A j \in 1 .. g.npages : Settled(g, j) => Clear(g.page[j])
  <2> SUFFICES ASSUME NEW j \in 1 .. f.npages, Settled(g, j) PROVE Clear(g.page[j]) BY <1>10
  <2>1. CASE j = i BY <1>7, <1>11, <2>1
  <2>2. CASE j # i
    <3>1. ~NextToWrite(g, j)
      <4> SUFFICES ASSUME NextToWrite(g, j) PROVE FALSE OBVIOUS
      <4>1. i \in PagesToWrite(f) /\ j \in PagesToWrite(f) /\ i <= j /\ j <= i
        BY <1>1, <1>12 DEF NextToWrite
      <4>2. i \in Int /\ j \in Int BY <1>2 DEF PageNos
      <4> QED BY <2>2, <4>1, <4>2
    <3>2. ~g.page[j].modified BY <1>3, <1>10, <3>1 DEF Settled
    <3>3. g.page[j] = f.page[j] BY <1>11, <2>2
    <3> QED BY <1>2, <3>2, <3>3 DEF Settled
  <2> QED BY <2>1, <2>2
<1>14. WriterAccounts(header, g) BY <1>9, <1>10, <1>13 DEF WriterAccounts, Entering
<1>15. CleanAccounts(disk', header') BY <1>1, <1>2, SealedUncounted
<1> QED BY <1>1, <1>14, <1>15, NextA

LEMMA ClosePageAccounts ==
  ASSUME AInv, IInv', NEW p \in Procs, NEW i \in PageNos, ClosePage(p, i)
  PROVE  AInv'
<1> DEFINE f == tab[p]
           m == Flagged(f.page[i], FALSE)
           pg == [f.page EXCEPT ![i] = m]
           g == [f EXCEPT !.st = "closing", !.page = pg]
<1>1. f.st = "marked" /\ NextToWrite(f, i) /\ Sets(p, g) /\ header' = header
  BY DEF ClosePage, Sets
<1>2. /\ f \in FileEntry /\ OnlyWriter(p) /\ header.rwflg # RDMODE
      /\ Accounted(f.npages, f.page, f.hdr.nrec) /\ f.npages = f.hdr.nbd
      /\ \A j \in 1 .. f.npages : Settled(f, j) => Clear(f.page[j])
  BY <1>1, ClosingFacts
<1>3. i \in 1 .. f.npages BY <1>1, <1>2 DEF NextToWrite, PagesToWrite
<1>4. Clear(f.page[i]) BY <1>1, <1>2, <1>3 DEF Settled
<1>5. f.page \in [PageNos -> MemPage] /\ f.page[i] \in MemPage BY <1>2 DEF FileEntry
<1>6. m.nent = f.page[i].nent /\ m.ent = f.page[i].ent BY <1>5 DEF Flagged, MemPage
<1>7. SameAccount(f.page[i], m) /\ Clear(m) BY <1>4, <1>6 DEF SameAccount, Clear
<1>8. \A j \in PageNos : pg[j] = IF j = i THEN m ELSE f.page[j] BY <1>5
<1> HIDE DEF m
<1>9. Accounted(f.npages, pg, f.hdr.nrec) BY <1>2, <1>7, OnePageAccounts
<1> HIDE DEF pg
<1>10. /\ g.page = pg /\ g.npages = f.npages /\ g.hdr = f.hdr /\ g.modified = f.modified
       /\ g.st = "closing"
  BY <1>2 DEF FileEntry
<1> HIDE DEF g
<1>11. \A j \in 1 .. g.npages : Settled(g, j) => Clear(g.page[j])
  <2> SUFFICES ASSUME NEW j \in 1 .. f.npages, Settled(g, j) PROVE Clear(g.page[j]) BY <1>10
  <2>1. g.page[j] = IF j = i THEN m ELSE f.page[j] BY <1>2, <1>8, <1>10, FileTypes
  <2>2. CASE j = i BY <1>7, <2>1, <2>2
  <2>3. CASE j # i BY <1>2, <1>10, <2>1, <2>3 DEF Settled
  <2> QED BY <2>2, <2>3
<1>12. WriterAccounts(header, g) BY <1>9, <1>10, <1>11 DEF WriterAccounts, Entering
<1>13. CleanAccounts(disk', header') BY <1>1, <1>2, SealedUncounted
<1> QED BY <1>1, <1>12, <1>13, NextA

LEMMA AllClear ==
  ASSUME AInv, NEW p \in Procs, tab[p].st = "closing", PagesToWrite(tab[p]) = {}
  PROVE  \A i \in 1 .. tab[p].npages : Clear(tab[p].page[i])
<1> DEFINE f == tab[p]
<1>1. f.npages = f.hdr.nbd /\ \A i \in 1 .. f.npages : Settled(f, i) => Clear(f.page[i])
  BY ClosingFacts
<1>2. \A i \in 1 .. f.npages : ~f.modified \/ ~f.page[i].modified BY <1>1 DEF PagesToWrite
<1> QED BY <1>1, <1>2 DEF Settled

LEMMA CheckpointedAccounts ==
  ASSUME AInv, IInv', NEW p \in Procs, Checkpointed(p)
  PROVE  AInv'
<1> DEFINE f == tab[p]
           g == [f EXCEPT !.st = "open", !.modified = FALSE, !.xdf_checkpoint = FALSE]
<1>1. /\ f.st = "closing" /\ PagesToWrite(f) = {} /\ Sets(p, g)
      /\ header' = header /\ disk' = disk
  BY DEF Checkpointed, Sets
<1>2. /\ f \in FileEntry /\ header.rwflg # RDMODE /\ Accounted(f.npages, f.page, f.hdr.nrec)
      /\ CleanAccounts(disk, header)
  BY <1>1, ClosingFacts, AFacts
<1>3. \A i \in 1 .. f.npages : Clear(f.page[i]) BY <1>1, AllClear
<1>4. g.page = f.page /\ g.npages = f.npages /\ g.hdr = f.hdr /\ g.st = "open"
  BY <1>2 DEF FileEntry
<1> HIDE DEF g
<1>5. WriterAccounts(header, g) BY <1>2, <1>3, <1>4 DEF WriterAccounts, Entering
<1> QED BY <1>1, <1>2, <1>5, NextA

LEMMA CloseSealAccounts ==
  ASSUME AInv, IInv', NEW p \in Procs, CloseSeal(p)
  PROVE  AInv'
<1> DEFINE f == tab[p]
           new == [f.hdr EXCEPT !.rwflg = RDMODE]
           n == f.npages
           c == [i \in 1 .. n |-> f.page[i].addr]
<1>1. /\ f.st = "closing" /\ PagesToWrite(f) = {} /\ Sets(p, Closed)
      /\ header' = new /\ disk' = disk
  BY DEF CloseSeal, Sets
<1>2. /\ f \in FileEntry /\ OnlyWriter(p) /\ Accounted(n, f.page, f.hdr.nrec)
      /\ n = f.hdr.nbd /\ WriterOK(disk, header, size, f)
  BY <1>1, ClosingFacts
<1>3. \A i \in 1 .. n : Clear(f.page[i]) BY <1>1, AllClear
<1>4. Pages(disk, f) /\ LastPageEnds(f) BY <1>1, <1>2 DEF WriterOK
<1>5. AllImages(disk, f) BY <1>1, <1>2, AllWritten
<1>6. c \in [1 .. n -> 1 .. f.hdr.fsiz] /\ IsDir(disk, c, n) /\ \A i \in 1 .. n : disk[c[i]] = Image(f.page[i])
  BY <1>2, <1>4, <1>5, PagesAreDir
<1>7. new.fsiz = f.hdr.fsiz /\ new.nbd = n /\ new.nrec = f.hdr.nrec BY <1>2, FileTypes DEF Header
<1>8. n \in 0 .. MaxDirPages BY <1>2, FileTypes
<1> HIDE DEF new, c
<1>9. Accounted(n, OnDisk(disk, c, n), f.hdr.nrec) /\ \A i \in 1 .. n : Clear(disk[c[i]])
  BY <1>2, <1>3, <1>6, <1>8, DirAccounts
<1>10. CleanAccounts(disk, new) BY <1>6, <1>7, <1>9 DEF CleanAccounts
<1>11. ~Active(Closed) BY ClosedGood
<1> QED BY <1>1, <1>2, <1>10, <1>11, NextA

(***************************************************************************)
(* A record at the end: the page that it may need has no entry; the entry  *)
(* that it takes is the only one at its address, which lies beyond all the *)
(* words that the others account for.                                      *)
(***************************************************************************)
LEMMA RoomyAccounts ==
  ASSUME NEW f \in FileEntry, f.npages = f.hdr.nbd, f.npages >= 1,
         LastPageFull(f) => CanAddPage(f), NEW N, Accounted(f.npages, f.page, N)
  PROVE  LET g == Roomy(f) IN
         /\ Accounted(g.npages, g.page, N) /\ g.hdr.nrec = f.hdr.nrec
         /\ \A h \in LiveIn(f.npages, f.page) : h \in LiveIn(g.npages, g.page)
         /\ \A i \in 1 .. g.npages :
              ~g.page[i].modified => i \in 1 .. f.npages /\ g.page[i] = f.page[i]
<1>1. CASE ~LastPageFull(f) BY <1>1 DEF Roomy
<1>2. CASE LastPageFull(f)
  <2> DEFINE g == WithNewPage(f)
             n == f.npages
             a == f.hdr.fsiz + 1
  <2>1. /\ g.npages = n + 1 /\ n + 1 \in PageNos /\ a \in Addr
        /\ g.hdr = [f.hdr EXCEPT !.fsiz = a, !.nbd = f.hdr.nbd + 1]
        /\ g.page = [i \in PageNos |-> IF i = n + 1 THEN NewPage(a)
                                      ELSE IF i = n THEN LinkTo(f.page[i], a)
                                      ELSE f.page[i]]
    BY <1>2, WithNewPageFields
  <2>2. g.hdr.nrec = f.hdr.nrec BY <2>1, FileTypes DEF Header
  <2>3. g = Roomy(f) BY <1>2 DEF Roomy
  <2> HIDE DEF g
  <2>4. n \in 0 .. MaxDirPages /\ n \in Nat /\ MaxDirPages \in Nat BY MemEntries, XdfAssumption
  <2>5. \A i \in 1 .. n + 1 :
          /\ i \in PageNos
          /\ g.page[i] = IF i = n + 1 THEN NewPage(a)
                         ELSE IF i = n THEN LinkTo(f.page[i], a) ELSE f.page[i]
    <3>1. \A i \in 1 .. n + 1 : i \in PageNos BY <2>1, <2>4 DEF PageNos
    <3> QED BY <2>1, <3>1
  <2>6. \A i \in 1 .. n : f.page[i] \in MemPage /\ f.page[i].nent \in 0 .. EntriesPerPage BY MemEntries
  <2>7. /\ NewPage(a).nent = 0 /\ NewPage(a).modified
        /\ \A m \in MemPage : /\ LinkTo(m, a).nent = m.nent /\ LinkTo(m, a).ent = m.ent
                              /\ LinkTo(m, a).modified
    BY DEF NewPage, NoMemPage, LinkTo, MemPage
  <2>8. \A i \in 1 .. n : i \in 1 .. n + 1 /\ i # n + 1 BY <2>4
  <2>9. \A i \in 1 .. n : SameAccount(f.page[i], g.page[i])
    BY <2>5, <2>6, <2>7, <2>8 DEF SameAccount
  <2>10. Accounted(n, g.page, N) /\ LiveIn(n, g.page) = LiveIn(n, f.page)
    BY <2>4, <2>6, <2>9, AccountsKept
  <2>11. UsedIn(n + 1, g.page) = UsedIn(n, g.page)
    <3>1. ASSUME NEW h \in PageNos \X Slots
          PROVE  h[1] <= n + 1 /\ h[2] <= g.page[h[1]].nent <=> h[1] <= n /\ h[2] <= g.page[h[1]].nent
      <4>1. h[1] \in Nat /\ h[2] \in Nat /\ h[2] >= 1 BY XdfAssumption DEF PageNos, Slots
      <4>2. n + 1 \in 1 .. n + 1 BY <2>4
      <4>3. g.page[n + 1].nent = 0 BY <2>5, <2>7, <4>2
      <4>4. h[1] <= n + 1 <=> h[1] <= n \/ h[1] = n + 1 BY <2>4, <4>1
      <4>5. h[1] = n + 1 => ~(h[2] <= g.page[h[1]].nent) BY <4>1, <4>3
      <4> QED BY <4>4, <4>5
    <3> QED BY <3>1 DEF UsedIn
  <2>12. Accounted(n + 1, g.page, N) /\ LiveIn(n + 1, g.page) = LiveIn(n, f.page)
    BY <2>10, <2>11 DEF Accounted, LiveIn
  <2>13. ASSUME NEW i \in 1 .. n + 1, ~g.page[i].modified
         PROVE  i \in 1 .. n /\ g.page[i] = f.page[i]
    <3>1. i # n + 1 BY <2>5, <2>7, <2>13
    <3>2. i \in 1 .. n BY <2>4, <3>1
    <3>3. i # n BY <2>5, <2>6, <2>7, <2>13, <3>1, <3>2
    <3> QED BY <2>5, <3>1, <3>2, <3>3
  <2> QED BY <2>1, <2>2, <2>3, <2>12, <2>13
<1> QED BY <1>1, <1>2

LEMMA AppendAccounts ==
  ASSUME NEW f \in FileEntry, NEW k \in Keys, NEW l \in Lengths, NEW d,
         f.npages \in PageNos, ~LastPageFull(f), f.hdr.fsiz + l <= MaxAddr,
         HeldGood(d, f, f.hdr.fsiz), NEW N \in Int, Accounted(f.npages, f.page, N)
  PROVE  LET w == Appended(f, k, l) IN
         /\ Accounted(f.npages, w.page, N + 1)
         /\ w.hdr.nrec = f.hdr.nrec + 1
         /\ \A h \in LiveIn(f.npages, f.page) : h \in LiveIn(f.npages, w.page)
         /\ \A i \in 1 .. f.npages : ~w.page[i].modified => w.page[i] = f.page[i]
<1> DEFINE w == Appended(f, k, l)
           n == f.npages
           m == f.page[n]
           s == m.nent + 1
           e == NewEntry(f, k, l)
           x == <<n, s>>
<1>1. /\ n \in 1 .. MaxDirPages /\ n \in Nat /\ MaxDirPages \in Nat /\ EntriesPerPage \in Nat
      /\ n \in 1 .. n
  BY XdfAssumption DEF PageNos
<1>2. m \in MemPage /\ m.nent \in 0 .. EntriesPerPage /\ m.ent \in [Slots -> Entry]
  BY <1>1, MemEntries DEF MemPage
<1>3. s \in Slots /\ ~(s <= m.nent) /\ s >= 1
  <2>1. ~(m.nent >= EntriesPerPage) BY DEF LastPageFull
  <2> HIDE DEF m
  <2> QED BY <1>1, <1>2, <2>1 DEF Slots
<1>4. \A i \in PageNos : w.page[i] = IF i = n THEN AddEntry(f.page[i], e) ELSE f.page[i]
  BY AppendedPages
<1>5. /\ w.page[n].nent = s /\ w.page[n].ent = [m.ent EXCEPT ![s] = e] /\ w.page[n].modified
  <2>1. w.page[n] = AddEntry(m, e) BY <1>4
  <2>2. /\ AddEntry(m, e).nent = m.nent + 1 /\ AddEntry(m, e).ent = [m.ent EXCEPT ![m.nent + 1] = e]
        /\ AddEntry(m, e).modified
    BY <1>2 DEF AddEntry, MemPage
  <2> QED BY <2>1, <2>2
<1>6. w.hdr.nrec = f.hdr.nrec + 1
  <2>1. f.hdr \in Header BY FileTypes
  <2> QED BY <2>1 DEF Appended, FileEntry, Header
<1>7. e.id = "live" /\ e.addr = f.hdr.fsiz + 1 /\ e.lng = l BY DEF NewEntry
<1> HIDE DEF w, e
<1>8. ASSUME NEW h \in PageNos \X Slots
      PROVE  /\ h \in UsedIn(n, w.page) <=> h \in UsedIn(n, f.page) \/ h = x
             /\ h \in UsedIn(n, f.page) => h # x /\ EntryIn(w.page, h) = EntryIn(f.page, h)
             /\ h = x => EntryIn(w.page, h) = e
  <2>1. h[1] \in PageNos /\ h[2] \in Slots /\ h = <<h[1], h[2]>> BY DEF UsedIn
  <2>2. h = x <=> h[1] = n /\ h[2] = s BY <2>1
  <2>3. CASE h[1] = n
    <3> DEFINE t == h[2]
               q == m.nent
    <3>1. t \in Nat /\ t >= 1 /\ q \in Nat /\ s = q + 1 BY <1>1, <1>2, <2>1 DEF Slots
    <3>2. h \in UsedIn(n, f.page) <=> t <= q BY <1>1, <2>3 DEF UsedIn
    <3>3. h \in UsedIn(n, w.page) <=> t <= s BY <1>1, <1>5, <2>3 DEF UsedIn
    <3>4. EntryIn(w.page, h) = IF t = s THEN e ELSE m.ent[t]
      BY <1>2, <1>5, <2>1, <2>3 DEF EntryIn
    <3>5. EntryIn(f.page, h) = m.ent[t] BY <2>3 DEF EntryIn
    <3> HIDE DEF t, q, s
    <3>6. (t <= s <=> t <= q \/ t = s) /\ (t <= q => t # s) BY <3>1
    <3> QED BY <2>2, <2>3, <3>2, <3>3, <3>4, <3>5, <3>6 DEF t
  <2>4. CASE h[1] # n
    <3>1. w.page[h[1]] = f.page[h[1]] BY <1>4, <2>1, <2>4
    <3> QED BY <2>2, <2>4, <3>1 DEF UsedIn, EntryIn
  <2> QED BY <2>3, <2>4
<1>9. x \in PageNos \X Slots BY <1>3
<1>10. UsedIn(n, w.page) = UsedIn(n, f.page) \cup {x}
  <2>1. UsedIn(n, w.page) \subseteq PageNos \X Slots /\ UsedIn(n, f.page) \subseteq PageNos \X Slots
    BY DEF UsedIn
  <2> QED BY <1>8, <1>9, <2>1
<1>11. x \notin UsedIn(n, f.page) /\ EntryIn(w.page, x) = e BY <1>8, <1>9
<1>12. \A h \in UsedIn(n, f.page) : EntryIn(w.page, h) = EntryIn(f.page, h) BY <1>8 DEF UsedIn
<1> HIDE DEF x
<1>13. LiveIn(n, w.page) = LiveIn(n, f.page) \cup {x} BY <1>7, <1>10, <1>11, <1>12 DEF LiveIn
<1>14. x \notin LiveIn(n, f.page) BY <1>11 DEF LiveIn
<1>15. Cardinality(LiveIn(n, w.page)) = N + 1
  BY <1>13, <1>14, HandlesFinite, FS_AddElement DEF Accounted
<1>16. ASSUME NEW h \in UsedIn(n, f.page)
       PROVE  Apart(EntryIn(f.page, h), e) /\ Apart(e, EntryIn(f.page, h))
  <2> DEFINE y == EntryIn(f.page, h)
  <2>1. y \in Entry /\ h[1] \in 1 .. n /\ h[2] \in 1 .. f.page[h[1]].nent BY MemEntries
  <2>2. Good(d, y, f.hdr.fsiz) BY <2>1 DEF HeldGood, EntryIn
  <2>3. y.addr \in Nat /\ y.lng \in Nat /\ f.hdr.fsiz \in Nat
    BY <2>1, FileTypes, XdfAssumption DEF Entry
  <2>4. y.addr + y.lng - 1 <= f.hdr.fsiz BY <2>2 DEF Good
  <2> HIDE DEF y
  <2>5. y.lng >= 1 => y.addr # f.hdr.fsiz + 1 BY <2>3, <2>4
  <2>6. Apart(y, e) /\ Apart(e, y) BY <1>7, <2>5 DEF Apart
  <2> QED BY <2>6 DEF y
<1>17. ASSUME NEW g \in UsedIn(n, w.page), NEW h \in UsedIn(n, w.page), g # h
       PROVE  Apart(EntryIn(w.page, g), EntryIn(w.page, h))
  <2>1. CASE g = x BY <1>10, <1>11, <1>12, <1>16, <1>17, <2>1
  <2>2. CASE h = x BY <1>10, <1>11, <1>12, <1>16, <1>17, <2>2
  <2>3. CASE g # x /\ h # x BY <1>10, <1>12, <1>17, <2>3 DEF Accounted
  <2> QED BY <2>1, <2>2, <2>3
<1>18. Accounted(n, w.page, N + 1) BY <1>15, <1>17 DEF Accounted
<1>19. \A i \in 1 .. n : ~w.page[i].modified => w.page[i] = f.page[i]
  <2>1. \A i \in 1 .. n : i \in PageNos BY FileTypes
  <2> QED BY <1>4, <1>5, <2>1
<1> QED BY <1>6, <1>13, <1>18, <1>19 DEF w

LEMMA PutAtEndAccounts ==
  ASSUME AInv, IInv', NEW p \in Procs, tab[p].st = "open", Writable(tab[p]),
         NEW h \in LiveHandles(tab[p]) \cup {NoHandle}, NEW k \in Keys, NEW l \in Lengths,
         PutAtEnd(p, h, k, l)
  PROVE  AInv'
<1> DEFINE f == tab[p]
           g == Roomy(f)
           w == Appended(g, k, l)
           d == RoomyDisk(disk, f)
           e == WithRecord(d, g.hdr.fsiz + 1, k, l)
           t == IF h = NoHandle THEN w ELSE Erase(w, h)
           n == g.npages
           N == f.hdr.nrec
<1>1. /\ LastPageFull(f) => CanAddPage(f)
      /\ g.hdr.fsiz + l <= MaxAddr
      /\ disk' = e /\ Sets(p, t) /\ header' = header
  BY DEF PutAtEnd, Sets, Roomy, RoomyDisk
<1>2. /\ f \in FileEntry /\ Counted(f) /\ disk \in [Addr -> Word] /\ header \in Header
      /\ header.fsiz \in Nat /\ CleanAccounts(disk, header) /\ Active(f)
      /\ WriterAccounts(header, f) /\ WriterOK(disk, header, size, f)
      /\ HeldGood(disk, f, f.hdr.fsiz)
  BY AFacts DEF Active
<1>3. /\ Pages(disk, f) /\ LastPageEnds(f) /\ header.fsiz <= f.hdr.fsiz
      /\ f.npages = f.hdr.nbd /\ f.npages >= 1
  BY <1>2 DEF WriterOK, Counted
<1>4. /\ Accounted(f.npages, f.page, N)
      /\ \A i \in 1 .. f.npages : Settled(f, i) => Clear(f.page[i])
  BY <1>2 DEF WriterAccounts, Entering
<1>5. /\ g \in FileEntry /\ g.npages \in PageNos /\ ~LastPageFull(g)
      /\ g.st = f.st /\ g.read_only = f.read_only /\ g.hdr.rwflg = f.hdr.rwflg
      /\ f.hdr.fsiz <= g.hdr.fsiz
  BY <1>1, <1>2, <1>3, RoomyFields
<1>6. /\ HeldGood(d, g, g.hdr.fsiz) /\ KeptPages(disk, d, f.hdr.fsiz)
      /\ Pages(d, g) /\ LastPageEnds(g) /\ d \in [Addr -> Word]
  BY <1>1, <1>2, <1>3, RoomyGood
<1>7. /\ Accounted(n, g.page, N) /\ g.hdr.nrec = N
      /\ \A b \in LiveIn(f.npages, f.page) : b \in LiveIn(n, g.page)
      /\ \A i \in 1 .. n : ~g.page[i].modified => i \in 1 .. f.npages /\ g.page[i] = f.page[i]
  BY <1>1, <1>2, <1>3, <1>4, RoomyAccounts
<1>8. N \in Int BY <1>2, FileTypes DEF Header
<1>9. h # NoHandle => h \in LiveIn(f.npages, f.page) BY HandlesOf
<1> HIDE DEF f, g, d, N
<1>10. /\ Accounted(n, w.page, N + 1) /\ w.hdr.nrec = N + 1
       /\ \A b \in LiveIn(n, g.page) : b \in LiveIn(n, w.page)
       /\ \A i \in 1 .. n : ~w.page[i].modified => w.page[i] = g.page[i]
  BY <1>1, <1>5, <1>6, <1>7, <1>8, AppendAccounts
<1>11. /\ w \in FileEntry /\ w.hdr.fsiz = g.hdr.fsiz + l /\ w.st = g.st
       /\ w.modified = TRUE /\ w.npages = n
  BY <1>1, <1>5, AppendedFields
<1>12. KeptPages(d, e, g.hdr.fsiz) BY <1>1, <1>5, <1>6, AppendGood
<1> HIDE DEF w, e
<1>13. /\ Accounted(t.npages, t.page, t.hdr.nrec)
       /\ t.npages = n /\ t.modified = TRUE /\ t.st = f.st
       /\ \A i \in 1 .. n : ~t.page[i].modified => t.page[i] = w.page[i]
  <2>1. CASE h = NoHandle BY <1>5, <1>10, <1>11, <2>1
  <2>2. CASE h # NoHandle
    <3> DEFINE m == EraseEntry(w.page[h[1]], h[2])
               v == Erase(w, h)
    <3>1. h \in LiveIn(w.npages, w.page) BY <1>7, <1>9, <1>10, <1>11, <2>2
    <3>2. h \in PageNos \X Slots /\ h[1] \in PageNos BY <3>1 DEF LiveIn, UsedIn
    <3>3. /\ v.npages = w.npages /\ v.st = w.st /\ v.modified = TRUE
          /\ v.page = [w.page EXCEPT ![h[1]] = m]
          /\ v.hdr = [w.hdr EXCEPT !.nrec = w.hdr.nrec - 1]
      BY <1>11, <3>2, EraseFields
    <3>4. v.hdr.nrec = w.hdr.nrec - 1 BY <1>11, <3>3, FileTypes DEF Header
    <3>5. m.modified BY <1>11, <3>2 DEF EraseEntry, FileEntry, MemPage
    <3>6. \A i \in PageNos : v.page[i] = IF i = h[1] THEN m ELSE w.page[i]
      BY <1>11, <3>3 DEF FileEntry
    <3>7. Accounted(w.npages, v.page, w.hdr.nrec - 1)
      BY <1>10, <1>11, <3>1, <3>3, EraseAccounts
    <3>8. \A i \in 1 .. n : i \in PageNos BY <1>11, FileTypes
    <3>9. t = v BY <2>2
    <3> HIDE DEF m, v, t
    <3>10. \A i \in 1 .. n : ~v.page[i].modified => v.page[i] = w.page[i] BY <3>5, <3>6, <3>8
    <3> QED BY <1>5, <1>11, <3>3, <3>4, <3>7, <3>9, <3>10
  <2> QED BY <2>1, <2>2
<1> HIDE DEF t
<1>14. \A i \in 1 .. t.npages : Settled(t, i) => Clear(t.page[i])
  <2> SUFFICES ASSUME NEW i \in 1 .. n, Settled(t, i) PROVE Clear(t.page[i]) BY <1>13
  <2>1. f.st = "open" BY DEF f
  <2>2. ~t.page[i].modified BY <1>13, <2>1 DEF Settled
  <2>3. t.page[i] = w.page[i] BY <1>13, <2>2
  <2>4. w.page[i] = g.page[i] BY <1>10, <2>2, <2>3
  <2>5. i \in 1 .. f.npages /\ g.page[i] = f.page[i] BY <1>7, <2>2, <2>3, <2>4
  <2> QED BY <1>4, <2>2, <2>3, <2>4, <2>5 DEF Settled
<1>15. WriterAccounts(header, t)
  <2>1. f.st = "open" BY DEF f
  <2> QED BY <1>13, <1>14, <2>1 DEF WriterAccounts, Entering
<1>16. CleanAccounts(e, header)
  <2>1. g.hdr.fsiz \in Nat /\ f.hdr.fsiz \in Nat BY <1>2, <1>5, FileTypes
  <2>2. KeptPages(disk, e, f.hdr.fsiz) BY <1>5, <1>6, <1>12, <2>1, KeptTwice
  <2>3. KeptPages(disk, disk, header.fsiz) BY NothingWritten
  <2>4. KeptPages(disk, e, header.fsiz) BY <1>2, <1>3, <2>1, <2>2, <2>3, KeptTwice
  <2> QED BY <1>2, <2>4, CleanAccountsKept
<1> QED BY <1>1, <1>15, <1>16, NextA

LEMMA XdfPutAccounts ==
  ASSUME AInv, IInv', NEW p \in Procs,
         \/ \E k \in Keys, l \in Lengths, rewrit \in BOOLEAN : FstEcr(p, k, l, rewrit)
         \/ \E h \in LiveHandles(tab[p]), k \in Keys, l \in Lengths : MrfPut(p, h, k, l)
  PROVE  AInv'
<1> DEFINE f == tab[p]
<1>0. f \in FileEntry BY AFacts
<1>1. ASSUME NEW k \in Keys, NEW l \in Lengths, NEW rewrit \in BOOLEAN, FstEcr(p, k, l, rewrit)
      PROVE  AInv'
  <2>1. PICK h \in IF rewrit THEN FirstMatch(f, k) ELSE {NoHandle} : XdfPut(p, h, k, l, FALSE)
    BY <1>1 DEF FstEcr
  <2>2. h \in LiveHandles(f) \cup {NoHandle} BY <1>0, HandleTypes
  <2>3. h # NoHandle => EntryAt(f, h).key = k BY DEF FirstMatch
  <2>4. f.st = "open" /\ Writable(f) BY <2>1 DEF XdfPut
  <2>5. CASE PutAtEnd(p, h, k, l) BY <2>2, <2>4, <2>5, PutAtEndAccounts
  <2>6. CASE h # NoHandle /\ EntryAt(f, h).lng = l /\ PutInPlace(p, h, k, l)
    BY <2>2, <2>3, <2>4, <2>6, PutInPlaceAccounts
  <2> QED BY <2>1, <2>5, <2>6 DEF XdfPut
<1>2. ASSUME NEW h \in LiveHandles(f), NEW k \in Keys, NEW l \in Lengths, MrfPut(p, h, k, l)
      PROVE  AInv'
  <2>1. f.st = "open" /\ Writable(f) /\ PutAtEnd(p, h, k, l) BY <1>2 DEF MrfPut, XdfPut
  <2> QED BY <2>1, PutAtEndAccounts
<1> QED BY <1>1, <1>2

LEMMA StepAccounts ==
  ASSUME Coordinated, AInv, [Next]_vars
  PROVE  AInv'
<1>1. IInv' BY StepGood DEF AInv
<1>2. CASE UNCHANGED vars
  <2>1. header' = header /\ disk' = disk /\ tab' = tab BY <1>2 DEF vars
  <2> QED BY <1>1, <2>1 DEF AInv
<1>3. ASSUME NEW p \in Procs, Step(p) PROVE AInv'
  BY <1>1, <1>3, CreateHeaderAccounts, CreatePageAccounts, OpenHeaderAccounts, OpenPageAccounts,
     XdfDelAccounts, XdfPutAccounts, PutDirFullAccounts, CloseReaderAccounts, CloseHeaderAccounts,
     CloseMarksAccounts, ClosePageAccounts, CheckpointedAccounts, CloseSealAccounts, Zenon
     DEF Step
<1> QED BY <1>2, <1>3 DEF Next

LEMMA EntryNumbers ==
  ASSUME NEW e \in Entry
  PROVE  e.addr \in Nat /\ e.lng \in Nat
<1>1. e.addr \in 0 .. MaxAddr /\ e.lng \in {0} \cup Lengths BY DEF Entry
<1>2. \A l \in Lengths : l \in Nat BY XdfAssumption
<1>3. e.lng \in Nat BY <1>1, <1>2
<1>4. e.addr \in Nat BY <1>1, XdfAssumption
<1> QED BY <1>3, <1>4

(***************************************************************************)
(* A word that two entries share would have one distance from both their   *)
(* first words, hence these would be the same.                             *)
(***************************************************************************)
LEMMA WordsOf ==
  ASSUME NEW d, NEW e \in Entry, NEW L \in Int, Good(d, e, L), NEW x \in EntryWords(e)
  PROVE  /\ e.lng >= 1 /\ x \in Addr /\ x <= L
         /\ d[x].kind = "rec" /\ d[x].off = x - e.addr
<1>1. e.addr \in Nat /\ e.lng \in Nat BY EntryNumbers
<1>2. x \in e.addr .. e.addr + e.lng - 1 BY DEF EntryWords
<1>3. e.addr + e.lng - 1 <= L BY DEF Good
<1> DEFINE j == x - e.addr
<1>4. j \in 0 .. e.lng - 1 /\ e.addr + j = x /\ x <= L /\ e.lng >= 1 BY <1>1, <1>2, <1>3
<1> HIDE DEF j
<1>5. e.addr + j \in Addr /\ d[e.addr + j].kind = "rec" /\ d[e.addr + j].off = j
  BY <1>4 DEF Good, WholeIn
<1> QED BY <1>4, <1>5 DEF j

LEMMA AccountsForWords ==
  ASSUME NEW f \in FileEntry, NEW d, NEW L \in Int, HeldGood(d, f, L), Pages(d, f),
         Accounted(f.npages, f.page, f.hdr.nrec)
  PROVE  /\ f.hdr.nrec = Cardinality(LiveHandles(f))
         /\ \A g, h \in UsedHandles(f) :
              g # h => EntryWords(EntryAt(f, g)) \cap EntryWords(EntryAt(f, h)) = {}
         /\ \A h \in UsedHandles(f) :
              /\ EntryWords(EntryAt(f, h)) \subseteq 1 .. L
              /\ \A i \in 1 .. f.npages : f.page[i].addr \notin EntryWords(EntryAt(f, h))
<1> DEFINE n == f.npages
<1>1. f.hdr.nrec = Cardinality(LiveHandles(f)) BY HandlesOf DEF Accounted
<1>2. ASSUME NEW h \in UsedHandles(f)
      PROVE  EntryAt(f, h) \in Entry /\ Good(d, EntryAt(f, h), L)
  <2>1. /\ h \in UsedIn(n, f.page) /\ EntryAt(f, h) = EntryIn(f.page, h)
        /\ EntryAt(f, h) = f.page[h[1]].ent[h[2]]
    BY HandlesOf DEF EntryAt
  <2>2. h[1] \in 1 .. n /\ h[2] \in 1 .. f.page[h[1]].nent /\ EntryIn(f.page, h) \in Entry
    BY <2>1, MemEntries
  <2> QED BY <2>1, <2>2 DEF HeldGood
<1>3. ASSUME NEW g \in UsedHandles(f), NEW h \in UsedHandles(f), g # h,
             NEW x, x \in EntryWords(EntryAt(f, g)), x \in EntryWords(EntryAt(f, h))
      PROVE  FALSE
  <2> DEFINE a == EntryAt(f, g)
             b == EntryAt(f, h)
  <2>1. Apart(a, b) BY <1>3, HandlesOf DEF Accounted
  <2>2. a \in Entry /\ b \in Entry /\ Good(d, a, L) /\ Good(d, b, L) BY <1>2
  <2>3. x \in EntryWords(a) /\ x \in EntryWords(b) BY <1>3
  <2>4. a.addr \in Nat /\ b.addr \in Nat BY <2>2, EntryNumbers
  <2> HIDE DEF a, b
  <2>5. /\ a.lng >= 1 /\ d[x].off = x - a.addr
        /\ b.lng >= 1 /\ d[x].off = x - b.addr
        /\ x \in Addr
    BY <2>2, <2>3, WordsOf
  <2>6. a.addr = b.addr
    <3>1. x \in Int /\ x - a.addr = x - b.addr BY <2>5, XdfAssumption DEF Addr
    <3> QED BY <2>4, <3>1
  <2> QED BY <2>1, <2>5, <2>6 DEF Apart
<1>4. ASSUME NEW h \in UsedHandles(f)
      PROVE  /\ EntryWords(EntryAt(f, h)) \subseteq 1 .. L
             /\ \A i \in 1 .. n : f.page[i].addr \notin EntryWords(EntryAt(f, h))
  <2> DEFINE e == EntryAt(f, h)
  <2>1. e \in Entry /\ Good(d, e, L) BY <1>2
  <2> HIDE DEF e
  <2>2. \A x \in EntryWords(e) : x \in Addr /\ x <= L /\ d[x].kind = "rec" BY <2>1, WordsOf
  <2>3. \A x \in Addr : x <= L => x \in 1 .. L BY XdfAssumption DEF Addr
  <2>4. \A i \in 1 .. n : d[f.page[i].addr].kind = "page" BY DEF Pages
  <2>5. EntryWords(e) \subseteq 1 .. L /\ \A i \in 1 .. n : f.page[i].addr \notin EntryWords(e)
    BY <2>2, <2>3, <2>4
  <2> QED BY <2>5 DEF e
<1> QED BY <1>1, <1>3, <1>4

(***************************************************************************)
(* When the sites run at most one writing application at a time, an        *)
(* application that has the file open to write holds its whole directory,  *)
(* nrec counts its live entries, and no word below fsiz belongs to two     *)
(* records, or to a record and a page: c_xdfopn, c_xdfput, c_xdfdel and    *)
(* c_xdfcls, whatever was erased, moved or rewritten before, in this       *)
(* session or in another.                                                  *)
(***************************************************************************)
THEOREM Accounts == ASSUME Coordinated PROVE Spec => []WriterAccountsForEveryWord
<1>1. Init => AInv BY InitAccounts
<1>2. AInv /\ [Next]_vars => AInv' BY StepAccounts
<1>3. AInv => WriterAccountsForEveryWord
  <2> SUFFICES ASSUME AInv, NEW p \in Procs,
                      tab[p].st \in {"open", "closing", "marked"}, Writable(tab[p])
               PROVE  LET f == tab[p] IN
                      /\ Linked(f)
                      /\ f.hdr.nrec = Cardinality(LiveHandles(f))
                      /\ \A g, h \in UsedHandles(f) :
                           g # h => EntryWords(EntryAt(f, g)) \cap EntryWords(EntryAt(f, h)) = {}
                      /\ \A h \in UsedHandles(f) :
                           /\ EntryWords(EntryAt(f, h)) \subseteq 1 .. f.hdr.fsiz
                           /\ \A i \in 1 .. f.npages :
                                f.page[i].addr \notin EntryWords(EntryAt(f, h))
    BY Zenon DEF WriterAccountsForEveryWord
  <2> DEFINE f == tab[p]
  <2>1. /\ f \in FileEntry /\ Counted(f) /\ Active(f)
        /\ WriterAccounts(header, f) /\ WriterOK(disk, header, size, f)
        /\ HeldGood(disk, f, f.hdr.fsiz)
    BY AFacts DEF Active
  <2>2. Accounted(f.npages, f.page, f.hdr.nrec) BY <2>1 DEF WriterAccounts, Entering
  <2>3. Pages(disk, f) /\ f.npages = f.hdr.nbd BY <2>1 DEF WriterOK, Counted
  <2>4. Linked(f) BY <2>3 DEF Linked, Pages
  <2>5. f.hdr.fsiz \in Int BY <2>1, FileTypes
  <2> HIDE DEF f
  <2>6. /\ f.hdr.nrec = Cardinality(LiveHandles(f))
        /\ \A g, h \in UsedHandles(f) :
             g # h => EntryWords(EntryAt(f, g)) \cap EntryWords(EntryAt(f, h)) = {}
        /\ \A h \in UsedHandles(f) :
             /\ EntryWords(EntryAt(f, h)) \subseteq 1 .. f.hdr.fsiz
             /\ \A i \in 1 .. f.npages : f.page[i].addr \notin EntryWords(EntryAt(f, h))
    BY <2>1, <2>2, <2>3, <2>5, AccountsForWords
  <2> QED BY <2>4, <2>6 DEF f
<1> QED BY <1>1, <1>2, <1>3, PTL DEF Spec

LEMMA PairsOf ==
  ASSUME NEW A, NEW B, NEW u \in A \X B
  PROVE  u = <<u[1], u[2]>> /\ u[1] \in A /\ u[2] \in B
OBVIOUS

(***************************************************************************)
(* Live entries of the directory on disk are those of its pages, numbered  *)
(* by the chain.                                                           *)
(***************************************************************************)
LEMMA LiveAreLive ==
  ASSUME NEW n \in 0 .. MaxDirPages, NEW c, n = header.nbd, disk \in [Addr -> Word],
         IsDir(disk, c, n)
  PROVE  Cardinality(LiveOnDisk) = Cardinality(LiveIn(n, OnDisk(disk, c, n)))
<1> DEFINE pg == OnDisk(disk, c, n)
           S == LiveIn(n, pg)
           T == LiveOnDisk
           F == [h \in S |-> <<c[h[1]], h[2]>>]
<1>1. /\ \A i \in 1 .. n : Chain[i] = c[i] /\ IsPage(c[i]) /\ pg[i] = disk[c[i]]
      /\ \A i, j \in 1 .. n : c[i] = c[j] => i = j
  <2>1. \A i \in 1 .. n : Chain[i] = c[i] BY DirIsChain
  <2>2. \A i \in 1 .. n : IsPage(c[i]) BY DEF IsDir, IsPage
  <2>3. \A i \in 1 .. n : pg[i] = disk[c[i]] BY DEF OnDisk
  <2>4. \A i, j \in 1 .. n : c[i] = c[j] => i = j BY DEF IsDir
  <2> QED BY <2>1, <2>2, <2>3, <2>4
<1>2. \A i \in 1 .. n : i \in PageNos BY XdfAssumption DEF PageNos
<1>3. ASSUME NEW h \in S
      PROVE  /\ h \in PageNos \X Slots /\ h[1] \in 1 .. n /\ h[2] <= pg[h[1]].nent
             /\ pg[h[1]].ent[h[2]].id = "live"
  <2>1. /\ h \in PageNos \X Slots /\ h[1] <= n /\ h[2] <= pg[h[1]].nent
        /\ pg[h[1]].ent[h[2]].id = "live"
    BY DEF LiveIn, UsedIn, EntryIn
  <2>2. h[1] \in 1 .. n BY <2>1, XdfAssumption DEF PageNos
  <2> QED BY <2>1, <2>2
<1>4. ASSUME NEW i \in 1 .. n, NEW s \in Slots, s <= pg[i].nent, pg[i].ent[s].id = "live"
      PROVE  <<i, s>> \in S
  <2>1. <<i, s>> \in PageNos \X Slots /\ i <= n BY <1>2
  <2> QED BY <1>4, <2>1 DEF LiveIn, UsedIn, EntryIn
<1>5. ASSUME NEW as
      PROVE  as \in T <=> /\ \E i \in 1 .. n : \E s \in Slots :
                               as = <<c[i], s>> /\ s <= pg[i].nent /\ pg[i].ent[s].id = "live"
  <2>1. {Chain[i] : i \in 1 .. n} = {c[i] : i \in 1 .. n} BY <1>1
  <2>2. as \in T <=> /\ as \in {c[i] : i \in 1 .. n} \X Slots
                     /\ IsPage(as[1]) /\ as[2] <= disk[as[1]].nent
                     /\ disk[as[1]].ent[as[2]].id = "live"
    BY <2>1 DEF LiveOnDisk
  <2> HIDE DEF T, pg
  <2>3. as \in {c[i] : i \in 1 .. n} \X Slots
          <=> \E i \in 1 .. n : \E s \in Slots : as = <<c[i], s>>
    <3>1. ASSUME as \in {c[i] : i \in 1 .. n} \X Slots
          PROVE  \E i \in 1 .. n : \E s \in Slots : as = <<c[i], s>>
      <4> DEFINE A == {c[i] : i \in 1 .. n}
      <4>1. as \in A \X Slots BY <3>1
      <4>2. \A a \in A : \E i \in 1 .. n : a = c[i] OBVIOUS
      <4> HIDE DEF A
      <4>3. as = <<as[1], as[2]>> /\ as[1] \in A /\ as[2] \in Slots BY <4>1, PairsOf
      <4>4. PICK i \in 1 .. n : as[1] = c[i] BY <4>2, <4>3
      <4>5. as = <<c[i], as[2]>> BY <4>3, <4>4
      <4> QED BY <4>3, <4>5
    <3>2. ASSUME NEW i \in 1 .. n, NEW s \in Slots, as = <<c[i], s>>
          PROVE  as \in {c[j] : j \in 1 .. n} \X Slots
      <4>1. c[i] \in {c[j] : j \in 1 .. n} OBVIOUS
      <4> QED BY <3>2, <4>1
    <3> QED BY <3>1, <3>2
  <2>4. ASSUME NEW i \in 1 .. n, NEW s \in Slots, as = <<c[i], s>>
        PROVE  /\ as[1] = c[i] /\ as[2] = s /\ IsPage(as[1]) /\ disk[as[1]] = pg[i]
    BY <1>1, <2>4
  <2>5. ASSUME as \in T
        PROVE  \E i \in 1 .. n : \E s \in Slots :
                 as = <<c[i], s>> /\ s <= pg[i].nent /\ pg[i].ent[s].id = "live"
    <3>1. /\ as \in {c[i] : i \in 1 .. n} \X Slots
          /\ as[2] <= disk[as[1]].nent /\ disk[as[1]].ent[as[2]].id = "live"
      BY <2>2, <2>5
    <3>2. PICK i \in 1 .. n, s \in Slots : as = <<c[i], s>> BY <2>3, <3>1
    <3>3. as[2] = s /\ disk[as[1]] = pg[i] BY <2>4, <3>2
    <3> QED BY <3>1, <3>2, <3>3
  <2>6. ASSUME NEW i \in 1 .. n, NEW s \in Slots,
               as = <<c[i], s>>, s <= pg[i].nent, pg[i].ent[s].id = "live"
        PROVE  as \in T
    <3>1. as \in {c[j] : j \in 1 .. n} \X Slots BY <2>3, <2>6
    <3>2. as[2] = s /\ IsPage(as[1]) /\ disk[as[1]] = pg[i] BY <2>4, <2>6
    <3> QED BY <2>2, <2>6, <3>1, <3>2
  <2> QED BY <2>5, <2>6
<1> HIDE DEF S, T, pg
<1>6. F \in [S -> T]
  <2> SUFFICES ASSUME NEW h \in S PROVE <<c[h[1]], h[2]>> \in T OBVIOUS
  <2>1. h[1] \in 1 .. n /\ h[2] \in Slots BY <1>3
  <2> QED BY <1>3, <1>5, <2>1
<1>7. ASSUME NEW g \in S, NEW h \in S, F[g] = F[h] PROVE g = h
  <2>1. c[g[1]] = c[h[1]] /\ g[2] = h[2] BY <1>7
  <2>2. g[1] = h[1] BY <1>1, <1>3, <2>1
  <2>3. g = <<g[1], g[2]>> /\ h = <<h[1], h[2]>> BY <1>3
  <2> QED BY <2>1, <2>2, <2>3
<1>8. ASSUME NEW as \in T PROVE \E h \in S : F[h] = as
  <2>1. PICK i \in 1 .. n, s \in Slots :
          as = <<c[i], s>> /\ s <= pg[i].nent /\ pg[i].ent[s].id = "live"
    BY <1>5
  <2>2. <<i, s>> \in S BY <1>4, <2>1
  <2>3. F[<<i, s>>] = as BY <2>1, <2>2
  <2> QED BY <2>2, <2>3
<1>9. F \in Bijection(S, T)
  <2> HIDE DEF F
  <2> QED BY <1>6, <1>7, <1>8, Fun_IsBij
<1>10. ExistsBijection(S, T)
  <2> HIDE DEF F
  <2> QED BY <1>9, Fun_ExistsBij
<1>11. IsFiniteSet(S) BY HandlesFinite DEF S
<1>12. Cardinality(T) = Cardinality(S) BY <1>10, <1>11, FS_Bijection
<1> QED BY <1>12 DEF S, T, pg

(***************************************************************************)
(* When the sites run at most one writing application at a time, a header  *)
(* on disk whose flag says that nobody is writing comes with a complete    *)
(* directory: its nbd pages are chained, they hold nrec live entries, and  *)
(* everything lies within fsiz.  The flag goes up before the first page is *)
(* written and down after the last, in c_xdfcls, whatever happens between. *)
(***************************************************************************)
THEOREM CleanFiles == ASSUME Coordinated PROVE Spec => []CleanFileIsComplete
<1>1. Init => AInv BY InitAccounts
<1>2. AInv /\ [Next]_vars => AInv' BY StepAccounts
<1>3. AInv => CleanFileIsComplete
  <2> SUFFICES ASSUME AInv, header.rwflg = RDMODE
               PROVE  /\ \A i \in 1 .. header.nbd :
                           /\ IsPage(Chain[i]) /\ Chain[i] <= header.fsiz
                           /\ \A e \in UsedEntries(disk[Chain[i]]) :
                                e.addr + e.lng - 1 <= header.fsiz /\ e.id # "erased"
                      /\ header.nbd > 0 => disk[Chain[header.nbd]].nxt = 0
                      /\ header.nrec = Cardinality(LiveOnDisk)
    BY Zenon DEF CleanFileIsComplete
  <2> DEFINE n == header.nbd
  <2>1. /\ header \in Header /\ disk \in [Addr -> Word] /\ header.fsiz \in Nat
        /\ DiskGood(disk, header.fsiz)
    <3>1. IInv BY DEF AInv
    <3>2. header \in Header /\ disk \in [Addr -> Word] /\ DiskGood(disk, header.fsiz)
      BY <3>1 DEF IInv, TypeInv, TypeOK
    <3>3. header.fsiz \in 0 .. MaxAddr BY <3>2 DEF Header
    <3> QED BY <3>2, <3>3, XdfAssumption
  <2>2. PICK c \in [1 .. n -> 1 .. header.fsiz] :
          /\ IsDir(disk, c, n)
          /\ Accounted(n, OnDisk(disk, c, n), header.nrec)
          /\ \A i \in 1 .. n : Clear(disk[c[i]])
    BY DEF AInv, CleanAccounts
  <2>3. n \in 0 .. MaxDirPages BY <2>1 DEF Header
  <2>4. \A i \in 1 .. n : Chain[i] = c[i] /\ IsPage(c[i])
    <3>1. \A i \in 1 .. n : Chain[i] = c[i] BY <2>2, <2>3, DirIsChain
    <3>2. \A i \in 1 .. n : IsPage(c[i]) BY <2>2 DEF IsDir, IsPage
    <3> QED BY <3>1, <3>2
  <2>5. ASSUME NEW i \in 1 .. n
        PROVE  /\ IsPage(Chain[i]) /\ Chain[i] <= header.fsiz
               /\ \A e \in UsedEntries(disk[Chain[i]]) :
                    e.addr + e.lng - 1 <= header.fsiz /\ e.id # "erased"
    <3>1. c[i] <= header.fsiz BY <2>1, <2>2
    <3>2. \A s \in 1 .. disk[c[i]].nent :
            /\ Good(disk, disk[c[i]].ent[s], header.fsiz)
            /\ disk[c[i]].ent[s].id # "erased"
      BY <2>1, <2>2, <2>4 DEF DiskGood, IsPage, Clear
    <3> QED BY <2>4, <3>1, <3>2 DEF UsedEntries, Good
  <2>6. n > 0 => disk[Chain[n]].nxt = 0
    <3> SUFFICES ASSUME n > 0 PROVE disk[Chain[n]].nxt = 0 OBVIOUS
    <3>1. n >= 1 /\ n \in 1 .. n BY <2>3, XdfAssumption
    <3> QED BY <2>2, <2>4, <3>1 DEF IsDir
  <2>7. header.nrec = Cardinality(LiveOnDisk) BY <2>1, <2>2, <2>3, LiveAreLive DEF Accounted
  <2> QED BY <2>5, <2>6, <2>7
<1> QED BY <1>1, <1>2, <1>3, PTL DEF Spec

(***************************************************************************)
(* A random file of a site that runs one writing application at a time is  *)
(* a RecordStore (StoreIsKept).                                            *)
(*                                                                         *)
(* What the file holds is defined by the chain of its directory pages.  In *)
(* a session that chain is the pages of the session, up to some page: the  *)
(* pages behind it are still empty on disk, and nothing leads to them.     *)
(***************************************************************************)
(***************************************************************************)
(* Slot s of a page is live and names record r; the records that the       *)
(* first N pages of a directory on disk d name, and those that the pages   *)
(* in memory do, each with its handle.                                     *)
(***************************************************************************)
Shows(pg, s, r) == s \in 1 .. pg.nent /\ pg.ent[s].id = "live" /\ RecordOf(pg.ent[s]) = r

Things == Addr \X Slots \X Record

Recorded(d, N) ==
  {x \in Things : \E n \in 1 .. N : \E c : Leads(d, c, n) /\ c[n] = x[1] /\ Shows(d[x[1]], x[2], x[3])}

Remembered(f) ==
  {x \in Things : \E i \in 1 .. f.npages : f.page[i].addr = x[1] /\ Shows(f.page[i], x[2], x[3])}

(***************************************************************************)
(* The chain on disk goes through the first n pages of a session; the rest *)
(* are empty on disk.  WrittenBy: what the first n pages of it name there. *)
(***************************************************************************)
Reached(d, f, n) ==
  /\ n <= f.npages
  /\ \A i \in 1 .. n - 1 : d[f.page[i].addr].nxt = f.page[i + 1].addr
  /\ n >= 1 => d[f.page[n].addr].nxt = 0
  /\ \A i \in n + 1 .. f.npages : d[f.page[i].addr] = EmptyPage

WrittenBy(d, f, n) ==
  {x \in Things : \E i \in 1 .. n : f.page[i].addr = x[1] /\ Shows(d[x[1]], x[2], x[3])}

(***************************************************************************)
(* The invariant: an application that is about to begin a session finds a  *)
(* sealed file; outside a close the chain goes as far as the header says,  *)
(* in a close as far as the pages have been linked.                        *)
(***************************************************************************)
SessionOK(d, H, f) ==
  /\ f.hdr.rwflg # "none"
  /\ f.st \in {"creating", "opening"} => H.rwflg = RDMODE /\ H.nbd = f.hdr.nbd
  /\ f.st \in {"open", "failed"} => Reached(d, f, H.nbd)
  /\ f.st \in {"closing", "marked"} =>
       \E n \in 0 .. f.npages : Reached(d, f, n) /\ (f.npages >= 1 => n >= 1)

RInv == SInv /\ \A p \in Procs : Active(tab[p]) => SessionOK(disk, header, tab[p])

(***************************************************************************)
(* The definitions of the mapping, in these terms.                         *)
(***************************************************************************)
LEMMA InMemoryIs ==
  ASSUME NEW f \in FileEntry, \A i \in 1 .. f.npages : f.page[i].addr \in Addr
  PROVE  InMemory(f) = Remembered(f)
<1>0. f.npages \in Nat BY FileTypes
<1>1. ASSUME NEW x \in InMemory(f) PROVE x \in Remembered(f)
  <2>1. PICK h \in LiveHandles(f) : x = Handled(f.page[h[1]].addr, h[2], EntryAt(f, h))
    BY DEF InMemory
  <2>2. /\ h[1] \in PageNos /\ h[2] \in Slots /\ h[1] <= f.npages /\ h[2] <= f.page[h[1]].nent
        /\ f.page[h[1]].ent[h[2]].id = "live" /\ RecordOf(EntryAt(f, h)) \in Record
    BY HandleTypes DEF LiveHandles
  <2>3. h[1] \in 1 .. f.npages BY <1>0, <2>2 DEF PageNos
  <2>4. h[2] \in 1 .. f.page[h[1]].nent
    <3>1. f.page[h[1]].nent \in Nat BY <2>2, FileTypes, PageTypes
    <3> QED BY <2>2, <3>1 DEF Slots
  <2>5. x \in Things BY <2>1, <2>2, <2>3 DEF Handled, Things
  <2>6. x[1] = f.page[h[1]].addr /\ x[2] = h[2] /\ x[3] = RecordOf(f.page[h[1]].ent[h[2]])
    BY <2>1 DEF Handled, EntryAt
  <2>7. Shows(f.page[h[1]], x[2], x[3]) BY <2>2, <2>4, <2>6 DEF Shows
  <2> QED BY <2>3, <2>5, <2>6, <2>7 DEF Remembered
<1>2. ASSUME NEW x \in Remembered(f) PROVE x \in InMemory(f)
  <2>1. PICK i \in 1 .. f.npages : f.page[i].addr = x[1] /\ Shows(f.page[i], x[2], x[3])
    BY DEF Remembered
  <2>2. x \in Things BY DEF Remembered
  <2>3. x = <<x[1], x[2], x[3]>> /\ x[2] \in Slots BY <2>2 DEF Things
  <2> DEFINE h == <<i, x[2]>>
  <2>4. i \in PageNos BY FileTypes
  <2>5. x[2] <= f.page[i].nent
    <3>1. f.page[i].nent \in Nat BY <2>4, FileTypes, PageTypes
    <3> QED BY <2>1, <3>1 DEF Shows
  <2>6. h[1] = i /\ h[2] = x[2] /\ h \in PageNos \X Slots /\ i <= f.npages
    BY <1>0, <2>3, <2>4
  <2> HIDE DEF h
  <2>7. h \in LiveHandles(f) BY <2>1, <2>5, <2>6 DEF LiveHandles, Shows
  <2>8. x = Handled(f.page[h[1]].addr, h[2], EntryAt(f, h))
    BY <2>1, <2>3, <2>6 DEF Handled, EntryAt, Shows
  <2> QED BY <2>7, <2>8 DEF InMemory
<1> QED BY <1>1, <1>2

LEMMA ChainOfPages ==
  ASSUME NEW i \in 1 .. MaxDirPages, IsPage(Chain[i])
  PROVE  Leads(disk, Chain, i)
<1>0. MaxDirPages \in Nat /\ i \in Nat /\ i >= 1 BY XdfAssumption
<1>1. \A j \in 1 .. MaxDirPages : Chain[j] = IF j = 1 THEN 1 ELSE After(Chain[j - 1])
  BY ChainFollows DEF Follows
<1> DEFINE T == {k \in Nat : k < i /\ ~IsPage(Chain[i - k])}
<1>2. CASE T # {}
  <2>1. PICK k \in T : \A m \in T : k <= m BY <1>2, Least
  <2>2. k \in Nat /\ k < i /\ ~IsPage(Chain[i - k]) OBVIOUS
  <2>3. k # 0
    <3>1. i - 0 = i BY <1>0
    <3> QED BY <2>2, <3>1
  <2>4. k - 1 \in Nat /\ k - 1 < i /\ k - 1 \notin T BY <1>0, <2>1, <2>2, <2>3
  <2>5. IsPage(Chain[i - (k - 1)]) BY <2>4
  <2>6. i - (k - 1) \in 1 .. MaxDirPages /\ i - (k - 1) # 1 /\ (i - (k - 1)) - 1 = i - k
    BY <1>0, <2>2
  <2>7. Chain[i - (k - 1)] = 0 BY <1>1, <2>2, <2>6 DEF After
  <2> QED BY <2>5, <2>7 DEF IsPage, Addr
<1>3. CASE T = {}
  <2>1. ASSUME NEW j \in 1 .. i PROVE IsPage(Chain[j])
    <3>1. i - j \in Nat /\ i - j < i /\ i - (i - j) = j BY <1>0
    <3>2. i - j \notin T BY <1>3
    <3> QED BY <3>1, <3>2
  <2>2. Chain[1] = 1 BY <1>0, <1>1
  <2>3. ASSUME NEW j \in 1 .. i - 1 PROVE disk[Chain[j]].nxt = Chain[j + 1]
    <3>1. j + 1 \in 1 .. MaxDirPages /\ j + 1 # 1 /\ (j + 1) - 1 = j /\ j \in 1 .. i BY <1>0
    <3>2. Chain[j + 1] = After(Chain[j]) BY <1>1, <3>1
    <3> QED BY <2>1, <3>1, <3>2 DEF After
  <2> QED BY <2>1, <2>2, <2>3 DEF Leads, IsPage
<1> QED BY <1>2, <1>3

LEMMA OnFileIs == TypeInv => OnFile = Recorded(disk, header.nbd)
<1> SUFFICES ASSUME TypeInv PROVE OnFile = Recorded(disk, header.nbd) OBVIOUS
<1>1. /\ disk \in [Addr -> Word] /\ header.nbd \in 0 .. MaxDirPages
      /\ MaxDirPages \in Nat /\ EntriesPerPage \in Nat
  BY XdfAssumption DEF TypeInv, TypeOK, Header
<1>2. \A a \in Addr : disk[a].kind = "page" =>
        /\ disk[a].nent \in 0 .. EntriesPerPage
        /\ \A s \in Slots : RecordOf(disk[a].ent[s]) \in Record
  <2> SUFFICES ASSUME NEW a \in Addr, disk[a].kind = "page"
               PROVE  /\ disk[a].nent \in 0 .. EntriesPerPage
                      /\ \A s \in Slots : RecordOf(disk[a].ent[s]) \in Record
    OBVIOUS
  <2>1. disk[a] \in PageImage BY <1>1, PageWords
  <2>2. disk[a].ent \in [Slots -> Entry] BY <2>1 DEF PageImage
  <2>3. \A e \in Entry : RecordOf(e) \in Record BY DEF RecordOf, Record, Entry
  <2> QED BY <2>1, <2>2, <2>3 DEF PageImage
<1>3. ASSUME NEW x \in OnFile PROVE x \in Recorded(disk, header.nbd)
  <2>1. PICK as \in LiveOnDisk : x = Handled(as[1], as[2], disk[as[1]].ent[as[2]])
    BY DEF OnFile
  <2>2. PICK i \in 1 .. header.nbd : as[1] = Chain[i] BY DEF LiveOnDisk
  <2>3. /\ IsPage(as[1]) /\ as[2] \in Slots /\ as[2] <= disk[as[1]].nent
        /\ disk[as[1]].ent[as[2]].id = "live"
    BY DEF LiveOnDisk
  <2>4. i \in 1 .. MaxDirPages BY <1>1
  <2>5. Leads(disk, Chain, i) BY <2>2, <2>3, <2>4, ChainOfPages
  <2>6. as[1] \in Addr /\ disk[as[1]].kind = "page" BY <2>3 DEF IsPage
  <2>7. as[2] \in 1 .. disk[as[1]].nent
    <3>1. disk[as[1]].nent \in 0 .. EntriesPerPage BY <1>2, <2>6
    <3>2. as[2] \in 1 .. EntriesPerPage /\ as[2] <= disk[as[1]].nent BY <2>3 DEF Slots
    <3>3. \A m \in 0 .. EntriesPerPage, s \in 1 .. EntriesPerPage : s <= m => s \in 1 .. m BY <1>1
    <3> QED BY <3>1, <3>2, <3>3, Zenon
  <2>8. x[1] = as[1] /\ x[2] = as[2] /\ x[3] = RecordOf(disk[as[1]].ent[as[2]])
    BY <2>1 DEF Handled
  <2>9. x \in Things BY <1>2, <2>1, <2>3, <2>6 DEF Handled, Things
  <2>10. Shows(disk[x[1]], x[2], x[3]) BY <2>3, <2>7, <2>8 DEF Shows
  <2> QED BY <2>2, <2>5, <2>8, <2>9, <2>10 DEF Recorded
<1>4. ASSUME NEW x \in Recorded(disk, header.nbd) PROVE x \in OnFile
  <2>1. PICK n \in 1 .. header.nbd :
          \E c : Leads(disk, c, n) /\ c[n] = x[1] /\ Shows(disk[x[1]], x[2], x[3])
    BY DEF Recorded
  <2>2. PICK c : Leads(disk, c, n) /\ c[n] = x[1] /\ Shows(disk[x[1]], x[2], x[3]) BY <2>1
  <2>3. n \in 1 .. MaxDirPages /\ n \in 1 .. n BY <1>1
  <2>4. x[1] = Chain[n] BY <2>2, <2>3, ChainLeads
  <2>5. x[1] \in Addr /\ disk[x[1]].kind = "page" /\ IsPage(x[1])
    BY <2>2, <2>3 DEF Leads, IsPage
  <2>6. x = <<x[1], x[2], x[3]>> /\ x[2] \in Slots BY DEF Recorded, Things
  <2>7. x[2] <= disk[x[1]].nent BY <1>1, <1>2, <2>2, <2>5 DEF Shows
  <2>8. <<x[1], x[2]>> \in LiveOnDisk
    BY <2>2, <2>4, <2>5, <2>6, <2>7 DEF LiveOnDisk, Shows
  <2>9. x = Handled(x[1], x[2], disk[x[1]].ent[x[2]]) BY <2>2, <2>6 DEF Handled, Shows
  <2> QED BY <2>8, <2>9 DEF OnFile
<1> QED BY <1>3, <1>4

(***************************************************************************)
(* What the file holds depends on the pages in use only.                   *)
(***************************************************************************)
LEMMA RecordedKept ==
  ASSUME NEW d \in [Addr -> Word], NEW e, NEW N \in Nat,
         \A a \in Addr : Used(d[a]) => e[a] = d[a]
  PROVE  Recorded(d, N) \subseteq Recorded(e, N)
<1> SUFFICES ASSUME NEW x \in Recorded(d, N) PROVE x \in Recorded(e, N) OBVIOUS
<1>0. x \in Things /\ \E n \in 1 .. N : \E c : Leads(d, c, n) /\ c[n] = x[1] /\ Shows(d[x[1]], x[2], x[3])
  BY DEF Recorded
<1>1. PICK n \in 1 .. N : \E c : Leads(d, c, n) /\ c[n] = x[1] /\ Shows(d[x[1]], x[2], x[3])
  BY <1>0
<1>2. PICK c : Leads(d, c, n) /\ c[n] = x[1] /\ Shows(d[x[1]], x[2], x[3]) BY <1>1
<1>3. n \in Nat /\ n \in 1 .. n OBVIOUS
<1>4. ASSUME NEW i \in 1 .. n PROVE e[c[i]] = d[c[i]]
  <2>1. c[i] \in Addr /\ d[c[i]].kind = "page" BY <1>2 DEF Leads
  <2>2. Used(d[c[i]])
    <3>1. CASE i = n
      <4>1. d[c[i]].nent \in Nat BY <2>1, DiskPages
      <4>2. \E s : s \in 1 .. d[c[i]].nent BY <1>2, <3>1 DEF Shows
      <4> QED BY <2>1, <4>1, <4>2 DEF Used
    <3>2. CASE i # n
      <4>1. i \in 1 .. n - 1 /\ i + 1 \in 1 .. n BY <1>3, <3>2
      <4>2. d[c[i]].nxt \in Addr BY <1>2, <4>1 DEF Leads
      <4> QED BY <2>1, <4>2 DEF Used, Addr
    <3> QED BY <3>1, <3>2
  <2> QED BY <2>1, <2>2
<1>5. \A i \in 1 .. n - 1 : i \in 1 .. n BY <1>3
<1>6. Leads(e, c, n) BY <1>2, <1>4, <1>5 DEF Leads
<1>7. Shows(e[x[1]], x[2], x[3]) BY <1>2, <1>3, <1>4
<1> QED BY <1>0, <1>2, <1>6, <1>7 DEF Recorded

LEMMA SameRecorded ==
  ASSUME NEW d \in [Addr -> Word], NEW e \in [Addr -> Word], NEW N \in Nat, NEW L,
         NoUsedPageBeyond(d, L), KeptPages(d, e, L), \A a \in Addr : Used(e[a]) => e[a] = d[a]
  PROVE  Recorded(e, N) = Recorded(d, N)
<1>1. \A a \in Addr : Used(d[a]) => e[a] = d[a] BY DEF NoUsedPageBeyond, KeptPages, Used
<1>2. Recorded(d, N) \subseteq Recorded(e, N) BY <1>1, RecordedKept
<1>3. \A a \in Addr : Used(e[a]) => d[a] = e[a] OBVIOUS
<1>4. Recorded(e, N) \subseteq Recorded(d, N) BY <1>3, RecordedKept
<1> QED BY <1>2, <1>4

LEMMA SameReached ==
  ASSUME NEW d, NEW e, NEW f \in FileEntry, NEW g, NEW n \in Nat, Reached(d, f, n),
         g.npages = f.npages,
         \A i \in 1 .. f.npages : /\ g.page[i].addr = f.page[i].addr
                                  /\ e[f.page[i].addr] = d[f.page[i].addr]
  PROVE  Reached(e, g, n)
<1>1. f.npages \in Nat /\ n <= f.npages BY FileTypes DEF Reached
<1>2. \A i \in 1 .. n - 1 : i \in 1 .. f.npages /\ i + 1 \in 1 .. f.npages BY <1>1
<1>3. n >= 1 => n \in 1 .. f.npages BY <1>1
<1>4. \A i \in n + 1 .. f.npages : i \in 1 .. f.npages BY <1>1
<1> QED BY <1>2, <1>3, <1>4 DEF Reached

(***************************************************************************)
(* In a session the file holds what its first pages name on disk.          *)
(***************************************************************************)
LEMMA ReachedRecorded ==
  ASSUME NEW d, NEW f \in FileEntry, Pages(d, f), NEW n \in Nat, NEW N \in Nat,
         Reached(d, f, n), n <= N, n = 0 => N = 0
  PROVE  Recorded(d, N) = WrittenBy(d, f, n)
<1>0. f.npages \in Nat /\ n <= f.npages BY FileTypes DEF Reached
<1>1. ASSUME NEW x \in Recorded(d, N) PROVE x \in WrittenBy(d, f, n)
  <2>0. x \in Things /\ \E m \in 1 .. N : \E c : Leads(d, c, m) /\ c[m] = x[1] /\ Shows(d[x[1]], x[2], x[3])
    BY DEF Recorded
  <2>1. PICK m \in 1 .. N : \E c : Leads(d, c, m) /\ c[m] = x[1] /\ Shows(d[x[1]], x[2], x[3])
    BY <2>0
  <2>2. PICK c : Leads(d, c, m) /\ c[m] = x[1] /\ Shows(d[x[1]], x[2], x[3]) BY <2>1
  <2>3. n >= 1 /\ m \in Nat /\ m >= 1 OBVIOUS
  <2> DEFINE T == {i \in 1 .. m : ~(i <= n /\ c[i] = f.page[i].addr)}
  <2>4. CASE T # {}
    <3>0. T \in SUBSET Nat OBVIOUS
    <3>1. PICK i \in T : \A j \in T : i <= j BY <2>4, <3>0, Least
    <3>2. i \in 1 .. m /\ ~(i <= n /\ c[i] = f.page[i].addr) OBVIOUS
    <3>3. i # 1 BY <1>0, <2>2, <2>3, <3>2 DEF Leads, Pages
    <3> DEFINE j == i - 1
    <3>4. j \in 1 .. m - 1 /\ j \in 1 .. m /\ j < i /\ j + 1 = i BY <2>3, <3>2, <3>3
    <3>5. j \notin T BY <2>3, <3>1, <3>2, <3>4
    <3>6. j <= n /\ c[j] = f.page[j].addr BY <3>4, <3>5
    <3>7. d[c[j]].nxt = c[i] /\ c[i] \in Addr BY <2>2, <3>2, <3>4 DEF Leads
    <3>8. c[i] # 0 BY <3>7 DEF Addr
    <3>9. j # n BY <2>3, <3>6, <3>7, <3>8 DEF Reached
    <3>10. j \in 1 .. n - 1 /\ i <= n BY <2>3, <3>4, <3>6, <3>9
    <3>11. d[f.page[j].addr].nxt = f.page[i].addr BY <3>4, <3>10 DEF Reached
    <3> QED BY <3>2, <3>6, <3>7, <3>10, <3>11
  <2>5. CASE T = {}
    <3>1. m \in 1 .. m /\ m \notin T BY <2>3, <2>5
    <3>2. m <= n /\ c[m] = f.page[m].addr BY <3>1
    <3>3. m \in 1 .. n BY <2>3, <3>2
    <3> QED BY <2>0, <2>2, <3>2, <3>3 DEF WrittenBy
  <2> QED BY <2>4, <2>5
<1>2. ASSUME NEW x \in WrittenBy(d, f, n) PROVE x \in Recorded(d, N)
  <2>0. x \in Things BY DEF WrittenBy
  <2>1. PICK i \in 1 .. n : f.page[i].addr = x[1] /\ Shows(d[x[1]], x[2], x[3]) BY DEF WrittenBy
  <2> DEFINE c == [j \in 1 .. i |-> f.page[j].addr]
  <2>2. \A j \in 1 .. i : c[j] = f.page[j].addr OBVIOUS
  <2> HIDE DEF c
  <2>3. i \in Nat /\ i >= 1 /\ i \in 1 .. i /\ 1 \in 1 .. i /\ i \in 1 .. N OBVIOUS
  <2>4. \A j \in 1 .. i : j \in 1 .. f.npages BY <1>0
  <2>5. \A j \in 1 .. i - 1 : j \in 1 .. i /\ j + 1 \in 1 .. i /\ j \in 1 .. n - 1 BY <2>3
  <2>6. c[1] = 1 BY <1>0, <2>2, <2>3 DEF Pages
  <2>7. \A j \in 1 .. i : c[j] \in Addr /\ d[c[j]].kind = "page" BY <2>2, <2>4 DEF Pages
  <2>8. \A j \in 1 .. i - 1 : d[c[j]].nxt = c[j + 1] BY <2>2, <2>5 DEF Reached
  <2>9. Leads(d, c, i) BY <2>6, <2>7, <2>8 DEF Leads
  <2> QED BY <2>0, <2>1, <2>2, <2>3, <2>9 DEF Recorded
<1> QED BY <1>1, <1>2

(***************************************************************************)
(* What the file holds has its handles among those in use in the memory of *)
(* the application that writes; where all its pages are on disk the file   *)
(* is the session.                                                         *)
(***************************************************************************)
HandleUsed(f, a, s) == \E i \in 1 .. f.npages : f.page[i].addr = a /\ s \in 1 .. f.page[i].nent

LEMMA WrittenHandles ==
  ASSUME NEW d \in [Addr -> Word], NEW f \in FileEntry, NEW n \in Nat, n <= f.npages,
         Pages(d, f), NEW S, Ahead(d, f, S), NEW x \in WrittenBy(d, f, n)
  PROVE  HandleUsed(f, x[1], x[2])
<1>0. f.npages \in Nat BY FileTypes
<1>1. PICK i \in 1 .. n : f.page[i].addr = x[1] /\ Shows(d[x[1]], x[2], x[3]) BY DEF WrittenBy
<1>2. i \in 1 .. f.npages BY <1>0
<1>3. x[1] \in Addr /\ d[x[1]].kind = "page" BY <1>1, <1>2 DEF Pages
<1>4. d[x[1]].nent <= f.page[i].nent BY <1>1, <1>2 DEF Ahead, Continues
<1>5. d[x[1]].nent \in Nat /\ f.page[i].nent \in Nat BY <1>2, <1>3, DiskPages, FileTypes, PageTypes
<1>6. x[2] \in 1 .. f.page[i].nent BY <1>1, <1>4, <1>5 DEF Shows
<1> QED BY <1>1, <1>2, <1>6 DEF HandleUsed

LEMMA WrittenIsRemembered ==
  ASSUME NEW d, NEW f \in FileEntry, AllImages(d, f)
  PROVE  WrittenBy(d, f, f.npages) = Remembered(f)
<1>1. ASSUME NEW i \in 1 .. f.npages, NEW s, NEW r
      PROVE  Shows(d[f.page[i].addr], s, r) <=> Shows(f.page[i], s, r)
  <2>1. d[f.page[i].addr] = Image(f.page[i]) BY DEF AllImages
  <2> QED BY <2>1 DEF Shows, Image
<1> QED BY <1>1 DEF WrittenBy, Remembered

LEMMA ImagesReached ==
  ASSUME NEW d, NEW f \in FileEntry, Pages(d, f), LastPageEnds(f), AllImages(d, f)
  PROVE  Reached(d, f, f.npages)
<1>0. f.npages \in Nat BY FileTypes
<1>1. ASSUME NEW i \in 1 .. f.npages PROVE d[f.page[i].addr].nxt = f.page[i].nxt
  <2>1. d[f.page[i].addr] = Image(f.page[i]) BY DEF AllImages
  <2> QED BY <2>1 DEF Image
<1>2. \A i \in 1 .. f.npages - 1 : i \in 1 .. f.npages BY <1>0
<1>3. f.npages >= 1 => f.npages \in 1 .. f.npages BY <1>0
<1>4. \A i \in f.npages + 1 .. f.npages : FALSE BY <1>0
<1> QED BY <1>0, <1>1, <1>2, <1>3, <1>4 DEF Reached, Pages, LastPageEnds

(***************************************************************************)
(* An application whose pages are all on disk, linked: the file is what it *)
(* has in memory.                                                          *)
(***************************************************************************)
LEMMA AtRest ==
  ASSUME NEW d, NEW f \in FileEntry, Pages(d, f), LastPageEnds(f), AllImages(d, f)
  PROVE  Reached(d, f, f.npages) /\ Recorded(d, f.npages) = InMemory(f)
<1>1. f.npages \in Nat /\ \A i \in 1 .. f.npages : f.page[i].addr \in Addr BY FileTypes DEF Pages
<1>2. Reached(d, f, f.npages) BY ImagesReached
<1>3. f.npages <= f.npages BY <1>1
<1>4. Recorded(d, f.npages) = WrittenBy(d, f, f.npages) BY <1>1, <1>2, <1>3, ReachedRecorded
<1> QED BY <1>1, <1>2, <1>4, WrittenIsRemembered, InMemoryIs

LEMMA NothingRecorded ==
  /\ \A d : Recorded(d, 0) = {}
  /\ \A f \in FileEntry : f.npages = 0 => InMemory(f) = {}
<1>1. \A d : Recorded(d, 0) = {} BY DEF Recorded
<1>2. ASSUME NEW f \in FileEntry, f.npages = 0 PROVE InMemory(f) = {}
  <2>1. InMemory(f) = Remembered(f) BY <1>2, InMemoryIs
  <2> QED BY <1>2, <2>1 DEF Remembered
<1> QED BY <1>1, <1>2

(***************************************************************************)
(* What the invariant says of an application; that it is kept; who is idle *)
(* in the store.                                                           *)
(***************************************************************************)
FileIs == OnFile = Recorded(disk, header.nbd)

LEMMA RFacts ==
  ASSUME RInv, NEW p \in Procs
  PROVE  /\ SInv /\ IInv /\ tab \in [Procs -> FileEntry] /\ tab[p] \in FileEntry
         /\ Counted(tab[p]) /\ PInv(disk, header, size, tab[p])
         /\ disk \in [Addr -> Word] /\ header \in Header /\ header.nbd \in Nat
         /\ header.fsiz \in Nat /\ NoUsedPageBeyond(disk, header.fsiz)
         /\ Active(tab[p]) =>
              /\ SessionOK(disk, header, tab[p]) /\ WriterAhead(disk, header, safe, tab[p])
              /\ OnlyWriter(p) /\ WriterOK(disk, header, size, tab[p])
<1>1. SInv BY DEF RInv
<1>2. IInv /\ tab \in [Procs -> FileEntry] BY <1>1 DEF SInv, IInv, TypeInv, TypeOK
<1>3. Active(tab[p]) => SessionOK(disk, header, tab[p]) BY DEF RInv
<1> QED BY <1>1, <1>2, <1>3, SFacts, Facts

LEMMA NextR ==
  ASSUME RInv, SInv', NEW p \in Procs, NEW g, Sets(p, g),
         OnlyWriter(p) \/ (disk' = disk /\ header' = header),
         Active(g) => SessionOK(disk', header', g)
  PROVE  RInv' /\ g \in FileEntry /\ Counted(g) /\ disk' \in [Addr -> Word]
<1>1. tab \in [Procs -> FileEntry] BY RFacts
<1>2. \A q \in Procs : tab'[q] = IF q = p THEN g ELSE tab[q] BY <1>1 DEF Sets
<1>3. \A q \in Procs : Active(tab'[q]) => SessionOK(disk', header', tab'[q])
  BY <1>2 DEF RInv, OnlyWriter
<1>4. RInv' BY <1>3 DEF RInv
<1>5. tab'[p] = g BY <1>2
<1>6. tab'[p] \in FileEntry /\ Counted(tab'[p]) /\ disk' \in [Addr -> Word]
  BY DEF SInv, IInv, TypeInv, TypeOK, PagesCounted
<1> QED BY <1>4, <1>5, <1>6

LEMMA SessionsWrite == \A f : Phase(f) # "idle" => Active(f)
BY DEF Phase, InSession, Active

LEMMA OthersIdle ==
  ASSUME NEW p \in Procs, OnlyWriter(p)
  PROVE  \A q \in Procs \ {p} : Phase(tab[q]) = "idle"
BY SessionsWrite DEF OnlyWriter

LEMMA IdleWorks == \A f : Phase(f) = "idle" => Work(f) = {}
BY DEF Phase, Work

(***************************************************************************)
(* A step in the terms of the store.                                       *)
(***************************************************************************)
LEMMA Mapped ==
  ASSUME RInv, NEW p \in Procs, NEW g, Sets(p, g)
  PROVE  /\ [q \in Procs |-> Phase(tab'[q])] = [[q \in Procs |-> Phase(tab[q])] EXCEPT ![p] = Phase(g)]
         /\ [q \in Procs |-> Work(tab'[q])] = [[q \in Procs |-> Work(tab[q])] EXCEPT ![p] = Work(g)]
         /\ Phase(g) = Phase(tab[p]) =>
              [q \in Procs |-> Phase(tab'[q])] = [q \in Procs |-> Phase(tab[q])]
         /\ Work(g) = Work(tab[p]) =>
              [q \in Procs |-> Work(tab'[q])] = [q \in Procs |-> Work(tab[q])]
<1>1. tab \in [Procs -> FileEntry] BY RFacts
<1>2. \A q \in Procs : tab'[q] = IF q = p THEN g ELSE tab[q] BY <1>1 DEF Sets
<1>3. /\ \A q \in Procs : Phase(tab'[q]) = IF q = p THEN Phase(g) ELSE Phase(tab[q])
      /\ \A q \in Procs : Work(tab'[q]) = IF q = p THEN Work(g) ELSE Work(tab[q])
  BY <1>2
<1> QED BY <1>3

LEMMA StutterStep ==
  ASSUME RInv, NEW p \in Procs, NEW g, Sets(p, g), OnFile' = OnFile,
         Sealed(header') <=> Sealed(header), Phase(g) = Phase(tab[p]), Work(g) = Work(tab[p])
  PROVE  UNCHANGED Store!vars
<1>1. [q \in Procs |-> Phase(tab'[q])] = [q \in Procs |-> Phase(tab[q])] BY Mapped
<1>2. [q \in Procs |-> Work(tab'[q])] = [q \in Procs |-> Work(tab[q])] BY Mapped
<1>3. Sealed(header)' = Sealed(header) BY DEF Sealed
<1> QED BY <1>1, <1>2, <1>3 DEF Store!vars

LEMMA BeginStep ==
  ASSUME RInv, NEW p \in Procs, NEW g, Sets(p, g), OnlyWriter(p), Phase(tab[p]) = "idle",
         OnFile' = OnFile, header' = header, Sealed(header),
         Phase(g) = "session", Work(g) = OnFile
  PROVE  Store!Next
<1>1. \A q \in Procs : Phase(tab[q]) = "idle" BY OthersIdle
<1>2. [q \in Procs |-> Phase(tab'[q])] = [[q \in Procs |-> Phase(tab[q])] EXCEPT ![p] = "session"]
  <2>1. [q \in Procs |-> Phase(tab'[q])] = [[q \in Procs |-> Phase(tab[q])] EXCEPT ![p] = Phase(g)]
    BY Mapped
  <2> QED BY <2>1
<1>3. [q \in Procs |-> Work(tab'[q])] = [[q \in Procs |-> Work(tab[q])] EXCEPT ![p] = OnFile]
  BY Mapped
<1>4. Sealed(header)' = Sealed(header) BY DEF Sealed
<1>5. \A q \in Procs : [r \in Procs |-> Phase(tab[r])][q] = "idle" BY <1>1
<1>6. Store!Begin(p) BY <1>2, <1>3, <1>4, <1>5 DEF Store!Begin
<1> QED BY <1>6 DEF Store!Next

LEMMA ChangeStep ==
  ASSUME RInv, NEW p \in Procs, NEW g, Sets(p, g), Phase(tab[p]) = "session",
         OnFile' = OnFile, header' = header, Phase(g) = "session",
         NEW gone \in Store!AtMostOne(Work(tab[p])),
         NEW new \in Store!AtMostOne(Things \ (Work(tab[p]) \cup OnFile)),
         Work(g) = (Work(tab[p]) \ gone) \cup new
  PROVE  Store!Next
<1>1. [q \in Procs |-> Phase(tab'[q])] = [q \in Procs |-> Phase(tab[q])] BY Mapped
<1>2. [q \in Procs |-> Work(tab'[q])] = [[q \in Procs |-> Work(tab[q])] EXCEPT ![p] = Work(g)]
  BY Mapped
<1>3. [q \in Procs |-> Work(tab[q])][p] = Work(tab[p]) /\ [q \in Procs |-> Phase(tab[q])][p] = "session"
  OBVIOUS
<1>4. Sealed(header)' = Sealed(header) BY DEF Sealed
<1>5. [q \in Procs |-> Work(tab'[q])] =
        [[q \in Procs |-> Work(tab[q])] EXCEPT ![p] = (@ \ gone) \cup new]
  BY <1>2, <1>3
<1>6. Store!Change(p) BY <1>1, <1>3, <1>4, <1>5 DEF Store!Change, Things
<1> QED BY <1>6 DEF Store!Next

LEMMA CommitStep ==
  ASSUME RInv, NEW p \in Procs, NEW g, Sets(p, g), Phase(tab[p]) = "session",
         OnFile' = OnFile, ~Sealed(header'), Phase(g) = "commit", Work(g) = Work(tab[p])
  PROVE  Store!Next
<1>1. [q \in Procs |-> Phase(tab'[q])] = [[q \in Procs |-> Phase(tab[q])] EXCEPT ![p] = "commit"]
  <2>1. [q \in Procs |-> Phase(tab'[q])] = [[q \in Procs |-> Phase(tab[q])] EXCEPT ![p] = Phase(g)]
    BY Mapped
  <2> QED BY <2>1
<1>2. [q \in Procs |-> Work(tab'[q])] = [q \in Procs |-> Work(tab[q])] BY Mapped
<1>3. Sealed(header)' = FALSE BY DEF Sealed
<1>4. [q \in Procs |-> Phase(tab[q])][p] = "session" OBVIOUS
<1>5. Store!Commit(p) BY <1>1, <1>2, <1>3, <1>4 DEF Store!Commit
<1> QED BY <1>5 DEF Store!Next

LEMMA PublishStep ==
  ASSUME RInv, NEW p \in Procs, NEW g, Sets(p, g), header' = header,
         Phase(tab[p]) = "commit", Phase(g) = "commit", Work(g) = Work(tab[p]),
         OnFile \cap Work(tab[p]) \subseteq OnFile', OnFile' \subseteq OnFile \cup Work(tab[p])
  PROVE  Store!Next
<1>1. [q \in Procs |-> Phase(tab'[q])] = [q \in Procs |-> Phase(tab[q])] BY Mapped
<1>2. [q \in Procs |-> Work(tab'[q])] = [q \in Procs |-> Work(tab[q])] BY Mapped
<1>3. Sealed(header)' = Sealed(header) BY DEF Sealed
<1>4. [q \in Procs |-> Work(tab[q])][p] = Work(tab[p]) /\ [q \in Procs |-> Phase(tab[q])][p] = "commit"
  OBVIOUS
<1>5. Store!Publish(p) BY <1>1, <1>2, <1>3, <1>4 DEF Store!Publish
<1> QED BY <1>5 DEF Store!Next

LEMMA CheckpointStep ==
  ASSUME RInv, NEW p \in Procs, NEW g, Sets(p, g), header' = header, OnFile' = OnFile,
         Phase(tab[p]) = "commit", Work(tab[p]) = OnFile, Phase(g) = "session", Work(g) = OnFile
  PROVE  Store!Next
<1>1. [q \in Procs |-> Phase(tab'[q])] = [[q \in Procs |-> Phase(tab[q])] EXCEPT ![p] = "session"]
  <2>1. [q \in Procs |-> Phase(tab'[q])] = [[q \in Procs |-> Phase(tab[q])] EXCEPT ![p] = Phase(g)]
    BY Mapped
  <2> QED BY <2>1
<1>2. [q \in Procs |-> Work(tab'[q])] = [q \in Procs |-> Work(tab[q])] BY Mapped
<1>3. Sealed(header)' = Sealed(header) BY DEF Sealed
<1>4. [q \in Procs |-> Work(tab[q])][p] = OnFile /\ [q \in Procs |-> Phase(tab[q])][p] = "commit"
  OBVIOUS
<1>5. Store!Checkpoint(p)
  BY <1>1, <1>2, <1>3, <1>4 DEF Store!Checkpoint, Store!Committed
<1> QED BY <1>5 DEF Store!Next

LEMMA CloseStep ==
  ASSUME RInv, NEW p \in Procs, NEW g, Sets(p, g), Sealed(header'), OnFile' = OnFile,
         Phase(tab[p]) = "commit", Work(tab[p]) = OnFile, Phase(g) = "idle"
  PROVE  Store!Next
<1>1. [q \in Procs |-> Phase(tab'[q])] = [[q \in Procs |-> Phase(tab[q])] EXCEPT ![p] = "idle"]
  <2>1. [q \in Procs |-> Phase(tab'[q])] = [[q \in Procs |-> Phase(tab[q])] EXCEPT ![p] = Phase(g)]
    BY Mapped
  <2> QED BY <2>1
<1>2. [q \in Procs |-> Work(tab'[q])] = [[q \in Procs |-> Work(tab[q])] EXCEPT ![p] = {}]
  <2>1. [q \in Procs |-> Work(tab'[q])] = [[q \in Procs |-> Work(tab[q])] EXCEPT ![p] = Work(g)]
    BY Mapped
  <2> QED BY <2>1, IdleWorks
<1>3. Sealed(header)' = TRUE BY DEF Sealed
<1>4. [q \in Procs |-> Work(tab[q])][p] = OnFile /\ [q \in Procs |-> Phase(tab[q])][p] = "commit"
  OBVIOUS
<1>5. Store!Close(p) BY <1>1, <1>2, <1>3, <1>4 DEF Store!Close, Store!Committed
<1> QED BY <1>5 DEF Store!Next

LEMMA CrashStep ==
  ASSUME RInv, NEW p \in Procs, NEW g, Sets(p, g), header' = header, OnFile' = OnFile,
         Phase(g) = "idle"
  PROVE  Store!Next
<1>1. [q \in Procs |-> Phase(tab'[q])] = [[q \in Procs |-> Phase(tab[q])] EXCEPT ![p] = "idle"]
  <2>1. [q \in Procs |-> Phase(tab'[q])] = [[q \in Procs |-> Phase(tab[q])] EXCEPT ![p] = Phase(g)]
    BY Mapped
  <2> QED BY <2>1
<1>2. [q \in Procs |-> Work(tab'[q])] = [[q \in Procs |-> Work(tab[q])] EXCEPT ![p] = {}]
  <2>1. [q \in Procs |-> Work(tab'[q])] = [[q \in Procs |-> Work(tab[q])] EXCEPT ![p] = Work(g)]
    BY Mapped
  <2> QED BY <2>1, IdleWorks
<1>3. Sealed(header)' = Sealed(header) BY DEF Sealed
<1>4. Store!Crash(p) BY <1>1, <1>2, <1>3 DEF Store!Crash
<1> QED BY <1>4 DEF Store!Next

LEMMA Phases ==
  ASSUME NEW f
  PROVE  /\ f.st \in {"open", "failed"} /\ Writable(f) =>
              Phase(f) = "session" /\ Work(f) = InMemory(f)
         /\ f.st \in {"closing", "marked"} /\ Writable(f) =>
              Phase(f) = "commit" /\ Work(f) = InMemory(f)
         /\ f.st \in {"closed", "creating", "opening"} \/ ~Writable(f) =>
              Phase(f) = "idle" /\ Work(f) = {}
BY DEF Phase, Work, InSession

(***************************************************************************)
(* Pages are added at the end, empty; those that are there keep their      *)
(* addresses and entries.                                                  *)
(***************************************************************************)
LEMMA NewPageFields ==
  ASSUME NEW f \in FileEntry, CanAddPage(f), f.npages = f.hdr.nbd
  PROVE  LET a == f.hdr.fsiz + 1
             g == WithNewPage(f) IN
         /\ g \in FileEntry /\ g.npages = f.npages + 1 /\ a \in Addr /\ f.npages + 1 \in PageNos
         /\ g.hdr.rwflg = f.hdr.rwflg /\ g.read_only = f.read_only
         /\ g.page[f.npages + 1] = NewPage(a)
         /\ \A i \in 1 .. f.npages :
              /\ g.page[i].addr = f.page[i].addr
              /\ g.page[i].nent = f.page[i].nent /\ g.page[i].ent = f.page[i].ent
<1> DEFINE a == f.hdr.fsiz + 1
           g == WithNewPage(f)
<1>1. /\ a \in Addr /\ g \in FileEntry /\ g.npages = f.npages + 1 /\ g.hdr.nbd = g.npages
      /\ g.hdr.fsiz = a /\ f.npages + 1 \in PageNos
      /\ g.page = [i \in PageNos |-> IF i = f.npages + 1 THEN NewPage(a)
                                     ELSE IF i = f.npages THEN LinkTo(f.page[i], a)
                                     ELSE f.page[i]]
  BY WithNewPageFields
<1>2. g.hdr = [f.hdr EXCEPT !.fsiz = a, !.nbd = f.hdr.nbd + 1] /\ g.read_only = f.read_only
  BY WithNewPageFields
<1> HIDE DEF g, a
<1>3. f.hdr \in Header /\ f.npages \in Nat /\ \A i \in 1 .. f.npages : i \in PageNos /\ f.page[i] \in MemPage
  BY FileTypes
<1>4. g.hdr.rwflg = f.hdr.rwflg BY <1>2, <1>3 DEF Header
<1>5. g.page[f.npages + 1] = NewPage(a) BY <1>1
<1>6. ASSUME NEW i \in 1 .. f.npages
      PROVE  /\ g.page[i].addr = f.page[i].addr
             /\ g.page[i].nent = f.page[i].nent /\ g.page[i].ent = f.page[i].ent
  <2>1. g.page[i] = IF i = f.npages THEN LinkTo(f.page[i], a) ELSE f.page[i] BY <1>1, <1>3
  <2>2. /\ LinkTo(f.page[i], a).addr = f.page[i].addr
        /\ LinkTo(f.page[i], a).nent = f.page[i].nent /\ LinkTo(f.page[i], a).ent = f.page[i].ent
    BY <1>3 DEF LinkTo, MemPage
  <2> QED BY <2>1, <2>2
<1> QED BY <1>1, <1>2, <1>4, <1>5, <1>6 DEF a, g

(***************************************************************************)
(* Creation: the header is no session yet, the first page begins one, on   *)
(* an empty file.                                                          *)
(***************************************************************************)
LEMMA CreateKeeps ==
  ASSUME Coordinated, RInv, SInv', FileIs, FileIs', NEW p \in Procs,
         CreateHeader(p) \/ CreatePage(p)
  PROVE  RInv' /\ [Store!Next]_(Store!vars)
<1>0. \A d : Recorded(d, 0) = {} BY NothingRecorded
<1>1. CASE CreateHeader(p)
  <2> DEFINE new == [NoFile EXCEPT !.rwflg = RDMODE]
             g == [Closed EXCEPT !.st = "creating", !.hdr = [new EXCEPT !.rwflg = CREATE]]
  <2>1. /\ header = NoFile /\ header' = new /\ Sets(p, g) /\ OnlyWriter(p) /\ tab[p].st = "closed"
    BY <1>1 DEF CreateHeader, MayWrite, Writing, Active, Sets, OnlyWriter
  <2>2. header.nbd = 0 /\ header'.nbd = 0 /\ header'.rwflg = RDMODE /\ header.rwflg = "none"
    BY <2>1 DEF NoFile
  <2>3. g.st = "creating" /\ g.hdr.nbd = 0 /\ g.hdr.rwflg # "none" BY DEF Closed, NoFile, CREATE
  <2> HIDE DEF g, new
  <2>4. SessionOK(disk', header', g) BY <2>2, <2>3 DEF SessionOK
  <2>5. RInv' BY <2>1, <2>4, NextR
  <2>6. OnFile' = OnFile BY <1>0, <2>2 DEF FileIs
  <2>7. Sealed(header') /\ Sealed(header) BY <2>2 DEF Sealed
  <2>8. Phase(g) = Phase(tab[p]) /\ Work(g) = Work(tab[p]) BY <2>1, <2>3, Phases
  <2>9. UNCHANGED Store!vars BY <2>1, <2>6, <2>7, <2>8, StutterStep
  <2> QED BY <2>5, <2>9
<1>2. CASE CreatePage(p)
  <2> DEFINE f == tab[p]
             w == WithNewPage(f)
             g == [w EXCEPT !.st = "open", !.modified = TRUE]
             a == f.hdr.fsiz + 1
  <2>1. /\ f.st = "creating" /\ CanAddPage(f) /\ disk' = [disk EXCEPT ![a] = EmptyPage]
        /\ Sets(p, g) /\ header' = header
    BY <1>2 DEF CreatePage, Sets
  <2>2. /\ f \in FileEntry /\ disk \in [Addr -> Word] /\ header.nbd \in Nat
        /\ Counted(f) /\ PInv(disk, header, size, f)
    BY RFacts
  <2>3. Active(f) /\ Writable(f) BY <2>1, <2>2 DEF PInv, Active
  <2>4. OnlyWriter(p) /\ SessionOK(disk, header, f) BY <2>3, RFacts
  <2>5. f.npages = 0 /\ f.hdr.nbd = 0 BY <2>1, <2>2 DEF Counted, FileEntry
  <2>6. header.nbd = 0 /\ header.rwflg = RDMODE /\ f.hdr.rwflg # "none"
    BY <2>1, <2>4, <2>5 DEF SessionOK
  <2>7. /\ w \in FileEntry /\ w.npages = 1 /\ a \in Addr /\ 1 \in PageNos
        /\ w.hdr.rwflg = f.hdr.rwflg /\ w.read_only = f.read_only
        /\ w.page[1] = NewPage(a)
    <3>1. f.npages = f.hdr.nbd /\ CanAddPage(f) /\ f.npages + 1 = 1 BY <2>1, <2>5
    <3> HIDE DEF f
    <3> QED BY <2>2, <3>1, NewPageFields
  <2> HIDE DEF w
  <2>8. /\ g.npages = 1 /\ g.st = "open" /\ g.page = w.page /\ g.hdr = w.hdr
        /\ g.read_only = w.read_only
    BY <2>7 DEF FileEntry
  <2> HIDE DEF g
  <2>9. NewPage(a).addr = a /\ NewPage(a).nent = 0 BY DEF NewPage, NoMemPage
  <2>10. disk'[a] = EmptyPage BY <2>1, <2>2, <2>7
  <2>11. Reached(disk', g, 0)
    <3>1. \A i \in 0 + 1 .. 1 : i = 1 OBVIOUS
    <3>2. \A i \in 1 .. 0 - 1 : FALSE OBVIOUS
    <3> QED BY <2>7, <2>8, <2>9, <2>10, <3>1, <3>2 DEF Reached
  <2>12. SessionOK(disk', header', g)
    BY <2>1, <2>6, <2>7, <2>8, <2>11 DEF SessionOK
  <2>13. RInv' /\ g \in FileEntry BY <2>1, <2>4, <2>12, NextR
  <2>14. Writable(g) BY <2>3, <2>7, <2>8 DEF Writable
  <2>15. Phase(g) = "session" /\ Work(g) = InMemory(g) BY <2>8, <2>14, Phases
  <2>16. InMemory(g) = {}
    <3>1. \A i \in 1 .. g.npages : i = 1 BY <2>8
    <3>2. \A i \in 1 .. g.npages : g.page[i].addr = a /\ g.page[i].nent = 0
      BY <2>7, <2>8, <2>9, <3>1
    <3>3. InMemory(g) = Remembered(g) BY <2>7, <2>13, <3>2, InMemoryIs
    <3>4. \A i \in 1 .. g.npages : \A s, r : ~Shows(g.page[i], s, r) BY <3>2 DEF Shows
    <3> QED BY <3>3, <3>4 DEF Remembered
  <2>17. OnFile = {} /\ OnFile' = {} BY <1>0, <2>1, <2>6 DEF FileIs
  <2>18. Phase(f) = "idle" BY <2>1, Phases
  <2>19. Sealed(header) BY <2>6 DEF Sealed
  <2>20. Work(g) = OnFile /\ OnFile' = OnFile BY <2>15, <2>16, <2>17
  <2>21. Store!Next BY <2>1, <2>4, <2>15, <2>18, <2>19, <2>20, BeginStep
  <2> QED BY <2>13, <2>21
<1> QED BY <1>1, <1>2

(***************************************************************************)
(* Opening: to write, the session begins when the last page was read, or   *)
(* at once if there is none.                                               *)
(***************************************************************************)
LEMMA OpenHeaderKeeps ==
  ASSUME Coordinated, RInv, SInv', FileIs, FileIs', NEW p \in Procs,
         NEW mode \in {RDMODE, RWMODE, APPEND}, NEW ro \in BOOLEAN, OpenHeader(p, mode, ro)
  PROVE  RInv' /\ [Store!Next]_(Store!vars)
<1> DEFINE g == [Closed EXCEPT !.st = IF header.nbd = 0 THEN "failed" ELSE "opening",
                               !.read_only = ro, !.hdr = [header EXCEPT !.rwflg = mode],
                               !.fsize = size, !.next = 1]
<1>1. /\ Sets(p, g) /\ disk' = disk /\ header' = header /\ tab[p].st = "closed"
      /\ mode # RDMODE => header.rwflg = RDMODE
      /\ Writable(g) => MayWrite(p)
  BY DEF OpenHeader, Sets
<1>2. header \in Header /\ header.nbd \in Nat BY RFacts
<1>3. /\ g.st = IF header.nbd = 0 THEN "failed" ELSE "opening"
      /\ g.hdr.nbd = header.nbd /\ g.npages = 0 /\ g.hdr.rwflg = mode
  BY <1>2 DEF Closed, Header
<1> HIDE DEF g
<1>4. OnFile' = OnFile BY <1>1 DEF FileIs
<1>5. Phase(tab[p]) = "idle" /\ Work(tab[p]) = {} BY <1>1, Phases
<1>6. mode # "none" BY DEF RDMODE, RWMODE, APPEND
<1>7. ASSUME Writable(g) PROVE header.rwflg = RDMODE /\ OnlyWriter(p)
  BY <1>1, <1>3, <1>7 DEF Writable, MayWrite, Writing, Active, OnlyWriter
<1>8. ASSUME Active(g) PROVE SessionOK(disk', header', g)
  <2>1. header.rwflg = RDMODE BY <1>7, <1>8 DEF Active
  <2>2. Reached(disk', g, 0)
    <3>1. \A i \in 1 .. 0 - 1 : FALSE OBVIOUS
    <3>2. \A i \in 0 + 1 .. 0 : FALSE OBVIOUS
    <3> QED BY <1>3, <3>1, <3>2 DEF Reached
  <2> QED BY <1>1, <1>3, <1>6, <2>1, <2>2 DEF SessionOK
<1>9. RInv' /\ g \in FileEntry BY <1>1, <1>8, NextR
<1>10. CASE Writable(g) /\ header.nbd = 0
  <2>1. g.st = "failed" BY <1>3, <1>10
  <2>2. Phase(g) = "session" /\ Work(g) = InMemory(g) BY <1>10, <2>1, Phases
  <2>3. InMemory(g) = {} BY <1>3, <1>9, NothingRecorded
  <2>4. OnFile = {} BY <1>10, NothingRecorded DEF FileIs
  <2>5. Sealed(header) BY <1>7, <1>10 DEF Sealed
  <2>6. Store!Next BY <1>1, <1>4, <1>5, <1>7, <1>10, <2>2, <2>3, <2>4, <2>5, BeginStep
  <2> QED BY <1>9, <2>6
<1>11. CASE ~(Writable(g) /\ header.nbd = 0)
  <2>1. g.st = "opening" \/ ~Writable(g) BY <1>3, <1>11
  <2>2. Phase(g) = "idle" /\ Work(g) = {} BY <2>1, Phases
  <2>3. UNCHANGED Store!vars BY <1>1, <1>4, <1>5, <2>2, StutterStep
  <2> QED BY <1>9, <2>3
<1> QED BY <1>10, <1>11

LEMMA OpenPageKeeps ==
  ASSUME RInv, SInv', FileIs, FileIs', NEW p \in Procs, OpenPage(p)
  PROVE  RInv' /\ [Store!Next]_(Store!vars)
<1> DEFINE f == tab[p]
           g == tab'[p]
<1>0. tab \in [Procs -> FileEntry] /\ f \in FileEntry /\ Counted(f) BY RFacts
<1>1. Sets(p, g) /\ disk' = disk /\ header' = header /\ size' = size
  BY <1>0 DEF OpenPage, Sets
<1>2. /\ f.st = "opening" /\ g.hdr = f.hdr /\ g.modified = f.modified
      /\ g.read_only = f.read_only /\ g.st \in {"opening", "open", "failed"}
  BY <1>0 DEF OpenPage, FileEntry
<1> HIDE DEF g
<1>3. OnFile' = OnFile BY <1>1 DEF FileIs
<1>4. Phase(f) = "idle" /\ Work(f) = {} BY <1>2, Phases
<1>5. CASE ~Writable(f)
  <2>1. ~Writable(g) BY <1>2, <1>5 DEF Writable
  <2>2. Phase(g) = "idle" /\ Work(g) = {} BY <2>1, Phases
  <2>3. RInv' BY <1>1, <2>1, NextR DEF Active
  <2>4. UNCHANGED Store!vars BY <1>1, <1>3, <1>4, <2>2, StutterStep
  <2> QED BY <2>3, <2>4
<1>6. CASE Writable(f)
  <2>1. Active(f) /\ Writable(g) BY <1>2, <1>6 DEF Active, Writable
  <2>2. OnlyWriter(p) /\ SessionOK(disk, header, f) /\ WriterOK(disk, header, size, f)
    BY <2>1, RFacts
  <2>3. f.hdr.rwflg # "none" /\ header.rwflg = RDMODE /\ header.nbd = f.hdr.nbd
    BY <1>2, <2>2 DEF SessionOK
  <2>4. g \in FileEntry /\ Counted(g) /\ WriterOK(disk', header', size', g)
    <3>1. tab'[p] = g /\ Active(g) BY <1>2, <2>1 DEF g, Active
    <3>2. PInv(disk', header', size', tab'[p]) /\ tab'[p] \in FileEntry /\ Counted(tab'[p])
      BY DEF SInv, IInv, TypeInv, TypeOK, PagesCounted
    <3> QED BY <3>1, <3>2 DEF PInv
  <2>5. CASE g.st = "opening"
    <3>1. SessionOK(disk', header', g) BY <1>1, <1>2, <2>3, <2>5 DEF SessionOK
    <3>2. RInv' BY <1>1, <2>2, <3>1, NextR
    <3>3. Phase(g) = "idle" /\ Work(g) = {} BY <2>5, Phases
    <3>4. UNCHANGED Store!vars BY <1>1, <1>3, <1>4, <3>3, StutterStep
    <3> QED BY <3>2, <3>4
  <2>6. CASE g.st = "failed"
    <3>1. f.hdr.nbd = 0 BY <1>2, <2>4, <2>6 DEF WriterOK
    <3>2. f.npages < 0 /\ f.npages \in Nat BY <1>0, <1>2, <3>1, FileTypes DEF Counted
    <3> QED BY <3>2
  <2>7. CASE g.st = "open"
    <3>1. g.npages = g.hdr.nbd BY <2>4, <2>7 DEF Counted
    <3>2. ~f.modified BY <1>2, <2>2 DEF WriterOK, OpeningDir
    <3>3. Pages(disk, g) /\ LastPageEnds(g) /\ AllImages(disk, g)
      BY <1>1, <1>2, <2>4, <2>7, <3>2 DEF WriterOK
    <3>4. Reached(disk, g, g.npages) /\ Recorded(disk, g.npages) = InMemory(g)
      BY <2>4, <3>3, AtRest
    <3>5. SessionOK(disk', header', g)
      BY <1>1, <1>2, <2>3, <2>7, <3>1, <3>4 DEF SessionOK
    <3>6. RInv' BY <1>1, <2>2, <3>5, NextR
    <3>7. Phase(g) = "session" /\ Work(g) = InMemory(g) BY <2>1, <2>7, Phases
    <3>8. InMemory(g) = OnFile BY <1>2, <2>3, <3>1, <3>4 DEF FileIs
    <3>9. Sealed(header) BY <2>3 DEF Sealed
    <3>10. Store!Next BY <1>1, <1>3, <1>4, <2>2, <3>7, <3>8, <3>9, BeginStep
    <3> QED BY <3>6, <3>10
  <2> QED BY <1>2, <2>5, <2>6, <2>7
<1> QED BY <1>5, <1>6

(***************************************************************************)
(* A step that replaces one page in memory, where it is, and writes no     *)
(* page: the file holds what it did.                                       *)
(***************************************************************************)
LEMMA MemoryKeeps ==
  ASSUME RInv, SInv', FileIs, FileIs', NEW p \in Procs, NEW f \in FileEntry, f = tab[p], Active(f),
         NEW g, Sets(p, g), header' = header, OnlyMarks(disk, disk'),
         NEW n \in PageNos, NEW m, g.page = [f.page EXCEPT ![n] = m], m.addr = f.page[n].addr,
         g.npages = f.npages, g.hdr.rwflg = f.hdr.rwflg,
         (f.st = "open" /\ g.st = "open") \/ (f.st = "closing" /\ g.st = "marked")
  PROVE  RInv' /\ OnFile' = OnFile
<1>1. /\ disk \in [Addr -> Word] /\ header.nbd \in Nat /\ OnlyWriter(p)
      /\ SessionOK(disk, header, f) /\ WriterOK(disk, header, size, f)
      /\ NoUsedPageBeyond(disk, header.fsiz)
  BY RFacts
<1>2. disk' \in [Addr -> Word] BY DEF SInv, IInv, TypeInv, TypeOK
<1>3. Pages(disk, f) BY <1>1 DEF WriterOK
<1>4. \A L : KeptPages(disk, disk', L) BY <1>1, MarksKeep
<1>5. \A i \in 1 .. f.npages : /\ g.page[i].addr = f.page[i].addr
                               /\ disk'[f.page[i].addr] = disk[f.page[i].addr]
  <2> SUFFICES ASSUME NEW i \in 1 .. f.npages
               PROVE  g.page[i].addr = f.page[i].addr /\ disk'[f.page[i].addr] = disk[f.page[i].addr]
    OBVIOUS
  <2>1. i \in PageNos BY FileTypes
  <2>2. g.page[i].addr = f.page[i].addr BY <2>1 DEF FileEntry
  <2>3. f.page[i].addr \in Addr /\ f.page[i].addr <= f.hdr.fsiz /\ disk[f.page[i].addr].kind = "page"
    BY <1>3 DEF Pages
  <2> QED BY <1>4, <2>2, <2>3 DEF KeptPages
<1>6. \A k \in Nat : Reached(disk, f, k) => Reached(disk', g, k)
  BY <1>5, SameReached
<1>7. SessionOK(disk', header', g)
  <2>1. CASE f.st = "open" /\ g.st = "open"
    BY <1>1, <1>6, <2>1 DEF SessionOK
  <2>2. CASE f.st = "closing" /\ g.st = "marked"
    <3>1. PICK k \in 0 .. f.npages : Reached(disk, f, k) /\ (f.npages >= 1 => k >= 1)
      BY <1>1, <2>2 DEF SessionOK
    <3>2. k \in Nat OBVIOUS
    <3>3. Reached(disk', g, k) BY <1>6, <3>1, <3>2
    <3>4. \E j \in 0 .. g.npages : Reached(disk', g, j) /\ (g.npages >= 1 => j >= 1)
      BY <3>1, <3>3
    <3>5. f.hdr.rwflg # "none" BY <1>1 DEF SessionOK
    <3> QED BY <2>2, <3>4, <3>5 DEF SessionOK
  <2> QED BY <2>1, <2>2
<1>8. RInv' BY <1>1, <1>7, NextR
<1>9. \A a \in Addr : Used(disk'[a]) => disk'[a] = disk[a] BY DEF OnlyMarks, Used
<1>10. Recorded(disk', header.nbd) = Recorded(disk, header.nbd)
  BY <1>1, <1>2, <1>4, <1>9, SameRecorded
<1> QED BY <1>8, <1>10 DEF FileIs

(***************************************************************************)
(* What is in memory when an entry is erased, when a page shows the same   *)
(* records, and when a record is added.                                    *)
(***************************************************************************)
Distinct(f) ==
  /\ \A i \in 1 .. f.npages : f.page[i].addr \in Addr
  /\ \A i, j \in 1 .. f.npages : f.page[i].addr = f.page[j].addr => i = j

LEMMA PagesDistinct == \A d, f : Pages(d, f) => Distinct(f)
BY DEF Pages, Distinct

LEMMA SameShown ==
  ASSUME NEW f \in FileEntry, NEW g \in FileEntry, Distinct(f), NEW n \in PageNos, NEW m,
         g.page = [f.page EXCEPT ![n] = m], m.addr = f.page[n].addr, g.npages = f.npages,
         \A s, r : Shows(m, s, r) <=> Shows(f.page[n], s, r)
  PROVE  InMemory(g) = InMemory(f)
<1>1. \A i \in 1 .. f.npages : i \in PageNos BY FileTypes
<1>2. \A i \in 1 .. f.npages : g.page[i] = IF i = n THEN m ELSE f.page[i] BY <1>1 DEF FileEntry
<1>3. \A i \in 1 .. f.npages :
        /\ g.page[i].addr = f.page[i].addr
        /\ \A s, r : Shows(g.page[i], s, r) <=> Shows(f.page[i], s, r)
  BY <1>2
<1>4. Remembered(g) = Remembered(f) BY <1>3 DEF Remembered
<1> QED BY <1>3, <1>4, InMemoryIs DEF Distinct

LEMMA EraseShows ==
  ASSUME NEW m \in MemPage, NEW s \in Slots
  PROVE  \A t, r : Shows(EraseEntry(m, s), t, r) <=> Shows(m, t, r) /\ t # s
<1> SUFFICES ASSUME NEW t, NEW r
             PROVE  Shows(EraseEntry(m, s), t, r) <=> Shows(m, t, r) /\ t # s
  OBVIOUS
<1> DEFINE n == EraseEntry(m, s)
<1>0. m.nent \in Nat /\ \A u \in 1 .. m.nent : u \in Slots /\ m.ent[u] \in Entry BY PageTypes
<1>1. n.nent = m.nent BY DEF EraseEntry, MemPage
<1>2. \A u \in 1 .. m.nent : n.ent[u] = IF u = s THEN [m.ent[u] EXCEPT !.id = "erased"] ELSE m.ent[u]
  BY <1>0 DEF EraseEntry, MemPage
<1>3. \A u \in 1 .. m.nent : [m.ent[u] EXCEPT !.id = "erased"].id = "erased" BY <1>0 DEF Entry
<1> HIDE DEF n
<1>4. CASE t = s
  BY <1>1, <1>2, <1>3, <1>4 DEF Shows, n
<1>5. CASE t # s
  BY <1>1, <1>2, <1>5 DEF Shows, n
<1> QED BY <1>4, <1>5

LEMMA EraseForgets ==
  ASSUME NEW f \in FileEntry, NEW g \in FileEntry, Distinct(f),
         NEW h \in PageNos \X Slots, h[1] \in 1 .. f.npages, h[2] \in 1 .. f.page[h[1]].nent,
         g.page = [f.page EXCEPT ![h[1]] = EraseEntry(f.page[h[1]], h[2])], g.npages = f.npages
  PROVE  InMemory(g) = InMemory(f) \ {Handled(f.page[h[1]].addr, h[2], EntryAt(f, h))}
<1> DEFINE n == h[1]
           x == Handled(f.page[n].addr, h[2], EntryAt(f, h))
<1>1. \A i \in 1 .. f.npages : i \in PageNos /\ f.page[i] \in MemPage BY FileTypes
<1>2. \A i \in 1 .. f.npages :
        g.page[i] = IF i = n THEN EraseEntry(f.page[i], h[2]) ELSE f.page[i]
  BY <1>1 DEF FileEntry
<1>3. h[2] \in Slots /\ n \in 1 .. f.npages OBVIOUS
<1>4. x[1] = f.page[n].addr /\ x[2] = h[2] /\ x = <<x[1], x[2], RecordOf(f.page[n].ent[x[2]])>>
  BY DEF Handled, EntryAt
<1> HIDE DEF n, x
<1>5. \A i \in 1 .. f.npages : g.page[i].addr = f.page[i].addr
  <2>1. \A i \in 1 .. f.npages : EraseEntry(f.page[i], h[2]).addr = f.page[i].addr
    BY <1>1 DEF EraseEntry, MemPage
  <2> QED BY <1>2, <2>1
<1>6. \A i \in 1 .. f.npages : \A t, r :
        Shows(g.page[i], t, r) <=> Shows(f.page[i], t, r) /\ (i = n => t # h[2])
  <2> SUFFICES ASSUME NEW i \in 1 .. f.npages
               PROVE  \A t, r : Shows(g.page[i], t, r) <=> Shows(f.page[i], t, r) /\ (i = n => t # h[2])
    OBVIOUS
  <2>1. CASE i = n BY <1>1, <1>2, <1>3, <2>1, EraseShows
  <2>2. CASE i # n BY <1>2, <2>2
  <2> QED BY <2>1, <2>2
<1>7. ASSUME NEW y \in Remembered(g) PROVE y \in Remembered(f) /\ y # x
  <2>1. y \in Things /\ \E i \in 1 .. g.npages : g.page[i].addr = y[1] /\ Shows(g.page[i], y[2], y[3])
    BY DEF Remembered
  <2>2. PICK i \in 1 .. f.npages : g.page[i].addr = y[1] /\ Shows(g.page[i], y[2], y[3])
    BY <2>1
  <2>3. f.page[i].addr = y[1] /\ Shows(f.page[i], y[2], y[3]) /\ (i = n => y[2] # h[2])
    BY <1>5, <1>6, <2>2
  <2>4. y # x BY <1>3, <1>4, <2>3 DEF Distinct
  <2> QED BY <2>1, <2>3, <2>4 DEF Remembered
<1>8. ASSUME NEW y \in Remembered(f), y # x PROVE y \in Remembered(g)
  <2>1. y \in Things /\ \E i \in 1 .. f.npages : f.page[i].addr = y[1] /\ Shows(f.page[i], y[2], y[3])
    BY DEF Remembered
  <2>2. PICK i \in 1 .. f.npages : f.page[i].addr = y[1] /\ Shows(f.page[i], y[2], y[3])
    BY <2>1
  <2>3. y = <<y[1], y[2], y[3]>> BY <2>1 DEF Things
  <2>4. RecordOf(f.page[i].ent[y[2]]) = y[3] BY <2>2 DEF Shows
  <2>5. i = n => y[2] # h[2] BY <1>4, <1>8, <2>2, <2>3, <2>4
  <2>6. Shows(g.page[i], y[2], y[3]) BY <1>6, <2>2, <2>5
  <2> QED BY <1>5, <2>1, <2>2, <2>6 DEF Remembered
<1>9. Remembered(g) = Remembered(f) \ {x} BY <1>7, <1>8
<1>10. InMemory(f) = Remembered(f) /\ InMemory(g) = Remembered(g)
  BY <1>5, InMemoryIs DEF Distinct
<1> QED BY <1>9, <1>10 DEF n, x

LEMMA AddShows ==
  ASSUME NEW m \in MemPage, m.nent < EntriesPerPage, NEW e, e.id = "live"
  PROVE  \A t, r : Shows(AddEntry(m, e), t, r) <=>
                     Shows(m, t, r) \/ (t = m.nent + 1 /\ r = RecordOf(e))
<1> SUFFICES ASSUME NEW t, NEW r
             PROVE  Shows(AddEntry(m, e), t, r) <=>
                      Shows(m, t, r) \/ (t = m.nent + 1 /\ r = RecordOf(e))
  OBVIOUS
<1> DEFINE n == AddEntry(m, e)
           s == m.nent + 1
<1>0. m.nent \in Nat /\ s \in Slots /\ s \in Nat /\ m.ent \in [Slots -> Entry]
      /\ \A u \in 1 .. m.nent : u \in Slots
  BY PageTypes, XdfAssumption DEF Slots
<1>1. n.nent = s /\ n.ent = [m.ent EXCEPT ![s] = e] BY DEF AddEntry, MemPage
<1>2. n.ent[s] = e /\ \A u \in 1 .. m.nent : u # s /\ n.ent[u] = m.ent[u] BY <1>0, <1>1
<1>3. s \in 1 .. s /\ (t \in 1 .. s <=> t \in 1 .. m.nent \/ t = s) BY <1>0
<1> HIDE DEF n, s
<1>4. CASE t = s
  BY <1>1, <1>2, <1>3, <1>4 DEF Shows, n, s
<1>5. CASE t # s
  BY <1>1, <1>2, <1>3, <1>5 DEF Shows, n, s
<1> QED BY <1>4, <1>5

LEMMA AppendAdds ==
  ASSUME NEW f \in FileEntry, NEW g \in FileEntry, Distinct(f), f.npages \in PageNos,
         NEW e, e.id = "live", RecordOf(e) \in Record, f.page[f.npages].nent < EntriesPerPage,
         g.npages = f.npages,
         \A i \in 1 .. f.npages :
           g.page[i] = IF i = f.npages THEN AddEntry(f.page[i], e) ELSE f.page[i]
  PROVE  InMemory(g) = InMemory(f) \cup {Handled(f.page[f.npages].addr, f.page[f.npages].nent + 1, e)}
<1> DEFINE n == f.npages
           s == f.page[n].nent + 1
           x == Handled(f.page[n].addr, s, e)
<1>1. \A i \in 1 .. f.npages : i \in PageNos /\ f.page[i] \in MemPage BY FileTypes
<1>2. n \in 1 .. f.npages
  <2>1. n \in Nat /\ n >= 1 BY FileTypes DEF PageNos
  <2> QED BY <2>1
<1>3. s \in Slots
  <2>1. f.page[n].nent \in Nat BY <1>1, <1>2, PageTypes
  <2> QED BY <2>1, XdfAssumption DEF Slots
<1>4. x[1] = f.page[n].addr /\ x[2] = s /\ x[3] = RecordOf(e) /\ x = <<x[1], x[2], x[3]>>
  BY DEF Handled
<1>5. x \in Things BY <1>2, <1>3 DEF Handled, Things, Distinct
<1>6. \A i \in 1 .. f.npages : g.page[i].addr = f.page[i].addr
  <2>1. \A i \in 1 .. f.npages : AddEntry(f.page[i], e).addr = f.page[i].addr
    BY <1>1 DEF AddEntry, MemPage
  <2> QED BY <2>1
<1>7. \A i \in 1 .. f.npages : \A t, r :
        Shows(g.page[i], t, r) <=> Shows(f.page[i], t, r) \/ (i = n /\ t = s /\ r = RecordOf(e))
  <2> SUFFICES ASSUME NEW i \in 1 .. f.npages
               PROVE  \A t, r : Shows(g.page[i], t, r) <=>
                                  Shows(f.page[i], t, r) \/ (i = n /\ t = s /\ r = RecordOf(e))
    OBVIOUS
  <2>1. CASE i = n
    <3>1. g.page[i] = AddEntry(f.page[i], e) BY <2>1
    <3> QED BY <1>1, <2>1, <3>1, AddShows
  <2>2. CASE i # n
    <3>1. g.page[i] = f.page[i] BY <2>2
    <3> QED BY <2>2, <3>1
  <2> QED BY <2>1, <2>2
<1> HIDE DEF n, s, x
<1>8. ASSUME NEW y \in Remembered(g) PROVE y \in Remembered(f) \cup {x}
  <2>1. y \in Things /\ \E i \in 1 .. g.npages : g.page[i].addr = y[1] /\ Shows(g.page[i], y[2], y[3])
    BY DEF Remembered
  <2>2. PICK i \in 1 .. f.npages : g.page[i].addr = y[1] /\ Shows(g.page[i], y[2], y[3])
    BY <2>1
  <2>3. y = <<y[1], y[2], y[3]>> BY <2>1 DEF Things
  <2>4. f.page[i].addr = y[1] BY <1>6, <2>2
  <2>5. CASE Shows(f.page[i], y[2], y[3]) BY <2>1, <2>4, <2>5 DEF Remembered
  <2>6. CASE i = n /\ y[2] = s /\ y[3] = RecordOf(e) BY <1>4, <2>3, <2>4, <2>6
  <2> QED BY <1>7, <2>2, <2>5, <2>6
<1>9. ASSUME NEW y \in Remembered(f) PROVE y \in Remembered(g)
  <2>1. y \in Things /\ \E i \in 1 .. f.npages : f.page[i].addr = y[1] /\ Shows(f.page[i], y[2], y[3])
    BY DEF Remembered
  <2>2. PICK i \in 1 .. f.npages : f.page[i].addr = y[1] /\ Shows(f.page[i], y[2], y[3])
    BY <2>1
  <2>3. g.page[i].addr = y[1] /\ Shows(g.page[i], y[2], y[3]) BY <1>6, <1>7, <2>2
  <2> QED BY <2>1, <2>3 DEF Remembered
<1>10. x \in Remembered(g)
  <2>1. g.page[n].addr = x[1] /\ Shows(g.page[n], x[2], x[3]) BY <1>2, <1>4, <1>6, <1>7
  <2> QED BY <1>2, <1>5, <2>1 DEF Remembered
<1>11. Remembered(g) = Remembered(f) \cup {x} BY <1>8, <1>9, <1>10
<1>12. InMemory(f) = Remembered(f) /\ InMemory(g) = Remembered(g)
  BY <1>6, InMemoryIs DEF Distinct
<1> QED BY <1>11, <1>12 DEF n, s, x

LEMMA RoomyRemembers ==
  ASSUME NEW f \in FileEntry, f.npages = f.hdr.nbd, f.npages >= 1,
         LastPageFull(f) => CanAddPage(f), Distinct(f)
  PROVE  LET g == Roomy(f) IN
         /\ Distinct(g) => InMemory(g) = InMemory(f)
         /\ \A i \in 1 .. f.npages : /\ i \in 1 .. g.npages /\ g.page[i].addr = f.page[i].addr
                                     /\ g.page[i].nent = f.page[i].nent
<1>0. f.npages \in Nat BY FileTypes
<1>1. CASE ~LastPageFull(f) BY <1>1 DEF Roomy
<1>2. CASE LastPageFull(f)
  <2> DEFINE g == WithNewPage(f)
             a == f.hdr.fsiz + 1
             n == f.npages + 1
  <2>1. /\ g \in FileEntry /\ g.npages = n /\ g.page[n] = NewPage(a)
        /\ \A i \in 1 .. f.npages :
              /\ g.page[i].addr = f.page[i].addr
              /\ g.page[i].nent = f.page[i].nent /\ g.page[i].ent = f.page[i].ent
    BY <1>2, NewPageFields
  <2>2. g = Roomy(f) BY <1>2 DEF Roomy
  <2> HIDE DEF g, a
  <2>3. \A i \in 1 .. g.npages : i \in 1 .. f.npages \/ i = n BY <1>0, <2>1
  <2>4. \A i \in 1 .. f.npages : i \in 1 .. g.npages BY <1>0, <2>1
  <2>5. \A t, r : ~Shows(g.page[n], t, r)
    <3>1. g.page[n].nent = 0 BY <2>1 DEF NewPage, NoMemPage
    <3> QED BY <3>1 DEF Shows
  <2>6. \A i \in 1 .. f.npages : \A t, r : Shows(g.page[i], t, r) <=> Shows(f.page[i], t, r)
    BY <2>1 DEF Shows
  <2>7. Remembered(g) = Remembered(f) BY <2>1, <2>3, <2>4, <2>5, <2>6 DEF Remembered
  <2>8. Distinct(g) => InMemory(g) = InMemory(f) BY <2>1, <2>7, InMemoryIs DEF Distinct
  <2> QED BY <2>1, <2>2, <2>4, <2>8
<1> QED BY <1>1, <1>2

(***************************************************************************)
(* Changes of a session in memory: an erasure, a flag, a record written    *)
(* where it is, and the erasures of a close.                               *)
(***************************************************************************)
LEMMA XdfDelKeeps ==
  ASSUME RInv, SInv', FileIs, FileIs', NEW p \in Procs, NEW h \in LiveHandles(tab[p]), XdfDel(p, h)
  PROVE  RInv' /\ [Store!Next]_(Store!vars)
<1> DEFINE f == tab[p]
           g == Erase(f, h)
           m == EraseEntry(f.page[h[1]], h[2])
           x == Handled(f.page[h[1]].addr, h[2], EntryAt(f, h))
<1>1. f.st = "open" /\ Writable(f) /\ Sets(p, g) /\ UNCHANGED <<disk, header>>
  BY DEF XdfDel, Sets, Writable
<1>2. f \in FileEntry BY RFacts
<1>3. /\ h \in PageNos \X Slots /\ h[1] \in PageNos /\ h[2] \in Slots
      /\ h[1] \in 1 .. f.npages /\ h[2] \in 1 .. f.page[h[1]].nent
  <2>1. h \in PageNos \X Slots /\ h[1] \in PageNos /\ h[2] \in Slots BY <1>2, HandleTypes
  <2>2. f.npages \in Nat /\ f.page[h[1]].nent \in Nat BY <1>2, <2>1, FileTypes, PageTypes
  <2> QED BY <2>1, <2>2 DEF LiveHandles, PageNos, Slots
<1>4. f.page[h[1]] \in MemPage BY <1>2, <1>3, FileTypes
<1>5. m.addr = f.page[h[1]].addr BY <1>4 DEF EraseEntry, MemPage
<1>6. /\ g \in FileEntry /\ g.hdr.rwflg = f.hdr.rwflg /\ g.npages = f.npages /\ g.st = f.st
      /\ g.read_only = f.read_only /\ g.page = [f.page EXCEPT ![h[1]] = m]
  BY <1>2, <1>3, EraseFields
<1>7. OnlyMarks(disk, disk') BY <1>1, NoMarks
<1>8. Active(f) BY <1>1 DEF Active
<1>9. WriterOK(disk, header, size, f) BY <1>8, RFacts
<1>10. Distinct(f) BY <1>9, PagesDistinct DEF WriterOK
<1>11. x \in InMemory(f) BY DEF InMemory
<1>12. InMemory(g) = InMemory(f) \ {x} BY <1>2, <1>3, <1>6, <1>10, EraseForgets
<1> HIDE DEF g, m, x
<1>13. RInv' /\ OnFile' = OnFile
  <2>1. f.st = "open" /\ g.st = "open" /\ h[1] \in PageNos BY <1>1, <1>3, <1>6
  <2>2. f = tab[p] /\ header' = header BY <1>1
  <2> HIDE DEF f
  <2> QED BY <1>1, <1>2, <1>5, <1>6, <1>7, <1>8, <2>1, <2>2, MemoryKeeps
<1>14. Writable(g) BY <1>1, <1>6 DEF Writable
<1>15. /\ Phase(f) = "session" /\ Work(f) = InMemory(f)
       /\ Phase(g) = "session" /\ Work(g) = InMemory(g)
  BY <1>1, <1>6, <1>14, Phases
<1> DEFINE gone == {x}
           new == {}
<1>16. gone \in Store!AtMostOne(Work(f)) BY <1>11, <1>15 DEF Store!AtMostOne
<1>17. new \in Store!AtMostOne(Things \ (Work(f) \cup OnFile)) BY DEF Store!AtMostOne
<1>18. Work(g) = (Work(f) \ gone) \cup new BY <1>12, <1>15
<1> HIDE DEF gone, new
<1>19. Store!Next BY <1>1, <1>13, <1>15, <1>16, <1>17, <1>18, ChangeStep
<1> QED BY <1>13, <1>19

LEMMA PutDirFullKeeps ==
  ASSUME RInv, SInv', FileIs, FileIs', NEW p \in Procs, PutDirFull(p)
  PROVE  RInv' /\ [Store!Next]_(Store!vars)
<1> DEFINE f == tab[p]
           n == f.npages
           m == Flagged(f.page[n], TRUE)
           pg == [f.page EXCEPT ![n] = m]
           g == [f EXCEPT !.page = pg]
<1>1. f.st = "open" /\ Writable(f) /\ Sets(p, g) /\ UNCHANGED <<disk, header>>
  BY DEF PutDirFull, Sets
<1>2. f \in FileEntry /\ Counted(f) BY RFacts
<1>3. n \in PageNos
  <2>1. n \in 0 .. MaxDirPages /\ MaxDirPages \in Nat /\ n >= 1
    BY <1>1, <1>2, FileTypes DEF Counted
  <2> QED BY <2>1 DEF PageNos
<1>4. f.page[n] \in MemPage BY <1>2, <1>3 DEF FileEntry
<1>5. m.addr = f.page[n].addr /\ m.nent = f.page[n].nent /\ m.ent = f.page[n].ent
  BY <1>4 DEF Flagged, MemPage
<1>6. \A s, r : Shows(m, s, r) <=> Shows(f.page[n], s, r) BY <1>5 DEF Shows
<1> HIDE DEF m
<1>7. pg = [f.page EXCEPT ![n] = m] OBVIOUS
<1> HIDE DEF pg
<1>8. /\ g.page = pg /\ g.npages = f.npages /\ g.hdr = f.hdr /\ g.st = f.st
      /\ g.read_only = f.read_only
  BY <1>2 DEF FileEntry
<1> HIDE DEF g
<1>9. OnlyMarks(disk, disk') BY <1>1, NoMarks
<1>10. Active(f) BY <1>1 DEF Active
<1>11. RInv' /\ OnFile' = OnFile
  <2>1. g.page = [f.page EXCEPT ![n] = m] /\ g.hdr.rwflg = f.hdr.rwflg BY <1>7, <1>8
  <2>2. f.st = "open" /\ g.st = "open" BY <1>1, <1>8
  <2>3. m.addr = f.page[n].addr /\ g.npages = f.npages BY <1>5, <1>8
  <2>4. f = tab[p] /\ header' = header BY <1>1
  <2> HIDE DEF f, n
  <2> QED BY <1>1, <1>2, <1>3, <1>9, <1>10, <2>1, <2>2, <2>3, <2>4, MemoryKeeps
<1>12. g \in FileEntry
  <2>1. tab \in [Procs -> FileEntry] BY RFacts
  <2>2. tab'[p] = g BY <1>1, <2>1 DEF Sets
  <2> QED BY <2>2 DEF SInv, IInv, TypeInv, TypeOK
<1>13. Distinct(f)
  <2>1. WriterOK(disk, header, size, f) BY <1>10, RFacts
  <2> QED BY <2>1, PagesDistinct DEF WriterOK
<1>14. InMemory(g) = InMemory(f)
  BY <1>2, <1>3, <1>5, <1>6, <1>7, <1>8, <1>12, <1>13, SameShown
<1>15. Writable(g) BY <1>1, <1>8 DEF Writable
<1>16. Phase(g) = Phase(f) /\ Work(g) = Work(f) BY <1>1, <1>8, <1>14, <1>15, Phases
<1>17. header' = header BY <1>1
<1>18. UNCHANGED Store!vars BY <1>1, <1>11, <1>16, <1>17, StutterStep
<1> QED BY <1>11, <1>18

LEMMA PutInPlaceKeeps ==
  ASSUME RInv, SInv', FileIs, FileIs', NEW p \in Procs, tab[p].st = "open", Writable(tab[p]),
         NEW h \in LiveHandles(tab[p]), NEW k \in Keys, NEW l \in Lengths,
         EntryAt(tab[p], h).lng = l, EntryAt(tab[p], h).key = k, PutInPlace(p, h, k, l)
  PROVE  RInv' /\ [Store!Next]_(Store!vars)
<1> DEFINE f == tab[p]
           m == Rekey(f.page[h[1]], h[2], k)
           pg == [f.page EXCEPT ![h[1]] = m]
           g == [f EXCEPT !.page = pg, !.modified = TRUE]
<1>1. Sets(p, g) /\ header' = header BY DEF PutInPlace, Sets
<1>2. f \in FileEntry BY RFacts
<1>3. OnlyMarks(disk, disk') BY InPlaceWritten DEF RInv, SInv
<1>4. h[1] \in PageNos /\ h[2] \in Slots BY DEF LiveHandles
<1>5. f.page[h[1]] \in MemPage BY <1>2, <1>4 DEF FileEntry
<1>6. m.addr = f.page[h[1]].addr /\ \A s, r : Shows(m, s, r) <=> Shows(f.page[h[1]], s, r)
  <2>1. m.addr = f.page[h[1]].addr /\ m.nent = f.page[h[1]].nent BY <1>5 DEF Rekey, MemPage
  <2>2. m.ent = [f.page[h[1]].ent EXCEPT ![h[2]] = [f.page[h[1]].ent[h[2]] EXCEPT !.key = k]]
    BY <1>5 DEF Rekey, MemPage
  <2>3. f.page[h[1]].ent \in [Slots -> Entry] BY <1>5, PageTypes
  <2>4. [f.page[h[1]].ent[h[2]] EXCEPT !.key = k] = f.page[h[1]].ent[h[2]]
    BY <1>4, <2>3 DEF EntryAt, Entry
  <2>5. m.ent = f.page[h[1]].ent BY <2>2, <2>3, <2>4
  <2> HIDE DEF m
  <2> QED BY <2>1, <2>5 DEF Shows
<1> HIDE DEF m
<1>7. pg = [f.page EXCEPT ![h[1]] = m] OBVIOUS
<1> HIDE DEF pg
<1>8. /\ g.page = pg /\ g.npages = f.npages /\ g.hdr = f.hdr /\ g.st = f.st
      /\ g.read_only = f.read_only
  BY <1>2 DEF FileEntry
<1> HIDE DEF g
<1>9. Active(f) BY DEF Active
<1>10. RInv' /\ OnFile' = OnFile
  <2>1. g.page = [f.page EXCEPT ![h[1]] = m] /\ g.hdr.rwflg = f.hdr.rwflg BY <1>7, <1>8
  <2>2. f.st = "open" /\ g.st = "open" BY <1>8
  <2>3. m.addr = f.page[h[1]].addr /\ g.npages = f.npages BY <1>6, <1>8
  <2>4. f = tab[p] OBVIOUS
  <2> HIDE DEF f
  <2> QED BY <1>1, <1>2, <1>3, <1>4, <1>9, <2>1, <2>2, <2>3, <2>4, MemoryKeeps
<1>11. g \in FileEntry
  <2>1. tab \in [Procs -> FileEntry] BY RFacts
  <2>2. tab'[p] = g BY <1>1, <2>1 DEF Sets
  <2> QED BY <2>2 DEF SInv, IInv, TypeInv, TypeOK
<1>12. Distinct(f)
  <2>1. WriterOK(disk, header, size, f) BY <1>9, RFacts
  <2> QED BY <2>1, PagesDistinct DEF WriterOK
<1>13. InMemory(g) = InMemory(f)
  BY <1>2, <1>4, <1>6, <1>7, <1>8, <1>11, <1>12, SameShown
<1>14. Writable(g) BY <1>8 DEF Writable
<1>15. Phase(g) = Phase(f) /\ Work(g) = Work(f) BY <1>8, <1>13, <1>14, Phases
<1>16. UNCHANGED Store!vars BY <1>1, <1>10, <1>15, StutterStep
<1> QED BY <1>10, <1>16

LEMMA CloseMarksKeeps ==
  ASSUME RInv, SInv', FileIs, FileIs', NEW p \in Procs, NEW i \in PageNos, CloseMarks(p, i)
  PROVE  RInv' /\ [Store!Next]_(Store!vars)
<1> DEFINE f == tab[p]
           m == Deaden(f.page[i])
           pg == [f.page EXCEPT ![i] = m]
           g == [f EXCEPT !.st = "marked", !.page = pg]
<1>1. f.st = "closing" /\ Sets(p, g) /\ header' = header
  BY DEF CloseMarks, Sets
<1>2. f \in FileEntry /\ PInv(disk, header, size, f) BY RFacts
<1>3. OnlyMarks(disk, disk') BY MarksWritten DEF RInv, SInv
<1>4. f.page[i] \in MemPage BY <1>2 DEF FileEntry
<1>5. m.addr = f.page[i].addr /\ \A s, r : Shows(m, s, r) <=> Shows(f.page[i], s, r)
  <2>0. f.page[i].nent \in Nat /\ \A s \in 1 .. f.page[i].nent : s \in Slots /\ f.page[i].ent[s] \in Entry
    BY <1>4, PageTypes
  <2>1. m.addr = f.page[i].addr /\ m.nent = f.page[i].nent BY <1>4 DEF Deaden, MemPage
  <2>2. \A s \in 1 .. f.page[i].nent :
          m.ent[s] = IF f.page[i].ent[s].id = "erased" THEN [f.page[i].ent[s] EXCEPT !.id = "dead"]
                     ELSE f.page[i].ent[s]
    BY <1>4, <2>0 DEF Deaden, MemPage
  <2>3. \A s \in 1 .. f.page[i].nent : [f.page[i].ent[s] EXCEPT !.id = "dead"].id = "dead"
    BY <2>0 DEF Entry
  <2> HIDE DEF m
  <2>4. \A s \in 1 .. f.page[i].nent :
          \/ m.ent[s] = f.page[i].ent[s]
          \/ m.ent[s].id # "live" /\ f.page[i].ent[s].id # "live"
    BY <2>2, <2>3
  <2> QED BY <2>1, <2>4 DEF Shows
<1> HIDE DEF m
<1>6. pg = [f.page EXCEPT ![i] = m] OBVIOUS
<1> HIDE DEF pg
<1>7. /\ g.page = pg /\ g.npages = f.npages /\ g.hdr = f.hdr /\ g.st = "marked"
      /\ g.read_only = f.read_only
  BY <1>2 DEF FileEntry
<1> HIDE DEF g
<1>8. Active(f) /\ Writable(f) BY <1>1, <1>2 DEF PInv, Active
<1>9. RInv' /\ OnFile' = OnFile
  <2>1. g.page = [f.page EXCEPT ![i] = m] /\ g.hdr.rwflg = f.hdr.rwflg BY <1>6, <1>7
  <2>2. f.st = "closing" /\ g.st = "marked" BY <1>1, <1>7
  <2>3. m.addr = f.page[i].addr /\ g.npages = f.npages BY <1>5, <1>7
  <2>4. f = tab[p] OBVIOUS
  <2> HIDE DEF f
  <2> QED BY <1>1, <1>2, <1>3, <1>8, <2>1, <2>2, <2>3, <2>4, MemoryKeeps
<1>10. g \in FileEntry
  <2>1. tab \in [Procs -> FileEntry] BY RFacts
  <2>2. tab'[p] = g BY <1>1, <2>1 DEF Sets
  <2> QED BY <2>2 DEF SInv, IInv, TypeInv, TypeOK
<1>11. Distinct(f)
  <2>1. WriterOK(disk, header, size, f) BY <1>8, RFacts
  <2> QED BY <2>1, PagesDistinct DEF WriterOK
<1>12. InMemory(g) = InMemory(f) BY <1>2, <1>5, <1>6, <1>7, <1>10, <1>11, SameShown
<1>13. Writable(g) BY <1>7, <1>8 DEF Writable
<1>14. Phase(g) = Phase(f) /\ Work(g) = Work(f) BY <1>1, <1>7, <1>8, <1>12, <1>13, Phases
<1>15. UNCHANGED Store!vars BY <1>1, <1>9, <1>14, StutterStep
<1> QED BY <1>9, <1>15


(***************************************************************************)
(* A header that counts pages nothing leads to, and empty ones, does not   *)
(* change what the file holds.                                             *)
(***************************************************************************)
LEMMA EmptyPagesCounted ==
  ASSUME NEW d, NEW f \in FileEntry, Pages(d, f), NEW N \in Nat, N <= f.npages, Reached(d, f, N)
  PROVE  /\ Recorded(d, f.npages) = Recorded(d, N)
         /\ \E n \in 0 .. f.npages : Reached(d, f, n) /\ (f.npages >= 1 => n >= 1)
<1>0. f.npages \in Nat BY FileTypes
<1>1. CASE N >= 1
  <2>1. Recorded(d, N) = WrittenBy(d, f, N) BY <1>1, ReachedRecorded
  <2>2. Recorded(d, f.npages) = WrittenBy(d, f, N) BY <1>0, <1>1, ReachedRecorded
  <2>3. N \in 0 .. f.npages BY <1>0
  <2> QED BY <1>1, <2>1, <2>2, <2>3
<1>2. CASE f.npages = 0
  <2>1. N = 0 /\ N \in 0 .. f.npages BY <1>2
  <2> QED BY <1>2, <2>1
<1>3. CASE N = 0 /\ f.npages >= 1
  <2>1. 1 \in N + 1 .. f.npages /\ \A i \in 1 + 1 .. f.npages : i \in N + 1 .. f.npages
    BY <1>0, <1>3
  <2>2. d[f.page[1].addr] = EmptyPage BY <2>1 DEF Reached
  <2>3. d[f.page[1].addr].nxt = 0 /\ d[f.page[1].addr].nent = 0 BY <2>2 DEF EmptyPage
  <2>4. \A i \in 1 .. 1 - 1 : FALSE OBVIOUS
  <2>5. Reached(d, f, 1) BY <1>3, <2>1, <2>3, <2>4 DEF Reached
  <2>6. Recorded(d, f.npages) = WrittenBy(d, f, 1) BY <1>0, <1>3, <2>5, ReachedRecorded
  <2>7. \A i \in 1 .. 1 : i = 1 OBVIOUS
  <2>8. \A x \in Things, i \in 1 .. 1 : f.page[i].addr = x[1] => ~Shows(d[x[1]], x[2], x[3])
    BY <2>3, <2>7 DEF Shows
  <2>9. WrittenBy(d, f, 1) = {} BY <2>8 DEF WrittenBy
  <2>10. Recorded(d, N) = {} BY <1>3, NothingRecorded
  <2>11. 1 \in 0 .. f.npages BY <1>0, <1>3
  <2> QED BY <2>5, <2>6, <2>9, <2>10, <2>11
<1> QED BY <1>0, <1>1, <1>2, <1>3

(***************************************************************************)
(* The end of a session: given up, or committed.                           *)
(***************************************************************************)
LEMMA CloseReaderKeeps ==
  ASSUME RInv, SInv', FileIs, FileIs', NEW p \in Procs, CloseReader(p) \/ Crash(p)
  PROVE  RInv' /\ [Store!Next]_(Store!vars)
<1>1. Sets(p, Closed) /\ disk' = disk /\ header' = header BY DEF CloseReader, Crash, Sets
<1>2. ~Active(Closed) /\ Closed.st = "closed" BY DEF Active, Closed
<1>3. RInv' BY <1>1, <1>2, NextR
<1>4. OnFile' = OnFile BY <1>1 DEF FileIs
<1>5. Phase(Closed) = "idle" BY <1>2, Phases
<1>6. Store!Next BY <1>1, <1>4, <1>5, CrashStep
<1> QED BY <1>3, <1>6

LEMMA CloseHeaderKeeps ==
  ASSUME RInv, SInv', FileIs, FileIs', NEW p \in Procs, NEW checkpoint \in BOOLEAN,
         CloseHeader(p, checkpoint)
  PROVE  RInv' /\ [Store!Next]_(Store!vars)
<1> DEFINE f == tab[p]
           g == [f EXCEPT !.st = "closing", !.xdf_checkpoint = checkpoint]
<1>1. /\ f.st \in {"open", "failed"} /\ Writable(f)
      /\ header' = f.hdr /\ Sets(p, g) /\ disk' = disk
  BY DEF CloseHeader, Sets
<1>2. Active(f) BY <1>1 DEF Active
<1>3. /\ f \in FileEntry /\ Counted(f) /\ header.nbd \in Nat /\ SessionOK(disk, header, f)
      /\ WriterAhead(disk, header, safe, f) /\ OnlyWriter(p) /\ WriterOK(disk, header, size, f)
  BY <1>2, RFacts
<1>4. /\ g.page = f.page /\ g.npages = f.npages /\ g.hdr = f.hdr /\ g.st = "closing"
      /\ g.read_only = f.read_only
  BY <1>3 DEF FileEntry
<1> HIDE DEF g
<1>5. f.npages = f.hdr.nbd
  <2>1. f.npages \in Nat /\ f.hdr.nbd \in Nat /\ f.npages <= f.hdr.nbd BY <1>3, FileTypes DEF Counted
  <2>2. CASE f.st = "failed" BY <1>3, <2>1, <2>2 DEF WriterOK
  <2>3. CASE f.st = "open" BY <1>3, <2>3 DEF Counted
  <2> QED BY <1>1, <2>2, <2>3
<1>6. /\ Reached(disk, f, header.nbd) /\ header.nbd <= f.npages /\ Pages(disk, f)
      /\ f.hdr.rwflg # "none"
  BY <1>1, <1>3 DEF SessionOK, Reached, WriterOK
<1>7. /\ Recorded(disk, f.npages) = Recorded(disk, header.nbd)
      /\ \E n \in 0 .. f.npages : Reached(disk, f, n) /\ (f.npages >= 1 => n >= 1)
  BY <1>3, <1>6, EmptyPagesCounted
<1>8. OnFile' = OnFile BY <1>1, <1>5, <1>7 DEF FileIs
<1>9. \A n : Reached(disk, f, n) => Reached(disk, g, n) BY <1>4 DEF Reached
<1>10. SessionOK(disk', header', g) BY <1>1, <1>4, <1>6, <1>7, <1>9 DEF SessionOK
<1>11. RInv' /\ g \in FileEntry BY <1>1, <1>3, <1>10, NextR
<1>12. Writable(g) BY <1>1, <1>4 DEF Writable
<1>13. InMemory(g) = InMemory(f)
  <2>1. \A i \in 1 .. f.npages : f.page[i].addr \in Addr BY <1>6 DEF Pages
  <2>2. InMemory(f) = Remembered(f) BY <1>3, <2>1, InMemoryIs
  <2>3. InMemory(g) = Remembered(g) BY <1>4, <1>11, <2>1, InMemoryIs
  <2> QED BY <1>4, <2>2, <2>3 DEF Remembered
<1>14. Phase(f) = "session" /\ Phase(g) = "commit" /\ Work(g) = Work(f)
  BY <1>1, <1>4, <1>12, <1>13, Phases
<1>15. ~Sealed(header') BY <1>1, <1>6 DEF Sealed, Writable
<1>16. Store!Next BY <1>1, <1>8, <1>14, <1>15, CommitStep
<1> QED BY <1>11, <1>16

LEMMA FinishedKeeps ==
  ASSUME RInv, SInv', FileIs, FileIs', NEW p \in Procs, Checkpointed(p) \/ CloseSeal(p)
  PROVE  RInv' /\ [Store!Next]_(Store!vars)
<1> DEFINE f == tab[p]
           o == [f EXCEPT !.st = "open", !.modified = FALSE, !.xdf_checkpoint = FALSE]
           new == [f.hdr EXCEPT !.rwflg = RDMODE]
<1>1. /\ f.st = "closing" /\ PagesToWrite(f) = {} /\ disk' = disk
      /\ \/ Sets(p, o) /\ header' = header
         \/ Sets(p, Closed) /\ header' = new
  BY DEF Checkpointed, CloseSeal, Sets
<1>2. f \in FileEntry /\ PInv(disk, header, size, f) BY RFacts
<1>3. Active(f) /\ Writable(f) BY <1>1, <1>2 DEF PInv, Active
<1>4. /\ header.nbd \in Nat /\ SessionOK(disk, header, f)
      /\ WriterAhead(disk, header, safe, f) /\ OnlyWriter(p) /\ WriterOK(disk, header, size, f)
  BY <1>3, RFacts
<1>5. AllImages(disk, f) BY <1>1, <1>2, <1>4, AllWritten
<1>6. /\ header.nbd = f.hdr.nbd /\ f.npages = f.hdr.nbd /\ Pages(disk, f) /\ LastPageEnds(f)
      /\ f.hdr.rwflg # "none"
  BY <1>1, <1>4 DEF WriterAhead, WriterOK, SessionOK
<1>7. Reached(disk, f, f.npages) /\ Recorded(disk, f.npages) = InMemory(f)
  BY <1>2, <1>5, <1>6, AtRest
<1>8. new.nbd = f.hdr.nbd /\ new.rwflg = RDMODE BY <1>2, FileTypes DEF Header
<1>9. /\ o.page = f.page /\ o.npages = f.npages /\ o.hdr = f.hdr /\ o.st = "open"
      /\ o.read_only = f.read_only
  BY <1>2 DEF FileEntry
<1> HIDE DEF o, new
<1>10. OnFile = InMemory(f) /\ OnFile' = OnFile BY <1>1, <1>6, <1>7, <1>8 DEF FileIs
<1>11. Phase(f) = "commit" /\ Work(f) = OnFile BY <1>1, <1>3, <1>10, Phases
<1>12. CASE Sets(p, o) /\ header' = header
  <2>1. Reached(disk', o, header.nbd) BY <1>1, <1>6, <1>7, <1>9 DEF Reached
  <2>2. SessionOK(disk', header', o) BY <1>6, <1>9, <1>12, <2>1 DEF SessionOK
  <2>3. RInv' /\ o \in FileEntry BY <1>4, <1>12, <2>2, NextR
  <2>4. Writable(o) BY <1>3, <1>9 DEF Writable
  <2>5. InMemory(o) = InMemory(f)
    <3>1. \A i \in 1 .. f.npages : f.page[i].addr \in Addr BY <1>6 DEF Pages
    <3>2. InMemory(f) = Remembered(f) BY <1>2, <3>1, InMemoryIs
    <3>3. InMemory(o) = Remembered(o) BY <1>9, <2>3, <3>1, InMemoryIs
    <3> QED BY <1>9, <3>2, <3>3 DEF Remembered
  <2>6. Phase(o) = "session" /\ Work(o) = OnFile BY <1>9, <1>10, <2>4, <2>5, Phases
  <2>7. Store!Next BY <1>10, <1>11, <1>12, <2>6, CheckpointStep
  <2> QED BY <2>3, <2>7
<1>13. CASE Sets(p, Closed) /\ header' = new
  <2>1. ~Active(Closed) /\ Closed.st = "closed" BY DEF Active, Closed
  <2>2. RInv' BY <1>4, <1>13, <2>1, NextR
  <2>3. Sealed(header') BY <1>8, <1>13 DEF Sealed
  <2>4. Phase(Closed) = "idle" BY <2>1, Phases
  <2>5. Store!Next BY <1>10, <1>11, <1>13, <2>3, <2>4, CloseStep
  <2> QED BY <2>2, <2>5
<1> QED BY <1>1, <1>12, <1>13

(***************************************************************************)
(* A page of the session is written.  The pages before it are on disk as   *)
(* they are in memory, so the chain leads to it; its link leads one page   *)
(* further, if there is one, to a page that is empty still.                *)
(***************************************************************************)
LEMMA PageReached ==
  ASSUME NEW d, NEW f \in FileEntry, Pages(d, f), NEW n \in Nat, Reached(d, f, n), n >= 1,
         NEW i \in 1 .. f.npages, \A j \in 1 .. i - 1 : ~f.page[j].modified
  PROVE  i <= n
<1>0. f.npages \in Nat /\ n <= f.npages BY FileTypes DEF Reached
<1> SUFFICES ASSUME n < i PROVE FALSE BY <1>0
<1>1. n \in 1 .. i - 1 /\ n \in 1 .. f.npages /\ n \in 1 .. f.npages - 1 /\ n + 1 \in 1 .. f.npages
  BY <1>0
<1>2. d[f.page[n].addr] = Image(f.page[n]) BY <1>1 DEF Pages
<1>3. d[f.page[n].addr].nxt = f.page[n].nxt BY <1>2 DEF Image
<1>4. f.page[n].nxt \in Addr BY <1>1 DEF Pages
<1>5. d[f.page[n].addr].nxt = 0 BY DEF Reached
<1> QED BY <1>3, <1>4, <1>5 DEF Addr

Further(e, f, n, i, m) ==
  /\ m >= n /\ Reached(e, f, m)
  /\ \A j \in n + 1 .. m : j # i /\ e[f.page[j].addr] = EmptyPage

LEMMA PageLinked ==
  ASSUME NEW d, NEW e, NEW f \in FileEntry, Pages(d, f), LastPageEnds(f),
         NEW n \in Nat, Reached(d, f, n), n >= 1, NEW i \in 1 .. f.npages, i <= n,
         e[f.page[i].addr].nxt = f.page[i].nxt,
         \A j \in 1 .. f.npages : j # i => e[f.page[j].addr] = d[f.page[j].addr]
  PROVE  \E m \in 0 .. f.npages : Further(e, f, n, i, m)
<1>0. f.npages \in Nat /\ n <= f.npages /\ n \in 0 .. f.npages BY FileTypes DEF Reached
<1>1. \A j \in n + 1 .. f.npages : j \in 1 .. f.npages /\ j # i /\ e[f.page[j].addr] = EmptyPage
  <2> SUFFICES ASSUME NEW j \in n + 1 .. f.npages
               PROVE  j \in 1 .. f.npages /\ j # i /\ e[f.page[j].addr] = EmptyPage
    OBVIOUS
  <2>1. j \in 1 .. f.npages /\ j # i BY <1>0
  <2>2. d[f.page[j].addr] = EmptyPage BY DEF Reached
  <2> QED BY <2>1, <2>2
<1>2. \A j \in 1 .. n - 1 : e[f.page[j].addr].nxt = f.page[j + 1].addr
  <2> SUFFICES ASSUME NEW j \in 1 .. n - 1 PROVE e[f.page[j].addr].nxt = f.page[j + 1].addr
    OBVIOUS
  <2>1. j \in 1 .. f.npages /\ j \in 1 .. f.npages - 1 BY <1>0
  <2>2. CASE j = i BY <2>1, <2>2 DEF Pages
  <2>3. CASE j # i
    <3>1. d[f.page[j].addr].nxt = f.page[j + 1].addr BY DEF Reached
    <3> QED BY <2>1, <2>3, <3>1
  <2> QED BY <2>2, <2>3
<1>3. n \in 1 .. f.npages BY <1>0
<1>4. CASE i = n /\ n < f.npages
  <2>1. n + 1 \in n + 1 .. f.npages /\ n + 1 \in 0 .. f.npages /\ n \in 1 .. f.npages - 1
    BY <1>0, <1>4
  <2>2. e[f.page[n].addr].nxt = f.page[n + 1].addr BY <1>4, <2>1 DEF Pages
  <2>3. \A j \in 1 .. (n + 1) - 1 : j \in 1 .. n - 1 \/ j = n BY <1>0
  <2>4. e[f.page[n + 1].addr].nxt = 0 BY <1>1, <2>1 DEF EmptyPage
  <2>5. \A j \in (n + 1) + 1 .. f.npages : j \in n + 1 .. f.npages BY <1>0
  <2>6. n + 1 <= f.npages BY <1>0, <1>4
  <2>7. Reached(e, f, n + 1) BY <1>1, <1>2, <2>2, <2>3, <2>4, <2>5, <2>6 DEF Reached
  <2>8. \A j \in n + 1 .. n + 1 : j \in n + 1 .. f.npages BY <1>0, <1>4
  <2>9. n + 1 >= n OBVIOUS
  <2> QED BY <1>1, <2>1, <2>7, <2>8, <2>9 DEF Further
<1>5. CASE ~(i = n /\ n < f.npages)
  <2>1. e[f.page[n].addr].nxt = 0
    <3>1. CASE i = n
      <4>1. n = f.npages BY <1>0, <1>5, <3>1
      <4> QED BY <3>1, <4>1 DEF LastPageEnds
    <3>2. CASE i # n
      <4>1. d[f.page[n].addr].nxt = 0 BY DEF Reached
      <4> QED BY <1>3, <3>2, <4>1
    <3> QED BY <3>1, <3>2
  <2>2. Reached(e, f, n) BY <1>0, <1>1, <1>2, <2>1 DEF Reached
  <2>3. \A j \in n + 1 .. n : FALSE OBVIOUS
  <2>4. n >= n OBVIOUS
  <2> QED BY <1>0, <2>2, <2>3, <2>4 DEF Further
<1> QED BY <1>4, <1>5

LEMMA PagePublished ==
  ASSUME NEW d, NEW e, NEW f \in FileEntry, Pages(d, f), NEW n \in Nat, NEW m \in Nat,
         n <= m, m <= f.npages, NEW i \in 1 .. f.npages, i <= n,
         e[f.page[i].addr] = Image(f.page[i]),
         \A j \in 1 .. f.npages : j # i => e[f.page[j].addr] = d[f.page[j].addr],
         \A j \in n + 1 .. m : j # i /\ e[f.page[j].addr] = EmptyPage
  PROVE  /\ WrittenBy(d, f, n) \cap Remembered(f) \subseteq WrittenBy(e, f, m)
         /\ WrittenBy(e, f, m) \subseteq WrittenBy(d, f, n) \cup Remembered(f)
<1>0. f.npages \in Nat BY FileTypes
<1>1. \A s, r : Shows(e[f.page[i].addr], s, r) <=> Shows(f.page[i], s, r) BY DEF Shows, Image
<1>2. ASSUME NEW x \in WrittenBy(d, f, n), x \in Remembered(f) PROVE x \in WrittenBy(e, f, m)
  <2>0. x \in Things BY DEF WrittenBy
  <2>1. PICK j \in 1 .. n : f.page[j].addr = x[1] /\ Shows(d[x[1]], x[2], x[3]) BY DEF WrittenBy
  <2>2. PICK k \in 1 .. f.npages : f.page[k].addr = x[1] /\ Shows(f.page[k], x[2], x[3])
    BY <1>2 DEF Remembered
  <2>3. j \in 1 .. f.npages /\ j \in 1 .. m BY <1>0
  <2>4. j = k BY <2>1, <2>2, <2>3 DEF Pages
  <2>5. Shows(e[x[1]], x[2], x[3])
    <3>1. CASE j = i BY <1>1, <2>2, <2>4, <3>1
    <3>2. CASE j # i
      <4>1. e[x[1]] = d[x[1]] BY <2>1, <2>3, <3>2
      <4> QED BY <2>1, <4>1
    <3> QED BY <3>1, <3>2
  <2> QED BY <2>0, <2>1, <2>3, <2>5 DEF WrittenBy
<1>3. ASSUME NEW x \in WrittenBy(e, f, m) PROVE x \in WrittenBy(d, f, n) \cup Remembered(f)
  <2>0. x \in Things BY DEF WrittenBy
  <2>1. PICK j \in 1 .. m : f.page[j].addr = x[1] /\ Shows(e[x[1]], x[2], x[3]) BY DEF WrittenBy
  <2>2. j \in 1 .. f.npages /\ (j \in 1 .. n \/ j \in n + 1 .. m) BY <1>0
  <2>3. CASE j = i
    <3>1. Shows(f.page[i], x[2], x[3]) BY <1>1, <2>1, <2>3
    <3> QED BY <2>0, <2>1, <2>3, <3>1 DEF Remembered
  <2>4. CASE j # i /\ j \in 1 .. n
    <3>1. e[x[1]] = d[x[1]] BY <2>1, <2>2, <2>4
    <3> QED BY <2>0, <2>1, <2>4, <3>1 DEF WrittenBy
  <2>5. CASE j \in n + 1 .. m
    <3>1. e[x[1]] = EmptyPage BY <2>1, <2>5
    <3>2. EmptyPage.nent = 0 BY DEF EmptyPage
    <3>3. x[2] \in 1 .. 0 BY <2>1, <3>1, <3>2 DEF Shows
    <3> QED BY <3>3
  <2> QED BY <2>2, <2>3, <2>4, <2>5
<1> QED BY <1>2, <1>3

LEMMA ClosePageKeeps ==
  ASSUME RInv, SInv', FileIs, FileIs', NEW p \in Procs, NEW i \in PageNos, ClosePage(p, i)
  PROVE  RInv' /\ [Store!Next]_(Store!vars)
<1> DEFINE f == tab[p]
           b == f.page[i].addr
           mp == Flagged(f.page[i], FALSE)
           pg == [f.page EXCEPT ![i] = mp]
           g == [f EXCEPT !.st = "closing", !.page = pg]
<1>1. /\ f.st = "marked" /\ i \in PagesToWrite(f) /\ \A j \in PagesToWrite(f) : i <= j
      /\ Sets(p, g) /\ header' = header
      /\ disk' = [disk EXCEPT ![b] = Image(f.page[i])]
  BY DEF ClosePage, NextToWrite, Sets
<1>2. f \in FileEntry /\ PInv(disk, header, size, f) BY RFacts
<1>3. Active(f) /\ Writable(f) BY <1>1, <1>2 DEF PInv, Active
<1>4. /\ disk \in [Addr -> Word] /\ header.nbd \in Nat /\ SessionOK(disk, header, f)
      /\ WriterAhead(disk, header, safe, f) /\ OnlyWriter(p) /\ WriterOK(disk, header, size, f)
  BY <1>3, RFacts
<1>5. /\ header.nbd = f.npages /\ f.npages = f.hdr.nbd /\ f.npages \in Nat
      /\ Pages(disk, f) /\ LastPageEnds(f) /\ f.hdr.rwflg # "none"
  BY <1>1, <1>2, <1>4, FileTypes DEF WriterOK, WriterAhead, SessionOK
<1>6. /\ i \in 1 .. f.npages /\ f.npages >= 1
      /\ \A j \in 1 .. i - 1 : ~f.page[j].modified
  <2>1. i \in 1 .. f.npages /\ f.modified BY <1>1, <1>5 DEF PagesToWrite
  <2>2. \A j \in 1 .. i - 1 : j \in 1 .. f.npages /\ ~(i <= j) BY <1>5, <2>1
  <2>3. f.npages >= 1 BY <1>5, <2>1
  <2> QED BY <1>1, <1>5, <2>1, <2>2, <2>3 DEF PagesToWrite
<1>7. PICK n \in 0 .. f.npages : Reached(disk, f, n) /\ n >= 1
  BY <1>1, <1>4, <1>6 DEF SessionOK
<1>8. n \in Nat /\ n <= f.npages BY <1>5
<1>9. b \in Addr BY <1>5, <1>6 DEF Pages
<1>10. disk'[b] = Image(f.page[i]) /\ disk'[b].nxt = f.page[i].nxt BY <1>1, <1>4, <1>9 DEF Image
<1>11. ASSUME NEW j \in 1 .. f.npages, j # i PROVE disk'[f.page[j].addr] = disk[f.page[j].addr]
  <2>1. f.page[j].addr # b /\ f.page[j].addr \in Addr BY <1>5, <1>6, <1>11 DEF Pages
  <2> QED BY <1>1, <1>4, <2>1
<1>12. /\ f.page[i] \in MemPage /\ mp.addr = b
       /\ \A s, r : Shows(mp, s, r) <=> Shows(f.page[i], s, r)
  <2>1. f.page[i] \in MemPage BY <1>2, <1>6, FileTypes
  <2>2. mp.addr = b /\ mp.nent = f.page[i].nent /\ mp.ent = f.page[i].ent
    BY <2>1 DEF Flagged, MemPage
  <2> QED BY <2>1, <2>2 DEF Shows
<1> HIDE DEF mp
<1>13. pg = [f.page EXCEPT ![i] = mp] OBVIOUS
<1> HIDE DEF pg
<1>14. /\ g.page = pg /\ g.npages = f.npages /\ g.hdr = f.hdr /\ g.st = "closing"
       /\ g.read_only = f.read_only
  BY <1>2 DEF FileEntry
<1> HIDE DEF g
<1>15. tab'[p] = g /\ g \in FileEntry
  <2>1. tab \in [Procs -> FileEntry] BY RFacts
  <2>2. tab'[p] = g BY <1>1, <2>1 DEF Sets
  <2> QED BY <2>2 DEF SInv, IInv, TypeInv, TypeOK
<1>16. i <= n
  <2> HIDE DEF f
  <2> QED BY <1>2, <1>5, <1>6, <1>7, <1>8, PageReached
<1>17. PICK m \in 0 .. f.npages : Further(disk', f, n, i, m)
  <2> HIDE DEF f
  <2>1. disk'[f.page[i].addr].nxt = f.page[i].nxt BY <1>10 DEF b
  <2>2. \A j \in 1 .. f.npages : j # i => disk'[f.page[j].addr] = disk[f.page[j].addr] BY <1>11
  <2>3. /\ f \in FileEntry /\ Pages(disk, f) /\ LastPageEnds(f) /\ n \in Nat
        /\ Reached(disk, f, n) /\ n >= 1 /\ i \in 1 .. f.npages /\ i <= n
    BY <1>2, <1>5, <1>6, <1>7, <1>8, <1>16
  <2> QED BY <2>1, <2>2, <2>3, PageLinked, SMTT(30)
<1>18. /\ m \in Nat /\ m >= 1 /\ m <= f.npages /\ n <= m /\ Reached(disk', f, m)
       /\ \A j \in n + 1 .. m : j # i /\ disk'[f.page[j].addr] = EmptyPage
  BY <1>5, <1>7, <1>8, <1>17 DEF Further
<1>19. \A j \in 1 .. f.npages : g.page[j].addr = f.page[j].addr
  <2>1. \A j \in 1 .. f.npages : j \in PageNos BY <1>2, FileTypes
  <2> QED BY <1>2, <1>12, <1>13, <1>14, <2>1 DEF FileEntry
<1>20. Reached(disk', g, m)
  <2> HIDE DEF f
  <2>1. \A j \in 1 .. f.npages : /\ g.page[j].addr = f.page[j].addr
                                 /\ disk'[f.page[j].addr] = disk'[f.page[j].addr]
    BY <1>19
  <2> QED BY <1>2, <1>14, <1>18, <2>1, SameReached
<1>21. SessionOK(disk', header', g)
  BY <1>5, <1>14, <1>17, <1>18, <1>20 DEF SessionOK
<1>22. RInv' BY <1>1, <1>4, <1>21, NextR
<1>23. OnFile = WrittenBy(disk, f, n)
  <2>1. Recorded(disk, header.nbd) = WrittenBy(disk, f, n)
    BY <1>2, <1>4, <1>5, <1>7, <1>8, ReachedRecorded
  <2> QED BY <2>1 DEF FileIs
<1>24. OnFile' = WrittenBy(disk', f, m)
  <2>1. Pages(disk', g)
    <3>1. Active(g) BY <1>3, <1>14 DEF Active, Writable
    <3>2. SInv /\ IInv' BY DEF RInv, SInv
    <3>3. WriterOK(disk', header', size', g) BY <1>1, <3>1, <3>2, NextFacts
    <3> QED BY <3>3 DEF WriterOK
  <2>2. m <= header.nbd BY <1>5, <1>18
  <2>3. Recorded(disk', header.nbd) = WrittenBy(disk', g, m)
    BY <1>4, <1>15, <1>18, <1>20, <2>1, <2>2, ReachedRecorded
  <2>4. \A j \in 1 .. m : j \in 1 .. f.npages BY <1>5, <1>18
  <2>5. WrittenBy(disk', g, m) = WrittenBy(disk', f, m) BY <1>19, <2>4 DEF WrittenBy
  <2> QED BY <1>1, <2>3, <2>5 DEF FileIs
<1>25. Distinct(f) BY <1>5, PagesDistinct
<1>26. InMemory(f) = Remembered(f) BY <1>2, <1>25, InMemoryIs DEF Distinct
<1>27. InMemory(g) = InMemory(f)
  BY <1>2, <1>12, <1>13, <1>14, <1>15, <1>25, SameShown
<1>28. Writable(g) BY <1>3, <1>14 DEF Writable
<1>29. /\ Phase(f) = "commit" /\ Work(f) = Remembered(f)
       /\ Phase(g) = "commit" /\ Work(g) = Work(f)
  BY <1>1, <1>3, <1>14, <1>26, <1>27, <1>28, Phases
<1>30. /\ OnFile \cap Work(f) \subseteq OnFile' /\ OnFile' \subseteq OnFile \cup Work(f)
  <2> HIDE DEF f
  <2>1. /\ WrittenBy(disk, f, n) \cap Remembered(f) \subseteq WrittenBy(disk', f, m)
        /\ WrittenBy(disk', f, m) \subseteq WrittenBy(disk, f, n) \cup Remembered(f)
    BY <1>2, <1>5, <1>6, <1>8, <1>10, <1>11, <1>16, <1>18, PagePublished DEF b
  <2> QED BY <1>23, <1>24, <1>29, <2>1
<1>31. Store!Next BY <1>1, <1>29, <1>30, PublishStep
<1> QED BY <1>22, <1>31

(***************************************************************************)
(* A record put at the end, on the last page or on a new one: it has a     *)
(* handle that nothing in the file or the session has, and the others keep *)
(* theirs.                                                                 *)
(***************************************************************************)
LEMMA AddEntryFields ==
  ASSUME NEW m \in MemPage, NEW e
  PROVE  /\ AddEntry(m, e).addr = m.addr /\ AddEntry(m, e).nent = m.nent + 1
         /\ AddEntry(m, e).ent = [m.ent EXCEPT ![m.nent + 1] = e]
BY DEF AddEntry, MemPage

LEMMA PutAdds ==
  ASSUME NEW f \in FileEntry, f.npages = f.hdr.nbd, f.npages >= 1,
         LastPageFull(f) => CanAddPage(f), Distinct(f), Distinct(Roomy(f)),
         NEW k \in Keys, NEW l \in Lengths, Roomy(f).hdr.fsiz + l <= MaxAddr,
         \A i \in 1 .. f.npages : Roomy(f).page[i].ent = f.page[i].ent
  PROVE  LET g == Roomy(f)
             w == Appended(g, k, l) IN
         /\ w \in FileEntry /\ w.npages = g.npages
         /\ \A i \in 1 .. g.npages : w.page[i].addr = g.page[i].addr
         /\ \E y \in Things : InMemory(w) = InMemory(f) \cup {y} /\ ~HandleUsed(f, y[1], y[2])
         /\ \A h \in LiveHandles(f) :
              /\ h \in PageNos \X Slots
              /\ h[1] \in 1 .. w.npages /\ h[2] \in 1 .. w.page[h[1]].nent
              /\ w.page[h[1]].addr = f.page[h[1]].addr /\ EntryAt(w, h) = EntryAt(f, h)
<1> DEFINE g == Roomy(f)
           w == Appended(g, k, l)
           e == NewEntry(g, k, l)
           n == g.npages
<1>1. /\ g \in FileEntry /\ n \in PageNos /\ ~LastPageFull(g) /\ n >= f.npages
  BY RoomyFields
<1>2. /\ InMemory(g) = InMemory(f)
      /\ \A i \in 1 .. f.npages : /\ i \in 1 .. g.npages /\ g.page[i].addr = f.page[i].addr
                                  /\ g.page[i].nent = f.page[i].nent /\ g.page[i].ent = f.page[i].ent
  BY RoomyRemembers
<1>3. Distinct(g) /\ g.hdr.fsiz + l <= MaxAddr OBVIOUS
<1> HIDE DEF g
<1>4. w \in FileEntry /\ w.npages = n BY <1>1, <1>3, AppendedFields
<1>5. \A i \in 1 .. n : /\ i \in PageNos /\ g.page[i] \in MemPage
                        /\ w.page[i] = IF i = n THEN AddEntry(g.page[i], e) ELSE g.page[i]
  BY <1>1, FileTypes, AppendedPages
<1> HIDE DEF w
<1>6. e.id = "live" BY DEF NewEntry
<1> HIDE DEF e
<1>7. n \in 1 .. n /\ n \in Nat
  <2>1. n \in Nat /\ n >= 1 BY <1>1, FileTypes DEF PageNos
  <2> QED BY <2>1
<1>8. g.page[n].nent \in Nat /\ g.page[n].nent < EntriesPerPage
  <2>1. g.page[n].nent \in Nat BY <1>5, <1>7, PageTypes
  <2> QED BY <1>1, <2>1, XdfAssumption DEF LastPageFull
<1>9. \A i \in 1 .. n :
        /\ w.page[i].addr = g.page[i].addr
        /\ \A s \in 1 .. g.page[i].nent :
             s \in 1 .. w.page[i].nent /\ w.page[i].ent[s] = g.page[i].ent[s]
  <2> SUFFICES ASSUME NEW i \in 1 .. n
               PROVE  /\ w.page[i].addr = g.page[i].addr
                      /\ \A s \in 1 .. g.page[i].nent :
                           s \in 1 .. w.page[i].nent /\ w.page[i].ent[s] = g.page[i].ent[s]
    OBVIOUS
  <2>1. CASE i # n BY <1>5, <2>1
  <2>2. CASE i = n
    <3>1. w.page[i] = AddEntry(g.page[i], e) BY <1>5, <2>2
    <3>2. /\ AddEntry(g.page[i], e).addr = g.page[i].addr
          /\ AddEntry(g.page[i], e).nent = g.page[i].nent + 1
          /\ AddEntry(g.page[i], e).ent = [g.page[i].ent EXCEPT ![g.page[i].nent + 1] = e]
      BY <1>5, AddEntryFields
    <3>3. \A s \in 1 .. g.page[i].nent :
            s \in 1 .. g.page[i].nent + 1 /\ s \in Slots /\ s # g.page[i].nent + 1
      BY <1>5, <1>8, <2>2, PageTypes
    <3>4. g.page[i].ent \in [Slots -> Entry] BY <1>5, PageTypes
    <3> QED BY <3>1, <3>2, <3>3, <3>4
  <2> QED BY <2>1, <2>2
<1>10. RecordOf(e) \in Record
  <2>1. g.page[n].nent + 1 \in Slots BY <1>8, XdfAssumption DEF Slots
  <2>2. w.page[n].ent[g.page[n].nent + 1] = e
    <3>1. w.page[n] = AddEntry(g.page[n], e) /\ g.page[n] \in MemPage BY <1>5, <1>7
    <3>2. AddEntry(g.page[n], e).ent = [g.page[n].ent EXCEPT ![g.page[n].nent + 1] = e]
      BY <3>1, AddEntryFields
    <3>3. g.page[n].ent \in [Slots -> Entry] BY <3>1, PageTypes
    <3> QED BY <2>1, <3>1, <3>2, <3>3
  <2>3. w.page[n].ent \in [Slots -> Entry] BY <1>1, <1>4, FileTypes, PageTypes
  <2>4. e \in Entry BY <2>1, <2>2, <2>3
  <2> QED BY <2>4 DEF RecordOf, Record, Entry
<1> DEFINE y == Handled(g.page[n].addr, g.page[n].nent + 1, e)
<1>11. InMemory(w) = InMemory(g) \cup {y}
  BY <1>1, <1>3, <1>4, <1>5, <1>6, <1>8, <1>10, AppendAdds
<1>12. y \in Things
  <2>1. \A i \in 1 .. n : w.page[i].addr \in Addr BY <1>3, <1>9 DEF Distinct
  <2>2. InMemory(w) = Remembered(w) BY <1>4, <2>1, InMemoryIs
  <2> QED BY <1>11, <2>2 DEF Remembered
<1>13. ~HandleUsed(f, y[1], y[2])
  <2>1. y[1] = g.page[n].addr /\ y[2] = g.page[n].nent + 1 BY DEF Handled
  <2> HIDE DEF y
  <2> SUFFICES ASSUME NEW i \in 1 .. f.npages, f.page[i].addr = y[1], y[2] \in 1 .. f.page[i].nent
               PROVE  FALSE
    BY DEF HandleUsed
  <2>2. i \in 1 .. n /\ g.page[i].addr = g.page[n].addr BY <1>2, <2>1
  <2>3. i = n BY <1>3, <1>7, <2>2 DEF Distinct
  <2>4. f.page[i].nent = g.page[n].nent BY <1>2, <2>3
  <2> QED BY <1>8, <2>1, <2>4
<1> HIDE DEF y
<1>14. ASSUME NEW h \in LiveHandles(f)
       PROVE  /\ h \in PageNos \X Slots
              /\ h[1] \in 1 .. w.npages /\ h[2] \in 1 .. w.page[h[1]].nent
              /\ w.page[h[1]].addr = f.page[h[1]].addr /\ EntryAt(w, h) = EntryAt(f, h)
  <2>1. h \in PageNos \X Slots /\ h[1] \in PageNos /\ h[2] \in Slots BY HandleTypes
  <2>2. h[1] \in 1 .. f.npages /\ h[2] \in 1 .. f.page[h[1]].nent
    <3>1. f.npages \in Nat /\ f.page[h[1]].nent \in Nat BY <2>1, FileTypes, PageTypes
    <3> QED BY <2>1, <3>1 DEF LiveHandles, PageNos, Slots
  <2>3. /\ h[1] \in 1 .. n /\ g.page[h[1]].addr = f.page[h[1]].addr
        /\ g.page[h[1]].nent = f.page[h[1]].nent /\ g.page[h[1]].ent = f.page[h[1]].ent
    BY <1>2, <2>2
  <2>4. /\ h[2] \in 1 .. w.page[h[1]].nent /\ w.page[h[1]].addr = g.page[h[1]].addr
        /\ w.page[h[1]].ent[h[2]] = g.page[h[1]].ent[h[2]]
    BY <1>9, <2>2, <2>3
  <2> QED BY <1>4, <2>1, <2>3, <2>4 DEF EntryAt
<1> QED BY <1>2, <1>4, <1>9, <1>11, <1>12, <1>13, <1>14 DEF g, w

LEMMA RoomyReached ==
  ASSUME NEW d \in [Addr -> Word], NEW f \in FileEntry, f.npages = f.hdr.nbd, f.npages >= 1,
         LastPageFull(f) => CanAddPage(f), Pages(d, f), NEW n \in Nat, Reached(d, f, n)
  PROVE  Reached(RoomyDisk(d, f), Roomy(f), n)
<1>0. f.npages \in Nat /\ n <= f.npages /\ f.hdr.fsiz \in Nat BY FileTypes DEF Reached
<1>1. CASE ~LastPageFull(f) BY <1>1 DEF Roomy, RoomyDisk
<1>2. CASE LastPageFull(f)
  <2> DEFINE g == WithNewPage(f)
             a == f.hdr.fsiz + 1
             e == [d EXCEPT ![a] = EmptyPage]
             N == f.npages + 1
  <2>1. /\ g \in FileEntry /\ g.npages = N /\ a \in Addr /\ g.page[N] = NewPage(a)
        /\ \A i \in 1 .. f.npages : g.page[i].addr = f.page[i].addr
    BY <1>2, NewPageFields
  <2>2. g.hdr.fsiz = a BY <1>2, WithNewPageFields
  <2>3. g = Roomy(f) /\ e = RoomyDisk(d, f) BY <1>2, <2>2 DEF Roomy, RoomyDisk
  <2>4. e[a] = EmptyPage /\ \A b \in Addr : b # a => e[b] = d[b] BY <2>1
  <2>5. g.page[N].addr = a BY <2>1 DEF NewPage, NoMemPage
  <2> HIDE DEF g, e
  <2>6. \A i \in 1 .. f.npages : e[g.page[i].addr] = d[f.page[i].addr]
    <3> SUFFICES ASSUME NEW i \in 1 .. f.npages PROVE e[g.page[i].addr] = d[f.page[i].addr]
      OBVIOUS
    <3>1. f.page[i].addr \in Addr /\ f.page[i].addr <= f.hdr.fsiz BY DEF Pages
    <3>2. f.page[i].addr # a BY <1>0, <3>1 DEF Addr
    <3> QED BY <2>1, <2>4, <3>1, <3>2
  <2>7. \A i \in 1 .. n - 1 : i \in 1 .. f.npages /\ i + 1 \in 1 .. f.npages BY <1>0
  <2>8. \A i \in 1 .. n - 1 : e[g.page[i].addr].nxt = g.page[i + 1].addr
    BY <2>1, <2>6, <2>7 DEF Reached
  <2>9. n >= 1 => e[g.page[n].addr].nxt = 0
    <3>1. n >= 1 => n \in 1 .. f.npages BY <1>0
    <3> QED BY <2>6, <3>1 DEF Reached
  <2>10. \A i \in n + 1 .. N : (i \in n + 1 .. f.npages /\ i \in 1 .. f.npages) \/ i = N BY <1>0
  <2>11. \A i \in n + 1 .. N : e[g.page[i].addr] = EmptyPage
    BY <2>4, <2>5, <2>6, <2>10 DEF Reached
  <2>12. n <= N BY <1>0
  <2>13. Reached(e, g, n) BY <2>1, <2>8, <2>9, <2>11, <2>12 DEF Reached
  <2> QED BY <2>3, <2>13
<1> QED BY <1>1, <1>2

LEMMA PutAtEndKeeps ==
  ASSUME RInv, SInv', FileIs, FileIs', NEW p \in Procs, tab[p].st = "open", Writable(tab[p]),
         NEW h \in LiveHandles(tab[p]) \cup {NoHandle}, NEW k \in Keys, NEW l \in Lengths,
         PutAtEnd(p, h, k, l)
  PROVE  RInv' /\ [Store!Next]_(Store!vars)
<1> DEFINE f == tab[p]
           g == Roomy(f)
           w == Appended(g, k, l)
           d == RoomyDisk(disk, f)
           e == WithRecord(d, g.hdr.fsiz + 1, k, l)
           t == IF h = NoHandle THEN w ELSE Erase(w, h)
           x == Handled(f.page[h[1]].addr, h[2], EntryAt(f, h))
           gone == IF h = NoHandle THEN {} ELSE {x}
<1>1. /\ LastPageFull(f) => CanAddPage(f)
      /\ g.hdr.fsiz + l <= MaxAddr
      /\ disk' = e /\ Sets(p, t) /\ header' = header
  BY DEF PutAtEnd, Sets, Roomy, RoomyDisk
<1>2. Active(f) BY DEF Active
<1>3. /\ f \in FileEntry /\ Counted(f) /\ HeldGood(disk, f, f.hdr.fsiz)
      /\ disk \in [Addr -> Word] /\ header.nbd \in Nat /\ header.fsiz \in Nat
      /\ NoUsedPageBeyond(disk, header.fsiz) /\ SessionOK(disk, header, f)
      /\ WriterAhead(disk, header, safe, f) /\ OnlyWriter(p) /\ WriterOK(disk, header, size, f)
  BY <1>2, RFacts DEF PInv, Bound
<1>4. /\ Pages(disk, f) /\ LastPageEnds(f) /\ header.fsiz <= f.hdr.fsiz
      /\ f.npages = f.hdr.nbd /\ f.npages >= 1 /\ Ahead(disk, f, safe)
      /\ Reached(disk, f, header.nbd) /\ f.hdr.rwflg # "none" /\ header.nbd <= f.npages
  BY <1>3 DEF WriterOK, WriterAhead, Counted, SessionOK, Reached
<1>5. /\ g \in FileEntry /\ g.npages \in PageNos /\ ~LastPageFull(g) /\ g.st = f.st
      /\ f.hdr.fsiz <= g.hdr.fsiz /\ g.read_only = f.read_only /\ g.hdr.rwflg = f.hdr.rwflg
  BY <1>1, <1>3, <1>4, RoomyFields
<1>6. /\ d \in [Addr -> Word]
      /\ Pages(d, g) /\ HeldGood(d, g, g.hdr.fsiz) /\ LastPageEnds(g)
      /\ KeptPages(disk, d, f.hdr.fsiz)
  BY <1>1, <1>3, <1>4, RoomyGood
<1>7. /\ \A i \in 1 .. f.npages : g.page[i].ent = f.page[i].ent
      /\ \A b \in Addr : Used(d[b]) => d[b] = disk[b]
  BY <1>1, <1>3, <1>4, RoomyAhead
<1>8. Reached(d, g, header.nbd)
  <2> HIDE DEF f
  <2> QED BY <1>1, <1>3, <1>4, RoomyReached
<1>9. Distinct(f) /\ Distinct(g) BY <1>4, <1>6, PagesDistinct
<1>10. /\ w \in FileEntry /\ w.npages = g.npages
       /\ \A i \in 1 .. g.npages : w.page[i].addr = g.page[i].addr
       /\ \E y \in Things : InMemory(w) = InMemory(f) \cup {y} /\ ~HandleUsed(f, y[1], y[2])
       /\ \A j \in LiveHandles(f) :
            /\ j \in PageNos \X Slots
            /\ j[1] \in 1 .. w.npages /\ j[2] \in 1 .. w.page[j[1]].nent
            /\ w.page[j[1]].addr = f.page[j[1]].addr /\ EntryAt(w, j) = EntryAt(f, j)
  <2> HIDE DEF f
  <2> QED BY <1>1, <1>3, <1>4, <1>7, <1>9, PutAdds
<1> HIDE DEF g, d
<1>11. KeptPages(d, e, g.hdr.fsiz) /\ \A b \in Addr : e[b].kind = "page" => e[b] = d[b]
  BY <1>1, <1>5, <1>6, AppendGood
<1>12. w.st = f.st /\ w.read_only = f.read_only /\ w.hdr.rwflg = f.hdr.rwflg
  BY <1>1, <1>5, AppendedFields
<1>13. disk' \in [Addr -> Word] /\ disk' = e BY <1>1 DEF SInv, IInv, TypeInv, TypeOK
<1> HIDE DEF w, e
<1>14. Distinct(w) BY <1>9, <1>10 DEF Distinct
<1>15. Reached(e, w, header.nbd)
  <2>1. ASSUME NEW i \in 1 .. g.npages PROVE e[g.page[i].addr] = d[g.page[i].addr]
    BY <1>6, <1>11 DEF Pages, KeptPages
  <2> QED BY <1>3, <1>5, <1>8, <1>10, <2>1, SameReached
<1>16. /\ t.npages = w.npages /\ t.st = w.st /\ t.read_only = w.read_only
       /\ t.hdr.rwflg = w.hdr.rwflg /\ \A i \in 1 .. w.npages : t.page[i].addr = w.page[i].addr
       /\ InMemory(t) = InMemory(w) \ gone /\ gone \subseteq InMemory(f)
  <2>1. CASE h = NoHandle BY <2>1
  <2>2. CASE h # NoHandle
    <3> DEFINE m == EraseEntry(w.page[h[1]], h[2])
    <3>1. /\ h \in LiveHandles(f) /\ h \in PageNos \X Slots
          /\ h[1] \in 1 .. w.npages /\ h[2] \in 1 .. w.page[h[1]].nent
          /\ w.page[h[1]].addr = f.page[h[1]].addr /\ EntryAt(w, h) = EntryAt(f, h)
      BY <1>10, <2>2
    <3>2. /\ t \in FileEntry /\ t.hdr.rwflg = w.hdr.rwflg /\ t.npages = w.npages
          /\ t.st = w.st /\ t.read_only = w.read_only
          /\ t.page = [w.page EXCEPT ![h[1]] = m]
      BY <1>10, <2>2, <3>1, EraseFields
    <3>3. w.page[h[1]] \in MemPage BY <1>10, <3>1, FileTypes
    <3>4. m.addr = w.page[h[1]].addr BY <3>3 DEF EraseEntry, MemPage
    <3>5. InMemory(t) = InMemory(w) \ {Handled(w.page[h[1]].addr, h[2], EntryAt(w, h))}
      BY <1>10, <1>14, <3>1, <3>2, EraseForgets
    <3>6. gone = {x} /\ x \in InMemory(f) BY <2>2, <3>1 DEF InMemory
    <3>7. Handled(w.page[h[1]].addr, h[2], EntryAt(w, h)) = x BY <3>1
    <3> HIDE DEF m, t, x, gone
    <3>8. \A i \in 1 .. w.npages : t.page[i].addr = w.page[i].addr
      <4>1. \A i \in 1 .. w.npages : i \in PageNos BY <1>10, FileTypes
      <4> QED BY <1>10, <3>2, <3>4, <4>1 DEF FileEntry
    <3> QED BY <3>2, <3>5, <3>6, <3>7, <3>8
  <2> QED BY <2>1, <2>2
<1> HIDE DEF t, x, gone
<1>17. Reached(disk', t, header.nbd)
  <2>1. \A i \in 1 .. w.npages : e[w.page[i].addr] = e[w.page[i].addr] OBVIOUS
  <2>2. Reached(e, t, header.nbd) BY <1>3, <1>10, <1>15, <1>16, <2>1, SameReached
  <2> QED BY <1>13, <2>2
<1>18. t.st = "open" /\ t.hdr.rwflg = f.hdr.rwflg /\ Writable(t)
  BY <1>12, <1>16 DEF Writable
<1>19. SessionOK(disk', header', t) BY <1>1, <1>4, <1>17, <1>18 DEF SessionOK
<1>20. RInv' BY <1>1, <1>3, <1>19, NextR
<1>21. KeptPages(disk, disk', header.fsiz)
  <2>1. f.hdr.fsiz \in Nat /\ g.hdr.fsiz \in Nat BY <1>3, <1>5, FileTypes
  <2>2. KeptPages(disk, e, f.hdr.fsiz)
    <3>1. f.hdr.fsiz \in Int /\ g.hdr.fsiz \in Int /\ f.hdr.fsiz <= g.hdr.fsiz BY <1>5, <2>1
    <3>2. KeptPages(disk, d, f.hdr.fsiz) /\ KeptPages(d, e, g.hdr.fsiz) BY <1>6, <1>11
    <3> HIDE DEF f
    <3> QED BY <3>1, <3>2, KeptTwice
  <2>3. KeptPages(disk, disk, header.fsiz) BY NothingWritten
  <2> QED BY <1>3, <1>4, <1>13, <2>1, <2>2, <2>3, KeptTwice
<1>22. \A a \in Addr : Used(disk'[a]) => disk'[a] = disk[a]
  <2> SUFFICES ASSUME NEW a \in Addr, Used(e[a]) PROVE e[a] = disk[a] BY <1>13
  <2>1. e[a] = d[a] BY <1>11 DEF Used
  <2> QED BY <1>7, <2>1
<1>23. OnFile' = OnFile
  <2>1. Recorded(disk', header.nbd) = Recorded(disk, header.nbd)
    BY <1>3, <1>13, <1>21, <1>22, SameRecorded
  <2> QED BY <1>1, <2>1 DEF FileIs
<1>24. PICK y \in Things : InMemory(w) = InMemory(f) \cup {y} /\ ~HandleUsed(f, y[1], y[2])
  BY <1>10
<1>25. y \notin InMemory(f) /\ y \notin OnFile
  <2>1. y \notin InMemory(f)
    <3>1. InMemory(f) = Remembered(f) BY <1>3, <1>9, InMemoryIs DEF Distinct
    <3>2. ASSUME y \in Remembered(f) PROVE FALSE
      <4>1. PICK i \in 1 .. f.npages : f.page[i].addr = y[1] /\ Shows(f.page[i], y[2], y[3])
        BY <3>2 DEF Remembered
      <4> QED BY <1>24, <4>1 DEF Shows, HandleUsed
    <3> QED BY <3>1, <3>2
  <2>2. OnFile = WrittenBy(disk, f, header.nbd)
    <3>1. header.nbd <= header.nbd BY <1>3
    <3>2. Recorded(disk, header.nbd) = WrittenBy(disk, f, header.nbd)
      BY <1>3, <1>4, <3>1, ReachedRecorded
    <3> QED BY <3>2 DEF FileIs
  <2>3. \A z \in WrittenBy(disk, f, header.nbd) : HandleUsed(f, z[1], z[2])
    BY <1>3, <1>4, WrittenHandles
  <2> QED BY <1>24, <2>1, <2>2, <2>3
<1>26. /\ Phase(f) = "session" /\ Work(f) = InMemory(f)
       /\ Phase(t) = "session" /\ Work(t) = InMemory(t)
  BY <1>18, Phases
<1>27. Work(t) = (Work(f) \ gone) \cup {y} BY <1>16, <1>24, <1>25, <1>26
<1>28. gone \in Store!AtMostOne(Work(f))
  <2>1. gone = {} \/ gone = {x} BY DEF gone
  <2> QED BY <1>16, <1>26, <2>1 DEF Store!AtMostOne
<1>29. {y} \in Store!AtMostOne(Things \ (Work(f) \cup OnFile))
  BY <1>25, <1>26 DEF Store!AtMostOne
<1>30. Store!Next BY <1>1, <1>23, <1>26, <1>27, <1>28, <1>29, ChangeStep
<1> QED BY <1>20, <1>30

LEMMA XdfPutKeeps ==
  ASSUME RInv, SInv', FileIs, FileIs', NEW p \in Procs,
         \/ \E k \in Keys, l \in Lengths, rewrit \in BOOLEAN : FstEcr(p, k, l, rewrit)
         \/ \E h \in LiveHandles(tab[p]), k \in Keys, l \in Lengths : MrfPut(p, h, k, l)
  PROVE  RInv' /\ [Store!Next]_(Store!vars)
<1> DEFINE f == tab[p]
<1>0. f \in FileEntry BY RFacts
<1>1. ASSUME NEW k \in Keys, NEW l \in Lengths, NEW rewrit \in BOOLEAN, FstEcr(p, k, l, rewrit)
      PROVE  RInv' /\ [Store!Next]_(Store!vars)
  <2>1. PICK h \in IF rewrit THEN FirstMatch(f, k) ELSE {NoHandle} : XdfPut(p, h, k, l, FALSE)
    BY <1>1 DEF FstEcr
  <2>2. h \in LiveHandles(f) \cup {NoHandle} BY <1>0, HandleTypes
  <2>3. h # NoHandle => EntryAt(f, h).key = k BY DEF FirstMatch
  <2>4. f.st = "open" /\ Writable(f) BY <2>1 DEF XdfPut
  <2>5. CASE PutAtEnd(p, h, k, l) BY <2>2, <2>4, <2>5, PutAtEndKeeps
  <2>6. CASE h # NoHandle /\ EntryAt(f, h).lng = l /\ PutInPlace(p, h, k, l)
    BY <2>2, <2>3, <2>4, <2>6, PutInPlaceKeeps
  <2> QED BY <2>1, <2>5, <2>6 DEF XdfPut
<1>2. ASSUME NEW h \in LiveHandles(f), NEW k \in Keys, NEW l \in Lengths, MrfPut(p, h, k, l)
      PROVE  RInv' /\ [Store!Next]_(Store!vars)
  <2>1. f.st = "open" /\ Writable(f) /\ PutAtEnd(p, h, k, l) BY <1>2 DEF MrfPut, XdfPut
  <2> QED BY <2>1, PutAtEndKeeps
<1> QED BY <1>1, <1>2

(***************************************************************************)
(* The initial states, all steps, and the theorem.                         *)
(***************************************************************************)
LEMMA InitStore == Init => RInv /\ Store!Init
<1> SUFFICES ASSUME Init PROVE RInv /\ Store!Init OBVIOUS
<1>1. SInv BY InitSurvives
<1>2. \A p \in Procs : tab[p] = Closed BY DEF Init
<1>3. Closed.st = "closed" /\ ~Active(Closed) BY DEF Closed, Active
<1>4. RInv BY <1>1, <1>2, <1>3 DEF RInv
<1>5. \A p \in Procs : Phase(tab[p]) = "idle" /\ Work(tab[p]) = {} BY <1>2, <1>3, Phases
<1>6. Sealed(header) /\ header.nbd = 0 BY DEF Init, Sealed, NoFile
<1>7. OnFile = Recorded(disk, header.nbd) BY <1>1, OnFileIs DEF SInv, IInv
<1>8. OnFile = {} BY <1>6, <1>7, NothingRecorded
<1> QED BY <1>4, <1>5, <1>6, <1>8 DEF Store!Init

LEMMA StepKeeps ==
  ASSUME Coordinated, RInv, FileIs, FileIs', [Next]_vars
  PROVE  RInv' /\ [Store!Next]_(Store!vars)
<1>1. SInv' BY StepSurvives DEF RInv
<1>2. CASE UNCHANGED vars
  <2>1. disk' = disk /\ header' = header /\ tab' = tab BY <1>2 DEF vars
  <2>2. RInv' BY <1>1, <2>1 DEF RInv
  <2>3. OnFile' = OnFile BY <2>1 DEF FileIs
  <2>4. UNCHANGED Store!vars BY <2>1, <2>3 DEF Store!vars
  <2> QED BY <2>2, <2>4
<1>3. ASSUME NEW p \in Procs, Step(p) PROVE RInv' /\ [Store!Next]_(Store!vars)
  BY <1>1, <1>3, CreateKeeps, OpenHeaderKeeps, OpenPageKeeps, XdfDelKeeps, XdfPutKeeps,
     PutDirFullKeeps, CloseReaderKeeps, CloseHeaderKeeps, CloseMarksKeeps, ClosePageKeeps,
     FinishedKeeps, Zenon
     DEF Step
<1> QED BY <1>2, <1>3 DEF Next

(***************************************************************************)
(* Where one application at a time writes, any number of applications that *)
(* open, read, change, checkpoint, close, or stop at any moment, each on a *)
(* file of any size, use it as RecordStore says.                           *)
(***************************************************************************)
THEOREM KeepsStore == ASSUME Coordinated PROVE Spec => StoreIsKept
<1>1. Init => RInv /\ Store!Init BY InitStore
<1>2. TypeInv => FileIs BY OnFileIs DEF FileIs
<1>3. RInv => TypeInv BY DEF RInv, SInv, IInv
<1>4. RInv /\ [Next]_vars => TypeInv'
  <2>1. ASSUME RInv, [Next]_vars PROVE SInv' BY <2>1, StepSurvives DEF RInv
  <2> QED BY <2>1 DEF SInv, IInv
<1>5. RInv /\ FileIs /\ FileIs' /\ [Next]_vars => RInv' /\ [Store!Next]_(Store!vars)
  BY StepKeeps
<1> QED BY <1>1, <1>2, <1>3, <1>4, <1>5, PTL DEF Spec, StoreIsKept, Store!Spec

=============================================================================
