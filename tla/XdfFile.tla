------------------------------ MODULE XdfFile ------------------------------
(***************************************************************************)
(* One random-access XDF file (xdf98.c) used by several applications.      *)
(*                                                                         *)
(* On disk: a header, a chain of directory pages, and records.  An         *)
(* application that opens the file copies the header and the pages into    *)
(* its file table entry; records are written to disk at once, the header   *)
(* and the modified pages only when the file is closed or checkpointed,    *)
(* one write after the other.  An application may stop between any two     *)
(* writes.                                                                 *)
(*                                                                         *)
(* Abstractions: addresses start after the header and count words; a       *)
(* directory page takes one word; a single write is atomic; a member of    *)
(* Keys stands for the six parameters that c_fstecr looks a record up by   *)
(* (etiket, ip1, ip2, ip3, typvar, nomvar), the other parameters are part  *)
(* of the data; statistics of the header (nrwr, nxtn, neff, nbig) and      *)
(* checksums are left out.                                                 *)
(***************************************************************************)
EXTENDS Integers, FiniteSets

CONSTANTS
  Procs,          \* applications, each with one file table entry for the file
  Writers,        \* those that may open it to write
  Keys,           \* what the primary keys of a record may be
  NoKey,          \* the zeroed keys of a free directory entry
  Lengths,        \* record lengths, in words
  EntriesPerPage, \* ENTRIES_PER_PAGE (256 in the code)
  MaxDirPages,    \* MAX_DIR_PAGES (1024)
  MaxAddr,        \* bound: the last word of the disk
  Coordinated     \* do the sites run at most one writing application at a time?

ASSUME XdfAssumption ==
  /\ Writers \subseteq Procs
  /\ Lengths \subseteq Nat \ {0}
  /\ EntriesPerPage \in Nat \ {0}
  /\ MaxDirPages \in Nat \ {0}
  /\ MaxAddr \in Nat \ {0}
  /\ NoKey \notin Keys
  /\ Coordinated \in BOOLEAN

VARIABLES
  header, \* the file header on disk, NoFile before the file is created
  disk,   \* disk[a]: what word a of the file holds
  size,   \* file_size: the last word ever written
  tab,    \* tab[p]: the file table entry of application p
  safe    \* history: the records of the last completed close or checkpoint
          \* that nobody has erased or moved since

vars == <<header, disk, size, tab, safe>>

Addr    == 1 .. MaxAddr
Slots   == 1 .. EntriesPerPage
PageNos == 1 .. MaxDirPages

(***************************************************************************)
(* Read/write flags of the header.                                         *)
(***************************************************************************)
RDMODE == "RDMODE"
CREATE == "CREATE"
RWMODE == "RWMODE"
APPEND == "APPEND"
RwFlags == {RDMODE, CREATE, RWMODE, APPEND}

Header == [rwflg: RwFlags \cup {"none"}, nbd: 0 .. MaxDirPages, nrec: Int, fsiz: 0 .. MaxAddr]
NoFile == [rwflg |-> "none", nbd |-> 0, nrec |-> 0, fsiz |-> 0]

(***************************************************************************)
(* Directory entries.  idtyp is 0 in a free entry, 1..125 in a live one,   *)
(* 254 in one erased since the last close and 255 in one whose erasure     *)
(* was written.                                                            *)
(***************************************************************************)
Entry == {e \in [id: {"free", "live", "erased", "dead"},
                  key: Keys \cup {NoKey}, addr: 0 .. MaxAddr, lng: {0} \cup Lengths] :
             e.addr + e.lng <= MaxAddr + 1}
FreeEntry == [id |-> "free", key |-> NoKey, addr |-> 0, lng |-> 0]
NoEntries == [s \in Slots |-> FreeEntry]

(***************************************************************************)
(* What a word of the disk may hold: nothing, a directory page, or word    *)
(* off of a record of length lng written with primary keys key; mark tells *)
(* whether the record header was overwritten with idtyp 255.               *)
(***************************************************************************)
Blank     == [kind |-> "blank"]
PageImage == [kind: {"page"}, nxt: 0 .. MaxAddr, nent: 0 .. EntriesPerPage,
              ent: [Slots -> Entry]]
EmptyPage == [kind |-> "page", nxt |-> 0, nent |-> 0, ent |-> NoEntries]
RecWord   == [kind: {"rec"}, key: Keys, lng: Lengths, off: 0 .. MaxAddr, mark: BOOLEAN]
Word      == {Blank} \cup PageImage \cup RecWord

(***************************************************************************)
(* File table entries.                                                     *)
(***************************************************************************)
MemPage == [addr: 0 .. MaxAddr + 1, nxt: 0 .. MaxAddr, nent: 0 .. EntriesPerPage,
            ent: [Slots -> Entry], modified: BOOLEAN]
NoMemPage == [addr |-> 0, nxt |-> 0, nent |-> 0, ent |-> NoEntries, modified |-> FALSE]

States == {"closed", "creating", "opening", "open", "failed", "closing", "marked"}

FileEntry ==
  [st: States,                    \* where the application is in its current call
   read_only: BOOLEAN,            \* attribute given to fnom
   hdr: Header,                   \* in-core header
   npages: 0 .. MaxDirPages, page: [PageNos -> MemPage],
   modified: BOOLEAN,
   fsize: 0 .. MaxAddr,           \* FGFDT[].file_size as read when the file was opened
   next: 0 .. MaxAddr,            \* c_xdfopn: address of the next page to read
   xdf_checkpoint: BOOLEAN]

Closed == [st |-> "closed", read_only |-> FALSE, hdr |-> NoFile, npages |-> 0,
           page |-> [i \in PageNos |-> NoMemPage], modified |-> FALSE,
           fsize |-> 0, next |-> 0, xdf_checkpoint |-> FALSE]

Image(m) == [kind |-> "page", nxt |-> m.nxt, nent |-> m.nent, ent |-> m.ent]

IsPage(a) == a \in Addr /\ disk[a].kind = "page"

(***************************************************************************)
(* May this application change the file?                                   *)
(***************************************************************************)
Writable(f) == f.hdr.rwflg # RDMODE /\ ~f.read_only
Writing(p)  == tab[p].st # "closed" /\ Writable(tab[p])
MayWrite(p) == p \in Writers /\ (Coordinated => \A q \in Procs \ {p} : ~Writing(q))

LastWord(a, n) == IF a + n - 1 > size THEN a + n - 1 ELSE size

Init ==
  /\ header = NoFile
  /\ disk = [a \in Addr |-> Blank]
  /\ size = 0
  /\ tab = [p \in Procs |-> Closed]
  /\ safe = {}

(***************************************************************************)
(* c_xdfopn, mode CREATE: the file does not exist.  The header is written  *)
(* first (create_new_xdf), with rwflg 0 and no directory page.             *)
(***************************************************************************)
CreateHeaderOver(p) ==  \* faulty variant: CREATE starts over an existing file
  LET new == [NoFile EXCEPT !.rwflg = RDMODE] IN
  /\ tab[p].st = "closed"
  /\ MayWrite(p)
  /\ header' = new
  /\ tab' = [tab EXCEPT ![p] = [Closed EXCEPT !.st = "creating", !.hdr = [new EXCEPT !.rwflg = CREATE]]]
  /\ UNCHANGED <<disk, size, safe>>

CreateHeader(p) ==
  LET new == [NoFile EXCEPT !.rwflg = RDMODE] IN
  /\ tab[p].st = "closed"
  /\ header = NoFile
  /\ MayWrite(p)
  /\ header' = new
  /\ tab' = [tab EXCEPT ![p] = [Closed EXCEPT !.st = "creating", !.hdr = [new EXCEPT !.rwflg = CREATE]]]
  /\ UNCHANGED <<disk, size, safe>>

(***************************************************************************)
(* add_dir_page in write mode: an empty page is appended to the file, the  *)
(* previous page and the header point to it in memory only.                *)
(***************************************************************************)
CanAddPage(f) == f.npages < MaxDirPages /\ f.hdr.fsiz < MaxAddr

NewPage(a)   == [NoMemPage EXCEPT !.addr = a, !.modified = TRUE]
LinkTo(m, a) == [m EXCEPT !.nxt = a, !.modified = TRUE]

WithNewPageUnlinked(f) ==  \* faulty variant: the previous page is not linked to it
  LET a == f.hdr.fsiz + 1 IN
  [f EXCEPT !.hdr = [f.hdr EXCEPT !.fsiz = a, !.nbd = @ + 1], !.npages = @ + 1,
            !.page = [@ EXCEPT ![f.npages + 1] = NewPage(a)]]

WithNewPage(f) ==
  LET a == f.hdr.fsiz + 1 IN
  [f EXCEPT !.hdr = [f.hdr EXCEPT !.fsiz = a, !.nbd = @ + 1], !.npages = @ + 1,
            !.page = [i \in PageNos |-> IF i = f.npages + 1 THEN NewPage(a)
                                       ELSE IF i = f.npages THEN LinkTo(f.page[i], a)
                                       ELSE f.page[i]]]

CreatePage(p) ==
  LET f == tab[p] IN
  /\ f.st = "creating"
  /\ CanAddPage(f)
  /\ disk' = [disk EXCEPT ![f.hdr.fsiz + 1] = EmptyPage]
  /\ size' = LastWord(f.hdr.fsiz + 1, 1)
  /\ tab' = [tab EXCEPT ![p] = [WithNewPage(f) EXCEPT !.st = "open", !.modified = TRUE]]
  /\ UNCHANGED <<header, safe>>

(***************************************************************************)
(* c_xdfopn on an existing file reads the header, then its nbd directory   *)
(* pages.  A mode that writes is refused (ERR_STILL_OPN ends the           *)
(* application) when the flag on disk is set; the flag it takes itself     *)
(* stays in memory.                                                        *)
(***************************************************************************)
OpenHeader(p, mode, ro) ==
  LET f == [Closed EXCEPT !.st = IF header.nbd = 0 THEN "failed" ELSE "opening",
                          !.read_only = ro, !.hdr = [header EXCEPT !.rwflg = mode],
                          !.fsize = size, !.next = 1]
  IN
  /\ tab[p].st = "closed"
  /\ header # NoFile
  /\ mode # RDMODE => header.rwflg = RDMODE
  /\ Writable(f) => MayWrite(p)
  /\ tab' = [tab EXCEPT ![p] = f]
  /\ UNCHANGED <<header, disk, size, safe>>

(***************************************************************************)
(* The next page.  W64TOWD(nxt_addr - 1) + 1 is not 0 but -1 at the end of *)
(* the chain: a page that is missing is "read" beyond the end of the file, *)
(* which leaves it as add_dir_page made it, empty.                         *)
(***************************************************************************)
PageRead(f) == IF IsPage(f.next) THEN disk[f.next] ELSE EmptyPage

OpenPage(p) ==
  LET f == tab[p]
      n == f.npages + 1
      img == PageRead(f)
      m == [addr |-> IF IsPage(f.next) THEN f.next ELSE f.hdr.fsiz + 1,
            nxt |-> img.nxt, nent |-> img.nent, ent |-> img.ent, modified |-> FALSE]
  IN
  /\ f.st = "opening"
  /\ tab' = [tab EXCEPT ![p] = [f EXCEPT !.page[n] = m, !.npages = n, !.next = img.nxt,
                                          !.st = IF img.nxt > f.fsize THEN "failed"
                                                 ELSE IF n = f.hdr.nbd THEN "open" ELSE "opening"]]
  /\ UNCHANGED <<header, disk, size, safe>>

(***************************************************************************)
(* Handles are pairs of a page number and a slot; NoHandle asks for a new  *)
(* record.  LiveHandles are those next_match would stop at.                *)
(***************************************************************************)
NoHandle == <<0, 0>>
LiveHandles(f) ==
  {h \in PageNos \X Slots : /\ h[1] <= f.npages
                            /\ h[2] <= f.page[h[1]].nent
                            /\ f.page[h[1]].ent[h[2]].id = "live"}
EntryAt(f, h) == f.page[h[1]].ent[h[2]]
RecordOf(e)   == [key |-> e.key, addr |-> e.addr, lng |-> e.lng]
Record == [key: Keys \cup {NoKey}, addr: 0 .. MaxAddr, lng: {0} \cup Lengths]
LiveRecords(f) == {RecordOf(EntryAt(f, h)) : h \in LiveHandles(f)}

Before(g, h) == g[1] < h[1] \/ (g[1] = h[1] /\ g[2] < h[2])

(***************************************************************************)
(* c_xdfdel: the entry is marked in memory only.                           *)
(***************************************************************************)
EraseEntry(m, s) == [m EXCEPT !.ent[s].id = "erased", !.modified = TRUE]

Erase(f, h) ==
  [f EXCEPT !.page[h[1]] = EraseEntry(@, h[2]),
            !.hdr = [f.hdr EXCEPT !.nrec = @ - 1], !.modified = TRUE]

XdfDel(p, h) ==
  LET f == tab[p] IN
  /\ f.st = "open"
  /\ f.hdr.rwflg \notin {RDMODE, APPEND}
  /\ ~f.read_only
  /\ h \in LiveHandles(f)
  /\ tab' = [tab EXCEPT ![p] = Erase(f, h)]
  /\ safe' = safe \ {RecordOf(EntryAt(f, h))}
  /\ UNCHANGED <<header, disk, size>>

(***************************************************************************)
(* c_xdfput, common part: the words of a record written at address a.      *)
(***************************************************************************)
WithRecord(d, a, k, l) ==
  [x \in Addr |-> IF x \in a .. a + l - 1
                  THEN [kind |-> "rec", key |-> k, lng |-> l, off |-> x - a, mark |-> FALSE]
                  ELSE d[x]]

LastPageFullLate(f) ==  \* faulty variant: one entry more than there is room for
  f.page[f.npages].nent > EntriesPerPage

LastPageFull(f) == f.page[f.npages].nent >= EntriesPerPage

(***************************************************************************)
(* The record goes to the end of the file: it takes the next entry of the  *)
(* last page, or the first of a new page, and the old record, if any, is   *)
(* erased.                                                                 *)
(***************************************************************************)
AddEntryReusing(m, e) ==  \* faulty variant: an erased slot is used again
  LET gone == {t \in 1 .. m.nent : m.ent[t].id = "dead"}
      s == IF gone = {} THEN m.nent + 1 ELSE CHOOSE t \in gone : TRUE
  IN [m EXCEPT !.ent[s] = e, !.nent = IF gone = {} THEN s ELSE @, !.modified = TRUE]

AddEntry(m, e) == [m EXCEPT !.ent[m.nent + 1] = e, !.nent = @ + 1, !.modified = TRUE]

Appended(f, k, l) ==
  LET a == f.hdr.fsiz + 1
      e == [id |-> "live", key |-> k, addr |-> a, lng |-> l]
  IN [f EXCEPT !.page[f.npages] = AddEntry(@, e),
               !.hdr = [f.hdr EXCEPT !.fsiz = @ + l, !.nrec = @ + 1], !.modified = TRUE]

PutAtEnd(p, h, k, l) ==
  LET f == tab[p]
      g == IF LastPageFull(f) THEN WithNewPage(f) ELSE f
      d == IF LastPageFull(f) THEN [disk EXCEPT ![g.hdr.fsiz] = EmptyPage] ELSE disk
      w == Appended(g, k, l)
  IN
  /\ LastPageFull(f) => CanAddPage(f)
  /\ g.hdr.fsiz + l <= MaxAddr
  /\ disk' = WithRecord(d, g.hdr.fsiz + 1, k, l)
  /\ size' = LastWord(g.hdr.fsiz + 1, l)
  /\ tab' = [tab EXCEPT ![p] = IF h = NoHandle THEN w ELSE Erase(w, h)]
  /\ safe' = IF h = NoHandle THEN safe ELSE safe \ {RecordOf(EntryAt(f, h))}
  /\ UNCHANGED header

(***************************************************************************)
(* The record replaces one of the same length where it is: the disk is     *)
(* written now, the directory, which keeps address and length, at close.   *)
(***************************************************************************)
Rekey(m, s, k) == [m EXCEPT !.ent[s].key = k, !.modified = TRUE]

PutInPlace(p, h, k, l) ==
  LET f == tab[p]
      e == EntryAt(f, h)
  IN
  /\ disk' = WithRecord(disk, e.addr, k, l)
  /\ size' = LastWord(e.addr, l)
  /\ tab' = [tab EXCEPT ![p] = [f EXCEPT !.page[h[1]] = Rekey(@, h[2], k), !.modified = TRUE]]
  /\ UNCHANGED <<header, safe>>

XdfPutIfItFits(p, h, k, l, write_to_end) ==  \* faulty variant: in place when shorter too
  LET f == tab[p] IN
  /\ f.st = "open"
  /\ Writable(f)
  /\ h # NoHandle => f.hdr.rwflg # APPEND
  /\ IF h = NoHandle \/ write_to_end \/ EntryAt(f, h).lng < l
     THEN PutAtEnd(p, h, k, l)
     ELSE PutInPlace(p, h, k, l)

XdfPutAlwaysInPlace(p, h, k, l, write_to_end) ==  \* faulty variant: never moves a record of that length
  LET f == tab[p] IN
  /\ f.st = "open"
  /\ Writable(f)
  /\ h # NoHandle => f.hdr.rwflg # APPEND
  /\ IF h = NoHandle \/ EntryAt(f, h).lng # l
     THEN PutAtEnd(p, h, k, l)
     ELSE PutInPlace(p, h, k, l)

XdfPut(p, h, k, l, write_to_end) ==
  LET f == tab[p] IN
  /\ f.st = "open"
  /\ Writable(f)
  /\ h # NoHandle => f.hdr.rwflg # APPEND
  /\ IF h = NoHandle \/ write_to_end \/ EntryAt(f, h).lng # l
     THEN PutAtEnd(p, h, k, l)
     ELSE PutInPlace(p, h, k, l)

(***************************************************************************)
(* The directory is full: add_dir_page fails after the last page was       *)
(* flagged and before anything else was changed.                           *)
(***************************************************************************)
Flagged(m, b) == [m EXCEPT !.modified = b]

PutDirFull(p) ==
  LET f == tab[p] IN
  /\ f.st = "open"
  /\ Writable(f)
  /\ LastPageFull(f)
  /\ f.npages >= MaxDirPages
  /\ tab' = [tab EXCEPT ![p] = [f EXCEPT !.page[f.npages] = Flagged(@, TRUE)]]
  /\ UNCHANGED <<header, disk, size, safe>>

(***************************************************************************)
(* c_fstecr: a new record, or (rewrit) the first live record with the same *)
(* keys is rewritten (no desire or exclude request hides it, file_filter); *)
(* c_mrfput: a report is always written at the end, and may replace any    *)
(* record.                                                                 *)
(***************************************************************************)
FirstMatch(f, k) ==
  LET match == {h \in LiveHandles(f) : EntryAt(f, h).key = k}
  IN IF match = {} THEN {NoHandle}
     ELSE {h \in match : \A g \in match \ {h} : Before(h, g)}

FstEcr(p, k, l, rewrit) ==
  \E h \in IF rewrit THEN FirstMatch(tab[p], k) ELSE {NoHandle} :
    XdfPut(p, h, k, l, FALSE)

MrfPut(p, h, k, l) ==
  /\ h \in LiveHandles(tab[p])
  /\ XdfPut(p, h, k, l, TRUE)

(***************************************************************************)
(* c_xdfcls, called by c_fstfrm, and by c_fstckp with xdf_checkpoint set.  *)
(* A file that was not opened to write is just forgotten.                  *)
(***************************************************************************)
CloseReader(p) ==
  /\ tab[p].st \in {"open", "failed"}
  /\ ~Writable(tab[p])
  /\ tab' = [tab EXCEPT ![p] = Closed]
  /\ UNCHANGED <<header, disk, size, safe>>

(***************************************************************************)
(* First the header, with the flag of this application in it.  (Nobody     *)
(* checkpoints a file that could not be opened.)                           *)
(***************************************************************************)
CloseHeaderSealed(p, checkpoint) ==  \* faulty variant: the header is sealed at once
  LET f == tab[p] IN
  /\ f.st = "open" \/ (f.st = "failed" /\ ~checkpoint)
  /\ Writable(f)
  /\ header' = [f.hdr EXCEPT !.rwflg = RDMODE]
  /\ tab' = [tab EXCEPT ![p] = [f EXCEPT !.st = "closing", !.xdf_checkpoint = checkpoint]]
  /\ UNCHANGED <<disk, size, safe>>

CloseHeader(p, checkpoint) ==
  LET f == tab[p] IN
  /\ f.st = "open" \/ (f.st = "failed" /\ ~checkpoint)
  /\ Writable(f)
  /\ header' = f.hdr
  /\ tab' = [tab EXCEPT ![p] = [f EXCEPT !.st = "closing", !.xdf_checkpoint = checkpoint]]
  /\ UNCHANGED <<disk, size, safe>>

(***************************************************************************)
(* Then every modified page, in order: the headers of the erased records   *)
(* are overwritten, then the page is rewritten.                            *)
(***************************************************************************)
PagesToWrite(f)   == {i \in 1 .. f.hdr.nbd : f.modified /\ f.page[i].modified}
NextToWrite(f, i) == i \in PagesToWrite(f) /\ \A j \in PagesToWrite(f) : i <= j

Deaden(m) ==
  [m EXCEPT !.ent = [s \in Slots |-> IF s <= m.nent /\ m.ent[s].id = "erased"
                                     THEN [m.ent[s] EXCEPT !.id = "dead"] ELSE m.ent[s]]]

CloseMarks(p, i) ==
  LET f == tab[p]
      m == f.page[i]
      marked == {m.ent[s].addr : s \in {t \in 1 .. m.nent : m.ent[t].id = "erased"}}
  IN
  /\ f.st = "closing"
  /\ NextToWrite(f, i)
  /\ disk' = [a \in Addr |-> IF a \in marked /\ disk[a].kind = "rec"
                             THEN [disk[a] EXCEPT !.mark = TRUE] ELSE disk[a]]
  /\ tab' = [tab EXCEPT ![p] = [f EXCEPT !.st = "marked", !.page[i] = Deaden(m)]]
  /\ UNCHANGED <<header, size, safe>>

ClosePage(p, i) ==
  LET f == tab[p]
      m == f.page[i]
  IN
  /\ f.st = "marked"
  /\ NextToWrite(f, i)
  /\ m.addr \in Addr
  /\ disk' = [disk EXCEPT ![m.addr] = Image(m)]
  /\ size' = LastWord(m.addr, 1)
  /\ tab' = [tab EXCEPT ![p] = [f EXCEPT !.st = "closing", !.page[i] = Flagged(@, FALSE)]]
  /\ UNCHANGED <<header, safe>>

(***************************************************************************)
(* The file stays open after a checkpoint, its flag set on disk; at close  *)
(* the header is written again with the flag reset.                        *)
(***************************************************************************)
Checkpointed(p) ==
  LET f == tab[p] IN
  /\ f.st = "closing"
  /\ f.xdf_checkpoint
  /\ PagesToWrite(f) = {}
  /\ tab' = [tab EXCEPT ![p] = [f EXCEPT !.st = "open", !.modified = FALSE, !.xdf_checkpoint = FALSE]]
  /\ safe' = LiveRecords(f)
  /\ UNCHANGED <<header, disk, size>>

CloseSeal(p) ==
  LET f == tab[p] IN
  /\ f.st = "closing"
  /\ ~f.xdf_checkpoint
  /\ PagesToWrite(f) = {}
  /\ header' = [f.hdr EXCEPT !.rwflg = RDMODE]
  /\ tab' = [tab EXCEPT ![p] = Closed]
  /\ safe' = LiveRecords(f)
  /\ UNCHANGED <<disk, size>>

(***************************************************************************)
(* The application ends without closing the file: killed, stopped by a     *)
(* fatal error, or it just never called c_fstfrm.                          *)
(***************************************************************************)
Crash(p) ==
  /\ tab[p].st # "closed"
  /\ tab' = [tab EXCEPT ![p] = Closed]
  /\ UNCHANGED <<header, disk, size, safe>>

Step(p) ==
  \/ CreateHeader(p)
  \/ CreatePage(p)
  \/ \E mode \in {RDMODE, RWMODE, APPEND}, ro \in BOOLEAN : OpenHeader(p, mode, ro)
  \/ OpenPage(p)
  \/ \E h \in LiveHandles(tab[p]) : XdfDel(p, h)
  \/ \E k \in Keys, l \in Lengths, rewrit \in BOOLEAN : FstEcr(p, k, l, rewrit)
  \/ \E h \in LiveHandles(tab[p]), k \in Keys, l \in Lengths : MrfPut(p, h, k, l)
  \/ PutDirFull(p)
  \/ CloseReader(p)
  \/ \E checkpoint \in BOOLEAN : CloseHeader(p, checkpoint)
  \/ \E i \in PageNos : CloseMarks(p, i) \/ ClosePage(p, i)
  \/ Checkpointed(p)
  \/ CloseSeal(p)
  \/ Crash(p)

Next == \E p \in Procs : Step(p)

Spec == Init /\ [][Next]_vars

(***************************************************************************)
(* Properties.                                                             *)
(***************************************************************************)
TypeOK ==
  /\ header \in Header
  /\ disk \in [Addr -> Word]
  /\ size \in 0 .. MaxAddr
  /\ tab \in [Procs -> FileEntry]
  /\ safe \subseteq Record

(***************************************************************************)
(* The directory on disk: page i of the chain that starts right after the  *)
(* header.                                                                 *)
(***************************************************************************)
Chain ==
  LET at[i \in PageNos] ==
        IF i = 1 THEN 1
        ELSE IF IsPage(at[i - 1]) THEN disk[at[i - 1]].nxt ELSE 0
  IN at

Whole(e) ==
  \A j \in 0 .. e.lng - 1 :
    LET a == e.addr + j IN
    /\ a \in Addr
    /\ disk[a].kind = "rec"
    /\ disk[a].key = e.key /\ disk[a].lng = e.lng /\ disk[a].off = j

UsedEntries(pg) == {pg.ent[s] : s \in 1 .. pg.nent}

(***************************************************************************)
(* Whatever entry an application holds in memory, and whatever entry is in *)
(* a directory page on disk, its record is on disk, whole and with the     *)
(* keys of the entry: put writes the record before the directory can name  *)
(* it, and no later write reuses its words.  Readers that open the file    *)
(* while it is being closed, and what is left by a crash, included.        *)
(***************************************************************************)
EntriesDesignateRecords ==
  /\ \A p \in Procs : \A i \in 1 .. tab[p].npages :
       \A e \in UsedEntries(tab[p].page[i]) : Whole(e)
  /\ \A a \in Addr : disk[a].kind = "page" =>
       \A e \in UsedEntries(disk[a]) : Whole(e)

(***************************************************************************)
(* A header on disk whose flag says that no application is writing comes   *)
(* with a complete directory: its nbd pages are chained, they hold nrec    *)
(* live entries, and everything lies within fsiz, so that an application   *)
(* may open the file and append to it.                                     *)
(***************************************************************************)
LiveOnDisk == {as \in {Chain[i] : i \in 1 .. header.nbd} \X Slots :
                 /\ IsPage(as[1])
                 /\ as[2] <= disk[as[1]].nent
                 /\ disk[as[1]].ent[as[2]].id = "live"}

CleanFileIsComplete ==
  header.rwflg = RDMODE =>
    /\ \A i \in 1 .. header.nbd :
         /\ IsPage(Chain[i]) /\ Chain[i] <= header.fsiz
         /\ \A e \in UsedEntries(disk[Chain[i]]) :
              e.addr + e.lng - 1 <= header.fsiz /\ e.id # "erased"
    /\ header.nbd > 0 => disk[Chain[header.nbd]].nxt = 0
    /\ header.nrec = Cardinality(LiveOnDisk)

(***************************************************************************)
(* A record that was there when a close or checkpoint completed, and that  *)
(* was not erased or moved since, is found by anybody who follows the      *)
(* directory on disk, whatever the applications that wrote since were      *)
(* doing when they stopped.                                                *)
(***************************************************************************)
CommittedRecordsSurvive ==
  \A r \in safe :
    \E as \in LiveOnDisk :
      LET e == disk[as[1]].ent[as[2]] IN RecordOf(e) = r /\ Whole(e)

(***************************************************************************)
(* A slot of a directory page on disk keeps designating the same record,   *)
(* so that handles stay valid from one open to the next, and an erasure    *)
(* that reached the disk is never undone.                                  *)
(***************************************************************************)
SlotKeepsItsRecord ==
  \A a \in Addr : disk[a].kind = "page" =>
    \A s \in 1 .. disk[a].nent :
      /\ disk'[a].kind = "page"
      /\ s <= disk'[a].nent
      /\ RecordOf(disk'[a].ent[s]) = RecordOf(disk[a].ent[s])
      /\ disk[a].ent[s].id = "dead" => disk'[a].ent[s].id = "dead"

SlotsAreStable == [][SlotKeepsItsRecord]_vars

(***************************************************************************)
(* The directory an application holds: as many pages as its header says,   *)
(* each linked to the next.                                                *)
(***************************************************************************)
Linked(f) ==
  /\ f.npages = f.hdr.nbd
  /\ \A i \in 1 .. f.npages - 1 : f.page[i].nxt = f.page[i + 1].addr

(***************************************************************************)
(* In-core bookkeeping of an application that writes: its directory is     *)
(* complete, nrec counts its live entries, and the words of pages and      *)
(* records are disjoint and lie within fsiz.                               *)
(***************************************************************************)
EntryWords(e)  == e.addr .. e.addr + e.lng - 1
UsedHandles(f) == {h \in PageNos \X Slots : h[1] <= f.npages /\ h[2] <= f.page[h[1]].nent}

WriterAccountsForEveryWord ==
  \A p \in Procs : LET f == tab[p] IN
    f.st \in {"open", "closing", "marked"} /\ Writable(f) =>
      /\ Linked(f)
      /\ f.hdr.nrec = Cardinality(LiveHandles(f))
      /\ \A g, h \in UsedHandles(f) :
           g # h => EntryWords(EntryAt(f, g)) \cap EntryWords(EntryAt(f, h)) = {}
      /\ \A h \in UsedHandles(f) :
           /\ EntryWords(EntryAt(f, h)) \subseteq 1 .. f.hdr.fsiz
           /\ \A i \in 1 .. f.npages : f.page[i].addr \notin EntryWords(EntryAt(f, h))

(***************************************************************************)
(* "file currently used by another application in write mode" (c_xdfopn,   *)
(* ERR_STILL_OPN): two applications never have the file open to write.     *)
(***************************************************************************)
WriterExclusion ==
  \A p, q \in Procs :
    tab[p].st = "open" /\ Writing(p) /\ tab[q].st = "open" /\ Writing(q) => p = q

(***************************************************************************)
(* "number of directory pages is incorrect" (c_xdfopn, ERR_BAD_DIR): an    *)
(* application that was given the file holds all the pages its header      *)
(* counts.                                                                 *)
(***************************************************************************)
OpenedDirectoryIsComplete ==
  \A p \in Procs : tab[p].st = "open" => Linked(tab[p])

=============================================================================
