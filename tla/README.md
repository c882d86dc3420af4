# Verification of xoas: files, memory and threads of librmn

This directory holds TLA+ modules that model parts of this repository, the TLC
configurations that check them, and theorems about them whose proofs TLAPS
checks. Six parts are modelled: random-access files (`XdfFile`, which implements
`RecordStore`), searching them (`XdfSearch`), word addressable files (`WordFile`,
which implements `WordArray`), the virtual memory manager (`Vmm`), the twin
buffered file (`TwinBuffer`, which implements `WordStream`), locks and events for
threads (`ThreadEvents`, which implements `EventCalls`). The plan at the end says
what is left.

Paths below are relative to `src/sources/src/`.

## 1. The system

The repository is *librmn*, the library with which weather applications read
and write meteorological records, and *xrec*, a viewer built on it.

| Component | State it keeps | Operations | How it interacts |
|---|---|---|---|
| XDF random files, `rmn/fstd98/xdf98.c` | per open file a `file_table_entry`: in-core header, directory pages with `modified` flags, next write address; on disk the header, a chain of directory pages, records | `c_xdfopn`, `c_xdfput`, `c_xdfdel`, `c_xdfcls`, `c_xdfloc2`, `c_xdflnk`, ... | called by the two record layers, calls the word addressable layer; several applications share a file |
| Standard files, `rmn/fstd98/fstd98.c` | nothing on disk of its own | `c_fstouv`, `c_fstecr`, `c_fsteff`, `c_fstfrm`, `c_fstckp`, `c_fstinf`, `c_fstlir`, `c_fst_edit_dir_plus` | XDF; filters |
| BURP files, `rmn/fstd98/burp98.c`, `c_burp.c` | report buffers | `c_mrfput`, `c_mrfget`, `c_mrfdel`, block editing | XDF |
| Record filters, `rmn/fstd98/excdes_new.c` | table of requests | desire, exclude, match | called back by `next_match` |
| Word addressable files, `rmn/primitives/c_baseio.c` | `FGFDT`: file descriptors, sizes, attributes | `c_fnom`, `c_waopen2`, `c_waread2`, `c_wawrit2` | system calls, remote file server |
| Virtual memory manager, `rmn/primitives/vmm.c` | tables of names, slices and memory blocks, free list, control file | `vmmallc2`, `vmmcre`, `vmmlod`, `vmmget`, `vmmlck`, `vmmuld`, `vmmulk`, `vmmsav`, `vmmfgt`, `vmmckmx`, ... | word addressable files |
| Twin buffers, `rmn/twinbuffer/I_O_2Buffer.c` | an input and an output buffer over one file | open, read, write, rewind, close | file descriptors |
| Gossip clients, `rmn/primitives/gossip_thread.c` | table of client slots, counters | start and end of a client thread | threads, one mutex |
| Gossip sockets, `rmn/primitives/gossip_sock.c`; MGI channels, `mgilib2.c` | sockets, time-outs, channel table | connect, send, receive, `mgi_init`, `mgi_open`, `mgi_read`, `mgi_write` | a server process |
| Locks and events, `rmn/primitives/f90_threads.c` | mutex, condition, value | create, post, check, wait, destroy, create and join threads | threads |
| White board, `rmn/template_utils/whiteboard` | pages of named variables | put, get, checkpoint, reload | Fortran callers |
| `dmms.c`, `gmm`, `bmf`, `readlx`, `cmc_log` | tables of one thread | allocation, fields, directives, text | |
| Packers, interpolators, spectral and date code | none | numeric functions | |
| xrec: `fldmgr.c`, `rec`, `rec_util`, graphics | fields in memory, X11 windows | interactive | standard files |
| Vendored: `xrec/png`, `xrec/gd2`, `archdep` | | | |

### What is hard in it, and what would make it correct

* **XDF**. Records go to disk at once, the directory at close, one page after
  the other, and nothing is locked: what matters is the order of the writes, what
  a crash leaves, and what somebody who opens the file meanwhile holds.
  Correct means: an entry never designates anything but a whole record; a file
  that is not marked as being written is complete; what was committed stays
  readable; a handle keeps its record.
* **Search cursor** (`c_xdfloc2`, `next_match`). One cursor per file is shared by
  searches and by writes, and by linked files. Correct means: a search visits
  each matching live record once, whatever is written between two calls.
* **vmm**. A long sequence of calls moves blocks, splits them and rethreads the
  free list. Correct means: blocks tile memory, the free list threads exactly
  the free ones, locked fields do not move, the content comes back after an
  ejection.
* **Word addressable files**. Pages of several files share one pool; pages are read
  or not before they are written to, and reach the disk in any order. Correct
  means: a file is an array of words, whatever pages are in memory, and a program
  that stops loses nothing but what it wrote.
* **Twin buffers**. Unread words are never overwritten; what was written is
  read again.
* **Gossip clients, events, MGI**. Slots and identifiers are not shared by two
  clients; a waiter is woken; time-outs are reported for the right channel.

`PROJECT.json` lists every component with its status, and under `hazards` each
place where the code could go wrong in a way a test would hardly reach.

## 2. What is modelled now

### `XdfFile`: one random file, several applications

| Variable | In the code |
|---|---|
| `header` | the `file_header` on disk, reduced to `rwflg`, `nbd`, `nrec`, `fsiz` |
| `disk` | the words of the file after the header: directory pages and words of records |
| `size` | the last word written, `FGFDT[].file_size` |
| `tab[p]` | the `file_table_entry` of application `p`: in-core header, pages with their `modified` flags, `modified`, the `read_only` attribute, and `st`, the place `p` has reached in a call that takes several disk accesses |
| `safe` | history: the records of the last completed close or checkpoint that nobody erased or moved since |

| Action | Code |
|---|---|
| `CreateHeader`, `CreatePage` | `c_xdfopn` in mode CREATE: `create_new_xdf` writes the header with `nbd = 0`, then `add_dir_page` writes the first page |
| `OpenHeader`, `OpenPage` | `c_xdfopn` on an existing file: header, `rwflg` tests, then one page at a time, each address taken from the page before; also for pages that are not there |
| `XdfDel` | `c_xdfdel` (`c_fsteff`): idtyp 254 in memory |
| `FstEcr`, `MrfPut` over `XdfPut` | `c_fstecr` and `c_mrfput` over `c_xdfput`: append (with a new page when the last one is full), rewrite in place when the length is the same, rewrite at the end otherwise |
| `PutDirFull` | `c_xdfput` when `add_dir_page` refuses: the last page stays flagged |
| `CloseReader` | `c_xdfcls` of a file not open to write |
| `CloseHeader`, `CloseMarks`, `ClosePage`, `CloseSeal` | `c_xdfcls`: header; for each modified page the marks in the erased records, then the page; the header again with `rwflg` 0 |
| `Checkpointed` | `c_fstckp`: the same without the last write, the file stays open with its flag set on disk |
| `Crash` | the application ends anywhere: killed, stopped by `error_msg`, or it just never closes |

A call that touches the disk once is one action. The calls that touch it several
times, open and close, are one action per disk access, because that is where
other applications and crashes interfere. `c_xdfput` with a new page writes the
empty page and the record: these are one action, since nothing on disk
leads to the new page before the close (`add_dir_page` links it in memory), and a
crash between the two leaves the same file as a crash before both, but for an
unreachable page in words beyond `fsiz`, which the next writer overwrites.

Abstractions, named in the module's header: a page takes one word and a record
one or two; a member of `Keys` stands for the parameters by which `c_fstecr`
looks a record up (etiket, ip1, ip2, ip3, typvar, nomvar) and the rest of a
record belongs to its data; statistics and checksums are left out (a checksum
that is wrong is reported and ignored by `c_xdfopn`). In mode WRITE the code sets
a third flag value that no other test tells from R-W, so one mode stands for both.
A header with `nbd = 0` makes the open fail, as it does for a standard random
file.

`Coordinated` says whether the sites that use the file run at most one
*writing* application at a time. The library does not enforce it, the finding
below shows, yet its other promises depend on it. Readers are never restricted.

`MCXdfFile` gives TLC the symmetry sets. In all modules, operators whose comment
begins with *faulty variant*, or that stand before the operator they are a
variant of (`ExtentOfOneSlice` before `Extent`), take no part in the
specification: each is the definition next to it with a plausible slip in it,
kept to show that a property would notice.

### `RecordStore`, which `XdfFile` implements on a coordinated site

`RecordStore` has no pages, links or headers: a file is a set of records, a
session begins with that set, changes its own copy one record at a time
(`Change`), and publishes it at a close or checkpoint (`Commit`, any number of
`Publish`, then `Checkpoint` or `Close`). `sealed` says that the file is as a
session left it. What a publication may do on its way is the point: add records of
the session, drop records the session erased, in any order, but never lose one
that both sets have; and a session only begins on a sealed file.

`XdfStore` states the refinement. A record comes with its handle, the address of
its directory page and its slot, so that a record that changes place is another
one. The file is what the directory on disk names (`OnFile`), the session what the
directory in the memory of the writer names (`InMemory`), and the file is sealed when
the flag in the header is down. `OpenHeader` and `OpenPage` are stutters but for the
last page, which is `Begin`; `CloseHeader` is `Commit`, `ClosePage` is `Publish`.

### `XdfSearch`: the position of a search, linked files, writes in between

| Variable | In the code |
|---|---|
| `dir` | the directory pages of each open file, in memory: for each entry its keys, `Gone` (idtyp 254) or `Blank` (counted, never filled); at the start those the files were opened with (`Opened`) |
| `link`, `after` | `f->link`, and the `next_page` of the last page of each file |
| `cur` | `cur_dir_page`, `cur_pageno`, the entry pointer `cur_entry`, `page_record`, and the target of the search, of file 1 |
| `last` | history: what the last call returned and what it should have |
| `stand` | history: the record last found, as long as the position of the search is still there |
| `owed` | history: what a search of the whole chain has still to find |

| Action | Code |
|---|---|
| `LocateFirst`, `LocateBehind`, `LocateNext` | `c_xdfloc2` with handle 0, a record, -1; all end in `next_match` (`NextMatch`) |
| `PutNew`, `PutElsewhere`, `PutOver` | `c_xdfput` at the end of file 1, at the end of another file, over the record of a handle: in place, or a new entry and `c_xdfdel` |
| `Del` | `c_xdfdel` |
| `Lnk`, `Unl` | `c_xdflnk`, `c_xdfunl` |

Four fields say where a search is, and each call sets some of them: that is what
the module is about. A position of no sense is found by `next_match` by two
comparisons only (`InvalidPosition`). The walk of `c_xdfloc2` to a page that lies
`d` pages behind file 1 makes `d \div 2 + 1` moves, since the bound it counts to
shrinks as it goes (`Moves`). A linked page that is the current one is looked for in the table
of file 1 (`LinkedAndCurrent`, xdf98.c:1838). The table has NULL for it, an address is computed from
that and not used, and `next_match` refuses the position with `ERR_NO_POS`; the program goes on, with the
position it was left (`misled`). Only a page number beyond the table, `MaxDirPages`, reads something else:
the outcome is then `Undefined`, and nothing is said of what comes after.

A *place* is a page number and a record number. A *handle* is a place whose page number was
cut to 12 bits (`HandleOf`, `HandlePages`; the macros at qstdir.h:197-206, those under
`MOREFILES`), while pages of linked files are numbered on without end: in a chain of more than 4096
pages two records have the same handle. `PageOf` is what the code finds for a handle, the first
of them. The history (`last.at`, `stand`, `owed`) is in places, what the code returns
and takes are handles. Records have no data here, and files no disk: `XdfFile` has these.
A key stands for all a search compares, the filter of desire and exclude requests
included.

### `WordFile`, which implements `WordArray`

| Variable | In the code |
|---|---|
| `disk` | the words of each file that the system has |
| `config` | `WA_PAGE_SIZE`, `WA_PAGE_NB`, `WA_PAGE_LIMIT`: what `WA_CONFIG` says, 0 for no pages |
| `opened`, `size` | `FGFDT[].open_flag`, `FGFDT[].file_size` |
| `page` | `wafile[].page[]`: for each page its words, `walast`, `touch_flag` |
| `call` | the call in course and the pieces that are left of it |
| `fresh`, `got` | history: the addresses written since the file was opened; the last answer |

| Action | Code |
|---|---|
| `Open` | `c_waopen2` over `qqcopen` |
| `StartWrite`, `DirectWrite`, `WaPageWrite` | `c_wawrit2`: the gap behind the end of the file is filled first, then `qqcwawr` cuts the request where pages end; each piece goes to disk, or to a page by `wa_page_write` |
| `StartRead`, `DirectRead`, `WaPageRead` | `c_waread2` and `qqcward`, in the same way |
| `StartClose`, `FlushPage`, `EndClose` | `c_waclos2`: `wa_pages_flush` scraps the pages one by one |
| `Stop` | the program ends anywhere, and another starts, perhaps with another `WA_CONFIG` |

`GetNewPage` is `get_new_page` with `scrap_page`: a file with `WA_PAGE_NB` pages
gives up one of its own, a full pool one of any file. The code takes the page that was
used least; the counts it compares are left out, and any page of those
compared may go. Reads and writes of the system are whole. `AllAlike` says of a site
that its programs all use pages or all use none: `WA_CONFIG` is a variable of the
environment, which nothing in the code ties to the files. The files are there
from the start with any even number of words, all `Zero`.

`WordArray` has neither pages nor pieces. A write takes effect as a whole when it
starts, a read when it ends; a program that stops leaves each file with all it did
not write since it opened it, and with any part of what it wrote; a file that
was closed is as it was left.

### `Vmm`: the virtual memory manager

| Variable | In the code |
|---|---|
| `blocks` | `BLOCKS[0..nbblocks-1]`: slice, address, size, `prev_fb`, `next_fb`, file address, keep, locked, altered and was-altered flags |
| `slices` | the part of `SLICES[]` that is in memory: block number and flags, is there an image on disk? |
| `first_free_bloc`, `champs_bloques` | the same |
| `base`, `wp` | `NAMES[].base_file_adr`; the first word of the data file after those reserved, also kept in word 1 of the file |
| `file`, `ctl` | the data file: whose words these are; the control file |
| `due` | history: slices whose last written content the caller counts on |

Every call is one action: `Lod` (`vmmlod`), `Get`, `Lck`, `Ulk`, `UlkAll`, `Uld`,
`UldAll`, `Uln`, `Rls`, `Fgt`, `Sav`, `SavAll`, `Pak`, `Cpk`, `Ckmx`; `Write` is the
caller, who writes at the address it was given; `Restart` is the end of the
program, anywhere, and a `vmmallc` of the next one. What the code does inside a call is a
function of a record of the tables (`Tables`): `CollapseBlocks`, `SwapBlocks`,
`Pack`, `ListFree`, `EjectBlock`, `TrouveBestFit`, `TrouveBestSegment`, `Split`,
`Unlist`, `Place`, `Qvmlod`, ... one per function of `vmm.c` or loop of it. A loop is
`Repeat` of its turn (`PackTurn`, `FitTurn`, `PlaceTurn`, ...), as many times as it can
go round at most; turns that come after the code has left the loop change nothing.
`MaxFile` bounds the data file: a call that would make it longer is not made.

The content of a field is one bit: is it what the caller last wrote? A `memcpy`
between ranges that overlap, undefined in C, copies well or damages the block
(`intact`). No variable of the instances has SIZE=8 and none of their moves
overlaps (`CopiesApart` in section 4), so both outcomes are the same there; with either, `WhatWasWrittenIsKept` fails by that copy.
`vmmcpk` stops the program when a field has to be kept: the guard of `Cpk`, next to
`Restart`. `vmmfgt` of a field that is in memory leaves its block out of use and out of
the free list; the instances call it for other fields (`ForgetInCore`). The
number of locked fields drifts: `vmmcpk` saves locked fields, then forgets they are
in memory without counting them; hence the bound `MaxLocks` on a number that
would be bounded by that of the slices.

### `TwinBuffer`, which implements `WordStream`

| Variable | In the code |
|---|---|
| `disk`, `size` | the file |
| `isOpen` | does an entry of `TB[]` have the unit? |
| `pBuf_IN`, `pos_in`, `nb_elmt_Buf_IN`, `nb_elmt_lu` | the input buffer, the place in it, the words left in it, the words loaded so far |
| `pBuf_OUT`, `pos_out`, `nb_elmt_ecrit` | the output buffer, the words in it, the words flushed so far |
| `bucket` | what the last read gave, or how many words it asked for when it failed |
| `old`, `order` | history: the file as this pass found it, and whether the pass began with a read or a write |

`Read` and `ReadPastEnd` are `read_db_file`, `Write` is `write_db_file`, `Rewind`,
`Open` and `Close` are the calls of that name, `Stop` is an `exit`, of the module
("rewriting over unread data") or of the caller. The code moves words in a loop, one
buffer at a time; the model gives what the loop leaves: how often a buffer was
loaded or flushed (`Buffers`), and what is in it.

`WordStream` is the promise, with no buffers: a pass reads the words the file had
when it began, whatever it rewrites meanwhile, and a rewind leaves what was
written and, beyond it, what was there. Two cases are weaker because the code is:
a pass that begins by writing may read either generation of a word, and a
pass that reads beyond the end the file had may get a word that it wrote itself. A read
fails only if the last word it asks for is one the file did not have when the pass began.
With buffers of 4 words a stricter promise for that last case fails: the
output buffer of a shorter file may or may not have been flushed.

### `ThreadEvents`, which implements `EventCalls`

| Variable | In the code |
|---|---|
| `program`, `line` | what the threads call, and the call each one is in |
| `step` | where in `post_event` or `wait_event` a thread is |
| `started` | the threads there are |
| `mutex`, `value` | of an event, or of a user lock |
| `alive` | created and not destroyed |
| `seen` | what `check_event` returned last |
| `spurious` | wake-ups of `pthread_cond_wait` without a broadcast |

Each system call is a step: `PostLock`, `PostSet`, `PostBroadcast`, `PostUnlock`;
`WaitLock`, `WaitTest`, `WaitSleep` (unlocks and sleeps at once, as
`pthread_cond_wait` does), `WaitUnlock`; `Wake`, a spurious wake-up; `Check`, which
reads without the mutex; `Acquire`, `Release`, `Create`, `Destroy`, `CreateThread`,
`JoinThread`. `EventCalls` has one atomic step for each call.

## 3. What is checked

| Run | Instance | Properties | States |
|---|---|---|---|
| `XdfFileAlone` | 1 application, 2 keys, lengths 1 and 2, 2 pages of 2 entries, 6 words | `TypeOK`, `WriterAccountsForEveryWord`, `CommittedRecordsSurvive`, `SlotsAreStable` | 772 888 |
| `XdfFileShared` | 2 applications that may both write, one at a time, 1 key, lengths 1 and 2, 2 pages of 1 entry, 4 words | `EntriesDesignateRecords`, `CleanFileIsComplete`, `CommittedRecordsSurvive`, `SlotsAreStable`, `StoreIsKept` (the whole of `RecordStore`) | 356 082 |
| `XdfFileTwoWriters` | as Shared, not coordinated | `WriterExclusion` is violated | |
| `XdfFileShortDirectory` | as Shared | `OpenedDirectoryIsComplete` is violated | |
| `XdfSearch` | 3 files opened with 1, 2 and 2 pages of 2 entries, nearly all erased; up to 2 pages in each, 11 entries in all; 1 key; handles with room for 4 page numbers | `SearchIsExact`, `NoMatchIsPassedOver`, `NothingIsMissed`, `OnlyTheNamedRecordChanges` | 74 220 |
| `XdfSearchMoved` | 1 new file, 2 keys, a search for one and a search for all, 3 entries | `HandleDesignatesAMatch` is violated | |
| `WordFile` | a file of up to 6 words and a read-only one of 2, pages of 4 words: none ever, or 1 or 2; requests of 2 and 4 words from word 1 or 3, gaps of up to 3 | `TypeOK`, `NoWordIsMissing`, `Promise` (the whole of `WordArray`) | 137 815 |
| `VmmArena` | 5 units of memory; a field of 4 that is not saved, two slices of 2 that are; 2 keys in a load | `TablesAgree`, `BlocksTileMemory`, `FreeListIsExact`, `BestFitIsFree`, `LocksAreCounted`, `WhatWasWrittenIsKept`, `LockedFieldsStay` | 109 503 |
| `VmmFile` | 3 units; a MUSTEXIST variable of one slice and one of two, length 2, all saved; a file of 8 | `WhatWasWrittenIsKept`, `FileSpaceIsDisjoint`, `CheckpointIsReadable` | 194 552 |
| `VmmFullArena` | as Arena, 4 units | `BestFitIsFree` is violated | |
| `TwinBuffer` | 2 word values, buffers of 2 words, files up to 5 words, requests of all lengths | `TypeOK`, `UnreadWordsAreOld`, `Promise` (the whole of `WordStream`) | 485 064 |
| `ThreadEvents` | 3 threads, 2 events, 1 lock, 149 programs, 2 spurious wake-ups | `SleepersAreOwed`, `DestroyedIsUnused`, `CallsAreAtomic` (the whole of `EventCalls`, its fairness too) | 58 479 |

### Random-access files

* `EntriesDesignateRecords`: every entry in anyone's memory and in any directory
  page on disk designates a record that is on disk, whole, with the keys of the
  entry; in the middle of a close and after a crash too.
* `CleanFileIsComplete`: a header whose flag says nobody is writing comes with
  all its pages, exactly `nrec` live entries, and a `fsiz` that covers them.
* `CommittedRecordsSurvive`: what a close or checkpoint completed with, and nobody
  erased or moved since, is found from the directory on disk whatever later
  writers were doing when they stopped.
* `SlotsAreStable`: no step makes a slot of a page on disk designate another
  record, takes it away, or brings back an erased one.
* `WriterAccountsForEveryWord`: while an application writes, its pages are
  chained, `nrec` counts its live entries, and no word belongs to two of its
  pages or records.

Two pages are enough for a page that is linked from another, for the last
page to be full and for the directory to be full; two entries per page for one
entry to be erased beside one that stays; two lengths for a rewrite that fits,
one that is too long and one that is too short; two applications for a reader
or a second writer beside a writer. In `XdfFileAlone` 6 words hold two pages and the
four records that fill them, so that both the disk and the directory get full.
`MaxAddr` stands for the end of the disk: the
actions that would need more words are disabled, and nothing is
truncated. Symmetry is used with safety properties only.

* `StoreIsKept`: every step of a coordinated site is a step of `RecordStore` or none.
  Unlike the properties above it relates what is on disk at every moment of a close to
  what the session wants there: nothing the session did not want appears, nothing it
  kept goes away, a close that completes leaves exactly its records, and an
  application that stops changes nothing any more.

### Searches

* `SearchIsExact`: a search returns the first matching record behind the place it
  starts from, over all linked files, or says that there is none; a search that
  goes on does so as long as the position is that of the record last found,
  whatever was erased, linked or written to other files since. It is there then, and what it
  returned is the handle of that place. Nothing is claimed (`Due` is `Lost`) after a write to
  file 1, which moves the position; for a chain that `add_dir_page` cut (`ChainIsWhole`); for a handle
  that has no page; and where the table is read beyond its end. A search from a handle is `early`, and not
  claimed to be exact, in two cases: the record is more than two pages behind file 1 (`Far`), where
  the walk is too short, or its page is a linked one and the current one, where the search is refused. A search that
  goes on from such a record makes no walk, and is exact there too.
* `NoMatchIsPassedOver`: what holds of all searches from a handle, the early ones too: a
  search is refused with `ERR_NO_POS`, or says rightly that there is nothing, or
  returns a record that matches and is not behind the one it should find. The short walk begins too
  early, and may find again what was found before; it never begins too late.
* `NothingIsMissed`: who asks for the first record, then for the next until there
  is none, was given every record that matched from beginning to end, though it
  erases as it goes, writes to the linked files, links another.
* `OnlyTheNamedRecordChanges`: erasing or rewriting by a handle reaches one live entry that
  a search over the linked files returns this handle for, and changes no other entry. In a
  chain of no more than `HandlePages` pages that entry is the only one with the handle; in a
  longer one it may be another than the application means.

The files were written, and most of their records erased, before the run starts: that gives the
chain five pages with few states. The walk goes wrong from the third linked page on, which is there; the
page numbers of a chain of five pages do not fit in a handle with room for four, so that the records of
the first and the fifth page share handles, as those of the first and the 4097th do in the code. Linked
pages are the current ones after any search that ended on them. File 1 starts with a full page, so that
a put adds a page between a search and an erasure, and so may the other files in the chain. The table
of file 1 has room for 2 pages, so that a current linked page is within it or beyond it.
`MaxPageNo` bounds `cur_pageno`, which a rewrite between two calls can make grow.

### Word addressable files

* `NoWordIsMissing`: each word of an open file is on disk, or in a page in memory that will
  be written that far when it is given up.
* `Promise`: the files are the arrays of `WordArray`, through pages that are
  evicted by another file or by the next piece of the same request, through gaps,
  programs that stop, and programs with other pages.

Pages of 4 words and a file of 6 give requests within a page, over two pages, and a
last page in part; two files with one or two pages in all give the pool everything to
decide. Requests start at odd addresses and have even lengths, as those
of all callers in XDF do, which count in 64 bits. That matters: `wa_page_write` and
`wa_page_read` compute the page of an address as `adr - adr % WA_PAGE_SIZE + 1` where a
new page is obtained (c_baseio.c:2424, 2260), which is the page after it for the last
word of a page, and `MustRead` is off by one at the end of the file (2434). The model
has both; an instance with requests that begin at the end of a page breaks `Promise`.
A gap ends with the first word to write, so its pieces do end in the middle of a 64-bit
word. A program without pages that stops right there leaves a file of odd size; if a
program with pages then leaves a gap behind it, the gap begins at an even address, which may be the
last word of a page. The attempt to prove `NoWordIsMissing` met this case, and an instance
with `AllAlike` false and requests at words 1, 3 and 5 shows it: `NoWordIsMissing` and
`Promise` fail. Where all programs use pages the gap and the write that follows
it are in the same page when the gap ends, so that no file of odd size is left.

### Virtual memory

* `TablesAgree`, `BlocksTileMemory`, `FreeListIsExact`: slices and blocks name
  each other and carry the same flags and file addresses, the blocks tile the
  arena, the list threads exactly the free blocks in both directions; through
  every split, merge, move, ejection and exact fit.
* `BestFitIsFree`: what `trouve_best_fit` gives is free, whatever the size; it fails where
  the list begins with a block in use.
* `WhatWasWrittenIsKept`: a field the caller wrote and has not given up is, in its
  block or in the file where a load will look, what was written last.
* `LockedFieldsStay`: no load and no pack moves or ejects a locked field;
  `LocksAreCounted`: when `champs_bloques` is 0, nothing is locked (`vmmlod` relies on it).
* `FileSpaceIsDisjoint`, `CheckpointIsReadable`: variables never share words of the data
  file, and what the last control file counts on disk is there, after restarts
  from an older control file than the data file too.

In `VmmArena` the long field and either short slice do not fit together, so that
loads eject; the two short slices leave one unit, so that blocks are split, and
packed and merged again; two keys are loaded together. In `VmmFile` one slice
fits, every load ejects another, and the file holds both variables and what a
restart from an old control file reserves again; a model that has used the file
up may not restart.

### Twin buffers

* `UnreadWordsAreOld`: when a file is rewritten as it is read, no flush of the
  output buffer reaches a word that has not been loaded.
* `Promise`: every call does what `WordStream` says of it.

Files of 5 words over buffers of 2 have a last buffer in part, requests that
span three buffers, and writes that stop in either half.

### Locks and events

* `SleepersAreOwed`: a thread that sleeps on an event with the value it wants has a
  post that is about to broadcast. No wake-up is lost.
* `DestroyedIsUnused`: a thread may destroy an event as soon as its wait has returned,
  or the threads that use it are joined; nobody is left in a call on it. It depends on the
  order in `post_event`, which unlocks last.
* `CallsAreAtomic`: the calls take effect one at a time, and each call that can
  take effect for ever does: a `wait_event` returns once the value it wants has come
  to stay, a `join_thread` once the thread has returned.

The programs are a handshake, two waiters for one post, posts so close that a
waiter misses one, posts under a user lock, joins, and all pairs of programs of
one or two calls of three kinds next to a waiter.

**Fairness.** `ThreadEvents` assumes `WF_vars(Run(t))` for each thread: a thread
that could go on is scheduled some time, which is what an operating system does,
and no more. A spurious wake-up need not happen, `Wake` is not in `Run`; and who
gets a mutex that two threads want is not fair: with weak fairness a thread may
be passed over again and again, so programs in which that starves a call for ever
would not satisfy `EventCalls` either (its fairness is as weak). No other module
states fairness: an application or a caller may stop anywhere for ever, nothing in
files or memory happens by itself.

Deadlock is not checked: a program that has closed its file may do nothing more,
an application that meets a set flag ends, threads end, a thread may wait for
a value that nobody posts.

### Findings

1. *A second writer is let in.* `c_xdfopn` refuses to open a file to write when
   the flag in its header is set ("currently used by another application in
   write mode", xdf98.c:2012), but the flag a writer takes stays in memory until
   its first checkpoint or close (xdf98.c:2021). `XdfFileTwoWriters` shows two
   writers with the file open.
2. *A short directory is not noticed.* `c_xdfopn` means to refuse a file whose
   chain of pages ends early ("number of directory pages is incorrect",
   xdf98.c:2065), but tests `wdaddress == 0` after computing
   `W64TOWD(nxt_addr - 1) + 1`, which is -1 at the end of the chain. The missing
   page reads as an empty one. `XdfFileShortDirectory` shows a reader that opens
   a file while its writer is closing it, after the header and before the pages.
   The reader then misses records; it never holds a wrong entry
   (`EntriesDesignateRecords` holds in that instance).
3. *The free list begins with a block in use.* A field that takes the last free block
   exactly leaves `first_free_bloc` where it was (vmm.c:1643); `trouve_best_fit`, called to
   look for "un best_fit parmis les blocs vides" (vmm.c:2056), compares sizes only,
   and gives that block, in use, to the next load that it is large enough
   for. `VmmFullArena` shows the tables. Where the arena is never exactly full, as in
   `VmmArena`, the list is exact.
4. *A search that goes on after a write names another record.* `c_xdfput` sets
   `cur_pageno` to the page that was last before it adds one (xdf98.c:2518), and the
   entry to the new page; `next_match` goes on from there and returns a handle
   made of the old page number, where c_xdfloc2 says that a handle, a
   "pointer" to the record, is returned (xdf98.c:1694). `XdfSearchMoved`
   shows a handle whose record does not match.

## 4. What is proved

| Theorem | Module | Statement |
|---|---|---|
| `Types` | `XdfFile_proofs` | `Spec => []TypeOK` |
| `Designation` | `XdfFile_proofs` | `ASSUME Coordinated PROVE Spec => []EntriesDesignateRecords` |
| `StableSlots` | `XdfFile_proofs` | `ASSUME Coordinated PROVE Spec => SlotsAreStable` |
| `Survival` | `XdfFile_proofs` | `ASSUME Coordinated PROVE Spec => []CommittedRecordsSurvive` |
| `KeepsStore` | `XdfFile_proofs` | `ASSUME Coordinated PROVE Spec => StoreIsKept`, the refinement of `RecordStore` |
| `Accounts` | `XdfFile_proofs` | `ASSUME Coordinated PROVE Spec => []WriterAccountsForEveryWord` |
| `CleanFiles` | `XdfFile_proofs` | `ASSUME Coordinated PROVE Spec => []CleanFileIsComplete` |
| `SearchAlwaysExact` | `XdfSearch_proofs` | `Spec => []SearchIsExact` |
| `NoMatchEverPassedOver` | `XdfSearch_proofs` | `Spec => []NoMatchIsPassedOver` |
| `NothingEverMissed` | `XdfSearch_proofs` | `Spec => []NothingIsMissed` |
| `OnlyTheNamedRecordEverChanges` | `XdfSearch_proofs` | `Spec => OnlyTheNamedRecordChanges` |
| `WordTypes` | `WordFile_proofs` | `ASSUME AllAlike, DoubleWords PROVE Spec => []TypeOK` |
| `NothingMissing` | `WordFile_proofs` | `ASSUME AllAlike, DoubleWords PROVE Spec => []NoWordIsMissing` |
| `KeepsArray` | `WordFile_proofs` | `ASSUME AllAlike, DoubleWords PROVE Spec => Promise`, the refinement of `WordArray` |
| `UnreadIsSafe` | `TwinBuffer_proofs` | `Spec => []UnreadWordsAreOld` |
| `TwinTypes` | `TwinBuffer_proofs` | `Spec => []TypeOK` |
| `KeepsPromise` | `TwinBuffer_proofs` | `Spec => Promise`, the refinement of `WordStream` |
| `NoLostWakeUp` | `ThreadEvents_proofs` | `Spec => []SleepersAreOwed` |
| `CallsTakeEffectAtOnce` | `ThreadEvents_proofs` | `Spec => EC!Init /\ [][EC!Next]_(EC!vars)`, the refinement of `EventCalls` but for its fairness |
| `NoUseAfterDestroy` | `ThreadEvents_proofs` | `ASSUME \A p \in Programs : CreatesFirst(p) /\ DestroysLast(p) PROVE Spec => []DestroyedIsUnused` |
| `TablesAlwaysAgree` | `Vmm_proofs` | `ASSUME NeverExactlyFull, ~ForgetInCore PROVE Spec => []TablesAgree` |
| `BlocksAlwaysTile` | `Vmm_proofs` | the same, `[]BlocksTileMemory` |
| `FreeListAlwaysExact` | `Vmm_proofs` | the same, `[]FreeListIsExact` |
| `BestFitAlwaysFree` | `Vmm_proofs` | the same, `[]BestFitIsFree` |
| `LocksAlwaysCounted` | `Vmm_proofs` | the same, `[]LocksAreCounted` |
| `FileSpaceAlwaysDisjoint` | `Vmm_proofs` | the same, `[]FileSpaceIsDisjoint` |
| `CheckpointAlwaysReadable` | `Vmm_proofs` | the same, `[]CheckpointIsReadable` |
| `LockedFieldsAlwaysStay` | `Vmm_proofs` | the same, `LockedFieldsStay` |
| `WhatWasWrittenIsAlwaysKept` | `Vmm_proofs` | `ASSUME NeverExactlyFull, ~ForgetInCore, CopiesApart PROVE Spec => []WhatWasWrittenIsKept` |

The first seven hold for all sets of applications, keys and lengths, all page sizes,
directory limits and disk sizes that satisfy `XdfAssumption` (positive numbers,
writers are applications, `NoKey` is not a key); those of searches for all numbers of files,
keys, targets, entries in a page, pages in a directory and in a handle, entries in all, and all directories the
files are opened with (`XdfSearchAssumption`, `OpenedAssumption`); those of the word files for all
files, marks, sizes of pages and pools, addresses and lengths that satisfy
`WordFileAssumption` and the two hypotheses below; those of the twin buffers for all
lengths of file and buffer and all words (`TwinBufferAssumption`); those of the
threads for all threads, objects and programs (`ThreadEventsAssumption`, and
`LocksAreNotEvents`: an object is used as a lock or as an event); those of the memory
manager for all variables, slices, lengths, weights, attributes, arenas, keys in a load and
lengths of the file (`VmmAssumption`), and the two hypotheses below (three for contents).

**Types.** `TypeOK` alone is not inductive: that the page table does not overflow
when a record is appended depends on the in-core header counting the pages in
the table. `TypeInv` adds that (`PagesCounted`). Lemmas give the fields of the
file table entries that the operations build, then one lemma per action or
group of actions preserves `TypeInv`.

**Designation.** The inductive invariant `IInv` says, besides `TypeInv`:

* `OneWriter`: one application at most has the file open to write;
* `DiskGood`: the entries of all pages on disk designate whole records that end
  at `header.fsiz` or before. The bound is the point: a writer appends beyond
  the `fsiz` of its own header, which is never below the one on disk, so it cannot
  reach a record that a page on disk names;
* `CleanDir`: when the flag on disk is down, a complete chain of `nbd` pages starts
  right after the header, with no page twice. Without it a writer that opens the
  file could hold one page at two addresses, or an address in the middle of
  records, and write it there at close;
* for each application `PInv`: the entries it holds designate whole records below
  the `fsiz` it goes by; and for a writer, its pages are on disk at their
  addresses, linked as in memory, and equal to the disk but where they are
  flagged; while it opens, it follows the chain of `CleanDir`; while it closes,
  the header on disk is its own with the flag up.

TLC checked `IInv` on both instances before it was proved. The lemmas take the
disk, the header and the size as parameters, so that one write is described
once (`KeptRecs`, `KeptPages`: what it leaves alone) and used for the applications
that watch (`ReaderStep`) and the one that writes (`WriterStep`). Then there is one
lemma per action, and `StepGood` puts them together.

**StableSlots, Survival.** To `IInv` the invariant `SInv` adds, for a coordinated site:

* `WriterAhead`: a page in the memory of the writer *continues* the page on disk
  (`Continues`): it has its entries, in their slots, with the same records, and more
  perhaps; an entry erased on disk stays so, one that is live on disk and safe
  is live in memory; a link once there is the same. The header on disk counts no
  more pages than the writer has, and as many while it closes;
* `NoUsedPageBeyond`: no page beyond `header.fsiz` holds an entry or a link. Such
  pages are left by applications that stopped; without this clause, the writer
  that overwrites them could cut a record off;
* `Findable`: each safe record is live on a page that a chain of links (`Leads`)
  reaches within the first `header.nbd`.

The writer can only write what continues the disk, so a slot on disk keeps its
record (`StableSlots`), and a chain stays a chain. One lemma per action again.
`Chain`, by which `CommittedRecordsSurvive` speaks of the pages, is defined by
recursion: that it has values (`FollowsExists`, `ChainFollows`) and that it is
the chain `Leads` speaks of (`ChainLeads`) is shown by the least number for which it
is not (`Least`), since the induction theorems of the library cannot be used.

**KeepsStore.** What the file holds is defined by the chain on disk, what a session holds
by the pages in memory. `SInv` relates them page by page; for the refinement one must
know how far the chain goes, or a close could publish a page that it has not yet
linked, or link one of a session that was broken off. `RInv` adds `SessionOK`:

* `Reached(d, f, n)`: on disk the first `n` pages of the session are linked, the `n`-th is
  the last, and the pages behind it are empty. `n` is the `nbd` of the header on disk
  outside a close; in a close it is some number that grows as pages are
  written (`PageLinked`);
* the file is sealed when an application is about to begin a session, with the header
  that it has read.

`RecordedKept` says that what the file holds depends on pages in use only, so that puts,
which write beyond `header.fsiz`, do not change it; `ReachedRecorded` that in a session it
is what the first `n` pages name on disk (`WrittenBy`). The header of a close counts pages
that are empty or not linked (`EmptyPagesCounted`), so that `CloseHeader` only lifts the
flag. A page that is written is among the first `n` (`PageReached`): those before it are on
disk as in memory, since pages go in order. Hence what it adds or drops is of the session
(`PagePublished`), and a put gives a handle neither the file nor the session has
(`PutAdds`). When no page is left to write all are on disk (`AtRest`). Each group of
actions has one lemma; the steps of the store have theirs (`BeginStep` to `CrashStep`).

**Accounts, CleanFiles.** What `nrec` counts and whether two records share a word is said
once, of a directory of `n` pages wherever it is: `Accounted`. The directory in the
memory of a writer is one, that of a clean file on disk another. `AInv` adds to `IInv`:

* `CleanAccounts`: when the flag on disk is down there is a complete chain of `nbd` pages
  whose live entries `nrec` counts, and no entry on them waits to be erased;
* for a writer `WriterAccounts`: its own directory has exact accounts (while it opens, the
  header it read is the clean one on disk), and a page with an entry that waits to be erased is
  one the close will write (`Settled`): otherwise the close would leave on
  disk a record that its header does not count.

That two records share no word is a matter of addresses: each word of a record says how
far it is from the first, so that two records on disk, whole, with a word in common
would begin at the same address (`Apart`), and a record that is appended begins
beyond `fsiz`. Erasing and adding an entry change the number of live ones by one
(`EraseAccounts`, `AppendAccounts`, with the library's facts on finite sets). `CleanFiles`
then needs that the live entries on disk, which the property counts as addresses and
slots, are those of the chain (`LiveAreLive`, a bijection).

**SearchAlwaysExact, NoMatchEverPassedOver, NothingEverMissed.** What a search should return is said with the
pages of all linked files one after the other (`AllPages`, a recursive function), what the
code finds with a walk from page to page (`Ahead`, another), and places are numbers in the
first. What joins them is `Spot(d, l, p, n)`: page `p` is on the chain of links `l`, and comes as
number `n`. A spot is a page of that number (`SpotPage`), every number has one (`SpotExists`), and
in a chain that is whole the page `k` places ahead of number `n` has number `n + k`
(`AheadSpot`). These are inductions, on files from the last or from the first (`FromTheLast`,
`FromTheFirst`) and on the turns of the walk (`UpTo`), each by the least number for which
the statement fails. With them the matches next_match meets, page by page, are those of the
reference definition (`Hitting`, `Matched`), so that from the position behind a place it
returns the first match behind that place and leaves the position behind the match
(`NextMatchExact`). `c_xdfloc2` from the beginning or from a handle sets such a position first
(`LocateExact`), behind the place its walk has `Reached`. That is the place of the handle up to two pages behind
file 1, and in front of it further on (`ReachedIs`), so that what is found there is at the first match
it should find or in front of it (`BehindIs`). A page that is linked and current is refused
(`LocateRefused`). What is returned is the handle of the place (`HandleOfIs`), which is again a place of the
same record number (`Cut`).

None of the three is inductive. `IInv` adds to them `Shape` (each file has a page or more, none
too long, and is linked to the next or to none; a `next_page` is a link or nothing) and
`Standing`: as long as the record last found is where the search stands, the chain is whole, the four
fields of the position all say the place behind that record (`At`), and each record that is
owed is behind it, at its number, and matches. That is what each write has to keep. Writes
to file 1 lose it, and the model says so (`Disturbed`). An entry or a page more in another
file moves no spot in front of it (`SameSpot`), for only the last file of a whole chain gets a page;
an erasure changes one entry, and no other place has that entry (`OneSpot`); linking and
unlinking change what comes behind. TLC checked the invariant on the run before it was proved.

**OnlyTheNamedRecordEverChanges.** From `Shape` alone: the page a handle is looked up in has the
number of the handle (`PageOfSpot`), and every spot and every other entry stay (`AllStay`),
when an entry is replaced (`ReplacingStays`) and when one is erased after another was added
to file 1 (`MovingStays`). That entry has the handle, and is the only one that does when no
page number is cut (`OnlyThatIsNamed`). Every spot stays because no page is added in front of a linked
file: `add_dir_page` would cut the chain, and `ChainIsWhole'` says it did not.

**WordTypes, NothingMissing, KeepsArray.** Two hypotheses: `AllAlike`, of the site (see 2
and 3), and `DoubleWords`: pages have an even number of words, requests begin at
odd addresses and have an even number of words, and so have the files at the start.
`WA_PAGE_SIZE` is the number in `WA_CONFIG` times 1024 and the words of a unit
(c_baseio.c:2043), and `xdf98.c` makes its requests on random-access files through `W64TOWD` (qstdir.h:16);
the run satisfies both. Nothing in `c_wawrit2` or `c_waread2` enforces it: only the Fortran entry
`wawrit2` doubles addresses and lengths, and only where `ALL64` is defined (c_baseio.c:1034).
Other callers do not satisfy the hypothesis: without `ALL64`, `vmm.c` asks for single words
(vmm.c:1027, 1819) and for fields of any length at any address (418, 1811). The theorems say nothing about the files of
such callers. `IInv` says:

* `FilesGood`: a page in memory has the words of the disk where giving it up would not
  write, ends no further than the file, and every word between the end of the
  disk and the size of the file is in a page that will be written that far;
  a word that was not written since the file was opened is as on disk;
* `ClosedFiles`: files that are not open have no page and no size;
* `FilesEven`: with pages, the disk, the size and the ends of the pages are even, but
  between the last piece of a gap and the piece that follows it, when the page with
  the odd end is still in memory (`OddFile`). Without it a page could be obtained
  for an even address, by the formula that is wrong for the last word of a page;
* `CallGood`: the pieces that are left of a call lie each in one page, follow one another from
  the end of the file or before, so that a hole never opens (`TodoGood`), and what
  was read is what the file had.

The file as its user sees it (`SeenNow`) is then the pages over the disk under the pieces that
are left; giving up, loading and filling a page are described once, for one file
(`ScrapFile`, `LoadFile`, `StoreFile`), and no page move changes what is seen, so that
only the start of a write and the end of a read are steps of `WordArray`. That
the pieces of a request lie in its pages, in order and without a hole, are `PagesOfRequest` and
`PiecesAre`.

**UnreadIsSafe.** The guard of `write_db_file` compares words written with words
*read*, while a flush and a load move whole buffers; what saves the unread words is
rounding. The invariant says that as long as there is something left to load, the
words loaded are a multiple of the buffer (`Rounded`), as the words flushed are. The
lemma `NoPartialBuffer` then turns "fewer words written than read" into "flushed
no further than loaded": a multiple of the buffer that does not exceed a
number does not exceed that number rounded up.

**TwinTypes, KeepsPromise.** To `IInv` of that proof `SInv` adds what each word is:
the output buffer is full up to its position (`OutputIsFull`); from where the flushes
ended the disk is the old file (`BeyondIsOld`); every word that waits in the input
buffer is one `WordStream` allows at its address (`InputIsPromised`). The last one
is the point: it was true when the buffer was loaded, and writes since can only
have made the other generation of the word allowed. Each action has a lemma that keeps
`SInv` and one that maps it to its action of `WordStream`, or both at once.

**NoLostWakeUp.** With the typing of the tables, `SleepersAreOwed` is inductive: a post
leaves the value and the debt in one step, between `PostSet` and `PostBroadcast`; a
thread falls asleep in the step that finds another value. A step of a thread that is
not about to broadcast, and puts no one to sleep, takes no wake-up away (`OwedStays`).

**CallsTakeEffectAtOnce.** A post takes effect when it sets the value, a wait when it
finds it, the others in their only step. `Late` says that the call a thread is in has
taken effect, so that the calls in effect are those returned and, if `Late`, one more.
That no step on an event changes the owner of a lock needs `LocksAreNotEvents`; that a
thread that has run to its end has all its calls in effect, which a join
waits for, needs `Ends`.

**NoUseAfterDestroy.** It depends on the programs, so the theorem says of which ones it
holds. `CreatesFirst`: the first thread creates what is used before it starts another
thread. `DestroysLast`: who destroys an object makes no use of it afterwards and, for each use another
thread makes of it, has joined that thread, or has waited for a value which only a later
call of that thread posts, or that very call, and which is not -1, the first value of an event.
The last case is the one that matters: a thread may destroy the event its own wait returned from.
The poster set the value it was waiting for, but is it out of `post_event`? It is, because a
waiter holds the mutex when it finds the value, and `post_event` unlocks last.
`DInv` puts that together: whoever is inside a critical section holds the mutex
(`Held`), a value was posted by somebody (`Posted`), a wait that has met a value only
one post has comes after that post was left (`Met`), a join after the last call (`Joined`), and
of an object that is gone all uses are over (`Gone`). All programs of the run but one satisfy both
conditions (`OrderlyPrograms`, which TLC evaluates); the one that does not, `UnderALock`,
learns by taking a user lock that the other thread is done, and is only model-checked.

**The theorems of Vmm_proofs.** Two hypotheses:

* `NeverExactlyFull`: there are no different fields whose lengths add up to the arena. Where
  there are, a load that takes the last free block exactly leaves `first_free_bloc` on a block
  in use (3 above), and the next load may overwrite that block. In the two passing runs it
  holds because the lengths are even and the arena is odd;
* `~ForgetInCore`: `vmmfgt` is not called for a field in memory; it would leave its block
  out of use and out of the list.

A third one, `CopiesApart`, is for contents only: no variable has SIZE=8, the saved fields have
one length, and the other lengths are multiples of it. `swap_blocks` moves a block with `memcpy`
onto a free place in front of it, and where that place is smaller the two ranges overlap, which
C leaves undefined; a SIZE=8 block is copied twice as long as it is. The code does nothing
against either, and without some such condition the property is false. Under this one every
block begins at a multiple of the length, so that a free place holds what is moved into it. Both instances satisfy it,
with lengths that are multiples of 2; that the saved fields have one length is the common use, fields of one grid.

The invariant `VInv` is `Good` of the tables and some words on the control file and the locks.
`Good` is stated of the tables as one value, whatever the call is in the middle of,
and is in five parts:

* `Memory`: `Names` (blocks in use and slices name each other and have the same flags; a
  block out of use is neither kept nor locked), `Tiled` (the blocks tile the arena), `Listed`
  (`first_free_bloc` and the links of the free blocks are the next and the last free block).
  The code never looks a slice up: it moves numbers of blocks along when a block is split or two
  are joined (`Lowered`, `Raised`, `Renumbered`), and each of the three parts needs the others;
* `Told`: blocks in use know where their slice is in the file; it breaks when space is reserved
  and the blocks in memory are not told;
* `Reserved`: the space of a variable is below `wp` and no other variable's;
* `ImagesWritten`: a slice with an image on disk has its words there. It speaks of files
  within `MaxFile` only: a loop may be on its way to a call that is not made.

`VInv` adds `Counted`: `champs_bloques` is *at least* the number of locked slices. It is
not equal to it (`vmmcpk` drops locked blocks without counting), and equality is not needed. And
`Control`: the bases in the control file are those in memory where it has one, and the
words it counts on are in the file: `wp` is never below what was reserved, so that what comes
after a checkpoint is written beyond it or over its own words.

`VmmTables_proofs` says what each change of the tables keeps of `Good`: joining two blocks
(`CollapseGood`), moving one (`SwapGood`), freeing one and threading it in (`EjectGood`),
writing one (`EcritGood`), reserving (`ReserveGood`), splitting or unlisting one for a slice (`PlaceGood`).
`NeverExactlyFull` says that some block is always free, so that `first_free_bloc` is one: a
block that is freed is threaded in from there, and when a free block is taken whole another one is left. It then goes through the loops, and `Vmm_proofs` through the
calls. What the turns of a
loop keep, the loop keeps: that is `LoopKeeps` of the module `Loops`, proved once for any turn
and any statement (`Turn` and `Inv` are its constants) by the least number for which it fails;
each loop of `Vmm` instantiates it. Along a packing the statement is `Arranged`: the tables are
`Good`, the file and what slices know of it have not changed (`Carried`), locked fields are
where they were (`Stays`), and no slice has left memory. Along a load it is `Roomy`: the file has
what it had (`Extends`), locked fields stay, fields to be kept are in memory (`KeptStay`), and the
block found is free and has the room. That the blocks ejected from a segment make that room, once
packed, is followed with partial sums (`Runs`, `RunSwapped`); it is why `PlaceAll` may go
from one block to the next.

`LockedFieldsAlwaysStay` is of steps; it rests on `VInv` and on `Stays` of each call.

`WhatWasWrittenIsAlwaysKept` adds to `VInv` the invariant `CInv`, which TLC checked on both
passing runs before it was proved. It is `Content` of the tables and of `due`, the slices whose
content is owed to the caller:

* `Even`: all blocks begin at multiples of one length, which `CopiesApart` names. Splits, joints and moves of
  blocks keep it (`EvenStays`), and it is what makes every copy `intact`;
* only slices that are saved carry marks (altered since `vmmget` last gave them out, or before);
* every slice of `due` is saved and `Sound`. Out of memory, its last content is in the file where a load
  looks (`OnDisk`). In memory, its block has it, and either a mark says that the block has
  to be written or the file has it too. The property alone does not speak of marks, and is not inductive: a block
  without a mark is ejected without being written.

A step may lose the content of the slices it gives up, which leave `due`. So each function
of the tables is said to *spare* all others (`Spares`): no slice outside a set `X` that was sound is unsound
after it, `wp` does not fall, and no mark appears. It composes (`SparesTrans`), so the loops keep
it as they keep `Good`, with the same `LoopKeeps`. Like `ImagesWritten`, it speaks of files within
`MaxFile`. Marks appear in `vmmget` only, and contents come to be owed in the write of the caller; those two steps have proofs of their own.

Only model-checked:

* of `XdfSearch`, that a handle returned after a write names a record that does not match
  (finding 4), which is a counterexample;
* of `Vmm`, arenas that fields can fill exactly, where the list is not exact. Contents where
  copies may overlap are neither proved nor kept;
* of `ThreadEvents`, the liveness in `CallsAreAtomic`, which is out of the prover's
  reach, and `DestroyedIsUnused` of programs that learn by a lock that nobody uses an event
  any more;
* of `XdfFile`, what happens at a site that is not coordinated, but for `Types`.

## 5. Not modelled

Of XDF: `c_xdfuse` and key templates, sequential
files, files of 1989, `c_fst_edit_dir_plus`, several writers of the files of one
application with the global flag `xdf_checkpoint`; in `XdfFile` the record filters (a desire or exclude request in effect can hide from
`c_fstecr` the record it should rewrite), in `XdfSearch` opening and closing of linked
files, and their own searches. In sequential files `c_xdfdel` marks a record with
idtyp 255 while `next_match` (xdf98.c:3647) takes any idtyp of 112 or more for the end
of the file, so that a search ends at an erased record; that part has no
module yet. A record of a linked file that is rewritten in place is written with the
unit of file 1 (xdf98.c:2566), `XdfSearch` follows the directory entry only.

Of word addressable files: `c_fnom` and `c_fclos` (names, attributes, paths), remote files
and members of CMCARC archives, address 0 (the position of the last access), writes of the
system that are not whole (`qqcwawr` reports them and goes on, c_baseio.c:2610; with
one the promise of `WordArray` fails at once), the direct access and stream calls
(`c_openda`, `c_sqopen`). `c_fclos` of a file that was not closed before drops its pages.

Of the memory manager: `vmmcre` and `vmmatt` (the variables exist when the model starts),
several classes of files, `vmmhpa`, `vmmdel`, checksums and block markers, the
password, traces and statistics.

Of the threads: what an uninitialized mutex does (`c_create_lock`), identifiers of threads
that do not fit in a `wordint`, failures of `malloc` and of `pthread_create`.

The components whose status in `PROJECT.json` is `not_modelled` carry the reason:
numeric code and codecs are out of TLC's reach, drawing and text output have no
state to speak of, and the others are in the plan. Most of the lines of the
repository are of these kinds (interpolators, packers, png, gd2, X11): the share of it that is
modelled is small, and so is the share that has state worth a model.

## 6. Plan

Done: `XdfFile` with `RecordStore`, `XdfSearch`, `WordFile` with `WordArray`, `Vmm`,
`TwinBuffer` with `WordStream`, `ThreadEvents` with `EventCalls`, and the proofs above.
Left, what matters most first:

1. `vmmcre` and several classes in `Vmm`.
2. `GossipClients`: a table of slots shared by the thread that accepts and those
   that serve; `MgiChannels`: open with retries, read and write with time-outs.
3. `WordFile` below `XdfFile`, so that pages in memory and applications that stop are
   seen together; partial writes.
4. Sequential XDF files; `fldmgr`, `WhiteBoard`, `dmms`, record filters.

The project keeps to twelve runs and eight modules with proofs; the parts under 2 to 4 would take the place
of the narrowest of those above, or extend their instances.
