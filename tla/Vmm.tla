-------------------------------- MODULE Vmm --------------------------------
(***************************************************************************)
(* The virtual memory manager (vmm.c): fields, cut in slices, are loaded   *)
(* into one arena, locked while their address is in use, written to a file *)
(* when their space is wanted, and read again.                             *)
(*                                                                         *)
(* The arena is a table of adjacent blocks, in use or free; the free ones  *)
(* are threaded by prev_fb and next_fb from first_free_bloc.  A load takes *)
(* the best fitting free block, or ejects the lightest blocks of a run of  *)
(* unlocked blocks (a segment) and packs it.                               *)
(*                                                                         *)
(* Abstractions: lengths count units of 8 bytes; block numbers start at 1  *)
(* and 0 stands for -1; all variables have one class, so there is one data *)
(* file, and are created before anything is loaded; the content of a block *)
(* is reduced to "is this what the caller last wrote in the slice?"; block *)
(* markers, checksums, the password, traces and statistics are left out.   *)
(* An error that vmmerr calls fatal ends the program: here, Restart.       *)
(***************************************************************************)
EXTENDS Integers, Sequences, FiniteSets, SequencesExt, FiniteSetsExt

CONSTANTS
  Slices,       \* SLICES[]
  NoSlice,
  Variables,    \* NAMES[]
  VarOf,        \* name_table_index of a slice
  Piece,        \* its rank in the variable, from 0
  Length,       \* lslice of a variable, doubled for SIZE=8
  Weight,       \* attribute W of a variable
  Saved,        \* variables with SAVE=Y
  MustExist,    \* variables with MUSTEXIST
  Size8,        \* variables with SIZE=8
  MaxMem,       \* memory given to vmmallc
  MaxKeys,      \* bound: keys in one call of vmmlod (NCLEMAX, 1000)
  MaxLocks,     \* bound: locks counted in champs_bloques
  MaxFile,      \* bound: length of the data file; no call that needs more is made
  ForgetInCore  \* may vmmfgt be called for a slice that is in memory?

ASSUME VmmAssumption ==
  /\ NoSlice \notin Slices /\ IsFiniteSet(Slices)
  /\ VarOf \in [Slices -> Variables]
  /\ Piece \in [Slices -> Nat]
  /\ \A s \in Slices : Piece[s] < Cardinality({t \in Slices : VarOf[t] = VarOf[s]})
  /\ \A s, t \in Slices : VarOf[s] = VarOf[t] /\ Piece[s] = Piece[t] => s = t
  /\ Length \in [Variables -> Nat \ {0}]
  /\ Weight \in [Variables -> 0 .. 9]
  /\ Saved \subseteq Variables /\ MustExist \subseteq Variables
  /\ Size8 \subseteq Variables
  /\ MaxMem \in Nat \ {0} /\ MaxKeys \in Nat \ {0} /\ MaxLocks \in Nat /\ MaxFile \in Nat \ {0}
  /\ ForgetInCore \in BOOLEAN

VARIABLES
  blocks,          \* BLOCKS[0 .. nbblocks-1]
  slices,          \* the in-core SLICES[]
  first_free_bloc,
  champs_bloques,  \* number of locked fields
  base,            \* NAMES[].base_file_adr
  wp,              \* wp_Vmm: first word after the reserved ones, also in word 1
  file,            \* the data file: whose words these are, are they up to date?
  ctl,             \* the control file, NoCtl while it is empty
  due              \* history: slices whose last written content the caller
                   \* counts on: written, and not given up since

vars == <<blocks, slices, first_free_bloc, champs_bloques, base, wp, file, ctl, due>>

NoAdr == 0
NoCtl == [written |-> FALSE, base |-> [v \in Variables |-> NoAdr], image |-> {}]
NoWord == [of |-> NoSlice, cur |-> FALSE]

Len8(s)   == Length[VarOf[s]]
Pieces(v) == {s \in Slices : VarOf[s] = v}
Keep(s)   == VarOf[s] \in Saved

(***************************************************************************)
(* A loop of the code, of n turns: turn k makes Turn(c, x, k) of the x that *)
(* the last one left; c does not change in the loop.                       *)
(***************************************************************************)
Repeat(Turn(_, _, _), c, x, n) ==
  LET after[k \in 0 .. n] == IF k = 0 THEN x ELSE Turn(c, after[k - 1], k)
  IN  after[n]

(***************************************************************************)
(* The tables as one value, so that a loop of the code is a function of    *)
(* it.  "intact" says what a memcpy between overlapping ranges does, which *)
(* C leaves undefined: copy well, or damage the block.                     *)
(***************************************************************************)
Tables(intact) ==
  [b |-> blocks, s |-> slices, first |-> first_free_bloc, base |-> base,
   wp |-> wp, file |-> file, intact |-> intact]

Become(T) ==
  /\ T.wp <= MaxFile + 1
  /\ blocks' = T.b /\ slices' = T.s /\ first_free_bloc' = T.first
  /\ base' = T.base /\ wp' = T.wp /\ file' = T.file

FreeBlock(adr, size, prev, next) ==
  [slice |-> NoSlice, adr |-> adr, size |-> size, keep |-> FALSE,
   locked |-> FALSE, altered |-> FALSE, was |-> FALSE, file |-> NoAdr,
   prev |-> prev, next |-> next, cur |-> FALSE]

NotInCore(image) ==
  [bk |-> 0, keep |-> FALSE, locked |-> FALSE, altered |-> FALSE,
   was |-> FALSE, image |-> image]

Emptied(b) == FreeBlock(b.adr, b.size, b.prev, b.next)

Linking(b, prev, next) == [b EXCEPT !.prev = prev, !.next = next]

InUse(b)  == b.slice # NoSlice

Free(b)   == {i \in DOMAIN b : ~InUse(b[i])}
InCore(s) == slices[s].bk # 0

---------------------------------------------------------------------------
(* The data file. *)

FileAdrOfVariable(T, s) == T.base[VarOf[s]]

FileAdr(T, s) ==
  IF T.base[VarOf[s]] = NoAdr THEN NoAdr
  ELSE T.base[VarOf[s]] + Len8(s) * Piece[s]

Words(adr, s) == adr .. adr + Len8(s) - 1

\* the file has the last content of s where a load would read it
OnFile(T, s) ==
  /\ FileAdr(T, s) # NoAdr
  /\ \A w \in Words(FileAdr(T, s), s) : T.file[w] = [of |-> s, cur |-> TRUE]

ExtentOfOneSlice(v) == Length[v]
Extent(v) == Cardinality(Pieces(v)) * Length[v]

At(b, adr) == [b EXCEPT !.file = adr]

\* reserve_disk_space: room for all slices of a variable at the end of the
\* file, of which the blocks of the slices in memory are told
ReserveDiskSpaceUntold(T, v) ==
  [T EXCEPT !.base[v] = T.wp, !.wp = @ + Extent(v)]

ReserveDiskSpace(T, v) ==
  LET at   == [T.base EXCEPT ![v] = T.wp]
      U    == [T EXCEPT !.base = at]
      last == T.wp + Extent(v) - 1
  IN  [U EXCEPT
        !.wp   = last + 1,
        !.file = [w \in DOMAIN @ |-> IF w \in T.wp .. last THEN NoWord ELSE @[w]],
        !.b    = [i \in DOMAIN @ |-> IF \E p \in Pieces(v) : T.s[p].bk = i
                                     THEN At(@[i], FileAdr(U, @[i].slice)) ELSE @[i]]]

Cleaned(x)       == [x EXCEPT !.altered = FALSE, !.was = FALSE]
Imaged(x, image) == [Cleaned(x) EXCEPT !.image = image]

\* ecrit_bloc: the block is no longer altered, the slice has an image on disk
EcritBloc(T, i) ==
  LET s == T.b[i].slice
  IN  [T EXCEPT
        !.file = [w \in DOMAIN @ |-> IF w \in Words(T.b[i].file, s)
                                     THEN [of |-> s, cur |-> T.b[i].cur] ELSE @[w]],
        !.b[i] = Cleaned(@), !.s[s] = Imaged(@, TRUE)]

Altered(b) == Keep(b.slice) /\ (b.altered \/ b.was)

\* vmmsav and vmmcpk reserve when the block has no address
Save(T, i) ==
  EcritBloc(IF T.b[i].file = NoAdr THEN ReserveDiskSpace(T, VarOf[T.b[i].slice])
            ELSE T, i)

---------------------------------------------------------------------------
(* The block table and its list of free blocks. *)

Down(k) == IF k = 0 THEN 0 ELSE k - 1

\* collapse_blocks: block i takes in the free block n after it
AbsorbNext(b, n) == [b EXCEPT !.next = Down(n.next)]
Absorb(b, n) == [b EXCEPT !.size = @ + n.size, !.next = Down(n.next)]

Lowered(b)       == Linking(b, Down(b.prev), Down(b.next))
Renumbered(x, k) == [x EXCEPT !.bk = k]

CollapseBlocks(T, i) ==
  LET merged == Absorb(T.b[i], T.b[i + 1])
  IN  [T EXCEPT
        !.b = [j \in 1 .. Len(@) - 1 |->
                 IF j < i THEN @[j] ELSE IF j = i THEN merged
                 ELSE Lowered(@[j + 1])],
        !.s = [s \in Slices |-> IF @[s].bk > i THEN Renumbered(@[s], @[s].bk - 1) ELSE @[s]]]

\* swap_blocks: the block after the free block i moves down over it.  The size
\* of a SIZE=8 block counts its words already, the copy doubles it once more.
SwapBlocks(T, i) ==
  LET f      == T.b[i]
      n      == T.b[i + 1]
      copied == n.size * (IF VarOf[n.slice] \in Size8 THEN 2 ELSE 1)
      moved  == [n EXCEPT !.adr = f.adr, !.prev = 0, !.next = 0,
                          !.cur = @ /\ (copied > f.size => T.intact)]
      hole   == FreeBlock(f.adr + n.size, f.size, f.prev, f.next)
      Other(j) == [T.b[j] EXCEPT
                     !.prev = IF j = f.next THEN i + 1 ELSE @,
                     !.next = IF j = f.prev THEN i + 1 ELSE @,
                     !.cur  = @ /\ ~(j > i + 1 /\ T.b[j].adr < f.adr + copied)]
  IN  [T EXCEPT
        !.b = [j \in DOMAIN @ |-> IF j = i THEN moved ELSE IF j = i + 1 THEN hole ELSE Other(j)],
        !.s[n.slice].bk = i,
        !.first = IF @ = i THEN i + 1 ELSE @]

\* the loop of pack_segment (stops at a locked block behind a free one) and of
\* pack_blocks (goes on after it); r.at is the block it has come to
PackTurn(segment, r, k) ==
  LET T == r.t
      i == r.at
  IN  CASE i >= Len(T.b)        -> r
        [] i < Len(T.b) /\ InUse(T.b[i]) -> [r EXCEPT !.at = i + 1]
        [] i < Len(T.b) /\ ~InUse(T.b[i]) /\ ~InUse(T.b[i + 1]) ->
             [r EXCEPT !.t = CollapseBlocks(T, i)]
        [] i < Len(T.b) /\ ~InUse(T.b[i]) /\ InUse(T.b[i + 1]) /\ T.b[i + 1].locked ->
             IF segment THEN r ELSE [r EXCEPT !.at = i + 1]
        [] OTHER -> [t |-> SwapBlocks(T, i), at |-> i + 1]

Pack(T, i, segment) ==
  Repeat(PackTurn, segment, [t |-> T, at |-> i], Len(T.b)).t

\* the last block of the list before block i
BeforeTurn(c, k, n) ==
  IF c.b[k].next = 0 \/ c.b[k].next > c.i THEN k ELSE c.b[k].next

ListedBefore(b, first, i) == Repeat(BeforeTurn, [b |-> b, i |-> i], first, Len(b))

\* the free block i enters the list, behind block p and before block n
Entered(b, i, p, n) ==
  [j \in DOMAIN b |->
     Linking(b[j], IF j = n THEN i ELSE IF j = i THEN p ELSE b[j].prev,
                   IF j = p THEN i ELSE IF j = i THEN n ELSE b[j].next)]

\* the end of eject_block; with nothing after it in the list, the code also
\* writes BLOCKS[-1].prev_fb, outside of the table
ListFree(T, i) ==
  LET p == IF T.first > i THEN 0 ELSE ListedBefore(T.b, T.first, i)
      n == IF T.first > i THEN T.first ELSE T.b[p].next
  IN  [T EXCEPT !.b = Entered(@, i, p, n), !.first = IF @ > i THEN i ELSE @]

\* eject_block(bkno, save, ...)
EjectBlock(T, i, save) ==
  IF ~InUse(T.b[i]) THEN T
  ELSE LET s == T.b[i].slice
           R == IF save /\ Altered(T.b[i])
                THEN EcritBloc(IF T.base[VarOf[s]] = NoAdr
                               THEN ReserveDiskSpace(T, VarOf[s]) ELSE T, i)
                ELSE T
       IN  ListFree([R EXCEPT !.b[i] = Emptied(@), !.s[s] = NotInCore(@.image)], i)

---------------------------------------------------------------------------
(* Finding room: trouve_best_fit, trouve_best_segment, trouve_best_free. *)

\* the first of the smallest listed blocks that are large enough, 0 if none
FitTurn(c, r, n) ==
  IF r.at = 0 THEN r
  ELSE [at   |-> c.b[r.at].next,
        best |-> IF /\ c.b[r.at].size >= c.size
                    /\ r.best = 0 \/ c.b[r.at].size < c.b[r.best].size
                 THEN r.at ELSE r.best]

TrouveBestFit(T, size) ==
  Repeat(FitTurn, [b |-> T.b, size |-> size], [at |-> T.first, best |-> 0], Len(T.b)).best

Poids(b) == IF ~InUse(b) THEN 0
            ELSE Weight[VarOf[b.slice]] + (IF VarOf[b.slice] \in MustExist THEN 0 ELSE 9)

\* the room that the blocks "is" have together
SizeTurn(c, n, i) == n + (IF i \in c.is THEN c.b[i].size ELSE 0)
SizeOf(T, is) == Repeat(SizeTurn, [b |-> T.b, is |-> is], 0, Len(T.b))

\* a segment is named by the number of locked blocks before it
SegmentOf(T, i) == Cardinality({j \in 1 .. i : T.b[j].locked})

Lighter(T, i, j) ==
  \/ Poids(T.b[i]) < Poids(T.b[j])
  \/ Poids(T.b[i]) = Poids(T.b[j]) /\ i < j

Lightest(T, is) == CHOOSE i \in is : \A j \in is \ {i} : Lighter(T, i, j)

\* tableau_eject, one segment of it
TableauEjectLocked(T, g) == {i \in DOMAIN T.b : ~T.b[i].keep /\ SegmentOf(T, i) = g}
TableauEject(T, g) ==
  {i \in DOMAIN T.b : ~T.b[i].locked /\ ~T.b[i].keep /\ SegmentOf(T, i) = g}

\* the blocks of tab up to block i, from the lightest on
UpTo(T, tab, i) == {j \in tab : j = i \/ Lighter(T, j, i)}

\* as many of them as give the room, none if all do not
Enough(T, tab, size) ==
  LET last == {i \in tab : SizeOf(T, UpTo(T, tab, i)) >= size}
  IN  IF last = {} THEN {} ELSE UpTo(T, tab, Lightest(T, last))

\* the blocks to eject from each segment
Victims(T, size) == [g \in 0 .. Len(T.b) |-> Enough(T, TableauEject(T, g), size)]

\* poid_max and npoid_max of a segment
Cost(T, v) ==
  LET heaviest == Max({Poids(T.b[i]) : i \in v})
  IN  <<heaviest, Cardinality({i \in v : Poids(T.b[i]) = heaviest})>>

Cheaper(c, d) == c[1] < d[1] \/ (c[1] = d[1] /\ c[2] < d[2])

\* the first of the cheapest segments, nothing when none is large enough
Cheapest(T, victims) ==
  LET able == {g \in DOMAIN victims : victims[g] # {}}
      best == {g \in able : \A h \in able : ~Cheaper(Cost(T, victims[h]), Cost(T, victims[g]))}
  IN  UNION {victims[g] : g \in {g \in best : \A h \in best : g <= h}}

TrouveBestSegment(T, size) == Cheapest(T, Victims(T, size))

\* the largest free block from block i to the next locked one (pack_segment)
Biggest(T, i) ==
  LET run == {j \in i .. Len(T.b) : \A k \in i .. j : ~T.b[k].locked}
      fs  == {j \in run : ~InUse(T.b[j])}
  IN  IF fs = {} THEN 0
      ELSE Min({j \in fs : \A k \in fs : T.b[k].size <= T.b[j].size})

\* the segment that begins at block i is packed
PackSegment(T, i) ==
  LET P == Pack(T, i, TRUE) IN [t |-> P, at |-> Biggest(P, i)]

\* eject_from_tableau: lightest first, as they were weighed in T
EjectTurn(T, r, k) ==
  IF r.left = {} THEN r
  ELSE [t    |-> EjectBlock(r.t, Lightest(T, r.left), TRUE),
        left |-> r.left \ {Lightest(T, r.left)}]

EjectAll(T, victims) ==
  Repeat(EjectTurn, T, [t |-> T, left |-> victims], Cardinality(victims)).t

MakeRoom(T, victims) ==
  IF victims = {} THEN [t |-> T, at |-> 0]
  ELSE PackSegment(EjectAll(T, victims), Min(victims))

\* trouve_best_free: the tables once there is room, and the block, 0 if none
TrouveBestFree(T, size) ==
  LET fit == TrouveBestFit(T, size)
  IN  IF fit # 0 THEN [t |-> T, at |-> fit] ELSE MakeRoom(T, TrouveBestSegment(T, size))

---------------------------------------------------------------------------
(* qvmlod: the room for all the keys is found first, then they are placed   *)
(* one behind the other in it.                                              *)

Up(k) == IF k # 0 THEN k + 1 ELSE 0

\* links to blocks that have one more before them
Raised(b, f) == Linking(b, IF b.prev >= f THEN b.prev + 1 ELSE b.prev, Up(b.next))

\* the free block f is larger: it gives its first "size" units away
Split(T, f, size) ==
  LET b        == T.b[f]
      rest     == FreeBlock(b.adr + size, b.size - size, b.prev, Up(b.next))
      grown(j) == IF j <= f THEN T.b[j] ELSE IF j = f + 1 THEN rest ELSE Raised(T.b[j - 1], f)
  IN  [T EXCEPT
        !.b = [j \in 1 .. Len(@) + 1 |->
                 Linking(grown(j), IF j = rest.next THEN f + 1 ELSE grown(j).prev,
                                   IF j = rest.prev THEN f + 1 ELSE grown(j).next)],
        !.s = [s \in Slices |-> IF @[s].bk > f THEN Renumbered(@[s], @[s].bk + 1) ELSE @[s]],
        !.first = IF @ = f THEN f + 1 ELSE @]

\* the free block f leaves the list
Left(b, f) ==
  [j \in DOMAIN b |->
     Linking(b[j], IF j = b[f].next THEN b[f].prev ELSE b[j].prev,
                   IF j = b[f].prev THEN b[f].next ELSE b[j].next)]

UnlistKeepingFirst(T, f) == [T EXCEPT !.b = Left(@, f)]

\* it fits exactly: out of the list; first_free_bloc keeps its value when
\* the block was alone in the list
Unlist(T, f) ==
  LET p == T.b[f].prev
      n == T.b[f].next
  IN  [T EXCEPT !.b = Left(@, f),
                !.first = IF @ # f THEN @ ELSE IF p # 0 THEN p ELSE IF n # 0 THEN n ELSE @]

Loaded(x, f) == [x EXCEPT !.bk = f, !.keep = TRUE]

\* one turn of the loop of qvmlod for a slice that is not in memory; the
\* content of a slice without image is no concern of the caller
Place(T, s, f) ==
  LET size == Len8(s)
      U    == IF T.b[f].size # size THEN Split(T, f, size) ELSE Unlist(T, f)
      sl   == U.s[s]
  IN  [U EXCEPT
        !.s[s] = Loaded(@, f),
        !.b[f] = [slice |-> s, adr |-> @.adr, size |-> size, keep |-> TRUE,
                  locked |-> sl.locked, altered |-> sl.altered, was |-> sl.was,
                  file |-> FileAdr(T, s), prev |-> 0, next |-> 0,
                  cur |-> sl.image /\ OnFile(T, s)]]

Kept(x, more) == [x EXCEPT !.keep = @ \/ more]

KeepInCore(T, ks) ==
  LET here == {s \in ToSet(ks) : T.s[s].bk # 0}
  IN  [T EXCEPT
        !.s = [s \in Slices |-> Kept(@[s], s \in here)],
        !.b = [i \in DOMAIN @ |-> Kept(@[i], @[i].slice \in here)]]

\* the keys that are not in memory go one behind the other into the room
PlaceTurn(ks, r, k) ==
  IF r.t.s[ks[k]].bk # 0 THEN r
  ELSE [t |-> Place(r.t, ks[k], r.at), at |-> r.at + 1]

PlaceAll(room, ks) ==
  IF room.at = 0 THEN room ELSE Repeat(PlaceTurn, ks, room, Len(ks))

\* the room for the keys that are not in memory
NeedTurn(c, n, k) == n + (IF c.t.s[c.ks[k]].bk = 0 THEN Len8(c.ks[k]) ELSE 0)
Need(T, ks) == Repeat(NeedTurn, [t |-> T, ks |-> ks], 0, Len(ks))

\* at = 0 in the result: NO_SPACE_LEFT_FOR_LOAD
Qvmlod(T, ks) == PlaceAll(TrouveBestFree(KeepInCore(T, ks), Need(T, ks)), ks)

\* vmmlod: with locked fields, the keys are loaded one at a time
OneKeyTurn(ks, r, k) == IF r.at = 0 THEN r ELSE Qvmlod(r.t, <<ks[k]>>)

Vmmlod(T, ks, locks) ==
  IF locks = 0 THEN Qvmlod(T, ks)
  ELSE Repeat(OneKeyTurn, ks, [t |-> KeepInCore(T, ks), at |-> 1], Len(ks))

---------------------------------------------------------------------------
(* The calls. *)

Current(x, cur) == [x EXCEPT !.cur = cur]

\* the caller no longer counts on what it wrote in these slices
Forgone(T, gone) ==
  [T EXCEPT
    !.b    = [i \in DOMAIN @ |-> Current(@[i], @[i].cur /\ @[i].slice \notin gone)],
    !.file = [w \in DOMAIN @ |-> Current(@[w], @[w].cur /\ @[w].of \notin gone)]]

GiveUp(T, gone) == Become(Forgone(T, gone)) /\ due' = due \ gone

\* what vmmallc leaves: one free block, and what the control file says
Arena == <<FreeBlock(0, MaxMem, 0, 0)>>

Init ==
  /\ blocks = Arena
  /\ slices = [s \in Slices |-> NotInCore(FALSE)]
  /\ first_free_bloc = 1
  /\ champs_bloques = 0
  /\ base = [v \in Variables |-> NoAdr]
  /\ wp = 1
  /\ file = [w \in 1 .. MaxFile |-> NoWord]
  /\ ctl = NoCtl
  /\ due = {}

Lod(ks) ==
  \E intact \in BOOLEAN : \E r \in {Vmmlod(Tables(intact), ks, champs_bloques)} :
    /\ r.at # 0
    /\ Become(r.t)
    /\ UNCHANGED <<champs_bloques, ctl, due>>

GivenOut(x, was, altered) == [x EXCEPT !.locked = TRUE, !.was = was, !.altered = altered]

\* vmmget: locks, and takes every field it gives out for altered
Get(s) ==
  LET was == slices[s].was \/ slices[s].altered
  IN  /\ InCore(s) /\ champs_bloques < MaxLocks
      /\ slices' = [slices EXCEPT ![s] = GivenOut(@, was, Keep(s))]
      /\ blocks' = [blocks EXCEPT ![slices[s].bk] = GivenOut(@, was, Keep(s))]
      /\ champs_bloques' = champs_bloques + (IF slices[s].locked THEN 0 ELSE 1)
      /\ UNCHANGED <<first_free_bloc, base, wp, file, ctl, due>>

\* the caller writes at the address vmmget gave, while the field is locked and
\* not yet saved again (after a save it asks for the address again)
Write(s) ==
  /\ InCore(s) /\ slices[s].locked /\ slices[s].altered
  /\ blocks' = [blocks EXCEPT ![slices[s].bk] = Current(@, TRUE)]
  /\ file' = [w \in DOMAIN file |-> IF file[w].of = s THEN Current(file[w], FALSE) ELSE file[w]]
  /\ due' = due \cup {s}
  /\ UNCHANGED <<slices, first_free_bloc, champs_bloques, base, wp, ctl>>

Locking(x, locked) == [x EXCEPT !.locked = locked]

Lck(s) ==
  /\ InCore(s) /\ ~slices[s].locked /\ champs_bloques < MaxLocks
  /\ slices' = [slices EXCEPT ![s] = Locking(@, TRUE)]
  /\ blocks' = [blocks EXCEPT ![slices[s].bk] = Locking(@, TRUE)]
  /\ champs_bloques' = champs_bloques + 1
  /\ UNCHANGED <<first_free_bloc, base, wp, file, ctl, due>>

OneLessInCore(s) == champs_bloques - (IF InCore(s) THEN 1 ELSE 0)

\* champs_bloques once the field of slice s is no longer locked
OneLess(s) == champs_bloques - (IF InCore(s) /\ blocks[slices[s].bk].locked THEN 1 ELSE 0)

Ulk(s) ==
  /\ slices' = [slices EXCEPT ![s] = Locking(@, FALSE)]
  /\ blocks' = [i \in DOMAIN blocks |-> IF i = slices[s].bk THEN Locking(blocks[i], FALSE)
                                        ELSE blocks[i]]
  /\ champs_bloques' = OneLess(s)
  /\ UNCHANGED <<first_free_bloc, base, wp, file, ctl, due>>

UlkAll ==
  /\ slices' = [s \in Slices |-> IF \E i \in DOMAIN blocks : blocks[i].slice = s
                                 THEN Locking(slices[s], FALSE) ELSE slices[s]]
  /\ blocks' = [i \in DOMAIN blocks |-> Locking(blocks[i], FALSE)]
  /\ champs_bloques' = 0
  /\ UNCHANGED <<first_free_bloc, base, wp, file, ctl, due>>

UnloadClean(x, altered) ==
  [x EXCEPT !.keep = FALSE, !.locked = FALSE, !.altered = FALSE]
Unload(x, altered) ==
  [x EXCEPT !.keep = FALSE, !.locked = FALSE, !.altered = altered]

\* vmmuld and vmmuln, one key: a saved field stays, another goes at once
Release(T, s, altered) ==
  LET i == T.s[s].bk
      U == [T EXCEPT !.s[s] = Unload(@, altered)]
  IN  IF i = 0 THEN U
      ELSE IF Keep(s) THEN [U EXCEPT !.b[i] = Unload(@, altered)] ELSE EjectBlock(U, i, FALSE)

Uld(s) ==
  /\ Become(Release(Tables(TRUE), s, slices[s].altered))
  /\ champs_bloques' = OneLess(s)
  /\ UNCHANGED <<ctl, due>>

UldTurn(c, T, i) ==
  IF InUse(T.b[i]) THEN Release(T, T.b[i].slice, T.s[T.b[i].slice].altered) ELSE T

UldAll ==
  /\ Become(Repeat(UldTurn, {}, Tables(TRUE), Len(blocks)))
  /\ champs_bloques' = 0
  /\ UNCHANGED <<ctl, due>>

\* vmmuln: what was written since the last vmmget but one is given up
Uln(s) ==
  /\ GiveUp(Release(Tables(TRUE), s, slices[s].was),
            IF slices[s].altered /\ ~slices[s].was THEN {s} ELSE {})
  /\ champs_bloques' = OneLess(s)
  /\ UNCHANGED ctl

\* vmmrls: out of memory, without saving
Rls(s) ==
  /\ IF InCore(s) THEN GiveUp(EjectBlock(Tables(TRUE), slices[s].bk, FALSE), {s})
     ELSE GiveUp(Tables(TRUE), {})
  /\ champs_bloques' = OneLess(s)
  /\ UNCHANGED ctl

\* vmmfgt: neither in memory nor on disk; the block goes out of use without
\* entering the list, and champs_bloques is not told
Fgt(s) ==
  /\ InCore(s) => ForgetInCore
  /\ GiveUp([Tables(TRUE) EXCEPT
               !.s[s] = NotInCore(FALSE),
               !.b = [i \in DOMAIN @ |-> IF i = slices[s].bk THEN Emptied(blocks[i])
                                         ELSE blocks[i]]], {s})
  /\ UNCHANGED <<champs_bloques, ctl>>

SaveAltered(c, T, i) == IF InUse(T.b[i]) /\ Altered(T.b[i]) THEN Save(T, i) ELSE T

\* vmmsav of a slice that is in memory (the code takes it for granted)
Sav(s) ==
  /\ InCore(s)
  /\ Become(SaveAltered({}, Tables(TRUE), slices[s].bk))
  /\ UNCHANGED <<champs_bloques, ctl, due>>

SavAll ==
  /\ Become(Repeat(SaveAltered, {}, Tables(TRUE), Len(blocks)))
  /\ UNCHANGED <<champs_bloques, ctl, due>>

Pak ==
  /\ \E intact \in BOOLEAN : Become(Pack(Tables(intact), 1, FALSE))
  /\ UNCHANGED <<champs_bloques, ctl, due>>

\* ecrit_vmm_controle: as if nothing were in memory
Controle(T) ==
  [written |-> TRUE, base |-> T.base, image |-> {s \in Slices : T.s[s].image}]

\* vmmcpk: saves what is altered and ejects the other blocks
CpkTurn(c, T, i) ==
  IF ~InUse(T.b[i]) THEN T
  ELSE IF Altered(T.b[i]) THEN Save(T, i) ELSE EjectBlock(T, i, FALSE)

Cpk ==
  LET T == Repeat(CpkTurn, {}, Tables(TRUE), Len(blocks))
  IN  /\ \A i \in DOMAIN blocks : ~blocks[i].keep
      /\ Become(T)
      /\ ctl' = Controle(T)
      /\ UNCHANGED <<champs_bloques, due>>

\* vmmckmx: only the MUSTEXIST variables are saved, the other saved ones that
\* are in memory lose their image, and what was written in them is given up
GivenUp(b) == InUse(b) /\ Keep(b.slice) /\ VarOf[b.slice] \notin MustExist

CkmxTurn(c, T, i) ==
  LET b == T.b[i]
  IN  IF InUse(b) /\ VarOf[b.slice] \in MustExist /\ (b.altered \/ b.was) THEN Save(T, i)
      ELSE IF GivenUp(b)
      THEN [T EXCEPT !.b[i] = Cleaned(@), !.s[b.slice] = Imaged(@, FALSE)]
      ELSE T

Ckmx ==
  LET T == Repeat(CkmxTurn, {}, Tables(TRUE), Len(blocks))
  IN  /\ GiveUp(T, {blocks[i].slice : i \in {j \in DOMAIN blocks : GivenUp(blocks[j])}})
      /\ ctl' = Controle(T)
      /\ UNCHANGED champs_bloques

\* word 1 of the data file outlives the program
FirstFreeWordAgain == 1
FirstFreeWord == IF ctl.written THEN wp ELSE 1

\* The program stops, anywhere, and another one calls vmmallc: it has the
\* control file of the last checkpoint and the data file as it is now.
Restart ==
  /\ blocks' = Arena
  /\ slices' = [s \in Slices |-> NotInCore(s \in ctl.image)]
  /\ first_free_bloc' = 1
  /\ champs_bloques' = 0
  /\ base' = ctl.base
  /\ wp' = FirstFreeWord
  /\ due' = {}
  /\ file' = [w \in DOMAIN file |-> Current(file[w], FALSE)]
  /\ UNCHANGED ctl

Call(s) ==
  \/ Get(s) \/ Write(s) \/ Lck(s) \/ Ulk(s) \/ Uld(s) \/ Uln(s) \/ Rls(s)
  \/ Fgt(s) \/ Sav(s)

Next ==
  \/ \E n \in 1 .. MaxKeys : \E ks \in [1 .. n -> Slices] : Lod(ks)
  \/ \E s \in Slices : Call(s)
  \/ UlkAll \/ UldAll \/ SavAll \/ Pak \/ Cpk \/ Ckmx \/ Restart

Spec == Init /\ [][Next]_vars

---------------------------------------------------------------------------
(* Properties. *)

(* What vmmint checks, and more: the slice of a block names that block, the *)
(* block carries the attributes of its slice and the file address of it.    *)
TablesAgree ==
  /\ \A i \in DOMAIN blocks : InUse(blocks[i]) =>
       LET b == blocks[i]  s == slices[b.slice]
       IN  /\ s.bk = i
           /\ <<b.keep, b.locked, b.altered, b.was>> = <<s.keep, s.locked, s.altered, s.was>>
           /\ b.file = FileAdr(Tables(TRUE), b.slice)
  /\ \A s \in Slices : InCore(s) => blocks[slices[s].bk].slice = s

(* Splitting, merging and moving blocks neither loses nor shares memory:    *)
(* the blocks tile the arena in the order of their numbers.                 *)
BlocksTileMemory ==
  /\ blocks[1].adr = 0
  /\ \A i \in DOMAIN blocks :
       /\ blocks[i].size > 0
       /\ InUse(blocks[i]) => blocks[i].size = Len8(blocks[i].slice)
       /\ blocks[i].adr + blocks[i].size =
            IF i = Len(blocks) THEN MaxMem ELSE blocks[i + 1].adr

IsFirst(k, is) == IF is = {} THEN k = 0 ELSE k \in is /\ \A j \in is : k <= j
IsLast(k, is)  == IF is = {} THEN k = 0 ELSE k \in is /\ \A j \in is : j <= k

(* From first_free_bloc the list threads exactly the free blocks, in order, *)
(* both ways: trouve_best_fit ends, and never gives a block that is in use. *)
FreeListIsExact ==
  LET free == Free(blocks)
  IN  /\ free # {} => IsFirst(first_free_bloc, free)
      /\ \A i \in free : /\ IsFirst(blocks[i].next, {j \in free : j > i})
                         /\ IsLast(blocks[i].prev, {j \in free : j < i})

(* trouve_best_free looks for "un best_fit parmis les blocs vides": whatever *)
(* the size asked for, the block that trouve_best_fit gives is free.         *)
BestFitIsFree ==
  \A size \in 1 .. MaxMem :
    LET k == TrouveBestFit(Tables(TRUE), size) IN k # 0 => ~InUse(blocks[k])

(* Whatever is loaded, ejected, packed, saved and loaded again, a slice the *)
(* caller wrote and has not given up holds what was written last: in its    *)
(* block while in memory, in the file, where a load looks, otherwise.       *)
WhatWasWrittenIsKept ==
  \A s \in due :
    IF InCore(s) THEN blocks[slices[s].bk].cur
    ELSE slices[s].image /\ OnFile(Tables(TRUE), s)

(* The file space of a variable is below wp and no other variable's, after  *)
(* a restart from an older control file too.                                *)
FileSpaceIsDisjoint ==
  \A v, u \in Variables :
    base[v] # NoAdr =>
      LET last == base[v] + Cardinality(Pieces(v)) * Length[v]
      IN  /\ last <= wp
          /\ base[u] # NoAdr /\ u # v =>
               last <= base[u] \/ base[u] + Cardinality(Pieces(u)) * Length[u] <= base[v]

(* At any moment a restart from the control file reads, for each slice the  *)
(* last checkpoint counts on disk, words of that slice.                     *)
CheckpointIsReadable ==
  \A s \in ctl.image :
    LET T == [base |-> ctl.base]
    IN  /\ ctl.base[VarOf[s]] # NoAdr
        /\ \A w \in Words(FileAdr(T, s), s) : file[w].of = s

(* vmmlod places several keys in one go only when champs_bloques is 0: then *)
(* nothing is locked.                                                       *)
LocksAreCounted == champs_bloques = 0 => \A s \in Slices : ~slices[s].locked

(* The address of a locked field is in the caller's hands: no load and no   *)
(* pack moves or ejects it.  A step that unlocks changes champs_bloques,    *)
(* except vmmcpk, which leaves no field that has to be kept.                *)
LockedFieldsStay ==
  [][\A s \in Slices :
       InCore(s) /\ slices[s].locked =>
         \/ slices'[s].bk # 0 /\ slices'[s].locked
               /\ blocks'[slices'[s].bk].adr = blocks[slices[s].bk].adr
         \/ champs_bloques' # champs_bloques
         \/ \A i \in DOMAIN blocks' : ~blocks'[i].keep]_vars
=============================================================================
