----------------------------- MODULE Vmm_proofs -----------------------------
(***************************************************************************)
(* The calls of the virtual memory manager keep its invariant: through     *)
(* every load, ejection, packing, save, checkpoint and restart the tables  *)
(* agree, the blocks tile the arena, the list of free blocks is exact,     *)
(* locked fields stay, what the control file counts on disk can be read,   *)
(* and what was written is kept.                                           *)
(***************************************************************************)
EXTENDS VmmTables_proofs

---------------------------------------------------------------------------
(* The calls. *)

TablesNext ==
  [b |-> blocks', s |-> slices', first |-> first_free_bloc', base |-> base',
   wp |-> wp', file |-> file', intact |-> TRUE]

GoodStep ==
  /\ GoodState(TablesNext, champs_bloques', ctl')
  /\ LockedKept(Tables(TRUE), TablesNext, champs_bloques, champs_bloques')

(* The slices whose content counts are saved ones, and sound.  Without the  *)
(* second conjunct a checkpoint could give up marks that stand for contents *)
(* which are never written; without the first a copy could overlap.         *)
Content(T, D) ==
  /\ Even(T.b)
  /\ \A x \in Slices : Marks(T, x) => Keep(x)
  /\ \A x \in D : x \in Slices /\ Keep(x) /\ Sound(T, x)

ContentStep == Content(Tables(TRUE), due) => Content(TablesNext, due')

LEMMA ContentStays ==
  ASSUME NEW T, NEW U, NEW D, NEW E, NEW X, Content(T, D), Spares(T, U, X), U.wp <= MaxFile + 1, E \subseteq D \ X
  PROVE  Content(U, E)
<1>1. Even(U.b) BY DEF Content, Spares
<1>2. \A x \in Slices : Marks(U, x) => Keep(x) BY DEF Content, Spares
<1>3. ASSUME NEW x \in E PROVE x \in Slices /\ Keep(x) /\ Sound(U, x)
  <2>1. x \in Slices \ X /\ Keep(x) /\ Sound(T, x) /\ Even(T.b) BY DEF Content
  <2> QED BY <2>1 DEF Spares
<1> QED BY <1>1, <1>2, <1>3 DEF Content

LEMMA StepKeeps ==
  ASSUME GoodStep
  PROVE  VInv'
BY DEF GoodStep, VInv, Tables, TablesNext

\* U, whatever a copy between overlapping ranges does
Exact(U) ==
  [b |-> U.b, s |-> U.s, first |-> U.first, base |-> U.base, wp |-> U.wp, file |-> U.file, intact |-> TRUE]

LEMMA ExactIs ==
  ASSUME NEW U
  PROVE  LET E == Exact(U)
         IN  /\ E.b = U.b /\ E.s = U.s /\ E.first = U.first /\ E.base = U.base /\ E.wp = U.wp
             /\ E.file = U.file
BY DEF Exact

LEMMA ExactGood ==
  ASSUME NEW U, Good(U)
  PROVE  Good(Exact(U))
<1> DEFINE E == Exact(U)
<1>1. E.b = U.b /\ E.s = U.s /\ E.first = U.first /\ E.base = U.base /\ E.wp = U.wp /\ E.file = U.file BY ExactIs
<1>2. TypedTables(E)
  <2>1. TypedTables(U) BY GoodIs
  <2> QED BY <2>1 DEF TypedTables, Exact
<1> HIDE DEF E
<1>3. \A x : FileAdr(E, x) = FileAdr(U, x) BY <1>1 DEF FileAdr
<1>4. Memory(E.b, E.s, E.first) BY <1>1 DEF Good
<1>5. Told(E) BY <1>1, <1>3 DEF Good, Told
<1>6. Reserved(E.base, E.wp) BY <1>1 DEF Good
<1>7. Written(E) = Written(U) BY <1>1, <1>3 DEF Written
<1>8. ImagesWritten(E) BY <1>1, <1>7 DEF Good, ImagesWritten
<1>9. Good(E) BY <1>2, <1>4, <1>5, <1>6, <1>8 DEF Good
<1> QED BY <1>9 DEF E

LEMMA ExactExtends ==
  ASSUME NEW T, NEW U, Extends(T, U)
  PROVE  Extends(Exact(T), Exact(U))
<1> DEFINE D == Exact(T)
           E == Exact(U)
<1>1. D.base = T.base /\ D.wp = T.wp /\ D.file = T.file BY ExactIs
<1>2. E.base = U.base /\ E.wp = U.wp /\ E.file = U.file BY ExactIs
<1> HIDE DEF D, E
<1>3. (\A x : FileAdr(D, x) = FileAdr(T, x)) /\ \A x : FileAdr(E, x) = FileAdr(U, x) BY <1>1, <1>2 DEF FileAdr
<1>4. Written(D) = Written(T) /\ Written(E) = Written(U) BY <1>1, <1>2, <1>3 DEF Written
<1>5. Extends(D, E) BY <1>1, <1>2, <1>4 DEF Extends
<1> QED BY <1>5 DEF D, E

LEMMA ExactContent ==
  ASSUME NEW U, NEW D
  PROVE  Content(Exact(U), D) = Content(U, D)
<1> DEFINE E == Exact(U)
<1>1. E.b = U.b /\ E.s = U.s /\ E.base = U.base /\ E.wp = U.wp /\ E.file = U.file BY ExactIs
<1> HIDE DEF E
<1>2. \A x : OnDisk(E, x) = OnDisk(U, x) BY <1>1, OnDiskIs
<1>3. \A x : Marks(E, x) = Marks(U, x) /\ Sound(E, x) = Sound(U, x) BY <1>1, <1>2 DEF Marks, Sound
<1>4. Content(E, D) = Content(U, D) BY <1>1, <1>3 DEF Content
<1> QED BY <1>4 DEF E

LEMMA ExactStays ==
  ASSUME NEW T, NEW U, NEW X, Stays(X, T, U)
  PROVE  Stays(X, Exact(T), Exact(U))
<1> DEFINE D == Exact(T)
           E == Exact(U)
<1>1. D.b = T.b /\ D.s = T.s /\ E.b = U.b /\ E.s = U.s BY ExactIs
<1> HIDE DEF D, E
<1>2. Stays(X, D, E) BY <1>1 DEF Stays
<1> QED BY <1>2 DEF D, E

LEMMA ExactTables ==
  /\ \A i : Exact(Tables(i)) = Tables(TRUE)
  /\ \A U : Become(U) => TablesNext = Exact(U) /\ U.wp <= MaxFile + 1 /\ TablesNext.wp = U.wp
<1>1. \A i : Exact(Tables(i)) = Tables(TRUE) BY DEF Exact, Tables
<1>2. ASSUME NEW U, Become(U) PROVE TablesNext = Exact(U) /\ U.wp <= MaxFile + 1 /\ TablesNext.wp = U.wp
  BY <1>2 DEF Become, Exact, TablesNext
<1> QED BY <1>1, <1>2

LEMMA TablesGood ==
  ASSUME NEW i \in BOOLEAN, Good(Tables(TRUE))
  PROVE  Good(Tables(i))
<1> DEFINE T == Tables(TRUE)
           U == Tables(i)
<1>1. /\ U.b = T.b /\ U.s = T.s /\ U.first = T.first /\ U.base = T.base /\ U.wp = T.wp /\ U.file = T.file
  BY DEF Tables
<1>2. TypedTables(U)
  <2>1. TypedTables(T) BY GoodIs
  <2> QED BY <2>1 DEF TypedTables, Tables
<1>10. Good(T) OBVIOUS
<1> HIDE DEF T, U
<1>3. \A x : FileAdr(U, x) = FileAdr(T, x) BY <1>1 DEF FileAdr
<1>4. Memory(U.b, U.s, U.first) BY <1>1, <1>10 DEF Good
<1>5. Told(U) BY <1>1, <1>3, <1>10 DEF Good, Told
<1>6. Reserved(U.base, U.wp) BY <1>1, <1>10 DEF Good
<1>7. Written(U) = Written(T) BY <1>1, <1>3 DEF Written
<1>8. ImagesWritten(U) BY <1>1, <1>7, <1>10 DEF Good, ImagesWritten
<1>9. Good(U) BY <1>2, <1>4, <1>5, <1>6, <1>8 DEF Good
<1> QED BY <1>9 DEF U

(* What is sound stays so, but in the slices that are given up.            *)
LEMMA BecomeSpares ==
  ASSUME NEW i \in BOOLEAN, NEW U, NEW X, Spares(Tables(i), U, X), Become(U), due' \subseteq due \ X
  PROVE  ContentStep
<1> DEFINE T == Tables(TRUE)
           V == TablesNext
<1>1. V = Exact(U) /\ U.wp <= MaxFile + 1 /\ T = Exact(Tables(i)) BY ExactTables
<1> HIDE DEF T, V
<1>2. ASSUME Content(T, due) PROVE Content(V, due')
  <2>1. Content(Tables(i), due) BY <1>1, <1>2, ExactContent
  <2>2. Content(U, due') BY <1>1, <2>1, ContentStays
  <2> QED BY <1>1, <2>2, ExactContent
<1> QED BY <1>2 DEF ContentStep, T, V

LEMMA BecomeServes ==
  ASSUME VInv, NEW i \in BOOLEAN, NEW U, Serves(Tables(i), U), Become(U), UNCHANGED <<champs_bloques, ctl, due>>
  PROVE  GoodStep /\ ContentStep
<1> DEFINE T == Tables(TRUE)
           V == TablesNext
           n == champs_bloques
           c == ctl
<1>1. GoodState(T, n, c) BY DEF VInv
<1>2. Good(U) /\ Extends(Tables(i), U) /\ Stays(Slices, Tables(i), U) BY DEF Loads, Serves
<1>9. ContentStep
  <2>1. Spares(Tables(i), U, {}) BY DEF Serves
  <2>2. due' \subseteq due \ {} OBVIOUS
  <2> QED BY <2>1, <2>2, BecomeSpares
<1>3. V = Exact(U) /\ V.wp <= MaxFile + 1 BY ExactTables
<1>4. T = Exact(Tables(i)) BY ExactTables
<1> HIDE DEF T, V
<1>5. Good(V) /\ Extends(T, V) /\ Stays(Slices, T, V) BY <1>2, <1>3, <1>4, ExactGood, ExactExtends, ExactStays
<1>6. Loads(T, V) BY <1>5 DEF Loads
<1> HIDE DEF n, c
<1>7. GoodState(V, n, c) /\ LockedKept(T, V, n, n) BY <1>1, <1>3, <1>6, LoadsStep
<1>8. champs_bloques' = n /\ ctl' = c /\ champs_bloques = n BY DEF n, c
<1> QED BY <1>7, <1>8, <1>9 DEF GoodStep, T, V

LEMMA LodStep ==
  ASSUME VInv, NeverExactlyFull, NEW n \in 1 .. MaxKeys, NEW ks \in [1 .. n -> Slices], Lod(ks)
  PROVE  GoodStep /\ ContentStep
<1>1. PICK i \in BOOLEAN : /\ Become(Vmmlod(Tables(i), ks, champs_bloques).t)
                           /\ UNCHANGED <<champs_bloques, ctl, due>>
  BY DEF Lod
<1> DEFINE T == Tables(i)
           U == Vmmlod(T, ks, champs_bloques).t
           locks == champs_bloques
<1>2. Good(Tables(TRUE)) BY DEF VInv, GoodState
<1>3. Good(T) /\ n \in Nat
  <2>1. n \in Nat BY VmmAssumption
  <2>2. Good(T) BY <1>2, TablesGood
  <2> QED BY <2>1, <2>2
<1> HIDE DEF T, locks
<1>4. Serves(T, Vmmlod(T, ks, locks).t) BY <1>3, VmmlodGood
<1>5. Serves(Tables(i), U) BY <1>4 DEF T, locks
<1>6. Become(U) BY <1>1 DEF T
<1> HIDE DEF U
<1> QED BY <1>1, <1>5, <1>6, BecomeServes

LEMMA SaveAlteredGood ==
  ASSUME NEW c, NEW T, NEW i, Good(T), i \in 1 .. Len(T.b)
  PROVE  LET U == SaveAltered(c, T, i) IN Good(U) /\ Bears(T, U) /\ Filed(T, U)
<1>1. CASE InUse(T.b[i]) /\ Altered(T.b[i])
  <2> DEFINE U == Save(T, i)
  <2>1. SaveAltered(c, T, i) = U BY <1>1 DEF SaveAltered
  <2>2. Good(U) /\ Bears(T, U) /\ Filed(T, U) BY <1>1, SaveGood DEF Bears
  <2> HIDE DEF U
  <2> QED BY <2>1, <2>2
<1>2. CASE ~(InUse(T.b[i]) /\ Altered(T.b[i]))
  <2>1. SaveAltered(c, T, i) = T BY <1>2 DEF SaveAltered
  <2>2. Bears(T, T) BY ExtendsSelf
  <2>3. Filed(T, T) BY GoodIs DEF Filed, Marked
  <2> QED BY <2>1, <2>2, <2>3
<1> QED BY <1>1, <1>2

Saves(d, U, k) == Good(U) /\ Bears(d, U) /\ Filed(d, U)

LV == INSTANCE Loops WITH Turn <- SaveAltered, Inv <- Saves

LEMMA FiledLoads ==
  ASSUME NEW T, NEW U, Good(T), Good(U), Extends(T, U), Filed(T, U)
  PROVE  Loads(T, U)
BY FiledStays DEF Loads

LEMMA FiledServes ==
  ASSUME NEW T, NEW U, Good(T), Good(U), Bears(T, U), Filed(T, U)
  PROVE  Serves(T, U)
BY FiledLoads DEF Bears, Serves

LEMMA SaveAllGood ==
  ASSUME NEW T, Good(T)
  PROVE  Serves(T, Repeat(SaveAltered, {}, T, Len(T.b)))
<1> DEFINE n == Len(T.b)
           none == {}
           z == LV!After(none, T, n)
<1>1. n \in Nat BY GoodIs
<1>2. Saves(T, T, 0)
  <2>1. Bears(T, T) BY ExtendsSelf
  <2>2. Filed(T, T) BY GoodIs DEF Filed, Marked
  <2> QED BY <2>1, <2>2 DEF Saves
<1> HIDE DEF none
<1>3. \A k \in 1 .. n : \A U : Saves(T, U, k - 1) => Saves(T, SaveAltered(none, U, k), k)
  <2> SUFFICES ASSUME NEW k \in 1 .. n, NEW U, Saves(T, U, k - 1) PROVE Saves(T, SaveAltered(none, U, k), k) OBVIOUS
  <2>1. Good(U) /\ Bears(T, U) /\ Filed(T, U) BY DEF Saves
  <2>2. k \in 1 .. Len(U.b) BY <2>1 DEF Filed, Marked
  <2> DEFINE V == SaveAltered(none, U, k)
  <2>3. Good(V) /\ Bears(U, V) /\ Filed(U, V) BY <2>1, <2>2, SaveAlteredGood
  <2> HIDE DEF V
  <2>4. Bears(T, V)
    <3>1. TypedTables(T) /\ TypedTables(U) /\ TypedTables(V) BY <2>1, <2>3, GoodIs
    <3> QED BY <2>1, <2>3, <3>1, BearsTrans
  <2>5. Filed(T, V) BY <2>1, <2>3, FiledTrans
  <2>6. Saves(T, V, k) BY <2>3, <2>4, <2>5 DEF Saves
  <2> QED BY <2>6 DEF V
<1> HIDE DEF n
<1>4. Saves(T, z, n) BY <1>1, <1>2, <1>3, LV!LoopKeeps
<1>5. z = Repeat(SaveAltered, {}, T, Len(T.b)) BY DEF z, n, none, Repeat, LV!After
<1> HIDE DEF z
<1>6. Serves(T, z) BY <1>4, FiledServes DEF Saves
<1> QED BY <1>5, <1>6

LEMMA SavStep ==
  ASSUME VInv, NEW s \in Slices, Sav(s)
  PROVE  GoodStep /\ ContentStep
<1> DEFINE on == TRUE
           T == Tables(on)
           i == slices[s].bk
           none == {}
           U == SaveAltered(none, T, i)
<1>1. Become(U) /\ UNCHANGED <<champs_bloques, ctl, due>> /\ i # 0 BY DEF Sav, InCore
<1>2. Good(T) BY DEF VInv, GoodState
<1>3. T.s = slices BY DEF Tables
<1>4. i \in 1 .. Len(T.b)
  <2> HIDE DEF T
  <2> QED BY <1>1, <1>2, <1>3, GoodIs DEF Names
<1>5. on \in BOOLEAN OBVIOUS
<1> HIDE DEF on, i, none
<1>6. Serves(T, U)
  <2> HIDE DEF T
  <2> DEFINE V == SaveAltered(none, T, i)
  <2>1. Good(V) /\ Bears(T, V) /\ Filed(T, V) BY <1>2, <1>4, SaveAlteredGood
  <2> HIDE DEF V
  <2>2. Serves(T, V) BY <1>2, <2>1, FiledServes
  <2> QED BY <2>2 DEF V
<1> HIDE DEF U
<1> QED BY <1>1, <1>5, <1>6, BecomeServes

LEMMA SavAllStep ==
  ASSUME VInv, SavAll
  PROVE  GoodStep /\ ContentStep
<1> DEFINE on == TRUE
           T == Tables(on)
           U == Repeat(SaveAltered, {}, T, Len(T.b))
<1>1. T.b = blocks BY DEF Tables
<1>2. Become(U) /\ UNCHANGED <<champs_bloques, ctl, due>> BY <1>1 DEF SavAll
<1>3. Good(T) BY DEF VInv, GoodState
<1>4. on \in BOOLEAN OBVIOUS
<1> HIDE DEF on
<1>5. Serves(T, U)
  <2> HIDE DEF T
  <2> QED BY <1>3, SaveAllGood
<1> HIDE DEF U
<1> QED BY <1>2, <1>4, <1>5, BecomeServes

LEMMA PakStep ==
  ASSUME VInv, Pak
  PROVE  GoodStep /\ ContentStep
<1>1. PICK i \in BOOLEAN : Become(Pack(Tables(i), 1, FALSE)) BY DEF Pak
<1>2. UNCHANGED <<champs_bloques, ctl, due>> BY DEF Pak
<1> DEFINE T == Tables(i)
           one == 1
           U == Pack(T, one, FALSE)
<1>3. Good(Tables(TRUE)) BY DEF VInv, GoodState
<1>4. Good(T) BY <1>3, TablesGood
<1>5. Become(U) BY <1>1
<1>6. Serves(T, U)
  <2> HIDE DEF T
  <2>1. one \in 1 .. Len(T.b) BY <1>4, GoodIs
  <2> HIDE DEF one
  <2>2. Arranged(T, U) BY <1>4, <2>1, PackArranged
  <2> QED BY <1>4, <2>2, ArrangedServes
<1> HIDE DEF U
<1> QED BY <1>2, <1>5, <1>6, BecomeServes

LEMMA CurrentIs ==
  ASSUME NEW cur \in BOOLEAN
  PROVE  /\ \A x \in Block :
              LET y == Current(x, cur)
              IN  /\ y \in Block /\ y.slice = x.slice /\ y.adr = x.adr /\ y.size = x.size /\ SameFlags(y, x)
                  /\ y.prev = x.prev /\ y.next = x.next /\ y.file = x.file /\ y.cur = cur
         /\ \A x \in Word : Current(x, cur) \in Word /\ Current(x, cur).of = x.of /\ Current(x, cur).cur = cur
<1>1. ASSUME NEW x \in Block
      PROVE  LET y == Current(x, cur)
             IN  /\ y \in Block /\ y.slice = x.slice /\ y.adr = x.adr /\ y.size = x.size /\ SameFlags(y, x)
                 /\ y.prev = x.prev /\ y.next = x.next /\ y.file = x.file /\ y.cur = cur
  BY DEF Block, Current, SameFlags
<1>2. ASSUME NEW x \in Word
      PROVE  Current(x, cur) \in Word /\ Current(x, cur).of = x.of /\ Current(x, cur).cur = cur
  BY DEF Word, Current
<1> QED BY <1>1, <1>2

\* block y is block x, slice y slice x, with other marks
BlockMark(x, y) ==
  /\ y \in Block /\ y.slice = x.slice /\ y.adr = x.adr /\ y.size = x.size
  /\ y.prev = x.prev /\ y.next = x.next /\ y.file = x.file

SliceMark(x, y) == y \in Slice /\ y.bk = x.bk /\ (y.image => x.image)

\* U is T with file f, blocks c and slices t
Remade(T, U, f, c, t) ==
  U = [b |-> c, s |-> t, first |-> T.first, base |-> T.base, wp |-> T.wp, file |-> f, intact |-> T.intact]

LEMMA RemadeIs ==
  ASSUME NEW T, NEW U, NEW f, NEW c, NEW t, TypedTables(T), Remade(T, U, f, c, t), f \in [1 .. MaxFile -> Word],
         c \in Seq(Block), t \in [Slices -> Slice]
  PROVE  Refiled(T, U, T.base, T.wp, f, c, t)
<1>1. TypedTables(U) BY TypedIs DEF TypedTables, Remade
<1>2. /\ U.base = T.base /\ U.wp = T.wp /\ U.file = f /\ U.b = c /\ U.s = t
      /\ U.first = T.first /\ U.intact = T.intact
  BY DEF Remade
<1> QED BY <1>1, <1>2 DEF Refiled

LEMMA MarkingBy ==
  ASSUME NEW T, NEW U, NEW c, NEW t, NEW f, Good(T), Remade(T, U, f, c, t),
         c \in Seq(Block), Len(c) = Len(T.b), t \in [Slices -> Slice],
         f \in [1 .. MaxFile -> Word], \A w \in 1 .. MaxFile : f[w].of = T.file[w].of,
         \A x \in Slices : SliceMark(T.s[x], t[x]) /\ (T.s[x].bk = 0 => ~t[x].locked),
         \A j \in 1 .. Len(T.b) :
           /\ BlockMark(T.b[j], c[j])
           /\ IF InUse(T.b[j]) THEN SameFlags(c[j], t[T.b[j].slice]) ELSE ~c[j].locked /\ ~c[j].keep
  PROVE  Marking(T, U) /\ U.s = t /\ U.b = c /\ U.file = f
<1>1. TypedTables(T) BY GoodIs
<1>2. Refiled(T, U, T.base, T.wp, f, c, t) BY <1>1, RemadeIs
<1>3. /\ TypedTables(U) /\ U.base = T.base /\ U.wp = T.wp /\ U.file = f /\ U.b = c /\ U.s = t
      /\ U.first = T.first
  BY <1>2 DEF Refiled
<1>4. Marked(T.b, c) BY DEF Marked, BlockMark
<1>5. \A x \in Slices : t[x].bk = T.s[x].bk /\ (t[x].image => T.s[x].image) /\ (T.s[x].bk = 0 => ~t[x].locked)
  BY DEF SliceMark
<1>6. \A j \in 1 .. Len(T.b) :
        /\ c[j].file = T.b[j].file
        /\ IF InUse(T.b[j]) THEN SameFlags(c[j], t[T.b[j].slice]) ELSE ~c[j].locked /\ ~c[j].keep
  BY DEF BlockMark
<1>7. \A w \in 1 .. MaxFile : f[w].of = T.file[w].of OBVIOUS
<1>8. Marking(T, U) BY <1>3, <1>4, <1>5, <1>6, <1>7 DEF Marking
<1> QED BY <1>3, <1>8

LEMMA Unmarked ==
  ASSUME NEW T, NEW j, Good(T), j \in 1 .. Len(T.b)
  PROVE  /\ BlockMark(T.b[j], T.b[j])
         /\ IF InUse(T.b[j]) THEN T.b[j].slice \in Slices /\ T.s[T.b[j].slice].bk = j
                                  /\ SameFlags(T.b[j], T.s[T.b[j].slice])
            ELSE T.b[j].slice = NoSlice /\ ~T.b[j].locked /\ ~T.b[j].keep
<1> DEFINE b == T.b
           s == T.s
           y == b[j]
<1>1. y \in Block /\ Names(b, s) /\ j \in DOMAIN b /\ y = b[j] BY GoodIs
<1>2. BlockMark(y, y) BY <1>1 DEF BlockMark
<1>3. InUse(y) => y.slice \in Slices
  <2> HIDE DEF y
  <2> QED BY <1>1, BlockIs DEF InUse
<1> HIDE DEF b, s, y
<1>4. IF InUse(y) THEN s[y.slice].bk = j /\ SameFlags(y, s[y.slice])
      ELSE y.slice = NoSlice /\ ~y.locked /\ ~y.keep
  BY <1>1 DEF Names, InUse
<1> QED BY <1>2, <1>3, <1>4 DEF b, s, y

(* One slice in memory, and its block, change their marks.                 *)
OneOther(T, c, t, x) ==
  LET i == T.s[x].bk
  IN  /\ x \in Slices /\ i # 0 /\ c \in Seq(Block) /\ Len(c) = Len(T.b) /\ t \in [Slices -> Slice]
      /\ BlockMark(T.b[i], c[i]) /\ SliceMark(T.s[x], t[x]) /\ SameFlags(c[i], t[x]) /\ c[i].cur = T.b[i].cur
      /\ \A j \in (1 .. Len(T.b)) \ {i} : c[j] = T.b[j]
      /\ \A y \in Slices \ {x} : t[y] = T.s[y]

\* the contents in the blocks and in the file
SameContent(T, U) == U.file = T.file /\ \A j \in 1 .. Len(T.b) : U.b[j].cur = T.b[j].cur

LEMMA OneMarking ==
  ASSUME NEW T, NEW U, NEW c, NEW t, NEW x, Good(T), Remade(T, U, T.file, c, t), OneOther(T, c, t, x)
  PROVE  Marking(T, U) /\ U.s = t /\ SameContent(T, U)
<1> DEFINE i == T.s[x].bk
<1>7. /\ x \in Slices /\ i # 0 /\ c \in Seq(Block) /\ Len(c) = Len(T.b) /\ t \in [Slices -> Slice]
      /\ BlockMark(T.b[i], c[i]) /\ SliceMark(T.s[x], t[x]) /\ SameFlags(c[i], t[x]) /\ c[i].cur = T.b[i].cur
      /\ \A j \in (1 .. Len(T.b)) \ {i} : c[j] = T.b[j]
      /\ \A y \in Slices \ {x} : t[y] = T.s[y]
  BY DEF OneOther
<1> DEFINE f == T.file
<1>1. f \in [1 .. MaxFile -> Word] /\ \A w \in 1 .. MaxFile : f[w].of = T.file[w].of
  <2>1. TypedTables(T) BY GoodIs
  <2> QED BY <2>1, TypedIs
<1>2. i \in 1 .. Len(T.b) /\ T.b[i].slice = x
  <2>1. x \in Slices /\ T.s[x].bk # 0 BY <1>7
  <2> QED BY <2>1, GoodIs DEF Names
<1>6. Remade(T, U, f, c, t) OBVIOUS
<1>8. \A j \in 1 .. Len(T.b) : T.b[j].slice \in Slices /\ T.s[T.b[j].slice].bk = j /\ j # i => T.b[j].slice # x
  OBVIOUS
<1> HIDE DEF f, i
<1>3. \A y \in Slices : SliceMark(T.s[y], t[y]) /\ (T.s[y].bk = 0 => ~t[y].locked)
  <2> SUFFICES ASSUME NEW y \in Slices PROVE SliceMark(T.s[y], t[y]) /\ (T.s[y].bk = 0 => ~t[y].locked) OBVIOUS
  <2>1. CASE y = x
    <3>1. T.s[x].bk # 0 BY <1>7 DEF i
    <3> QED BY <1>7, <2>1, <3>1
  <2>2. CASE y # x
    <3>1. t[y] = T.s[y] /\ T.s[y] \in Slice BY <1>7, <2>2, GoodIs
    <3>2. T.s[y].bk = 0 => ~T.s[y].locked BY GoodIs DEF Names
    <3> QED BY <3>1, <3>2 DEF SliceMark
  <2> QED BY <2>1, <2>2
<1>4. \A j \in 1 .. Len(T.b) :
        /\ BlockMark(T.b[j], c[j])
        /\ IF InUse(T.b[j]) THEN SameFlags(c[j], t[T.b[j].slice]) ELSE ~c[j].locked /\ ~c[j].keep
  <2> SUFFICES ASSUME NEW j \in 1 .. Len(T.b)
               PROVE /\ BlockMark(T.b[j], c[j])
                     /\ IF InUse(T.b[j]) THEN SameFlags(c[j], t[T.b[j].slice]) ELSE ~c[j].locked /\ ~c[j].keep
    OBVIOUS
  <2>1. CASE j = i
    <3>1. InUse(T.b[i]) BY <1>2, <1>7, VmmAssumption DEF InUse
    <3> QED BY <1>2, <1>7, <2>1, <3>1
  <2>2. CASE j # i
    <3> DEFINE z == T.b[j]
    <3>1. c[j] = z BY <1>7, <2>2
    <3>2. BlockMark(z, z) /\ IF InUse(z) THEN z.slice \in Slices /\ T.s[z.slice].bk = j /\ SameFlags(z, T.s[z.slice])
                             ELSE z.slice = NoSlice /\ ~z.locked /\ ~z.keep
      BY Unmarked
    <3> HIDE DEF z
    <3>3. InUse(z) => z.slice # x /\ t[z.slice] = T.s[z.slice] BY <1>7, <1>8, <2>2, <3>2 DEF z
    <3>4. BlockMark(z, c[j]) /\ IF InUse(z) THEN SameFlags(c[j], t[z.slice]) ELSE ~c[j].locked /\ ~c[j].keep
      BY <3>1, <3>2, <3>3
    <3> QED BY <3>4 DEF z
  <2> QED BY <2>1, <2>2
<1>9. Marking(T, U) /\ U.s = t /\ U.b = c /\ U.file = f
  <2>1. c \in Seq(Block) /\ Len(c) = Len(T.b) /\ t \in [Slices -> Slice] BY <1>7
  <2> QED BY <1>1, <1>3, <1>4, <1>6, <2>1, MarkingBy
<1>10. \A j \in 1 .. Len(T.b) : c[j].cur = T.b[j].cur BY <1>7
<1> QED BY <1>9, <1>10 DEF SameContent, f

LEMMA NextWith ==
  ASSUME UNCHANGED <<first_free_bloc, base, wp>>
  PROVE  Remade(Tables(TRUE), TablesNext, file', blocks', slices')
BY DEF TablesNext, Remade, Tables

LEMMA StateIs ==
  ASSUME VInv
  PROVE  /\ Good(Tables(TRUE)) /\ GoodState(Tables(TRUE), champs_bloques, ctl) /\ wp <= MaxFile + 1
         /\ Tables(TRUE).b = blocks /\ Tables(TRUE).s = slices /\ Tables(TRUE).file = file
         /\ Tables(TRUE).wp = wp /\ Tables(TRUE).base = base /\ Tables(TRUE).first = first_free_bloc
         /\ blocks \in Seq(Block) /\ slices \in [Slices -> Slice] /\ DOMAIN blocks = 1 .. Len(blocks)
         /\ Len(blocks) \in Nat /\ file \in [1 .. MaxFile -> Word]
<1> DEFINE T == Tables(TRUE)
<1>1. /\ T.b = blocks /\ T.s = slices /\ T.file = file /\ T.wp = wp /\ T.base = base
      /\ T.first = first_free_bloc
  BY DEF Tables
<1> DEFINE n == champs_bloques
           d == ctl
<1>2. GoodState(T, n, d) BY Zenon DEF VInv
<1> HIDE DEF T
<1>3. Good(T) /\ T.wp <= MaxFile + 1 BY <1>2 DEF GoodState
<1>4. T.b \in Seq(Block) /\ T.s \in [Slices -> Slice] /\ DOMAIN T.b = 1 .. Len(T.b) /\ Len(T.b) \in Nat
      /\ T.file \in [1 .. MaxFile -> Word]
  BY <1>3, GoodIs, TypedIs
<1> QED BY <1>1, <1>2, <1>3, <1>4 DEF T, n, d

LEMMA InCoreIs ==
  ASSUME VInv, NEW x \in Slices, InCore(x)
  PROVE  LET i == slices[x].bk
         IN  /\ i # 0 /\ i \in 1 .. Len(blocks) /\ blocks[i].slice = x /\ blocks[i] \in Block /\ slices[x] \in Slice
             /\ SameFlags(blocks[i], slices[x])
<1> DEFINE T == Tables(TRUE)
           i == slices[x].bk
<1>1. Good(T) /\ T.b = blocks /\ T.s = slices /\ blocks \in Seq(Block) /\ slices \in [Slices -> Slice] BY StateIs
<1> HIDE DEF T
<1>2. i # 0 BY DEF InCore
<1>3. i \in DOMAIN T.b /\ T.b[i].slice = x /\ Names(T.b, T.s) /\ DOMAIN T.b = 1 .. Len(T.b)
  BY <1>1, <1>2, GoodIs DEF Names
<1>4. InUse(T.b[i]) BY <1>3, VmmAssumption DEF InUse
<1>5. SameFlags(T.b[i], T.s[x])
  <2> DEFINE b == T.b
             s == T.s
  <2>1. Names(b, s) /\ i \in DOMAIN b /\ b[i].slice = x /\ InUse(b[i]) BY <1>3, <1>4
  <2> HIDE DEF b, s, i
  <2>2. SameFlags(b[i], s[x]) BY <2>1 DEF Names
  <2> QED BY <2>2 DEF b, s
<1> QED BY <1>1, <1>2, <1>3, <1>5

LEMMA ReplacedIs ==
  ASSUME NEW b, NEW c, NEW i, NEW y, b \in Seq(Block), i \in 1 .. Len(b), y \in Block, c = [b EXCEPT ![i] = y]
  PROVE  c \in Seq(Block) /\ Len(c) = Len(b) /\ c[i] = y /\ \A j \in (1 .. Len(b)) \ {i} : c[j] = b[j]
OBVIOUS

\* slice x of T and its block become z and y, which have the same marks
OneChanged(T, c, t, x, y, z) ==
  /\ T.s[x].bk # 0 /\ BlockMark(T.b[T.s[x].bk], y) /\ SliceMark(T.s[x], z) /\ SameFlags(y, z)
  /\ y.cur = T.b[T.s[x].bk].cur
  /\ c = [T.b EXCEPT ![T.s[x].bk] = y] /\ t = [T.s EXCEPT ![x] = z]

OneMarked(T, U, x, z) ==
  Marking(T, U) /\ U.s[x] = z /\ (\A v \in Slices \ {x} : U.s[v] = T.s[v]) /\ SameContent(T, U)

LEMMA OneChangeIs ==
  ASSUME NEW T, NEW c, NEW t, NEW x, NEW y, NEW z, Good(T), x \in Slices, OneChanged(T, c, t, x, y, z)
  PROVE  OneOther(T, c, t, x) /\ t[x] = z
<1> DEFINE i == T.s[x].bk
           b == T.b
<1>1. b \in Seq(Block) /\ T.s \in [Slices -> Slice] BY GoodIs
<1>2. i # 0 /\ i \in 1 .. Len(b)
  <2>1. T.s[x].bk # 0 BY DEF OneChanged
  <2>2. T.s[x].bk \in 1 .. Len(T.b) BY <2>1, GoodIs DEF Names
  <2> QED BY <2>1, <2>2
<1>3. y \in Block /\ z \in Slice BY DEF OneChanged, BlockMark, SliceMark
<1>4. c \in Seq(Block) /\ Len(c) = Len(b) /\ c[i] = y /\ \A j \in (1 .. Len(b)) \ {i} : c[j] = b[j]
  <2>1. c = [b EXCEPT ![i] = y] BY DEF OneChanged
  <2> HIDE DEF b, i
  <2> QED BY <1>1, <1>2, <1>3, <2>1, ReplacedIs
<1>5. t \in [Slices -> Slice] /\ t[x] = z /\ \A v \in Slices \ {x} : t[v] = T.s[v]
  BY <1>1, <1>3 DEF OneChanged
<1>6. BlockMark(b[i], c[i]) /\ SliceMark(T.s[x], t[x]) /\ SameFlags(c[i], t[x]) /\ c[i].cur = b[i].cur
  BY <1>4, <1>5 DEF OneChanged
<1> QED BY <1>2, <1>4, <1>5, <1>6 DEF OneOther

LEMMA OneChangeMarks ==
  ASSUME NEW T, NEW U, NEW c, NEW t, NEW x, NEW z, Good(T), Remade(T, U, T.file, c, t),
         OneOther(T, c, t, x) /\ t[x] = z
  PROVE  OneMarked(T, U, x, z)
<1>1. Marking(T, U) /\ U.s = t /\ SameContent(T, U) BY OneMarking
<1>2. \A v \in Slices \ {x} : t[v] = T.s[v] BY DEF OneOther
<1> QED BY <1>1, <1>2 DEF OneMarked

LEMMA OneMarkedIs ==
  ASSUME VInv, NEW x \in Slices, NEW y, NEW z, OneChanged(Tables(TRUE), blocks', slices', x, y, z),
         UNCHANGED <<first_free_bloc, base, wp, file>>
  PROVE  /\ OneMarked(Tables(TRUE), TablesNext, x, z)
         /\ Good(TablesNext) /\ Extends(Tables(TRUE), TablesNext) /\ TablesNext.wp <= MaxFile + 1
<1> DEFINE T == Tables(TRUE)
           V == TablesNext
           c == blocks'
           t == slices'
<1>1. Good(T) /\ T.file = file /\ wp <= MaxFile + 1 /\ T.wp = wp BY StateIs
<1>2. Remade(T, V, T.file, c, t) BY <1>1, NextWith
<1>3. V.wp <= MaxFile + 1 BY <1>1 DEF TablesNext
<1>4. OneChanged(T, c, t, x, y, z) OBVIOUS
<1> HIDE DEF T, V, c, t
<1>7. OneOther(T, c, t, x) /\ t[x] = z BY <1>1, <1>4, OneChangeIs
<1>5. OneMarked(T, V, x, z) BY <1>1, <1>2, <1>7, OneChangeMarks
<1>8. Marking(T, V) BY <1>5 DEF OneMarked
<1>6. Good(V) /\ Extends(T, V) BY <1>1, <1>8, MarkingGood
<1> QED BY <1>3, <1>5, <1>6 DEF T, V

\* slice x of T is in U what it was, as far as its content goes
Settled(T, U, x) == U.s[x].image = T.s[x].image /\ (Marks(T, x) => Marks(U, x))

(* No mark is set, and those of the slices outside of X stay.              *)
LEMMA MarkingSpares ==
  ASSUME NEW T, NEW U, NEW X, Good(T), Marking(T, U), SameContent(T, U),
         \A x \in Slices : Marks(U, x) => Marks(T, x), \A x \in Slices \ X : Settled(T, U, x)
  PROVE  Spares(T, U, X)
<1>1. U.base = T.base /\ U.wp = T.wp /\ Marked(T.b, U.b) /\ \A x \in Slices : U.s[x].bk = T.s[x].bk
  BY DEF Marking
<1>2. T.wp <= U.wp
  <2>1. T.wp \in Nat BY GoodIs, TypedIs
  <2> QED BY <1>1, <2>1
<1>3. Even(T.b) => Even(U.b) BY <1>1, MarkedEven
<1>4. ASSUME NEW x \in Slices \ X, Sound(T, x) PROVE Sound(U, x)
  <2>1. OnDisk(U, x) = OnDisk(T, x)
    <3>1. U.file = T.file /\ U.s[x].image = T.s[x].image BY DEF SameContent, Settled
    <3> QED BY <1>1, <3>1, OnDiskIs
  <2>2. U.s[x].bk = T.s[x].bk /\ (Marks(T, x) => Marks(U, x)) BY <1>1 DEF Settled
  <2>3. T.s[x].bk # 0 => U.b[T.s[x].bk].cur = T.b[T.s[x].bk].cur
    <3> SUFFICES ASSUME T.s[x].bk # 0 PROVE U.b[T.s[x].bk].cur = T.b[T.s[x].bk].cur OBVIOUS
    <3>1. T.s[x].bk \in 1 .. Len(T.b) BY GoodIs DEF Names
    <3> QED BY <3>1 DEF SameContent
  <2> QED BY <1>4, <2>1, <2>2, <2>3 DEF Sound
<1> QED BY <1>2, <1>3, <1>4 DEF Spares

LEMMA OneMarkedSpares ==
  ASSUME NEW T, NEW U, NEW x, NEW z, Good(T), OneMarked(T, U, x, z), x \in Slices,
         z.altered \/ z.was => Marks(T, x)
  PROVE  /\ Spares(T, U, {x})
         /\ z.image = T.s[x].image /\ (Marks(T, x) => z.altered \/ z.was) => Spares(T, U, {})
<1>1. Marking(T, U) /\ U.s[x] = z /\ (\A v \in Slices \ {x} : U.s[v] = T.s[v]) /\ SameContent(T, U)
  BY DEF OneMarked
<1>2. \A v \in Slices : Marks(U, v) => Marks(T, v) BY <1>1 DEF Marks
<1>3. \A v \in Slices \ {x} : Settled(T, U, v) BY <1>1 DEF Settled, Marks
<1>4. Spares(T, U, {x})
  <2> DEFINE X == {x}
  <2>1. \A v \in Slices \ X : Settled(T, U, v) BY <1>3
  <2> HIDE DEF X
  <2>2. Spares(T, U, X) BY <1>1, <1>2, <2>1, MarkingSpares
  <2> QED BY <2>2 DEF X
<1>5. ASSUME z.image = T.s[x].image, Marks(T, x) => z.altered \/ z.was PROVE Spares(T, U, {})
  <2> DEFINE X == {}
  <2>1. Settled(T, U, x) BY <1>1, <1>5 DEF Settled, Marks
  <2>2. \A v \in Slices \ X : Settled(T, U, v) BY <1>3, <2>1
  <2> HIDE DEF X
  <2>3. Spares(T, U, X) BY <1>1, <1>2, <2>2, MarkingSpares
  <2> QED BY <2>3 DEF X
<1> QED BY <1>4, <1>5

(* A call that changes the tables and nothing else.                        *)
LEMMA NextSpares ==
  ASSUME VInv, NEW X, Spares(Tables(TRUE), TablesNext, X), wp' <= MaxFile + 1, due' \subseteq due \ X
  PROVE  ContentStep
<1> DEFINE T == Tables(TRUE)
           V == TablesNext
<1>1. V.wp <= MaxFile + 1 /\ Spares(T, V, X) BY DEF TablesNext
<1> HIDE DEF T, V
<1>2. Content(T, due) => Content(V, due') BY <1>1, ContentStays
<1> QED BY <1>2 DEF ContentStep, T, V

LEMMA BlockGivenOut ==
  ASSUME NEW x \in Block, NEW was \in BOOLEAN, NEW altered \in BOOLEAN
  PROVE  LET y == GivenOut(x, was, altered)
         IN  /\ BlockMark(x, y) /\ y.cur = x.cur
             /\ y.keep = x.keep /\ y.locked = TRUE /\ y.was = was /\ y.altered = altered
BY DEF Block, GivenOut, BlockMark

LEMMA SliceGivenOut ==
  ASSUME NEW x \in Slice, NEW was \in BOOLEAN, NEW altered \in BOOLEAN
  PROVE  LET y == GivenOut(x, was, altered)
         IN  /\ SliceMark(x, y) /\ y.image = x.image
             /\ y.keep = x.keep /\ y.locked = TRUE /\ y.was = was /\ y.altered = altered
BY DEF Slice, GivenOut, SliceMark

LEMMA BlockLocking ==
  ASSUME NEW x \in Block, NEW locked \in BOOLEAN
  PROVE  LET y == Locking(x, locked)
         IN  /\ BlockMark(x, y) /\ y.cur = x.cur
             /\ y.keep = x.keep /\ y.locked = locked /\ y.was = x.was /\ y.altered = x.altered
BY DEF Block, Locking, BlockMark

LEMMA SliceLocking ==
  ASSUME NEW x \in Slice, NEW locked \in BOOLEAN
  PROVE  LET y == Locking(x, locked)
         IN  /\ SliceMark(x, y) /\ y.image = x.image
             /\ y.keep = x.keep /\ y.locked = locked /\ y.was = x.was /\ y.altered = x.altered
BY DEF Slice, Locking, SliceMark

\* slice x in memory and its block are given new marks by one call
LEMMA ChangedIs ==
  ASSUME VInv, NEW x \in Slices, InCore(x), NEW y, NEW z, BlockMark(blocks[slices[x].bk], y),
         SliceMark(slices[x], z), SameFlags(y, z), y.cur = blocks[slices[x].bk].cur,
         blocks' = [blocks EXCEPT ![slices[x].bk] = y], slices' = [slices EXCEPT ![x] = z]
  PROVE  OneChanged(Tables(TRUE), blocks', slices', x, y, z)
BY DEF OneChanged, InCore, Tables

LEMMA LockedStep ==
  ASSUME VInv, NEW x \in Slices, NEW y, NEW z, OneChanged(Tables(TRUE), blocks', slices', x, y, z),
         UNCHANGED <<first_free_bloc, base, wp, file, ctl>>,
         z.locked = TRUE, champs_bloques' = champs_bloques + (IF slices[x].locked THEN 0 ELSE 1)
  PROVE  GoodStep
<1> DEFINE T == Tables(TRUE)
           V == TablesNext
           n == champs_bloques
           m == champs_bloques'
           c == ctl
<1>1. GoodState(T, n, c) /\ T.s = slices BY StateIs
<1>2. /\ Marking(T, V) /\ V.s[x] = z /\ V.wp <= MaxFile + 1
      /\ \A v \in Slices \ {x} : V.s[v] = T.s[v]
  BY OneMarkedIs DEF OneMarked
<1>3. T.s[x].bk # 0 BY DEF OneChanged
<1>4. m = n + (IF T.s[x].locked THEN 0 ELSE 1) BY <1>1
<1>5. V.s[x].locked /\ \A v \in Slices \ {x} : V.s[v].locked = T.s[v].locked BY <1>2
<1>6. ctl' = c OBVIOUS
<1> HIDE DEF T, V, n, m, c
<1>7. GoodState(V, m, c) /\ LockedKept(T, V, n, m) BY <1>1, <1>2, <1>3, <1>4, <1>5, LocksStep
<1> QED BY <1>6, <1>7 DEF GoodStep, T, V, n, m

(* vmmget marks the saved fields, and no others.                           *)
LEMMA OneMarkedContent ==
  ASSUME NEW T, NEW U, NEW D, NEW x, NEW z, Good(T), OneMarked(T, U, x, z), Content(T, D), x \in Slices,
         T.s[x].bk # 0, z.altered = Keep(x), z.was => Marks(T, x)
  PROVE  Content(U, D)
<1>1. /\ Marking(T, U) /\ U.s[x] = z /\ (\A v \in Slices \ {x} : U.s[v] = T.s[v])
      /\ U.file = T.file /\ \A j \in 1 .. Len(T.b) : U.b[j].cur = T.b[j].cur
  BY DEF OneMarked, SameContent
<1>2. U.base = T.base /\ Marked(T.b, U.b) /\ \A v \in Slices : U.s[v].bk = T.s[v].bk BY <1>1 DEF Marking
<1>3. Even(U.b) BY <1>2, MarkedEven DEF Content
<1>4. \A v \in Slices : Marks(T, v) => Keep(v) BY DEF Content
<1>5. \A v \in Slices : Marks(U, v) => Keep(v)
  <2> SUFFICES ASSUME NEW v \in Slices, Marks(U, v) PROVE Keep(v) OBVIOUS
  <2>1. CASE v = x BY <1>1, <1>4, <2>1 DEF Marks
  <2>2. CASE v # x BY <1>1, <1>4, <2>2 DEF Marks
  <2> QED BY <2>1, <2>2
<1>6. ASSUME NEW v \in D PROVE v \in Slices /\ Keep(v) /\ Sound(U, v)
  <2>1. v \in Slices /\ Keep(v) /\ Sound(T, v) BY DEF Content
  <2>2. T.s[v].bk # 0 => U.b[U.s[v].bk].cur = T.b[T.s[v].bk].cur
    <3> SUFFICES ASSUME T.s[v].bk # 0 PROVE U.b[U.s[v].bk].cur = T.b[T.s[v].bk].cur OBVIOUS
    <3>1. T.s[v].bk \in 1 .. Len(T.b) BY <2>1, GoodIs DEF Names
    <3> QED BY <1>1, <1>2, <2>1, <3>1
  <2>3. CASE v = x
    <3>1. Marks(U, v) BY <1>1, <2>1, <2>3 DEF Marks
    <3> QED BY <1>2, <2>1, <2>2, <2>3, <3>1 DEF Sound
  <2>4. CASE v # x
    <3>1. U.s[v] = T.s[v] BY <1>1, <2>1, <2>4
    <3>2. OnDisk(U, v) = OnDisk(T, v) BY <1>1, <1>2, <3>1, OnDiskIs
    <3>3. Marks(U, v) = Marks(T, v) BY <3>1 DEF Marks
    <3> QED BY <2>1, <2>2, <3>1, <3>2, <3>3 DEF Sound
  <2> QED BY <2>3, <2>4
<1> QED BY <1>3, <1>5, <1>6 DEF Content

LEMMA GetStep ==
  ASSUME VInv, NEW x \in Slices, Get(x)
  PROVE  GoodStep /\ ContentStep
<1> DEFINE was == slices[x].was \/ slices[x].altered
           altered == Keep(x)
           i == slices[x].bk
           y == GivenOut(blocks[i], was, altered)
           z == GivenOut(slices[x], was, altered)
<1>1. InCore(x) /\ slices \in [Slices -> Slice] /\ blocks \in Seq(Block) BY StateIs DEF Get
<1>2. i \in 1 .. Len(blocks) /\ blocks[i] \in Block /\ slices[x] \in Slice /\ SameFlags(blocks[i], slices[x])
  BY <1>1, InCoreIs
<1>3. /\ blocks' = [blocks EXCEPT ![i] = y] /\ slices' = [slices EXCEPT ![x] = z]
      /\ UNCHANGED <<first_free_bloc, base, wp, file, ctl>>
      /\ champs_bloques' = champs_bloques + (IF slices[x].locked THEN 0 ELSE 1)
  BY <1>1, <1>2 DEF Get
<1>4. was \in BOOLEAN /\ altered \in BOOLEAN
  <2>1. slices[x].was \in BOOLEAN /\ slices[x].altered \in BOOLEAN BY <1>2, SliceIs
  <2> QED BY <2>1 DEF Keep
<1>9. was => slices[x].altered \/ slices[x].was OBVIOUS
<1> HIDE DEF was, altered
<1>5. /\ BlockMark(blocks[i], y) /\ SliceMark(slices[x], z) /\ SameFlags(y, z) /\ z.locked = TRUE
      /\ y.cur = blocks[i].cur /\ z.altered = Keep(x) /\ z.was = was
  <2> DEFINE b == blocks[i]
             s == slices[x]
  <2>5. altered = Keep(x) BY DEF altered
  <2>1. b \in Block /\ s \in Slice /\ b.keep = s.keep BY <1>2 DEF SameFlags
  <2> HIDE DEF b, s
  <2> DEFINE c == GivenOut(b, was, altered)
             d == GivenOut(s, was, altered)
  <2>2. BlockMark(b, c) /\ c.keep = b.keep /\ c.locked = TRUE /\ c.was = was /\ c.altered = altered /\ c.cur = b.cur
    BY <1>4, <2>1, BlockGivenOut
  <2>3. SliceMark(s, d) /\ d.keep = s.keep /\ d.locked = TRUE /\ d.was = was /\ d.altered = altered
    BY <1>4, <2>1, SliceGivenOut
  <2> HIDE DEF c, d
  <2>4. SameFlags(c, d) BY <2>1, <2>2, <2>3 DEF SameFlags
  <2> QED BY <2>2, <2>3, <2>4, <2>5 DEF c, d, b, s
<1> HIDE DEF y, z
<1>6. OneChanged(Tables(TRUE), blocks', slices', x, y, z) BY <1>1, <1>3, <1>5, ChangedIs DEF i
<1>7. GoodStep BY <1>3, <1>5, <1>6, LockedStep
<1>8. ContentStep
  <2> DEFINE on == TRUE
             T == Tables(on)
             V == TablesNext
  <2>1. Good(T) /\ T.s = slices BY StateIs
  <2>2. OneMarked(T, V, x, z) BY <1>3, <1>6, OneMarkedIs
  <2>3. due' = due BY DEF Get
  <2> HIDE DEF T, V
  <2>4. T.s[x].bk # 0 /\ z.altered = Keep(x) /\ (z.was => Marks(T, x)) BY <1>1, <1>5, <1>9, <2>1 DEF InCore, Marks
  <2>5. Content(T, due) => Content(V, due') BY <2>1, <2>2, <2>3, <2>4, OneMarkedContent
  <2> QED BY <2>5 DEF ContentStep, T, V, on
<1> QED BY <1>7, <1>8

(* Slice x of the next tables has the same marks, and is where it was.     *)
LEMMA OneMarkedKeeps ==
  ASSUME VInv, NEW x \in Slices, NEW z, OneMarked(Tables(TRUE), TablesNext, x, z), wp' <= MaxFile + 1, due' = due,
         z.image = slices[x].image, z.altered = slices[x].altered, z.was = slices[x].was
  PROVE  ContentStep
<1> DEFINE on == TRUE
           T == Tables(on)
           V == TablesNext
           none == {}
<1>1. Good(T) /\ T.s = slices BY StateIs
<1>2. OneMarked(T, V, x, z) OBVIOUS
<1> HIDE DEF T, V
<1>3. (z.altered \/ z.was) = Marks(T, x) /\ z.image = T.s[x].image BY <1>1 DEF Marks
<1>4. Spares(T, V, none) BY <1>1, <1>2, <1>3, OneMarkedSpares
<1>5. due' \subseteq due \ none OBVIOUS
<1>6. Spares(Tables(TRUE), TablesNext, none) BY <1>4 DEF T, V
<1> HIDE DEF none
<1> QED BY <1>5, <1>6, NextSpares

LEMMA LckStep ==
  ASSUME VInv, NEW x \in Slices, Lck(x)
  PROVE  GoodStep /\ ContentStep
<1> DEFINE on == TRUE
           i == slices[x].bk
           y == Locking(blocks[i], on)
           z == Locking(slices[x], on)
<1>1. InCore(x) /\ slices \in [Slices -> Slice] /\ blocks \in Seq(Block) BY StateIs DEF Lck
<1>2. i \in 1 .. Len(blocks) /\ blocks[i] \in Block /\ slices[x] \in Slice /\ SameFlags(blocks[i], slices[x])
  BY <1>1, InCoreIs
<1>3. /\ blocks' = [blocks EXCEPT ![i] = y] /\ slices' = [slices EXCEPT ![x] = z]
      /\ UNCHANGED <<first_free_bloc, base, wp, file, ctl>>
      /\ champs_bloques' = champs_bloques + (IF slices[x].locked THEN 0 ELSE 1)
  <2> HIDE DEF on
  <2>1. ~slices[x].locked BY DEF Lck
  <2>2. champs_bloques' = champs_bloques + 1 BY DEF Lck
  <2>3. /\ blocks' = [blocks EXCEPT ![i] = y] /\ slices' = [slices EXCEPT ![x] = z]
        /\ UNCHANGED <<first_free_bloc, base, wp, file, ctl>>
    BY <1>1, <1>2 DEF Lck, on
  <2> QED BY <2>1, <2>2, <2>3
<1>4. on \in BOOLEAN /\ on = TRUE OBVIOUS
<1> HIDE DEF on
<1>5. /\ BlockMark(blocks[i], y) /\ y.cur = blocks[i].cur
      /\ y.keep = blocks[i].keep /\ y.locked = on /\ y.was = blocks[i].was /\ y.altered = blocks[i].altered
  BY <1>2, <1>4, BlockLocking
<1>6. /\ SliceMark(slices[x], z) /\ z.image = slices[x].image
      /\ z.keep = slices[x].keep /\ z.locked = on /\ z.was = slices[x].was /\ z.altered = slices[x].altered
  BY <1>2, <1>4, SliceLocking
<1> HIDE DEF y, z
<1>7. SameFlags(y, z) BY <1>2, <1>5, <1>6 DEF SameFlags
<1>8. OneChanged(Tables(TRUE), blocks', slices', x, y, z) BY <1>1, <1>3, <1>5, <1>6, <1>7, ChangedIs DEF i
<1>9. GoodStep BY <1>3, <1>4, <1>6, <1>8, LockedStep
<1>10. ContentStep
  <2>1. wp' <= MaxFile + 1 /\ due' = due BY <1>3, StateIs DEF Lck
  <2>2. OneMarked(Tables(TRUE), TablesNext, x, z) BY <1>3, <1>8, OneMarkedIs
  <2> QED BY <1>6, <2>1, <2>2, OneMarkedKeeps
<1> QED BY <1>9, <1>10

(* Only which contents are up to date changes.                             *)
Fresh(T, U) ==
  /\ Marking(T, U) /\ U.s = T.s

LEMMA FreshLoads ==
  ASSUME NEW T, NEW U, Good(T), Fresh(T, U)
  PROVE  Loads(T, U)
<1>1. Marking(T, U) BY DEF Fresh
<1>2. Good(U) /\ Extends(T, U) BY <1>1, MarkingGood
<1> DEFINE X == Slices
<1>3. X \subseteq Slices /\ \A x \in X : U.s[x].locked = T.s[x].locked BY DEF Fresh
<1> HIDE DEF X
<1>4. Stays(X, T, U) BY <1>1, <1>3, MarkingStays
<1> QED BY <1>2, <1>4 DEF Loads, X

LEMMA FreshBy ==
  ASSUME NEW T, NEW U, NEW f, NEW c, Good(T), Remade(T, U, f, c, T.s), c \in Seq(Block), Len(c) = Len(T.b),
         f \in [1 .. MaxFile -> Word], \A w \in 1 .. MaxFile : f[w].of = T.file[w].of,
         \A j \in 1 .. Len(T.b) : BlockMark(T.b[j], c[j]) /\ SameFlags(c[j], T.b[j])
  PROVE  Fresh(T, U) /\ U.b = c /\ U.file = f
<1> DEFINE t == T.s
<1>1. t \in [Slices -> Slice] BY GoodIs
<1>2. \A x \in Slices : SliceMark(T.s[x], t[x]) /\ (T.s[x].bk = 0 => ~t[x].locked)
  <2> SUFFICES ASSUME NEW x \in Slices PROVE SliceMark(T.s[x], t[x]) /\ (T.s[x].bk = 0 => ~t[x].locked) OBVIOUS
  <2>1. T.s[x].bk = 0 => ~T.s[x].locked BY GoodIs DEF Names
  <2>2. T.s[x] \in Slice BY <1>1
  <2> QED BY <2>1, <2>2 DEF SliceMark
<1>3. \A j \in 1 .. Len(T.b) :
        /\ BlockMark(T.b[j], c[j])
        /\ IF InUse(T.b[j]) THEN SameFlags(c[j], t[T.b[j].slice]) ELSE ~c[j].locked /\ ~c[j].keep
  <2> SUFFICES ASSUME NEW j \in 1 .. Len(T.b)
               PROVE  IF InUse(T.b[j]) THEN SameFlags(c[j], t[T.b[j].slice]) ELSE ~c[j].locked /\ ~c[j].keep
    OBVIOUS
  <2> DEFINE z == T.b[j]
  <2>1. IF InUse(z) THEN SameFlags(z, t[z.slice]) ELSE ~z.locked /\ ~z.keep BY Unmarked
  <2>2. SameFlags(c[j], z) OBVIOUS
  <2> HIDE DEF z, t
  <2>3. IF InUse(z) THEN SameFlags(c[j], t[z.slice]) ELSE ~c[j].locked /\ ~c[j].keep BY <2>1, <2>2 DEF SameFlags
  <2> QED BY <2>3 DEF z
<1>4. Remade(T, U, f, c, t) OBVIOUS
<1> HIDE DEF t
<1>5. Marking(T, U) /\ U.s = t /\ U.b = c /\ U.file = f BY <1>1, <1>2, <1>3, <1>4, MarkingBy
<1> QED BY <1>5 DEF Fresh, t

LEMMA NextLoads ==
  ASSUME VInv, Loads(Tables(TRUE), TablesNext), wp' <= MaxFile + 1, UNCHANGED <<champs_bloques, ctl>>
  PROVE  GoodStep
<1> DEFINE T == Tables(TRUE)
           V == TablesNext
           n == champs_bloques
           c == ctl
<1>1. GoodState(T, n, c) BY StateIs
<1>2. V.wp <= MaxFile + 1 BY DEF TablesNext
<1>3. Loads(T, V) OBVIOUS
<1> HIDE DEF T, V, n, c
<1>4. GoodState(V, n, c) /\ LockedKept(T, V, n, n) BY <1>1, <1>2, <1>3, LoadsStep
<1>5. champs_bloques' = n /\ ctl' = c /\ champs_bloques = n BY DEF n, c
<1> QED BY <1>4, <1>5 DEF GoodStep, T, V

\* the words W of the file are no longer up to date
Stale(f, W) == [w \in DOMAIN f |-> IF w \in W THEN Current(f[w], FALSE) ELSE f[w]]

LEMMA StaleIs ==
  ASSUME NEW f, NEW W, f \in [1 .. MaxFile -> Word]
  PROVE  /\ Stale(f, W) \in [1 .. MaxFile -> Word]
         /\ \A w \in 1 .. MaxFile : Stale(f, W)[w].of = f[w].of /\ (w \notin W => Stale(f, W)[w] = f[w])
<1> DEFINE D == 1 .. MaxFile
           off == FALSE
           g == Stale(f, W)
<1>1. f \in [D -> Word] /\ g = [w \in D |-> IF w \in W THEN Current(f[w], off) ELSE f[w]] BY DEF Stale
<1>5. off \in BOOLEAN OBVIOUS
<1> HIDE DEF D, off, g
<1>2. ASSUME NEW w \in D PROVE Current(f[w], off) \in Word /\ Current(f[w], off).of = f[w].of
  <2>1. f[w] \in Word BY <1>1
  <2> QED BY <1>5, <2>1, CurrentIs
<1>3. \A w \in D : g[w] \in Word /\ g[w].of = f[w].of BY <1>1, <1>2
<1>4. g \in [D -> Word] BY <1>1, <1>3
<1>6. \A w \in D : w \notin W => g[w] = f[w] BY <1>1
<1> QED BY <1>3, <1>4, <1>6 DEF D, g

\* the words of the file that are those of slice x are the same in U
SameWords(T, U, x) == \A w \in 1 .. MaxFile : T.file[w].of = x => U.file[w] = T.file[w]

LEMMA OnDiskStays ==
  ASSUME NEW T, NEW U, NEW x, Good(T), T.wp <= MaxFile + 1, x \in Slices, U.base = T.base,
         U.s[x].image = T.s[x].image, SameWords(T, U, x), OnDisk(T, x)
  PROVE  OnDisk(U, x)
<1> DEFINE a == FileAdr(T, x)
           l == Len8(x)
           W == Words(a, x)
           end == T.wp
<1>1. /\ T.s[x].image /\ a # NoAdr /\ \A w \in W : T.file[w] = [of |-> x, cur |-> TRUE]
  BY DEF OnDisk, OnFile
<1>2. FileAdr(U, x) = a BY DEF FileAdr
<1>3. W = a .. a + l - 1 BY DEF Words
<1>4. TypedTables(T) /\ Reserved(T.base, T.wp) BY DEF Good
<1>5. T.base[VarOf[x]] # NoAdr BY <1>1 DEF FileAdr
<1>6. a \in Nat /\ a + l <= end BY <1>4, <1>5, AdrIs
<1>7. l \in Nat /\ end \in Nat /\ end <= MaxFile + 1 /\ MaxFile \in Nat BY <1>4, PlaceIs, TypedIs, VmmAssumption
<1> HIDE DEF a, l, end, W
<1>8. \A w \in W : w \in 1 .. MaxFile BY <1>1, <1>3, <1>6, <1>7 DEF NoAdr
<1>9. \A w \in W : U.file[w] = [of |-> x, cur |-> TRUE]
  <2> SUFFICES ASSUME NEW w \in W PROVE U.file[w] = [of |-> x, cur |-> TRUE] OBVIOUS
  <2> DEFINE g == T.file[w]
  <2>1. g = [of |-> x, cur |-> TRUE] BY <1>1
  <2>2. g.of = x BY <2>1
  <2>3. w \in 1 .. MaxFile BY <1>8
  <2>4. U.file[w] = g BY <2>2, <2>3 DEF SameWords
  <2> QED BY <2>1, <2>4
<1> QED BY <1>1, <1>2, <1>9 DEF OnDisk, OnFile, W

\* the caller has written slice x, of which the words in the file are stale
Wrote(T, U, x) ==
  /\ Fresh(T, U) /\ U.b[T.s[x].bk].cur
  /\ \A j \in 1 .. Len(T.b) : j # T.s[x].bk => U.b[j].cur = T.b[j].cur
  /\ \A v \in Slices \ {x} : SameWords(T, U, v)

(* What is written is sound: it has the mark that vmmget set.              *)
LEMMA WroteContent ==
  ASSUME NEW T, NEW U, NEW D, NEW x, Good(T), T.wp <= MaxFile + 1, x \in Slices, T.s[x].bk # 0, T.s[x].altered,
         Wrote(T, U, x), Content(T, D)
  PROVE  Content(U, D \cup {x})
<1>1. /\ U.s = T.s /\ U.base = T.base /\ Marked(T.b, U.b) BY DEF Wrote, Fresh, Marking
<1>2. Even(U.b) BY <1>1, MarkedEven DEF Content
<1>3. \A v : Marks(U, v) = Marks(T, v) BY <1>1 DEF Marks
<1>4. Marks(T, x) BY DEF Marks
<1>5. \A v \in Slices : Marks(U, v) => Keep(v) BY <1>3 DEF Content
<1>6. x \in Slices /\ Keep(x) /\ Sound(U, x)
  <2>1. Keep(x) BY <1>3, <1>4, <1>5
  <2>2. U.b[U.s[x].bk].cur BY <1>1 DEF Wrote
  <2> QED BY <1>1, <1>3, <1>4, <2>1, <2>2 DEF Sound
<1>7. ASSUME NEW v \in D, v # x PROVE v \in Slices /\ Keep(v) /\ Sound(U, v)
  <2>1. v \in Slices /\ Keep(v) /\ Sound(T, v) BY DEF Content
  <2>2. OnDisk(T, v) => OnDisk(U, v)
    <3>1. SameWords(T, U, v) BY <1>7, <2>1 DEF Wrote
    <3> QED BY <1>1, <2>1, <3>1, OnDiskStays
  <2>3. T.s[v].bk # 0 => U.b[T.s[v].bk].cur = T.b[T.s[v].bk].cur
    <3> SUFFICES ASSUME T.s[v].bk # 0 PROVE U.b[T.s[v].bk].cur = T.b[T.s[v].bk].cur OBVIOUS
    <3>1. T.s[v].bk \in 1 .. Len(T.b) /\ T.b[T.s[v].bk].slice = v BY <2>1, GoodIs DEF Names
    <3>2. T.b[T.s[x].bk].slice = x BY GoodIs DEF Names
    <3>3. T.s[v].bk # T.s[x].bk BY <1>7, <3>1, <3>2
    <3> QED BY <3>1, <3>3 DEF Wrote
  <2> QED BY <1>1, <1>3, <2>1, <2>2, <2>3 DEF Sound
<1> QED BY <1>2, <1>5, <1>6, <1>7 DEF Content

LEMMA WriteStep ==
  ASSUME VInv, NEW x \in Slices, Write(x)
  PROVE  GoodStep /\ ContentStep
<1> DEFINE on == TRUE
           off == FALSE
           T == Tables(on)
           V == TablesNext
           i == slices[x].bk
           y == Current(blocks[i], on)
           c == blocks'
           f == file'
           b == blocks
           t == slices'
<1>1. /\ Good(T) /\ T.b = b /\ T.s = slices /\ b \in Seq(Block) /\ T.file = file /\ file \in [1 .. MaxFile -> Word]
      /\ wp <= MaxFile + 1 /\ Len(b) \in Nat /\ DOMAIN b = 1 .. Len(b)
  BY StateIs
<1>2. InCore(x) BY DEF Write
<1>3. i \in 1 .. Len(b) /\ b[i] \in Block BY <1>2, InCoreIs
<1>4. /\ c = [b EXCEPT ![i] = y] /\ UNCHANGED <<champs_bloques, ctl>> /\ wp' <= MaxFile + 1
      /\ UNCHANGED <<first_free_bloc, base, wp>> /\ slices' = slices
  BY <1>1, <1>3 DEF Write
<1> DEFINE W == {w \in DOMAIN file : file[w].of = x}
<1>5. f = Stale(file, W)
  <2>1. f = [w \in DOMAIN file |-> IF file[w].of = x THEN Current(file[w], off) ELSE file[w]] BY DEF Write
  <2>2. \A w \in DOMAIN file : file[w].of = x <=> w \in W OBVIOUS
  <2> HIDE DEF W, f
  <2> QED BY <2>1, <2>2 DEF Stale
<1>6. Remade(T, V, f, c, t) BY <1>4, NextWith
<1>7. on \in BOOLEAN /\ off = FALSE OBVIOUS
<1>14. on = TRUE OBVIOUS
<1> HIDE DEF on, off
<1>8. y \in Block /\ BlockMark(b[i], y) /\ SameFlags(y, b[i]) /\ y.cur = on
  <2> DEFINE d == b[i]
  <2>1. d \in Block BY <1>3
  <2> HIDE DEF d
  <2> DEFINE e == Current(d, on)
  <2>2. /\ e \in Block /\ e.slice = d.slice /\ e.adr = d.adr /\ e.size = d.size /\ SameFlags(e, d)
        /\ e.prev = d.prev /\ e.next = d.next /\ e.file = d.file /\ e.cur = on
    BY <1>7, <2>1, CurrentIs
  <2> HIDE DEF e
  <2>3. BlockMark(d, e) BY <2>2 DEF BlockMark
  <2> QED BY <2>2, <2>3 DEF e, d
<1> HIDE DEF y
<1>9. c \in Seq(Block) /\ Len(c) = Len(b) /\ c[i] = y /\ \A j \in (1 .. Len(b)) \ {i} : c[j] = b[j]
  <2> HIDE DEF b, c, i
  <2> QED BY <1>1, <1>3, <1>4, <1>8, ReplacedIs
<1>10. \A j \in 1 .. Len(b) : BlockMark(b[j], c[j]) /\ SameFlags(c[j], b[j])
  <2> SUFFICES ASSUME NEW j \in 1 .. Len(b) PROVE BlockMark(b[j], c[j]) /\ SameFlags(c[j], b[j]) OBVIOUS
  <2>1. CASE j = i BY <1>8, <1>9, <2>1
  <2>2. CASE j # i
    <3>1. c[j] = b[j] /\ b[j] \in Block BY <1>1, <1>9, <2>2
    <3> QED BY <3>1 DEF BlockMark, SameFlags
  <2> QED BY <2>1, <2>2
<1>11. /\ f \in [1 .. MaxFile -> Word] /\ \A w \in 1 .. MaxFile : f[w].of = T.file[w].of
       /\ \A w \in 1 .. MaxFile : T.file[w].of # x => f[w] = T.file[w]
  <2> DEFINE h == file
  <2>1. f = Stale(h, W) BY <1>5
  <2>2. h \in [1 .. MaxFile -> Word] BY <1>1
  <2>4. \A w \in W : h[w].of = x OBVIOUS
  <2> HIDE DEF h, f, W
  <2>5. /\ Stale(h, W) \in [1 .. MaxFile -> Word]
        /\ \A w \in 1 .. MaxFile : Stale(h, W)[w].of = h[w].of /\ (w \notin W => Stale(h, W)[w] = h[w])
    BY ONLY <2>2, StaleIs
  <2>3. /\ f \in [1 .. MaxFile -> Word]
        /\ \A w \in 1 .. MaxFile : f[w].of = h[w].of /\ (w \notin W => f[w] = h[w])
    BY <2>1, <2>5
  <2> QED BY <1>1, <2>3, <2>4 DEF h
<1>12. t = T.s BY <1>1, <1>4
<1>13. Loads(T, V) /\ Wrote(T, V, x)
  <2>4. i = T.s[x].bk BY <1>1
  <2> HIDE DEF T, V, f, c, b, t, i
  <2>1. Len(c) = Len(T.b) /\ \A j \in 1 .. Len(T.b) : BlockMark(T.b[j], c[j]) /\ SameFlags(c[j], T.b[j])
    BY <1>1, <1>9, <1>10
  <2>2. Remade(T, V, f, c, T.s) BY <1>6, <1>12
  <2>3. Fresh(T, V) /\ V.b = c /\ V.file = f BY <1>1, <1>9, <1>11, <2>1, <2>2, FreshBy
  <2>5. V.b[i].cur /\ \A j \in 1 .. Len(T.b) : j # i => V.b[j].cur = T.b[j].cur BY <1>1, <1>8, <1>9, <1>14, <2>3
  <2>6. \A v \in Slices \ {x} : SameWords(T, V, v) BY <1>11, <2>3 DEF SameWords
  <2>7. Wrote(T, V, x) BY <2>3, <2>4, <2>5, <2>6 DEF Wrote
  <2> QED BY <1>1, <2>3, <2>7, FreshLoads
<1>15. GoodStep BY <1>4, <1>13, NextLoads DEF on
<1>16. ContentStep
  <2>1. T.s[x].bk # 0 /\ T.s[x].altered BY <1>1, <1>2 DEF InCore, Write
  <2>2. due' = due \cup {x} BY DEF Write
  <2>3. T.wp <= MaxFile + 1 BY StateIs DEF on
  <2> HIDE DEF T, V
  <2>4. Content(T, due) => Content(V, due') BY <1>1, <1>13, <2>1, <2>2, <2>3, WroteContent
  <2> QED BY <2>4 DEF ContentStep, T, V, on
<1> QED BY <1>15, <1>16

\* a slice that is not in memory, as it is and as it becomes: z
OutChanged(T, c, t, x, z) ==
  /\ T.s[x].bk = 0 /\ SliceMark(T.s[x], z) /\ ~z.locked
  /\ c = T.b /\ t = [T.s EXCEPT ![x] = z]

LEMMA OutChangeMarks ==
  ASSUME NEW T, NEW U, NEW c, NEW t, NEW x, NEW z, Good(T), Remade(T, U, T.file, c, t), x \in Slices,
         OutChanged(T, c, t, x, z)
  PROVE  OneMarked(T, U, x, z)
<1> DEFINE f == T.file
           b == T.b
           s == T.s
<1>1. /\ b \in Seq(Block) /\ s \in [Slices -> Slice] /\ Len(b) \in Nat /\ DOMAIN b = 1 .. Len(b)
      /\ f \in [1 .. MaxFile -> Word] /\ \A w \in 1 .. MaxFile : f[w].of = f[w].of
  BY GoodIs, TypedIs
<1>2. s[x].bk = 0 /\ SliceMark(s[x], z) /\ ~z.locked /\ c = b /\ t = [s EXCEPT ![x] = z] BY DEF OutChanged
<1>3. \A y \in Slices : s[y].bk = 0 => ~s[y].locked BY GoodIs DEF Names
<1>4. \A j \in 1 .. Len(b) :
        /\ BlockMark(b[j], b[j])
        /\ IF InUse(b[j]) THEN b[j].slice \in Slices /\ s[b[j].slice].bk = j /\ SameFlags(b[j], s[b[j].slice])
           ELSE ~b[j].locked /\ ~b[j].keep
  BY Unmarked
<1>5. Remade(T, U, f, c, t) OBVIOUS
<1> HIDE DEF f, b, s
<1>6. t \in [Slices -> Slice] /\ t[x] = z /\ \A y \in Slices \ {x} : t[y] = s[y]
  <2>1. z \in Slice BY <1>2 DEF SliceMark
  <2> QED BY <1>1, <1>2, <2>1
<1>7. \A y \in Slices : SliceMark(s[y], t[y]) /\ (s[y].bk = 0 => ~t[y].locked)
  <2> SUFFICES ASSUME NEW y \in Slices PROVE SliceMark(s[y], t[y]) /\ (s[y].bk = 0 => ~t[y].locked) OBVIOUS
  <2>1. CASE y = x BY <1>2, <1>6, <2>1
  <2>2. CASE y # x
    <3>1. t[y] = s[y] /\ s[y] \in Slice BY <1>1, <1>6, <2>2
    <3> QED BY <1>3, <3>1 DEF SliceMark
  <2> QED BY <2>1, <2>2
<1>8. \A j \in 1 .. Len(b) :
        /\ BlockMark(b[j], c[j])
        /\ IF InUse(b[j]) THEN SameFlags(c[j], t[b[j].slice]) ELSE ~c[j].locked /\ ~c[j].keep
  <2> SUFFICES ASSUME NEW j \in 1 .. Len(b)
               PROVE IF InUse(b[j]) THEN SameFlags(b[j], t[b[j].slice]) ELSE ~b[j].locked /\ ~b[j].keep
    BY <1>2, <1>4
  <2>1. CASE InUse(b[j])
    <3> DEFINE y == b[j].slice
    <3>1. y \in Slices /\ s[y].bk = j /\ SameFlags(b[j], s[y]) BY <1>4, <2>1
    <3>2. j # 0 OBVIOUS
    <3> HIDE DEF y
    <3>3. t[y] = s[y] BY <1>2, <1>6, <3>1, <3>2
    <3> QED BY <2>1, <3>1, <3>3 DEF y
  <2>2. CASE ~InUse(b[j]) BY <1>4, <2>2
  <2> QED BY <2>1, <2>2
<1>9. c \in Seq(Block) /\ Len(c) = Len(b) BY <1>1, <1>2
<1>10. Marking(T, U) /\ U.s = t /\ U.b = c /\ U.file = f
  BY <1>1, <1>5, <1>6, <1>7, <1>8, <1>9, MarkingBy DEF b, s, f
<1>11. SameContent(T, U) BY <1>2, <1>10 DEF SameContent, b, f
<1> QED BY <1>6, <1>10, <1>11 DEF OneMarked, s

LEMMA MarkedFrees ==
  ASSUME NEW T, NEW U, NEW n, NEW c, NEW x, NEW z, GoodState(T, n, c), x \in Slices, OneMarked(T, U, x, z), ~z.locked,
         U.wp <= MaxFile + 1
  PROVE  GoodState(U, CountLess(T, n, x), c) /\ LockedKept(T, U, n, CountLess(T, n, x))
<1> DEFINE m == CountLess(T, n, x)
           X == Slices \ {x}
<1>1. Marking(T, U) /\ U.s[x] = z /\ \A v \in X : U.s[v] = T.s[v] BY DEF OneMarked
<1>2. Good(T) BY DEF GoodState
<1>3. Good(U) /\ Extends(T, U) BY <1>1, <1>2, MarkingGood
<1>4. X \subseteq Slices /\ \A v \in X : U.s[v].locked = T.s[v].locked BY <1>1
<1>5. m = CountLess(T, n, x) OBVIOUS
<1>6. ~U.s[x].locked BY <1>1
<1> HIDE DEF m, X
<1>7. Stays(X, T, U) BY <1>1, <1>2, <1>4, MarkingStays
<1>8. GoodState(U, m, c) /\ LockedKept(T, U, n, m) BY <1>3, <1>5, <1>6, <1>7, FreesStep DEF X
<1> QED BY <1>8 DEF m

LEMMA OneLessIs ==
  ASSUME NEW x \in Slices
  PROVE  OneLess(x) = CountLess(Tables(TRUE), champs_bloques, x)
BY DEF OneLess, CountLess, Tables, InCore

LEMMA NextFrees ==
  ASSUME VInv, NEW x \in Slices, NEW z, OneMarked(Tables(TRUE), TablesNext, x, z), ~z.locked, wp' <= MaxFile + 1,
         champs_bloques' = OneLess(x), UNCHANGED ctl
  PROVE  GoodStep
<1> DEFINE T == Tables(TRUE)
           V == TablesNext
           n == champs_bloques
           c == ctl
<1>1. GoodState(T, n, c) BY StateIs
<1>2. V.wp <= MaxFile + 1 BY DEF TablesNext
<1>3. OneMarked(T, V, x, z) OBVIOUS
<1>4. champs_bloques' = CountLess(T, n, x) BY OneLessIs
<1> HIDE DEF T, V, n, c
<1>5. GoodState(V, CountLess(T, n, x), c) /\ LockedKept(T, V, n, CountLess(T, n, x)) BY <1>1, <1>2, <1>3, MarkedFrees
<1>6. ctl' = c /\ champs_bloques = n BY DEF n, c
<1> QED BY <1>4, <1>5, <1>6 DEF GoodStep, T, V

LEMMA UlkStep ==
  ASSUME VInv, NEW x \in Slices, Ulk(x)
  PROVE  GoodStep /\ ContentStep
<1> DEFINE off == FALSE
           T == Tables(TRUE)
           V == TablesNext
           i == slices[x].bk
           y == Locking(blocks[i], off)
           z == Locking(slices[x], off)
           b == blocks
           c == blocks'
           t == slices'
           s == slices
<1>1. /\ Good(T) /\ T.b = b /\ T.s = slices /\ b \in Seq(Block) /\ T.file = file /\ s \in [Slices -> Slice]
      /\ wp <= MaxFile + 1 /\ Len(b) \in Nat /\ DOMAIN b = 1 .. Len(b)
  BY StateIs
<1>2. t = [s EXCEPT ![x] = z] /\ UNCHANGED <<first_free_bloc, base, wp, file, ctl>> /\ champs_bloques' = OneLess(x)
  BY <1>1 DEF Ulk
<1>3. c = [j \in DOMAIN b |-> IF j = i THEN Locking(b[j], off) ELSE b[j]] BY DEF Ulk
<1>4. off \in BOOLEAN /\ off = FALSE OBVIOUS
<1>5. s[x] \in Slice BY <1>1
<1>6. wp' <= MaxFile + 1 BY <1>1, <1>2
<1>10. due' = due BY DEF Ulk
<1> HIDE DEF off
<1>7. /\ SliceMark(s[x], z) /\ z.image = s[x].image
      /\ z.keep = s[x].keep /\ z.locked = FALSE /\ z.was = s[x].was /\ z.altered = s[x].altered
  <2> DEFINE d == s[x]
             e == Locking(d, off)
  <2>1. d \in Slice BY <1>5
  <2> HIDE DEF d
  <2>2. /\ SliceMark(d, e) /\ e.image = d.image
        /\ e.keep = d.keep /\ e.locked = off /\ e.was = d.was /\ e.altered = d.altered
    BY <1>4, <2>1, SliceLocking
  <2> QED BY <1>4, <2>2 DEF d
<1>8. CASE InCore(x)
  <2>1. i \in 1 .. Len(b) /\ b[i] \in Block /\ SameFlags(b[i], s[x]) BY <1>8, InCoreIs
  <2>2. /\ BlockMark(b[i], y) /\ y.cur = b[i].cur
        /\ y.keep = b[i].keep /\ y.locked = FALSE /\ y.was = b[i].was /\ y.altered = b[i].altered
    <3> DEFINE d == b[i]
               e == Locking(d, off)
    <3>1. d \in Block BY <2>1
    <3> HIDE DEF d
    <3>2. /\ BlockMark(d, e) /\ e.cur = d.cur
          /\ e.keep = d.keep /\ e.locked = off /\ e.was = d.was /\ e.altered = d.altered
      BY <1>4, <3>1, BlockLocking
    <3> QED BY <1>4, <3>2 DEF d
  <2>3. c = [b EXCEPT ![i] = y]
    <3>1. i \in DOMAIN b BY <1>1, <2>1
    <3>2. y = Locking(b[i], off) OBVIOUS
    <3> HIDE DEF b, i, y, c
    <3> QED BY <1>3, <3>1, <3>2
  <2>4. OneChanged(T, c, t, x, y, z)
    <3>1. SameFlags(y, z) BY <1>7, <2>1, <2>2 DEF SameFlags
    <3> HIDE DEF y, z
    <3>2. BlockMark(blocks[slices[x].bk], y) /\ SliceMark(slices[x], z) /\ y.cur = blocks[slices[x].bk].cur BY <1>7, <2>2
    <3> QED BY <1>2, <1>8, <2>3, <3>1, <3>2, ChangedIs
  <2> HIDE DEF y, z
  <2>5. OneMarked(T, V, x, z) BY <1>2, <2>4, OneMarkedIs
  <2>6. GoodStep BY <1>2, <1>6, <1>7, <2>5, NextFrees
  <2>7. ContentStep BY <1>6, <1>7, <1>10, <2>5, OneMarkedKeeps
  <2> QED BY <2>6, <2>7
<1>9. CASE ~InCore(x)
  <2>1. i = 0 BY <1>9 DEF InCore
  <2>2. c = b
    <3> HIDE DEF b, c, i
    <3> QED BY <1>1, <1>3, <2>1
  <2>3. OutChanged(T, c, t, x, z)
    <3>1. T.s[x].bk = 0 /\ SliceMark(T.s[x], z) /\ ~z.locked BY <1>1, <1>7, <2>1
    <3> QED BY <1>1, <1>2, <2>2, <3>1 DEF OutChanged
  <2>4. Remade(T, V, T.file, c, t) BY <1>1, <1>2, NextWith
  <2> HIDE DEF T, V, c, t, z
  <2>5. OneMarked(T, V, x, z) BY <1>1, <2>3, <2>4, OutChangeMarks
  <2>6. GoodStep BY <1>2, <1>6, <1>7, <2>5, NextFrees DEF T, V
  <2>7. ContentStep BY <1>6, <1>7, <1>10, <2>5, OneMarkedKeeps DEF T, V
  <2> QED BY <2>6, <2>7
<1> QED BY <1>8, <1>9

LEMMA UlkAllStep ==
  ASSUME VInv, UlkAll
  PROVE  GoodStep /\ ContentStep
<1> DEFINE off == FALSE
           T == Tables(TRUE)
           V == TablesNext
           b == blocks
           c == blocks'
           t == slices'
           s == slices
           f == file
<1>1. /\ Good(T) /\ T.b = b /\ T.s = s /\ b \in Seq(Block) /\ T.file = f /\ s \in [Slices -> Slice]
      /\ wp <= MaxFile + 1 /\ Len(b) \in Nat /\ DOMAIN b = 1 .. Len(b) /\ f \in [1 .. MaxFile -> Word]
  BY StateIs
<1>2. /\ t = [x \in Slices |-> IF \E i \in DOMAIN b : b[i].slice = x THEN Locking(s[x], off) ELSE s[x]]
      /\ c = [i \in DOMAIN b |-> Locking(b[i], off)]
      /\ UNCHANGED <<first_free_bloc, base, wp, file, ctl>> /\ champs_bloques' = 0
  BY DEF UlkAll
<1>3. Remade(T, V, f, c, t) BY <1>1, <1>2, NextWith
<1>4. off \in BOOLEAN /\ off = FALSE OBVIOUS
<1>5. V.wp <= MaxFile + 1 BY <1>1, <1>2 DEF TablesNext
<1>21. wp' <= MaxFile + 1 BY <1>1, <1>2
<1>6. GoodState(T, champs_bloques, ctl) BY StateIs
<1>7. \A x \in Slices : IF s[x].bk = 0 THEN ~s[x].locked ELSE s[x].bk \in 1 .. Len(b) /\ b[s[x].bk].slice = x
  <2>1. Names(T.b, T.s) BY <1>1, GoodIs
  <2> QED BY <1>1, <2>1 DEF Names
<1>8. \A j \in 1 .. Len(b) :
        /\ BlockMark(b[j], b[j])
        /\ IF InUse(b[j]) THEN b[j].slice \in Slices /\ s[b[j].slice].bk = j /\ SameFlags(b[j], s[b[j].slice])
           ELSE ~b[j].locked /\ ~b[j].keep
  BY <1>1, Unmarked
<1> HIDE DEF off, T, V, b, c, t, s, f
<1>9. \A x \in Slices : /\ t[x] \in Slice /\ SliceMark(s[x], t[x]) /\ ~t[x].locked
                         /\ t[x].image = s[x].image /\ t[x].altered = s[x].altered /\ t[x].was = s[x].was
  <2> SUFFICES ASSUME NEW x \in Slices
               PROVE  /\ SliceMark(s[x], t[x]) /\ ~t[x].locked
                      /\ t[x].image = s[x].image /\ t[x].altered = s[x].altered /\ t[x].was = s[x].was
    BY DEF SliceMark
  <2>1. s[x] \in Slice BY <1>1
  <2>2. CASE \E i \in DOMAIN b : b[i].slice = x
    <3> DEFINE d == s[x]
               e == Locking(d, off)
    <3>1. t[x] = e BY <1>2, <2>2
    <3>2. d \in Slice BY <2>1
    <3> HIDE DEF d
    <3>3. SliceMark(d, e) /\ e.locked = off /\ e.image = d.image /\ e.altered = d.altered /\ e.was = d.was
      BY <1>4, <3>2, SliceLocking
    <3> QED BY <1>4, <3>1, <3>3 DEF d
  <2>3. CASE ~\E i \in DOMAIN b : b[i].slice = x
    <3>1. t[x] = s[x] BY <1>2, <2>3
    <3>2. s[x].bk = 0 BY <1>1, <1>7, <2>3
    <3> QED BY <1>7, <2>1, <3>1, <3>2 DEF SliceMark
  <2> QED BY <2>2, <2>3
<1>10. t \in [Slices -> Slice] BY <1>2, <1>9
<1>11. \A j \in 1 .. Len(b) :
        /\ c[j] \in Block /\ BlockMark(b[j], c[j]) /\ c[j].cur = b[j].cur
        /\ IF InUse(b[j]) THEN SameFlags(c[j], t[b[j].slice]) ELSE ~c[j].locked /\ ~c[j].keep
  <2> SUFFICES ASSUME NEW j \in 1 .. Len(b)
               PROVE /\ BlockMark(b[j], c[j]) /\ c[j].cur = b[j].cur
                     /\ IF InUse(b[j]) THEN SameFlags(c[j], t[b[j].slice]) ELSE ~c[j].locked /\ ~c[j].keep
    BY DEF BlockMark
  <2> DEFINE d == b[j]
             e == Locking(d, off)
  <2>1. c[j] = e BY <1>1, <1>2
  <2>2. d \in Block BY <1>1
  <2>3. IF InUse(d) THEN d.slice \in Slices /\ s[d.slice].bk = j /\ SameFlags(d, s[d.slice]) ELSE ~d.locked /\ ~d.keep
    BY <1>8
  <2>9. d = b[j] OBVIOUS
  <2> HIDE DEF d
  <2>4. BlockMark(d, e) /\ e.cur = d.cur /\ e.keep = d.keep /\ e.locked = off /\ e.was = d.was /\ e.altered = d.altered
    BY <1>4, <2>2, BlockLocking
  <2> HIDE DEF e
  <2>5. CASE InUse(d)
    <3> DEFINE g == s[d.slice]
               h == Locking(g, off)
    <3>1. g \in Slice /\ SameFlags(d, g) BY <1>1, <2>3, <2>5
    <3>2. t[d.slice] = h BY <1>1, <1>2, <2>3, <2>5, <2>9
    <3> HIDE DEF g
    <3>3. h.keep = g.keep /\ h.locked = off /\ h.was = g.was /\ h.altered = g.altered BY <1>4, <3>1, SliceLocking
    <3> HIDE DEF h
    <3>4. SameFlags(e, h) BY <2>4, <3>1, <3>3 DEF SameFlags
    <3> QED BY <2>1, <2>4, <2>5, <2>9, <3>2, <3>4
  <2>6. CASE ~InUse(d) BY <1>4, <2>1, <2>3, <2>4, <2>6, <2>9
  <2> QED BY <2>5, <2>6
<1>12. c \in Seq(Block) /\ Len(c) = Len(b)
  <2>1. c \in [1 .. Len(b) -> Block] BY <1>1, <1>2, <1>11
  <2> DEFINE n == Len(b)
  <2>2. n \in Nat /\ c \in [1 .. n -> Block] BY <1>1, <2>1
  <2> HIDE DEF n
  <2>3. c \in Seq(Block) /\ Len(c) = n BY <2>2
  <2> QED BY <2>3 DEF n
<1>13. Marking(T, V) /\ V.s = t /\ V.b = c /\ V.file = f
  <2>1. \A w \in 1 .. MaxFile : f[w].of = T.file[w].of BY <1>1
  <2>2. /\ c \in Seq(Block) /\ Len(c) = Len(T.b) /\ t \in [Slices -> Slice]
        /\ \A x \in Slices : SliceMark(T.s[x], t[x]) /\ (T.s[x].bk = 0 => ~t[x].locked)
        /\ \A j \in 1 .. Len(T.b) :
             /\ BlockMark(T.b[j], c[j])
             /\ IF InUse(T.b[j]) THEN SameFlags(c[j], t[T.b[j].slice]) ELSE ~c[j].locked /\ ~c[j].keep
    BY <1>1, <1>9, <1>10, <1>11, <1>12
  <2> QED BY <1>1, <1>3, <2>1, <2>2, MarkingBy
<1>14. Good(V) /\ Extends(T, V) BY <1>1, <1>13, MarkingGood
<1>15. \A x \in Slices : ~V.s[x].locked BY <1>9, <1>13
<1> DEFINE n == champs_bloques
           k == ctl
<1>16. GoodState(T, n, k) BY <1>6
<1> HIDE DEF n, k
<1>17. GoodState(V, 0, k) /\ LockedKept(T, V, n, 0) BY <1>5, <1>14, <1>15, <1>16, FreesAllStep
<1>18. ctl' = k /\ champs_bloques' = 0 /\ champs_bloques = n BY <1>2 DEF n, k
<1>19. GoodStep BY <1>17, <1>18 DEF GoodStep, T, V
<1>20. ContentStep
  <2> DEFINE X == {}
  <2>1. SameContent(T, V) BY <1>1, <1>11, <1>13 DEF SameContent
  <2>2. \A x \in Slices : Marks(V, x) = Marks(T, x) /\ V.s[x].image = T.s[x].image BY <1>1, <1>9, <1>13 DEF Marks
  <2>3. \A x \in Slices \ X : Settled(T, V, x) BY <2>2 DEF Settled
  <2>4. due' \subseteq due \ X BY DEF UlkAll
  <2> HIDE DEF X
  <2>5. Spares(T, V, X) BY <1>1, <1>13, <2>1, <2>2, <2>3, MarkingSpares
  <2>6. Spares(Tables(TRUE), TablesNext, X) BY <2>5, Zenon DEF T, V
  <2> QED BY <1>21, <2>4, <2>6, NextSpares
<1> QED BY <1>19, <1>20

LEMMA UnloadIs ==
  ASSUME NEW altered \in BOOLEAN
  PROVE  /\ \A x \in Block : LET y == Unload(x, altered)
                             IN  /\ BlockMark(x, y) /\ y.keep = FALSE /\ y.locked = FALSE /\ y.was = x.was
                                 /\ y.altered = altered /\ y.cur = x.cur
         /\ \A x \in Slice : LET y == Unload(x, altered)
                             IN  /\ SliceMark(x, y) /\ y.keep = FALSE /\ y.locked = FALSE /\ y.was = x.was
                                 /\ y.altered = altered /\ y.image = x.image
<1>1. ASSUME NEW x \in Block
      PROVE  LET y == Unload(x, altered)
             IN  /\ BlockMark(x, y) /\ y.keep = FALSE /\ y.locked = FALSE /\ y.was = x.was
                 /\ y.altered = altered /\ y.cur = x.cur
  BY DEF Block, Unload, BlockMark
<1>2. ASSUME NEW x \in Slice
      PROVE  LET y == Unload(x, altered)
             IN  /\ SliceMark(x, y) /\ y.keep = FALSE /\ y.locked = FALSE /\ y.was = x.was /\ y.altered = altered
                 /\ y.image = x.image
  BY DEF Slice, Unload, SliceMark
<1> QED BY <1>1, <1>2

LEMMA Overwritten ==
  ASSUME NEW T, NEW t, NEW u, NEW c
  PROVE  [[T EXCEPT !.s = u] EXCEPT !.b = c, !.s = t] = [T EXCEPT !.b = c, !.s = t]
OBVIOUS

LEMMA RemadeSlices ==
  ASSUME NEW T, NEW t, TypedTables(T)
  PROVE  Remade(T, [T EXCEPT !.s = t], T.file, T.b, t)
<1> DEFINE B == Seq(Block)
           S == [Slices -> Slice]
           A == [Variables -> Nat]
           P == Nat \ {0}
           F == [1 .. MaxFile -> Word]
<1>1. T \in [b : B, s : S, first : Nat, base : A, wp : P, file : F, intact : BOOLEAN] BY DEF TypedTables
<1> HIDE DEF B, S, A, P, F
<1> QED BY <1>1 DEF Remade

LEMMA RemadeBlocks ==
  ASSUME NEW T, NEW c, TypedTables(T)
  PROVE  Remade(T, [T EXCEPT !.b = c], T.file, c, T.s)
<1> DEFINE B == Seq(Block)
           S == [Slices -> Slice]
           A == [Variables -> Nat]
           P == Nat \ {0}
           F == [1 .. MaxFile -> Word]
<1>1. T \in [b : B, s : S, first : Nat, base : A, wp : P, file : F, intact : BOOLEAN] BY DEF TypedTables
<1> HIDE DEF B, S, A, P, F
<1> QED BY <1>1 DEF Remade

LEMMA RemadeBoth ==
  ASSUME NEW T, NEW c, NEW t, TypedTables(T), t \in [Slices -> Slice]
  PROVE  Remade(T, [[T EXCEPT !.s = t] EXCEPT !.b = c], T.file, c, t)
<1> DEFINE U == [T EXCEPT !.s = t]
<1>1. Remade(T, U, T.file, T.b, t) BY RemadeSlices
<1>2. T.file \in [1 .. MaxFile -> Word] /\ T.b \in Seq(Block) BY TypedIs
<1> HIDE DEF U
<1>3. Refiled(T, U, T.base, T.wp, T.file, T.b, t) BY <1>1, <1>2, RemadeIs
<1>4. TypedTables(U) /\ U.base = T.base /\ U.wp = T.wp /\ U.file = T.file /\ U.s = t
      /\ U.first = T.first /\ U.intact = T.intact
  BY <1>3 DEF Refiled
<1> DEFINE V == [U EXCEPT !.b = c]
<1>5. Remade(U, V, U.file, c, U.s) BY <1>4, RemadeBlocks
<1> HIDE DEF V
<1>6. Remade(T, V, T.file, c, t) BY <1>4, <1>5 DEF Remade
<1> QED BY <1>6 DEF U, V

\* slice x is not locked, and the others are in memory and locked as they were
Released(T, U, x) ==
  /\ Good(U) /\ Extends(T, U) /\ Stays(Slices \ {x}, T, U) /\ ~U.s[x].locked /\ Len(U.b) = Len(T.b)
  /\ \A v \in Slices : U.s[v].bk = T.s[v].bk \/ U.s[v].bk = 0

LEMMA MarkedReleased ==
  ASSUME NEW T, NEW U, NEW x, NEW z, Good(T), x \in Slices, OneMarked(T, U, x, z), ~z.locked
  PROVE  Released(T, U, x)
<1> DEFINE X == Slices \ {x}
<1>1. Marking(T, U) /\ U.s[x] = z /\ \A v \in X : U.s[v] = T.s[v] BY DEF OneMarked
<1>2. Good(U) /\ Extends(T, U) BY <1>1, MarkingGood
<1>3. X \subseteq Slices /\ \A v \in X : U.s[v].locked = T.s[v].locked BY <1>1
<1> HIDE DEF X
<1>4. Stays(X, T, U) BY <1>1, <1>3, MarkingStays
<1>5. ~U.s[x].locked BY <1>1
<1>6. Len(U.b) = Len(T.b) /\ \A v \in Slices : U.s[v].bk = T.s[v].bk BY <1>1 DEF Marking, Marked
<1> QED BY <1>2, <1>4, <1>5, <1>6 DEF Released, X

LEMMA EjectedReleased ==
  ASSUME NEW T, NEW x, NeverExactlyFull, Good(T), x \in Slices, T.s[x].bk # 0
  PROVE  Released(T, EjectBlock(T, T.s[x].bk, FALSE), x) /\ Spares(T, EjectBlock(T, T.s[x].bk, FALSE), {x})
<1> DEFINE i == T.s[x].bk
           off == FALSE
           U == EjectBlock(T, i, off)
<1>1. i \in 1 .. Len(T.b) /\ T.b[i].slice = x BY GoodIs DEF Names
<1>2. off \in BOOLEAN OBVIOUS
<1> HIDE DEF i, off
<1>3. Good(U) /\ Extends(T, U) /\ Ejected(T, U, i) /\ Spares(T, U, {x}) BY <1>1, <1>2, EjectGood
<1> HIDE DEF U
<1>4. Stays(Slices \ {x}, T, U) BY <1>1, <1>3, EjectedStays
<1>5. /\ ~U.s[x].locked /\ Len(U.b) = Len(T.b)
      /\ \A v \in Slices : U.s[v].bk = T.s[v].bk \/ U.s[v].bk = 0
  BY <1>1, <1>3 DEF Ejected
<1> QED BY <1>3, <1>4, <1>5 DEF Released, U, i, off

\* what Release does to the slice does not outlive its ejection
LEMMA EjectedAnyway ==
  ASSUME NEW T, NEW x, NEW z, Good(T), x \in Slices, T.s[x].bk # 0, z.image = T.s[x].image
  PROVE  EjectBlock([T EXCEPT !.s = [T.s EXCEPT ![x] = z]], T.s[x].bk, FALSE) = EjectBlock(T, T.s[x].bk, FALSE)
<1> DEFINE i == T.s[x].bk
           u == [T.s EXCEPT ![x] = z]
           U == [T EXCEPT !.s = u]
           c == [T.b EXCEPT ![i] = Emptied(@)]
           t == [T.s EXCEPT ![x] = NotInCore(@.image)]
           off == FALSE
           W == [T EXCEPT !.b = c, !.s = t]
<1>1. i \in 1 .. Len(T.b) /\ T.b[i].slice = x /\ T.s \in [Slices -> Slice] BY GoodIs DEF Names
<1>2. InUse(T.b[i]) BY <1>1, VmmAssumption DEF InUse
<1>3. TypedTables(T) BY GoodIs
<1>4. U.b = T.b /\ U.s = u BY <1>3 DEF TypedTables
<1>5. off = FALSE OBVIOUS
<1>6. [T EXCEPT !.b[i] = Emptied(@), !.s[x] = NotInCore(@.image)] = W BY <1>3 DEF TypedTables
<1>7. [U EXCEPT !.b[i] = Emptied(@), !.s[x] = NotInCore(@.image)] = W
  <2>1. [u EXCEPT ![x] = NotInCore(@.image)] = t
    <3> DEFINE s == T.s
               d == NotInCore(s[x].image)
    <3>1. s \in [Slices -> Slice] /\ u[x] = z BY <1>1
    <3>2. NotInCore(u[x].image) = d BY <3>1
    <3> HIDE DEF d
    <3>3. [[s EXCEPT ![x] = z] EXCEPT ![x] = d] = [s EXCEPT ![x] = d]
      <4> HIDE DEF s
      <4> QED BY <3>1
    <3>4. [u EXCEPT ![x] = NotInCore(u[x].image)] = [s EXCEPT ![x] = d] BY <3>2, <3>3
    <3> QED BY <3>4 DEF d
  <2>2. [T.b EXCEPT ![i] = Emptied(@)] = c OBVIOUS
  <2>3. [U EXCEPT !.b[i] = Emptied(@), !.s[x] = NotInCore(@.image)]
          = [U EXCEPT !.b = [U.b EXCEPT ![i] = Emptied(@)], !.s = [U.s EXCEPT ![x] = NotInCore(@.image)]]
    <3> HIDE DEF U, u
    <3> QED OBVIOUS
  <2> HIDE DEF u, c, t
  <2>4. [[T EXCEPT !.s = u] EXCEPT !.b = c, !.s = t] = W BY Overwritten
  <2> QED BY <1>4, <2>1, <2>2, <2>3, <2>4
<1> HIDE DEF U, W
<1>8. EjectBlock(T, i, off) = ListFree(W, i)
  <2> HIDE DEF i, off
  <2> QED BY <1>1, <1>2, <1>5, <1>6 DEF EjectBlock
<1>9. EjectBlock(U, i, off) = ListFree(W, i)
  <2> HIDE DEF i, off
  <2> QED BY <1>1, <1>2, <1>4, <1>5, <1>7 DEF EjectBlock
<1> QED BY <1>8, <1>9 DEF U

\* x loses nothing either, if the marks it has are kept
LetGo(T, U, x, altered) ==
  /\ Released(T, U, x) /\ Spares(T, U, {x})
  /\ (Marks(T, x) => altered \/ T.s[x].was) => Spares(T, U, {})

LEMMA ReleaseGood ==
  ASSUME NEW T, NEW x, NEW altered, NeverExactlyFull, Good(T), x \in Slices, altered \in BOOLEAN, altered => Marks(T, x)
  PROVE  LetGo(T, Release(T, x, altered), x, altered)
<1> DEFINE i == T.s[x].bk
           s == T.s
           b == T.b
           z == Unload(s[x], altered)
           t == [s EXCEPT ![x] = z]
           U == [T EXCEPT !.s = t]
           R == Release(T, x, altered)
<1>1. TypedTables(T) /\ s \in [Slices -> Slice] /\ b \in Seq(Block) /\ DOMAIN b = 1 .. Len(b) BY GoodIs
<1>2. s[x] \in Slice BY <1>1
<1>3. /\ SliceMark(s[x], z) /\ z.keep = FALSE /\ z.locked = FALSE /\ z.was = s[x].was
      /\ z.altered = altered /\ z.image = s[x].image
  <2> DEFINE d == s[x]
  <2>1. d \in Slice BY <1>2
  <2> HIDE DEF d
  <2> QED BY <2>1, UnloadIs DEF d
<1>4. [T EXCEPT !.s[x] = Unload(@, altered)] = U BY <1>1 DEF TypedTables
<1>5. t \in [Slices -> Slice]
  <2>1. z \in Slice BY <1>3 DEF SliceMark
  <2> HIDE DEF z, s
  <2> QED BY <1>1, <2>1
<1>6. U.b = b BY <1>1 DEF TypedTables
<1>11. ASSUME NEW V, OneMarked(T, V, x, z) PROVE LetGo(T, V, x, altered)
  <2>1. z.altered = altered /\ z.was = T.s[x].was /\ z.image = T.s[x].image /\ ~z.locked BY <1>3
  <2>2. z.altered \/ z.was => Marks(T, x) BY <2>1 DEF Marks
  <2> HIDE DEF z
  <2>3. Released(T, V, x) BY <1>11, <2>1, MarkedReleased
  <2>4. /\ Spares(T, V, {x})
        /\ z.image = T.s[x].image /\ (Marks(T, x) => z.altered \/ z.was) => Spares(T, V, {})
    BY <1>11, <2>2, OneMarkedSpares
  <2> QED BY <2>1, <2>3, <2>4 DEF LetGo
<1>7. R = IF i = 0 THEN U
          ELSE IF Keep(x) THEN [U EXCEPT !.b[i] = Unload(@, altered)] ELSE EjectBlock(U, i, FALSE)
  <2> HIDE DEF U
  <2> QED BY <1>4 DEF Release
<1>8. CASE i = 0
  <2>1. Remade(T, U, T.file, b, t) BY <1>1, RemadeSlices
  <2>2. OutChanged(T, b, t, x, z)
    <3>1. ~z.locked BY <1>3
    <3> HIDE DEF z
    <3> QED BY <1>3, <1>8, <3>1 DEF OutChanged
  <2> HIDE DEF U, t, b, z
  <2>3. OneMarked(T, U, x, z) BY <2>1, <2>2, OutChangeMarks
  <2>4. LetGo(T, U, x, altered) BY <1>11, <2>3 DEF z
  <2> QED BY <1>7, <1>8, <2>4
<1>9. CASE i # 0 /\ Keep(x)
  <2> DEFINE y == Unload(b[i], altered)
             c == [b EXCEPT ![i] = y]
             V == [U EXCEPT !.b = c]
  <2>1. i \in 1 .. Len(b) /\ b[i].slice = x BY <1>9, GoodIs DEF Names
  <2>2. b[i] \in Block /\ SameFlags(b[i], s[x])
    <3>1. InUse(b[i]) BY <2>1, VmmAssumption DEF InUse
    <3>2. IF InUse(T.b[i]) THEN SameFlags(T.b[i], T.s[T.b[i].slice]) ELSE TRUE BY <2>1, Unmarked
    <3> QED BY <1>1, <2>1, <3>1, <3>2
  <2>3. /\ BlockMark(b[i], y) /\ y.keep = FALSE /\ y.locked = FALSE /\ y.was = b[i].was
        /\ y.altered = altered /\ y.cur = b[i].cur
    <3> DEFINE d == b[i]
    <3>1. d \in Block BY <2>2
    <3> HIDE DEF d
    <3> QED BY <3>1, UnloadIs DEF d
  <2>4. R = V
    <3>1. R = [U EXCEPT !.b[i] = Unload(@, altered)] BY <1>7, <1>9
    <3> HIDE DEF R, U, b
    <3> QED BY <1>6, <3>1
  <2>5. SameFlags(y, z) BY <1>3, <2>2, <2>3 DEF SameFlags
  <2>6. Remade(T, V, T.file, c, t)
    <3> HIDE DEF c, t
    <3> QED BY <1>1, <1>5, RemadeBoth
  <2>7. OneChanged(T, c, t, x, y, z)
    <3> HIDE DEF y, z
    <3> QED BY <1>3, <1>9, <2>3, <2>5 DEF OneChanged
  <2> HIDE DEF V, c, t, y, z
  <2>8. OneOther(T, c, t, x) /\ t[x] = z BY <2>7, OneChangeIs
  <2>9. OneMarked(T, V, x, z) BY <2>6, <2>8, OneChangeMarks
  <2>10. LetGo(T, V, x, altered) BY <1>11, <2>9 DEF z
  <2> QED BY <2>4, <2>10
<1>10. CASE i # 0 /\ ~Keep(x)
  <2>1. R = EjectBlock(U, i, FALSE) BY <1>7, <1>10
  <2>2. EjectBlock(U, i, FALSE) = EjectBlock(T, i, FALSE)
    <3>1. z.image = s[x].image BY <1>3
    <3> HIDE DEF z
    <3> QED BY <1>10, <3>1, EjectedAnyway
  <2> DEFINE V == EjectBlock(T, i, FALSE)
  <2>3. Released(T, V, x) /\ Spares(T, V, {x}) BY <1>10, EjectedReleased
  <2> HIDE DEF V
  <2>4. Spares(T, V, {}) BY <1>10, <2>3, SparesAll
  <2>5. LetGo(T, V, x, altered) BY <2>3, <2>4 DEF LetGo
  <2> QED BY <2>1, <2>2, <2>5 DEF V
<1> QED BY <1>8, <1>9, <1>10

LEMMA BecomeReleased ==
  ASSUME VInv, NEW U, NEW x \in Slices, Released(Tables(TRUE), U, x), Become(U), champs_bloques' = OneLess(x),
         UNCHANGED ctl
  PROVE  GoodStep
<1> DEFINE on == TRUE
           T == Tables(on)
           V == TablesNext
           n == champs_bloques
           c == ctl
<1>1. GoodState(T, n, c) BY StateIs
<1>2. V = Exact(U) /\ V.wp <= MaxFile + 1 BY ExactTables
<1>3. T = Exact(T) BY ExactTables
<1>4. Released(T, U, x) OBVIOUS
<1>5. champs_bloques' = CountLess(T, n, x) BY OneLessIs
<1>6. ctl' = c OBVIOUS
<1> HIDE DEF T, V, n, c
<1>7. Good(U) /\ Extends(T, U) /\ Stays(Slices \ {x}, T, U) /\ ~U.s[x].locked BY <1>4 DEF Released
<1>8. Good(V) /\ Extends(T, V) /\ Stays(Slices \ {x}, T, V)
  BY <1>2, <1>3, <1>7, ExactGood, ExactExtends, ExactStays
<1>9. ~V.s[x].locked BY <1>2, <1>7, ExactIs
<1> DEFINE m == CountLess(T, n, x)
<1>10. m = CountLess(T, n, x) OBVIOUS
<1> HIDE DEF m
<1>11. GoodState(V, m, c) /\ LockedKept(T, V, n, m) BY <1>1, <1>2, <1>8, <1>9, <1>10, FreesStep
<1> QED BY <1>5, <1>6, <1>10, <1>11 DEF GoodStep, T, V, n, on

LEMMA UldStep ==
  ASSUME VInv, NeverExactlyFull, NEW x \in Slices, Uld(x)
  PROVE  GoodStep /\ ContentStep
<1> DEFINE on == TRUE
           T == Tables(on)
           a == slices[x].altered
           U == Release(T, x, a)
<1>1. Become(U) /\ champs_bloques' = OneLess(x) /\ UNCHANGED ctl /\ due' = due BY DEF Uld
<1>2. Good(T) /\ slices \in [Slices -> Slice] /\ T.s = slices BY StateIs
<1>3. a \in BOOLEAN
  <2>1. slices[x] \in Slice BY <1>2
  <2> QED BY <2>1, SliceIs
<1>5. (a => Marks(T, x)) /\ (Marks(T, x) => a \/ T.s[x].was) BY <1>2 DEF Marks
<1> HIDE DEF a, on
<1>4. LetGo(T, U, x, a)
  <2> HIDE DEF T
  <2> QED BY <1>2, <1>3, <1>5, ReleaseGood
<1>6. Released(T, U, x) /\ Spares(T, U, {}) BY <1>4, <1>5 DEF LetGo
<1> HIDE DEF U
<1>7. GoodStep BY <1>1, <1>6, BecomeReleased DEF on
<1>8. ContentStep
  <2>1. on \in BOOLEAN /\ due' \subseteq due \ {} BY <1>1 DEF on
  <2> QED BY <1>1, <1>6, <2>1, BecomeSpares
<1> QED BY <1>7, <1>8

---------------------------------------------------------------------------
(* What was written in some slices is given up. *)

LEMMA RemadeFile ==
  ASSUME NEW T, NEW f, TypedTables(T)
  PROVE  Remade(T, [T EXCEPT !.file = f], f, T.b, T.s)
<1> DEFINE B == Seq(Block)
           S == [Slices -> Slice]
           A == [Variables -> Nat]
           P == Nat \ {0}
           F == [1 .. MaxFile -> Word]
<1>1. T \in [b : B, s : S, first : Nat, base : A, wp : P, file : F, intact : BOOLEAN] BY DEF TypedTables
<1> HIDE DEF B, S, A, P, F
<1> QED BY <1>1 DEF Remade

LEMMA RemadeFresh ==
  ASSUME NEW T, NEW f, NEW c, TypedTables(T), c \in Seq(Block)
  PROVE  Remade(T, [[T EXCEPT !.b = c] EXCEPT !.file = f], f, c, T.s)
<1> DEFINE U == [T EXCEPT !.b = c]
<1>1. Remade(T, U, T.file, c, T.s) BY RemadeBlocks
<1>2. T.file \in [1 .. MaxFile -> Word] /\ T.s \in [Slices -> Slice] BY TypedIs
<1> HIDE DEF U
<1>3. Refiled(T, U, T.base, T.wp, T.file, c, T.s) BY <1>1, <1>2, RemadeIs
<1>4. TypedTables(U) /\ U.base = T.base /\ U.wp = T.wp /\ U.b = c /\ U.s = T.s
      /\ U.first = T.first /\ U.intact = T.intact
  BY <1>3 DEF Refiled
<1> DEFINE V == [U EXCEPT !.file = f]
<1>5. Remade(U, V, f, U.b, U.s) BY <1>4, RemadeFile
<1> HIDE DEF V
<1>6. Remade(T, V, f, c, T.s) BY <1>4, <1>5 DEF Remade
<1> QED BY <1>6 DEF U, V

\* nothing is lost but in the slices of gone
Disowned(T, U, gone) ==
  /\ Fresh(T, U)
  /\ \A j \in 1 .. Len(T.b) : T.b[j].slice \notin gone => U.b[j].cur = T.b[j].cur
  /\ \A v \in Slices \ gone : SameWords(T, U, v)

LEMMA DisownedSpares ==
  ASSUME NEW T, NEW U, NEW gone, Good(T), Disowned(T, U, gone)
  PROVE  Spares(T, U, gone)
<1>1. U.s = T.s /\ U.base = T.base /\ U.wp = T.wp /\ Marked(T.b, U.b) BY DEF Disowned, Fresh, Marking
<1>2. T.wp <= U.wp
  <2>1. T.wp \in Nat BY GoodIs, TypedIs
  <2> QED BY <1>1, <2>1
<1>3. Even(T.b) => Even(U.b) BY <1>1, MarkedEven
<1>4. \A v : Marks(U, v) = Marks(T, v) BY <1>1 DEF Marks
<1>5. ASSUME U.wp <= MaxFile + 1, NEW v \in Slices \ gone, Sound(T, v) PROVE Sound(U, v)
  <2>1. OnDisk(T, v) => OnDisk(U, v)
    <3>1. SameWords(T, U, v) BY DEF Disowned
    <3> QED BY <1>1, <1>5, <3>1, OnDiskStays
  <2>2. T.s[v].bk # 0 => U.b[T.s[v].bk].cur = T.b[T.s[v].bk].cur
    <3> SUFFICES ASSUME T.s[v].bk # 0 PROVE U.b[T.s[v].bk].cur = T.b[T.s[v].bk].cur OBVIOUS
    <3>1. T.s[v].bk \in 1 .. Len(T.b) /\ T.b[T.s[v].bk].slice = v BY GoodIs DEF Names
    <3> QED BY <3>1 DEF Disowned
  <2> QED BY <1>1, <1>4, <1>5, <2>1, <2>2 DEF Sound
<1> QED BY <1>2, <1>3, <1>4, <1>5 DEF Spares

LEMMA ForgoneDisowned ==
  ASSUME NEW T, NEW gone, Good(T)
  PROVE  Disowned(T, Forgone(T, gone), gone)
<1> DEFINE b == T.b
           f == T.file
           c == [i \in DOMAIN b |-> Current(b[i], b[i].cur /\ b[i].slice \notin gone)]
           g == [w \in DOMAIN f |-> Current(f[w], f[w].cur /\ f[w].of \notin gone)]
           U == Forgone(T, gone)
<1>1. /\ TypedTables(T) /\ b \in Seq(Block) /\ DOMAIN b = 1 .. Len(b) /\ Len(b) \in Nat
      /\ f \in [1 .. MaxFile -> Word]
  BY GoodIs, TypedIs
<1>2. U = [[T EXCEPT !.b = c] EXCEPT !.file = g]
  <2>1. U = [T EXCEPT !.b = c, !.file = g] BY <1>1 DEF Forgone, TypedTables
  <2> HIDE DEF c, g
  <2> QED BY <2>1
<1>3. \A j \in 1 .. Len(b) : /\ c[j] \in Block /\ BlockMark(b[j], c[j]) /\ SameFlags(c[j], b[j])
                             /\ b[j].slice \notin gone => c[j].cur = b[j].cur
  <2> SUFFICES ASSUME NEW j \in 1 .. Len(b)
               PROVE  /\ BlockMark(b[j], c[j]) /\ SameFlags(c[j], b[j])
                      /\ b[j].slice \notin gone => c[j].cur = b[j].cur
    BY DEF BlockMark
  <2> DEFINE d == b[j]
             cur == d.cur /\ d.slice \notin gone
             e == Current(d, cur)
  <2>1. c[j] = e BY <1>1
  <2>2. d \in Block BY <1>1
  <2>3. cur \in BOOLEAN /\ (d.slice \notin gone => cur = d.cur)
    <3>1. d.cur \in BOOLEAN BY <2>2, BlockIs
    <3> QED BY <3>1
  <2> HIDE DEF d, cur
  <2>4. /\ e \in Block /\ e.slice = d.slice /\ e.adr = d.adr /\ e.size = d.size /\ SameFlags(e, d)
        /\ e.prev = d.prev /\ e.next = d.next /\ e.file = d.file /\ e.cur = cur
    BY <2>2, <2>3, CurrentIs
  <2> HIDE DEF e, c
  <2>5. BlockMark(d, c[j]) /\ SameFlags(c[j], d) BY <2>1, <2>4 DEF BlockMark
  <2>6. d.slice \notin gone => c[j].cur = d.cur BY <2>1, <2>3, <2>4
  <2> QED BY <2>5, <2>6 DEF d
<1>4. c \in Seq(Block) /\ Len(c) = Len(b)
  <2> DEFINE n == Len(b)
  <2>1. c \in [1 .. n -> Block]
    <3>1. c = [j \in 1 .. n |-> c[j]] BY <1>1
    <3> HIDE DEF c
    <3> QED BY <1>3, <3>1
  <2>2. n \in Nat BY <1>1
  <2> HIDE DEF n, c
  <2>3. c \in Seq(Block) /\ Len(c) = n BY <2>1, <2>2
  <2> QED BY <2>3 DEF n
<1>5. \A w \in 1 .. MaxFile : g[w] \in Word /\ g[w].of = f[w].of
  <2> SUFFICES ASSUME NEW w \in 1 .. MaxFile PROVE g[w] \in Word /\ g[w].of = f[w].of OBVIOUS
  <2> DEFINE d == f[w]
             cur == d.cur /\ d.of \notin gone
             e == Current(d, cur)
  <2>1. g[w] = e /\ d \in Word BY <1>1
  <2>2. cur \in BOOLEAN
    <3>1. d.cur \in BOOLEAN BY <2>1 DEF Word
    <3> QED BY <3>1
  <2> HIDE DEF d, cur
  <2>3. e \in Word /\ e.of = d.of BY <2>1, <2>2, CurrentIs
  <2> HIDE DEF e, g
  <2>4. g[w] \in Word /\ g[w].of = d.of BY <2>1, <2>3
  <2> QED BY <2>4 DEF d
<1>6. g \in [1 .. MaxFile -> Word]
  <2>1. g = [w \in 1 .. MaxFile |-> g[w]] BY <1>1
  <2> HIDE DEF g
  <2> QED BY <1>5, <2>1
<1>11. ASSUME NEW w \in 1 .. MaxFile, f[w].of \notin gone PROVE g[w] = f[w]
  <2> DEFINE d == f[w]
             cur == d.cur
  <2>1. g[w] = Current(d, d.cur /\ d.of \notin gone) BY <1>1
  <2>2. d \in Word BY <1>1
  <2>3. d.of \notin gone BY <1>11
  <2> HIDE DEF d, g
  <2>4. cur \in BOOLEAN BY <2>2 DEF Word
  <2>5. (d.cur /\ d.of \notin gone) = cur BY <2>3, <2>4
  <2>6. g[w] = Current(d, cur) BY <2>1, <2>5
  <2>7. [d EXCEPT !.cur = cur] = d BY <2>2 DEF Word
  <2> QED BY <2>6, <2>7 DEF Current, d
<1> HIDE DEF c, g, U, b
<1>7. Remade(T, U, g, c, T.s) BY <1>1, <1>2, <1>4, RemadeFresh
<1>8. Len(c) = Len(T.b) /\ \A j \in 1 .. Len(T.b) : BlockMark(T.b[j], c[j]) /\ SameFlags(c[j], T.b[j])
  BY <1>3, <1>4 DEF b
<1>9. \A w \in 1 .. MaxFile : g[w].of = T.file[w].of BY <1>5
<1>10. Fresh(T, U) /\ U.b = c /\ U.file = g BY <1>4, <1>6, <1>7, <1>8, <1>9, FreshBy
<1>12. \A j \in 1 .. Len(T.b) : T.b[j].slice \notin gone => U.b[j].cur = T.b[j].cur BY <1>3, <1>10 DEF b
<1>13. \A v \in Slices \ gone : SameWords(T, U, v) BY <1>10, <1>11 DEF SameWords, f
<1>14. Disowned(T, U, gone) BY <1>10, <1>12, <1>13 DEF Disowned
<1> QED BY <1>14 DEF U

LEMMA FreshReleased ==
  ASSUME NEW T, NEW U, NEW V, NEW x, Good(T), x \in Slices, Released(T, U, x), Fresh(U, V)
  PROVE  Released(T, V, x)
<1> DEFINE X == Slices \ {x}
<1>1. Good(U) /\ Extends(T, U) /\ Stays(X, T, U) /\ ~U.s[x].locked /\ Len(U.b) = Len(T.b)
      /\ \A v \in Slices : U.s[v].bk = T.s[v].bk \/ U.s[v].bk = 0
  BY DEF Released
<1>2. V.s = U.s /\ Len(V.b) = Len(U.b) BY DEF Fresh, Marking, Marked
<1>3. Loads(U, V) BY <1>1, FreshLoads
<1>4. Good(V) /\ Extends(U, V) /\ Stays(Slices, U, V) BY <1>3 DEF Loads
<1>5. Extends(T, V)
  <2>1. TypedTables(T) /\ TypedTables(U) /\ TypedTables(V) BY <1>1, <1>4, GoodIs
  <2> QED BY <1>1, <1>4, <2>1, ExtendsTrans
<1>6. Stays(X, U, V) BY <1>4 DEF Stays
<1> HIDE DEF X
<1>7. Stays(X, T, V) BY <1>1, <1>6, StaysTrans
<1> QED BY <1>1, <1>2, <1>4, <1>5, <1>7 DEF Released, X

LEMMA GiveUpSpares ==
  ASSUME NEW U, NEW gone, Good(Tables(TRUE)), Good(U), Spares(Tables(TRUE), U, gone), GiveUp(U, gone)
  PROVE  ContentStep
<1> DEFINE on == TRUE
           T == Tables(on)
           V == Forgone(U, gone)
<1>1. Good(T) /\ Spares(T, U, gone) OBVIOUS
<1>2. Become(V) /\ due' \subseteq due \ gone BY DEF GiveUp
<1>3. on \in BOOLEAN OBVIOUS
<1> HIDE DEF T, V, on
<1>4. Disowned(U, V, gone) BY ForgoneDisowned DEF V
<1>5. Spares(U, V, gone) BY <1>4, DisownedSpares
<1>6. Good(V)
  <2>1. Loads(U, V) BY <1>4, FreshLoads DEF Disowned
  <2> QED BY <2>1 DEF Loads
<1>7. TypedTables(T) /\ TypedTables(U) /\ TypedTables(V) BY <1>1, <1>6, GoodIs
<1>8. Spares(T, V, gone) BY <1>1, <1>5, <1>7, SparesTrans
<1>9. Spares(Tables(on), V, gone) BY <1>8 DEF T
<1> QED BY <1>2, <1>3, <1>9, BecomeSpares

LEMMA GiveUpReleased ==
  ASSUME VInv, NEW U, NEW gone, NEW x \in Slices, Released(Tables(TRUE), U, x), GiveUp(U, gone),
         champs_bloques' = OneLess(x), UNCHANGED ctl
  PROVE  GoodStep /\ (Spares(Tables(TRUE), U, gone) => ContentStep)
<1> DEFINE on == TRUE
           T == Tables(on)
           V == Forgone(U, gone)
<1>1. Good(T) BY StateIs
<1>2. Released(T, U, x) OBVIOUS
<1>3. Become(V) BY DEF GiveUp
<1> HIDE DEF V
<1>4. Released(Tables(TRUE), V, x)
  <2> HIDE DEF T
  <2>1. Good(U) BY <1>2 DEF Released
  <2>2. Fresh(U, V) BY <2>1, ForgoneDisowned DEF V, Disowned
  <2>3. Released(T, V, x) BY <1>1, <1>2, <2>2, FreshReleased
  <2> QED BY <2>3 DEF T
<1>5. GoodStep BY <1>3, <1>4, BecomeReleased
<1>6. Spares(T, U, gone) => ContentStep
  <2>1. Good(U) /\ due' = due \ gone /\ on \in BOOLEAN BY DEF Released, GiveUp
  <2>2. Spares(T, U, gone) => ContentStep
    <3>1. Good(Tables(TRUE)) BY <1>1
    <3> HIDE DEF V
    <3> QED BY <2>1, <3>1, GiveUpSpares
  <2> QED BY <2>2
<1> QED BY <1>5, <1>6

LEMMA UlnStep ==
  ASSUME VInv, NeverExactlyFull, NEW x \in Slices, Uln(x)
  PROVE  GoodStep /\ ContentStep
<1> DEFINE on == TRUE
           T == Tables(on)
           a == slices[x].was
           U == Release(T, x, a)
           gone == IF slices[x].altered /\ ~slices[x].was THEN {x} ELSE {}
<1>1. GiveUp(U, gone) /\ champs_bloques' = OneLess(x) /\ UNCHANGED ctl BY DEF Uln
<1>2. Good(T) /\ slices \in [Slices -> Slice] /\ T.s = slices BY StateIs
<1>3. a \in BOOLEAN
  <2>1. slices[x] \in Slice BY <1>2
  <2> QED BY <2>1, SliceIs
<1>5. (a => Marks(T, x)) /\ a = T.s[x].was BY <1>2 DEF Marks
<1>6. gone = {x} \/ (gone = {} /\ (Marks(T, x) => a \/ T.s[x].was)) BY <1>2 DEF Marks
<1> HIDE DEF a, on, gone
<1>4. LetGo(T, U, x, a)
  <2> HIDE DEF T
  <2> QED BY <1>2, <1>3, <1>5, ReleaseGood
<1> HIDE DEF U
<1>7. Released(T, U, x) /\ Spares(T, U, gone)
  <2> HIDE DEF T
  <2> QED BY <1>4, <1>6 DEF LetGo
<1> QED BY <1>1, <1>7, GiveUpReleased DEF on

LEMMA ReleasedAlready ==
  ASSUME NEW T, NEW x, Good(T), x \in Slices, ~T.s[x].locked
  PROVE  Released(T, T, x)
<1>1. Extends(T, T) BY ExtendsSelf
<1>2. Stays(Slices \ {x}, T, T) BY DEF Stays
<1> QED BY <1>1, <1>2 DEF Released

LEMMA OutIsUnlocked ==
  ASSUME VInv, NEW x \in Slices, ~InCore(x)
  PROVE  ~slices[x].locked /\ slices[x].bk = 0
<1> DEFINE T == Tables(TRUE)
<1>1. Good(T) /\ T.s = slices BY StateIs
<1> HIDE DEF T
<1>2. slices[x].bk = 0 BY DEF InCore
<1>3. IF T.s[x].bk = 0 THEN ~T.s[x].locked ELSE TRUE BY <1>1, GoodIs DEF Names
<1> QED BY <1>1, <1>2, <1>3

LEMMA RlsStep ==
  ASSUME VInv, NeverExactlyFull, NEW x \in Slices, Rls(x)
  PROVE  GoodStep /\ ContentStep
<1> DEFINE on == TRUE
           off == FALSE
           T == Tables(on)
           i == slices[x].bk
           U == EjectBlock(T, i, off)
           one == {x}
           none == {}
<1>1. champs_bloques' = OneLess(x) /\ UNCHANGED ctl BY DEF Rls
<1>2. IF InCore(x) THEN GiveUp(U, one) ELSE GiveUp(T, none) BY DEF Rls
<1>3. Good(T) /\ T.s = slices BY StateIs
<1>4. CASE InCore(x)
  <2>1. T.s[x].bk # 0 BY <1>3, <1>4 DEF InCore
  <2>2. U = EjectBlock(T, T.s[x].bk, FALSE) BY <1>3
  <2> HIDE DEF U, one
  <2>3. Released(T, U, x) /\ Spares(T, U, one)
    <3> HIDE DEF T
    <3> QED BY <1>3, <2>1, <2>2, EjectedReleased DEF one
  <2>4. GiveUp(U, one) BY <1>2, <1>4
  <2> QED BY <1>1, <2>3, <2>4, GiveUpReleased
<1>5. CASE ~InCore(x)
  <2>1. ~T.s[x].locked BY <1>3, <1>5, OutIsUnlocked
  <2>2. GiveUp(T, none) BY <1>2, <1>5
  <2>3. Released(T, T, x) /\ Spares(T, T, none)
    <3> HIDE DEF T
    <3>1. TypedTables(T) BY <1>3, GoodIs
    <3> QED BY <1>3, <2>1, <3>1, ReleasedAlready, SparesSelf
  <2> HIDE DEF none
  <2> QED BY <1>1, <2>2, <2>3, GiveUpReleased
<1> QED BY <1>4, <1>5

LEMMA FgtStep ==
  ASSUME VInv, ~ForgetInCore, NEW x \in Slices, Fgt(x)
  PROVE  GoodStep /\ ContentStep
<1> DEFINE on == TRUE
           T == Tables(on)
           off == FALSE
           b == blocks
           z == NotInCore(off)
           t == [slices EXCEPT ![x] = z]
           U == [T EXCEPT !.s = t]
           gone == {x}
           c == [j \in DOMAIN b |-> IF j = slices[x].bk THEN Emptied(b[j]) ELSE b[j]]
<1>1. ~InCore(x) /\ UNCHANGED <<champs_bloques, ctl>> BY DEF Fgt
<1>2. ~slices[x].locked /\ slices[x].bk = 0 BY <1>1, OutIsUnlocked
<1>3. /\ Good(T) /\ T.s = slices /\ T.b = b /\ b \in Seq(Block) /\ DOMAIN b = 1 .. Len(b)
      /\ slices \in [Slices -> Slice]
  BY StateIs
<1>4. c = b
  <2>1. \A j \in DOMAIN b : j # 0 BY <1>3
  <2>2. \A j \in DOMAIN b : c[j] = b[j] BY <1>2, <2>1
  <2>3. b = [j \in DOMAIN b |-> b[j]] BY <1>3
  <2> HIDE DEF b
  <2> QED BY <2>2, <2>3
<1>5. [T EXCEPT !.s[x] = NotInCore(FALSE), !.b = [j \in DOMAIN @ |-> IF j = slices[x].bk THEN Emptied(blocks[j]) ELSE @[j]]] = U
  <2>1. TypedTables(T) BY <1>3, GoodIs
  <2>2. [T EXCEPT !.s = t, !.b = c] = [T EXCEPT !.s = t]
    <3>1. [T EXCEPT !.s = t, !.b = T.b] = [T EXCEPT !.s = t]
      <4> HIDE DEF T, t
      <4> QED BY <2>1 DEF TypedTables
    <3> QED BY <1>3, <1>4, <3>1
  <2> QED BY <1>3, <2>2
<1>6. GiveUp(U, gone) BY <1>3, <1>5 DEF Fgt
<1>7. off \in BOOLEAN /\ off = FALSE OBVIOUS
<1> HIDE DEF off
<1>8. z \in Slice /\ z.bk = 0 /\ ~z.locked /\ z.image = off /\ ~z.altered /\ ~z.was BY <1>7, NotInCoreIs
<1>9. t \in [Slices -> Slice]
  <2> HIDE DEF z
  <2> QED BY <1>3, <1>8
<1>10. OneMarked(T, U, x, z)
  <2> DEFINE d == T.b
  <2>1. TypedTables(T) BY <1>3, GoodIs
  <2>2. OutChanged(T, d, t, x, z)
    <3>1. SliceMark(slices[x], z) BY <1>2, <1>7, <1>8 DEF SliceMark
    <3> HIDE DEF z
    <3> QED BY <1>2, <1>3, <1>8, <3>1 DEF OutChanged
  <2> HIDE DEF t, T, d, z
  <2>3. Remade(T, U, T.file, d, t) BY <2>1, RemadeSlices DEF d
  <2> HIDE DEF U
  <2> QED BY <1>3, <2>2, <2>3, OutChangeMarks
<1>11. Released(T, U, x) /\ Spares(T, U, gone)
  <2> HIDE DEF T, U, z
  <2>1. Spares(T, U, gone) BY <1>3, <1>8, <1>10, OneMarkedSpares DEF gone
  <2>2. Released(T, U, x) BY <1>3, <1>8, <1>10, MarkedReleased
  <2> QED BY <2>1, <2>2
<1>12. champs_bloques' = OneLess(x)
  <2>1. champs_bloques \in Nat
    <3> DEFINE n == champs_bloques
               k == ctl
    <3>1. GoodState(T, n, k) BY StateIs
    <3> HIDE DEF n, k, T
    <3>2. n \in Nat BY <3>1 DEF GoodState, Counted
    <3> QED BY <3>2 DEF n
  <2> QED BY <1>1, <2>1 DEF OneLess
<1> HIDE DEF U, gone
<1> QED BY <1>1, <1>6, <1>11, <1>12, GiveUpReleased DEF on

LEMMA BearsSelf ==
  ASSUME NEW T, Good(T)
  PROVE  Bears(T, T)
<1>1. TypedTables(T) BY GoodIs
<1> QED BY <1>1, ExtendsSelf, SparesSelf DEF Bears

LEMMA SparesWider ==
  ASSUME NEW T, NEW U, NEW y, NEW X, Spares(T, U, {y}), y \in X
  PROVE  Spares(T, U, X)
BY DEF Spares

Ulds(d, U, k) ==
  /\ Good(U) /\ Extends(d, U) /\ Spares(d, U, {}) /\ Len(U.b) = Len(d.b)
  /\ \A v \in Slices : /\ U.s[v].bk = d.s[v].bk \/ U.s[v].bk = 0
                       /\ d.s[v].bk <= k => ~U.s[v].locked

LU == INSTANCE Loops WITH Turn <- UldTurn, Inv <- Ulds

LEMMA UldTurnKeeps ==
  ASSUME NEW T, NEW U, NEW k, NEW m, NEW none, NeverExactlyFull, Good(T), m \in Nat, k = m + 1, k <= Len(T.b), Ulds(T, U, m)
  PROVE  Ulds(T, UldTurn(none, U, k), k)
<1> DEFINE V == UldTurn(none, U, k)
           b == U.b
           s == U.s
           y == b[k].slice
<1>1. /\ Good(U) /\ Extends(T, U) /\ Spares(T, U, {}) /\ Len(b) = Len(T.b)
      /\ \A v \in Slices : s[v].bk = T.s[v].bk \/ s[v].bk = 0
      /\ \A v \in Slices : T.s[v].bk <= m => ~s[v].locked
  BY DEF Ulds
<1>2. k \in 1 .. Len(b) /\ b \in Seq(Block) /\ s \in [Slices -> Slice] /\ DOMAIN b = 1 .. Len(b)
  BY <1>1, GoodIs
<1>3. \A v \in Slices : IF s[v].bk = 0 THEN ~s[v].locked ELSE s[v].bk \in 1 .. Len(b) /\ b[s[v].bk].slice = v
  BY <1>1, GoodIs DEF Names
<1>4. \A v \in Slices : T.s[v].bk \in Nat
  <2>1. T.s \in [Slices -> Slice] BY GoodIs
  <2>2. \A v \in Slices : T.s[v] \in Slice BY <2>1
  <2> QED BY <2>2, SliceIs
<1>5. CASE InUse(b[k])
  <2>1. y \in Slices /\ s[y].bk = k /\ T.s[y].bk = k
    <3>1. IF InUse(U.b[k]) THEN U.b[k].slice \in Slices /\ U.s[U.b[k].slice].bk = k ELSE TRUE BY <1>1, <1>2, Unmarked
    <3>2. y \in Slices /\ s[y].bk = k BY <1>5, <3>1
    <3>3. k # 0 BY <1>2
    <3> HIDE DEF y, s
    <3> QED BY <1>1, <3>2, <3>3
  <2> DEFINE a == s[y].altered
  <2>2. a \in BOOLEAN
    <3>1. s[y] \in Slice BY <1>2, <2>1
    <3> QED BY <3>1, SliceIs
  <2>3. V = Release(U, y, a) BY <1>5 DEF UldTurn
  <2>10. (a => Marks(U, y)) /\ (Marks(U, y) => a \/ U.s[y].was) BY DEF Marks
  <2> HIDE DEF V, y, a, b, s
  <2>11. LetGo(U, V, y, a) BY <1>1, <2>1, <2>2, <2>3, <2>10, ReleaseGood
  <2>4. Released(U, V, y) /\ Spares(U, V, {}) BY <2>10, <2>11 DEF LetGo
  <2>5. /\ Good(V) /\ Extends(U, V) /\ Stays(Slices \ {y}, U, V) /\ ~V.s[y].locked /\ Len(V.b) = Len(U.b)
        /\ \A v \in Slices : V.s[v].bk = U.s[v].bk \/ V.s[v].bk = 0
    BY <2>4 DEF Released
  <2>6. Extends(T, V) /\ Spares(T, V, {})
    <3>1. TypedTables(T) /\ TypedTables(U) /\ TypedTables(V) BY <1>1, <2>5, GoodIs
    <3>2. Extends(T, V) BY <1>1, <2>5, <3>1, ExtendsTrans
    <3>3. Spares(T, V, {}) BY <1>1, <2>4, <3>1, SparesTrans
    <3> QED BY <3>2, <3>3
  <2>7. \A v \in Slices : T.s[v].bk <= k => ~V.s[v].locked
    <3> SUFFICES ASSUME NEW v \in Slices, T.s[v].bk <= k, v # y PROVE ~V.s[v].locked BY <2>5
    <3>1. V.s[v].locked = s[v].locked BY <2>5 DEF Stays, s
    <3>2. ~s[v].locked
      <4>1. CASE T.s[v].bk <= m BY <1>1, <4>1
      <4>2. CASE ~(T.s[v].bk <= m)
        <5>1. T.s[v].bk = k BY <1>4, <4>2
        <5>2. s[v].bk # k BY <1>3, <2>1 DEF y
        <5>3. s[v].bk = 0 BY <1>1, <5>1, <5>2
        <5> QED BY <1>3, <5>3
      <4> QED BY <4>1, <4>2
    <3> QED BY <3>1, <3>2
  <2>8. \A v \in Slices : V.s[v].bk = T.s[v].bk \/ V.s[v].bk = 0 BY <1>1, <2>5 DEF s
  <2>9. Ulds(T, V, k) BY <1>1, <2>5, <2>6, <2>7, <2>8 DEF Ulds, b
  <2> QED BY <2>9 DEF V
<1>6. CASE ~InUse(b[k])
  <2>1. V = U BY <1>6 DEF UldTurn
  <2> HIDE DEF V
  <2>2. \A v \in Slices : T.s[v].bk <= k => ~s[v].locked
    <3> SUFFICES ASSUME NEW v \in Slices, T.s[v].bk <= k PROVE ~s[v].locked OBVIOUS
    <3>1. CASE T.s[v].bk <= m BY <1>1, <3>1
    <3>2. CASE ~(T.s[v].bk <= m)
      <4>1. T.s[v].bk = k BY <1>4, <3>2
      <4>2. s[v].bk # k BY <1>3, <1>6, VmmAssumption DEF InUse
      <4>3. s[v].bk = 0 BY <1>1, <4>1, <4>2
      <4> QED BY <1>3, <4>3
    <3> QED BY <3>1, <3>2
  <2>3. Ulds(T, V, k) BY <1>1, <2>1, <2>2 DEF Ulds
  <2> QED BY <2>3 DEF V
<1> QED BY <1>5, <1>6

LEMMA UldAllGood ==
  ASSUME NEW T, NeverExactlyFull, Good(T)
  PROVE  LET U == Repeat(UldTurn, {}, T, Len(T.b))
         IN  Good(U) /\ Extends(T, U) /\ Spares(T, U, {}) /\ \A x \in Slices : ~U.s[x].locked
<1> DEFINE n == Len(T.b)
           none == {}
           z == LU!After(none, T, n)
<1>1. n \in Nat BY GoodIs
<1>2. Ulds(T, T, 0)
  <2>4. TypedTables(T) BY GoodIs
  <2>5. Spares(T, T, {}) BY <2>4, SparesSelf
  <2>1. Extends(T, T) BY ExtendsSelf
  <2>2. \A v \in Slices : T.s[v].bk \in Nat /\ (T.s[v].bk = 0 => ~T.s[v].locked)
    <3>1. T.s \in [Slices -> Slice] /\ Names(T.b, T.s) BY GoodIs
    <3>2. \A v \in Slices : T.s[v] \in Slice BY <3>1
    <3> QED BY <3>1, <3>2, SliceIs DEF Names
  <2>3. \A v \in Slices : T.s[v].bk <= 0 => ~T.s[v].locked BY <2>2
  <2> QED BY <2>1, <2>3, <2>5 DEF Ulds
<1> HIDE DEF none
<1>3. \A k \in 1 .. n : \A U : Ulds(T, U, k - 1) => Ulds(T, UldTurn(none, U, k), k)
  <2> SUFFICES ASSUME NEW k \in 1 .. n, NEW U, Ulds(T, U, k - 1) PROVE Ulds(T, UldTurn(none, U, k), k) OBVIOUS
  <2> DEFINE m == k - 1
  <2>1. m \in Nat /\ k = m + 1 /\ k <= Len(T.b) BY <1>1
  <2>2. Ulds(T, U, m) OBVIOUS
  <2> HIDE DEF m
  <2> QED BY <2>1, <2>2, UldTurnKeeps
<1>9. n = Len(T.b) OBVIOUS
<1> HIDE DEF n
<1>4. Ulds(T, z, n) BY <1>1, <1>2, <1>3, LU!LoopKeeps
<1>5. z = Repeat(UldTurn, {}, T, Len(T.b)) BY DEF z, n, none, Repeat, LU!After
<1> HIDE DEF z
<1>6. \A x \in Slices : ~z.s[x].locked
  <2> SUFFICES ASSUME NEW x \in Slices PROVE ~z.s[x].locked OBVIOUS
  <2>1. T.s[x].bk <= n
    <3>1. T.s \in [Slices -> Slice] /\ Names(T.b, T.s) /\ DOMAIN T.b = 1 .. Len(T.b) BY GoodIs
    <3>2. T.s[x].bk = 0 \/ T.s[x].bk \in 1 .. Len(T.b) BY <3>1 DEF Names
    <3> QED BY <1>1, <1>9, <3>2
  <2> QED BY <1>4, <2>1 DEF Ulds
<1>7. Good(z) /\ Extends(T, z) /\ Spares(T, z, {}) BY <1>4 DEF Ulds
<1> QED BY <1>5, <1>6, <1>7

LEMMA UldAllStep ==
  ASSUME VInv, NeverExactlyFull, UldAll
  PROVE  GoodStep /\ ContentStep
<1> DEFINE on == TRUE
           T == Tables(on)
           V == TablesNext
           n == champs_bloques
           c == ctl
           U == Repeat(UldTurn, {}, T, Len(T.b))
<1>1. GoodState(T, n, c) /\ Good(T) /\ T.b = blocks BY StateIs
<1>2. Become(U) /\ champs_bloques' = 0 /\ ctl' = c /\ due' = due BY <1>1 DEF UldAll
<1>3. T = Exact(T) BY ExactTables
<1>10. on \in BOOLEAN OBVIOUS
<1> HIDE DEF T
<1>4. Good(U) /\ Extends(T, U) /\ Spares(T, U, {}) /\ \A x \in Slices : ~U.s[x].locked BY <1>1, UldAllGood
<1> HIDE DEF U
<1>9. ContentStep
  <2>1. Spares(Tables(on), U, {}) BY <1>4 DEF T
  <2>2. due' \subseteq due \ {} BY <1>2
  <2> HIDE DEF on
  <2> QED BY <1>2, <1>10, <2>1, <2>2, BecomeSpares
<1>5. V = Exact(U) /\ V.wp <= MaxFile + 1 BY <1>2, ExactTables
<1> HIDE DEF V, n, c
<1>6. Good(V) /\ Extends(T, V) BY <1>3, <1>4, <1>5, ExactGood, ExactExtends
<1>7. \A x \in Slices : ~V.s[x].locked BY <1>4, <1>5, ExactIs
<1>8. GoodState(V, 0, c) /\ LockedKept(T, V, n, 0) BY <1>1, <1>5, <1>6, <1>7, FreesAllStep
<1> QED BY <1>2, <1>8, <1>9 DEF GoodStep, T, V, n, on

---------------------------------------------------------------------------
(* The checkpoints, and the next program. *)

\* what a checkpoint says of the data file is true
LEMMA ControleIs ==
  ASSUME NEW T, Good(T), T.wp <= MaxFile + 1
  PROVE  Control(T, Controle(T))
<1> DEFINE c == Controle(T)
           X == {x \in Slices : T.s[x].image}
           on == TRUE
<1>1. c = [written |-> on, base |-> T.base, image |-> X] BY DEF Controle
<1>2. T.base \in [Variables -> Nat] /\ X \in SUBSET Slices /\ on \in BOOLEAN
  <2>1. TypedTables(T) BY GoodIs
  <2> QED BY <2>1 DEF TypedTables
<1>9. on = TRUE OBVIOUS
<1> HIDE DEF on
<1>3. c.written = on /\ c.base = T.base /\ c.image = X BY <1>1
<1>4. c \in [written : BOOLEAN, base : [Variables -> Nat], image : SUBSET Slices] BY <1>1, <1>2
<1>5. \A x \in X : T.base[VarOf[x]] # NoAdr /\ x \in Written(T)
  <2> SUFFICES ASSUME NEW x \in Slices, T.s[x].image PROVE T.base[VarOf[x]] # NoAdr /\ x \in Written(T) OBVIOUS
  <2>1. x \in Written(T) BY DEF Good, ImagesWritten
  <2>2. FileAdr(T, x) # NoAdr BY <2>1 DEF Written
  <2> QED BY <2>1, <2>2 DEF FileAdr
<1> HIDE DEF c, X
<1>6. Control(T, c) BY <1>3, <1>4, <1>5, <1>9 DEF Control
<1> QED BY <1>6 DEF c

Cpks(d, U, k) ==
  /\ Good(U) /\ Bears(d, U) /\ Len(U.b) = Len(d.b) /\ Locked(U) \subseteq Locked(d)
  /\ \A j \in 1 .. Len(U.b) : ~U.b[j].keep

LC == INSTANCE Loops WITH Turn <- CpkTurn, Inv <- Cpks

LEMMA CpkTurnKeeps ==
  ASSUME NEW T, NEW U, NEW k, NEW m, NEW none, NeverExactlyFull, Good(T), k \in 1 .. Len(T.b), Cpks(T, U, m)
  PROVE  Cpks(T, CpkTurn(none, U, k), k)
<1> DEFINE V == CpkTurn(none, U, k)
<1>1. /\ Good(U) /\ Bears(T, U) /\ Len(U.b) = Len(T.b) /\ Locked(U) \subseteq Locked(T)
      /\ \A j \in 1 .. Len(U.b) : ~U.b[j].keep
  BY DEF Cpks
<1>2. k \in 1 .. Len(U.b) BY <1>1
<1>3. Good(V) /\ Bears(U, V) /\ Len(V.b) = Len(U.b) /\ Locked(V) \subseteq Locked(U)
      /\ \A j \in 1 .. Len(V.b) : ~V.b[j].keep
  <2>1. CASE ~InUse(U.b[k])
    <3>1. V = U BY <2>1 DEF CpkTurn
    <3>2. Bears(U, U) BY <1>1, BearsSelf
    <3> HIDE DEF V
    <3> QED BY <1>1, <3>1, <3>2
  <2>2. CASE InUse(U.b[k]) /\ Altered(U.b[k])
    <3> DEFINE W == Save(U, k)
    <3>1. V = W BY <2>2 DEF CpkTurn
    <3> HIDE DEF V
    <3>2. Good(W) /\ Bears(U, W) /\ Filed(U, W) BY <1>1, <1>2, <2>2, SaveGood DEF Bears
    <3> HIDE DEF W
    <3>3. Len(W.b) = Len(U.b) BY <3>2 DEF Filed, Marked
    <3>4. Locked(W) = Locked(U) BY <3>2 DEF Filed, Locked
    <3>5. \A j \in 1 .. Len(W.b) : ~W.b[j].keep BY <1>1, <3>2, <3>3 DEF Filed
    <3> QED BY <3>1, <3>2, <3>3, <3>4, <3>5
  <2>3. CASE InUse(U.b[k]) /\ ~Altered(U.b[k])
    <3> DEFINE off == FALSE
               W == EjectBlock(U, k, off)
    <3>1. V = W BY <2>3 DEF CpkTurn
    <3>2. off \in BOOLEAN OBVIOUS
    <3> HIDE DEF V, off
    <3>3. Good(W) /\ Bears(U, W) /\ Ejected(U, W, k)
      <4>1. Good(W) /\ Extends(U, W) /\ Ejected(U, W, k) /\ (off \/ ~Altered(U.b[k]) => Spares(U, W, {}))
        BY <1>1, <1>2, <3>2, EjectGood
      <4> QED BY <2>3, <4>1 DEF Bears
    <3> HIDE DEF W
    <3>4. Len(W.b) = Len(U.b) BY <3>3 DEF Ejected
    <3>5. \A x \in Slices : W.s[x].locked => U.s[x].locked BY <3>3 DEF Ejected
    <3>6. Locked(W) \subseteq Locked(U) BY <3>5 DEF Locked
    <3>7. \A j \in 1 .. Len(W.b) : ~W.b[j].keep BY <1>1, <3>3, <3>4 DEF Ejected
    <3> QED BY <3>1, <3>3, <3>4, <3>6, <3>7
  <2> QED BY <2>1, <2>2, <2>3
<1> HIDE DEF V
<1>4. Bears(T, V)
  <2>1. TypedTables(T) /\ TypedTables(U) /\ TypedTables(V) BY <1>1, <1>3, GoodIs
  <2> QED BY <1>1, <1>3, <2>1, BearsTrans
<1>5. Cpks(T, V, k) BY <1>1, <1>3, <1>4 DEF Cpks
<1> QED BY <1>5 DEF V

LEMMA CpkAllGood ==
  ASSUME NEW T, NeverExactlyFull, Good(T), \A j \in 1 .. Len(T.b) : ~T.b[j].keep
  PROVE  LET U == Repeat(CpkTurn, {}, T, Len(T.b)) IN Cpks(T, U, Len(T.b))
<1> DEFINE n == Len(T.b)
           none == {}
           z == LC!After(none, T, n)
<1>1. n \in Nat BY GoodIs
<1>2. Cpks(T, T, 0)
  <2>1. Bears(T, T) BY BearsSelf
  <2> QED BY <2>1 DEF Cpks
<1> HIDE DEF none
<1>3. \A k \in 1 .. n : \A U : Cpks(T, U, k - 1) => Cpks(T, CpkTurn(none, U, k), k)
  <2> SUFFICES ASSUME NEW k \in 1 .. n, NEW U, Cpks(T, U, k - 1) PROVE Cpks(T, CpkTurn(none, U, k), k) OBVIOUS
  <2> DEFINE m == k - 1
  <2>1. k \in 1 .. Len(T.b) /\ Cpks(T, U, m) OBVIOUS
  <2> HIDE DEF m
  <2> QED BY <2>1, CpkTurnKeeps
<1>9. n = Len(T.b) OBVIOUS
<1> HIDE DEF n
<1>4. Cpks(T, z, n) BY <1>1, <1>2, <1>3, LC!LoopKeeps
<1>5. z = Repeat(CpkTurn, {}, T, Len(T.b)) BY DEF z, n, none, Repeat, LC!After
<1> HIDE DEF z
<1> QED BY <1>4, <1>5, <1>9

LEMMA CheckpointStep ==
  ASSUME NEW T, NEW U, NEW n, NEW c, GoodState(T, n, c), Good(U), Locked(U) \subseteq Locked(T), U.wp <= MaxFile + 1
  PROVE  GoodState(U, n, Controle(U))
<1>1. Counted(U, n)
  <2> DEFINE L == Locked(T)
             M == Locked(U)
  <2>1. IsFiniteSet(L) /\ M \subseteq L /\ Cardinality(L) \in Nat /\ Cardinality(M) \in Nat BY LockedFinite
  <2>2. n \in Nat /\ Cardinality(L) <= n BY DEF GoodState, Counted
  <2> HIDE DEF L, M
  <2>3. Cardinality(M) <= Cardinality(L) BY <2>1, FS_Subset
  <2> DEFINE p == Cardinality(L)
             q == Cardinality(M)
  <2>4. p \in Nat /\ q \in Nat /\ q <= p /\ p <= n BY <2>1, <2>2, <2>3
  <2> HIDE DEF p, q
  <2>5. q <= n BY <2>2, <2>4
  <2> QED BY <2>2, <2>5 DEF q, M, Counted
<1>2. Control(U, Controle(U)) BY ControleIs
<1> QED BY <1>1, <1>2 DEF GoodState

LEMMA CpkStep ==
  ASSUME VInv, NeverExactlyFull, Cpk
  PROVE  GoodStep /\ ContentStep
<1> DEFINE on == TRUE
           T == Tables(on)
           V == TablesNext
           n == champs_bloques
           c == ctl
           U == Repeat(CpkTurn, {}, T, Len(T.b))
<1>1. GoodState(T, n, c) /\ Good(T) /\ T.b = blocks /\ DOMAIN blocks = 1 .. Len(blocks) BY StateIs
<1>2. Become(U) /\ ctl' = Controle(U) /\ champs_bloques' = n /\ due' = due BY <1>1 DEF Cpk
<1>3. \A j \in 1 .. Len(T.b) : ~T.b[j].keep BY <1>1 DEF Cpk
<1>4. T = Exact(T) BY ExactTables
<1>14. on \in BOOLEAN OBVIOUS
<1> HIDE DEF T
<1>5. Cpks(T, U, Len(T.b)) BY <1>1, <1>3, CpkAllGood
<1> HIDE DEF U
<1>15. ContentStep
  <2>1. Spares(T, U, {}) BY <1>5 DEF Cpks, Bears
  <2>2. Spares(Tables(on), U, {}) BY <2>1 DEF T
  <2>3. due' \subseteq due \ {} BY <1>2
  <2> HIDE DEF on
  <2> QED BY <1>2, <1>14, <2>2, <2>3, BecomeSpares
<1>6. Good(U) /\ Locked(U) \subseteq Locked(T) /\ \A j \in 1 .. Len(U.b) : ~U.b[j].keep BY <1>5 DEF Cpks
<1>7. V = Exact(U) /\ V.wp <= MaxFile + 1 BY <1>2, ExactTables
<1>8. V.b = U.b /\ V.s = U.s /\ V.base = U.base BY <1>7, ExactIs
<1>9. ctl' = Controle(V) BY <1>2, <1>8 DEF Controle
<1> HIDE DEF V, n, c
<1>10. Good(V) BY <1>6, <1>7, ExactGood
<1>11. Locked(V) \subseteq Locked(T) BY <1>6, <1>8 DEF Locked
<1>12. GoodState(V, n, Controle(V)) BY <1>1, <1>7, <1>10, <1>11, CheckpointStep
<1>13. LockedKept(T, V, n, n)
  <2>1. \A j \in DOMAIN V.b : ~V.b[j].keep BY <1>6, <1>8, <1>10, GoodIs
  <2> QED BY <2>1 DEF LockedKept
<1> QED BY <1>2, <1>9, <1>12, <1>13, <1>15 DEF GoodStep, T, V, n, on

\* the slices that lose their image
GoneFrom(T) == {T.b[i].slice : i \in {j \in DOMAIN T.b : GivenUp(T.b[j])}}

Ckmxs(d, U, k) ==
  /\ Loads(d, U) /\ Len(U.b) = Len(d.b) /\ \A j \in 1 .. Len(d.b) : U.b[j].slice = d.b[j].slice
  /\ Spares(d, U, GoneFrom(d))

LX == INSTANCE Loops WITH Turn <- CkmxTurn, Inv <- Ckmxs

\* the slice in block i, not altered any more, and without image
LEMMA CleanGood ==
  ASSUME NEW T, NEW i, Good(T), i \in 1 .. Len(T.b), InUse(T.b[i])
  PROVE  LET U == [T EXCEPT !.b[i] = Cleaned(@), !.s[T.b[i].slice] = Imaged(@, FALSE)]
         IN  Loads(T, U) /\ Marked(T.b, U.b) /\ Spares(T, U, {T.b[i].slice})
<1> DEFINE x == T.b[i].slice
           b == T.b
           s == T.s
           off == FALSE
           y == Cleaned(b[i])
           z == Imaged(s[x], off)
           c == [b EXCEPT ![i] = y]
           t == [s EXCEPT ![x] = z]
           U == [T EXCEPT !.b[i] = Cleaned(@), !.s[x] = Imaged(@, off)]
           V == [[T EXCEPT !.s = t] EXCEPT !.b = c]
<1>1. /\ TypedTables(T) /\ s \in [Slices -> Slice] /\ b \in Seq(Block) /\ b[i] \in Block
  BY GoodIs
<1>2. x \in Slices /\ s[x].bk = i /\ SameFlags(b[i], s[x])
  <2>1. IF InUse(T.b[i]) THEN T.b[i].slice \in Slices /\ T.s[T.b[i].slice].bk = i
                              /\ SameFlags(T.b[i], T.s[T.b[i].slice]) ELSE TRUE
    BY Unmarked
  <2> QED BY <2>1
<1>3. i # 0 OBVIOUS
<1>4. U = V
  <2>1. U = [T EXCEPT !.b = c, !.s = t] BY <1>1 DEF TypedTables
  <2>2. [[T EXCEPT !.s = t] EXCEPT !.b = c] = [T EXCEPT !.b = c, !.s = t]
    <3> HIDE DEF c, t
    <3> QED OBVIOUS
  <2> QED BY <2>1, <2>2
<1>5. off \in BOOLEAN /\ off = FALSE OBVIOUS
<1> HIDE DEF off
<1>6. /\ y \in Block /\ y.slice = b[i].slice /\ y.adr = b[i].adr /\ y.size = b[i].size
      /\ y.keep = b[i].keep /\ y.locked = b[i].locked /\ ~y.altered /\ ~y.was
      /\ y.prev = b[i].prev /\ y.next = b[i].next /\ y.file = b[i].file /\ y.cur = b[i].cur
  <2> DEFINE d == b[i]
  <2>1. d \in Block BY <1>1
  <2> HIDE DEF d
  <2> QED BY <2>1, CleanedIs DEF d
<1>7. /\ z \in Slice /\ z.bk = s[x].bk /\ z.keep = s[x].keep /\ z.locked = s[x].locked
      /\ ~z.altered /\ ~z.was /\ z.image = off
  <2> DEFINE d == s[x]
  <2>1. d \in Slice BY <1>1, <1>2
  <2> HIDE DEF d
  <2> QED BY <1>5, <2>1, ImagedIs DEF d
<1> HIDE DEF y, z
<1>8. BlockMark(b[i], y) BY <1>6 DEF BlockMark
<1>9. SliceMark(s[x], z) BY <1>5, <1>7 DEF SliceMark
<1>10. SameFlags(y, z)
  <2>1. y.altered \in BOOLEAN /\ y.was \in BOOLEAN BY <1>6, BlockIs
  <2>2. z.altered \in BOOLEAN /\ z.was \in BOOLEAN BY <1>7, SliceIs
  <2>3. y.keep = z.keep /\ y.locked = z.locked BY <1>2, <1>6, <1>7 DEF SameFlags
  <2> QED BY <1>6, <1>7, <2>1, <2>2, <2>3 DEF SameFlags
<1>11. OneChanged(T, c, t, x, y, z)
  <2>1. T.s[x].bk = i BY <1>2
  <2> HIDE DEF x
  <2> QED BY <1>3, <1>6, <1>8, <1>9, <1>10, <2>1 DEF OneChanged
<1>12. t \in [Slices -> Slice] BY <1>1, <1>2, <1>7
<1> HIDE DEF U, x, s, b, c, t
<1>13. Remade(T, V, T.file, c, t) BY <1>1, <1>12, RemadeBoth
<1> HIDE DEF V
<1>14. OneOther(T, c, t, x) /\ t[x] = z BY <1>2, <1>11, OneChangeIs
<1>15. OneMarked(T, V, x, z) BY <1>13, <1>14, OneChangeMarks
<1>16. Marking(T, V) /\ V.s[x] = z /\ \A v \in Slices \ {x} : V.s[v] = T.s[v] BY <1>15 DEF OneMarked
<1>17. Good(V) /\ Extends(T, V) BY <1>16, MarkingGood
<1>18. Stays(Slices, T, V)
  <2> DEFINE X == Slices
  <2>1. X \subseteq Slices /\ \A v \in X : V.s[v].locked = T.s[v].locked
    <3>1. V.s[x].locked = T.s[x].locked BY <1>7, <1>16 DEF s
    <3> QED BY <1>16, <3>1
  <2> HIDE DEF X
  <2>2. Stays(X, T, V) BY <1>16, <2>1, MarkingStays
  <2> QED BY <2>2 DEF X
<1>19. Marked(T.b, V.b) BY <1>16 DEF Marking
<1>20. Spares(T, V, {x}) BY <1>2, <1>7, <1>15, OneMarkedSpares
<1> QED BY <1>4, <1>5, <1>17, <1>18, <1>19, <1>20 DEF Loads, U, x

LEMMA CkmxTurnKeeps ==
  ASSUME NEW T, NEW U, NEW k, NEW m, NEW none, Good(T), k \in 1 .. Len(T.b), Ckmxs(T, U, m)
  PROVE  Ckmxs(T, CkmxTurn(none, U, k), k)
<1> DEFINE V == CkmxTurn(none, U, k)
           b == U.b[k]
           X == GoneFrom(T)
<1>1. Loads(T, U) /\ Len(U.b) = Len(T.b) /\ (\A j \in 1 .. Len(T.b) : U.b[j].slice = T.b[j].slice) /\ Spares(T, U, X)
  BY DEF Ckmxs
<1>2. k \in 1 .. Len(U.b) /\ Good(U) BY <1>1 DEF Loads
<1>6. GivenUp(b) => b.slice \in X
  <2> SUFFICES ASSUME GivenUp(b) PROVE b.slice \in X OBVIOUS
  <2>1. k \in DOMAIN T.b /\ b.slice = T.b[k].slice BY <1>1, GoodIs
  <2>2. GivenUp(T.b[k]) BY <2>1 DEF GivenUp, InUse
  <2> QED BY <2>1, <2>2 DEF GoneFrom
<1> HIDE DEF X
<1>3. Loads(U, V) /\ Len(V.b) = Len(U.b) /\ (\A j \in 1 .. Len(U.b) : V.b[j].slice = U.b[j].slice) /\ Spares(U, V, X)
  <2> DEFINE saves == InUse(b) /\ VarOf[b.slice] \in MustExist /\ (b.altered \/ b.was)
  <2>1. CASE saves
    <3> DEFINE W == Save(U, k)
    <3>1. V = W BY <2>1 DEF CkmxTurn
    <3> HIDE DEF V
    <3>2. Good(W) /\ Extends(U, W) /\ Filed(U, W) /\ Spares(U, W, {}) BY <1>2, <2>1, SaveGood
    <3> HIDE DEF W
    <3>3. Len(W.b) = Len(U.b) /\ \A j \in 1 .. Len(U.b) : W.b[j].slice = U.b[j].slice BY <3>2 DEF Filed, Marked
    <3>4. Loads(U, W) BY <1>2, <3>2, FiledLoads
    <3>5. Spares(U, W, X) BY <3>2, SparesMore
    <3> QED BY <3>1, <3>3, <3>4, <3>5
  <2>2. CASE ~saves /\ GivenUp(b)
    <3> DEFINE W == [U EXCEPT !.b[k] = Cleaned(@), !.s[b.slice] = Imaged(@, FALSE)]
    <3>1. V = W BY <2>2 DEF CkmxTurn
    <3>2. InUse(b) BY <2>2 DEF GivenUp
    <3>3. Loads(U, W) /\ Marked(U.b, W.b) /\ Spares(U, W, {b.slice}) BY <1>2, <3>2, CleanGood
    <3> HIDE DEF V, W
    <3>4. Len(W.b) = Len(U.b) /\ \A j \in 1 .. Len(U.b) : W.b[j].slice = U.b[j].slice BY <3>3 DEF Marked
    <3>5. b.slice \in X BY <1>6, <2>2
    <3>6. Spares(U, W, X) BY <3>3, <3>5, SparesWider
    <3> QED BY <3>1, <3>3, <3>4, <3>6
  <2>3. CASE ~saves /\ ~GivenUp(b)
    <3>1. V = U BY <2>3 DEF CkmxTurn
    <3>2. Extends(U, U) /\ Stays(Slices, U, U) BY <1>2, ExtendsSelf DEF Stays
    <3>3. Spares(U, U, X)
      <4>1. TypedTables(U) BY <1>2, GoodIs
      <4> QED BY <4>1, SparesSelf
    <3> HIDE DEF V
    <3> QED BY <1>2, <3>1, <3>2, <3>3 DEF Loads
  <2> QED BY <2>1, <2>2, <2>3
<1> HIDE DEF V
<1>4. Loads(T, V) BY <1>1, <1>3, LoadsTrans
<1>7. Spares(T, V, X)
  <2>1. Good(V) BY <1>3 DEF Loads
  <2>2. TypedTables(T) /\ TypedTables(U) /\ TypedTables(V) BY <1>2, <2>1, GoodIs
  <2> QED BY <1>1, <1>3, <2>2, SparesTrans
<1>8. Len(V.b) = Len(T.b) /\ \A j \in 1 .. Len(T.b) : V.b[j].slice = T.b[j].slice BY <1>1, <1>3
<1>5. Ckmxs(T, V, k) BY <1>4, <1>7, <1>8 DEF Ckmxs, X
<1> QED BY <1>5 DEF V

LEMMA CkmxAllGood ==
  ASSUME NEW T, Good(T)
  PROVE  LET U == Repeat(CkmxTurn, {}, T, Len(T.b)) IN Loads(T, U) /\ Spares(T, U, GoneFrom(T))
<1> DEFINE n == Len(T.b)
           none == {}
           z == LX!After(none, T, n)
<1>1. n \in Nat BY GoodIs
<1>2. Ckmxs(T, T, 0)
  <2>1. Extends(T, T) /\ Stays(Slices, T, T) BY ExtendsSelf DEF Stays
  <2> DEFINE X == GoneFrom(T)
  <2>2. TypedTables(T) BY GoodIs
  <2> HIDE DEF X
  <2>3. Spares(T, T, X) BY <2>2, SparesSelf
  <2> QED BY <2>1, <2>3 DEF Ckmxs, Loads, X
<1> HIDE DEF none
<1>3. \A k \in 1 .. n : \A U : Ckmxs(T, U, k - 1) => Ckmxs(T, CkmxTurn(none, U, k), k)
  <2> SUFFICES ASSUME NEW k \in 1 .. n, NEW U, Ckmxs(T, U, k - 1) PROVE Ckmxs(T, CkmxTurn(none, U, k), k) OBVIOUS
  <2> DEFINE m == k - 1
  <2>1. k \in 1 .. Len(T.b) /\ Ckmxs(T, U, m) OBVIOUS
  <2> HIDE DEF m
  <2> QED BY <2>1, CkmxTurnKeeps
<1> HIDE DEF n
<1>4. Ckmxs(T, z, n) BY <1>1, <1>2, <1>3, LX!LoopKeeps
<1>5. z = Repeat(CkmxTurn, {}, T, Len(T.b)) BY DEF z, n, none, Repeat, LX!After
<1> HIDE DEF z
<1> QED BY <1>4, <1>5 DEF Ckmxs

LEMMA CkmxStep ==
  ASSUME VInv, Ckmx
  PROVE  GoodStep /\ ContentStep
<1> DEFINE on == TRUE
           T == Tables(on)
           V == TablesNext
           n == champs_bloques
           c == ctl
           U == Repeat(CkmxTurn, {}, T, Len(T.b))
           gone == {blocks[i].slice : i \in {j \in DOMAIN blocks : GivenUp(blocks[j])}}
           W == Forgone(U, gone)
<1>1. GoodState(T, n, c) /\ Good(T) /\ T.b = blocks BY StateIs
<1>2. GiveUp(U, gone) /\ ctl' = Controle(U) /\ champs_bloques' = n BY <1>1 DEF Ckmx
<1>18. gone = GoneFrom(T) BY <1>1 DEF GoneFrom
<1> HIDE DEF gone
<1>3. Become(W) BY <1>2 DEF GiveUp
<1>4. T = Exact(T) BY ExactTables
<1> HIDE DEF T
<1>5. Loads(T, U) /\ Spares(T, U, gone) BY <1>1, <1>18, CkmxAllGood
<1> HIDE DEF U
<1>6. Good(U) BY <1>5 DEF Loads
<1>19. ContentStep
  <2>1. Good(Tables(TRUE)) /\ Spares(Tables(TRUE), U, gone) BY <1>1, <1>5 DEF T
  <2> QED BY <1>2, <1>6, <2>1, GiveUpSpares
<1>7. Fresh(U, W) BY <1>6, ForgoneDisowned DEF Disowned
<1> HIDE DEF W
<1>8. Loads(T, W)
  <2>1. Loads(U, W) BY <1>6, <1>7, FreshLoads
  <2> QED BY <1>1, <1>5, <2>1, LoadsTrans
<1>9. V = Exact(W) /\ V.wp <= MaxFile + 1 BY <1>3, ExactTables
<1>10. V.s = W.s /\ V.base = W.base BY <1>9, ExactIs
<1>11. W.s = U.s /\ W.base = U.base BY <1>7 DEF Fresh, Marking
<1>12. ctl' = Controle(V) BY <1>2, <1>10, <1>11 DEF Controle
<1> HIDE DEF V, n, c
<1>13. Good(V) /\ Stays(Slices, T, V) /\ Extends(T, V) BY <1>4, <1>8, <1>9, ExactGood, ExactStays, ExactExtends DEF Loads
<1>14. Loads(T, V) BY <1>13 DEF Loads
<1>15. GoodState(V, n, c) /\ LockedKept(T, V, n, n) BY <1>1, <1>9, <1>14, LoadsStep
<1>16. Locked(V) \subseteq Locked(T) BY <1>13 DEF Stays, Locked
<1>17. GoodState(V, n, Controle(V)) BY <1>1, <1>9, <1>13, <1>16, CheckpointStep
<1> QED BY <1>2, <1>12, <1>15, <1>17, <1>19 DEF GoodStep, T, V, n, on

\* the arena of a program that begins
LEMMA ArenaIs ==
  /\ Arena \in Seq(Block) /\ Len(Arena) = 1 /\ DOMAIN Arena = {1}
  /\ ~InUse(Arena[1]) /\ ~Arena[1].locked /\ ~Arena[1].keep
  /\ Arena[1].adr = 0 /\ Arena[1].size = MaxMem /\ Arena[1].prev = 0 /\ Arena[1].next = 0
<1> DEFINE zero == 0
           d == FreeBlock(zero, MaxMem, zero, zero)
<1>1. zero \in Nat /\ zero = 0 /\ MaxMem \in Nat \ {0} BY VmmAssumption
<1>2. Arena = <<d>> BY DEF Arena
<1> HIDE DEF zero
<1>3. d \in Block /\ ~InUse(d) /\ ~d.locked /\ ~d.keep /\ d.adr = zero /\ d.size = MaxMem /\ d.prev = zero /\ d.next = zero
  BY <1>1, FreeBlockIs
<1> HIDE DEF d
<1>4. Arena[1] = d /\ Arena \in Seq(Block) /\ Len(Arena) = 1 /\ DOMAIN Arena = {1} BY <1>2, <1>3
<1> QED BY <1>1, <1>3, <1>4

LEMMA ArenaMemory ==
  ASSUME NEW s, \A x \in Slices : s[x].bk = 0 /\ ~s[x].locked
  PROVE  Memory(Arena, s, 1)
<1> DEFINE b == Arena
           one == 1
<1>1. /\ b \in Seq(Block) /\ Len(b) = one /\ DOMAIN b = {one}
      /\ ~InUse(b[one]) /\ ~b[one].locked /\ ~b[one].keep
      /\ b[one].adr = 0 /\ b[one].size = MaxMem /\ b[one].prev = 0 /\ b[one].next = 0
  BY ArenaIs
<1>2. one \in Nat /\ one = 1 /\ MaxMem \in Nat \ {0} BY VmmAssumption
<1> HIDE DEF b
<1>3. Names(b, s) BY <1>1 DEF Names
<1>4. Tiled(b)
  <2>1. \A i \in 1 .. Len(b) - 1 : FALSE BY <1>1, <1>2
  <2> QED BY <1>1, <1>2, <2>1 DEF Tiled
<1>5. Free(b) = {one}
  <2>1. \A j : j \in Free(b) <=> j = one BY <1>1 DEF Free
  <2> QED BY <2>1
<1>6. Listed(b, one) BY <1>1, <1>2, <1>5 DEF Listed, Linked, NextIn, PrevIn
<1> QED BY <1>3, <1>4, <1>6 DEF Memory, b

LEMMA StartGood ==
  ASSUME NEW T, TypedTables(T), T.b = Arena, T.first = 1, \A x \in Slices : T.s[x].bk = 0 /\ ~T.s[x].locked,
         Reserved(T.base, T.wp), ImagesWritten(T)
  PROVE  Good(T) /\ Counted(T, 0) /\ \A i \in DOMAIN T.b : ~T.b[i].keep
<1>1. Memory(T.b, T.s, T.first)
  <2> DEFINE s == T.s
  <2>1. \A x \in Slices : s[x].bk = 0 /\ ~s[x].locked OBVIOUS
  <2> HIDE DEF s
  <2>2. Memory(Arena, s, 1) BY <2>1, ArenaMemory
  <2> QED BY <2>2 DEF s
<1>2. DOMAIN T.b = {1} /\ ~InUse(T.b[1]) /\ ~T.b[1].keep BY ArenaIs
<1>3. Told(T) BY <1>2 DEF Told
<1>4. Good(T) BY <1>1, <1>3 DEF Good
<1>5. Locked(T) = {} BY DEF Locked
<1>6. Counted(T, 0)
  <2>1. Cardinality(Locked(T)) = 0 BY <1>5, FS_EmptySet
  <2> QED BY <2>1 DEF Counted
<1> QED BY <1>2, <1>4, <1>6

\* typed parts make typed tables
LEMMA PartsTyped ==
  ASSUME NEW b, NEW s, NEW first, NEW at, NEW w, NEW f, NEW on,
         b \in Seq(Block), s \in [Slices -> Slice], first \in Nat, at \in [Variables -> Nat], w \in Nat \ {0},
         f \in [1 .. MaxFile -> Word], on \in BOOLEAN
  PROVE  TypedTables([b |-> b, s |-> s, first |-> first, base |-> at, wp |-> w, file |-> f, intact |-> on])
BY DEF TypedTables

LEMMA RestartStep ==
  ASSUME VInv, Restart
  PROVE  GoodStep
<1> DEFINE on == TRUE
           T == Tables(TRUE)
           V == TablesNext
           c == ctl
           s == slices'
           f == file'
           at == base'
           w == wp'
           b == blocks'
           first == first_free_bloc'
<1>1. /\ GoodState(T, champs_bloques, c) /\ Good(T) /\ T.wp = wp /\ T.file = file /\ wp <= MaxFile + 1
      /\ file \in [1 .. MaxFile -> Word]
  BY StateIs
<1>2. Control(T, c)
  <2> DEFINE n == champs_bloques
  <2>1. GoodState(T, n, c) BY <1>1
  <2> HIDE DEF T, n, c
  <2> QED BY <2>1 DEF GoodState
<1>3. /\ c \in [written : BOOLEAN, base : [Variables -> Nat], image : SUBSET Slices]
      /\ ~c.written => c = NoCtl
      /\ \A v \in Variables : c.base[v] # NoAdr => T.base[v] = c.base[v]
      /\ \A x \in c.image : c.base[VarOf[x]] # NoAdr /\ x \in Written(T)
  BY <1>2 DEF Control
<1>4. /\ b = Arena /\ s = [x \in Slices |-> NotInCore(x \in c.image)] /\ first = 1 /\ champs_bloques' = 0
      /\ at = c.base /\ w = (IF c.written THEN wp ELSE 1) /\ f = [i \in DOMAIN file |-> Current(file[i], FALSE)]
      /\ ctl' = c
  BY DEF Restart, FirstFreeWord
<1>5. V = [b |-> b, s |-> s, first |-> first, base |-> at, wp |-> w, file |-> f, intact |-> on] BY DEF TablesNext
<1>6. V.b = b /\ V.s = s /\ V.first = first /\ V.base = at /\ V.wp = w /\ V.file = f BY DEF TablesNext
<1>7. on \in BOOLEAN OBVIOUS
<1>8. TypedTables(T) /\ Reserved(T.base, T.wp) BY <1>1 DEF Good
<1>9. wp \in Nat \ {0} /\ MaxFile \in Nat \ {0}
  <2>1. T.wp \in Nat \ {0} BY <1>8 DEF TypedTables
  <2> HIDE DEF T
  <2> QED BY <1>1, <2>1, VmmAssumption
<1> HIDE DEF on, T, V, c, s, f, at, w, b, first
<1>10. \A x \in Slices : s[x] \in Slice /\ s[x].bk = 0 /\ ~s[x].locked /\ s[x].image = (x \in c.image)
  <2> SUFFICES ASSUME NEW x \in Slices PROVE s[x] \in Slice /\ s[x].bk = 0 /\ ~s[x].locked /\ s[x].image = (x \in c.image)
    OBVIOUS
  <2> DEFINE image == x \in c.image
             d == NotInCore(image)
  <2>1. s[x] = d BY <1>4
  <2>2. image \in BOOLEAN OBVIOUS
  <2> HIDE DEF image
  <2>3. d \in Slice /\ d.bk = 0 /\ ~d.locked /\ d.image = image BY <2>2, NotInCoreIs
  <2> HIDE DEF d
  <2>4. s[x] \in Slice /\ s[x].bk = 0 /\ ~s[x].locked /\ s[x].image = image BY <2>1, <2>3
  <2> QED BY <2>4 DEF image
<1>11. s \in [Slices -> Slice] BY <1>4, <1>10
<1>12. w \in Nat \ {0} /\ w <= MaxFile + 1
  <2>1. CASE c.written
    <3>1. w = wp BY <1>4, <2>1
    <3> QED BY <1>1, <1>9, <3>1
  <2>2. CASE ~c.written
    <3>1. w = 1 BY <1>4, <2>2
    <3> QED BY <1>9, <3>1
  <2> QED BY <2>1, <2>2
<1>13. at \in [Variables -> Nat] BY <1>3, <1>4
<1>14. f \in [1 .. MaxFile -> Word] /\ \A i \in 1 .. MaxFile : f[i].of = file[i].of
  <2> DEFINE off == FALSE
             g == file
             D == 1 .. MaxFile
  <2>1. f = [i \in D |-> Current(g[i], off)] /\ g \in [D -> Word] /\ off \in BOOLEAN BY <1>1, <1>4
  <2> HIDE DEF off, g, D
  <2>2. \A i \in D : f[i] \in Word /\ f[i].of = g[i].of
    <3> SUFFICES ASSUME NEW i \in D PROVE f[i] \in Word /\ f[i].of = g[i].of OBVIOUS
    <3> DEFINE d == g[i]
               e == Current(d, off)
    <3>1. d \in Word /\ f[i] = e BY <2>1
    <3> HIDE DEF d
    <3>2. e \in Word /\ e.of = d.of BY <2>1, <3>1, CurrentIs
    <3> HIDE DEF e
    <3>3. f[i] \in Word /\ f[i].of = d.of BY <3>1, <3>2
    <3> QED BY <3>3 DEF d
  <2>3. f \in [D -> Word] BY <2>1, <2>2
  <2> QED BY <2>2, <2>3 DEF g, D
<1>15. b \in Seq(Block) /\ first \in Nat BY <1>4, ArenaIs
<1>16. TypedTables(V) BY <1>5, <1>7, <1>11, <1>12, <1>13, <1>14, <1>15, PartsTyped
<1>17. \A x \in c.image : x \in Written(V)
  <2> SUFFICES ASSUME NEW x \in c.image PROVE x \in Written(V) OBVIOUS
  <2>1. x \in Slices /\ c.base[VarOf[x]] # NoAdr /\ x \in Written(T) BY <1>3
  <2>2. VarOf[x] \in Variables BY <2>1, VmmAssumption
  <2>3. V.base[VarOf[x]] = T.base[VarOf[x]] /\ T.base[VarOf[x]] # NoAdr BY <1>3, <1>4, <1>6, <2>1, <2>2
  <2> DEFINE d == FileAdr(T, x)
             l == Len8(x)
             end == T.wp
  <2>4. FileAdr(V, x) = d BY <2>3 DEF FileAdr
  <2>5. d \in Nat /\ d # NoAdr /\ d + l <= end BY <1>8, <2>1, <2>3, AdrIs
  <2>6. l \in Nat /\ end \in Nat BY <1>8, <2>1, PlaceIs, TypedIs
  <2>7. Words(d, x) = d .. d + l - 1 BY DEF Words
  <2>8. end <= MaxFile + 1 BY <1>1
  <2>9. \A i \in Words(d, x) : T.file[i].of = x BY <2>1 DEF Written
  <2> HIDE DEF d, l, end
  <2>10. \A i \in d .. d + l - 1 : i \in 1 .. MaxFile BY <1>9, <2>5, <2>6, <2>8 DEF NoAdr
  <2>11. \A i \in Words(d, x) : V.file[i].of = x BY <1>1, <1>6, <1>14, <2>7, <2>9, <2>10
  <2> QED BY <2>1, <2>4, <2>5, <2>11 DEF Written
<1>18. ImagesWritten(V)
  <2>1. \A x \in Slices : V.s[x].image => x \in c.image BY <1>6, <1>10
  <2> QED BY <1>17, <2>1 DEF ImagesWritten
<1>19. Reserved(V.base, V.wp)
  <2>1. CASE c.written
    <3>1. V.wp = T.wp BY <1>1, <1>4, <1>6, <2>1
    <3>2. \A v \in Variables : V.base[v] # NoAdr => V.base[v] = T.base[v] BY <1>3, <1>4, <1>6
    <3> QED BY <1>8, <3>1, <3>2 DEF Reserved
  <2>2. CASE ~c.written
    <3>1. c = NoCtl BY <1>3, <2>2
    <3>2. c.base = [v \in Variables |-> NoAdr] BY <3>1 DEF NoCtl
    <3>3. \A v \in Variables : V.base[v] = NoAdr BY <1>4, <1>6, <3>2
    <3> QED BY <3>3 DEF Reserved
  <2> QED BY <2>1, <2>2
<1>20. Good(V) /\ Counted(V, 0) /\ \A i \in DOMAIN V.b : ~V.b[i].keep
  <2>1. V.b = Arena /\ V.first = 1 /\ \A x \in Slices : V.s[x].bk = 0 /\ ~V.s[x].locked BY <1>4, <1>6, <1>10
  <2> QED BY <1>16, <1>18, <1>19, <2>1, StartGood
<1>21. Control(V, c) BY <1>3, <1>4, <1>6, <1>17 DEF Control
<1>22. GoodState(V, 0, c) BY <1>6, <1>12, <1>20, <1>21 DEF GoodState
<1>23. LockedKept(T, V, champs_bloques, 0) BY <1>20 DEF LockedKept
<1> QED BY <1>4, <1>22, <1>23 DEF GoodStep, T, V

LEMMA InitGood ==
  ASSUME Init
  PROVE  VInv
<1> DEFINE on == TRUE
           T == Tables(TRUE)
           off == FALSE
           s == slices
           d == NotInCore(off)
           e == NoWord
<1>1. /\ blocks = Arena /\ s = [x \in Slices |-> d] /\ first_free_bloc = 1 /\ champs_bloques = 0
      /\ base = [v \in Variables |-> NoAdr] /\ wp = 1 /\ file = [w \in 1 .. MaxFile |-> e] /\ ctl = NoCtl
  BY DEF Init
<1>2. T = [b |-> blocks, s |-> s, first |-> first_free_bloc, base |-> base, wp |-> wp, file |-> file, intact |-> on]
  BY DEF Tables
<1>3. T.b = blocks /\ T.s = s /\ T.first = first_free_bloc /\ T.base = base /\ T.wp = wp /\ T.file = file
  BY DEF Tables
<1>4. on \in BOOLEAN /\ off \in BOOLEAN /\ off = FALSE OBVIOUS
<1>5. e \in Word BY DEF NoWord, Word
<1> HIDE DEF on, T, off, s, e
<1>6. d \in Slice /\ d.bk = 0 /\ ~d.locked /\ d.image = off BY <1>4, NotInCoreIs
<1> HIDE DEF d
<1>7. TypedTables(T)
  <2>1. blocks \in Seq(Block) BY <1>1, ArenaIs
  <2>2. s \in [Slices -> Slice] /\ file \in [1 .. MaxFile -> Word] /\ base \in [Variables -> Nat]
        /\ wp \in Nat \ {0} /\ first_free_bloc \in Nat
    BY <1>1, <1>5, <1>6 DEF NoAdr
  <2> QED BY <1>2, <1>4, <2>1, <2>2, PartsTyped
<1>8. \A v \in Variables : T.base[v] = NoAdr BY <1>1, <1>3
<1>9. Reserved(T.base, T.wp) BY <1>8 DEF Reserved
<1>10. \A x \in Slices : T.s[x].bk = 0 /\ ~T.s[x].locked /\ ~T.s[x].image BY <1>1, <1>3, <1>4, <1>6
<1>11. ImagesWritten(T) BY <1>10 DEF ImagesWritten
<1>12. Good(T) /\ Counted(T, 0) BY <1>1, <1>3, <1>7, <1>9, <1>10, <1>11, StartGood
<1>13. Control(T, NoCtl)
  <2> DEFINE none == {}
             at == [v \in Variables |-> NoAdr]
             c == NoCtl
  <2>1. c = [written |-> off, base |-> at, image |-> none] BY <1>4 DEF NoCtl
  <2>2. at \in [Variables -> Nat] /\ none \in SUBSET Slices BY DEF NoAdr
  <2> HIDE DEF none, c
  <2>3. c \in [written : BOOLEAN, base : [Variables -> Nat], image : SUBSET Slices] BY <1>4, <2>1, <2>2
  <2>4. \A v \in Variables : c.base[v] = NoAdr BY <2>1
  <2>5. c.image = {} BY <2>1 DEF none
  <2>6. c = NoCtl BY DEF c
  <2>7. Control(T, c) BY <2>3, <2>4, <2>5, <2>6 DEF Control
  <2> QED BY <2>7 DEF c
<1>14. T.wp <= MaxFile + 1 BY <1>1, <1>3, VmmAssumption
<1>15. GoodState(T, 0, NoCtl) BY <1>12, <1>13, <1>14 DEF GoodState
<1> QED BY <1>1, <1>15 DEF VInv, T

\* a program that begins counts on nothing
LEMMA StartContent ==
  ASSUME NEW T, CopiesApart, T.b = Arena, \A x \in Slices : ~T.s[x].altered /\ ~T.s[x].was
  PROVE  Content(T, {})
<1>1. PICK l \in Nat \ {0} : WholePieces(l) BY DEF CopiesApart
<1>2. EvenBy(T.b, l)
  <2>1. Len(T.b) = 1 /\ T.b[1].adr = 0 BY ArenaIs
  <2>2. 0 \in Nat /\ 0 = 0 * l BY <1>1
  <2>3. Times(l, 0) BY <2>2 DEF Times
  <2>4. \A j \in 1 .. Len(T.b) : j = 1 BY <2>1
  <2> QED BY <2>1, <2>3, <2>4 DEF EvenBy
<1>3. Even(T.b) BY <1>1, <1>2 DEF Even
<1>4. \A x \in Slices : Marks(T, x) => Keep(x) BY DEF Marks
<1> QED BY <1>3, <1>4 DEF Content

LEMMA NewSlices ==
  ASSUME NEW s, NEW X, s = [x \in Slices |-> NotInCore(x \in X)]
  PROVE  \A x \in Slices : ~s[x].altered /\ ~s[x].was
<1> SUFFICES ASSUME NEW x \in Slices PROVE ~s[x].altered /\ ~s[x].was OBVIOUS
<1> DEFINE image == x \in X
           d == NotInCore(image)
<1>1. s[x] = d OBVIOUS
<1>2. image \in BOOLEAN OBVIOUS
<1> HIDE DEF image
<1>3. ~d.altered /\ ~d.was BY <1>2, NotInCoreIs
<1> HIDE DEF d
<1> QED BY <1>1, <1>3

LEMMA RestartContent ==
  ASSUME CopiesApart, Restart
  PROVE  ContentStep
<1> DEFINE V == TablesNext
<1>1. V.b = blocks' /\ V.s = slices' BY DEF TablesNext
<1>2. blocks' = Arena /\ due' = {} /\ slices' = [x \in Slices |-> NotInCore(x \in ctl.image)] BY DEF Restart
<1> HIDE DEF V
<1>3. \A x \in Slices : ~V.s[x].altered /\ ~V.s[x].was
  <2> DEFINE s == slices'
             X == ctl.image
  <2>1. s = [x \in Slices |-> NotInCore(x \in X)] BY <1>2
  <2> HIDE DEF s, X
  <2>2. \A x \in Slices : ~s[x].altered /\ ~s[x].was BY <2>1, NewSlices
  <2> QED BY <1>1, <2>2 DEF s
<1>4. Content(V, {}) BY <1>1, <1>2, <1>3, StartContent
<1> QED BY <1>2, <1>4 DEF ContentStep, V

LEMMA InitContent ==
  ASSUME CopiesApart, Init
  PROVE  Content(Tables(TRUE), due)
<1> DEFINE T == Tables(TRUE)
           off == FALSE
           d == NotInCore(off)
<1>1. T.b = blocks /\ T.s = slices BY DEF Tables
<1>2. blocks = Arena /\ due = {} /\ slices = [x \in Slices |-> d] BY DEF Init
<1>5. off \in BOOLEAN OBVIOUS
<1> HIDE DEF T, off
<1>6. ~d.altered /\ ~d.was BY <1>5, NotInCoreIs
<1> HIDE DEF d
<1>3. \A x \in Slices : ~T.s[x].altered /\ ~T.s[x].was BY <1>1, <1>2, <1>6
<1>4. Content(T, {}) BY <1>1, <1>2, <1>3, StartContent
<1> QED BY <1>2, <1>4 DEF T

LEMMA NextGood ==
  ASSUME VInv, NeverExactlyFull, ~ForgetInCore, Next
  PROVE  GoodStep /\ (CopiesApart => ContentStep)
<1>1. ASSUME NEW n \in 1 .. MaxKeys, NEW ks \in [1 .. n -> Slices], Lod(ks) PROVE GoodStep /\ ContentStep BY <1>1, LodStep
<1>2. ASSUME NEW s \in Slices, Call(s) PROVE GoodStep /\ ContentStep
  <2>1. CASE Get(s) BY <2>1, GetStep
  <2>2. CASE Write(s) BY <2>2, WriteStep
  <2>3. CASE Lck(s) BY <2>3, LckStep
  <2>4. CASE Ulk(s) BY <2>4, UlkStep
  <2>5. CASE Uld(s) BY <2>5, UldStep
  <2>6. CASE Uln(s) BY <2>6, UlnStep
  <2>7. CASE Rls(s) BY <2>7, RlsStep
  <2>8. CASE Fgt(s) BY <2>8, FgtStep
  <2>9. CASE Sav(s) BY <2>9, SavStep
  <2> QED BY <1>2, <2>1, <2>2, <2>3, <2>4, <2>5, <2>6, <2>7, <2>8, <2>9 DEF Call
<1>3. CASE UlkAll BY <1>3, UlkAllStep
<1>4. CASE UldAll BY <1>4, UldAllStep
<1>5. CASE SavAll BY <1>5, SavAllStep
<1>6. CASE Pak BY <1>6, PakStep
<1>7. CASE Cpk BY <1>7, CpkStep
<1>8. CASE Ckmx BY <1>8, CkmxStep
<1>9. CASE Restart BY <1>9, RestartStep, RestartContent
<1> QED BY <1>1, <1>2, <1>3, <1>4, <1>5, <1>6, <1>7, <1>8, <1>9 DEF Next

LEMMA Stutters ==
  ASSUME VInv, UNCHANGED vars
  PROVE  VInv' /\ LockedKept(Tables(TRUE), TablesNext, champs_bloques, champs_bloques') /\ ContentStep
<1> DEFINE on == TRUE
           T == Tables(on)
           V == TablesNext
           n == champs_bloques
           c == ctl
<1>1. GoodState(T, n, c) /\ Good(T) BY StateIs
<1>2. V = T /\ champs_bloques' = n /\ ctl' = c /\ due' = due BY DEF vars, TablesNext, Tables
<1>6. ContentStep BY <1>2 DEF ContentStep
<1> HIDE DEF T, V, n, c
<1>3. \A x \in Slices : T.s[x].bk # 0 /\ T.s[x].locked =>
        T.s[x].bk # 0 /\ T.s[x].locked /\ T.b[T.s[x].bk].adr = T.b[T.s[x].bk].adr
  OBVIOUS
<1>4. GoodState(V, n, c) /\ LockedKept(T, V, n, n) BY <1>1, <1>2, <1>3 DEF LockedKept
<1>5. GoodStep BY <1>2, <1>4 DEF GoodStep, T, V, n, on
<1> QED BY <1>5, <1>6, StepKeeps DEF GoodStep

LEMMA Inductive ==
  ASSUME NeverExactlyFull, ~ForgetInCore
  PROVE  Spec => []VInv
<1>1. Init => VInv BY InitGood
<1>2. VInv /\ [Next]_vars => VInv' BY NextGood, StepKeeps, Stutters
<1> QED BY <1>1, <1>2, PTL DEF Spec

(* The contents depend on the tables, not the tables on the contents.      *)
CInv == Content(Tables(TRUE), due)

LEMMA ContentInductive ==
  ASSUME NeverExactlyFull, ~ForgetInCore, CopiesApart
  PROVE  Spec => []CInv
<1>1. Init => CInv BY InitContent DEF CInv
<1>2. VInv /\ CInv /\ [Next]_vars => CInv'
  <2>1. ASSUME VInv, [Next]_vars PROVE ContentStep BY <2>1, NextGood, Stutters
  <2>2. CInv' = Content(TablesNext, due') BY DEF CInv, Tables, TablesNext
  <2>3. CInv = Content(Tables(TRUE), due) BY DEF CInv
  <2> QED BY <2>1, <2>2, <2>3 DEF ContentStep
<1> QED BY <1>1, <1>2, Inductive, PTL DEF Spec

---------------------------------------------------------------------------
(* What the invariant says. *)

LEMMA VTables ==
  ASSUME VInv
  PROVE  TablesAgree
<1> DEFINE T == Tables(TRUE)
           b == blocks
           s == slices
<1>1. /\ Good(T) /\ T.b = b /\ T.s = s /\ DOMAIN b = 1 .. Len(b) /\ b \in Seq(Block) BY StateIs
<1> HIDE DEF T, b, s
<1>2. Names(b, s) /\ Told(T) BY <1>1, GoodIs DEF Good
<1>3. ASSUME NEW i \in DOMAIN b, InUse(b[i])
      PROVE  /\ s[b[i].slice].bk = i /\ SameFlags(b[i], s[b[i].slice])
             /\ b[i].file = FileAdr(T, b[i].slice)
  <2>1. s[b[i].slice].bk = i /\ SameFlags(b[i], s[b[i].slice]) BY <1>2, <1>3 DEF Names
  <2>2. b[i].file = FileAdr(T, b[i].slice) BY <1>1, <1>2, <1>3 DEF Told
  <2> QED BY <2>1, <2>2
<1>4. \A x \in Slices : s[x].bk # 0 => b[s[x].bk].slice = x BY <1>2 DEF Names
<1> QED BY <1>3, <1>4 DEF TablesAgree, SameFlags, InCore, T, b, s

LEMMA VTiles ==
  ASSUME VInv
  PROVE  BlocksTileMemory
<1> DEFINE T == Tables(TRUE)
           b == blocks
           n == Len(b)
<1>1. Good(T) /\ T.b = b /\ DOMAIN b = 1 .. n /\ b \in Seq(Block) /\ n \in Nat BY StateIs
<1> HIDE DEF T, b
<1>2. Names(b, T.s) /\ Tiled(b) BY <1>1 DEF Good, Memory
<1>3. b[1].adr = 0 BY <1>2 DEF Tiled
<1>4. \A i \in 1 .. n : b[i] \in Block BY <1>1
<1>5. \A i \in 1 .. n : b[i].size > 0
  <2> SUFFICES ASSUME NEW i \in 1 .. n PROVE b[i].size > 0 OBVIOUS
  <2>1. b[i].size \in Nat \ {0} BY <1>4, BlockIs
  <2> QED BY <2>1
<1>6. \A i \in 1 .. n : InUse(b[i]) => b[i].size = Len8(b[i].slice) BY <1>1, <1>2 DEF Names
<1>7. \A i \in 1 .. n : b[i].adr + b[i].size = IF i = n THEN MaxMem ELSE b[i + 1].adr
  <2>1. b[n].adr + b[n].size = MaxMem BY <1>2 DEF Tiled
  <2>2. \A i \in 1 .. n - 1 : b[i].adr + b[i].size = b[i + 1].adr BY <1>2 DEF Tiled
  <2>3. n \in Nat BY <1>1
  <2> HIDE DEF n
  <2>4. \A i \in 1 .. n : i # n => i \in 1 .. n - 1 BY <2>3
  <2> QED BY <2>1, <2>2, <2>4
<1> QED BY <1>1, <1>3, <1>5, <1>6, <1>7 DEF BlocksTileMemory, b

LEMMA VList ==
  ASSUME VInv
  PROVE  FreeListIsExact
<1> DEFINE T == Tables(TRUE)
           b == blocks
           first == first_free_bloc
           F == Free(b)
<1>1. Good(T) /\ T.b = b /\ T.first = first BY StateIs
<1> HIDE DEF T, b, first
<1>2. Listed(b, first) /\ b \in Seq(Block) BY <1>1, GoodIs DEF Good, Memory
<1>3. Positive(F) BY <1>2, FreeTyped
<1>4. NextIn(F, 0, first) /\ \A i \in F : NextIn(F, i, b[i].next) /\ PrevIn(F, i, b[i].prev)
  BY <1>2 DEF Listed, Linked
<1> HIDE DEF F
<1>5. \A i \in F : i \in Nat /\ i # 0 BY <1>3 DEF Positive
<1>6. ASSUME F # {} PROVE IsFirst(first, F)
  <2>1. PICK i \in F : TRUE BY <1>6
  <2>2. first # 0 BY <1>4, <1>5, <2>1 DEF NextIn
  <2>3. first \in F /\ \A j \in F : 0 < j => first <= j BY <1>4, <2>2 DEF NextIn
  <2>4. \A j \in F : first <= j BY <1>5, <2>3
  <2> QED BY <1>6, <2>3, <2>4 DEF IsFirst
<1>7. ASSUME NEW i \in F PROVE IsFirst(b[i].next, {j \in F : j > i})
  <2> DEFINE G == {j \in F : j > i}
             k == b[i].next
  <2>1. NextIn(F, i, k) BY <1>4
  <2>2. \A j : j \in G <=> j \in F /\ i < j BY <1>5
  <2> HIDE DEF G, k
  <2>3. CASE k = 0
    <3>1. \A j \in F : j <= i BY <2>1, <2>3 DEF NextIn
    <3>2. G = {} BY <1>5, <2>2, <3>1
    <3> QED BY <2>3, <3>2 DEF IsFirst, G, k
  <2>4. CASE k # 0
    <3>1. k \in F /\ i < k /\ \A j \in F : i < j => k <= j BY <2>1, <2>4 DEF NextIn
    <3>2. k \in G /\ \A j \in G : k <= j BY <2>2, <3>1
    <3>3. G # {} BY <3>2
    <3>4. IsFirst(k, G) BY <3>2, <3>3 DEF IsFirst
    <3> QED BY <3>4 DEF G, k
  <2> QED BY <2>3, <2>4
<1>8. ASSUME NEW i \in F PROVE IsLast(b[i].prev, {j \in F : j < i})
  <2> DEFINE G == {j \in F : j < i}
             k == b[i].prev
  <2>1. PrevIn(F, i, k) BY <1>4
  <2>2. \A j : j \in G <=> j \in F /\ j < i OBVIOUS
  <2> HIDE DEF G, k
  <2>3. CASE k = 0
    <3>1. \A j \in F : i <= j BY <2>1, <2>3 DEF PrevIn
    <3>2. G = {} BY <1>5, <2>2, <3>1
    <3> QED BY <2>3, <3>2 DEF IsLast, G, k
  <2>4. CASE k # 0
    <3>1. k \in F /\ k < i /\ \A j \in F : j < i => j <= k BY <2>1, <2>4 DEF PrevIn
    <3>2. k \in G /\ \A j \in G : j <= k BY <2>2, <3>1
    <3>3. G # {} BY <3>2
    <3>4. IsLast(k, G) BY <3>2, <3>3 DEF IsLast
    <3> QED BY <3>4 DEF G, k
  <2> QED BY <2>3, <2>4
<1> QED BY <1>6, <1>7, <1>8 DEF FreeListIsExact, F, b, first

LEMMA VFit ==
  ASSUME VInv
  PROVE  BestFitIsFree
<1> DEFINE T == Tables(TRUE)
<1>1. Good(T) /\ T.b = blocks BY StateIs
<1> SUFFICES ASSUME NEW size \in 1 .. MaxMem PROVE LET k == TrouveBestFit(T, size) IN k # 0 => ~InUse(blocks[k])
  BY DEF BestFitIsFree
<1> HIDE DEF T
<1>2. LET k == TrouveBestFit(T, size) IN k # 0 => ~InUse(T.b[k]) BY <1>1, BestFitIs
<1> QED BY <1>1, <1>2

LEMMA VLocks ==
  ASSUME VInv
  PROVE  LocksAreCounted
<1> DEFINE T == Tables(TRUE)
           n == champs_bloques
           c == ctl
           L == Locked(T)
<1>1. GoodState(T, n, c) /\ T.s = slices BY StateIs
<1> SUFFICES ASSUME n = 0, NEW x \in Slices, slices[x].locked PROVE FALSE BY DEF LocksAreCounted
<1>5. n = 0 OBVIOUS
<1> HIDE DEF T, n, c
<1>2. Cardinality(L) <= 0 BY <1>1, <1>5 DEF GoodState, Counted
<1>3. IsFiniteSet(L) /\ Cardinality(L) \in Nat BY LockedFinite
<1>4. x \in L BY <1>1 DEF Locked
<1> HIDE DEF L
<1>6. Cardinality(L) = 0 BY <1>2, <1>3
<1>7. L = {} BY <1>3, <1>6, FS_EmptySet
<1> QED BY <1>4, <1>7

LEMMA VFile ==
  ASSUME VInv
  PROVE  FileSpaceIsDisjoint
<1> DEFINE T == Tables(TRUE)
<1>1. Good(T) /\ T.base = base /\ T.wp = wp BY StateIs
<1> HIDE DEF T
<1>2. Reserved(base, wp) BY <1>1 DEF Good
<1> QED BY <1>2 DEF FileSpaceIsDisjoint, Reserved, Extent

LEMMA VCheckpoint ==
  ASSUME VInv
  PROVE  CheckpointIsReadable
<1> DEFINE T == Tables(TRUE)
           n == champs_bloques
           c == ctl
<1>1. GoodState(T, n, c) /\ T.file = file BY StateIs
<1> SUFFICES ASSUME NEW x \in c.image
             PROVE  /\ c.base[VarOf[x]] # NoAdr
                    /\ \A w \in Words(FileAdr([base |-> c.base], x), x) : file[w].of = x
  BY DEF CheckpointIsReadable
<1> HIDE DEF T, n, c
<1>2. Control(T, c) BY <1>1 DEF GoodState
<1>3. /\ c \in [written : BOOLEAN, base : [Variables -> Nat], image : SUBSET Slices]
      /\ \A v \in Variables : c.base[v] # NoAdr => T.base[v] = c.base[v]
      /\ c.base[VarOf[x]] # NoAdr /\ x \in Written(T)
  BY <1>2 DEF Control
<1>4. x \in Slices BY <1>3
<1>5. VarOf[x] \in Variables BY <1>4, VmmAssumption
<1>6. T.base[VarOf[x]] = c.base[VarOf[x]] BY <1>3, <1>5
<1> DEFINE S == [base |-> c.base]
<1>7. S.base = c.base OBVIOUS
<1> HIDE DEF S
<1>8. FileAdr(S, x) = FileAdr(T, x) BY <1>6, <1>7 DEF FileAdr
<1>9. \A w \in Words(FileAdr(T, x), x) : T.file[w].of = x BY <1>3 DEF Written
<1> QED BY <1>1, <1>3, <1>8, <1>9 DEF S

LEMMA VLockedStay ==
  ASSUME LockedKept(Tables(TRUE), TablesNext, champs_bloques, champs_bloques')
  PROVE  \A s \in Slices :
           InCore(s) /\ slices[s].locked =>
             \/ slices'[s].bk # 0 /\ slices'[s].locked
                   /\ blocks'[slices'[s].bk].adr = blocks[slices[s].bk].adr
             \/ champs_bloques' # champs_bloques
             \/ \A i \in DOMAIN blocks' : ~blocks'[i].keep
<1> DEFINE T == Tables(TRUE)
           V == TablesNext
<1>1. T.b = blocks /\ T.s = slices /\ V.b = blocks' /\ V.s = slices' BY DEF Tables, TablesNext
<1>2. LockedKept(T, V, champs_bloques, champs_bloques') OBVIOUS
<1> HIDE DEF T, V
<1> QED BY <1>1, <1>2 DEF LockedKept, InCore

LEMMA VContent ==
  ASSUME CInv
  PROVE  WhatWasWrittenIsKept
<1> DEFINE T == Tables(TRUE)
<1>1. T.b = blocks /\ T.s = slices BY DEF Tables
<1> SUFFICES ASSUME NEW x \in due
             PROVE  IF InCore(x) THEN blocks[slices[x].bk].cur ELSE slices[x].image /\ OnFile(T, x)
  BY DEF WhatWasWrittenIsKept
<1>2. Content(T, due) BY DEF CInv
<1> HIDE DEF T
<1>3. Sound(T, x) BY <1>2 DEF Content
<1> QED BY <1>1, <1>3 DEF Sound, OnDisk, InCore

---------------------------------------------------------------------------
(* The theorems: for every set of variables and slices, every length,      *)
(* weight and memory, if no choice of slices fills the arena exactly and   *)
(* vmmfgt is called for no slice in memory.                                *)

(* The block and slice tables, which every routine of vmm.c changes        *)
(* together, name each other and carry the same attributes and address.    *)
THEOREM TablesAlwaysAgree ==
  ASSUME NeverExactlyFull, ~ForgetInCore
  PROVE  Spec => []TablesAgree
<1>1. VInv => TablesAgree BY VTables
<1> QED BY <1>1, Inductive, PTL

(* The blocks that are split, merged and moved always tile the arena.      *)
THEOREM BlocksAlwaysTile ==
  ASSUME NeverExactlyFull, ~ForgetInCore
  PROVE  Spec => []BlocksTileMemory
<1>1. VInv => BlocksTileMemory BY VTiles
<1> QED BY <1>1, Inductive, PTL

(* The list from first_free_bloc threads exactly the free blocks.          *)
THEOREM FreeListAlwaysExact ==
  ASSUME NeverExactlyFull, ~ForgetInCore
  PROVE  Spec => []FreeListIsExact
<1>1. VInv => FreeListIsExact BY VList
<1> QED BY <1>1, Inductive, PTL

(* The block that trouve_best_fit gives to a load is free.                 *)
THEOREM BestFitAlwaysFree ==
  ASSUME NeverExactlyFull, ~ForgetInCore
  PROVE  Spec => []BestFitIsFree
<1>1. VInv => BestFitIsFree BY VFit
<1> QED BY <1>1, Inductive, PTL

(* With champs_bloques at 0, when vmmlod packs all it wants, no field is   *)
(* locked.                                                                 *)
THEOREM LocksAlwaysCounted ==
  ASSUME NeverExactlyFull, ~ForgetInCore
  PROVE  Spec => []LocksAreCounted
<1>1. VInv => LocksAreCounted BY VLocks
<1> QED BY <1>1, Inductive, PTL

(* The space that reserve_disk_space gives a variable is its own, after a  *)
(* restart from an older control file too.                                 *)
THEOREM FileSpaceAlwaysDisjoint ==
  ASSUME NeverExactlyFull, ~ForgetInCore
  PROVE  Spec => []FileSpaceIsDisjoint
<1>1. VInv => FileSpaceIsDisjoint BY VFile
<1> QED BY <1>1, Inductive, PTL

(* What vmmcpk or vmmckmx last put in the control file can be read, however *)
(* much is loaded, saved and ejected afterwards.                           *)
THEOREM CheckpointAlwaysReadable ==
  ASSUME NeverExactlyFull, ~ForgetInCore
  PROVE  Spec => []CheckpointIsReadable
<1>1. VInv => CheckpointIsReadable BY VCheckpoint
<1> QED BY <1>1, Inductive, PTL

(* Whatever is loaded, ejected, packed, saved, checkpointed and loaded     *)
(* again, what was last written in a field and not given up is in its      *)
(* block or, out of memory, in the file where vmmlod reads it, if no block *)
(* is ever copied onto a place that overlaps its own: in an arena whose    *)
(* saved fields have one length, of which the other lengths are multiples. *)
THEOREM WhatWasWrittenIsAlwaysKept ==
  ASSUME NeverExactlyFull, ~ForgetInCore, CopiesApart
  PROVE  Spec => []WhatWasWrittenIsKept
<1>1. CInv => WhatWasWrittenIsKept BY VContent
<1> QED BY <1>1, ContentInductive, PTL

(* No load and no pack moves or ejects a field whose address the caller    *)
(* has locked.                                                             *)
THEOREM LockedFieldsAlwaysStay ==
  ASSUME NeverExactlyFull, ~ForgetInCore
  PROVE  Spec => LockedFieldsStay
<1>1. VInv /\ [Next]_vars => LockedKept(Tables(TRUE), TablesNext, champs_bloques, champs_bloques')
  <2>1. ASSUME VInv, Next PROVE LockedKept(Tables(TRUE), TablesNext, champs_bloques, champs_bloques')
    BY <2>1, NextGood DEF GoodStep
  <2> QED BY <2>1, Stutters
<1>2. VInv /\ [Next]_vars =>
        [\A s \in Slices :
           InCore(s) /\ slices[s].locked =>
             \/ slices'[s].bk # 0 /\ slices'[s].locked
                   /\ blocks'[slices'[s].bk].adr = blocks[slices[s].bk].adr
             \/ champs_bloques' # champs_bloques
             \/ \A i \in DOMAIN blocks' : ~blocks'[i].keep]_vars
  BY <1>1, VLockedStay
<1> QED BY <1>2, Inductive, PTL DEF Spec, LockedFieldsStay
=============================================================================
