-------------------------- MODULE VmmTables_proofs --------------------------
(***************************************************************************)
(* The invariant of the virtual memory manager, and what each change of    *)
(* its tables keeps of it: joining two free blocks, moving a block down,   *)
(* freeing one, writing one to the file, giving a free one to a slice;     *)
(* then the loops made of these: packing, ejecting and loading.            *)
(***************************************************************************)
EXTENDS Vmm, FiniteSetTheorems, TLAPS

(* No choice of different slices fills the arena exactly: a field that     *)
(* takes the last free block leaves first_free_bloc on a block in use.     *)
NeverExactlyFull ==
  \A n \in Nat : \A p \in [1 .. n -> Slices] : \A at \in [1 .. n + 1 -> Nat] :
    /\ at[1] = 0 /\ at[n + 1] = MaxMem
    /\ \A i \in 1 .. n : at[i + 1] = at[i] + Len8(p[i])
    => \E i, j \in 1 .. n : i # j /\ p[i] = p[j]

---------------------------------------------------------------------------
(* The invariant, of the tables as one value. *)

Block ==
  [slice : Slices \cup {NoSlice}, adr : Nat, size : Nat \ {0}, keep : BOOLEAN, locked : BOOLEAN,
   altered : BOOLEAN, was : BOOLEAN, file : Nat, prev : Nat, next : Nat, cur : BOOLEAN]

Slice ==
  [bk : Nat, keep : BOOLEAN, locked : BOOLEAN, altered : BOOLEAN, was : BOOLEAN, image : BOOLEAN]

Word == [of : Slices \cup {NoSlice}, cur : BOOLEAN]

TypedTables(T) ==
  T \in [b : Seq(Block), s : [Slices -> Slice], first : Nat, base : [Variables -> Nat],
         wp : Nat \ {0}, file : [1 .. MaxFile -> Word], intact : BOOLEAN]

SameFlags(x, y) ==
  x.keep = y.keep /\ x.locked = y.locked /\ x.altered = y.altered /\ x.was = y.was

(* A block in use has the number and the flags its slice has, and is in no *)
(* list; a slice that is in memory is in its block.                        *)
Names(b, s) ==
  /\ \A i \in DOMAIN b : InUse(b[i]) =>
       /\ s[b[i].slice].bk = i /\ SameFlags(b[i], s[b[i].slice])
       /\ b[i].size = Len8(b[i].slice) /\ b[i].prev = 0 /\ b[i].next = 0
  /\ \A i \in DOMAIN b : ~InUse(b[i]) => ~b[i].locked /\ ~b[i].keep
  /\ \A x \in Slices : IF s[x].bk = 0 THEN ~s[x].locked
                       ELSE s[x].bk \in DOMAIN b /\ b[s[x].bk].slice = x

Tiled(b) ==
  /\ Len(b) >= 1 /\ b[1].adr = 0
  /\ \A i \in 1 .. Len(b) - 1 : b[i].adr + b[i].size = b[i + 1].adr
  /\ b[Len(b)].adr + b[Len(b)].size = MaxMem

(* k is the first number of F after i, the last one before it; 0 if there  *)
(* is none.                                                                *)
NextIn(F, i, k) ==
  IF k = 0 THEN \A j \in F : j <= i ELSE k \in F /\ i < k /\ \A j \in F : i < j => k <= j

PrevIn(F, i, k) ==
  IF k = 0 THEN \A j \in F : i <= j ELSE k \in F /\ k < i /\ \A j \in F : j < i => j <= k

Linked(b) == \A i \in Free(b) : NextIn(Free(b), i, b[i].next) /\ PrevIn(Free(b), i, b[i].prev)
Listed(b, first) == NextIn(Free(b), 0, first) /\ Linked(b)

Memory(b, s, first) == Names(b, s) /\ Tiled(b) /\ Listed(b, first)

(* Blocks in use know where their slice is in the file.                    *)
Told(T) == \A i \in DOMAIN T.b : InUse(T.b[i]) => T.b[i].file = FileAdr(T, T.b[i].slice)

Reserved(at, end) ==
  \A v, u \in Variables :
    at[v] # NoAdr =>
      /\ at[v] + Extent(v) <= end
      /\ at[u] # NoAdr /\ u # v =>
           at[v] + Extent(v) <= at[u] \/ at[u] + Extent(u) <= at[v]

(* The slices whose words are in the file, where a load looks.             *)
Written(T) ==
  {s \in Slices : FileAdr(T, s) # NoAdr /\ \A w \in Words(FileAdr(T, s), s) : T.file[w].of = s}

ImagesWritten(T) == T.wp <= MaxFile + 1 => \A s \in Slices : T.s[s].image => s \in Written(T)

Good(T) ==
  /\ TypedTables(T) /\ Memory(T.b, T.s, T.first)
  /\ Told(T) /\ Reserved(T.base, T.wp) /\ ImagesWritten(T)

(* n locks are counted, all those of the slices among them.                *)
Locked(T) == {x \in Slices : T.s[x].locked}
Counted(T, n) == n \in Nat /\ Cardinality(Locked(T)) <= n

(* What the control file c says of the data file is still true.            *)
Control(T, c) ==
  /\ c \in [written : BOOLEAN, base : [Variables -> Nat], image : SUBSET Slices]
  /\ ~c.written => c = NoCtl
  /\ \A v \in Variables : c.base[v] # NoAdr => T.base[v] = c.base[v]
  /\ \A x \in c.image : c.base[VarOf[x]] # NoAdr /\ x \in Written(T)

GoodState(T, n, c) == Good(T) /\ T.wp <= MaxFile + 1 /\ Counted(T, n) /\ Control(T, c)

VInv == GoodState(Tables(TRUE), champs_bloques, ctl)

---------------------------------------------------------------------------
(* Blocks and slices. *)

LEMMA BlockIs ==
  ASSUME NEW c \in Block
  PROVE  /\ c.slice \in Slices \cup {NoSlice} /\ c.adr \in Nat /\ c.size \in Nat \ {0}
         /\ c.keep \in BOOLEAN /\ c.locked \in BOOLEAN /\ c.altered \in BOOLEAN /\ c.was \in BOOLEAN
         /\ c.file \in Nat /\ c.prev \in Nat /\ c.next \in Nat /\ c.cur \in BOOLEAN
BY DEF Block

LEMMA SliceIs ==
  ASSUME NEW x \in Slice
  PROVE  /\ x.bk \in Nat /\ x.keep \in BOOLEAN /\ x.locked \in BOOLEAN /\ x.altered \in BOOLEAN
         /\ x.was \in BOOLEAN /\ x.image \in BOOLEAN
BY DEF Slice

(* A block with its place in the list, its room or its number changed; its *)
(* content may suffer where it is moved.                                   *)
Like(c, d) == d.slice = c.slice /\ SameFlags(d, c) /\ d.file = c.file
Same(c, d) == Like(c, d) /\ d.cur = c.cur

LEMMA LinkingIs ==
  ASSUME NEW c, NEW p, NEW n, c \in Block, p \in Nat, n \in Nat
  PROVE  LET d == Linking(c, p, n)
         IN  d \in Block /\ Same(c, d) /\ d.adr = c.adr /\ d.size = c.size /\ d.prev = p /\ d.next = n
BY DEF Block, Same, Like, SameFlags, Linking

LEMMA RenumberedIs ==
  ASSUME NEW x, NEW k, x \in Slice, k \in Nat
  PROVE  LET y == Renumbered(x, k)
         IN  y \in Slice /\ y.bk = k /\ SameFlags(y, x) /\ y.image = x.image
BY DEF Slice, SameFlags, Renumbered

LEMMA DownIs == \A k \in Nat : Down(k) \in Nat /\ Down(k) = IF k = 0 THEN 0 ELSE k - 1
BY DEF Down

LEMMA FreeIs ==
  ASSUME NEW b, NEW j
  PROVE  j \in Free(b) <=> j \in DOMAIN b /\ b[j].slice = NoSlice
BY DEF Free, InUse

---------------------------------------------------------------------------
(* collapse_blocks: two free blocks become one. *)

CollapsedBlocks(b, i) ==
  [j \in 1 .. Len(b) - 1 |->
     IF j < i THEN b[j] ELSE IF j = i THEN Absorb(b[i], b[i + 1])
     ELSE Lowered(b[j + 1])]

CollapsedSlices(s, i) ==
  [x \in Slices |-> IF s[x].bk > i THEN Renumbered(s[x], s[x].bk - 1) ELSE s[x]]

\* c and t are b and s with the free blocks i and i + 1 in one
Collapsed(b, s, c, t, i) ==
  /\ c \in Seq(Block) /\ t \in [Slices -> Slice] /\ Len(c) = Len(b) - 1
  /\ \A j \in 1 .. i - 1 : c[j] = b[j]
  /\ Same(b[i], c[i]) /\ c[i].adr = b[i].adr /\ c[i].size = b[i].size + b[i + 1].size
  /\ \A j \in i + 1 .. Len(c) :
       Same(b[j + 1], c[j]) /\ c[j].adr = b[j + 1].adr /\ c[j].size = b[j + 1].size
  /\ \A x \in Slices : /\ SameFlags(t[x], s[x]) /\ t[x].image = s[x].image
                       /\ t[x].bk = IF s[x].bk > i THEN s[x].bk - 1 ELSE s[x].bk

LEMMA LoweredIs ==
  ASSUME NEW c \in Block
  PROVE  /\ Lowered(c) \in Block /\ Same(c, Lowered(c)) /\ Lowered(c).adr = c.adr
         /\ Lowered(c).size = c.size
         /\ Lowered(c).prev = Down(c.prev) /\ Lowered(c).next = Down(c.next)
<1>1. c.prev \in Nat /\ c.next \in Nat BY BlockIs
<1>2. Down(c.prev) \in Nat /\ Down(c.next) \in Nat BY <1>1, DownIs
<1> DEFINE p == Down(c.prev)
           n == Down(c.next)
<1>3. Lowered(c) = Linking(c, p, n) BY DEF Lowered, Linking
<1>4. p \in Nat /\ n \in Nat BY <1>2
<1> HIDE DEF p, n
<1>5. /\ Lowered(c) \in Block /\ Same(c, Lowered(c)) /\ Lowered(c).adr = c.adr
      /\ Lowered(c).size = c.size /\ Lowered(c).prev = p /\ Lowered(c).next = n
  BY <1>3, <1>4, LinkingIs
<1> QED BY <1>5 DEF p, n

LEMMA CollapseMemory ==
  ASSUME NEW b, NEW s, NEW first, NEW i, b \in Seq(Block), s \in [Slices -> Slice],
         first \in Nat, i \in 1 .. Len(b) - 1, ~InUse(b[i]), ~InUse(b[i + 1]),
         Memory(b, s, first)
  PROVE  LET c == CollapsedBlocks(b, i)
             t == CollapsedSlices(s, i)
         IN  Collapsed(b, s, c, t, i) /\ Memory(c, t, first)
<1> DEFINE n == Len(b)
           c == CollapsedBlocks(b, i)
           t == CollapsedSlices(s, i)
<1>0. n \in Nat /\ DOMAIN b = 1 .. n /\ i \in 1 .. n /\ i + 1 \in 1 .. n /\ i \in Nat OBVIOUS
<1>1. \A j \in 1 .. n : b[j] \in Block OBVIOUS
<1>2. DOMAIN c = 1 .. n - 1 BY DEF CollapsedBlocks
<1>20. ASSUME NEW j \in 1 .. n - 1
       PROVE  c[j] = IF j < i THEN b[j] ELSE IF j = i THEN Absorb(b[i], b[i + 1])
                     ELSE Lowered(b[j + 1])
  BY DEF CollapsedBlocks
<1>3. \A j \in 1 .. i - 1 : c[j] = b[j] BY <1>0, <1>20
<1>4. c[i] = Absorb(b[i], b[i + 1]) BY <1>0, <1>20
<1>5. /\ c[i] \in Block /\ Same(b[i], c[i]) /\ c[i].adr = b[i].adr
      /\ c[i].size = b[i].size + b[i + 1].size
      /\ c[i].prev = b[i].prev /\ c[i].next = Down(b[i + 1].next)
  <2>0. b[i] \in Block /\ b[i + 1] \in Block BY <1>0, <1>1
  <2>1. Down(b[i + 1].next) \in Nat BY <2>0, BlockIs, DownIs
  <2>2. b[i].size + b[i + 1].size \in Nat \ {0}
    <3>1. b[i].size \in Nat \ {0} /\ b[i + 1].size \in Nat \ {0} BY <2>0, BlockIs
    <3> QED BY <3>1
  <2> QED BY <1>4, <2>0, <2>1, <2>2 DEF Absorb, Block, Same, Like, SameFlags
<1>6. ASSUME NEW j \in i + 1 .. n - 1
      PROVE  /\ c[j] \in Block /\ Same(b[j + 1], c[j]) /\ c[j].adr = b[j + 1].adr
             /\ c[j].size = b[j + 1].size
             /\ c[j].prev = Down(b[j + 1].prev) /\ c[j].next = Down(b[j + 1].next)
  <2>1. j + 1 \in 1 .. n /\ b[j + 1] \in Block BY <1>0, <1>1
  <2>2. c[j] = Lowered(b[j + 1]) BY <1>0, <1>20
  <2> QED BY <2>1, <2>2, LoweredIs
<1>7. ASSUME NEW j \in 1 .. n - 1 PROVE c[j] \in Block
  <2>1. j \in 1 .. i - 1 \/ j = i \/ j \in i + 1 .. n - 1 BY <1>0
  <2> QED BY <1>0, <1>1, <1>3, <1>5, <1>6, <2>1
<1>8. c \in Seq(Block) /\ Len(c) = n - 1
  <2>1. c \in [1 .. n - 1 -> Block] BY <1>2, <1>7 DEF CollapsedBlocks
  <2>2. n - 1 \in Nat BY <1>0
  <2> QED BY <2>1, <2>2
<1>9. ASSUME NEW x \in Slices
      PROVE  /\ t[x] \in Slice /\ SameFlags(t[x], s[x]) /\ t[x].image = s[x].image
             /\ t[x].bk = IF s[x].bk > i THEN s[x].bk - 1 ELSE s[x].bk
  <2>1. s[x] \in Slice /\ s[x].bk \in Nat BY SliceIs
  <2>2. CASE s[x].bk > i
    <3> DEFINE k == s[x].bk - 1
    <3>1. k \in Nat BY <1>0, <2>1, <2>2
    <3>2. t[x] = Renumbered(s[x], k) BY <2>2 DEF CollapsedSlices
    <3> HIDE DEF k
    <3> DEFINE y == Renumbered(s[x], k)
    <3>3. y \in Slice /\ y.bk = k /\ SameFlags(y, s[x]) /\ y.image = s[x].image
      BY <2>1, <3>1, RenumberedIs
    <3> HIDE DEF y
    <3> QED BY <2>1, <2>2, <3>2, <3>3 DEF k, y
  <2>3. CASE ~(s[x].bk > i)
    <3>1. t[x] = s[x] BY <2>3 DEF CollapsedSlices
    <3> QED BY <2>1, <2>3, <3>1 DEF SameFlags
  <2> QED BY <2>2, <2>3
<1>10. t \in [Slices -> Slice]
  <2>1. t = [x \in Slices |-> t[x]] BY DEF CollapsedSlices
  <2> QED BY <1>9, <2>1
<1>11. Names(b, s) /\ Tiled(b) /\ Listed(b, first) BY DEF Memory
<1> HIDE DEF c, t, n
<1>12. Names(c, t)
  <2>1. ASSUME NEW j \in 1 .. n - 1, InUse(c[j])
        PROVE  /\ t[c[j].slice].bk = j /\ SameFlags(c[j], t[c[j].slice])
               /\ c[j].size = Len8(c[j].slice) /\ c[j].prev = 0 /\ c[j].next = 0
    <3>1. CASE j \in 1 .. i - 1
      <4>1. c[j] = b[j] /\ c[j].slice \in Slices BY <1>0, <1>1, <1>3, <2>1, <3>1, BlockIs DEF InUse
      <4>2. s[c[j].slice].bk = j BY <1>0, <1>11, <2>1, <4>1 DEF Names
      <4>3. t[c[j].slice].bk = j BY <1>0, <1>9, <3>1, <4>1, <4>2
      <4> QED BY <1>0, <1>9, <1>11, <2>1, <4>1, <4>3 DEF Names, SameFlags
    <3>2. CASE j = i BY <1>5, <2>1, <3>2 DEF InUse, Same, Like
    <3>3. CASE j \in i + 1 .. n - 1
      <4>0. j + 1 \in 1 .. n BY <1>0
      <4>1. c[j].slice = b[j + 1].slice /\ InUse(b[j + 1]) /\ c[j].slice \in Slices
        BY <1>1, <1>6, <2>1, <3>3, <4>0, BlockIs DEF InUse, Same, Like
      <4>2. s[c[j].slice].bk = j + 1 /\ b[j + 1].prev = 0 /\ b[j + 1].next = 0
        BY <1>0, <1>11, <4>0, <4>1 DEF Names
      <4>3. t[c[j].slice].bk = j BY <1>0, <1>9, <3>3, <4>1, <4>2
      <4>4. c[j].prev = 0 /\ c[j].next = 0 BY <1>6, <3>3, <4>2 DEF Down
      <4>5. SameFlags(b[j + 1], s[c[j].slice]) /\ b[j + 1].size = Len8(c[j].slice)
        BY <1>0, <1>11, <4>0, <4>1 DEF Names
      <4>6. SameFlags(c[j], b[j + 1]) /\ c[j].size = b[j + 1].size BY <1>6, <3>3 DEF Same, Like
      <4>7. SameFlags(t[c[j].slice], s[c[j].slice]) BY <1>9, <4>1
      <4> QED BY <4>3, <4>4, <4>5, <4>6, <4>7 DEF SameFlags
    <3> QED BY <1>0, <3>1, <3>2, <3>3
  <2>2. ASSUME NEW j \in 1 .. n - 1, ~InUse(c[j]) PROVE ~c[j].locked /\ ~c[j].keep
    <3>1. CASE j \in 1 .. i - 1 BY <1>0, <1>3, <1>11, <2>2, <3>1 DEF Names
    <3>2. CASE j = i BY <1>0, <1>5, <1>11, <3>2 DEF Names, Same, Like, SameFlags
    <3>3. CASE j \in i + 1 .. n - 1
      <4>1. j + 1 \in 1 .. n /\ ~InUse(b[j + 1]) BY <1>0, <1>6, <2>2, <3>3 DEF InUse, Same, Like
      <4> QED BY <1>0, <1>6, <1>11, <3>3, <4>1 DEF Names, Same, Like, SameFlags
    <3> QED BY <1>0, <3>1, <3>2, <3>3
  <2>3. ASSUME NEW x \in Slices
        PROVE  IF t[x].bk = 0 THEN ~t[x].locked ELSE t[x].bk \in 1 .. n - 1 /\ c[t[x].bk].slice = x
    <3>1. s[x].bk \in Nat BY SliceIs
    <3>2. CASE s[x].bk = 0 BY <1>0, <1>9, <1>11, <3>2 DEF Names, SameFlags
    <3>3. CASE s[x].bk # 0
      <4>1. s[x].bk \in 1 .. n /\ b[s[x].bk].slice = x BY <1>0, <1>11, <3>3 DEF Names
      <4>2. x # NoSlice BY VmmAssumption
      <4>3. s[x].bk # i /\ s[x].bk # i + 1 BY <4>1, <4>2 DEF InUse
      <4>4. CASE s[x].bk < i
        <5>1. t[x].bk = s[x].bk /\ s[x].bk \in 1 .. i - 1 BY <1>0, <1>9, <4>1, <4>4
        <5> QED BY <1>0, <1>3, <4>1, <5>1
      <4>5. CASE s[x].bk > i
        <5>1. t[x].bk = s[x].bk - 1 /\ t[x].bk \in i + 1 .. n - 1 BY <1>0, <1>9, <4>1, <4>3, <4>5
        <5>2. t[x].bk + 1 = s[x].bk BY <3>1, <5>1
        <5>3. c[t[x].bk].slice = b[t[x].bk + 1].slice BY <1>6, <5>1 DEF Same, Like
        <5> QED BY <1>0, <4>1, <5>1, <5>2, <5>3
      <4> QED BY <1>0, <4>1, <4>3, <4>4, <4>5
    <3> QED BY <3>2, <3>3
  <2> QED BY <1>2, <2>1, <2>2, <2>3 DEF Names
<1>13. Tiled(c)
  <2>1. ASSUME NEW j \in 1 .. n - 2 PROVE c[j].adr + c[j].size = c[j + 1].adr
    <3>1. CASE j < i - 1 BY <1>0, <1>3, <1>11, <3>1 DEF Tiled, n
    <3>2. CASE j = i - 1
      <4>1. c[j] = b[j] /\ c[j + 1].adr = b[j + 1].adr BY <1>0, <1>3, <1>5, <3>2
      <4> QED BY <1>0, <1>11, <4>1 DEF Tiled, n
    <3>3. CASE j = i
      <4>1. c[j].adr = b[i].adr /\ c[j].size = b[i].size + b[i + 1].size /\ c[j + 1].adr = b[i + 2].adr
        BY <1>0, <1>5, <1>6, <3>3
      <4>2. b[i].adr + b[i].size = b[i + 1].adr /\ b[i + 1].adr + b[i + 1].size = b[i + 2].adr
        <5>1. i \in 1 .. n - 1 /\ i + 1 \in 1 .. n - 1 /\ i + 1 + 1 = i + 2 BY <1>0, <3>3
        <5> QED BY <1>11, <5>1 DEF Tiled, n
      <4>3. b[i].adr \in Nat /\ b[i].size \in Nat /\ b[i + 1].adr \in Nat /\ b[i + 1].size \in Nat
        BY <1>0, <1>1, BlockIs
      <4> DEFINE p == b[i].adr
                 q == b[i].size
                 u == b[i + 1].adr
                 v == b[i + 1].size
                 w == b[i + 2].adr
      <4>4. p \in Nat /\ q \in Nat /\ v \in Nat /\ p + q = u /\ u + v = w BY <4>2, <4>3
      <4>5. c[j].adr = p /\ c[j].size = q + v /\ c[j + 1].adr = w BY <4>1
      <4> HIDE DEF p, q, u, v, w
      <4>6. p + (q + v) = w BY <4>4
      <4> QED BY <4>5, <4>6
    <3>4. CASE j > i
      <4>1. j \in i + 1 .. n - 1 /\ j + 1 \in i + 1 .. n - 1 /\ j + 1 \in 1 .. n - 1 BY <1>0, <3>4
      <4>2. c[j].adr = b[j + 1].adr /\ c[j].size = b[j + 1].size /\ c[j + 1].adr = b[j + 1 + 1].adr
        BY <1>6, <4>1
      <4> QED BY <1>11, <4>1, <4>2 DEF Tiled, n
    <3> QED BY <1>0, <3>1, <3>2, <3>3, <3>4
  <2>2. Len(c) >= 1 /\ c[1].adr = 0
    <3>1. CASE i = 1 BY <1>0, <1>5, <1>8, <1>11, <3>1 DEF Tiled
    <3>2. CASE i # 1 BY <1>0, <1>3, <1>8, <1>11, <3>2 DEF Tiled
    <3> QED BY <3>1, <3>2
  <2>3. c[n - 1].adr + c[n - 1].size = MaxMem
    <3>1. b[n].adr + b[n].size = MaxMem BY <1>11 DEF Tiled, n
    <3>2. CASE i = n - 1
      <4>1. b[i].adr + b[i].size = b[i + 1].adr BY <1>11 DEF Tiled, n
      <4>2. b[i].adr \in Nat /\ b[i].size \in Nat /\ b[i + 1].adr \in Nat /\ b[i + 1].size \in Nat
        BY <1>0, <1>1, BlockIs
      <4>3. i + 1 = n BY <1>0, <3>2
      <4> QED BY <1>5, <3>1, <3>2, <4>1, <4>2, <4>3
    <3>3. CASE i # n - 1
      <4>1. n - 1 \in i + 1 .. n - 1 /\ n - 1 + 1 = n BY <1>0, <3>3
      <4> QED BY <1>6, <3>1, <4>1
    <3> QED BY <3>2, <3>3
  <2>4. Len(c) - 1 = n - 2 BY <1>0, <1>8
  <2> QED BY <1>8, <2>1, <2>2, <2>3, <2>4 DEF Tiled
<1>14. \A j : j \in Free(c) <=> j \in 1 .. n - 1 /\ (IF j <= i THEN j \in Free(b) ELSE j + 1 \in Free(b))
  <2> SUFFICES ASSUME NEW j \in 1 .. n - 1
               PROVE  j \in Free(c) <=> IF j <= i THEN j \in Free(b) ELSE j + 1 \in Free(b)
    BY <1>2, FreeIs
  <2>1. CASE j \in 1 .. i - 1 BY <1>0, <1>2, <1>3, <2>1, FreeIs
  <2>2. CASE j = i BY <1>0, <1>2, <1>5, <2>2, FreeIs DEF Same, Like
  <2>3. CASE j \in i + 1 .. n - 1
    <3>1. c[j].slice = b[j + 1].slice /\ j + 1 \in 1 .. n BY <1>0, <1>6, <2>3 DEF Same, Like
    <3> QED BY <1>0, <1>2, <2>3, <3>1, FreeIs
  <2> QED BY <1>0, <2>1, <2>2, <2>3
<1>15. i \in Free(b) /\ i + 1 \in Free(b) BY <1>0, FreeIs DEF InUse
<1>16. \A j \in Free(b) : j \in 1 .. n BY <1>0, FreeIs
<1>17. \A j \in Free(b) : b[j].next \in Nat /\ b[j].prev \in Nat BY <1>1, <1>16, BlockIs
<1>18. NextIn(Free(c), 0, first)
  <2>1. first # 0 /\ first \in Free(b) /\ \A j \in Free(b) : first <= j
    BY <1>0, <1>11, <1>15, <1>16 DEF Listed, NextIn
  <2>2. first \in 1 .. n - 1 /\ first <= i BY <1>0, <1>15, <1>16, <2>1
  <2>3. \A j \in Free(c) : first <= j
    <3> SUFFICES ASSUME NEW j \in Free(c) PROVE first <= j OBVIOUS
    <3>1. j \in 1 .. n - 1 BY <1>14
    <3>2. CASE j <= i BY <1>14, <2>1, <3>2
    <3>3. CASE ~(j <= i) BY <1>0, <2>2, <3>1, <3>3
    <3> QED BY <3>2, <3>3
  <2> QED BY <1>0, <1>14, <2>1, <2>2, <2>3 DEF NextIn
<1>19. ASSUME NEW j \in Free(c) PROVE NextIn(Free(c), j, c[j].next) /\ PrevIn(Free(c), j, c[j].prev)
  <2>0. j \in 1 .. n - 1 BY <1>14
  <2>1. CASE j < i
    <3>1. j \in Free(b) /\ c[j] = b[j] BY <1>0, <1>3, <1>14, <2>0, <2>1
    <3> DEFINE k == b[j].next
               q == b[j].prev
    <3>2. NextIn(Free(b), j, k) /\ PrevIn(Free(b), j, q) /\ k \in Nat /\ q \in Nat
      BY <1>11, <1>17, <3>1 DEF Listed, Linked
    <3> HIDE DEF k, q
    <3>3. k # 0 /\ k \in Free(b) /\ j < k /\ k <= i /\ \A m \in Free(b) : j < m => k <= m
      BY <1>0, <1>15, <2>0, <2>1, <3>2 DEF NextIn
    <3>4. k \in Free(c) BY <1>0, <1>14, <1>16, <3>3
    <3>5. ASSUME NEW m \in Free(c), j < m PROVE k <= m
      <4>1. m \in 1 .. n - 1 BY <1>14
      <4> QED BY <1>0, <1>14, <3>2, <3>3, <3>5, <4>1
    <3>6. NextIn(Free(c), j, k) BY <3>3, <3>4, <3>5 DEF NextIn
    <3>7. PrevIn(Free(c), j, q)
      <4>1. CASE q = 0
        <5>1. ASSUME NEW m \in Free(c) PROVE j <= m
          <6>1. m \in 1 .. n - 1 BY <1>14
          <6>2. \A l \in Free(b) : j <= l BY <3>2, <4>1 DEF PrevIn
          <6> QED BY <1>0, <1>14, <2>0, <2>1, <6>1, <6>2
        <5> QED BY <4>1, <5>1 DEF PrevIn
      <4>2. CASE q # 0
        <5>1. q \in Free(b) /\ q < j /\ \A l \in Free(b) : l < j => l <= q
          BY <3>2, <4>2 DEF PrevIn
        <5>2. q \in Free(c) BY <1>0, <1>14, <1>16, <2>0, <2>1, <5>1
        <5>3. ASSUME NEW m \in Free(c), m < j PROVE m <= q
          <6>1. m \in 1 .. n - 1 BY <1>14
          <6> QED BY <1>0, <1>14, <2>0, <2>1, <5>1, <5>3, <6>1
        <5> QED BY <4>2, <5>1, <5>2, <5>3 DEF PrevIn
      <4> QED BY <4>1, <4>2
    <3> QED BY <3>1, <3>6, <3>7 DEF k, q
  <2>2. CASE j = i
    <3> DEFINE k == b[i + 1].next
               q == b[i].prev
    <3>2. NextIn(Free(b), i + 1, k) /\ PrevIn(Free(b), i, q) /\ k \in Nat /\ q \in Nat
      BY <1>11, <1>15, <1>17 DEF Listed, Linked
    <3>3. c[i].next = Down(k) /\ c[i].prev = q BY <1>5
    <3> HIDE DEF k, q
    <3>4. NextIn(Free(c), i, Down(k))
      <4>1. CASE k = 0
        <5>1. \A m \in Free(b) : m <= i + 1 BY <3>2, <4>1 DEF NextIn
        <5>2. ASSUME NEW m \in Free(c) PROVE m <= i
          <6>1. m \in 1 .. n - 1 BY <1>14
          <6> QED BY <1>0, <1>14, <5>1, <6>1
        <5> QED BY <4>1, <5>2 DEF NextIn, Down
      <4>2. CASE k # 0
        <5>1. k \in Free(b) /\ i + 1 < k /\ \A m \in Free(b) : i + 1 < m => k <= m
          BY <3>2, <4>2 DEF NextIn
        <5>2. Down(k) = k - 1 /\ k - 1 \in 1 .. n - 1 /\ i < k - 1 /\ k - 1 + 1 = k
          BY <1>0, <1>16, <3>2, <4>2, <5>1 DEF Down
        <5>3. k - 1 \in Free(c)
          <6>1. ~(k - 1 <= i) BY <1>0, <3>2, <5>2
          <6> QED BY <1>14, <5>1, <5>2, <6>1
        <5>4. ASSUME NEW m \in Free(c), i < m PROVE k - 1 <= m
          <6>1. m \in 1 .. n - 1 BY <1>14
          <6>2. m + 1 \in Free(b) BY <1>0, <1>14, <5>4, <6>1
          <6>3. k <= m + 1 BY <1>0, <5>1, <5>4, <6>1, <6>2
          <6> QED BY <3>2, <6>1, <6>3
        <5>5. k - 1 # 0 BY <1>0, <5>2
        <5> QED BY <5>2, <5>3, <5>4, <5>5 DEF NextIn
      <4> QED BY <4>1, <4>2
    <3>5. PrevIn(Free(c), i, q)
      <4>1. CASE q = 0
        <5>1. ASSUME NEW m \in Free(c) PROVE i <= m
          <6>1. m \in 1 .. n - 1 BY <1>14
          <6>2. \A l \in Free(b) : i <= l BY <3>2, <4>1 DEF PrevIn
          <6> QED BY <1>0, <1>14, <6>1, <6>2
        <5> QED BY <4>1, <5>1 DEF PrevIn
      <4>2. CASE q # 0
        <5>1. q \in Free(b) /\ q < i /\ \A l \in Free(b) : l < i => l <= q
          BY <3>2, <4>2 DEF PrevIn
        <5>2. q \in Free(c) BY <1>0, <1>14, <1>16, <5>1
        <5>3. ASSUME NEW m \in Free(c), m < i PROVE m <= q
          <6>1. m \in 1 .. n - 1 BY <1>14
          <6> QED BY <1>0, <1>14, <5>1, <5>3, <6>1
        <5> QED BY <4>2, <5>1, <5>2, <5>3 DEF PrevIn
      <4> QED BY <4>1, <4>2
    <3> QED BY <2>2, <3>3, <3>4, <3>5
  <2>3. CASE j > i
    <3>0. j \in i + 1 .. n - 1 BY <1>0, <2>0, <2>3
    <3>1. j + 1 \in Free(b) BY <1>0, <1>14, <2>0, <2>3
    <3> DEFINE k == b[j + 1].next
               q == b[j + 1].prev
    <3>2. NextIn(Free(b), j + 1, k) /\ PrevIn(Free(b), j + 1, q) /\ k \in Nat /\ q \in Nat
      BY <1>11, <1>17, <3>1 DEF Listed, Linked
    <3>3. c[j].next = Down(k) /\ c[j].prev = Down(q) BY <1>6, <3>0
    <3> HIDE DEF k, q
    <3>4. NextIn(Free(c), j, Down(k))
      <4>1. CASE k = 0
        <5>1. \A m \in Free(b) : m <= j + 1 BY <3>2, <4>1 DEF NextIn
        <5>2. ASSUME NEW m \in Free(c) PROVE m <= j
          <6>1. m \in 1 .. n - 1 BY <1>14
          <6>2. CASE m <= i BY <1>0, <3>0, <6>1, <6>2
          <6>3. CASE ~(m <= i)
            <7>1. m + 1 \in Free(b) BY <1>14, <6>1, <6>3
            <7> QED BY <2>0, <5>1, <6>1, <7>1
          <6> QED BY <6>2, <6>3
        <5> QED BY <4>1, <5>2 DEF NextIn, Down
      <4>2. CASE k # 0
        <5>1. k \in Free(b) /\ j + 1 < k /\ \A m \in Free(b) : j + 1 < m => k <= m
          BY <3>2, <4>2 DEF NextIn
        <5>2. Down(k) = k - 1 /\ k - 1 \in 1 .. n - 1 /\ j < k - 1 /\ k - 1 + 1 = k
          BY <1>0, <1>16, <2>0, <3>2, <4>2, <5>1 DEF Down
        <5>3. k - 1 \in Free(c)
          <6>1. ~(k - 1 <= i) BY <1>0, <2>0, <2>3, <3>2, <5>2
          <6> QED BY <1>14, <5>1, <5>2, <6>1
        <5>4. ASSUME NEW m \in Free(c), j < m PROVE k - 1 <= m
          <6>1. m \in 1 .. n - 1 /\ ~(m <= i) BY <1>0, <1>14, <2>0, <2>3, <5>4
          <6>2. m + 1 \in Free(b) BY <1>14, <6>1
          <6>3. k <= m + 1 BY <2>0, <5>1, <5>4, <6>1, <6>2
          <6> QED BY <3>2, <6>1, <6>3
        <5>5. k - 1 # 0 BY <2>0, <5>2
        <5> QED BY <5>2, <5>3, <5>4, <5>5 DEF NextIn
      <4> QED BY <4>1, <4>2
    <3>5. PrevIn(Free(c), j, Down(q))
      <4>1. q # 0 /\ q \in Free(b) /\ q < j + 1 /\ (\A l \in Free(b) : l < j + 1 => l <= q)
        <5>1. i + 1 < j + 1 BY <1>0, <2>0, <2>3
        <5>2. q # 0
          <6> SUFFICES ASSUME q = 0 PROVE FALSE OBVIOUS
          <6>1. j + 1 <= i + 1 BY <1>15, <3>2 DEF PrevIn
          <6> QED BY <1>0, <2>0, <5>1, <6>1
        <5> QED BY <3>2, <5>2 DEF PrevIn
      <4>2. i + 1 <= q BY <1>0, <1>15, <2>0, <2>3, <4>1
      <4>3. Down(q) = q - 1 /\ q - 1 \in 1 .. n - 1 /\ q - 1 < j /\ i <= q - 1 /\ q - 1 + 1 = q
        BY <1>0, <1>16, <2>0, <3>2, <4>1, <4>2 DEF Down
      <4>4. q - 1 \in Free(c)
        <5>1. CASE q - 1 = i BY <1>0, <1>14, <1>15, <5>1
        <5>2. CASE q - 1 # i
          <6>1. ~(q - 1 <= i) BY <1>0, <3>2, <4>3, <5>2
          <6> QED BY <1>14, <4>1, <4>3, <6>1
        <5> QED BY <5>1, <5>2
      <4>5. ASSUME NEW m \in Free(c), m < j PROVE m <= q - 1
        <5>1. m \in 1 .. n - 1 BY <1>14
        <5>2. CASE m <= i BY <1>0, <3>2, <4>3, <5>1, <5>2
        <5>3. CASE ~(m <= i)
          <6>1. m + 1 \in Free(b) BY <1>14, <5>1, <5>3
          <6>2. m + 1 <= q BY <2>0, <4>1, <4>5, <5>1, <6>1
          <6> QED BY <3>2, <5>1, <6>2
        <5> QED BY <5>2, <5>3
      <4>6. q - 1 # 0 BY <4>3
      <4> QED BY <4>3, <4>4, <4>5, <4>6 DEF PrevIn
    <3> QED BY <3>3, <3>4, <3>5
  <2> QED BY <1>0, <2>0, <2>1, <2>2, <2>3
<1>21. Memory(c, t, first) BY <1>12, <1>13, <1>18, <1>19 DEF Memory, Listed, Linked
<1>22. Collapsed(b, s, c, t, i) BY <1>0, <1>3, <1>5, <1>6, <1>8, <1>9, <1>10 DEF Collapsed, n
<1> QED BY <1>21, <1>22 DEF c, t

---------------------------------------------------------------------------
(* The numbers of the free blocks, in order. *)

Positive(F) == F \subseteq Nat \ {0}

LEMMA LinksMeet ==
  ASSUME NEW F, NEW i, NEW j, NEW p, NEW n, Positive(F), i \in F, j \in F, p \in Nat,
         n \in Nat, NextIn(F, j, n), PrevIn(F, i, p)
  PROVE  n = i <=> p = j
<1>1. ASSUME n = i PROVE p = j
  <2>1. j < i /\ \A m \in F : j < m => i <= m BY <1>1 DEF NextIn, Positive
  <2>2. p \in F /\ p < i /\ j <= p BY <2>1 DEF PrevIn, Positive
  <2> QED BY <2>1, <2>2 DEF Positive
<1>2. ASSUME p = j PROVE n = i
  <2>1. j < i /\ \A m \in F : m < i => m <= j BY <1>2 DEF PrevIn, Positive
  <2>2. n \in F /\ j < n /\ n <= i BY <2>1 DEF NextIn, Positive
  <2> QED BY <2>1, <2>2 DEF Positive
<1> QED BY <1>1, <1>2

(* Number i becomes the number that follows it.                            *)
Stepped(F, i) == (F \ {i}) \cup {i + 1}
Step(i, k) == IF k = i THEN i + 1 ELSE k

LEMMA SteppedIn ==
  ASSUME NEW F, NEW i, NEW j, NEW k, Positive(F), i \in F, i + 1 \notin F, j \in Nat,
         k \in Nat
  PROVE  /\ NextIn(F, j, k) /\ j # i => NextIn(Stepped(F, i), j, Step(i, k))
         /\ PrevIn(F, j, k) /\ j # i /\ j # i + 1 => PrevIn(Stepped(F, i), j, Step(i, k))
         /\ NextIn(F, i, k) => NextIn(Stepped(F, i), i + 1, k)
         /\ PrevIn(F, i, k) => PrevIn(Stepped(F, i), i + 1, k)
<1> DEFINE G == Stepped(F, i)
           q == Step(i, k)
<1>0. i \in Nat /\ \A m \in F : m \in Nat /\ m # 0 BY DEF Positive
<1>1. (\A m \in Nat : m \in G <=> (m \in F /\ m # i) \/ m = i + 1) /\ (\A m \in G : m \in Nat)
  BY <1>0 DEF Stepped
<1>2. q \in Nat /\ (k = i => q = i + 1) /\ (k # i => q = k) BY <1>0 DEF Step
<1> HIDE DEF G, q
<1>3. ASSUME NextIn(F, j, k), j # i PROVE NextIn(G, j, q)
  BY <1>0, <1>1, <1>2, <1>3 DEF NextIn
<1>4. ASSUME PrevIn(F, j, k), j # i, j # i + 1 PROVE PrevIn(G, j, q)
  BY <1>0, <1>1, <1>2, <1>4 DEF PrevIn
<1>5. ASSUME NextIn(F, i, k) PROVE NextIn(G, i + 1, k)
  BY <1>0, <1>1, <1>5 DEF NextIn
<1>6. ASSUME PrevIn(F, i, k) PROVE PrevIn(G, i + 1, k)
  BY <1>0, <1>1, <1>6 DEF PrevIn
<1> QED BY <1>3, <1>4, <1>5, <1>6 DEF G, q

LEMMA SteppedIs ==
  ASSUME NEW F, NEW i, NEW k, Positive(F), i \in F, i + 1 \notin F, k \in Nat
  PROVE  /\ NextIn(F, i, k) => NextIn(Stepped(F, i), i + 1, k)
         /\ PrevIn(F, i, k) => PrevIn(Stepped(F, i), i + 1, k)
<1>1. i \in Nat BY DEF Positive
<1> QED BY <1>1, SteppedIn

(* Number i enters, behind p and before n.                                 *)
Instead(j, p, i, k) == IF j = p THEN i ELSE k

LEMMA EnteredIn ==
  ASSUME NEW F, NEW i, NEW p, NEW n, NEW j, NEW k, Positive(F), i \in Nat \ {0}, i \notin F,
         p \in Nat, n \in Nat, PrevIn(F, i, p), NextIn(F, i, n), j \in Nat, k \in Nat
  PROVE  /\ j \in F /\ NextIn(F, j, k) => NextIn(F \cup {i}, j, Instead(j, p, i, k))
         /\ j \in F /\ PrevIn(F, j, k) => PrevIn(F \cup {i}, j, Instead(j, n, i, k))
         /\ NextIn(F \cup {i}, i, n) /\ PrevIn(F \cup {i}, i, p)
         /\ NextIn(F, 0, k) => NextIn(F \cup {i}, 0, Instead(0, p, i, k))
<1> DEFINE G == F \cup {i}
<1>0. \A m \in F : m \in Nat /\ m # 0 /\ m # i BY DEF Positive
<1>1. (\A m \in Nat : m \in G <=> m \in F \/ m = i) /\ (\A m \in G : m \in Nat) BY <1>0
<1> HIDE DEF G
<1>2. ASSUME j \in F, NextIn(F, j, k) PROVE NextIn(G, j, Instead(j, p, i, k))
  <2>1. CASE j = p
    <3>1. NextIn(G, j, i) BY <1>0, <1>1, <1>2, <2>1 DEF NextIn, PrevIn
    <3> QED BY <2>1, <3>1 DEF Instead
  <2>2. CASE j # p
    <3>1. i <= j \/ (k # 0 /\ k < i)
      <4>1. CASE p = 0 BY <1>2, <4>1 DEF PrevIn
      <4>2. CASE p # 0 /\ j < i
        <5>1. j < p /\ p \in F /\ p < i BY <1>0, <1>2, <2>2, <4>2 DEF PrevIn
        <5> QED BY <1>0, <1>2, <5>1 DEF NextIn
      <4> QED BY <1>0, <1>2, <4>1, <4>2
    <3>2. NextIn(G, j, k) BY <1>0, <1>1, <1>2, <2>2, <3>1 DEF NextIn
    <3> QED BY <2>2, <3>2 DEF Instead
  <2> QED BY <2>1, <2>2
<1>3. ASSUME j \in F, PrevIn(F, j, k) PROVE PrevIn(G, j, Instead(j, n, i, k))
  <2>1. CASE j = n
    <3>1. PrevIn(G, j, i) BY <1>0, <1>1, <1>3, <2>1 DEF NextIn, PrevIn
    <3> QED BY <2>1, <3>1 DEF Instead
  <2>2. CASE j # n
    <3>1. j <= i \/ (k # 0 /\ i < k)
      <4>1. CASE n = 0 BY <1>3, <4>1 DEF NextIn
      <4>2. CASE n # 0 /\ i < j
        <5>1. n < j /\ n \in F /\ i < n BY <1>0, <1>3, <2>2, <4>2 DEF NextIn
        <5> QED BY <1>0, <1>3, <5>1 DEF PrevIn
      <4> QED BY <1>0, <1>3, <4>1, <4>2
    <3>2. PrevIn(G, j, k) BY <1>0, <1>1, <1>3, <2>2, <3>1 DEF PrevIn
    <3> QED BY <2>2, <3>2 DEF Instead
  <2> QED BY <2>1, <2>2
<1>4. NextIn(G, i, n) /\ PrevIn(G, i, p) BY <1>0, <1>1 DEF NextIn, PrevIn
<1>5. ASSUME NextIn(F, 0, k) PROVE NextIn(G, 0, Instead(0, p, i, k))
  <2>1. CASE p = 0
    <3>1. NextIn(G, 0, i) BY <1>0, <1>1, <1>5, <2>1 DEF NextIn, PrevIn
    <3> QED BY <2>1, <3>1 DEF Instead
  <2>2. CASE p # 0
    <3>1. NextIn(G, 0, k) BY <1>0, <1>1, <1>5, <2>2 DEF NextIn, PrevIn
    <3> QED BY <2>2, <3>1 DEF Instead
  <2> QED BY <2>1, <2>2
<1> QED BY <1>2, <1>3, <1>4, <1>5 DEF G

(* Number i, behind p and before n, leaves.                                *)
LEMMA LeftIn ==
  ASSUME NEW F, NEW i, NEW p, NEW n, NEW j, NEW k, Positive(F), i \in F, p \in Nat,
         n \in Nat, PrevIn(F, i, p), NextIn(F, i, n), j \in Nat, k \in Nat
  PROVE  /\ j \in F \ {i} /\ NextIn(F, j, k) => NextIn(F \ {i}, j, Instead(j, p, n, k))
         /\ j \in F \ {i} /\ PrevIn(F, j, k) => PrevIn(F \ {i}, j, Instead(j, n, p, k))
         /\ NextIn(F, 0, k) => NextIn(F \ {i}, 0, Instead(k, i, n, k))
         /\ NextIn(F, 0, i) => p = 0
<1> DEFINE G == F \ {i}
<1>0. i \in Nat /\ \A m \in F : m \in Nat /\ m # 0 BY DEF Positive
<1>1. (\A m \in Nat : m \in G <=> m \in F /\ m # i) /\ (\A m \in G : m \in Nat) BY <1>0
<1> HIDE DEF G
<1>2. ASSUME j \in F, j # i, NextIn(F, j, k) PROVE NextIn(G, j, Instead(j, p, n, k))
  <2>0. k = i <=> p = j BY <1>2, LinksMeet
  <2>1. CASE j = p
    <3>1. NextIn(G, j, n) BY <1>0, <1>1, <1>2, <2>1 DEF NextIn, PrevIn
    <3> QED BY <2>1, <3>1 DEF Instead
  <2>2. CASE j # p
    <3>1. NextIn(G, j, k) BY <1>0, <1>1, <1>2, <2>0, <2>2 DEF NextIn
    <3> QED BY <2>2, <3>1 DEF Instead
  <2> QED BY <2>1, <2>2
<1>3. ASSUME j \in F, j # i, PrevIn(F, j, k) PROVE PrevIn(G, j, Instead(j, n, p, k))
  <2>0. n = j <=> k = i BY <1>3, LinksMeet
  <2>1. CASE j = n
    <3>1. PrevIn(G, j, p) BY <1>0, <1>1, <1>3, <2>1 DEF NextIn, PrevIn
    <3> QED BY <2>1, <3>1 DEF Instead
  <2>2. CASE j # n
    <3>1. PrevIn(G, j, k) BY <1>0, <1>1, <1>3, <2>0, <2>2 DEF PrevIn
    <3> QED BY <2>2, <3>1 DEF Instead
  <2> QED BY <2>1, <2>2
<1>4. ASSUME NextIn(F, 0, k) PROVE NextIn(G, 0, Instead(k, i, n, k))
  <2>1. CASE k = i
    <3>1. NextIn(G, 0, n) BY <1>0, <1>1, <1>4, <2>1 DEF NextIn
    <3> QED BY <2>1, <3>1 DEF Instead
  <2>2. CASE k # i
    <3>1. NextIn(G, 0, k) BY <1>0, <1>1, <1>4, <2>2 DEF NextIn
    <3> QED BY <2>2, <3>1 DEF Instead
  <2> QED BY <2>1, <2>2
<1>5. ASSUME NextIn(F, 0, i) PROVE p = 0 BY <1>0, <1>5 DEF NextIn, PrevIn
<1> QED BY <1>2, <1>3, <1>4, <1>5 DEF G

(* The numbers from f on become the ones that follow them.                 *)
From(f, k) == IF k >= f THEN k + 1 ELSE k
Shifted(F, f) == {From(f, k) : k \in F}

LEMMA ShiftedIn ==
  ASSUME NEW F, NEW f, NEW j, NEW k, Positive(F), f \in F, j \in F, k \in Nat
  PROVE  /\ NextIn(F, j, k) => NextIn(Shifted(F, f), From(f, j), From(f, k))
         /\ PrevIn(F, j, k) => PrevIn(Shifted(F, f), From(f, j), From(f, k))
         /\ NextIn(F, 0, k) => NextIn(Shifted(F, f), 0, From(f, k))
<1> DEFINE G == Shifted(F, f)
           g == From(f, j)
           h == From(f, k)
<1>0. f # 0 /\ f \in Nat /\ \A m \in F : m \in Nat /\ m # 0 BY DEF Positive
<1>1. \A m \in G : \E l \in F : m = From(f, l) BY DEF Shifted
<1>2. \A l \in F : From(f, l) \in G BY DEF Shifted
<1>3. \A l, m \in Nat : /\ From(f, l) \in Nat /\ (l < m <=> From(f, l) < From(f, m))
                        /\ (l <= m <=> From(f, l) <= From(f, m)) /\ (From(f, l) = 0 <=> l = 0)
  BY <1>0 DEF From
<1>4. g \in Nat /\ h \in Nat /\ (h = 0 <=> k = 0) BY <1>0, <1>3
<1>5. \A m \in Nat : (m < j <=> From(f, m) < g) /\ (m <= j <=> From(f, m) <= g) /\ (j < m <=> g < From(f, m))
                      /\ (j <= m <=> g <= From(f, m))
  BY <1>0, <1>3
<1>6. \A m \in Nat : (m < k <=> From(f, m) < h) /\ (m <= k <=> From(f, m) <= h) /\ (k < m <=> h < From(f, m))
                      /\ (k <= m <=> h <= From(f, m))
  BY <1>3
<1>7. k \in F => h \in G BY <1>2
<1> HIDE DEF G, g, h
<1>8. ASSUME NextIn(F, j, k) PROVE NextIn(G, g, h)
  <2>1. CASE k = 0
    <3>1. ASSUME NEW m \in G PROVE m <= g
      <4>1. PICK l \in F : m = From(f, l) BY <1>1
      <4> QED BY <1>0, <1>5, <1>8, <2>1, <4>1 DEF NextIn
    <3> QED BY <1>4, <2>1, <3>1 DEF NextIn
  <2>2. CASE k # 0
    <3>1. k \in F /\ j < k /\ \A m \in F : j < m => k <= m BY <1>8, <2>2 DEF NextIn
    <3>2. ASSUME NEW m \in G, g < m PROVE h <= m
      <4>1. PICK l \in F : m = From(f, l) BY <1>1
      <4>2. j < l BY <1>0, <1>5, <3>2, <4>1
      <4>3. k <= l BY <3>1, <4>2
      <4> QED BY <1>0, <1>6, <4>1, <4>3
    <3>3. g < h BY <1>6, <3>1, <1>0 DEF g
    <3> QED BY <1>4, <1>7, <2>2, <3>1, <3>2, <3>3 DEF NextIn
  <2> QED BY <2>1, <2>2
<1>9. ASSUME PrevIn(F, j, k) PROVE PrevIn(G, g, h)
  <2>1. CASE k = 0
    <3>1. ASSUME NEW m \in G PROVE g <= m
      <4>1. PICK l \in F : m = From(f, l) BY <1>1
      <4> QED BY <1>0, <1>5, <1>9, <2>1, <4>1 DEF PrevIn
    <3> QED BY <1>4, <2>1, <3>1 DEF PrevIn
  <2>2. CASE k # 0
    <3>1. k \in F /\ k < j /\ \A m \in F : m < j => m <= k BY <1>9, <2>2 DEF PrevIn
    <3>2. ASSUME NEW m \in G, m < g PROVE m <= h
      <4>1. PICK l \in F : m = From(f, l) BY <1>1
      <4>2. l < j BY <1>0, <1>5, <3>2, <4>1
      <4>3. l <= k BY <3>1, <4>2
      <4> QED BY <1>0, <1>6, <4>1, <4>3
    <3>3. h < g BY <1>6, <3>1, <1>0 DEF g
    <3> QED BY <1>4, <1>7, <2>2, <3>1, <3>2, <3>3 DEF PrevIn
  <2> QED BY <2>1, <2>2
<1>10. ASSUME NextIn(F, 0, k) PROVE NextIn(G, 0, h)
  <2>1. k # 0 /\ k \in F /\ \A m \in F : k <= m BY <1>0, <1>10 DEF NextIn
  <2>2. ASSUME NEW m \in G PROVE h <= m
    <3>1. PICK l \in F : m = From(f, l) BY <1>1
    <3> QED BY <1>0, <1>6, <2>1, <3>1
  <2> QED BY <1>4, <1>7, <2>1, <2>2 DEF NextIn
<1> QED BY <1>8, <1>9, <1>10 DEF G, g, h

---------------------------------------------------------------------------
(* The tables as one value, with other blocks and slices. *)

LEMMA TypedIs ==
  ASSUME NEW T, TypedTables(T)
  PROVE  /\ T.b \in Seq(Block) /\ T.s \in [Slices -> Slice] /\ T.first \in Nat
         /\ T.base \in [Variables -> Nat] /\ T.wp \in Nat \ {0}
         /\ T.file \in [1 .. MaxFile -> Word] /\ T.intact \in BOOLEAN
BY DEF TypedTables

\* U is T with blocks c, slices t and first free block f
Put(T, U, c, t, f) ==
  /\ TypedTables(U) /\ U.b = c /\ U.s = t /\ U.first = f
  /\ U.base = T.base /\ U.wp = T.wp /\ U.file = T.file /\ U.intact = T.intact

WithBlocks(T, c) == [T EXCEPT !.b = c]

LEMMA PutBlocks ==
  ASSUME NEW T, NEW c, TypedTables(T), c \in Seq(Block)
  PROVE  Put(T, WithBlocks(T, c), c, T.s, T.first)
BY DEF Put, TypedTables, WithBlocks

WithSlices(T, c, t) == [T EXCEPT !.b = c, !.s = t]

LEMMA PutSlices ==
  ASSUME NEW T, NEW c, NEW t, TypedTables(T), c \in Seq(Block), t \in [Slices -> Slice]
  PROVE  Put(T, WithSlices(T, c, t), c, t, T.first)
BY DEF Put, TypedTables, WithSlices

WithFirst(T, c, f) == [T EXCEPT !.b = c, !.first = f]

LEMMA PutFirst ==
  ASSUME NEW T, NEW c, NEW f, TypedTables(T), c \in Seq(Block), f \in Nat
  PROVE  Put(T, WithFirst(T, c, f), c, T.s, f)
BY DEF Put, TypedTables, WithFirst

WithAll(T, c, t, f) == [T EXCEPT !.b = c, !.s = t, !.first = f]

LEMMA PutAll ==
  ASSUME NEW T, NEW c, NEW t, NEW f, TypedTables(T), c \in Seq(Block), t \in [Slices -> Slice], f \in Nat
  PROVE  Put(T, WithAll(T, c, t, f), c, t, f)
BY DEF Put, TypedTables, WithAll

LEMMA FreeTyped ==
  ASSUME NEW b \in Seq(Block)
  PROVE  Positive(Free(b)) /\ DOMAIN b = 1 .. Len(b) /\ \A j \in Free(b) : j \in 1 .. Len(b)
BY FreeIs DEF Positive

(* The blocks change numbers, room and links; what their slices know, the  *)
(* file, and the place of the locked ones stay.                            *)
Carried(T, U) ==
  /\ U.base = T.base /\ U.wp = T.wp /\ U.file = T.file /\ U.intact = T.intact
  /\ \A x \in Slices :
       /\ U.s[x].image = T.s[x].image
       /\ U.s[x].bk # 0 => U.b[U.s[x].bk].file = FileAdr(T, x)

Stays(X, T, U) ==
  \A x \in X : U.s[x].locked = T.s[x].locked
               /\ (T.s[x].locked => U.b[U.s[x].bk].adr = T.b[T.s[x].bk].adr)

LEMMA CarriedGood ==
  ASSUME NEW T, NEW U, Good(T), TypedTables(U), Memory(U.b, U.s, U.first), Carried(T, U)
  PROVE  Good(U)
<1>1. \A x : FileAdr(U, x) = FileAdr(T, x) BY DEF Carried, FileAdr
<1>2. Told(U)
  <2> SUFFICES ASSUME NEW i \in DOMAIN U.b, InUse(U.b[i])
               PROVE  U.b[i].file = FileAdr(U, U.b[i].slice)
    BY DEF Told
  <2> DEFINE x == U.b[i].slice
  <2>0. U.b \in Seq(Block) BY TypedIs
  <2>1. U.b[i] \in Block BY <2>0
  <2>2. x \in Slices BY <2>1, BlockIs DEF InUse
  <2>3. U.s[x].bk = i BY DEF Memory, Names
  <2>4. i # 0 BY <2>0
  <2> HIDE DEF x
  <2>5. U.b[i].file = FileAdr(T, x) BY <2>2, <2>3, <2>4 DEF Carried
  <2> QED BY <1>1, <2>5 DEF x
<1>3. Reserved(U.base, U.wp) BY DEF Good, Carried
<1>4. Written(U) = Written(T)
  <2>1. U.file = T.file BY DEF Carried
  <2> QED BY <1>1, <2>1 DEF Written
<1>5. ImagesWritten(U) BY <1>4 DEF Good, Carried, ImagesWritten
<1> QED BY <1>2, <1>3, <1>5 DEF Good

\* the loop of eject_block has come to block k
Behind(d, k, m) ==
  k \in d.free /\ k < d.i /\ (1 + m <= k \/ PrevIn(d.free, d.i, k))

LB == INSTANCE Loops WITH Turn <- BeforeTurn, Inv <- Behind

---------------------------------------------------------------------------
(* Contents.  What may be lost of them is what memcpy leaves of a block    *)
(* that moves over a smaller one, down or onto the block behind it.        *)

(* The slices that are saved have one length, and the others multiples of  *)
(* it: a block that moves over a free one never overlaps where it was.     *)
WholePieces(l) ==
  /\ Size8 = {}
  /\ \A v \in Variables : (\E k \in Nat : Length[v] = k * l) /\ (v \in Saved => Length[v] = l)

CopiesApart == \E l \in Nat \ {0} : WholePieces(l)

Times(l, n) == \E k \in Nat : n = k * l
EvenBy(b, l) == \A j \in 1 .. Len(b) : Times(l, b[j].adr)
Even(b) == \E l \in Nat \ {0} : WholePieces(l) /\ EvenBy(b, l)

(* A slice is sound when its last content is in its block, or in the file  *)
(* where a load looks, and in the file whenever its block may be given up  *)
(* without being written.                                                  *)
Marks(T, x)  == T.s[x].altered \/ T.s[x].was
OnDisk(T, x) == T.s[x].image /\ OnFile(T, x)
Sound(T, x)  == IF T.s[x].bk = 0 THEN OnDisk(T, x)
                ELSE T.b[T.s[x].bk].cur /\ (Marks(T, x) \/ OnDisk(T, x))

(* From T to U nothing sound is lost, but in the slices of X.              *)
Spares(T, U, X) ==
  /\ T.wp <= U.wp /\ \A x \in Slices : Marks(U, x) => Marks(T, x)
  /\ Even(T.b) => Even(U.b)
  /\ Even(T.b) /\ U.wp <= MaxFile + 1 =>
       \A x \in Slices \ X : Keep(x) /\ Sound(T, x) => Sound(U, x)

LEMMA SparesTrans ==
  ASSUME NEW T, NEW U, NEW V, NEW X, TypedTables(T), TypedTables(U), TypedTables(V),
         Spares(T, U, X), Spares(U, V, X)
  PROVE  Spares(T, V, X)
<1>1. T.wp \in Nat /\ U.wp \in Nat /\ V.wp \in Nat /\ MaxFile \in Nat BY TypedIs, VmmAssumption
<1>2. T.wp <= U.wp /\ U.wp <= V.wp BY DEF Spares
<1>3. T.wp <= V.wp /\ (V.wp <= MaxFile + 1 => U.wp <= MaxFile + 1) BY <1>1, <1>2
<1> QED BY <1>3 DEF Spares

LEMMA SparesSelf ==
  ASSUME NEW T, NEW X, TypedTables(T)
  PROVE  Spares(T, T, X)
<1>1. T.wp \in Nat BY TypedIs
<1>2. T.wp <= T.wp BY <1>1
<1> QED BY <1>2 DEF Spares

LEMMA SparesMore ==
  ASSUME NEW T, NEW U, NEW X, Spares(T, U, {})
  PROVE  Spares(T, U, X)
BY DEF Spares

LEMMA SparesAll ==
  ASSUME NEW T, NEW U, NEW y, Spares(T, U, {y}),
         Even(T.b) /\ U.wp <= MaxFile + 1 /\ Keep(y) /\ Sound(T, y) => Sound(U, y)
  PROVE  Spares(T, U, {})
BY DEF Spares

LEMMA OnDiskIs ==
  ASSUME NEW T, NEW U, NEW x, U.base = T.base, U.file = T.file, U.s[x].image = T.s[x].image
  PROVE  OnDisk(U, x) = OnDisk(T, x)
<1>1. FileAdr(U, x) = FileAdr(T, x) BY DEF FileAdr
<1> QED BY <1>1 DEF OnDisk, OnFile

(* The slices keep what is said of them; a block has the content it had,   *)
(* or the one of the file when its slice was not in memory.                *)
SliceKept(T, U, x) ==
  /\ U.s[x].image = T.s[x].image /\ U.s[x].altered = T.s[x].altered /\ U.s[x].was = T.s[x].was

ContentKept(T, U, x) ==
  IF T.s[x].bk = 0 THEN U.s[x].bk # 0 => (OnDisk(T, x) => U.b[U.s[x].bk].cur)
  ELSE U.s[x].bk # 0 /\ (T.b[T.s[x].bk].cur => U.b[U.s[x].bk].cur)

LEMMA MemorySpares ==
  ASSUME NEW T, NEW U, TypedTables(T), U.base = T.base, U.wp = T.wp, U.file = T.file,
         \A x \in Slices : SliceKept(T, U, x), Even(T.b) => Even(U.b),
         Even(T.b) => \A x \in Slices : Keep(x) => ContentKept(T, U, x)
  PROVE  Spares(T, U, {})
<1>1. T.wp \in Nat BY TypedIs
<1>2. T.wp <= U.wp BY <1>1
<1>3. \A x \in Slices : OnDisk(U, x) = OnDisk(T, x) /\ Marks(U, x) = Marks(T, x)
  BY OnDiskIs DEF SliceKept, Marks
<1>4. ASSUME Even(T.b), NEW x \in Slices, Keep(x), Sound(T, x) PROVE Sound(U, x)
  <2>1. ContentKept(T, U, x) BY <1>4
  <2> QED BY <1>3, <1>4, <2>1 DEF Sound, ContentKept
<1> QED BY <1>2, <1>3, <1>4 DEF Spares

LEMMA Multiples ==
  ASSUME NEW l, NEW p, NEW q, l \in Nat, p \in Nat, q \in Nat, p < q
  PROVE  l * p \in Nat /\ q * l \in Nat /\ l * q \in Nat /\ l * p + l <= q * l /\ l * p + l <= l * q
<1> DEFINE r == q - p - 1
<1>1. r \in Nat /\ q = p + 1 + r OBVIOUS
<1> HIDE DEF r
<1>2. l * r \in Nat /\ l * p \in Nat /\ l * q \in Nat BY <1>1
<1>3. l * q = l * p + l + l * r BY <1>1
<1>4. q * l = l * q OBVIOUS
<1> QED BY <1>2, <1>3, <1>4

LEMMA TimesSum ==
  ASSUME NEW l, NEW m, NEW n, l \in Nat, Times(l, m), Times(l, n)
  PROVE  Times(l, m + n)
<1>1. PICK p \in Nat : m = p * l BY DEF Times
<1>2. PICK q \in Nat : n = q * l BY DEF Times
<1>3. (p + q) * l = p * l + q * l /\ p + q \in Nat BY <1>1, <1>2
<1> QED BY <1>1, <1>2, <1>3 DEF Times

LEMMA TimesApart ==
  ASSUME NEW l, NEW m, NEW n, l \in Nat, Times(l, m), Times(l, n), m < n
  PROVE  m + l <= n
<1>1. PICK p \in Nat : m = p * l BY DEF Times
<1>2. PICK q \in Nat : n = q * l BY DEF Times
<1>3. p < q
  <2> SUFFICES ASSUME ~(p < q) PROVE FALSE OBVIOUS
  <2>1. CASE p = q BY <1>1, <1>2, <2>1
  <2>2. CASE q < p
    <3>1. l * q + l <= p * l /\ l * q \in Nat /\ p * l \in Nat BY <1>1, <1>2, <2>2, Multiples
    <3>2. l * q = q * l BY <1>2
    <3> QED BY <1>1, <1>2, <3>1, <3>2
  <2> QED BY <1>1, <1>2, <2>1, <2>2
<1>4. l * p + l <= q * l BY <1>1, <1>2, <1>3, Multiples
<1>5. l * p = p * l BY <1>1
<1> QED BY <1>1, <1>2, <1>4, <1>5

LEMMA LengthIs ==
  ASSUME NEW l, NEW x, WholePieces(l), x \in Slices
  PROVE  Times(l, Len8(x)) /\ (Keep(x) => Len8(x) = l)
<1>1. VarOf[x] \in Variables BY VmmAssumption
<1> QED BY <1>1 DEF WholePieces, Times, Len8, Keep

(* The blocks of c begin where blocks of b do, or behind a slice there.    *)
Grounds(b, c) ==
  \A j \in 1 .. Len(c) : \E k \in 1 .. Len(b) :
    c[j].adr = b[k].adr \/ \E x \in Slices : c[j].adr = b[k].adr + Len8(x)

LEMMA EvenStays ==
  ASSUME NEW b, NEW c, Grounds(b, c), Even(b)
  PROVE  Even(c)
<1>1. PICK l \in Nat \ {0} : WholePieces(l) /\ EvenBy(b, l) BY DEF Even
<1>2. ASSUME NEW j \in 1 .. Len(c) PROVE Times(l, c[j].adr)
  <2>1. PICK k \in 1 .. Len(b) : c[j].adr = b[k].adr \/ \E x \in Slices : c[j].adr = b[k].adr + Len8(x)
    BY DEF Grounds
  <2>2. Times(l, b[k].adr) BY <1>1 DEF EvenBy
  <2>3. ASSUME NEW x \in Slices, c[j].adr = b[k].adr + Len8(x) PROVE Times(l, c[j].adr)
    <3>1. Times(l, Len8(x)) BY <1>1, LengthIs
    <3> QED BY <1>1, <2>2, <2>3, <3>1, TimesSum
  <2> QED BY <2>1, <2>2, <2>3
<1> QED BY <1>1, <1>2 DEF Even, EvenBy

LEMMA TiledUp ==
  ASSUME NEW b, NEW i, NEW j, b \in Seq(Block), Tiled(b), i \in 1 .. Len(b), j \in i .. Len(b)
  PROVE  b[i].adr <= b[j].adr
<1> DEFINE n == Len(b)
           S == {k \in i .. n : ~(b[i].adr <= b[k].adr)}
<1>0. n \in Nat /\ DOMAIN b = 1 .. n OBVIOUS
<1>1. \A k \in 1 .. n : b[k].adr \in Nat /\ b[k].size \in Nat
  <2>1. \A k \in 1 .. n : b[k] \in Block OBVIOUS
  <2> QED BY <2>1, BlockIs
<1>2. S = {}
  <2> SUFFICES ASSUME S # {} PROVE FALSE OBVIOUS
  <2>0. S \in SUBSET Nat BY <1>0
  <2>1. PICK k \in S : \A l \in S : k <= l BY <2>0, LB!SmallestNumber
  <2>2. CASE k = i
    <3>1. b[i].adr \in Nat BY <1>1
    <3> QED BY <2>1, <2>2, <3>1
  <2>3. CASE k # i
    <3>0. k \in i .. n BY <2>1
    <3> DEFINE m == k - 1
    <3>1. m \in i .. n /\ m \in 1 .. n - 1 /\ m + 1 = k /\ m < k /\ m \in 1 .. n /\ k \in 1 .. n BY <1>0, <2>3, <3>0
    <3>2. m \notin S BY <2>1, <3>1
    <3>3. b[i].adr <= b[m].adr BY <3>1, <3>2
    <3>4. b[m].adr + b[m].size = b[k].adr BY <3>1 DEF Tiled
    <3> HIDE DEF m, S
    <3>5. b[m].adr \in Nat /\ b[m].size \in Nat /\ b[i].adr \in Nat /\ b[k].adr \in Nat BY <1>1, <3>1
    <3>6. b[i].adr <= b[k].adr
      <4> DEFINE p == b[i].adr
                 q == b[m].adr
                 r == b[m].size
                 t == b[k].adr
      <4>1. p <= q /\ q + r = t /\ p \in Nat /\ q \in Nat /\ r \in Nat /\ t \in Nat BY <3>3, <3>4, <3>5
      <4> HIDE DEF p, q, r, t
      <4>2. p <= t BY <4>1
      <4> QED BY <4>2 DEF p, t
    <3> QED BY <2>1, <3>6 DEF S
  <2> QED BY <2>2, <2>3
<1>3. j \in i .. n /\ j \notin S BY <1>2
<1> QED BY <1>3

(* Behind the free block i: what moves over it is not larger, and what is  *)
(* further on is out of reach.                                             *)
LEMMA EvenHole ==
  ASSUME NEW b, NEW s, NEW i, b \in Seq(Block), Names(b, s), Tiled(b), Even(b), i \in 1 .. Len(b) - 1,
         InUse(b[i + 1])
  PROVE  /\ Size8 = {} /\ (Keep(b[i + 1].slice) => b[i + 1].size <= b[i].size)
         /\ \A j \in i + 2 .. Len(b) : b[i].adr + b[i + 1].size <= b[j].adr
<1> DEFINE n == Len(b)
           x == b[i + 1].slice
           p == b[i].adr
           f == b[i].size
           q == b[i + 1].adr
           g == b[i + 1].size
<1>0. n \in Nat /\ DOMAIN b = 1 .. n /\ i \in 1 .. n /\ i + 1 \in 1 .. n /\ i \in Nat OBVIOUS
<1>1. PICK l \in Nat \ {0} : WholePieces(l) /\ EvenBy(b, l) BY DEF Even
<1>2. b[i] \in Block /\ b[i + 1] \in Block BY <1>0
<1>3. p \in Nat /\ f \in Nat \ {0} /\ q \in Nat /\ g \in Nat \ {0} /\ x \in Slices
  BY <1>2, BlockIs DEF InUse
<1>4. p + f = q BY DEF Tiled
<1>5. g = Len8(x) BY <1>0 DEF Names
<1>6. Times(l, p) /\ Times(l, q) BY <1>0, <1>1 DEF EvenBy
<1> HIDE DEF n, x, p, q, f, g
<1>7. p < q BY <1>3, <1>4
<1>8. p + l <= q BY <1>1, <1>6, <1>7, TimesApart
<1>9. Keep(x) => g <= f
  <2>1. Keep(x) => g = l BY <1>1, <1>3, <1>5, LengthIs
  <2>2. l <= f BY <1>1, <1>3, <1>4, <1>8
  <2> QED BY <1>1, <2>1, <2>2
<1>10. ASSUME NEW j \in i + 2 .. n PROVE p + g <= b[j].adr
  <2> DEFINE k == i + 2
             r == b[k].adr
             t == b[j].adr
  <2>1. k \in 1 .. n /\ j \in k .. n /\ i + 1 \in 1 .. n - 1 /\ i + 1 + 1 = k /\ j \in 1 .. n BY <1>0
  <2>2. b[i + 1].adr + b[i + 1].size = b[k].adr BY <2>1 DEF Tiled, n
  <2> HIDE DEF k
  <2>3. b[k].adr <= b[j].adr BY <2>1, TiledUp DEF n
  <2>4. r \in Nat /\ t \in Nat
    <3>1. b[k] \in Block /\ b[j] \in Block BY <2>1 DEF n
    <3> QED BY <3>1, BlockIs
  <2>5. q + g = r /\ r <= t BY <2>2, <2>3 DEF q, g
  <2> HIDE DEF r, t
  <2>6. p + g <= t BY <1>3, <1>7, <2>4, <2>5
  <2> QED BY <2>6 DEF t
<1> QED BY <1>1, <1>9, <1>10 DEF WholePieces, x, n, p, f, g

---------------------------------------------------------------------------
(* collapse_blocks, of the whole tables. *)

(* Blocks in use alone would fill the arena exactly: some block is free.   *)
LEMMA SomeFree ==
  ASSUME NEW b, NEW s, NeverExactlyFull, b \in Seq(Block), Names(b, s), Tiled(b)
  PROVE  \E j \in 1 .. Len(b) : ~InUse(b[j])
<1> SUFFICES ASSUME \A j \in 1 .. Len(b) : InUse(b[j]) PROVE FALSE OBVIOUS
<1> DEFINE n == Len(b)
           p == [i \in 1 .. n |-> b[i].slice]
           at == [i \in 1 .. n + 1 |-> IF i = n + 1 THEN MaxMem ELSE b[i].adr]
<1>0. n \in Nat /\ n >= 1 /\ DOMAIN b = 1 .. n BY DEF Tiled
<1>1. \A i \in 1 .. n : b[i] \in Block OBVIOUS
<1>2. \A i \in 1 .. n : b[i].slice \in Slices BY <1>1, BlockIs DEF InUse
<1>3. p \in [1 .. n -> Slices] BY <1>2
<1>4. MaxMem \in Nat BY VmmAssumption
<1>5. \A i \in 1 .. n : b[i].adr \in Nat /\ b[i].size \in Nat BY <1>1, BlockIs
<1>6. at \in [1 .. n + 1 -> Nat]
  <2>1. \A i \in 1 .. n + 1 : i # n + 1 => i \in 1 .. n BY <1>0
  <2> QED BY <1>4, <1>5, <2>1
<1>7. at[1] = 0 /\ at[n + 1] = MaxMem
  <2>1. 1 \in 1 .. n + 1 /\ n + 1 \in 1 .. n + 1 /\ 1 # n + 1 BY <1>0
  <2>2. at[1] = b[1].adr /\ at[n + 1] = MaxMem BY <2>1
  <2> QED BY <2>2 DEF Tiled
<1>8. \A i \in 1 .. n : at[i + 1] = at[i] + Len8(p[i])
  <2> TAKE i \in 1 .. n
  <2>1. b[i].size = Len8(b[i].slice) BY <1>0 DEF Names
  <2>2. p[i] = b[i].slice OBVIOUS
  <2>3. at[i] = b[i].adr
    <3>1. i \in 1 .. n + 1 /\ i # n + 1 BY <1>0
    <3> QED BY <3>1
  <2>4. at[i + 1] = b[i].adr + b[i].size
    <3>1. CASE i = n
      <4>1. at[i + 1] = MaxMem BY <1>7, <3>1
      <4>2. b[n].adr + b[n].size = MaxMem BY DEF Tiled
      <4> QED BY <3>1, <4>1, <4>2
    <3>2. CASE i # n
      <4>1. i \in 1 .. n - 1 /\ i + 1 \in 1 .. n + 1 /\ i + 1 # n + 1
        <5> HIDE DEF n, p, at
        <5> QED BY <1>0, <3>2
      <4>2. at[i + 1] = b[i + 1].adr BY <4>1
      <4>3. b[i].adr + b[i].size = b[i + 1].adr BY <4>1 DEF Tiled
      <4> QED BY <4>2, <4>3
    <3> QED BY <3>1, <3>2
  <2> HIDE DEF at, p
  <2> QED BY <2>1, <2>2, <2>3, <2>4
<1> HIDE DEF at
<1>9. PICK i, j \in 1 .. n : i # j /\ p[i] = p[j]
  <2> HIDE DEF p, n
  <2> QED BY <1>0, <1>3, <1>6, <1>7, <1>8 DEF NeverExactlyFull
<1>10. s[b[i].slice].bk = i /\ s[b[j].slice].bk = j BY <1>0 DEF Names
<1> QED BY <1>9, <1>10

\* U is T with the free blocks i and i + 1 in one
CollapseLeaves(T, U, i) ==
  /\ Good(U) /\ Carried(T, U) /\ Stays(Slices, T, U) /\ Spares(T, U, {}) /\ Len(U.b) = Len(T.b) - 1
  /\ \A j \in 1 .. i - 1 : U.b[j] = T.b[j]
  /\ Same(T.b[i], U.b[i]) /\ U.b[i].size = T.b[i].size + T.b[i + 1].size
  /\ \A j \in i + 1 .. Len(T.b) - 1 : Same(T.b[j + 1], U.b[j]) /\ U.b[j].size = T.b[j + 1].size

LEMMA CollapseGood ==
  ASSUME NEW T, NEW i, Good(T), i \in 1 .. Len(T.b) - 1, ~InUse(T.b[i]), ~InUse(T.b[i + 1])
  PROVE  CollapseLeaves(T, CollapseBlocks(T, i), i)
<1> DEFINE U == CollapseBlocks(T, i)
           b == T.b
           s == T.s
           c == CollapsedBlocks(b, i)
           t == CollapsedSlices(s, i)
           n == Len(b)
<1>1. TypedTables(T) /\ Memory(b, s, T.first) /\ Told(T) BY DEF Good
<1>2. b \in Seq(Block) /\ s \in [Slices -> Slice] /\ T.first \in Nat BY <1>1, TypedIs
<1>3. U = WithSlices(T, c, t)
  BY DEF WithSlices, CollapseBlocks, CollapsedBlocks, CollapsedSlices
<1> HIDE DEF U, b, s, c, t
<1>40. i \in 1 .. Len(b) - 1 /\ ~InUse(b[i]) /\ ~InUse(b[i + 1]) BY DEF b
<1>41. Collapsed(b, s, c, t, i) /\ Memory(c, t, T.first)
  <2> HIDE DEF n
  <2>1. b \in Seq(Block) /\ s \in [Slices -> Slice] /\ Memory(b, s, T.first) BY <1>1, <1>2 DEF b, s
  <2> QED BY <1>2, <1>40, <2>1, CollapseMemory DEF c, t
<1>4. /\ c \in Seq(Block) /\ t \in [Slices -> Slice] /\ Len(c) = n - 1 /\ Memory(c, t, T.first)
      /\ \A j \in 1 .. i - 1 : c[j] = b[j]
      /\ Same(b[i], c[i]) /\ c[i].adr = b[i].adr /\ c[i].size = b[i].size + b[i + 1].size
      /\ \A j \in i + 1 .. Len(c) :
           Same(b[j + 1], c[j]) /\ c[j].adr = b[j + 1].adr /\ c[j].size = b[j + 1].size
      /\ \A x \in Slices : /\ SameFlags(t[x], s[x]) /\ t[x].image = s[x].image
                           /\ t[x].bk = IF s[x].bk > i THEN s[x].bk - 1 ELSE s[x].bk
  BY <1>41 DEF Collapsed
<1>5. Put(T, U, c, t, T.first) BY <1>1, <1>3, <1>4, PutSlices
<1>6. U.b = c /\ U.s = t /\ TypedTables(U) /\ Memory(U.b, U.s, U.first) BY <1>4, <1>5 DEF Put
<1>7. n \in Nat /\ i \in Nat /\ i + 1 <= n /\ DOMAIN b = 1 .. n BY <1>2 DEF b
<1>8. ASSUME NEW x \in Slices, s[x].bk # 0
      PROVE  /\ s[x].bk \in 1 .. n /\ b[s[x].bk].slice = x
             /\ c[t[x].bk].adr = b[s[x].bk].adr /\ c[t[x].bk].file = b[s[x].bk].file
             /\ c[t[x].bk].cur = b[s[x].bk].cur /\ t[x].bk # 0
  <2> DEFINE k == s[x].bk
  <2>1. k \in 1 .. n /\ b[k].slice = x BY <1>1, <1>7, <1>8 DEF Memory, Names
  <2>2. k # i /\ k # i + 1
    <3>1. x # NoSlice BY VmmAssumption
    <3> QED BY <2>1, <3>1 DEF InUse, b
  <2>3. t[x].bk = IF k > i THEN k - 1 ELSE k BY <1>4
  <2> HIDE DEF k
  <2>4. CASE k < i
    <3>1. k \in 1 .. i - 1 /\ t[x].bk = k /\ k # 0 BY <1>7, <2>1, <2>3, <2>4
    <3>2. c[k] = b[k] BY <1>4, <3>1
    <3> QED BY <2>1, <3>1, <3>2 DEF k
  <2>5. CASE k > i
    <3>1. k - 1 \in i + 1 .. n - 1 /\ t[x].bk = k - 1 /\ k - 1 + 1 = k /\ k - 1 # 0 BY <1>7, <2>1, <2>2, <2>3, <2>5
    <3>2. Same(b[k], c[k - 1]) /\ c[k - 1].adr = b[k].adr BY <1>4, <3>1
    <3> QED BY <2>1, <3>1, <3>2 DEF Same, Like, k
  <2> QED BY <1>7, <2>1, <2>2, <2>4, <2>5
<1>9. Carried(T, U)
  <2>1. ASSUME NEW x \in Slices, t[x].bk # 0 PROVE c[t[x].bk].file = FileAdr(T, x)
    <3>1. s[x].bk \in Nat BY <1>2, SliceIs
    <3>2. s[x].bk # 0 BY <1>4, <1>7, <2>1
    <3>3. s[x].bk \in DOMAIN T.b /\ T.b[s[x].bk].slice = x /\ InUse(T.b[s[x].bk])
      <4>1. x # NoSlice BY VmmAssumption
      <4> QED BY <1>7, <1>8, <3>2, <4>1 DEF b, InUse
    <3> QED BY <1>1, <1>8, <3>2, <3>3 DEF Told, b
  <2> QED BY <1>4, <1>5, <1>6, <2>1 DEF Carried, Put, s
<1>10. Stays(Slices, T, U)
  <2> SUFFICES ASSUME NEW x \in Slices
               PROVE t[x].locked = s[x].locked /\ (s[x].locked => c[t[x].bk].adr = b[s[x].bk].adr)
    BY <1>6 DEF Stays, s, b
  <2>1. s[x].locked => s[x].bk # 0 BY <1>1 DEF Memory, Names
  <2> QED BY <1>4, <1>8, <2>1 DEF SameFlags
<1>11. Good(U) BY <1>6, <1>9, CarriedGood
<1>13. Spares(T, U, {})
  <2>1. U.base = T.base /\ U.wp = T.wp /\ U.file = T.file BY <1>5 DEF Put
  <2>2. \A x \in Slices : SliceKept(T, U, x) BY <1>4, <1>6 DEF SliceKept, SameFlags, s
  <2>3. Grounds(b, c)
    <3>1. ASSUME NEW j \in 1 .. Len(c) PROVE \E k \in 1 .. Len(b) : c[j].adr = b[k].adr
      <4>0. i \in 1 .. n /\ Len(c) = n - 1 BY <1>4, <1>7
      <4> HIDE DEF n
      <4>1. CASE j < i
        <5>1. j \in 1 .. i - 1 /\ j \in 1 .. n BY <1>7, <4>0, <4>1
        <5> QED BY <1>4, <5>1 DEF n
      <4>2. CASE j = i BY <1>4, <4>0, <4>2 DEF n
      <4>3. CASE j > i
        <5>1. j \in i + 1 .. Len(c) /\ j + 1 \in 1 .. n BY <1>7, <4>0, <4>3
        <5> QED BY <1>4, <5>1 DEF n
      <4> QED BY <1>7, <4>1, <4>2, <4>3
    <3> QED BY <3>1 DEF Grounds
  <2>4. Even(T.b) => Even(U.b) BY <1>6, <2>3, EvenStays DEF b
  <2>5. \A x \in Slices : ContentKept(T, U, x)
    <3>1. ASSUME NEW x \in Slices, s[x].bk = 0 PROVE t[x].bk = 0 BY <1>4, <1>7, <3>1
    <3> QED BY <1>6, <1>8, <3>1 DEF ContentKept, s, b
  <2> QED BY <1>1, <2>1, <2>2, <2>4, <2>5, MemorySpares
<1>12. /\ Good(U) /\ Carried(T, U) /\ Stays(Slices, T, U) /\ Spares(T, U, {}) /\ Len(U.b) = Len(T.b) - 1
       /\ \A j \in 1 .. i - 1 : U.b[j] = T.b[j]
       /\ Same(T.b[i], U.b[i]) /\ U.b[i].size = T.b[i].size + T.b[i + 1].size
       /\ \A j \in i + 1 .. Len(T.b) - 1 : Same(T.b[j + 1], U.b[j]) /\ U.b[j].size = T.b[j + 1].size
  BY <1>4, <1>6, <1>7, <1>9, <1>10, <1>11, <1>13 DEF b
<1> QED BY <1>12 DEF CollapseLeaves, U

---------------------------------------------------------------------------
(* swap_blocks: a block moves down over the free block before it. *)

LEMMA FreeBlockIs ==
  ASSUME NEW adr, NEW size, NEW p, NEW n, adr \in Nat, size \in Nat \ {0}, p \in Nat,
         n \in Nat
  PROVE  LET c == FreeBlock(adr, size, p, n)
         IN  /\ c \in Block /\ ~InUse(c) /\ ~c.locked /\ ~c.keep /\ c.adr = adr /\ c.size = size
             /\ c.prev = p /\ c.next = n /\ ~c.altered /\ ~c.was /\ c.slice = NoSlice
BY DEF FreeBlock, Block, InUse, NoAdr

(* Block i has moved down over the one before it; the others are where     *)
(* they were, and know where the free block went.                          *)
Swapped(b, c, i) ==
  /\ c \in Seq(Block) /\ Len(c) = Len(b)
  /\ Like(b[i + 1], c[i]) /\ c[i].adr = b[i].adr /\ c[i].size = b[i + 1].size
  /\ c[i].prev = 0 /\ c[i].next = 0
  /\ ~InUse(c[i + 1]) /\ ~c[i + 1].locked /\ ~c[i + 1].keep
  /\ c[i + 1].adr = b[i].adr + b[i + 1].size /\ c[i + 1].size = b[i].size
  /\ c[i + 1].prev = b[i].prev /\ c[i + 1].next = b[i].next
  /\ \A j \in (1 .. Len(b)) \ {i, i + 1} :
       /\ Like(b[j], c[j]) /\ c[j].adr = b[j].adr /\ c[j].size = b[j].size
       /\ c[j].prev = Instead(j, b[i].next, i + 1, b[j].prev)
       /\ c[j].next = Instead(j, b[i].prev, i + 1, b[j].next)

\* what a move leaves of the contents
Unhurt(b, c, i) ==
  /\ Keep(b[i + 1].slice) => c[i].cur = b[i + 1].cur
  /\ \A j \in (1 .. Len(b)) \ {i, i + 1} : c[j].cur = b[j].cur

LEMMA SwapBlocksIs ==
  ASSUME NEW T, NEW i, Good(T), i \in 1 .. Len(T.b) - 1, ~InUse(T.b[i]), InUse(T.b[i + 1])
  PROVE  LET U == SwapBlocks(T, i)
             x == T.b[i + 1].slice
         IN  /\ Swapped(T.b, U.b, i) /\ (Even(T.b) => Unhurt(T.b, U.b, i))
             /\ Put(T, U, U.b, [T.s EXCEPT ![x] = Renumbered(@, i)], IF T.first = i THEN i + 1 ELSE T.first)
<1> DEFINE b == T.b
           f == b[i]
           n == b[i + 1]
           x == n.slice
           copied == n.size * (IF VarOf[x] \in Size8 THEN 2 ELSE 1)
           cur == n.cur /\ (copied > f.size => T.intact)
           moved == [n EXCEPT !.adr = f.adr, !.prev = 0, !.next = 0, !.cur = cur]
           hole == FreeBlock(f.adr + n.size, f.size, f.prev, f.next)
           Hit(j) == j > i + 1 /\ b[j].adr < f.adr + copied
           Other(j) == [b[j] EXCEPT !.prev = IF j = f.next THEN i + 1 ELSE @,
                                    !.next = IF j = f.prev THEN i + 1 ELSE @, !.cur = @ /\ ~Hit(j)]
           c == [j \in DOMAIN b |-> IF j = i THEN moved ELSE IF j = i + 1 THEN hole ELSE Other(j)]
           t == [T.s EXCEPT ![x] = Renumbered(@, i)]
           first == IF T.first = i THEN i + 1 ELSE T.first
           U == SwapBlocks(T, i)
<1>1. TypedTables(T) /\ Memory(b, T.s, T.first) BY DEF Good
<1>2. b \in Seq(Block) /\ T.s \in [Slices -> Slice] /\ T.first \in Nat BY <1>1, TypedIs
<1>3. /\ DOMAIN b = 1 .. Len(b) /\ Len(b) \in Nat /\ i \in 1 .. Len(b) /\ i + 1 \in 1 .. Len(b)
      /\ i \in Nat /\ i # i + 1
  BY <1>2
<1>4. f \in Block /\ n \in Block /\ \A j \in 1 .. Len(b) : b[j] \in Block BY <1>2, <1>3
<1>5. U = WithAll(T, c, t, first)
  BY DEF WithAll, SwapBlocks, Renumbered
<1>6. cur \in BOOLEAN
  <2>1. n.cur \in BOOLEAN /\ T.intact \in BOOLEAN BY <1>1, <1>4, BlockIs, TypedIs
  <2> HIDE DEF n, copied
  <2> QED BY <2>1
<1> HIDE DEF cur, copied, Other, hole, moved
<1>7. c[i] = moved /\ c[i + 1] = hole /\ DOMAIN c = 1 .. Len(b) BY <1>3
<1>8. /\ moved \in Block /\ Like(n, moved) /\ moved.adr = f.adr /\ moved.size = n.size
      /\ moved.prev = 0 /\ moved.next = 0 /\ moved.cur = cur
  <2>1. f.adr \in Nat BY <1>4, BlockIs
  <2> HIDE DEF f, n
  <2> QED BY <1>4, <1>6, <2>1 DEF Block, Like, SameFlags, moved
<1>9. /\ hole \in Block /\ ~InUse(hole) /\ ~hole.locked /\ ~hole.keep /\ hole.adr = f.adr + n.size
      /\ hole.size = f.size /\ hole.prev = f.prev /\ hole.next = f.next
  <2> DEFINE adr == f.adr + n.size
             size == f.size
             p == f.prev
             q == f.next
  <2>1. f.adr \in Nat /\ n.size \in Nat /\ size \in Nat \ {0} /\ p \in Nat /\ q \in Nat BY <1>4, BlockIs
  <2>2. adr \in Nat
    <3> HIDE DEF f, n
    <3> QED BY <2>1
  <2> HIDE DEF adr, size, p, q
  <2>3. hole = FreeBlock(adr, size, p, q) BY DEF adr, size, p, q, hole
  <2> HIDE DEF hole, f, n
  <2>4. /\ hole \in Block /\ ~InUse(hole) /\ ~hole.locked /\ ~hole.keep /\ hole.adr = adr
        /\ hole.size = size /\ hole.prev = p /\ hole.next = q
    BY <2>1, <2>2, <2>3, FreeBlockIs
  <2> QED BY <2>4 DEF adr, size, p, q
<1>12. ASSUME NEW j \in (1 .. Len(b)) \ {i, i + 1}
       PROVE  /\ c[j] \in Block /\ Like(b[j], c[j]) /\ c[j].adr = b[j].adr /\ c[j].size = b[j].size
              /\ c[j].prev = Instead(j, f.next, i + 1, b[j].prev)
              /\ c[j].next = Instead(j, f.prev, i + 1, b[j].next)
              /\ c[j].cur = (b[j].cur /\ ~Hit(j)) /\ b[j].cur \in BOOLEAN
  <2>0. b[j] \in Block /\ j # 0 /\ i + 1 \in Nat BY <1>3, <1>4
  <2> DEFINE p == Instead(j, f.next, i + 1, b[j].prev)
             q == Instead(j, f.prev, i + 1, b[j].next)
             cu == b[j].cur /\ ~Hit(j)
  <2>1. c[j] = [b[j] EXCEPT !.prev = p, !.next = q, !.cur = cu]
    <3>1. c[j] = Other(j) BY <1>3
    <3> HIDE DEF c
    <3> QED BY <3>1 DEF Instead, Other
  <2>2. b[j].prev \in Nat /\ b[j].next \in Nat /\ b[j].cur \in BOOLEAN BY <2>0, BlockIs
  <2>3. p \in Nat /\ q \in Nat BY <2>0, <2>2 DEF Instead
  <2>4. cu \in BOOLEAN BY <2>2
  <2> HIDE DEF p, q, cu, c
  <2>5. c[j] \in Block /\ Like(b[j], c[j]) /\ c[j].adr = b[j].adr /\ c[j].size = b[j].size /\ c[j].prev = p /\ c[j].next = q
        /\ c[j].cur = cu
    BY <2>0, <2>1, <2>3, <2>4 DEF Block, Like, SameFlags
  <2> QED BY <2>2, <2>5 DEF p, q, cu
<1>13. c \in Seq(Block) /\ Len(c) = Len(b)
  <2>1. \A j \in 1 .. Len(b) : c[j] \in Block BY <1>7, <1>8, <1>9, <1>12
  <2>2. c = [j \in 1 .. Len(b) |-> c[j]] BY <1>3
  <2> HIDE DEF c, b
  <2>3. c \in [1 .. Len(b) -> Block] BY <2>1, <2>2
  <2> QED BY <1>3, <1>7, <2>3
<1>14. Swapped(b, c, i)
  <2> HIDE DEF c
  <2> QED BY <1>7, <1>8, <1>9, <1>12, <1>13 DEF Swapped
<1>15. t \in [Slices -> Slice]
  <2>1. x \in Slices BY <1>4, BlockIs DEF InUse
  <2> DEFINE y == Renumbered(T.s[x], i)
  <2>2. T.s[x] \in Slice BY <1>2, <2>1
  <2>3. y \in Slice
    <3> HIDE DEF x
    <3> QED BY <1>3, <2>2, RenumberedIs
  <2> HIDE DEF x, y
  <2>4. t = [T.s EXCEPT ![x] = y] BY DEF y
  <2> QED BY <1>2, <2>1, <2>3, <2>4
<1>16. first \in Nat BY <1>2, <1>3
<1>19. ASSUME Even(b) PROVE Unhurt(b, c, i)
  <2> DEFINE w == n.size
             g == f.size
             q == f.adr
  <2>0. Names(b, T.s) /\ Tiled(b) BY <1>1 DEF Memory
  <2>1. /\ Size8 = {} /\ (Keep(x) => w <= g) /\ \A j \in i + 2 .. Len(b) : q + w <= b[j].adr
    <3> HIDE DEF b, c
    <3> QED BY <1>2, <1>19, <2>0, EvenHole DEF b
  <2>2. w \in Nat /\ g \in Nat /\ q \in Nat /\ n.cur \in BOOLEAN BY <1>4, BlockIs
  <2>3. copied = w * 1 BY <2>1 DEF copied
  <2> HIDE DEF w, g, q
  <2>4. copied = w BY <2>2, <2>3
  <2>5. Keep(x) => cur = n.cur
    <3>1. Keep(x) => ~(copied > g) BY <2>1, <2>2, <2>4
    <3>2. cur = (n.cur /\ (copied > g => T.intact)) BY DEF cur, g
    <3> HIDE DEF n, x
    <3> QED BY <2>2, <3>1, <3>2
  <2>6. ASSUME NEW j \in (1 .. Len(b)) \ {i, i + 1} PROVE c[j].cur = b[j].cur
    <3>1. ASSUME j > i + 1 PROVE ~(b[j].adr < q + copied)
      <4> DEFINE a == b[j].adr
      <4>1. j \in i + 2 .. Len(b) BY <1>3, <3>1
      <4>2. a \in Nat BY <1>4, BlockIs
      <4>3. q + w <= a BY <2>1, <4>1
      <4> HIDE DEF a
      <4>4. ~(a < q + copied) BY <2>2, <2>4, <4>2, <4>3
      <4> QED BY <4>4 DEF a
    <3>2. ~Hit(j) BY <3>1 DEF q
    <3> HIDE DEF c, Hit
    <3> QED BY <1>12, <3>2
  <2> HIDE DEF c
  <2> QED BY <1>7, <1>8, <2>5, <2>6 DEF Unhurt
<1> HIDE DEF c, t, first
<1>17. Put(T, U, c, t, first) BY <1>1, <1>5, <1>13, <1>15, <1>16, PutAll
<1>18. U.b = c BY <1>17 DEF Put
<1> QED BY <1>14, <1>17, <1>18, <1>19 DEF t, first

Renamed(b, s, i) == [s EXCEPT ![b[i + 1].slice] = Renumbered(@, i)]

\* what became of the slices
Moved(b, c, s, t, i) ==
  /\ \A x \in Slices : /\ SameFlags(t[x], s[x]) /\ t[x].image = s[x].image
                       /\ t[x].bk = IF x = b[i + 1].slice THEN i ELSE s[x].bk
  /\ \A x \in Slices : s[x].bk # 0 =>
       /\ s[x].bk \in 1 .. Len(b) /\ b[s[x].bk].slice = x
       /\ c[t[x].bk].file = b[s[x].bk].file
       /\ x # b[i + 1].slice => c[t[x].bk].adr = b[s[x].bk].adr

LEMMA SwapMemory ==
  ASSUME NEW b, NEW c, NEW s, NEW t, NEW first, NEW new, NEW i,
         b \in Seq(Block), s \in [Slices -> Slice], first \in Nat, i \in 1 .. Len(b) - 1,
         ~InUse(b[i]), InUse(b[i + 1]), Memory(b, s, first), Swapped(b, c, i),
         t = Renamed(b, s, i), new = Step(i, first)
  PROVE  Memory(c, t, new) /\ Moved(b, c, s, t, i)
<1> DEFINE y == b[i + 1].slice
           n == Len(b)
<1>0. n \in Nat /\ i \in Nat /\ i \in 1 .. n /\ i + 1 \in 1 .. n /\ i # 0 /\ i # i + 1 OBVIOUS
<1>1. Names(b, s) /\ Tiled(b) /\ Listed(b, first) BY DEF Memory
<1>2. DOMAIN b = 1 .. n /\ DOMAIN c = 1 .. n /\ Len(c) = n /\ c \in Seq(Block)
  <2>1. c \in Seq(Block) /\ Len(c) = n BY DEF Swapped
  <2> QED BY <2>1
<1>3. \A j \in 1 .. n : b[j] \in Block /\ c[j] \in Block BY <1>2
<1>4. y \in Slices /\ s[y].bk = i + 1
  <2>1. y \in Slices BY <1>0, <1>3, BlockIs DEF InUse
  <2> QED BY <1>0, <1>1, <1>2, <2>1 DEF Names
<1> HIDE DEF y, n
<1>5. ASSUME NEW x \in Slices
      PROVE  /\ SameFlags(t[x], s[x]) /\ t[x].image = s[x].image
             /\ t[x].bk = IF x = y THEN i ELSE s[x].bk
  <2>1. CASE x = y
    <3> DEFINE z == Renumbered(s[y], i)
    <3>1. z.bk = i /\ SameFlags(z, s[y]) /\ z.image = s[y].image BY <1>0, <1>4, RenumberedIs
    <3>2. t[y] = z BY <1>4 DEF y, Renamed
    <3> HIDE DEF z
    <3> QED BY <2>1, <3>1, <3>2
  <2>2. CASE x # y
    <3>1. t[x] = s[x] BY <2>2 DEF y, Renamed
    <3> QED BY <2>2, <3>1 DEF SameFlags
  <2> QED BY <2>1, <2>2
<1>6. ASSUME NEW x \in Slices, s[x].bk # 0, x # y
      PROVE  s[x].bk \in (1 .. n) \ {i, i + 1} /\ b[s[x].bk].slice = x
  <2>1. s[x].bk \in 1 .. n /\ b[s[x].bk].slice = x BY <1>1, <1>2, <1>6 DEF Names
  <2>2. x # NoSlice BY VmmAssumption
  <2> QED BY <1>6, <2>1, <2>2 DEF InUse, y
<1>7. \A j \in (1 .. n) \ {i, i + 1} :
        /\ Like(b[j], c[j]) /\ c[j].adr = b[j].adr /\ c[j].size = b[j].size
        /\ c[j].prev = Instead(j, b[i].next, i + 1, b[j].prev)
        /\ c[j].next = Instead(j, b[i].prev, i + 1, b[j].next)
  BY DEF Swapped, n
<1>8. /\ Like(b[i + 1], c[i]) /\ c[i].adr = b[i].adr /\ c[i].size = b[i + 1].size
      /\ c[i].prev = 0 /\ c[i].next = 0
      /\ ~InUse(c[i + 1]) /\ ~c[i + 1].locked /\ ~c[i + 1].keep
      /\ c[i + 1].adr = b[i].adr + b[i + 1].size /\ c[i + 1].size = b[i].size
      /\ c[i + 1].prev = b[i].prev /\ c[i + 1].next = b[i].next
  BY DEF Swapped
<1>9. \A j : j \in Free(c) <=> j \in Stepped(Free(b), i)
  <2> SUFFICES ASSUME NEW j PROVE j \in Free(c) <=> (j \in Free(b) /\ j # i) \/ j = i + 1
    BY DEF Stepped
  <2>1. CASE j \in (1 .. n) \ {i, i + 1} BY <1>2, <1>7, <2>1, FreeIs DEF Like
  <2>2. CASE j = i BY <1>0, <1>2, <1>8, <2>2, FreeIs DEF Like, InUse
  <2>3. CASE j = i + 1 BY <1>0, <1>2, <1>8, <2>3, FreeIs DEF InUse
  <2>4. CASE j \notin 1 .. n BY <1>0, <1>2, <2>4, FreeIs
  <2> QED BY <2>1, <2>2, <2>3, <2>4
<1>10. Positive(Free(b)) /\ i \in Free(b) /\ i + 1 \notin Free(b) /\ Free(c) = Stepped(Free(b), i)
  <2>1. Positive(Free(b)) BY FreeTyped
  <2>2. i \in Free(b) /\ i + 1 \notin Free(b) BY <1>0, <1>2, FreeIs DEF InUse
  <2> QED BY <1>9, <2>1, <2>2
<1>11. \A j \in Free(b) : /\ j \in 1 .. n /\ b[j].next \in Nat /\ b[j].prev \in Nat
                          /\ NextIn(Free(b), j, b[j].next) /\ PrevIn(Free(b), j, b[j].prev)
  <2>1. \A j \in Free(b) : j \in 1 .. n BY FreeTyped DEF n
  <2> QED BY <1>1, <1>3, <2>1, BlockIs DEF Listed, Linked
<1>12. Names(c, t)
  <2>1. ASSUME NEW j \in 1 .. n, InUse(c[j])
        PROVE  /\ t[c[j].slice].bk = j /\ SameFlags(c[j], t[c[j].slice])
               /\ c[j].size = Len8(c[j].slice) /\ c[j].prev = 0 /\ c[j].next = 0
    <3>1. CASE j = i
      <4>1. c[j].slice = y BY <1>8, <3>1 DEF Like, y
      <4>2. SameFlags(b[i + 1], s[y]) /\ b[i + 1].size = Len8(y) BY <1>0, <1>1, <1>2 DEF Names, y
      <4> QED BY <1>4, <1>5, <1>8, <3>1, <4>1, <4>2 DEF Like, SameFlags
    <3>2. CASE j = i + 1 BY <1>8, <2>1, <3>2
    <3>3. CASE j \in (1 .. n) \ {i, i + 1}
      <4> DEFINE x == c[j].slice
      <4>1. x = b[j].slice /\ InUse(b[j]) BY <1>7, <2>1, <3>3 DEF Like, InUse
      <4>2. x \in Slices BY <1>3, <2>1, BlockIs DEF InUse
      <4> HIDE DEF x
      <4>3. s[x].bk = j /\ SameFlags(b[j], s[x]) /\ b[j].size = Len8(x) /\ b[j].prev = 0 /\ b[j].next = 0
        BY <1>1, <1>2, <4>1 DEF Names
      <4>4. x # y BY <1>4, <3>3, <4>3
      <4>5. t[x].bk = j BY <1>5, <4>2, <4>3, <4>4
      <4>6. c[j].prev = 0 /\ c[j].next = 0
        <5>1. j # b[i].next /\ j # b[i].prev
          <6>1. j \notin Free(b) /\ j # 0 BY <1>2, <3>3, <4>1, FreeIs DEF InUse
          <6> QED BY <1>10, <1>11, <6>1 DEF NextIn, PrevIn
        <5> QED BY <1>7, <3>3, <4>3, <5>1 DEF Instead
      <4>7. SameFlags(c[j], b[j]) /\ c[j].size = b[j].size BY <1>7, <3>3 DEF Like
      <4>8. SameFlags(t[x], s[x]) BY <1>5, <4>2
      <4> QED BY <4>3, <4>5, <4>6, <4>7, <4>8 DEF SameFlags, x
    <3> QED BY <3>1, <3>2, <3>3
  <2>2. ASSUME NEW j \in 1 .. n, ~InUse(c[j]) PROVE ~c[j].locked /\ ~c[j].keep
    <3>1. CASE j = i BY <1>8, <2>2, <3>1 DEF Like, InUse
    <3>2. CASE j = i + 1 BY <1>8, <3>2
    <3>3. CASE j \in (1 .. n) \ {i, i + 1} BY <1>1, <1>2, <1>7, <2>2, <3>3 DEF Like, SameFlags, InUse, Names
    <3> QED BY <3>1, <3>2, <3>3
  <2>3. ASSUME NEW x \in Slices
        PROVE  IF t[x].bk = 0 THEN ~t[x].locked ELSE t[x].bk \in 1 .. n /\ c[t[x].bk].slice = x
    <3>1. CASE x = y BY <1>0, <1>5, <1>8, <3>1 DEF Like, y
    <3>2. CASE x # y /\ s[x].bk = 0 BY <1>1, <1>5, <3>2 DEF Names, SameFlags
    <3>3. CASE x # y /\ s[x].bk # 0 BY <1>5, <1>6, <1>7, <3>3 DEF Like
    <3> QED BY <3>1, <3>2, <3>3
  <2> QED BY <1>2, <2>1, <2>2, <2>3 DEF Names
<1>13. Tiled(c)
  <2>0. \A j \in 1 .. n : b[j].adr \in Nat /\ b[j].size \in Nat BY <1>3, BlockIs
  <2>1. \A j \in 1 .. n - 1 : b[j].adr + b[j].size = b[j + 1].adr BY <1>1 DEF Tiled, n
  <2>2. b[1].adr = 0 /\ b[n].adr + b[n].size = MaxMem /\ n >= 1 BY <1>1 DEF Tiled, n
  <2>3. b[i].adr + b[i].size = b[i + 1].adr BY <2>1, <1>0
  <2>4. ASSUME NEW j \in 1 .. n - 1 PROVE c[j].adr + c[j].size = c[j + 1].adr
    <3>0. j \in 1 .. n /\ j + 1 \in 1 .. n BY <1>0
    <3>1. CASE j = i BY <1>8, <3>1
    <3>2. CASE j = i + 1
      <4>1. j + 1 \in (1 .. n) \ {i, i + 1} BY <1>0, <3>0, <3>2
      <4>2. c[j + 1].adr = b[j + 1].adr BY <1>7, <4>1
      <4>3. b[j].adr + b[j].size = b[j + 1].adr BY <2>1
      <4>4. b[i].adr \in Nat /\ b[i].size \in Nat /\ b[i + 1].size \in Nat BY <1>0, <2>0
      <4>5. c[j].adr = b[i].adr + b[i + 1].size /\ c[j].size = b[i].size BY <1>8, <3>2
      <4>6. b[j].adr = b[i].adr + b[i].size /\ b[j].size = b[i + 1].size BY <2>3, <3>2
      <4> QED BY <4>2, <4>3, <4>4, <4>5, <4>6
    <3>3. CASE j + 1 = i
      <4>1. j \in (1 .. n) \ {i, i + 1} BY <1>0, <3>0, <3>3
      <4>2. c[j].adr = b[j].adr /\ c[j].size = b[j].size BY <1>7, <4>1
      <4> QED BY <1>8, <2>1, <3>3, <4>2
    <3>4. CASE j # i /\ j # i + 1 /\ j + 1 # i
      <4>1. j \in (1 .. n) \ {i, i + 1} /\ j + 1 \in (1 .. n) \ {i, i + 1} BY <1>0, <3>0, <3>4
      <4>2. c[j].adr = b[j].adr /\ c[j].size = b[j].size /\ c[j + 1].adr = b[j + 1].adr BY <1>7, <4>1
      <4> QED BY <2>1, <4>2
    <3> QED BY <3>1, <3>2, <3>3, <3>4
  <2>5. c[1].adr = 0
    <3>1. CASE i = 1 BY <1>8, <2>2, <3>1
    <3>2. CASE i # 1
      <4>1. 1 \in (1 .. n) \ {i, i + 1} BY <1>0, <3>2
      <4> QED BY <1>7, <2>2, <4>1
    <3> QED BY <3>1, <3>2
  <2>6. c[n].adr + c[n].size = MaxMem
    <3>1. CASE n = i + 1
      <4>1. b[i].adr \in Nat /\ b[i].size \in Nat /\ b[i + 1].size \in Nat BY <1>0, <2>0
      <4>2. c[n].adr = b[i].adr + b[i + 1].size /\ c[n].size = b[i].size BY <1>8, <3>1
      <4>3. b[n].adr = b[i].adr + b[i].size /\ b[n].size = b[i + 1].size BY <2>3, <3>1
      <4> QED BY <2>2, <4>1, <4>2, <4>3
    <3>2. CASE n # i + 1
      <4>1. n \in (1 .. n) \ {i, i + 1} BY <1>0, <3>2
      <4> QED BY <1>7, <2>2, <4>1
    <3> QED BY <3>1, <3>2
  <2> QED BY <1>2, <2>2, <2>4, <2>5, <2>6 DEF Tiled
<1>14. NextIn(Free(c), 0, new)
  <2> DEFINE F == Free(b)
             G == Free(c)
             z == 0
  <2>1. NextIn(F, z, first) /\ z # i /\ z \in Nat BY <1>0, <1>1 DEF Listed
  <2>2. Positive(F) /\ i \in F /\ i + 1 \notin F /\ G = Stepped(F, i) BY <1>10
  <2> HIDE DEF F, G, z
  <2>3. NextIn(Stepped(F, i), z, Step(i, first)) BY <2>1, <2>2, SteppedIn
  <2> QED BY <2>2, <2>3 DEF G, z
<1>15. ASSUME NEW j \in Free(c) PROVE NextIn(Free(c), j, c[j].next) /\ PrevIn(Free(c), j, c[j].prev)
  <2>1. CASE j = i + 1
    <3>1. NextIn(Free(b), i, b[i].next) /\ PrevIn(Free(b), i, b[i].prev) /\ b[i].next \in Nat /\ b[i].prev \in Nat
      BY <1>10, <1>11
    <3>2. NextIn(Free(c), i + 1, b[i].next) /\ PrevIn(Free(c), i + 1, b[i].prev)
      <4> DEFINE F == Free(b)
                 k == b[i].next
                 q == b[i].prev
      <4>1. Positive(F) /\ i \in F /\ i + 1 \notin F /\ Free(c) = Stepped(F, i) BY <1>10
      <4>2. NextIn(F, i, k) /\ PrevIn(F, i, q) /\ k \in Nat /\ q \in Nat BY <3>1
      <4> HIDE DEF F, k, q
      <4>3. NextIn(Stepped(F, i), i + 1, k) BY <4>1, <4>2, SteppedIs
      <4>4. PrevIn(Stepped(F, i), i + 1, q) BY <4>1, <4>2, SteppedIs
      <4> QED BY <4>1, <4>3, <4>4 DEF k, q
    <3> QED BY <1>8, <2>1, <3>2
  <2>2. CASE j # i + 1
    <3>1. j \in Free(b) /\ j # i BY <1>9, <2>2 DEF Stepped
    <3>2. j \in (1 .. n) \ {i, i + 1} /\ j \in Nat BY <1>11, <2>2, <3>1
    <3> DEFINE k == b[j].next
               q == b[j].prev
    <3>3. NextIn(Free(b), j, k) /\ PrevIn(Free(b), j, q) /\ k \in Nat /\ q \in Nat BY <1>11, <3>1
    <3>4. NextIn(Free(b), i, b[i].next) /\ PrevIn(Free(b), i, b[i].prev) /\ b[i].next \in Nat /\ b[i].prev \in Nat
      BY <1>10, <1>11
    <3>5. c[j].next = Instead(j, b[i].prev, i + 1, k) /\ c[j].prev = Instead(j, b[i].next, i + 1, q)
      BY <1>7, <3>2
    <3> HIDE DEF k, q
    <3>6. k = i <=> b[i].prev = j BY <1>10, <3>1, <3>3, <3>4, LinksMeet
    <3>7. b[i].next = j <=> q = i BY <1>10, <3>1, <3>3, <3>4, LinksMeet
    <3>8. c[j].next = Step(i, k) /\ c[j].prev = Step(i, q) BY <3>5, <3>6, <3>7 DEF Instead, Step
    <3>9. NextIn(Free(c), j, Step(i, k)) /\ PrevIn(Free(c), j, Step(i, q))
      <4> DEFINE F == Free(b)
      <4>1. Positive(F) /\ i \in F /\ i + 1 \notin F /\ Free(c) = Stepped(F, i) BY <1>10
      <4>2. NextIn(F, j, k) /\ PrevIn(F, j, q) BY <3>3
      <4> HIDE DEF F
      <4>3. j # i /\ j # i + 1 /\ j \in Nat BY <2>2, <3>1, <3>2
      <4>4. NextIn(Stepped(F, i), j, Step(i, k)) BY <3>3, <4>1, <4>2, <4>3, SteppedIn
      <4>5. PrevIn(Stepped(F, i), j, Step(i, q)) BY <3>3, <4>1, <4>2, <4>3, SteppedIn
      <4> QED BY <4>1, <4>4, <4>5
    <3> QED BY <3>8, <3>9
  <2> QED BY <2>1, <2>2
<1>16. Memory(c, t, new) BY <1>12, <1>13, <1>14, <1>15 DEF Memory, Listed, Linked
<1>17. ASSUME NEW x \in Slices, s[x].bk # 0
       PROVE  /\ s[x].bk \in 1 .. n /\ b[s[x].bk].slice = x
              /\ c[t[x].bk].file = b[s[x].bk].file
              /\ x # y => c[t[x].bk].adr = b[s[x].bk].adr
  <2>1. CASE x = y BY <1>0, <1>4, <1>5, <1>8, <2>1 DEF Like, y
  <2>2. CASE x # y BY <1>5, <1>6, <1>7, <1>17, <2>2 DEF Like
  <2> QED BY <2>1, <2>2
<1> QED BY <1>5, <1>16, <1>17 DEF n, y, Moved

LEMMA SwapGood ==
  ASSUME NEW T, NEW i, Good(T), i \in 1 .. Len(T.b) - 1, ~InUse(T.b[i]), InUse(T.b[i + 1])
  PROVE  LET U == SwapBlocks(T, i)
         IN  /\ Good(U) /\ Carried(T, U) /\ Spares(T, U, {}) /\ Swapped(T.b, U.b, i)
             /\ ~T.b[i + 1].locked => Stays(Slices, T, U)
<1> DEFINE U == SwapBlocks(T, i)
           b == T.b
           s == T.s
           c == U.b
           y == b[i + 1].slice
           t == [s EXCEPT ![y] = Renumbered(@, i)]
           new == Step(i, T.first)
<1>1. TypedTables(T) /\ Memory(b, s, T.first) /\ Told(T) BY DEF Good
<1>2. b \in Seq(Block) /\ s \in [Slices -> Slice] /\ T.first \in Nat BY <1>1, TypedIs
<1>3. Swapped(b, c, i) /\ (Even(b) => Unhurt(b, c, i)) /\ Put(T, U, c, t, new) BY SwapBlocksIs DEF Step
<1>4. U.s = t /\ U.first = new /\ TypedTables(U) BY <1>3 DEF Put
<1>5. /\ i \in 1 .. Len(b) - 1 /\ ~InUse(b[i]) /\ InUse(b[i + 1]) /\ i + 1 \in DOMAIN b
      /\ t = Renamed(b, s, i) /\ new = Step(i, T.first)
  BY <1>2 DEF Renamed
<1>6. t[y].bk = t[y].bk /\ y = b[i + 1].slice OBVIOUS
<1> HIDE DEF U, b, s, c, t, y, new
<1>7. /\ Memory(c, t, new)
      /\ \A x \in Slices : /\ SameFlags(t[x], s[x]) /\ t[x].image = s[x].image
                           /\ t[x].bk = IF x = y THEN i ELSE s[x].bk
      /\ \A x \in Slices : s[x].bk # 0 =>
           /\ s[x].bk \in 1 .. Len(b) /\ b[s[x].bk].slice = x
           /\ c[t[x].bk].file = b[s[x].bk].file
           /\ x # y => c[t[x].bk].adr = b[s[x].bk].adr
  <2>1. Memory(c, t, new) /\ Moved(b, c, s, t, i) BY <1>1, <1>2, <1>3, <1>5, SwapMemory
  <2> QED BY <1>6, <2>1 DEF Moved
<1>8. y \in Slices /\ s[y].bk = i + 1 /\ SameFlags(b[i + 1], s[y])
  <2>1. b[i + 1] \in Block BY <1>2, <1>5
  <2>2. y \in Slices BY <1>5, <1>6, <2>1, BlockIs DEF InUse
  <2> QED BY <1>1, <1>5, <1>6, <2>2 DEF Memory, Names
<1>9. Carried(T, U)
  <2>1. ASSUME NEW x \in Slices, t[x].bk # 0 PROVE c[t[x].bk].file = FileAdr(T, x)
    <3>1. s[x].bk # 0
      <4>1. i + 1 # 0 BY <1>5, <1>2
      <4> QED BY <1>7, <1>8, <2>1, <4>1
    <3>2. s[x].bk \in DOMAIN b /\ b[s[x].bk].slice = x /\ InUse(b[s[x].bk])
      <4>1. x # NoSlice BY VmmAssumption
      <4> QED BY <1>2, <1>7, <3>1, <4>1 DEF InUse
    <3> QED BY <1>1, <1>7, <3>1, <3>2 DEF Told, b
  <2> QED BY <1>3, <1>4, <1>7, <2>1 DEF Carried, Put, s, c
<1>10. ASSUME ~b[i + 1].locked PROVE Stays(Slices, T, U)
  <2> SUFFICES ASSUME NEW x \in Slices
               PROVE t[x].locked = s[x].locked /\ (s[x].locked => c[t[x].bk].adr = b[s[x].bk].adr)
    BY <1>4 DEF Stays, s, b, c
  <2>1. s[x].locked => s[x].bk # 0 /\ x # y BY <1>1, <1>8, <1>10 DEF Memory, Names, SameFlags
  <2> QED BY <1>7, <2>1 DEF SameFlags
<1>11. Good(U) BY <1>4, <1>7, <1>9, CarriedGood DEF c
<1>12. Spares(T, U, {})
  <2>0. i \in 1 .. Len(b) /\ i + 1 \in 1 .. Len(b) /\ Len(b) \in Nat /\ i # 0 /\ DOMAIN b = 1 .. Len(b) BY <1>2, <1>5
  <2>1. U.base = T.base /\ U.wp = T.wp /\ U.file = T.file BY <1>3 DEF Put
  <2>2. \A x \in Slices : SliceKept(T, U, x) BY <1>4, <1>7 DEF SliceKept, SameFlags, s
  <2>3. Grounds(b, c)
    <3>1. b[i + 1].size = Len8(y) BY <1>1, <1>5, <1>6 DEF Memory, Names
    <3>2. ASSUME NEW j \in 1 .. Len(c)
          PROVE  \E k \in 1 .. Len(b) : c[j].adr = b[k].adr \/ \E x \in Slices : c[j].adr = b[k].adr + Len8(x)
      <4>1. Len(c) = Len(b) BY <1>3 DEF Swapped
      <4>2. CASE j = i BY <1>3, <2>0, <4>2 DEF Swapped
      <4>3. CASE j = i + 1
        <5>1. c[j].adr = b[i].adr + Len8(y) BY <1>3, <3>1, <4>3 DEF Swapped
        <5> QED BY <1>8, <2>0, <5>1
      <4>4. CASE j # i /\ j # i + 1
        <5>1. c[j].adr = b[j].adr /\ j \in 1 .. Len(b) BY <1>3, <4>1, <4>4 DEF Swapped
        <5> QED BY <5>1
      <4> QED BY <4>2, <4>3, <4>4
    <3> QED BY <3>2 DEF Grounds
  <2>4. Even(T.b) => Even(U.b) BY <2>3, EvenStays DEF b, c
  <2>5. ASSUME Even(b), NEW x \in Slices, Keep(x) PROVE ContentKept(T, U, x)
    <3>1. ASSUME s[x].bk = 0 PROVE t[x].bk = 0
      <4>1. x # y BY <1>8, <2>0, <3>1
      <4> QED BY <1>7, <3>1, <4>1
    <3>2. ASSUME s[x].bk # 0 PROVE t[x].bk # 0 /\ c[t[x].bk].cur = b[s[x].bk].cur
      <4>1. CASE x = y
        <5>1. t[x].bk = i /\ s[x].bk = i + 1 BY <1>7, <1>8, <4>1
        <5> QED BY <1>3, <1>6, <2>0, <2>5, <4>1, <5>1 DEF Unhurt
      <4>2. CASE x # y
        <5> DEFINE k == s[x].bk
        <5>1. k \in 1 .. Len(b) /\ b[k].slice = x /\ t[x].bk = k BY <1>7, <3>2, <4>2
        <5>2. x # NoSlice BY VmmAssumption
        <5>3. k # i /\ k # i + 1 BY <1>5, <1>6, <4>2, <5>1, <5>2 DEF InUse
        <5> HIDE DEF k
        <5>4. c[k].cur = b[k].cur BY <1>3, <2>5, <5>1, <5>3 DEF Unhurt
        <5> QED BY <3>2, <5>1, <5>4 DEF k
      <4> QED BY <4>1, <4>2
    <3> QED BY <1>4, <3>1, <3>2 DEF ContentKept, s, b, c
  <2>6. Even(T.b) => \A x \in Slices : Keep(x) => ContentKept(T, U, x) BY <2>5 DEF b
  <2> QED BY <1>1, <2>1, <2>2, <2>4, <2>6, MemorySpares
<1> QED BY <1>3, <1>9, <1>10, <1>11, <1>12 DEF b, c, U


---------------------------------------------------------------------------
(* eject_block: a block goes into the list of free blocks. *)

LEMMA ListedBeforeIs ==
  ASSUME NEW b, NEW first, NEW F, NEW i, Positive(F), Len(b) \in Nat,
         \A j \in F : j <= Len(b) /\ b[j].next \in Nat /\ NextIn(F, j, b[j].next),
         i \in Nat, i \notin F, first \in F, first < i
  PROVE  ListedBefore(b, first, i) \in F /\ PrevIn(F, i, ListedBefore(b, first, i))
<1> DEFINE c == [b |-> b, i |-> i]
           d == [free |-> F, i |-> i]
           n == Len(b)
<1>0. (\A j \in F : j \in Nat /\ j # 0) /\ c.b = b /\ c.i = i /\ d.free = F /\ d.i = i BY DEF Positive
<1> HIDE DEF c, d, n
<1>1. Behind(d, first, 0) BY <1>0 DEF Behind
<1>2. \A k \in 1 .. n : \A x : Behind(d, x, k - 1) => Behind(d, BeforeTurn(c, x, k), k)
  <2> SUFFICES ASSUME NEW k \in 1 .. n, NEW x, Behind(d, x, k - 1)
               PROVE  Behind(d, BeforeTurn(c, x, k), k)
    OBVIOUS
  <2>1. x \in F /\ x < i /\ (1 + (k - 1) <= x \/ PrevIn(F, i, x)) BY <1>0 DEF Behind
  <2> DEFINE y == b[x].next
  <2>2. y \in Nat /\ NextIn(F, x, y) /\ x \in Nat /\ k \in Nat BY <1>0, <2>1 DEF n
  <2>3. BeforeTurn(c, x, k) = IF y = 0 \/ y > i THEN x ELSE y BY <1>0 DEF BeforeTurn
  <2> HIDE DEF y
  <2>4. CASE y = 0 \/ y > i
    <3>1. PrevIn(F, i, x) BY <1>0, <2>1, <2>2, <2>4 DEF PrevIn, NextIn
    <3> QED BY <1>0, <2>1, <2>3, <2>4, <3>1 DEF Behind
  <2>5. CASE ~(y = 0 \/ y > i)
    <3>1. y \in F /\ x < y BY <2>2, <2>5 DEF NextIn
    <3>2. y < i BY <1>0, <2>2, <2>5, <3>1
    <3>3. 1 + k <= y \/ PrevIn(F, i, y)
      <4>1. CASE k <= x BY <2>2, <3>1, <4>1
      <4>2. CASE PrevIn(F, i, x) BY <1>0, <2>2, <3>1, <3>2, <4>2 DEF PrevIn
      <4> QED BY <2>1, <2>2, <4>1, <4>2
    <3> QED BY <1>0, <2>3, <2>5, <3>1, <3>2, <3>3 DEF Behind
  <2> QED BY <2>4, <2>5
<1>3. n \in Nat BY DEF n
<1>4. Behind(d, LB!After(c, first, n), n) BY <1>1, <1>2, <1>3, LB!LoopKeeps
<1>5. LB!After(c, first, n) = ListedBefore(b, first, i) BY DEF c, n, ListedBefore, Repeat, LB!After
<1> DEFINE k == ListedBefore(b, first, i)
<1>6. k \in F /\ (1 + n <= k \/ PrevIn(F, i, k)) BY <1>0, <1>4, <1>5 DEF Behind
<1> HIDE DEF k
<1>7. ~(1 + n <= k) BY <1>0, <1>3, <1>6 DEF n
<1> QED BY <1>6, <1>7 DEF k

(* Block i is free now, in the list behind p and before n; the others are  *)
(* where they were.                                                        *)
Freed(b, c, i, p, n) ==
  /\ c \in Seq(Block) /\ Len(c) = Len(b)
  /\ ~InUse(c[i]) /\ ~c[i].locked /\ ~c[i].keep /\ c[i].adr = b[i].adr /\ c[i].size = b[i].size
  /\ c[i].prev = p /\ c[i].next = n
  /\ \A j \in (1 .. Len(b)) \ {i} :
       /\ Same(b[j], c[j]) /\ c[j].adr = b[j].adr /\ c[j].size = b[j].size
       /\ c[j].prev = Instead(j, n, i, b[j].prev) /\ c[j].next = Instead(j, p, i, b[j].next)

LEMMA EmptiedIs ==
  ASSUME NEW x, x \in Block
  PROVE  /\ Emptied(x) \in Block /\ ~InUse(Emptied(x)) /\ ~Emptied(x).locked /\ ~Emptied(x).keep
         /\ Emptied(x).adr = x.adr /\ Emptied(x).size = x.size
         /\ Emptied(x).prev = x.prev /\ Emptied(x).next = x.next
<1> DEFINE adr == x.adr
           size == x.size
           p == x.prev
           n == x.next
<1>1. adr \in Nat /\ size \in Nat \ {0} /\ p \in Nat /\ n \in Nat BY BlockIs
<1>2. Emptied(x) = FreeBlock(adr, size, p, n) BY DEF Emptied
<1> HIDE DEF adr, size, p, n
<1>3. /\ Emptied(x) \in Block /\ ~InUse(Emptied(x)) /\ ~Emptied(x).locked /\ ~Emptied(x).keep
      /\ Emptied(x).adr = adr /\ Emptied(x).size = size /\ Emptied(x).prev = p /\ Emptied(x).next = n
  BY <1>1, <1>2, FreeBlockIs
<1> QED BY <1>3 DEF adr, size, p, n

WithEmptied(b, i) == [b EXCEPT ![i] = Emptied(@)]

LEMMA EnteredIs ==
  ASSUME NEW b, NEW i, NEW p, NEW n, b \in Seq(Block), i \in 1 .. Len(b), p \in Nat, n \in Nat,
         i # p, i # n
  PROVE  Freed(b, Entered(WithEmptied(b, i), i, p, n), i, p, n)
<1> DEFINE e == WithEmptied(b, i)
           c == Entered(e, i, p, n)
<1>0. DOMAIN b = 1 .. Len(b) /\ Len(b) \in Nat /\ i \in Nat /\ i # 0 OBVIOUS
<1>1. \A j \in 1 .. Len(b) : b[j] \in Block OBVIOUS
<1>2. DOMAIN e = 1 .. Len(b) /\ e[i] = Emptied(b[i]) /\ \A j \in (1 .. Len(b)) \ {i} : e[j] = b[j]
  BY <1>0 DEF WithEmptied
<1> HIDE DEF e
<1>3. DOMAIN c = 1 .. Len(b) BY <1>2 DEF Entered
<1>4. ASSUME NEW j \in 1 .. Len(b)
      PROVE  c[j] = Linking(e[j], IF j = n THEN i ELSE IF j = i THEN p ELSE e[j].prev,
                                  IF j = p THEN i ELSE IF j = i THEN n ELSE e[j].next)
  BY <1>2 DEF Entered
<1>5. c = [j \in 1 .. Len(b) |-> c[j]] BY <1>2 DEF Entered
<1> HIDE DEF c
<1>6. /\ c[i] \in Block /\ ~InUse(c[i]) /\ ~c[i].locked /\ ~c[i].keep /\ c[i].adr = b[i].adr
      /\ c[i].size = b[i].size /\ c[i].prev = p /\ c[i].next = n
  <2> DEFINE x == e[i]
  <2>1. c[i] = Linking(x, p, n) BY <1>4
  <2>2. /\ x \in Block /\ ~InUse(x) /\ ~x.locked /\ ~x.keep /\ x.adr = b[i].adr /\ x.size = b[i].size
    BY <1>1, <1>2, EmptiedIs
  <2> HIDE DEF x
  <2> DEFINE d == Linking(x, p, n)
  <2>3. d \in Block /\ Same(x, d) /\ d.adr = x.adr /\ d.size = x.size /\ d.prev = p /\ d.next = n
    BY <2>2, LinkingIs
  <2> HIDE DEF d
  <2> QED BY <2>1, <2>2, <2>3 DEF d, Same, Like, SameFlags, InUse
<1>7. ASSUME NEW j \in (1 .. Len(b)) \ {i}
      PROVE  /\ c[j] \in Block /\ Same(b[j], c[j]) /\ c[j].adr = b[j].adr /\ c[j].size = b[j].size
             /\ c[j].prev = Instead(j, n, i, b[j].prev) /\ c[j].next = Instead(j, p, i, b[j].next)
  <2> DEFINE x == b[j]
             q == Instead(j, n, i, x.prev)
             r == Instead(j, p, i, x.next)
  <2>1. x \in Block /\ x.prev \in Nat /\ x.next \in Nat BY <1>1, BlockIs
  <2>2. q \in Nat /\ r \in Nat BY <1>0, <2>1 DEF Instead
  <2>3. c[j] = Linking(x, q, r) BY <1>2, <1>4 DEF Instead
  <2> HIDE DEF x, q, r
  <2> DEFINE d == Linking(x, q, r)
  <2>4. d \in Block /\ Same(x, d) /\ d.adr = x.adr /\ d.size = x.size /\ d.prev = q /\ d.next = r
    BY <2>1, <2>2, LinkingIs
  <2> HIDE DEF d
  <2> QED BY <2>3, <2>4 DEF d, x, q, r
<1>8. c \in Seq(Block) /\ Len(c) = Len(b)
  <2>1. \A j \in 1 .. Len(b) : c[j] \in Block BY <1>6, <1>7
  <2>2. c \in [1 .. Len(b) -> Block] BY <1>5, <2>1
  <2> QED BY <1>0, <1>3, <2>2
<1> QED BY <1>6, <1>7, <1>8 DEF c, e, Freed

LEMMA FreedMemory ==
  ASSUME NEW b, NEW c, NEW s, NEW t, NEW first, NEW i, NEW p, NEW n,
         b \in Seq(Block), s \in [Slices -> Slice], first \in Nat, i \in 1 .. Len(b),
         p \in Nat, n \in Nat, Memory(b, s, first), InUse(b[i]), Freed(b, c, i, p, n),
         PrevIn(Free(b), i, p), NextIn(Free(b), i, n), t \in [Slices -> Slice],
         t[b[i].slice].bk = 0, ~t[b[i].slice].locked,
         \A x \in Slices : x # b[i].slice => t[x] = s[x]
  PROVE  Memory(c, t, Instead(0, p, i, first))
<1> DEFINE y == b[i].slice
           m == Len(b)
           new == Instead(0, p, i, first)
<1>0. m \in Nat /\ i \in Nat /\ i \in 1 .. m /\ i # 0 /\ DOMAIN b = 1 .. m OBVIOUS
<1>1. Names(b, s) /\ Tiled(b) /\ Listed(b, first) BY DEF Memory
<1>2. DOMAIN c = 1 .. m /\ Len(c) = m /\ c \in Seq(Block)
  <2>1. c \in Seq(Block) /\ Len(c) = m BY DEF Freed
  <2> QED BY <2>1
<1>3. \A j \in 1 .. m : b[j] \in Block /\ c[j] \in Block BY <1>2
<1>4. y \in Slices /\ s[y].bk = i
  <2>1. y \in Slices BY <1>0, <1>3, BlockIs DEF InUse
  <2> QED BY <1>0, <1>1, <2>1 DEF Names
<1>5. t[y].bk = 0 /\ ~t[y].locked /\ \A x \in Slices : x # y => t[x] = s[x] OBVIOUS
<1> HIDE DEF y, m
<1>7. \A j \in (1 .. m) \ {i} :
        /\ Same(b[j], c[j]) /\ c[j].adr = b[j].adr /\ c[j].size = b[j].size
        /\ c[j].prev = Instead(j, n, i, b[j].prev) /\ c[j].next = Instead(j, p, i, b[j].next)
  BY DEF Freed, m
<1>8. /\ ~InUse(c[i]) /\ ~c[i].locked /\ ~c[i].keep /\ c[i].adr = b[i].adr /\ c[i].size = b[i].size
      /\ c[i].prev = p /\ c[i].next = n
  BY DEF Freed
<1>9. \A j : j \in Free(c) <=> j \in Free(b) \cup {i}
  <2> SUFFICES ASSUME NEW j PROVE j \in Free(c) <=> j \in Free(b) \/ j = i OBVIOUS
  <2>1. CASE j \in (1 .. m) \ {i} BY <1>0, <1>2, <1>7, <2>1, FreeIs DEF Same, Like
  <2>2. CASE j = i BY <1>0, <1>2, <1>8, <2>2, FreeIs DEF InUse
  <2>3. CASE j \notin 1 .. m BY <1>0, <1>2, <2>3, FreeIs
  <2> QED BY <2>1, <2>2, <2>3
<1>10. Positive(Free(b)) /\ i \in Nat \ {0} /\ i \notin Free(b) /\ Free(c) = Free(b) \cup {i}
  <2>1. Positive(Free(b)) BY FreeTyped
  <2>2. i \notin Free(b) BY <1>0, FreeIs DEF InUse
  <2> QED BY <1>0, <1>9, <2>1, <2>2
<1>11. \A j \in Free(b) : /\ j \in 1 .. m /\ b[j].next \in Nat /\ b[j].prev \in Nat
                          /\ NextIn(Free(b), j, b[j].next) /\ PrevIn(Free(b), j, b[j].prev)
  <2>1. \A j \in Free(b) : j \in 1 .. m BY FreeTyped DEF m
  <2> QED BY <1>1, <1>3, <2>1, BlockIs DEF Listed, Linked
<1>12. Names(c, t)
  <2>1. ASSUME NEW j \in 1 .. m, InUse(c[j])
        PROVE  /\ t[c[j].slice].bk = j /\ SameFlags(c[j], t[c[j].slice])
               /\ c[j].size = Len8(c[j].slice) /\ c[j].prev = 0 /\ c[j].next = 0
    <3>0. j \in (1 .. m) \ {i} BY <1>8, <2>1
    <3> DEFINE x == c[j].slice
    <3>1. x = b[j].slice /\ InUse(b[j]) BY <1>7, <2>1, <3>0 DEF Same, Like, InUse
    <3>2. x \in Slices BY <1>3, <2>1, BlockIs DEF InUse
    <3> HIDE DEF x
    <3>3. s[x].bk = j /\ SameFlags(b[j], s[x]) /\ b[j].size = Len8(x) /\ b[j].prev = 0 /\ b[j].next = 0
      BY <1>0, <1>1, <3>0, <3>1 DEF Names
    <3>4. x # y BY <1>4, <3>0, <3>3
    <3>5. t[x] = s[x] BY <1>5, <3>2, <3>4
    <3>6. c[j].prev = 0 /\ c[j].next = 0
      <4>1. j # p /\ j # n
        <5>1. j \notin Free(b) /\ j # 0 BY <1>0, <3>0, <3>1, FreeIs DEF InUse
        <5> QED BY <5>1 DEF NextIn, PrevIn
      <4> QED BY <1>7, <3>0, <3>3, <4>1 DEF Instead
    <3>7. SameFlags(c[j], b[j]) /\ c[j].size = b[j].size BY <1>7, <3>0 DEF Same, Like
    <3> QED BY <3>3, <3>5, <3>6, <3>7 DEF x, SameFlags
  <2>2. ASSUME NEW j \in 1 .. m, ~InUse(c[j]) PROVE ~c[j].locked /\ ~c[j].keep
    <3>1. CASE j = i BY <1>8, <3>1
    <3>2. CASE j # i
      <4>1. j \in (1 .. m) \ {i} BY <3>2
      <4>2. ~InUse(b[j]) BY <1>7, <2>2, <4>1 DEF Same, Like, InUse
      <4> QED BY <1>0, <1>1, <1>7, <4>1, <4>2 DEF Names, Same, Like, SameFlags
    <3> QED BY <3>1, <3>2
  <2>3. ASSUME NEW x \in Slices
        PROVE  IF t[x].bk = 0 THEN ~t[x].locked ELSE t[x].bk \in 1 .. m /\ c[t[x].bk].slice = x
    <3>1. CASE x = y BY <1>5, <3>1
    <3>2. CASE x # y /\ s[x].bk = 0 BY <1>1, <1>5, <3>2 DEF Names
    <3>3. CASE x # y /\ s[x].bk # 0
      <4>1. s[x].bk \in 1 .. m /\ b[s[x].bk].slice = x BY <1>0, <1>1, <3>3 DEF Names
      <4>2. s[x].bk # i BY <3>3, <4>1 DEF y
      <4> QED BY <1>5, <1>7, <3>3, <4>1, <4>2 DEF Same, Like
    <3> QED BY <3>1, <3>2, <3>3
  <2> QED BY <1>2, <2>1, <2>2, <2>3 DEF Names
<1>13. Tiled(c)
  <2>1. \A j \in 1 .. m : c[j].adr = b[j].adr /\ c[j].size = b[j].size BY <1>7, <1>8
  <2>2. m >= 1 /\ b[1].adr = 0 /\ b[m].adr + b[m].size = MaxMem
    BY <1>1 DEF Tiled, m
  <2>3. \A j \in 1 .. m - 1 : b[j].adr + b[j].size = b[j + 1].adr BY <1>1 DEF Tiled, m
  <2>4. \A j \in 1 .. m - 1 : j \in 1 .. m /\ j + 1 \in 1 .. m BY <1>0
  <2>5. \A j \in 1 .. m - 1 : c[j].adr + c[j].size = c[j + 1].adr BY <2>1, <2>3, <2>4
  <2>6. 1 \in 1 .. m /\ m \in 1 .. m BY <1>0, <2>2
  <2>7. c[1].adr = 0 /\ c[m].adr + c[m].size = MaxMem BY <2>1, <2>2, <2>6
  <2> QED BY <1>2, <2>2, <2>5, <2>7 DEF Tiled
<1> DEFINE F == Free(b)
           G == Free(c)
<1>14. Positive(F) /\ i \notin F /\ G = F \cup {i} /\ PrevIn(F, i, p) /\ NextIn(F, i, n) BY <1>10
<1>15. \A j \in G : NextIn(G, j, c[j].next) /\ PrevIn(G, j, c[j].prev)
  <2> SUFFICES ASSUME NEW j \in G PROVE NextIn(G, j, c[j].next) /\ PrevIn(G, j, c[j].prev) OBVIOUS
  <2>1. CASE j = i
    <3> HIDE DEF F, G
    <3>1. NextIn(F \cup {i}, i, n) /\ PrevIn(F \cup {i}, i, p) BY <1>0, <1>14, EnteredIn
    <3> QED BY <1>8, <1>14, <2>1, <3>1
  <2>2. CASE j # i
    <3>1. j \in F /\ j \in (1 .. m) \ {i} /\ j \in Nat BY <1>11, <1>14, <2>2
    <3> DEFINE k == b[j].next
               q == b[j].prev
    <3>2. NextIn(F, j, k) /\ PrevIn(F, j, q) /\ k \in Nat /\ q \in Nat BY <1>11, <3>1
    <3>3. c[j].next = Instead(j, p, i, k) /\ c[j].prev = Instead(j, n, i, q) BY <1>7, <3>1
    <3> HIDE DEF F, G, k, q
    <3>4. NextIn(F \cup {i}, j, Instead(j, p, i, k)) BY <1>0, <1>14, <3>1, <3>2, EnteredIn
    <3>5. PrevIn(F \cup {i}, j, Instead(j, n, i, q)) BY <1>0, <1>14, <3>1, <3>2, EnteredIn
    <3> QED BY <1>14, <3>3, <3>4, <3>5
  <2> QED BY <2>1, <2>2
<1>16. NextIn(G, 0, new)
  <2>1. NextIn(F, 0, first) BY <1>1 DEF Listed
  <2> DEFINE z == 0
  <2>2. z \in Nat OBVIOUS
  <2> HIDE DEF F, G, z, new
  <2>3. NextIn(F \cup {i}, 0, Instead(0, p, i, first)) BY <1>0, <1>14, <2>1, <2>2, EnteredIn
  <2> QED BY <1>14, <2>3 DEF new
<1> QED BY <1>12, <1>13, <1>15, <1>16 DEF Memory, Listed, Linked

Vacated(T, i) == [T EXCEPT !.b[i] = Emptied(@), !.s[T.b[i].slice] = NotInCore(@.image)]

LEMMA NotInCoreIs ==
  ASSUME NEW image \in BOOLEAN
  PROVE  LET x == NotInCore(image)
         IN  x \in Slice /\ x.bk = 0 /\ ~x.locked /\ ~x.keep /\ ~x.altered /\ ~x.was /\ x.image = image
BY DEF NotInCore, Slice

(* Block i is out of use; the others, and the slices in them, are as they  *)
(* were.                                                                   *)
Dropped(T, U, i) ==
  /\ Len(U.b) = Len(T.b) /\ U.b[i].adr = T.b[i].adr
  /\ ~InUse(U.b[i]) /\ ~U.b[i].locked /\ ~U.b[i].keep /\ U.b[i].size = T.b[i].size
  /\ \A j \in (1 .. Len(T.b)) \ {i} :
       Same(T.b[j], U.b[j]) /\ U.b[j].size = T.b[j].size /\ U.b[j].adr = T.b[j].adr
  /\ \A x \in Slices : x # T.b[i].slice => U.s[x] = T.s[x]
  /\ U.s[T.b[i].slice] = NotInCore(T.s[T.b[i].slice].image)

LEMMA VacatedPut ==
  ASSUME NEW T, NEW i, NEW c, NEW new, TypedTables(T), i \in 1 .. Len(T.b), InUse(T.b[i]),
         c \in Seq(Block), new \in Nat
  PROVE  LET y == T.b[i].slice
             t == [T.s EXCEPT ![y] = NotInCore(@.image)]
         IN  y \in Slices /\ t \in [Slices -> Slice] /\ Put(T, WithAll(T, c, t, new), c, t, new)
<1> DEFINE y == T.b[i].slice
           z == NotInCore(T.s[y].image)
           t == [T.s EXCEPT ![y] = z]
<1>1. T.b \in Seq(Block) /\ T.s \in [Slices -> Slice] BY TypedIs
<1>2. T.b[i] \in Block BY <1>1
<1>3. y \in Slices BY <1>2, BlockIs DEF InUse
<1>4. z \in Slice
  <2> DEFINE image == T.s[y].image
  <2>1. image \in BOOLEAN BY <1>1, <1>3, SliceIs
  <2>2. z = NotInCore(image) OBVIOUS
  <2> HIDE DEF image, z
  <2> QED BY <2>1, <2>2, NotInCoreIs
<1>5. t \in [Slices -> Slice]
  <2> HIDE DEF y, z
  <2> QED BY <1>1, <1>3, <1>4
<1>6. t = [T.s EXCEPT ![y] = NotInCore(@.image)] OBVIOUS
<1> HIDE DEF t
<1>7. Put(T, WithAll(T, c, t, new), c, t, new) BY <1>5, PutAll
<1> QED BY <1>3, <1>5, <1>6, <1>7

LEMMA DropGood ==
  ASSUME NEW T, NEW i, NeverExactlyFull, Good(T), i \in 1 .. Len(T.b), InUse(T.b[i])
  PROVE  LET U == ListFree(Vacated(T, i), i)
         IN  Good(U) /\ Carried(T, U) /\ Dropped(T, U, i)
<1> DEFINE b == T.b
           s == T.s
           F == Free(b)
           e == WithEmptied(b, i)
           V == Vacated(T, i)
           U == ListFree(V, i)
           p == IF T.first > i THEN 0 ELSE ListedBefore(e, T.first, i)
           n == IF T.first > i THEN T.first ELSE e[p].next
           c == Entered(e, i, p, n)
           y == b[i].slice
           t == [s EXCEPT ![y] = NotInCore(@.image)]
           new == IF T.first > i THEN i ELSE T.first
<1>1. TypedTables(T) /\ Memory(b, s, T.first) /\ Told(T) BY DEF Good
<1>2. b \in Seq(Block) /\ s \in [Slices -> Slice] /\ T.first \in Nat BY <1>1, TypedIs
<1>3. DOMAIN b = 1 .. Len(b) /\ Len(b) \in Nat /\ i \in Nat /\ i # 0 BY <1>2
<1>4. \A j \in 1 .. Len(b) : b[j] \in Block BY <1>2
<1>5. U = WithAll(T, c, t, new)
  <2>1. V.b = e /\ V.s = t /\ V.first = T.first BY <1>1 DEF TypedTables, Vacated, WithEmptied
  <2>2. U = [V EXCEPT !.b = c, !.first = new]
    <3>1. U = [V EXCEPT !.b = Entered(V.b, i, p, n), !.first = new] BY <2>1 DEF ListFree
    <3> QED BY <2>1, <3>1
  <2>3. V = [T EXCEPT !.b = e, !.s = t] BY DEF Vacated, WithEmptied
  <2> HIDE DEF V, U, c, t, new, e
  <2> QED BY <2>2, <2>3 DEF WithAll
<1>6. DOMAIN e = 1 .. Len(b) /\ \A j \in (1 .. Len(b)) \ {i} : e[j] = b[j]
  BY <1>3 DEF WithEmptied
<1>7. Positive(F) /\ i \notin F /\ \A j \in F : j \in 1 .. Len(b)
  <2>1. i \notin F BY FreeIs DEF InUse
  <2> QED BY <1>2, <2>1, FreeTyped
<1> HIDE DEF e, F
<1>8. \A j \in F : e[j] = b[j] /\ b[j].next \in Nat /\ b[j].prev \in Nat
                   /\ NextIn(F, j, b[j].next) /\ PrevIn(F, j, b[j].prev)
  <2>1. \A j \in F : NextIn(F, j, b[j].next) /\ PrevIn(F, j, b[j].prev)
    BY <1>1 DEF Memory, Listed, Linked, F
  <2> QED BY <1>4, <1>6, <1>7, <2>1, BlockIs
<1>9. T.first \in F /\ T.first # i /\ \A j \in F : T.first <= j
  <2>1. PICK j \in 1 .. Len(b) : ~InUse(b[j])
    <3>1. Names(b, s) /\ Tiled(b) BY <1>1 DEF Memory
    <3> QED BY <1>2, <3>1, SomeFree
  <2>2. j \in F BY <1>3, <2>1, FreeIs DEF InUse, F
  <2>3. NextIn(F, 0, T.first) BY <1>1 DEF Memory, Listed, F
  <2> QED BY <1>7, <2>2, <2>3 DEF NextIn
<1>10. PrevIn(F, i, p) /\ NextIn(F, i, n) /\ p \in Nat /\ n \in Nat /\ i # p /\ i # n
       /\ (p = 0 <=> T.first > i)
  <2>1. CASE T.first > i
    <3>1. PrevIn(F, i, 0) /\ NextIn(F, i, T.first) BY <1>2, <1>3, <1>7, <1>9, <2>1 DEF PrevIn, NextIn
    <3> QED BY <1>2, <1>3, <1>9, <2>1, <3>1
  <2>2. CASE ~(T.first > i)
    <3> DEFINE k == ListedBefore(e, T.first, i)
               f == T.first
    <3>1. Len(e) \in Nat /\ \A j \in F : j <= Len(e) /\ e[j].next \in Nat /\ NextIn(F, j, e[j].next)
      <4>1. Len(e) = Len(b)
        <5>1. e \in [1 .. Len(b) -> Block]
          <6>1. Emptied(b[i]) \in Block BY <1>4, EmptiedIs
          <6> DEFINE z == Emptied(b[i])
          <6>2. z \in Block /\ e = [b EXCEPT ![i] = z] BY <6>1 DEF WithEmptied, e
          <6> HIDE DEF z
          <6> QED BY <1>2, <6>2
        <5> QED BY <1>3, <5>1
      <4> QED BY <1>3, <1>7, <1>8, <4>1
    <3>2. f \in F /\ f < i BY <1>2, <1>3, <1>9, <2>2
    <3>3. p = k /\ n = e[k].next BY <2>2
    <3> HIDE DEF k, f, p, n
    <3>4. k \in F /\ PrevIn(F, i, k)
      <4>1. ListedBefore(e, f, i) \in F /\ PrevIn(F, i, ListedBefore(e, f, i))
        BY <1>3, <1>7, <3>1, <3>2, ListedBeforeIs
      <4> QED BY <4>1 DEF k, f
    <3>5. k \in Nat /\ k # 0 /\ n \in Nat /\ NextIn(F, k, n) BY <1>7, <1>8, <3>3, <3>4
    <3>6. NextIn(F, i, n) BY <1>3, <1>7, <3>4, <3>5 DEF NextIn, PrevIn
    <3> QED BY <1>7, <2>2, <3>3, <3>4, <3>5, <3>6 DEF NextIn
  <2> QED BY <2>1, <2>2
<1> HIDE DEF p, n
<1>11. Freed(b, c, i, p, n) BY <1>2, <1>10, EnteredIs DEF e
<1>12. c \in Seq(Block) /\ new \in Nat BY <1>2, <1>3, <1>11 DEF Freed
<1>13. y \in Slices /\ t \in [Slices -> Slice] /\ Put(T, U, c, t, new)
  <2> HIDE DEF c, new, U
  <2> QED BY <1>1, <1>5, <1>12, VacatedPut
<1>14. t[y] = NotInCore(s[y].image) /\ \A x \in Slices : x # y => t[x] = s[x] BY <1>2, <1>13
<1>15. t[y].bk = 0 /\ ~t[y].locked /\ t[y].image = s[y].image
  <2> DEFINE image == s[y].image
  <2>1. image \in BOOLEAN BY <1>2, <1>13, SliceIs
  <2> HIDE DEF image
  <2>2. LET x == NotInCore(image) IN x.bk = 0 /\ ~x.locked /\ x.image = image BY <2>1, NotInCoreIs
  <2> QED BY <1>14, <2>2 DEF image
<1>16. new = Instead(0, p, i, T.first) BY <1>10 DEF Instead
<1> HIDE DEF c, t, new, U, V
<1>17. Memory(c, t, new)
  <2> DEFINE f == T.first
  <2>1. f \in Nat /\ Memory(b, s, f) /\ new = Instead(0, p, i, f) BY <1>1, <1>2, <1>16
  <2>2. t[b[i].slice].bk = 0 /\ ~t[b[i].slice].locked /\ \A x \in Slices : x # b[i].slice => t[x] = s[x]
    BY <1>14, <1>15
  <2>3. i \in 1 .. Len(b) /\ InUse(b[i]) OBVIOUS
  <2>4. PrevIn(Free(b), i, p) /\ NextIn(Free(b), i, n) BY <1>10 DEF F
  <2> HIDE DEF f, b, s, y
  <2>5. Memory(c, t, Instead(0, p, i, f)) BY <1>2, <1>10, <1>11, <1>13, <2>1, <2>2, <2>3, <2>4, FreedMemory
  <2> QED BY <2>1, <2>5
<1>18. U.b = c /\ U.s = t /\ U.first = new /\ TypedTables(U) BY <1>13 DEF Put
<1>19. Dropped(T, U, i) BY <1>11, <1>14, <1>18 DEF Dropped, Freed
<1>20. Carried(T, U)
  <2>1. ASSUME NEW x \in Slices, t[x].bk # 0 PROVE c[t[x].bk].file = FileAdr(T, x)
    <3>1. x # y /\ t[x] = s[x] BY <1>14, <1>15, <2>1
    <3>2. s[x].bk \in 1 .. Len(b) /\ b[s[x].bk].slice = x BY <1>1, <1>3, <2>1, <3>1 DEF Memory, Names
    <3>3. x # NoSlice BY VmmAssumption
    <3>4. b[s[x].bk].file = FileAdr(T, x) BY <1>1, <1>3, <3>2, <3>3 DEF Told, InUse
    <3>5. s[x].bk # i BY <3>1, <3>2
    <3> QED BY <1>11, <3>1, <3>2, <3>4, <3>5 DEF Freed, Same, Like
  <2>2. \A x \in Slices : t[x].image = s[x].image BY <1>14, <1>15
  <2> QED BY <1>13, <1>18, <2>1, <2>2 DEF Carried, Put
<1>21. Good(U) BY <1>17, <1>18, <1>20, CarriedGood
<1> QED BY <1>19, <1>20, <1>21 DEF U, V

(* The content of the block is lost, if the file does not have it.         *)
LEMMA DropSpares ==
  ASSUME NEW T, NEW U, NEW i, Good(T), i \in 1 .. Len(T.b), Carried(T, U), Dropped(T, U, i)
  PROVE  LET y == T.b[i].slice
         IN  Spares(T, U, {y}) /\ (OnDisk(T, y) /\ y \in Slices => Sound(U, y))
<1> DEFINE y == T.b[i].slice
<1>1. TypedTables(T) /\ Names(T.b, T.s) /\ DOMAIN T.b = 1 .. Len(T.b) /\ T.wp \in Nat
  BY TypedIs DEF Good, Memory
<1>2. U.base = T.base /\ U.wp = T.wp /\ U.file = T.file /\ \A x \in Slices : U.s[x].image = T.s[x].image
  BY DEF Carried
<1>3. \A x \in Slices : OnDisk(U, x) = OnDisk(T, x) BY <1>2, OnDiskIs
<1>4. U.s[y].bk = 0 /\ ~Marks(U, y) BY DEF Dropped, NotInCore, Marks
<1>5. \A x \in Slices : x # y => U.s[x] = T.s[x] BY DEF Dropped
<1>6. ASSUME NEW x \in Slices, x # y, Sound(T, x) PROVE Sound(U, x)
  <2> DEFINE k == T.s[x].bk
  <2>1. U.s[x].bk = k /\ Marks(U, x) = Marks(T, x) BY <1>5, <1>6 DEF Marks
  <2>2. ASSUME k # 0 PROVE U.b[k].cur = T.b[k].cur
    <3>1. k \in 1 .. Len(T.b) /\ T.b[k].slice = x BY <1>1, <2>2 DEF Names
    <3>2. k # i BY <1>6, <3>1
    <3> QED BY <3>1, <3>2 DEF Dropped, Same
  <2> HIDE DEF y
  <2> QED BY <1>3, <1>6, <2>1, <2>2 DEF Sound
<1>7. Even(T.b) => Even(U.b)
  <2>1. \A j \in 1 .. Len(U.b) : j \in 1 .. Len(T.b) /\ U.b[j].adr = T.b[j].adr BY DEF Dropped
  <2>2. Grounds(T.b, U.b) BY <2>1 DEF Grounds
  <2> QED BY <2>2, EvenStays
<1>8. T.wp <= U.wp BY <1>1, <1>2
<1>9. \A x \in Slices : Marks(U, x) => Marks(T, x) BY <1>4, <1>5 DEF Marks
<1>10. Spares(T, U, {y})
  <2> HIDE DEF y
  <2> QED BY <1>6, <1>7, <1>8, <1>9 DEF Spares
<1>11. OnDisk(T, y) /\ y \in Slices => Sound(U, y) BY <1>3, <1>4 DEF Sound
<1> QED BY <1>10, <1>11

---------------------------------------------------------------------------
(* The data file: the words of different slices are apart. *)

(* In U the file is what it was in T, or longer: no base moved, and whose  *)
(* words were in T are in U.                                               *)
Extends(T, U) ==
  /\ T.wp <= U.wp
  /\ \A v \in Variables : T.base[v] # NoAdr => U.base[v] = T.base[v]
  /\ U.wp <= MaxFile + 1 => Written(T) \subseteq Written(U)

LEMMA ExtendsTrans ==
  ASSUME NEW T, NEW U, NEW V, TypedTables(T), TypedTables(U), TypedTables(V),
         Extends(T, U), Extends(U, V)
  PROVE  Extends(T, V)
<1>1. T.wp \in Nat /\ U.wp \in Nat /\ V.wp \in Nat /\ MaxFile \in Nat
  BY TypedIs, VmmAssumption
<1>2. T.wp <= V.wp /\ (V.wp <= MaxFile + 1 => U.wp <= MaxFile + 1)
  BY <1>1 DEF Extends
<1>3. Extends(T, U) /\ Extends(U, V) OBVIOUS
<1> QED BY <1>2, <1>3 DEF Extends

LEMMA CarriedExtends ==
  ASSUME NEW T, NEW U, TypedTables(T), Carried(T, U)
  PROVE  Extends(T, U)
<1>1. \A x : FileAdr(U, x) = FileAdr(T, x) BY DEF Carried, FileAdr
<1>2. U.wp = T.wp /\ U.base = T.base /\ U.file = T.file BY DEF Carried
<1>3. Written(U) = Written(T) BY <1>1, <1>2 DEF Written
<1>4. T.wp \in Nat BY TypedIs
<1> QED BY <1>2, <1>3, <1>4 DEF Extends

(* A slice has its place in the extent of its variable, and no other slice *)
(* of it has a part of that place.                                         *)
LEMMA PlaceIs ==
  ASSUME NEW x, x \in Slices
  PROVE  /\ VarOf[x] \in Variables /\ Len8(x) \in Nat \ {0} /\ Len8(x) * Piece[x] \in Nat
         /\ Len8(x) * Piece[x] + Len8(x) <= Extent(VarOf[x])
<1> DEFINE v == VarOf[x]
           l == Length[v]
           p == Piece[x]
           q == Cardinality(Pieces(v))
<1>1. v \in Variables /\ p \in Nat BY VmmAssumption
<1>2. l \in Nat \ {0} BY <1>1, VmmAssumption
<1>3. Pieces(v) = {t \in Slices : VarOf[t] = v} BY DEF Pieces
<1>4. IsFiniteSet(Pieces(v))
  <2>1. Pieces(v) \subseteq Slices BY <1>3
  <2> QED BY <2>1, VmmAssumption, FS_Subset
<1>5. q \in Nat BY <1>4, FS_CardinalityType
<1>6. p < q BY <1>3, VmmAssumption
<1> HIDE DEF v, l, p, q
<1>7. l * p \in Nat /\ l * p + l <= q * l BY <1>1, <1>2, <1>5, <1>6, Multiples
<1> QED BY <1>1, <1>2, <1>7 DEF Len8, Extent, v, l, p, q

LEMMA ExtentIs ==
  ASSUME NEW v, v \in Variables
  PROVE  Extent(v) \in Nat
<1>1. Pieces(v) \subseteq Slices BY DEF Pieces
<1>2. Cardinality(Pieces(v)) \in Nat BY <1>1, VmmAssumption, FS_Subset, FS_CardinalityType
<1>3. Length[v] \in Nat BY VmmAssumption
<1> DEFINE l == Length[v]
           q == Cardinality(Pieces(v))
<1>4. l \in Nat /\ q \in Nat BY <1>2, <1>3
<1> HIDE DEF l, q
<1>5. q * l \in Nat BY <1>4
<1> QED BY <1>5 DEF l, q, Extent

LEMMA PlacesApart ==
  ASSUME NEW x, NEW y, x \in Slices, y \in Slices, x # y, VarOf[x] = VarOf[y]
  PROVE  \/ Len8(x) * Piece[x] + Len8(x) <= Len8(y) * Piece[y]
         \/ Len8(y) * Piece[y] + Len8(y) <= Len8(x) * Piece[x]
<1> DEFINE l == Length[VarOf[x]]
           p == Piece[x]
           q == Piece[y]
<1>1. p \in Nat /\ q \in Nat /\ l \in Nat BY VmmAssumption
<1>2. p # q BY VmmAssumption
<1>3. Len8(x) = l /\ Len8(y) = l BY DEF Len8
<1> HIDE DEF l, p, q
<1>4. p < q => l * p + l <= l * q BY <1>1, Multiples
<1>5. q < p => l * q + l <= l * p BY <1>1, Multiples
<1>6. p < q \/ q < p BY <1>1, <1>2
<1> QED BY <1>3, <1>4, <1>5, <1>6 DEF p, q

LEMMA AdrIs ==
  ASSUME NEW T, NEW x, TypedTables(T), Reserved(T.base, T.wp), x \in Slices, T.base[VarOf[x]] # NoAdr
  PROVE  LET a == FileAdr(T, x)
             v == VarOf[x]
         IN  /\ a \in Nat /\ a # NoAdr /\ T.base[v] <= a /\ a + Len8(x) <= T.base[v] + Extent(v)
             /\ a + Len8(x) <= T.wp
<1> DEFINE v == VarOf[x]
           at == T.base[v]
           l == Len8(x)
           k == Len8(x) * Piece[x]
           e == Extent(v)
<1>1. v \in Variables /\ l \in Nat \ {0} /\ k \in Nat /\ k + l <= e BY PlaceIs
<1>2. e \in Nat BY <1>1, ExtentIs
<1>3. at \in Nat /\ at # 0 /\ T.wp \in Nat BY <1>1, TypedIs DEF NoAdr
<1>4. at + e <= T.wp BY <1>1 DEF Reserved
<1>5. FileAdr(T, x) = at + k BY DEF FileAdr
<1> HIDE DEF v, at, l, k, e
<1>6. at + k \in Nat /\ at + k # 0 /\ at <= at + k /\ at + k + l <= at + e /\ at + k + l <= T.wp
  BY <1>1, <1>2, <1>3, <1>4
<1> QED BY <1>5, <1>6 DEF v, at, l, e, NoAdr

LEMMA AdrsApart ==
  ASSUME NEW T, NEW x, NEW y, TypedTables(T), Reserved(T.base, T.wp), x \in Slices, y \in Slices,
         x # y, FileAdr(T, x) # NoAdr, FileAdr(T, y) # NoAdr
  PROVE  \A w \in Words(FileAdr(T, x), x) : w \notin Words(FileAdr(T, y), y)
<1> DEFINE a == FileAdr(T, x)
           d == FileAdr(T, y)
           l == Len8(x)
           m == Len8(y)
           v == VarOf[x]
           u == VarOf[y]
<1>1. v \in Variables /\ u \in Variables /\ l \in Nat \ {0} /\ m \in Nat \ {0} BY PlaceIs
<1>2. T.base[v] # NoAdr /\ T.base[u] # NoAdr BY DEF FileAdr
<1>3. /\ a \in Nat /\ T.base[v] <= a /\ a + l <= T.base[v] + Extent(v)
      /\ d \in Nat /\ T.base[u] <= d /\ d + m <= T.base[u] + Extent(u)
  BY <1>2, AdrIs
<1>4. T.base[v] \in Nat /\ T.base[u] \in Nat /\ Extent(v) \in Nat /\ Extent(u) \in Nat
  BY <1>1, TypedIs, ExtentIs
<1>5. a + l <= d \/ d + m <= a
  <2>1. CASE v = u
    <3> DEFINE j == Len8(x) * Piece[x]
               k == Len8(y) * Piece[y]
               at == T.base[v]
    <3>1. j \in Nat /\ k \in Nat BY PlaceIs
    <3>2. j + l <= k \/ k + m <= j BY <2>1, PlacesApart
    <3>3. a = at + j /\ d = at + k BY <1>2, <2>1 DEF FileAdr
    <3>4. at \in Nat BY <1>4
    <3> HIDE DEF j, k, at, a, d, l, m
    <3> QED BY <1>1, <3>1, <3>2, <3>3, <3>4
  <2>2. CASE v # u
    <3>1. T.base[v] + Extent(v) <= T.base[u] \/ T.base[u] + Extent(u) <= T.base[v]
      BY <1>1, <1>2, <2>2 DEF Reserved
    <3> HIDE DEF a, d, l, m, v, u
    <3> QED BY <1>1, <1>3, <1>4, <3>1
  <2> QED BY <2>1, <2>2
<1>6. Words(a, x) = a .. a + l - 1 /\ Words(d, y) = d .. d + m - 1 BY DEF Words
<1> HIDE DEF a, d, l, m
<1>7. \A w \in a .. a + l - 1 : w \notin d .. d + m - 1 BY <1>1, <1>3, <1>5
<1> QED BY <1>6, <1>7 DEF a, d

---------------------------------------------------------------------------
(* Blocks and slices that change their marks only. *)

(* c are the blocks b with other marks: flags, place in the file, content. *)
Marked(b, c) ==
  /\ c \in Seq(Block) /\ Len(c) = Len(b)
  /\ \A j \in 1 .. Len(b) :
       /\ c[j].slice = b[j].slice /\ c[j].adr = b[j].adr /\ c[j].size = b[j].size
       /\ c[j].prev = b[j].prev /\ c[j].next = b[j].next

LEMMA MarkedMemory ==
  ASSUME NEW b, NEW c, NEW s, NEW t, NEW first, b \in Seq(Block), Marked(b, c), Memory(b, s, first),
         \A x \in Slices : t[x].bk = s[x].bk /\ (s[x].bk = 0 => ~t[x].locked),
         \A j \in 1 .. Len(b) : IF InUse(b[j]) THEN SameFlags(c[j], t[b[j].slice])
                                ELSE ~c[j].locked /\ ~c[j].keep
  PROVE  Memory(c, t, first)
<1>0. DOMAIN b = 1 .. Len(b) /\ DOMAIN c = 1 .. Len(b) /\ Len(b) \in Nat /\ Len(c) = Len(b)
  <2>1. c \in Seq(Block) /\ Len(c) = Len(b) BY DEF Marked
  <2> QED BY <2>1
<1>1. \A j \in 1 .. Len(b) :
        /\ c[j].slice = b[j].slice /\ c[j].adr = b[j].adr /\ c[j].size = b[j].size
        /\ c[j].prev = b[j].prev /\ c[j].next = b[j].next
  BY DEF Marked
<1>2. Names(b, s) /\ Tiled(b) /\ Listed(b, first) BY DEF Memory
<1>3. \A j \in 1 .. Len(b) : b[j] \in Block OBVIOUS
<1>4. Names(c, t)
  <2>1. ASSUME NEW j \in 1 .. Len(b), InUse(c[j])
        PROVE  /\ t[c[j].slice].bk = j /\ SameFlags(c[j], t[c[j].slice])
               /\ c[j].size = Len8(c[j].slice) /\ c[j].prev = 0 /\ c[j].next = 0
    <3>1. c[j].slice = b[j].slice /\ InUse(b[j]) BY <1>1, <2>1 DEF InUse
    <3>2. b[j].slice \in Slices BY <1>3, <3>1, BlockIs DEF InUse
    <3>3. s[b[j].slice].bk = j /\ b[j].size = Len8(b[j].slice) /\ b[j].prev = 0 /\ b[j].next = 0
      BY <1>0, <1>2, <3>1 DEF Names
    <3>4. SameFlags(c[j], t[b[j].slice]) BY <3>1
    <3>5. t[b[j].slice].bk = j BY <3>2, <3>3
    <3> QED BY <1>1, <3>1, <3>3, <3>4, <3>5
  <2>2. ASSUME NEW j \in 1 .. Len(b), ~InUse(c[j]) PROVE ~c[j].locked /\ ~c[j].keep
    <3>1. ~InUse(b[j]) BY <1>1, <2>2 DEF InUse
    <3> QED BY <3>1
  <2>3. ASSUME NEW x \in Slices
        PROVE  IF t[x].bk = 0 THEN ~t[x].locked ELSE t[x].bk \in 1 .. Len(b) /\ c[t[x].bk].slice = x
    <3>1. t[x].bk = s[x].bk BY <2>3
    <3>2. CASE s[x].bk = 0 BY <3>1, <3>2
    <3>3. CASE s[x].bk # 0
      <4>1. s[x].bk \in 1 .. Len(b) /\ b[s[x].bk].slice = x BY <1>0, <1>2, <3>3 DEF Names
      <4> QED BY <1>1, <3>1, <3>3, <4>1
    <3> QED BY <3>2, <3>3
  <2> QED BY <1>0, <2>1, <2>2, <2>3 DEF Names
<1>5. Tiled(c)
  <2>1. Len(b) >= 1 /\ b[1].adr = 0 /\ b[Len(b)].adr + b[Len(b)].size = MaxMem BY <1>2 DEF Tiled
  <2>2. \A j \in 1 .. Len(b) - 1 : b[j].adr + b[j].size = b[j + 1].adr BY <1>2 DEF Tiled
  <2>3. \A j \in 1 .. Len(b) - 1 : j \in 1 .. Len(b) /\ j + 1 \in 1 .. Len(b) BY <1>0
  <2>4. \A j \in 1 .. Len(b) - 1 : c[j].adr + c[j].size = c[j + 1].adr BY <1>1, <2>2, <2>3
  <2>5. 1 \in 1 .. Len(b) /\ Len(b) \in 1 .. Len(b) BY <1>0, <2>1
  <2>6. c[1].adr = 0 /\ c[Len(b)].adr + c[Len(b)].size = MaxMem BY <1>1, <2>1, <2>5
  <2> QED BY <1>0, <2>1, <2>4, <2>6 DEF Tiled
<1>6. \A j : j \in Free(c) <=> j \in Free(b)
  <2> SUFFICES ASSUME NEW j PROVE j \in Free(c) <=> j \in Free(b) OBVIOUS
  <2>1. CASE j \in 1 .. Len(b) BY <1>0, <1>1, <2>1, FreeIs
  <2>2. CASE j \notin 1 .. Len(b) BY <1>0, <2>2, FreeIs
  <2> QED BY <2>1, <2>2
<1>7. Free(c) = Free(b) BY <1>6
<1>8. Listed(c, first)
  <2>1. \A j \in Free(b) : NextIn(Free(b), j, b[j].next) /\ PrevIn(Free(b), j, b[j].prev)
    BY <1>2 DEF Listed, Linked
  <2>2. \A j \in Free(b) : c[j].next = b[j].next /\ c[j].prev = b[j].prev BY <1>0, <1>1, FreeIs
  <2>3. Linked(c) BY <1>7, <2>1, <2>2 DEF Linked
  <2> QED BY <1>2, <1>7, <2>3 DEF Listed
<1> QED BY <1>4, <1>5, <1>8 DEF Memory

LEMMA MarkedEven ==
  ASSUME NEW b, NEW c, Marked(b, c)
  PROVE  Even(b) => Even(c)
<1>1. \A j \in 1 .. Len(c) : j \in 1 .. Len(b) /\ c[j].adr = b[j].adr BY DEF Marked
<1>2. Grounds(b, c) BY <1>1 DEF Grounds
<1> QED BY <1>2, EvenStays

(* Nothing but marks that no call but the ones for them looks at: what a   *)
(* write to the file does.                                                 *)
Filed(T, U) ==
  /\ Marked(T.b, U.b) /\ U.first = T.first
  /\ \A j \in 1 .. Len(T.b) : U.b[j].keep = T.b[j].keep /\ U.b[j].locked = T.b[j].locked
  /\ \A x \in Slices : U.s[x].bk = T.s[x].bk /\ U.s[x].keep = T.s[x].keep
                       /\ U.s[x].locked = T.s[x].locked

LEMMA FiledTrans ==
  ASSUME NEW T, NEW U, NEW V, Filed(T, U), Filed(U, V)
  PROVE  Filed(T, V)
BY DEF Filed, Marked

LEMMA FiledStays ==
  ASSUME NEW T, NEW U, Good(T), Filed(T, U)
  PROVE  Stays(Slices, T, U)
<1> SUFFICES ASSUME NEW x \in Slices
             PROVE  U.s[x].locked = T.s[x].locked
                    /\ (T.s[x].locked => U.b[U.s[x].bk].adr = T.b[T.s[x].bk].adr)
  BY DEF Stays
<1>1. U.s[x].locked = T.s[x].locked /\ U.s[x].bk = T.s[x].bk BY DEF Filed
<1>2. ASSUME T.s[x].locked PROVE U.b[T.s[x].bk].adr = T.b[T.s[x].bk].adr
  <2>1. T.s[x].bk \in DOMAIN T.b BY <1>2 DEF Good, Memory, Names
  <2>2. T.b \in Seq(Block) BY TypedIs DEF Good
  <2>3. T.s[x].bk \in 1 .. Len(T.b) BY <2>1, <2>2
  <2> QED BY <2>3 DEF Filed, Marked
<1> QED BY <1>1, <1>2

\* U is T with bases at, first free word w, file f, blocks c, slices t
Refiled(T, U, at, w, f, c, t) ==
  /\ TypedTables(U) /\ U.base = at /\ U.wp = w /\ U.file = f /\ U.b = c /\ U.s = t
  /\ U.first = T.first /\ U.intact = T.intact

WithRoom(T, at, w, f, c) == [T EXCEPT !.base = at, !.wp = w, !.file = f, !.b = c]

LEMMA RefiledRoom ==
  ASSUME NEW T, NEW at, NEW w, NEW f, NEW c, TypedTables(T), at \in [Variables -> Nat],
         w \in Nat \ {0}, f \in [1 .. MaxFile -> Word], c \in Seq(Block)
  PROVE  Refiled(T, WithRoom(T, at, w, f, c), at, w, f, c, T.s)
BY DEF Refiled, TypedTables, WithRoom

WithWords(T, f, c, t) == [T EXCEPT !.file = f, !.b = c, !.s = t]

LEMMA RefiledWords ==
  ASSUME NEW T, NEW f, NEW c, NEW t, TypedTables(T), f \in [1 .. MaxFile -> Word],
         c \in Seq(Block), t \in [Slices -> Slice]
  PROVE  Refiled(T, WithWords(T, f, c, t), T.base, T.wp, f, c, t)
BY DEF Refiled, TypedTables, WithWords

LEMMA AtIs ==
  ASSUME NEW x, NEW a, x \in Block, a \in Nat
  PROVE  LET y == At(x, a)
         IN  /\ y \in Block /\ y.slice = x.slice /\ y.adr = x.adr /\ y.size = x.size /\ SameFlags(y, x)
             /\ y.prev = x.prev /\ y.next = x.next /\ y.file = a /\ y.cur = x.cur
BY DEF Block, At, SameFlags

LEMMA CleanedIs ==
  ASSUME NEW x, x \in Block
  PROVE  LET y == Cleaned(x)
         IN  /\ y \in Block /\ y.slice = x.slice /\ y.adr = x.adr /\ y.size = x.size
             /\ y.keep = x.keep /\ y.locked = x.locked /\ ~y.altered /\ ~y.was
             /\ y.prev = x.prev /\ y.next = x.next /\ y.file = x.file /\ y.cur = x.cur
BY DEF Block, Cleaned

LEMMA ImagedIs ==
  ASSUME NEW x, NEW image, x \in Slice, image \in BOOLEAN
  PROVE  LET y == Imaged(x, image)
         IN  /\ y \in Slice /\ y.bk = x.bk /\ y.keep = x.keep /\ y.locked = x.locked
             /\ ~y.altered /\ ~y.was /\ y.image = image
BY DEF Slice, Imaged, Cleaned

---------------------------------------------------------------------------
(* reserve_disk_space and ecrit_bloc. *)

LEMMA ReserveGood ==
  ASSUME NEW T, NEW v, Good(T), v \in Variables, T.base[v] = NoAdr
  PROVE  LET U == ReserveDiskSpace(T, v)
         IN  /\ Good(U) /\ Extends(T, U) /\ Filed(T, U) /\ Spares(T, U, {}) /\ U.s = T.s
             /\ U.base[v] # NoAdr
             /\ \A j \in 1 .. Len(T.b) : SameFlags(U.b[j], T.b[j]) /\ U.b[j].cur = T.b[j].cur
<1> DEFINE b == T.b
           s == T.s
           m == Len(b)
           at == [T.base EXCEPT ![v] = T.wp]
           V == [T EXCEPT !.base = at]
           last == T.wp + Extent(v) - 1
           new == last + 1
           Own(j) == \E p \in Pieces(v) : s[p].bk = j
           c == [j \in DOMAIN b |-> IF Own(j) THEN At(b[j], FileAdr(V, b[j].slice)) ELSE b[j]]
           f == [w \in DOMAIN T.file |-> IF w \in T.wp .. last THEN NoWord ELSE T.file[w]]
           U == ReserveDiskSpace(T, v)
<1>1. TypedTables(T) /\ Memory(b, s, T.first) /\ Told(T) /\ Reserved(T.base, T.wp) /\ ImagesWritten(T)
  BY DEF Good
<1>2. /\ b \in Seq(Block) /\ s \in [Slices -> Slice] /\ T.base \in [Variables -> Nat]
      /\ T.wp \in Nat \ {0} /\ T.file \in [1 .. MaxFile -> Word]
  BY <1>1, TypedIs
<1>3. DOMAIN b = 1 .. m /\ m \in Nat /\ \A j \in 1 .. m : b[j] \in Block BY <1>2
<1>4. Extent(v) \in Nat /\ new \in Nat \ {0} /\ new = T.wp + Extent(v)
  <2>1. Extent(v) \in Nat BY ExtentIs
  <2> QED BY <1>2, <2>1
<1>5. U = WithRoom(T, at, new, f, c)
  <2>1. V.base = at /\ V.wp = T.wp /\ V.b = b /\ V.file = T.file BY <1>1 DEF TypedTables
  <2>2. U = [V EXCEPT !.wp = new, !.file = f, !.b = c]
    <3> HIDE DEF b
    <3> QED BY <2>1 DEF ReserveDiskSpace, b
  <2> HIDE DEF U, at, new, f, c
  <2> QED BY <2>2 DEF WithRoom
<1>6. /\ at \in [Variables -> Nat] /\ at[v] = T.wp /\ T.wp # NoAdr
      /\ \A u \in Variables : u # v => at[u] = T.base[u]
  BY <1>2 DEF NoAdr
<1>7. V.base = at BY <1>1 DEF TypedTables
<1> HIDE DEF at, V
<1>8. \A j \in 1 .. m : Own(j) <=> InUse(b[j]) /\ VarOf[b[j].slice] = v
  <2> SUFFICES ASSUME NEW j \in 1 .. m PROVE Own(j) <=> InUse(b[j]) /\ VarOf[b[j].slice] = v OBVIOUS
  <2>0. Names(b, s) BY <1>1 DEF Memory
  <2>1. ASSUME Own(j) PROVE InUse(b[j]) /\ VarOf[b[j].slice] = v
    <3>1. PICK p \in Pieces(v) : s[p].bk = j BY <2>1
    <3>2. p \in Slices /\ VarOf[p] = v BY DEF Pieces
    <3>3. b[j].slice = p BY <1>3, <2>0, <3>1, <3>2 DEF Names
    <3> QED BY <3>2, <3>3, VmmAssumption DEF InUse
  <2>2. ASSUME InUse(b[j]), VarOf[b[j].slice] = v PROVE Own(j)
    <3> DEFINE p == b[j].slice
    <3>1. p \in Slices /\ s[p].bk = j BY <1>3, <2>0, <2>2, BlockIs DEF InUse, Names
    <3>2. p \in Pieces(v) BY <2>2, <3>1 DEF Pieces
    <3> HIDE DEF p
    <3> QED BY <3>1, <3>2
  <2> QED BY <2>1, <2>2
<1> HIDE DEF Own
<1>9. DOMAIN c = 1 .. m /\ \A j \in 1 .. m : c[j] = IF Own(j) THEN At(b[j], FileAdr(V, b[j].slice)) ELSE b[j]
  BY <1>3
<1>10. c = [j \in 1 .. m |-> c[j]] BY <1>3
<1>11. f \in [1 .. MaxFile -> Word]
  <2>1. NoWord \in Word BY DEF NoWord, Word
  <2> HIDE DEF new, last, b, s
  <2> QED BY <1>2, <2>1
<1>12. \A w \in 1 .. MaxFile : w < T.wp => f[w] = T.file[w]
  <2> SUFFICES ASSUME NEW w \in 1 .. MaxFile, w < T.wp PROVE f[w] = T.file[w] OBVIOUS
  <2> DEFINE first == T.wp
  <2>1. w \in DOMAIN T.file /\ w < first /\ first \in Nat BY <1>2
  <2>2. f[w] = IF w \in first .. last THEN NoWord ELSE T.file[w] BY <2>1
  <2> HIDE DEF f, first, last
  <2>3. w \in Nat OBVIOUS
  <2>4. w \notin first .. last BY <2>1, <2>3
  <2> QED BY <2>2, <2>4
<1> HIDE DEF b, s, m, c, f, new, U
<1>13. ASSUME NEW x \in Slices, VarOf[x] = v PROVE FileAdr(V, x) \in Nat
  <2>1. Len8(x) * Piece[x] \in Nat BY PlaceIs
  <2>2. FileAdr(V, x) = at[v] + Len8(x) * Piece[x] BY <1>6, <1>7, <1>13 DEF FileAdr
  <2> DEFINE k == Len8(x) * Piece[x]
             w == at[v]
  <2>3. k \in Nat /\ w \in Nat BY <1>2, <1>6, <2>1
  <2> HIDE DEF k, w
  <2>4. w + k \in Nat BY <2>3
  <2> QED BY <2>2, <2>4 DEF k, w
<1>14. ASSUME NEW j \in 1 .. m
       PROVE  /\ c[j] \in Block /\ c[j].slice = b[j].slice /\ c[j].adr = b[j].adr
              /\ c[j].size = b[j].size /\ SameFlags(c[j], b[j]) /\ c[j].cur = b[j].cur
              /\ c[j].prev = b[j].prev /\ c[j].next = b[j].next
              /\ c[j].file = IF Own(j) THEN FileAdr(V, b[j].slice) ELSE b[j].file
  <2>1. CASE Own(j)
    <3> DEFINE x == b[j]
               a == FileAdr(V, x.slice)
    <3>1. x.slice \in Slices /\ VarOf[x.slice] = v /\ x \in Block BY <1>3, <1>8, <2>1, BlockIs DEF InUse
    <3>2. a \in Nat BY <1>13, <3>1
    <3>3. c[j] = At(x, a) BY <1>9, <2>1
    <3> HIDE DEF x, a
    <3> DEFINE y == At(x, a)
    <3>4. /\ y \in Block /\ y.slice = x.slice /\ y.adr = x.adr /\ y.size = x.size /\ SameFlags(y, x)
          /\ y.prev = x.prev /\ y.next = x.next /\ y.file = a /\ y.cur = x.cur
      BY <3>1, <3>2, AtIs
    <3> HIDE DEF y
    <3> QED BY <2>1, <3>3, <3>4 DEF y, x, a
  <2>2. CASE ~Own(j) BY <1>3, <1>9, <2>2 DEF SameFlags
  <2> QED BY <2>1, <2>2
<1>15. c \in Seq(Block) /\ Len(c) = m /\ Marked(b, c)
  <2>1. c \in [1 .. m -> Block] BY <1>10, <1>14
  <2>2. c \in Seq(Block) /\ Len(c) = m BY <1>3, <1>9, <2>1
  <2> QED BY <1>14, <2>2 DEF Marked, m
<1>16. Refiled(T, U, at, new, f, c, s) BY <1>1, <1>4, <1>5, <1>6, <1>11, <1>15, RefiledRoom DEF s
<1>17. U.b = c /\ U.s = s /\ U.base = at /\ U.wp = new /\ U.file = f /\ U.first = T.first /\ TypedTables(U)
  BY <1>16 DEF Refiled
<1>18. Memory(c, s, T.first)
  <2>1. \A x \in Slices : s[x].bk = s[x].bk /\ (s[x].bk = 0 => ~s[x].locked)
    BY <1>1 DEF Memory, Names
  <2>2. \A j \in 1 .. Len(b) : IF InUse(b[j]) THEN SameFlags(c[j], s[b[j].slice])
                                ELSE ~c[j].locked /\ ~c[j].keep
    BY <1>1, <1>3, <1>14 DEF Memory, Names, SameFlags, m
  <2> DEFINE first == T.first
  <2>3. Memory(b, s, first) BY <1>1
  <2> HIDE DEF first
  <2>4. Memory(c, s, first) BY <1>2, <1>15, <2>1, <2>2, <2>3, MarkedMemory
  <2> QED BY <2>4 DEF first
<1>19. Filed(T, U) BY <1>14, <1>15, <1>17 DEF Filed, SameFlags, b, s, m
<1>20. \A x \in Slices : FileAdr(U, x) = FileAdr(V, x) BY <1>7, <1>17 DEF FileAdr
<1>21. \A x \in Slices : VarOf[x] # v => FileAdr(U, x) = FileAdr(T, x)
  <2>1. \A x \in Slices : VarOf[x] \in Variables BY PlaceIs
  <2> QED BY <1>6, <1>17, <2>1 DEF FileAdr
<1>22. Told(U)
  <2> SUFFICES ASSUME NEW j \in 1 .. m, InUse(c[j]) PROVE c[j].file = FileAdr(U, c[j].slice)
    BY <1>9, <1>17 DEF Told
  <2>1. InUse(b[j]) /\ c[j].slice = b[j].slice /\ b[j].slice \in Slices
    BY <1>3, <1>14, BlockIs DEF InUse
  <2>2. CASE Own(j) BY <1>14, <1>20, <2>1, <2>2
  <2>3. CASE ~Own(j)
    <3>1. b[j].file = FileAdr(T, b[j].slice) BY <1>1, <1>3, <2>1 DEF Told, b
    <3> QED BY <1>8, <1>14, <1>21, <2>1, <2>3, <3>1
  <2> QED BY <2>2, <2>3
<1>23. Reserved(U.base, U.wp)
  <2> SUFFICES ASSUME NEW x \in Variables, NEW u \in Variables, at[x] # NoAdr
               PROVE  /\ at[x] + Extent(x) <= new
                      /\ at[u] # NoAdr /\ u # x => at[x] + Extent(x) <= at[u] \/ at[u] + Extent(u) <= at[x]
    BY <1>17 DEF Reserved
  <2>1. Extent(x) \in Nat /\ Extent(u) \in Nat /\ at[x] \in Nat /\ at[u] \in Nat BY <1>6, ExtentIs
  <2>2. ASSUME NEW z \in Variables, z # v, at[z] # NoAdr PROVE at[z] + Extent(z) <= T.wp
    BY <1>1, <1>6, <2>2 DEF Reserved
  <2>3. at[x] + Extent(x) <= new
    <3>1. CASE x = v BY <1>2, <1>4, <1>6, <3>1
    <3>2. CASE x # v
      <4>1. at[x] + Extent(x) <= T.wp BY <2>2, <3>2
      <4> DEFINE a == at[x] + Extent(x)
                 w == T.wp
                 d == Extent(v)
      <4>2. a \in Nat /\ w \in Nat /\ d \in Nat /\ a <= w /\ new = w + d BY <1>2, <1>4, <2>1, <4>1
      <4> HIDE DEF a, w, d
      <4>3. a <= new BY <4>2
      <4> QED BY <4>3 DEF a
    <3> QED BY <3>1, <3>2
  <2>4. ASSUME at[u] # NoAdr, u # x PROVE at[x] + Extent(x) <= at[u] \/ at[u] + Extent(u) <= at[x]
    <3>1. CASE x = v BY <1>6, <2>2, <2>4, <3>1
    <3>2. CASE u = v BY <1>6, <2>2, <2>4, <3>2
    <3>3. CASE x # v /\ u # v BY <1>1, <1>6, <2>4, <3>3 DEF Reserved
    <3> QED BY <3>1, <3>2, <3>3
  <2> QED BY <2>3, <2>4
<1>28. ASSUME U.wp <= MaxFile + 1, NEW x \in Slices, FileAdr(T, x) # NoAdr
       PROVE  /\ FileAdr(U, x) = FileAdr(T, x)
              /\ \A w \in Words(FileAdr(T, x), x) : U.file[w] = T.file[w]
  <2>2. T.base[VarOf[x]] # NoAdr BY <1>28 DEF FileAdr
  <2> DEFINE a == FileAdr(T, x)
             l == Len8(x)
  <2>3. a \in Nat /\ a # NoAdr /\ a + l <= T.wp BY <1>1, <2>2, AdrIs
  <2>4. l \in Nat BY PlaceIs
  <2>5. FileAdr(U, x) = a
    <3>1. VarOf[x] # v BY <2>2
    <3> QED BY <1>21, <3>1
  <2>6. Words(a, x) = a .. a + l - 1 BY DEF Words
  <2> HIDE DEF a, l
  <2>7. T.wp <= MaxFile + 1 /\ MaxFile \in Nat BY <1>2, <1>4, <1>17, <1>28, VmmAssumption
  <2>8. ASSUME NEW w \in a .. a + l - 1 PROVE f[w] = T.file[w]
    <3>1. w \in 1 .. MaxFile /\ w < T.wp BY <1>2, <2>3, <2>4, <2>7 DEF NoAdr
    <3> QED BY <1>12, <3>1
  <2> QED BY <1>17, <2>5, <2>6, <2>8 DEF a
<1>24. ASSUME U.wp <= MaxFile + 1, NEW x \in Slices, x \in Written(T) PROVE x \in Written(U)
  BY <1>24, <1>28 DEF Written
<1>25. Extends(T, U)
  <2>1. T.wp <= U.wp BY <1>2, <1>4, <1>17
  <2>2. \A u \in Variables : T.base[u] # NoAdr => U.base[u] = T.base[u] BY <1>6, <1>17
  <2>3. Written(T) \subseteq Slices BY DEF Written
  <2> QED BY <1>24, <2>1, <2>2, <2>3 DEF Extends
<1>26. ImagesWritten(U)
  <2> SUFFICES ASSUME U.wp <= MaxFile + 1, NEW x \in Slices, s[x].image PROVE x \in Written(U)
    BY <1>17 DEF ImagesWritten
  <2>1. T.wp <= MaxFile + 1 BY <1>2, <1>4, <1>17, VmmAssumption
  <2>2. x \in Written(T) BY <1>1, <2>1 DEF ImagesWritten, s
  <2> QED BY <1>24, <2>2
<1>27. Good(U) BY <1>17, <1>18, <1>22, <1>23, <1>26 DEF Good
<1>29. Spares(T, U, {})
  <2>1. \A x \in Slices : Marks(U, x) = Marks(T, x) BY <1>17 DEF Marks, s
  <2>2. Even(T.b) => Even(U.b) BY <1>15, <1>17, MarkedEven DEF b
  <2>3. ASSUME U.wp <= MaxFile + 1, NEW x \in Slices, OnDisk(T, x) PROVE OnDisk(U, x)
    BY <1>17, <1>28, <2>3 DEF OnDisk, OnFile, s
  <2>4. ASSUME NEW x \in Slices, T.s[x].bk # 0 PROVE U.b[T.s[x].bk].cur = T.b[T.s[x].bk].cur
    <3>1. T.s[x].bk \in 1 .. m BY <1>1, <1>3, <2>4 DEF Memory, Names, s
    <3> QED BY <1>14, <1>17, <3>1 DEF b
  <2>5. \A x \in Slices : U.wp <= MaxFile + 1 /\ Sound(T, x) => Sound(U, x)
    BY <1>17, <2>1, <2>3, <2>4 DEF Sound, s
  <2>6. T.wp <= U.wp BY <1>25 DEF Extends
  <2> QED BY <2>1, <2>2, <2>5, <2>6 DEF Spares
<1> QED BY <1>6, <1>14, <1>17, <1>19, <1>25, <1>27, <1>29 DEF U, s, b, m

LEMMA EcritGood ==
  ASSUME NEW T, NEW i, Good(T), i \in 1 .. Len(T.b), InUse(T.b[i]), T.b[i].file # NoAdr
  PROVE  LET U == EcritBloc(T, i)
         IN  /\ Good(U) /\ Extends(T, U) /\ Filed(T, U) /\ Spares(T, U, {})
             /\ (T.b[i].cur /\ U.wp <= MaxFile + 1 => OnDisk(U, T.b[i].slice))
             /\ ~U.b[i].altered /\ ~U.b[i].was
             /\ \A j \in (1 .. Len(T.b)) \ {i} : U.b[j] = T.b[j]
<1> DEFINE b == T.b
           s == T.s
           m == Len(b)
           y == b[i].slice
           a == b[i].file
           word == [of |-> y, cur |-> b[i].cur]
           c == [b EXCEPT ![i] = Cleaned(@)]
           t == [s EXCEPT ![y] = Imaged(@, TRUE)]
           f == [w \in DOMAIN T.file |-> IF w \in Words(a, y) THEN word ELSE T.file[w]]
           U == EcritBloc(T, i)
<1>1. TypedTables(T) /\ Memory(b, s, T.first) /\ Told(T) /\ Reserved(T.base, T.wp) /\ ImagesWritten(T)
  BY DEF Good
<1>2. /\ b \in Seq(Block) /\ s \in [Slices -> Slice] /\ T.base \in [Variables -> Nat]
      /\ T.wp \in Nat \ {0} /\ T.file \in [1 .. MaxFile -> Word]
  BY <1>1, TypedIs
<1>3. DOMAIN b = 1 .. m /\ m \in Nat /\ i \in 1 .. m /\ \A j \in 1 .. m : b[j] \in Block BY <1>2
<1>4. y \in Slices /\ InUse(b[i]) /\ a # NoAdr BY <1>3, BlockIs DEF InUse
<1>5. a = FileAdr(T, y) BY <1>1, <1>3, <1>4 DEF Told
<1>6. U = WithWords(T, f, c, t) BY DEF EcritBloc, WithWords
<1> HIDE DEF U
<1>7. c \in Seq(Block) /\ Len(c) = m /\ DOMAIN c = 1 .. m /\ c[i] = Cleaned(b[i]) /\ Cleaned(b[i]) \in Block
      /\ \A j \in (1 .. m) \ {i} : c[j] = b[j]
  <2> DEFINE z == Cleaned(b[i])
  <2>1. z \in Block BY <1>3, CleanedIs
  <2>2. c = [b EXCEPT ![i] = z] OBVIOUS
  <2> HIDE DEF z, b, c
  <2>3. c \in Seq(Block) /\ Len(c) = m /\ DOMAIN c = 1 .. m /\ c[i] = z /\ \A j \in (1 .. m) \ {i} : c[j] = b[j]
    BY <1>2, <1>3, <2>1, <2>2
  <2> QED BY <2>1, <2>3 DEF z
<1>8. t \in [Slices -> Slice] /\ t[y] = Imaged(s[y], TRUE) /\ \A x \in Slices : x # y => t[x] = s[x]
  <2> DEFINE z == Imaged(s[y], TRUE)
  <2>1. z \in Slice BY <1>2, <1>4, ImagedIs
  <2>2. t = [s EXCEPT ![y] = z] OBVIOUS
  <2> HIDE DEF z, s, t, y
  <2>3. t \in [Slices -> Slice] /\ t[y] = z /\ \A x \in Slices : x # y => t[x] = s[x]
    BY <1>2, <1>4, <2>1, <2>2
  <2> QED BY <2>3 DEF z
<1>9. /\ c[i].slice = y /\ c[i].adr = b[i].adr /\ c[i].size = b[i].size /\ c[i].keep = b[i].keep
      /\ c[i].locked = b[i].locked /\ ~c[i].altered /\ ~c[i].was
      /\ c[i].prev = b[i].prev /\ c[i].next = b[i].next /\ c[i].file = a /\ c[i].cur = b[i].cur
  <2> DEFINE z == b[i]
  <2>1. z \in Block /\ c[i] = Cleaned(z) BY <1>3, <1>7
  <2> HIDE DEF z, c
  <2> QED BY <2>1, CleanedIs DEF z
<1>10. /\ t[y].bk = s[y].bk /\ t[y].keep = s[y].keep /\ t[y].locked = s[y].locked
       /\ ~t[y].altered /\ ~t[y].was /\ t[y].image
  <2> DEFINE z == s[y]
             on == TRUE
             u == t[y]
  <2>1. z \in Slice /\ u = Imaged(z, on) /\ on \in BOOLEAN BY <1>2, <1>4, <1>8
  <2> HIDE DEF z, u, on
  <2> DEFINE w == Imaged(z, on)
  <2>2. w.bk = z.bk /\ w.keep = z.keep /\ w.locked = z.locked /\ ~w.altered /\ ~w.was /\ w.image = on
    BY <2>1, ImagedIs
  <2> HIDE DEF w
  <2>3. u.bk = z.bk /\ u.keep = z.keep /\ u.locked = z.locked /\ ~u.altered /\ ~u.was /\ u.image = on
    BY <2>1, <2>2 DEF w
  <2> QED BY <2>3 DEF z, u, on
<1>11. word \in Word /\ word.of = y /\ word.cur = b[i].cur
  <2>1. b[i].cur \in BOOLEAN BY <1>3, BlockIs
  <2> HIDE DEF y, b
  <2> QED BY <1>4, <2>1 DEF Word
<1> HIDE DEF word
<1>12. f \in [1 .. MaxFile -> Word]
       /\ \A w \in 1 .. MaxFile : f[w] = IF w \in Words(a, y) THEN word ELSE T.file[w]
  <2> HIDE DEF a, y
  <2> QED BY <1>2, <1>11
<1> HIDE DEF c, t, f
<1>13. Refiled(T, U, T.base, T.wp, f, c, t)
  <2> HIDE DEF b, s
  <2> QED BY <1>1, <1>6, <1>7, <1>8, <1>12, RefiledWords
<1>14. U.b = c /\ U.s = t /\ U.base = T.base /\ U.wp = T.wp /\ U.file = f /\ U.first = T.first /\ TypedTables(U)
  BY <1>13 DEF Refiled
<1> HIDE DEF b, s, m, y, a
<1>15. Marked(b, c) BY <1>7, <1>9 DEF Marked, m, y
<1>16. Names(b, s) BY <1>1 DEF Memory
<1>17. s[y].bk = i /\ SameFlags(b[i], s[y]) BY <1>3, <1>4, <1>16 DEF Names, y
<1>18. Memory(c, t, T.first)
  <2>1. \A x \in Slices : t[x].bk = s[x].bk /\ (s[x].bk = 0 => ~t[x].locked)
    BY <1>8, <1>10, <1>16 DEF Names
  <2>2. ASSUME NEW j \in 1 .. Len(b)
        PROVE  IF InUse(b[j]) THEN SameFlags(c[j], t[b[j].slice]) ELSE ~c[j].locked /\ ~c[j].keep
    <3>1. CASE j = i
      <4>1. c[i] \in Block /\ t[y] \in Slice BY <1>4, <1>7, <1>8
      <4>2. c[i].altered \in BOOLEAN /\ c[i].was \in BOOLEAN /\ t[y].altered \in BOOLEAN /\ t[y].was \in BOOLEAN
        BY <4>1, BlockIs, SliceIs
      <4>3. c[i].altered = t[y].altered /\ c[i].was = t[y].was BY <1>9, <1>10, <4>2
      <4> QED BY <1>4, <1>9, <1>10, <1>17, <3>1, <4>3 DEF SameFlags, y
    <3>2. CASE j # i
      <4>1. c[j] = b[j] /\ j \in DOMAIN b BY <1>3, <1>7, <2>2, <3>2 DEF m
      <4>2. CASE InUse(b[j])
        <5>1. b[j].slice \in Slices BY <1>3, <2>2, <4>2, BlockIs DEF InUse, m
        <5>2. s[b[j].slice].bk = j /\ SameFlags(b[j], s[b[j].slice]) BY <1>16, <4>1, <4>2 DEF Names
        <5>3. b[j].slice # y BY <1>17, <3>2, <5>2
        <5> QED BY <1>8, <4>1, <4>2, <5>1, <5>2, <5>3
      <4>3. CASE ~InUse(b[j]) BY <1>16, <4>1, <4>3 DEF Names
      <4> QED BY <4>2, <4>3
    <3> QED BY <3>1, <3>2
  <2> DEFINE first == T.first
  <2>3. Memory(b, s, first) BY <1>1
  <2> HIDE DEF first
  <2>4. Memory(c, t, first) BY <1>2, <1>15, <2>1, <2>2, <2>3, MarkedMemory
  <2> QED BY <2>4 DEF first
<1>19. Filed(T, U)
  <2>1. \A j \in 1 .. m : c[j].keep = b[j].keep /\ c[j].locked = b[j].locked BY <1>7, <1>9
  <2>2. \A x \in Slices : t[x].bk = s[x].bk /\ t[x].keep = s[x].keep /\ t[x].locked = s[x].locked
    BY <1>8, <1>10
  <2> QED BY <1>14, <1>15, <2>1, <2>2 DEF Filed, b, s, m
<1>20. \A x \in Slices : FileAdr(U, x) = FileAdr(T, x) BY <1>14 DEF FileAdr
<1>21. Told(U)
  <2> SUFFICES ASSUME NEW j \in 1 .. m, InUse(c[j]) PROVE c[j].file = FileAdr(U, c[j].slice)
    BY <1>7, <1>14 DEF Told
  <2>1. c[j].slice = b[j].slice /\ c[j].file = b[j].file /\ InUse(b[j])
    BY <1>7, <1>9 DEF a, y, InUse
  <2>2. b[j].slice \in Slices BY <1>3, <2>1, BlockIs DEF InUse
  <2>3. b[j].file = FileAdr(T, b[j].slice) BY <1>1, <1>3, <2>1 DEF Told, b
  <2> QED BY <1>20, <2>1, <2>2, <2>3
<1>22. Reserved(U.base, U.wp) BY <1>1, <1>14
<1>23. T.base[VarOf[y]] # NoAdr BY <1>4, <1>5 DEF FileAdr
<1>28. ASSUME U.wp <= MaxFile + 1, NEW x \in Slices, FileAdr(T, x) # NoAdr
       PROVE  /\ FileAdr(U, x) = FileAdr(T, x)
              /\ \A w \in Words(FileAdr(T, x), x) : U.file[w] = IF x = y THEN word ELSE T.file[w]
  <2>2. T.base[VarOf[x]] # NoAdr BY <1>28 DEF FileAdr
  <2> DEFINE d == FileAdr(T, x)
             l == Len8(x)
             end == T.wp
  <2>3. d \in Nat /\ d # NoAdr /\ d + l <= end BY <1>1, <2>2, AdrIs
  <2>4. l \in Nat /\ end \in Nat BY <1>2, PlaceIs
  <2>5. FileAdr(U, x) = d BY <1>20
  <2>6. Words(d, x) = d .. d + l - 1 BY DEF Words
  <2>7. end <= MaxFile + 1 /\ MaxFile \in Nat BY <1>14, <1>28, VmmAssumption
  <2> HIDE DEF d, l, end
  <2>8. \A w \in d .. d + l - 1 : w \in 1 .. MaxFile BY <2>3, <2>4, <2>7 DEF NoAdr
  <2>9. \A w \in Words(d, x) : f[w] = IF w \in Words(a, y) THEN word ELSE T.file[w]
    BY <1>12, <2>6, <2>8
  <2>10. \A w \in Words(d, x) : f[w] = IF x = y THEN word ELSE T.file[w]
    <3>1. CASE x = y BY <1>5, <2>9, <3>1 DEF d
    <3>2. CASE x # y
      <4>1. \A w \in Words(d, x) : w \notin Words(a, y)
        BY <1>1, <1>4, <1>5, <1>28, <3>2, AdrsApart DEF d
      <4> QED BY <2>9, <3>2, <4>1
    <3> QED BY <3>1, <3>2
  <2> QED BY <1>14, <2>5, <2>10 DEF d
<1>24. ASSUME U.wp <= MaxFile + 1, NEW x \in Slices, x \in Written(T) \/ x = y PROVE x \in Written(U)
  <2>1. FileAdr(T, x) # NoAdr /\ (x # y => \A w \in Words(FileAdr(T, x), x) : T.file[w].of = x)
    BY <1>4, <1>5, <1>24 DEF Written
  <2>2. /\ FileAdr(U, x) = FileAdr(T, x)
        /\ \A w \in Words(FileAdr(T, x), x) : U.file[w] = IF x = y THEN word ELSE T.file[w]
    BY <1>24, <1>28, <2>1
  <2>3. \A w \in Words(FileAdr(U, x), x) : U.file[w].of = x BY <1>11, <2>1, <2>2
  <2> QED BY <2>1, <2>2, <2>3 DEF Written
<1>25. Extends(T, U)
  <2>1. T.wp <= U.wp BY <1>2, <1>14
  <2>2. Written(T) \subseteq Slices BY DEF Written
  <2> QED BY <1>14, <1>24, <2>1, <2>2 DEF Extends
<1>26. ImagesWritten(U)
  <2> SUFFICES ASSUME U.wp <= MaxFile + 1, NEW x \in Slices, t[x].image PROVE x \in Written(U)
    BY <1>14 DEF ImagesWritten
  <2>1. CASE x = y BY <1>24, <2>1
  <2>2. CASE x # y
    <3>1. s[x].image BY <1>8, <2>2
    <3>2. x \in Written(T) BY <1>1, <1>14, <3>1 DEF ImagesWritten, s
    <3> QED BY <1>24, <3>2
  <2> QED BY <2>1, <2>2
<1>27. Good(U) BY <1>14, <1>18, <1>21, <1>22, <1>26 DEF Good
<1>29. ASSUME b[i].cur, U.wp <= MaxFile + 1 PROVE OnDisk(U, y)
  <2>1. FileAdr(T, y) # NoAdr BY <1>4, <1>5
  <2>2. FileAdr(U, y) = FileAdr(T, y) /\ \A w \in Words(FileAdr(T, y), y) : U.file[w] = word
    BY <1>4, <1>28, <1>29, <2>1
  <2>3. word = [of |-> y, cur |-> TRUE]
    <3>1. word = [of |-> y, cur |-> b[i].cur] BY DEF word, y, b
    <3>2. b[i].cur = TRUE BY <1>3, <1>29, BlockIs
    <3> QED BY <3>1, <3>2
  <2>4. U.s[y].image BY <1>10, <1>14
  <2> QED BY <2>1, <2>2, <2>3, <2>4 DEF OnDisk, OnFile
<1>30. Spares(T, U, {})
  <2>1. \A x \in Slices : Marks(U, x) => Marks(T, x) BY <1>8, <1>10, <1>14 DEF Marks, s
  <2>2. Even(T.b) => Even(U.b) BY <1>14, <1>15, MarkedEven DEF b
  <2>3. \A j \in 1 .. m : U.b[j].cur = T.b[j].cur BY <1>7, <1>9, <1>14 DEF b
  <2>4. ASSUME NEW x \in Slices, T.s[x].bk # 0 PROVE U.b[T.s[x].bk].cur = T.b[T.s[x].bk].cur
    <3>1. T.s[x].bk \in 1 .. m BY <1>3, <1>16, <2>4 DEF Names, s
    <3> QED BY <2>3, <3>1
  <2>5. \A x \in Slices : U.s[x].bk = T.s[x].bk BY <1>8, <1>10, <1>14 DEF s
  <2>6. ASSUME U.wp <= MaxFile + 1, NEW x \in Slices, Sound(T, x) PROVE Sound(U, x)
    <3>1. CASE x = y
      <4>1. T.s[y].bk = i /\ i # 0 BY <1>3, <1>17 DEF s
      <4>2. b[i].cur BY <2>6, <3>1, <4>1 DEF Sound, b
      <4> QED BY <1>29, <2>4, <2>5, <2>6, <3>1, <4>1, <4>2 DEF Sound, b
    <3>2. CASE x # y
      <4>1. U.s[x] = T.s[x] BY <1>8, <1>14, <3>2 DEF s
      <4>2. OnDisk(T, x) => OnDisk(U, x) BY <1>28, <2>6, <3>2, <4>1 DEF OnDisk, OnFile
      <4> QED BY <2>4, <2>6, <4>1, <4>2 DEF Sound, Marks
    <3> QED BY <3>1, <3>2
  <2>7. T.wp <= U.wp BY <1>25 DEF Extends
  <2> QED BY <2>1, <2>2, <2>6, <2>7 DEF Spares
<1> QED BY <1>7, <1>9, <1>14, <1>19, <1>25, <1>27, <1>29, <1>30 DEF U, b, m, y

LEMMA SaveGood ==
  ASSUME NEW T, NEW i, Good(T), i \in 1 .. Len(T.b), InUse(T.b[i])
  PROVE  LET U == Save(T, i)
         IN  /\ Good(U) /\ Extends(T, U) /\ Filed(T, U) /\ Spares(T, U, {})
             /\ (T.b[i].cur /\ U.wp <= MaxFile + 1 => OnDisk(U, T.b[i].slice))
             /\ ~U.b[i].altered /\ ~U.b[i].was
             /\ \A j \in (1 .. Len(T.b)) \ {i} : SameFlags(U.b[j], T.b[j])
<1> DEFINE y == T.b[i].slice
           v == VarOf[y]
           R == IF T.b[i].file = NoAdr THEN ReserveDiskSpace(T, v) ELSE T
           U == Save(T, i)
<1>1. TypedTables(T) /\ Memory(T.b, T.s, T.first) /\ Told(T) /\ Reserved(T.base, T.wp) BY DEF Good
<1>2. T.b \in Seq(Block) /\ T.b[i] \in Block BY <1>1, TypedIs
<1>3. y \in Slices BY <1>2, BlockIs DEF InUse
<1>4. v \in Variables BY <1>3, PlaceIs
<1>5. T.b[i].file = FileAdr(T, y) BY <1>1, <1>2 DEF Told
<1>6. T.b[i].file = NoAdr <=> T.base[v] = NoAdr
  BY <1>1, <1>3, <1>5, AdrIs DEF FileAdr
<1>7. U = EcritBloc(R, i) BY DEF Save
<1> HIDE DEF U, R, v
<1>8. /\ Good(R) /\ Extends(T, R) /\ Filed(T, R) /\ Spares(T, R, {}) /\ R.base[v] # NoAdr
      /\ \A j \in 1 .. Len(T.b) : SameFlags(R.b[j], T.b[j]) /\ R.b[j].cur = T.b[j].cur
  <2>1. CASE T.base[v] = NoAdr
    <3>1. R = ReserveDiskSpace(T, v) BY <1>6, <2>1 DEF R
    <3> QED BY <1>4, <2>1, <3>1, ReserveGood
  <2>2. CASE T.base[v] # NoAdr
    <3>1. R = T BY <1>6, <2>2 DEF R
    <3>2. Carried(T, T)
      <4>1. ASSUME NEW x \in Slices, T.s[x].bk # 0 PROVE T.b[T.s[x].bk].file = FileAdr(T, x)
        <5>1. T.s[x].bk \in DOMAIN T.b /\ T.b[T.s[x].bk].slice = x BY <1>1, <4>1 DEF Memory, Names
        <5>2. x # NoSlice BY VmmAssumption
        <5> QED BY <1>1, <5>1, <5>2 DEF Told, InUse
      <4> QED BY <4>1 DEF Carried
    <3>3. Extends(T, T) BY <1>1, <3>2, CarriedExtends
    <3>4. Filed(T, T) BY <1>2 DEF Filed, Marked
    <3>5. Spares(T, T, {}) BY <1>1, SparesSelf
    <3> QED BY <2>2, <3>1, <3>3, <3>4, <3>5 DEF SameFlags
  <2> QED BY <2>1, <2>2
<1>9. Len(R.b) = Len(T.b) /\ R.b[i].slice = y BY <1>8 DEF Filed, Marked
<1>10. i \in 1 .. Len(R.b) /\ InUse(R.b[i]) BY <1>9 DEF InUse
<1>11. R.b[i].file # NoAdr
  <2>1. TypedTables(R) /\ Told(R) /\ Reserved(R.base, R.wp) BY <1>8 DEF Good
  <2>2. R.b \in Seq(Block) BY <2>1, TypedIs
  <2>3. R.b[i].file = FileAdr(R, y) BY <1>9, <1>10, <2>1, <2>2 DEF Told
  <2> QED BY <1>3, <1>8, <2>1, <2>3, AdrIs DEF v
<1>12. /\ Good(U) /\ Extends(R, U) /\ Filed(R, U) /\ ~U.b[i].altered /\ ~U.b[i].was
       /\ Spares(R, U, {}) /\ (R.b[i].cur /\ U.wp <= MaxFile + 1 => OnDisk(U, R.b[i].slice))
       /\ \A j \in (1 .. Len(T.b)) \ {i} : U.b[j] = R.b[j]
  BY <1>7, <1>8, <1>9, <1>10, <1>11, EcritGood
<1>13. Filed(T, U) BY <1>8, <1>12, FiledTrans
<1>14. Extends(T, U)
  <2>1. TypedTables(R) /\ TypedTables(U) BY <1>8, <1>12 DEF Good
  <2> QED BY <1>1, <1>8, <1>12, <2>1, ExtendsTrans
<1>15. \A j \in (1 .. Len(T.b)) \ {i} : SameFlags(U.b[j], T.b[j]) BY <1>8, <1>12
<1>16. Spares(T, U, {})
  <2>1. TypedTables(R) /\ TypedTables(U) BY <1>8, <1>12 DEF Good
  <2> QED BY <1>1, <1>8, <1>12, <2>1, SparesTrans
<1>17. T.b[i].cur /\ U.wp <= MaxFile + 1 => OnDisk(U, y) BY <1>8, <1>9, <1>12
<1> QED BY <1>12, <1>13, <1>14, <1>15, <1>16, <1>17 DEF U

(* Block i is free; the other blocks and the slices in them are where they *)
(* were, kept and locked as they were.                                     *)
Ejected(T, U, i) ==
  /\ Len(U.b) = Len(T.b) /\ ~InUse(U.b[i]) /\ ~U.b[i].locked /\ ~U.b[i].keep
  /\ U.b[i].size = T.b[i].size
  /\ \A j \in (1 .. Len(T.b)) \ {i} :
       /\ U.b[j].slice = T.b[j].slice /\ U.b[j].size = T.b[j].size /\ U.b[j].adr = T.b[j].adr
       /\ U.b[j].keep = T.b[j].keep /\ U.b[j].locked = T.b[j].locked
  /\ \A x \in Slices : IF x = T.b[i].slice THEN U.s[x].bk = 0 /\ U.s[x].locked = FALSE
                       ELSE /\ U.s[x].bk = T.s[x].bk /\ U.s[x].keep = T.s[x].keep
                            /\ U.s[x].locked = T.s[x].locked

LEMMA EjectedStays ==
  ASSUME NEW T, NEW U, NEW i, Good(T), i \in 1 .. Len(T.b), Ejected(T, U, i)
  PROVE  /\ ~T.b[i].locked => Stays(Slices, T, U)
         /\ Stays(Slices \ {T.b[i].slice}, T, U)
<1>1. T.b \in Seq(Block) /\ Names(T.b, T.s) BY TypedIs DEF Good, Memory
<1>2. DOMAIN T.b = 1 .. Len(T.b) BY <1>1
<1>3. ASSUME NEW x \in Slices, x # T.b[i].slice
      PROVE  U.s[x].locked = T.s[x].locked /\ (T.s[x].locked => U.b[U.s[x].bk].adr = T.b[T.s[x].bk].adr)
  <2>1. U.s[x].locked = T.s[x].locked /\ U.s[x].bk = T.s[x].bk BY <1>3 DEF Ejected
  <2>2. ASSUME T.s[x].locked PROVE U.b[T.s[x].bk].adr = T.b[T.s[x].bk].adr
    <3>1. T.s[x].bk \in 1 .. Len(T.b) /\ T.b[T.s[x].bk].slice = x BY <1>1, <1>2, <2>2 DEF Names
    <3>2. T.s[x].bk # i BY <1>3, <3>1
    <3> QED BY <3>1, <3>2 DEF Ejected
  <2> QED BY <2>1, <2>2
<1>4. ASSUME ~T.b[i].locked, NEW x \in Slices, x = T.b[i].slice
      PROVE  U.s[x].locked = T.s[x].locked /\ ~T.s[x].locked
  <2>1. InUse(T.b[i]) BY <1>4, VmmAssumption DEF InUse
  <2>2. T.s[x].locked = T.b[i].locked /\ T.s \in [Slices -> Slice] BY <1>1, <1>2, <1>4, <2>1, TypedIs DEF Names, SameFlags, Good
  <2>3. U.s[x].locked = FALSE BY <1>4 DEF Ejected
  <2>4. U.s[x].locked = T.s[x].locked
    <3>1. T.s[x].locked = FALSE
      <4>1. T.s[x] \in Slice BY <2>2
      <4>2. T.s[x].locked \in BOOLEAN BY <4>1, SliceIs
      <4> QED BY <1>4, <2>2, <4>2
    <3> QED BY <2>3, <3>1
  <2> QED BY <1>4, <2>2, <2>4
<1> QED BY <1>3, <1>4 DEF Stays

LEMMA EjectGood ==
  ASSUME NEW T, NEW i, NEW save, NeverExactlyFull, Good(T), i \in 1 .. Len(T.b), save \in BOOLEAN
  PROVE  LET U == EjectBlock(T, i, save)
         IN  /\ Good(U) /\ Extends(T, U) /\ Ejected(T, U, i) /\ Spares(T, U, {T.b[i].slice})
             /\ (save \/ ~Altered(T.b[i]) => Spares(T, U, {}))
<1> DEFINE y == T.b[i].slice
           v == VarOf[y]
           U == EjectBlock(T, i, save)
           R == IF save /\ Altered(T.b[i])
                THEN EcritBloc(IF T.base[v] = NoAdr THEN ReserveDiskSpace(T, v) ELSE T, i) ELSE T
           D == ListFree(Vacated(R, i), i)
<1>1. TypedTables(T) /\ Names(T.b, T.s) /\ Told(T) /\ Reserved(T.base, T.wp) BY DEF Good, Memory
<1>2. T.b \in Seq(Block) /\ T.b[i] \in Block /\ DOMAIN T.b = 1 .. Len(T.b) BY <1>1, TypedIs
<1>3. TypedTables(T) /\ Carried(T, T)
  <2>1. ASSUME NEW x \in Slices, T.s[x].bk # 0 PROVE T.b[T.s[x].bk].file = FileAdr(T, x)
    <3>1. T.s[x].bk \in DOMAIN T.b /\ T.b[T.s[x].bk].slice = x BY <1>1, <2>1 DEF Names
    <3>2. x # NoSlice BY VmmAssumption
    <3> QED BY <1>1, <3>1, <3>2 DEF Told, InUse
  <2> QED BY <1>1, <2>1 DEF Carried
<1>4. CASE ~InUse(T.b[i])
  <2>1. U = T BY <1>4 DEF EjectBlock
  <2>2. Extends(T, T) BY <1>3, CarriedExtends
  <2>3. ~T.b[i].locked /\ ~T.b[i].keep BY <1>1, <1>2, <1>4 DEF Names
  <2>4. \A x \in Slices : x # y BY <1>4, VmmAssumption DEF InUse
  <2>5. Ejected(T, T, i)
    <3> HIDE DEF U, R, D
    <3> QED BY <1>2, <1>4, <2>3, <2>4 DEF Ejected
  <2>6. Spares(T, T, {}) /\ Spares(T, T, {y}) BY <1>1, SparesSelf
  <2> QED BY <2>1, <2>2, <2>5, <2>6
<1>5. CASE InUse(T.b[i])
  <2>1. y \in Slices BY <1>2, <1>5, BlockIs DEF InUse
  <2>2. T.b[i].file = FileAdr(T, y) BY <1>1, <1>2, <1>5 DEF Told
  <2>3. T.b[i].file = NoAdr <=> T.base[v] = NoAdr BY <1>1, <2>1, <2>2, AdrIs DEF FileAdr
  <2>4. R = IF save /\ Altered(T.b[i]) THEN Save(T, i) ELSE T BY <2>3 DEF Save
  <2> HIDE DEF R
  <2>5. Good(R) /\ Extends(T, R) /\ Filed(T, R) /\ Spares(T, R, {})
    <3>1. CASE save /\ Altered(T.b[i]) BY <1>5, <2>4, <3>1, SaveGood
    <3>2. CASE ~(save /\ Altered(T.b[i]))
      <4>1. R = T BY <2>4, <3>2
      <4>2. Extends(T, T) BY <1>3, CarriedExtends
      <4>3. Filed(T, T) BY <1>2 DEF Filed, Marked
      <4>4. Spares(T, T, {}) BY <1>1, SparesSelf
      <4> QED BY <4>1, <4>2, <4>3, <4>4
    <3> QED BY <3>1, <3>2
  <2>6. Len(R.b) = Len(T.b) /\ R.b[i].slice = y BY <2>5 DEF Filed, Marked
  <2>7. U = D
    <3>1. U = ListFree([R EXCEPT !.b[i] = Emptied(@), !.s[y] = NotInCore(@.image)], i)
      BY <1>5 DEF EjectBlock, R
    <3> HIDE DEF U, y
    <3> QED BY <2>6, <3>1 DEF Vacated
  <2>8. i \in 1 .. Len(R.b) /\ InUse(R.b[i]) BY <1>5, <2>6 DEF InUse
  <2> HIDE DEF U, D
  <2>9. Good(D) /\ Carried(R, D) /\ Dropped(R, D, i) BY <2>5, <2>8, DropGood DEF D
  <2>10. Extends(T, D)
    <3>1. TypedTables(R) /\ TypedTables(D) BY <2>5, <2>9 DEF Good
    <3>2. Extends(R, D) BY <2>9, <3>1, CarriedExtends
    <3> QED BY <1>1, <2>5, <3>1, <3>2, ExtendsTrans
  <2>11. Ejected(T, D, i)
    <3>1. Len(D.b) = Len(T.b) /\ ~InUse(D.b[i]) /\ ~D.b[i].locked /\ ~D.b[i].keep /\ D.b[i].size = T.b[i].size
      BY <2>5, <2>6, <2>9 DEF Dropped, Filed, Marked
    <3>2. ASSUME NEW j \in (1 .. Len(T.b)) \ {i}
          PROVE  /\ D.b[j].slice = T.b[j].slice /\ D.b[j].size = T.b[j].size /\ D.b[j].adr = T.b[j].adr
                 /\ D.b[j].keep = T.b[j].keep /\ D.b[j].locked = T.b[j].locked
      <4>1. Same(R.b[j], D.b[j]) /\ D.b[j].size = R.b[j].size /\ D.b[j].adr = R.b[j].adr
        BY <2>6, <2>9 DEF Dropped
      <4>2. /\ R.b[j].slice = T.b[j].slice /\ R.b[j].size = T.b[j].size /\ R.b[j].adr = T.b[j].adr
            /\ R.b[j].keep = T.b[j].keep /\ R.b[j].locked = T.b[j].locked
        BY <2>5 DEF Filed, Marked
      <4> QED BY <4>1, <4>2 DEF Same, Like, SameFlags
    <3>3. D.s[y].bk = 0 /\ D.s[y].locked = FALSE
      <4>1. D.s[y] = NotInCore(R.s[y].image) BY <2>6, <2>9 DEF Dropped
      <4> QED BY <4>1 DEF NotInCore
    <3>4. ASSUME NEW x \in Slices, x # y
          PROVE  D.s[x].bk = T.s[x].bk /\ D.s[x].keep = T.s[x].keep /\ D.s[x].locked = T.s[x].locked
      <4>1. D.s[x] = R.s[x] BY <2>6, <2>9, <3>4 DEF Dropped
      <4> QED BY <2>5, <4>1 DEF Filed
    <3> QED BY <3>1, <3>2, <3>3, <3>4 DEF Ejected
  <2>12. Spares(T, D, {y})
    <3>1. TypedTables(R) /\ TypedTables(D) BY <2>5, <2>9 DEF Good
    <3>2. Spares(T, R, {y}) BY <2>5, SparesMore
    <3>3. Spares(R, D, {R.b[i].slice}) BY <2>5, <2>8, <2>9, DropSpares
    <3> HIDE DEF y
    <3>4. Spares(R, D, {y}) BY <2>6, <3>3
    <3> QED BY <1>1, <3>1, <3>2, <3>4, SparesTrans
  <2>13. ASSUME save \/ ~Altered(T.b[i]) PROVE Spares(T, D, {})
    <3>1. T.s[y].bk = i /\ i # 0 /\ SameFlags(T.b[i], T.s[y]) BY <1>1, <1>2, <1>5 DEF Names
    <3>2. D.wp = R.wp BY <2>9 DEF Carried
    <3>3. OnDisk(R, y) => Sound(D, y) BY <2>1, <2>5, <2>6, <2>8, <2>9, DropSpares
    <3>4. ASSUME D.wp <= MaxFile + 1, Keep(y), Sound(T, y) PROVE OnDisk(R, y)
      <4>1. CASE save /\ Altered(T.b[i])
        <5>1. R = Save(T, i) BY <2>4, <4>1
        <5>2. T.b[i].cur BY <3>1, <3>4 DEF Sound
        <5> QED BY <1>5, <3>2, <3>4, <5>1, <5>2, SaveGood
      <4>2. CASE ~(save /\ Altered(T.b[i]))
        <5>1. R = T /\ ~Altered(T.b[i]) BY <2>4, <2>13, <4>2
        <5>2. ~Marks(T, y) BY <3>1, <3>4, <5>1 DEF Marks, Altered, SameFlags
        <5> QED BY <3>1, <3>4, <5>1, <5>2 DEF Sound
      <4> QED BY <4>1, <4>2
    <3> HIDE DEF y
    <3> QED BY <2>12, <3>3, <3>4, SparesAll
  <2> QED BY <2>7, <2>9, <2>10, <2>11, <2>12, <2>13 DEF U
<1> QED BY <1>4, <1>5

---------------------------------------------------------------------------
(* qvmlod: a slice gets the first part of a free block, or all of it. *)

(* Block f, free and larger than y, is the block of y and a free one after *)
(* it; the blocks that were behind f have one more before them.            *)
SplitFor(b, c, f, y) ==
  /\ c \in Seq(Block) /\ Len(c) = Len(b) + 1
  /\ c[f].slice = y /\ c[f].adr = b[f].adr /\ c[f].size = Len8(y)
  /\ c[f].prev = 0 /\ c[f].next = 0
  /\ ~InUse(c[f + 1]) /\ ~c[f + 1].locked /\ ~c[f + 1].keep
  /\ c[f + 1].adr = b[f].adr + Len8(y) /\ c[f + 1].size = b[f].size - Len8(y)
  /\ c[f + 1].prev = From(f, b[f].prev) /\ c[f + 1].next = From(f, b[f].next)
  /\ \A j \in (1 .. Len(b)) \ {f} :
       /\ Same(b[j], c[From(f, j)]) /\ c[From(f, j)].adr = b[j].adr /\ c[From(f, j)].size = b[j].size
       /\ c[From(f, j)].prev = From(f, b[j].prev) /\ c[From(f, j)].next = From(f, b[j].next)

FromWorks(f, n) ==
  /\ \A j \in (1 .. n) \ {f} : From(f, j) \in (1 .. n + 1) \ {f, f + 1}
  /\ \A k \in (1 .. n + 1) \ {f, f + 1} : \E j \in (1 .. n) \ {f} : k = From(f, j)
  /\ \A i, j \in 0 .. n : From(f, i) = From(f, j) => i = j
  /\ \A j \in Nat : From(f, j) \in Nat /\ (From(f, j) = 0 <=> j = 0)
  /\ From(f, f) = f + 1 /\ From(f, 0) = 0

LEMMA FromIs ==
  ASSUME NEW f, NEW n, n \in Nat, f \in 1 .. n
  PROVE  FromWorks(f, n)
<1>1. ASSUME NEW k \in (1 .. n + 1) \ {f, f + 1} PROVE \E j \in (1 .. n) \ {f} : k = From(f, j)
  <2>1. CASE k < f
    <3>1. k \in (1 .. n) \ {f} /\ k = From(f, k) BY <2>1 DEF From
    <3> QED BY <3>1
  <2>2. CASE ~(k < f)
    <3>1. k - 1 \in (1 .. n) \ {f} /\ k = From(f, k - 1) BY <2>2 DEF From
    <3> QED BY <3>1
  <2> QED BY <2>1, <2>2
<1>2. \A j \in (1 .. n) \ {f} : From(f, j) \in (1 .. n + 1) \ {f, f + 1} BY DEF From
<1>3. \A i, j \in 0 .. n : From(f, i) = From(f, j) => i = j BY DEF From
<1>4. \A j \in Nat : From(f, j) \in Nat /\ (From(f, j) = 0 <=> j = 0) BY DEF From
<1>5. From(f, f) = f + 1 /\ From(f, 0) = 0 BY DEF From
<1> QED BY <1>1, <1>2, <1>3, <1>4, <1>5 DEF FromWorks

LEMMA SplitMemory ==
  ASSUME NEW b, NEW c, NEW s, NEW t, NEW first, NEW f, NEW y,
         b \in Seq(Block), s \in [Slices -> Slice], first \in Nat, f \in 1 .. Len(b),
         ~InUse(b[f]), y \in Slices, s[y].bk = 0, Memory(b, s, first), SplitFor(b, c, f, y),
         t[y].bk = f, SameFlags(c[f], t[y]),
         \A x \in Slices : x # y => SameFlags(t[x], s[x]) /\ t[x].bk = From(f, s[x].bk)
  PROVE  Memory(c, t, From(f, first))
<1> DEFINE n == Len(b)
           F == Free(b)
           G == Free(c)
<1>0. n \in Nat /\ f \in 1 .. n /\ f \in Nat /\ f # 0 /\ DOMAIN b = 1 .. n OBVIOUS
<1>1. Names(b, s) /\ Tiled(b) /\ Listed(b, first) BY DEF Memory
<1>2. DOMAIN c = 1 .. n + 1 /\ Len(c) = n + 1 /\ c \in Seq(Block)
  <2>1. c \in Seq(Block) /\ Len(c) = n + 1 BY DEF SplitFor
  <2> QED BY <2>1
<1>3. (\A j \in 1 .. n : b[j] \in Block) /\ (\A j \in 1 .. n + 1 : c[j] \in Block) BY <1>2
<1>4. \A j \in (1 .. n) \ {f} :
       /\ Same(b[j], c[From(f, j)]) /\ c[From(f, j)].adr = b[j].adr /\ c[From(f, j)].size = b[j].size
       /\ c[From(f, j)].prev = From(f, b[j].prev) /\ c[From(f, j)].next = From(f, b[j].next)
  BY DEF SplitFor
<1>5. /\ c[f].slice = y /\ c[f].adr = b[f].adr /\ c[f].size = Len8(y)
      /\ c[f].prev = 0 /\ c[f].next = 0
      /\ ~InUse(c[f + 1]) /\ ~c[f + 1].locked /\ ~c[f + 1].keep
      /\ c[f + 1].adr = b[f].adr + Len8(y) /\ c[f + 1].size = b[f].size - Len8(y)
      /\ c[f + 1].prev = From(f, b[f].prev) /\ c[f + 1].next = From(f, b[f].next)
  BY DEF SplitFor
<1> HIDE DEF n, F, G
<1>6. /\ \A j \in (1 .. n) \ {f} : From(f, j) \in (1 .. n + 1) \ {f, f + 1}
      /\ \A k \in (1 .. n + 1) \ {f, f + 1} : \E j \in (1 .. n) \ {f} : k = From(f, j)
      /\ \A i, j \in 0 .. n : From(f, i) = From(f, j) => i = j
      /\ \A j \in Nat : From(f, j) \in Nat /\ (From(f, j) = 0 <=> j = 0)
      /\ From(f, f) = f + 1 /\ From(f, 0) = 0
  <2>1. FromWorks(f, n) BY <1>0, FromIs
  <2> QED BY <2>1 DEF FromWorks
<1>7. Names(c, t)
  <2>1. ASSUME NEW k \in 1 .. n + 1, InUse(c[k])
        PROVE  /\ t[c[k].slice].bk = k /\ SameFlags(c[k], t[c[k].slice])
               /\ c[k].size = Len8(c[k].slice) /\ c[k].prev = 0 /\ c[k].next = 0
    <3>1. CASE k = f BY <1>5, <3>1
    <3>2. CASE k # f
      <4>1. k \in (1 .. n + 1) \ {f, f + 1} BY <1>5, <2>1, <3>2
      <4>2. PICK j \in (1 .. n) \ {f} : k = From(f, j) BY <1>6, <4>1
      <4> DEFINE x == c[k].slice
      <4>3. x = b[j].slice /\ InUse(b[j]) BY <1>4, <2>1, <4>2 DEF Same, Like, InUse
      <4>4. x \in Slices BY <1>3, <2>1, BlockIs DEF InUse
      <4> HIDE DEF x
      <4>5. s[x].bk = j /\ SameFlags(b[j], s[x]) /\ b[j].size = Len8(x) /\ b[j].prev = 0 /\ b[j].next = 0
        BY <1>0, <1>1, <4>2, <4>3 DEF Names
      <4>6. x # y BY <1>0, <4>2, <4>5
      <4>7. t[x].bk = k /\ SameFlags(t[x], s[x]) BY <4>2, <4>4, <4>5, <4>6
      <4>8. SameFlags(c[k], b[j]) /\ c[k].size = b[j].size /\ c[k].prev = 0 /\ c[k].next = 0
        BY <1>4, <1>6, <4>2, <4>5 DEF Same, Like
      <4> QED BY <4>5, <4>7, <4>8 DEF x, SameFlags
    <3> QED BY <3>1, <3>2
  <2>2. ASSUME NEW k \in 1 .. n + 1, ~InUse(c[k]) PROVE ~c[k].locked /\ ~c[k].keep
    <3>1. CASE k = f BY <1>5, <2>2, <3>1, VmmAssumption DEF InUse
    <3>2. CASE k = f + 1 BY <1>5, <3>2
    <3>3. CASE k # f /\ k # f + 1
      <4>1. k \in (1 .. n + 1) \ {f, f + 1} BY <3>3
      <4>2. PICK j \in (1 .. n) \ {f} : k = From(f, j) BY <1>6, <4>1
      <4>3. ~InUse(b[j]) BY <1>4, <2>2, <4>2 DEF Same, Like, InUse
      <4> QED BY <1>0, <1>1, <1>4, <4>2, <4>3 DEF Names, Same, Like, SameFlags
    <3> QED BY <3>1, <3>2, <3>3
  <2>3. ASSUME NEW x \in Slices
        PROVE  IF t[x].bk = 0 THEN ~t[x].locked ELSE t[x].bk \in 1 .. n + 1 /\ c[t[x].bk].slice = x
    <3>1. CASE x = y BY <1>0, <1>5, <3>1
    <3>2. CASE x # y /\ s[x].bk = 0
      <4>1. t[x].bk = From(f, 0) /\ SameFlags(t[x], s[x]) BY <3>2
      <4>2. ~s[x].locked BY <1>1, <3>2 DEF Names
      <4> QED BY <1>6, <4>1, <4>2 DEF SameFlags
    <3>3. CASE x # y /\ s[x].bk # 0
      <4>1. s[x].bk \in 1 .. n /\ b[s[x].bk].slice = x BY <1>0, <1>1, <3>3 DEF Names
      <4>2. s[x].bk # f BY <4>1, VmmAssumption DEF InUse
      <4>3. t[x].bk = From(f, s[x].bk) BY <3>3
      <4> DEFINE j == s[x].bk
                 k == From(f, j)
      <4>4. j \in (1 .. n) \ {f} /\ b[j].slice = x /\ t[x].bk = k BY <4>1, <4>2, <4>3
      <4> HIDE DEF j
      <4>5. k \in 1 .. n + 1 /\ c[k].slice = x BY <1>4, <1>6, <4>4 DEF Same, Like
      <4>6. k # 0 BY <1>0, <4>5
      <4> QED BY <4>4, <4>5, <4>6
    <3> QED BY <3>1, <3>2, <3>3
  <2> QED BY <1>2, <2>1, <2>2, <2>3 DEF Names
<1>8. Tiled(c)
  <2>0. \A j \in 1 .. n : b[j].adr \in Nat /\ b[j].size \in Nat BY <1>3, BlockIs
  <2>1. \A j \in 1 .. n - 1 : b[j].adr + b[j].size = b[j + 1].adr BY <1>1 DEF Tiled, n
  <2>2. b[1].adr = 0 /\ b[n].adr + b[n].size = MaxMem /\ n >= 1 BY <1>1 DEF Tiled, n
  <2>3. Len8(y) \in Nat BY PlaceIs
  <2>4. /\ \A k \in 1 .. f - 1 : k \in (1 .. n) \ {f} /\ c[k].adr = b[k].adr /\ c[k].size = b[k].size
        /\ \A k \in f + 1 .. n : c[k + 1].adr = b[k].adr /\ c[k + 1].size = b[k].size
    <3>1. ASSUME NEW k \in 1 .. f - 1 PROVE k \in (1 .. n) \ {f} /\ k = From(f, k) BY <1>0 DEF From
    <3>2. ASSUME NEW k \in f + 1 .. n PROVE k \in (1 .. n) \ {f} /\ k + 1 = From(f, k) BY <1>0 DEF From
    <3> QED BY <1>4, <3>1, <3>2
  <2>5. ASSUME NEW k \in 1 .. n PROVE c[k].adr + c[k].size = c[k + 1].adr
    <3>1. CASE k < f
      <4>1. k \in 1 .. f - 1 /\ k \in 1 .. n - 1 /\ (k + 1 = f \/ k + 1 \in 1 .. f - 1) BY <1>0, <3>1
      <4> QED BY <1>5, <2>1, <2>4, <4>1
    <3>2. CASE k = f BY <1>5, <3>2
    <3>3. CASE k = f + 1
      <4>1. k \in f + 1 .. n /\ f \in 1 .. n - 1 BY <1>0, <3>3
      <4>2. c[k + 1].adr = b[f + 1].adr /\ b[f].adr + b[f].size = b[f + 1].adr BY <2>1, <2>4, <3>3, <4>1
      <4>3. c[k].adr = b[f].adr + Len8(y) /\ c[k].size = b[f].size - Len8(y) BY <1>5, <3>3
      <4>4. b[f].adr \in Nat /\ b[f].size \in Nat BY <1>0, <2>0
      <4> QED BY <2>3, <4>2, <4>3, <4>4
    <3>4. CASE k > f + 1
      <4> DEFINE m == k - 1
      <4>1. m \in f + 1 .. n /\ m + 1 \in f + 1 .. n /\ m \in 1 .. n - 1 /\ k = m + 1 BY <1>0, <3>4
      <4> HIDE DEF m
      <4>2. b[m].adr + b[m].size = b[m + 1].adr BY <2>1, <4>1
      <4>3. c[m + 1].adr = b[m].adr /\ c[m + 1].size = b[m].size /\ c[m + 1 + 1].adr = b[m + 1].adr BY <2>4, <4>1
      <4> QED BY <4>1, <4>2, <4>3
    <3> QED BY <1>0, <3>1, <3>2, <3>3, <3>4
  <2>6. c[1].adr = 0
    <3>1. CASE f = 1 BY <1>5, <2>2, <3>1
    <3>2. CASE f # 1
      <4>1. 1 \in 1 .. f - 1 BY <1>0, <3>2
      <4> QED BY <2>2, <2>4, <4>1
    <3> QED BY <3>1, <3>2
  <2>7. c[n + 1].adr + c[n + 1].size = MaxMem
    <3>1. CASE n = f
      <4>1. b[f].adr \in Nat /\ b[f].size \in Nat BY <1>0, <2>0
      <4> QED BY <1>5, <2>2, <2>3, <3>1, <4>1
    <3>2. CASE n # f
      <4>1. n \in f + 1 .. n BY <1>0, <3>2
      <4> QED BY <2>2, <2>4, <4>1
    <3> QED BY <3>1, <3>2
  <2>8. Len(c) - 1 = n /\ Len(c) >= 1 BY <1>0, <1>2
  <2> QED BY <1>2, <2>5, <2>6, <2>7, <2>8 DEF Tiled
<1>9. \A k : k \in G <=> k \in Shifted(F, f)
  <2>1. ASSUME NEW k \in G PROVE k \in Shifted(F, f)
    <3>0. k \in 1 .. n + 1 /\ c[k].slice = NoSlice BY <1>2, <2>1, FreeIs DEF G
    <3>1. k # f BY <1>5, <3>0, VmmAssumption
    <3>2. CASE k = f + 1
      <4>1. f \in F BY <1>0, FreeIs DEF F, InUse
      <4> QED BY <1>6, <3>2, <4>1 DEF Shifted
    <3>3. CASE k # f + 1
      <4>1. k \in (1 .. n + 1) \ {f, f + 1} BY <3>0, <3>1, <3>3
      <4>2. PICK j \in (1 .. n) \ {f} : k = From(f, j) BY <1>6, <4>1
      <4>3. b[j].slice = NoSlice BY <1>4, <3>0, <4>2 DEF Same, Like
      <4>4. j \in F BY <1>0, <4>2, <4>3, FreeIs DEF F
      <4> QED BY <4>2, <4>4 DEF Shifted
    <3> QED BY <3>2, <3>3
  <2>2. ASSUME NEW k \in Shifted(F, f) PROVE k \in G
    <3>1. PICK j \in F : k = From(f, j) BY <2>2 DEF Shifted
    <3>2. j \in 1 .. n /\ b[j].slice = NoSlice BY <1>0, FreeIs DEF F
    <3>3. CASE j = f
      <4>0. From(f, f) = f + 1 BY <1>6
      <4>1. k = f + 1 /\ k \in 1 .. n + 1 BY <1>0, <3>1, <3>3, <4>0
      <4> QED BY <1>2, <1>5, <4>1, FreeIs DEF G, InUse
    <3>4. CASE j # f
      <4>1. j \in (1 .. n) \ {f} BY <3>2, <3>4
      <4>2. k \in 1 .. n + 1 /\ c[k].slice = NoSlice BY <1>4, <1>6, <3>1, <3>2, <4>1 DEF Same, Like
      <4> QED BY <1>2, <4>2, FreeIs DEF G
    <3> QED BY <3>3, <3>4
  <2> QED BY <2>1, <2>2
<1>10. Positive(F) /\ f \in F /\ G = Shifted(F, f)
  <2>1. Positive(F) BY FreeTyped DEF F
  <2>2. f \in F BY <1>0, FreeIs DEF F, InUse
  <2> QED BY <1>9, <2>1, <2>2
<1>11. \A j \in F : /\ j \in 1 .. n /\ b[j].next \in Nat /\ b[j].prev \in Nat
                    /\ NextIn(F, j, b[j].next) /\ PrevIn(F, j, b[j].prev)
  <2>1. \A j \in F : j \in 1 .. n BY FreeTyped DEF F, n
  <2> QED BY <1>1, <1>3, <2>1, BlockIs DEF Listed, Linked, F
<1>12. NextIn(G, 0, From(f, first))
  <2>1. NextIn(F, 0, first) BY <1>1 DEF Listed, F
  <2>2. NextIn(Shifted(F, f), 0, From(f, first)) BY <1>10, <2>1, ShiftedIn
  <2> QED BY <1>10, <2>2
<1>13. ASSUME NEW k \in G PROVE NextIn(G, k, c[k].next) /\ PrevIn(G, k, c[k].prev)
  <2>1. PICK j \in F : k = From(f, j) BY <1>10 DEF Shifted
  <2> DEFINE q == b[j].next
             p == b[j].prev
  <2>2. NextIn(F, j, q) /\ PrevIn(F, j, p) /\ q \in Nat /\ p \in Nat /\ j \in 1 .. n BY <1>11
  <2>3. c[k].next = From(f, q) /\ c[k].prev = From(f, p)
    <3>1. CASE j = f BY <1>5, <1>6, <2>1, <3>1
    <3>2. CASE j # f BY <1>4, <2>1, <2>2, <3>2
    <3> QED BY <3>1, <3>2
  <2> HIDE DEF q, p
  <2>4. NextIn(Shifted(F, f), From(f, j), From(f, q)) BY <1>10, <2>2, ShiftedIn
  <2>5. PrevIn(Shifted(F, f), From(f, j), From(f, p)) BY <1>10, <2>2, ShiftedIn
  <2> QED BY <1>10, <2>1, <2>3, <2>4, <2>5
<1> QED BY <1>7, <1>8, <1>12, <1>13 DEF Memory, Listed, Linked, G

(* Block f, free and as large as y, is the block of y, out of the list.    *)
UnlistFor(b, c, f, y) ==
  /\ c \in Seq(Block) /\ Len(c) = Len(b) /\ b[f].size = Len8(y)
  /\ c[f].slice = y /\ c[f].adr = b[f].adr /\ c[f].size = Len8(y)
  /\ c[f].prev = 0 /\ c[f].next = 0
  /\ \A j \in (1 .. Len(b)) \ {f} :
       /\ Same(b[j], c[j]) /\ c[j].adr = b[j].adr /\ c[j].size = b[j].size
       /\ c[j].prev = Instead(j, b[f].next, b[f].prev, b[j].prev)
       /\ c[j].next = Instead(j, b[f].prev, b[f].next, b[j].next)

\* first_free_bloc after Unlist
NewFirst(b, f, first) ==
  IF first # f THEN first
  ELSE IF b[f].prev # 0 THEN b[f].prev ELSE IF b[f].next # 0 THEN b[f].next ELSE first

Alike(s, t, y) == \A x \in Slices : x # y => SameFlags(t[x], s[x]) /\ t[x].bk = s[x].bk

LEMMA UnlistMemory ==
  ASSUME NEW b, NEW c, NEW s, NEW t, NEW first, NEW new, NEW f, NEW y, NeverExactlyFull,
         b \in Seq(Block), s \in [Slices -> Slice], first \in Nat, f \in 1 .. Len(b),
         ~InUse(b[f]), y \in Slices, s[y].bk = 0, Memory(b, s, first), UnlistFor(b, c, f, y),
         t[y].bk = f, SameFlags(c[f], t[y]),
         Alike(s, t, y),
         new = NewFirst(b, f, first)
  PROVE  Memory(c, t, new)
<1> DEFINE m == Len(b)
           F == Free(b)
           G == Free(c)
           p == b[f].prev
           n == b[f].next
<1>0. m \in Nat /\ f \in 1 .. m /\ f \in Nat /\ f # 0 /\ DOMAIN b = 1 .. m OBVIOUS
<1>1. Names(b, s) /\ Tiled(b) /\ Listed(b, first) BY DEF Memory
<1>20. \A x \in Slices : x # y => SameFlags(t[x], s[x]) /\ t[x].bk = s[x].bk BY DEF Alike
<1>2. DOMAIN c = 1 .. m /\ Len(c) = m /\ c \in Seq(Block)
  <2>1. c \in Seq(Block) /\ Len(c) = m BY DEF UnlistFor
  <2> QED BY <2>1
<1>3. \A j \in 1 .. m : b[j] \in Block /\ c[j] \in Block BY <1>2
<1>4. \A j \in (1 .. m) \ {f} :
       /\ Same(b[j], c[j]) /\ c[j].adr = b[j].adr /\ c[j].size = b[j].size
       /\ c[j].prev = Instead(j, n, p, b[j].prev) /\ c[j].next = Instead(j, p, n, b[j].next)
  BY DEF UnlistFor
<1>5. /\ c[f].slice = y /\ c[f].adr = b[f].adr /\ c[f].size = Len8(y) /\ c[f].size = b[f].size
      /\ c[f].prev = 0 /\ c[f].next = 0
  BY DEF UnlistFor
<1>6. new = IF first # f THEN first ELSE IF p # 0 THEN p ELSE IF n # 0 THEN n ELSE first BY DEF NewFirst
<1> HIDE DEF m, F, G, p, n
<1>7. \A j : j \in G <=> j \in F \ {f}
  <2> SUFFICES ASSUME NEW j PROVE j \in G <=> j \in F /\ j # f OBVIOUS
  <2>1. CASE j \in (1 .. m) \ {f} BY <1>0, <1>2, <1>4, <2>1, FreeIs DEF Same, Like, F, G
  <2>2. CASE j = f BY <1>5, <2>2, FreeIs, VmmAssumption DEF G
  <2>3. CASE j \notin 1 .. m BY <1>0, <1>2, <2>3, FreeIs DEF F, G
  <2> QED BY <2>1, <2>2, <2>3
<1>8. Positive(F) /\ f \in F /\ G = F \ {f}
  <2>1. Positive(F) BY FreeTyped DEF F
  <2>2. f \in F BY <1>0, FreeIs DEF F, InUse
  <2> QED BY <1>7, <2>1, <2>2
<1>9. \A j \in F : /\ j \in 1 .. m /\ b[j].next \in Nat /\ b[j].prev \in Nat
                   /\ NextIn(F, j, b[j].next) /\ PrevIn(F, j, b[j].prev)
  <2>1. \A j \in F : j \in 1 .. m BY FreeTyped DEF F, m
  <2> QED BY <1>1, <1>3, <2>1, BlockIs DEF Listed, Linked, F
<1>10. p \in Nat /\ n \in Nat /\ PrevIn(F, f, p) /\ NextIn(F, f, n) BY <1>8, <1>9 DEF p, n
<1>11. Names(c, t)
  <2>1. ASSUME NEW j \in 1 .. m, InUse(c[j])
        PROVE  /\ t[c[j].slice].bk = j /\ SameFlags(c[j], t[c[j].slice])
               /\ c[j].size = Len8(c[j].slice) /\ c[j].prev = 0 /\ c[j].next = 0
    <3>1. CASE j = f BY <1>5, <3>1
    <3>2. CASE j # f
      <4>0. j \in (1 .. m) \ {f} BY <3>2
      <4> DEFINE x == c[j].slice
      <4>1. x = b[j].slice /\ InUse(b[j]) BY <1>4, <2>1, <4>0 DEF Same, Like, InUse
      <4>2. x \in Slices BY <1>3, <2>1, BlockIs DEF InUse
      <4> HIDE DEF x
      <4>3. s[x].bk = j /\ SameFlags(b[j], s[x]) /\ b[j].size = Len8(x) /\ b[j].prev = 0 /\ b[j].next = 0
        BY <1>0, <1>1, <4>1 DEF Names
      <4>4. x # y BY <1>0, <4>0, <4>3
      <4>5. t[x].bk = j /\ SameFlags(t[x], s[x]) BY <1>20, <4>2, <4>3, <4>4
      <4>6. c[j].prev = 0 /\ c[j].next = 0
        <5>1. j \notin F /\ j # 0 BY <1>0, <4>0, <4>1, FreeIs DEF InUse, F
        <5>2. j # p /\ j # n BY <1>10, <5>1 DEF NextIn, PrevIn
        <5> QED BY <1>4, <4>0, <4>3, <5>2 DEF Instead
      <4>7. SameFlags(c[j], b[j]) /\ c[j].size = b[j].size BY <1>4, <4>0 DEF Same, Like
      <4> QED BY <4>3, <4>5, <4>6, <4>7 DEF x, SameFlags
    <3> QED BY <3>1, <3>2
  <2>2. ASSUME NEW j \in 1 .. m, ~InUse(c[j]) PROVE ~c[j].locked /\ ~c[j].keep
    <3>1. j # f BY <1>5, <2>2, VmmAssumption DEF InUse
    <3>2. j \in (1 .. m) \ {f} BY <3>1
    <3>3. ~InUse(b[j]) BY <1>4, <2>2, <3>2 DEF Same, Like, InUse
    <3> QED BY <1>0, <1>1, <1>4, <3>2, <3>3 DEF Names, Same, Like, SameFlags
  <2>3. ASSUME NEW x \in Slices
        PROVE  IF t[x].bk = 0 THEN ~t[x].locked ELSE t[x].bk \in 1 .. m /\ c[t[x].bk].slice = x
    <3>1. CASE x = y BY <1>0, <1>5, <3>1
    <3>2. CASE x # y /\ s[x].bk = 0
      <4>1. t[x].bk = 0 /\ SameFlags(t[x], s[x]) BY <1>20, <3>2
      <4>2. ~s[x].locked BY <1>1, <3>2 DEF Names
      <4> QED BY <4>1, <4>2 DEF SameFlags
    <3>3. CASE x # y /\ s[x].bk # 0
      <4>1. s[x].bk \in 1 .. m /\ b[s[x].bk].slice = x BY <1>0, <1>1, <3>3 DEF Names
      <4>2. s[x].bk # f BY <4>1, VmmAssumption DEF InUse
      <4>3. t[x].bk = s[x].bk BY <1>20, <3>3
      <4>4. c[s[x].bk].slice = x BY <1>4, <4>1, <4>2 DEF Same, Like
      <4> QED BY <3>3, <4>1, <4>3, <4>4
    <3> QED BY <3>1, <3>2, <3>3
  <2> QED BY <1>2, <2>1, <2>2, <2>3 DEF Names
<1>12. Tiled(c)
  <2>1. \A j \in 1 .. m : c[j].adr = b[j].adr /\ c[j].size = b[j].size BY <1>4, <1>5
  <2>2. m >= 1 /\ b[1].adr = 0 /\ b[m].adr + b[m].size = MaxMem BY <1>1 DEF Tiled, m
  <2>3. \A j \in 1 .. m - 1 : b[j].adr + b[j].size = b[j + 1].adr BY <1>1 DEF Tiled, m
  <2>4. \A j \in 1 .. m - 1 : j \in 1 .. m /\ j + 1 \in 1 .. m BY <1>0
  <2>5. \A j \in 1 .. m - 1 : c[j].adr + c[j].size = c[j + 1].adr BY <2>1, <2>3, <2>4
  <2>6. 1 \in 1 .. m /\ m \in 1 .. m BY <1>0, <2>2
  <2>7. c[1].adr = 0 /\ c[m].adr + c[m].size = MaxMem BY <2>1, <2>2, <2>6
  <2> QED BY <1>2, <2>2, <2>5, <2>7 DEF Tiled
<1>13. ASSUME NEW j \in G PROVE NextIn(G, j, c[j].next) /\ PrevIn(G, j, c[j].prev)
  <2> DEFINE k == b[j].next
             q == b[j].prev
  <2>1. j \in F /\ j \in F \ {f} /\ j \in (1 .. m) \ {f} /\ j \in Nat BY <1>8, <1>9
  <2>2. NextIn(F, j, k) /\ PrevIn(F, j, q) /\ k \in Nat /\ q \in Nat BY <1>9, <2>1
  <2>3. c[j].next = Instead(j, p, n, k) /\ c[j].prev = Instead(j, n, p, q) BY <1>4, <2>1
  <2> HIDE DEF k, q
  <2>4. NextIn(F \ {f}, j, Instead(j, p, n, k)) BY <1>8, <1>10, <2>1, <2>2, LeftIn
  <2>5. PrevIn(F \ {f}, j, Instead(j, n, p, q)) BY <1>8, <1>10, <2>1, <2>2, LeftIn
  <2> QED BY <1>8, <2>3, <2>4, <2>5
<1>14. NextIn(G, 0, new)
  <2>1. PICK j \in G : TRUE
    <3>1. PICK j \in 1 .. m : ~InUse(c[j]) BY <1>2, <1>11, <1>12, SomeFree
    <3>2. j \in G BY <1>2, <3>1, FreeIs DEF InUse, G
    <3> QED BY <3>2
  <2>2. j \in F /\ j # f /\ j \in Nat /\ f \in Nat BY <1>8, <1>9, <2>1
  <2>3. NextIn(F, 0, first) BY <1>1 DEF Listed, F
  <2>4. NextIn(F \ {f}, 0, Instead(first, f, n, first)) /\ (first = f => p = 0)
    <3>1. NextIn(F \ {f}, 0, Instead(first, f, n, first)) BY <1>8, <1>10, <2>2, <2>3, LeftIn
    <3>2. NextIn(F, 0, f) => p = 0 BY <1>8, <1>10, <2>2, LeftIn
    <3> QED BY <2>3, <3>1, <3>2
  <2>5. CASE first = f
    <3>1. p = 0 BY <2>4, <2>5
    <3>2. n # 0
      <4> SUFFICES ASSUME n = 0 PROVE FALSE OBVIOUS
      <4>1. j <= f BY <1>10, <2>2 DEF NextIn
      <4>2. f <= j BY <1>10, <2>2, <3>1 DEF PrevIn
      <4> QED BY <2>2, <4>1, <4>2
    <3>3. new = n BY <1>6, <2>5, <3>1, <3>2
    <3> QED BY <1>8, <2>4, <2>5, <3>3 DEF Instead
  <2>6. CASE first # f
    <3>1. new = first BY <1>6, <2>6
    <3> QED BY <1>8, <2>4, <2>6, <3>1 DEF Instead
  <2> QED BY <2>5, <2>6
<1> QED BY <1>11, <1>12, <1>13, <1>14 DEF Memory, Listed, Linked, G

(* What Split leaves, but for block f: its room is given away.             *)
SplitOff(b, c, f, size) ==
  /\ c \in Seq(Block) /\ Len(c) = Len(b) + 1 /\ c[f].adr = b[f].adr
  /\ ~InUse(c[f + 1]) /\ ~c[f + 1].locked /\ ~c[f + 1].keep
  /\ c[f + 1].adr = b[f].adr + size /\ c[f + 1].size = b[f].size - size
  /\ c[f + 1].prev = From(f, b[f].prev) /\ c[f + 1].next = From(f, b[f].next)
  /\ \A j \in (1 .. Len(b)) \ {f} :
       /\ Same(b[j], c[From(f, j)]) /\ c[From(f, j)].adr = b[j].adr /\ c[From(f, j)].size = b[j].size
       /\ c[From(f, j)].prev = From(f, b[j].prev) /\ c[From(f, j)].next = From(f, b[j].next)

SplitBlocks(b, f, size) ==
  LET rest     == FreeBlock(b[f].adr + size, b[f].size - size, b[f].prev, Up(b[f].next))
      grown(j) == IF j <= f THEN b[j] ELSE IF j = f + 1 THEN rest ELSE Raised(b[j - 1], f)
  IN  [j \in 1 .. Len(b) + 1 |->
         Linking(grown(j), IF j = rest.next THEN f + 1 ELSE grown(j).prev,
                           IF j = rest.prev THEN f + 1 ELSE grown(j).next)]

LEMMA SplitBlocksIs ==
  ASSUME NEW b, NEW s, NEW first, NEW f, NEW size, b \in Seq(Block), Memory(b, s, first),
         f \in 1 .. Len(b), ~InUse(b[f]), size \in Nat, size < b[f].size
  PROVE  SplitOff(b, SplitBlocks(b, f, size), f, size)
<1> DEFINE n == Len(b)
           F == Free(b)
           c == SplitBlocks(b, f, size)
           p == b[f].prev
           q == b[f].next
           room == b[f].adr + size
           left == b[f].size - size
           rest == FreeBlock(room, left, p, Up(q))
           grown(j) == IF j <= f THEN b[j] ELSE IF j = f + 1 THEN rest ELSE Raised(b[j - 1], f)
<1>0. n \in Nat /\ f \in 1 .. n /\ f \in Nat /\ f # 0 /\ DOMAIN b = 1 .. n OBVIOUS
<1>1. Names(b, s) /\ Listed(b, first) BY DEF Memory
<1>2. \A j \in 1 .. n : b[j] \in Block BY <1>0
<1>3. Positive(F) /\ f \in F /\ \A j \in F : j \in 1 .. n
  <2>1. f \in F BY <1>0, FreeIs DEF InUse
  <2> QED BY <2>1, FreeTyped
<1>4. \A j \in F : /\ b[j].next \in Nat /\ b[j].prev \in Nat
                   /\ NextIn(F, j, b[j].next) /\ PrevIn(F, j, b[j].prev)
  BY <1>1, <1>2, <1>3, BlockIs DEF Listed, Linked
<1>5. p \in Nat /\ q \in Nat /\ NextIn(F, f, q) /\ PrevIn(F, f, p) BY <1>3, <1>4
<1>6. p < f /\ (p # 0 => p \in F) /\ (q # 0 => q \in F /\ f < q)
  BY <1>0, <1>5 DEF NextIn, PrevIn
<1>7. \A j \in (1 .. n) \ F : b[j].prev = 0 /\ b[j].next = 0
  BY <1>0, <1>1, FreeIs DEF Names, InUse
<1>8. /\ rest \in Block /\ ~InUse(rest) /\ ~rest.locked /\ ~rest.keep /\ rest.adr = room /\ rest.size = left
      /\ rest.prev = p /\ rest.next = Up(q)
  <2>1. b[f].adr \in Nat /\ b[f].size \in Nat BY <1>0, <1>2, BlockIs
  <2>2. room \in Nat /\ left \in Nat \ {0}
    <3> DEFINE g == b[f].adr
               z == b[f].size
    <3>1. g \in Nat /\ z \in Nat /\ size \in Nat /\ size < z BY <2>1
    <3> HIDE DEF g, z
    <3>2. g + size \in Nat /\ z - size \in Nat \ {0} BY <3>1
    <3> QED BY <3>2 DEF g, z
  <2> DEFINE u == Up(q)
  <2>3. u \in Nat BY <1>5 DEF Up
  <2> HIDE DEF room, left, p, u
  <2> DEFINE x == FreeBlock(room, left, p, u)
  <2>4. /\ x \in Block /\ ~InUse(x) /\ ~x.locked /\ ~x.keep /\ x.adr = room /\ x.size = left
        /\ x.prev = p /\ x.next = u
    BY <1>5, <2>2, <2>3, FreeBlockIs
  <2> QED BY <2>4 DEF u
<1>9. ASSUME NEW j \in 1 .. n + 1
      PROVE  c[j] = Linking(grown(j), IF j = rest.next THEN f + 1 ELSE grown(j).prev,
                                      IF j = rest.prev THEN f + 1 ELSE grown(j).next)
  BY DEF SplitBlocks
<1>10. c = [j \in 1 .. n + 1 |-> c[j]] /\ DOMAIN c = 1 .. n + 1 BY DEF SplitBlocks
<1> HIDE DEF c, rest
<1>11. Up(q) = (IF q = 0 THEN 0 ELSE q + 1) /\ Up(q) # f + 1 /\ (Up(q) = 0 \/ f + 1 < Up(q))
  BY <1>0, <1>5, <1>6 DEF Up
<1>12. ASSUME NEW j \in 1 .. n, j < f
       PROVE  c[j] \in Block /\ Same(b[j], c[j]) /\ c[j].adr = b[j].adr /\ c[j].size = b[j].size
              /\ c[j].prev = From(f, b[j].prev) /\ c[j].next = From(f, b[j].next)
  <2> DEFINE x == b[j]
             k == x.prev
             l == IF j = p THEN f + 1 ELSE x.next
  <2>0. x \in Block /\ x.prev \in Nat /\ x.next \in Nat BY <1>2, BlockIs
  <2>1. c[j] = Linking(x, k, l)
    <3>1. grown(j) = x /\ j \in 1 .. n + 1 /\ j # rest.next BY <1>0, <1>8, <1>11, <1>12
    <3> QED BY <1>8, <1>9, <3>1
  <2>2. k = From(f, x.prev) /\ l = From(f, x.next) /\ k \in Nat /\ l \in Nat
    <3>1. CASE j \in F
      <4> DEFINE e == x.next
                 d == x.prev
      <4>1. NextIn(F, j, e) /\ PrevIn(F, j, d) /\ e \in Nat /\ d \in Nat BY <1>4, <3>1
      <4> HIDE DEF e, d
      <4>2. e = f <=> p = j BY <1>3, <1>5, <3>1, <4>1, LinksMeet
      <4>3. d < f BY <1>0, <1>12, <4>1 DEF PrevIn
      <4>4. e # 0 /\ e <= f BY <1>0, <1>3, <1>12, <4>1 DEF NextIn
      <4>5. d = From(f, d) /\ (IF j = p THEN f + 1 ELSE e) = From(f, e)
        BY <1>0, <4>1, <4>2, <4>3, <4>4 DEF From
      <4> QED BY <1>0, <4>1, <4>5 DEF e, d
    <3>2. CASE j \notin F
      <4>1. x.prev = 0 /\ x.next = 0 /\ j # p BY <1>6, <1>7, <3>2
      <4> QED BY <1>0, <4>1 DEF From
    <3> QED BY <3>1, <3>2
  <2> HIDE DEF x, k, l
  <2> DEFINE d == Linking(x, k, l)
  <2>3. d \in Block /\ Same(x, d) /\ d.adr = x.adr /\ d.size = x.size /\ d.prev = k /\ d.next = l
    BY <2>0, <2>2, LinkingIs
  <2> HIDE DEF d
  <2> QED BY <2>1, <2>2, <2>3 DEF d, x
<1>13. ASSUME NEW j \in 1 .. n, f < j
       PROVE  /\ c[j + 1] \in Block /\ Same(b[j], c[j + 1]) /\ c[j + 1].adr = b[j].adr
              /\ c[j + 1].size = b[j].size
              /\ c[j + 1].prev = From(f, b[j].prev) /\ c[j + 1].next = From(f, b[j].next)
  <2> DEFINE x == b[j]
             k == From(f, x.prev)
             l == From(f, x.next)
  <2>0. x \in Block /\ x.prev \in Nat /\ x.next \in Nat BY <1>2, BlockIs
  <2>1. k \in Nat /\ l \in Nat
    <3>1. \A i \in Nat : From(f, i) \in Nat BY <1>0 DEF From
    <3> HIDE DEF x
    <3> QED BY <2>0, <3>1
  <2>2. Up(x.next) = l /\ (j + 1 = rest.next => f + 1 = k) /\ j + 1 # rest.prev
    <3>1. j + 1 # p BY <1>0, <1>5, <1>6, <1>13
    <3>2. CASE j \in F
      <4> DEFINE e == x.next
                 d == x.prev
      <4>1. NextIn(F, j, e) /\ PrevIn(F, j, d) /\ e \in Nat /\ d \in Nat BY <1>4, <3>2
      <4> HIDE DEF e, d
      <4>2. q = j <=> d = f BY <1>3, <1>5, <3>2, <4>1, LinksMeet
      <4>3. e = 0 \/ f < e BY <1>0, <1>13, <4>1 DEF NextIn
      <4>4. Up(e) = From(f, e) BY <1>0, <4>1, <4>3 DEF Up, From
      <4>5. j + 1 = Up(q) => From(f, d) = f + 1 BY <1>0, <1>11, <1>5, <4>2 DEF From
      <4> QED BY <1>8, <3>1, <4>4, <4>5 DEF e, d
    <3>3. CASE j \notin F
      <4>1. x.prev = 0 /\ x.next = 0 /\ j # q BY <1>6, <1>7, <3>3, <1>0
      <4>2. Up(x.next) = l BY <1>0, <4>1 DEF Up, From
      <4>3. j + 1 # Up(q) BY <1>0, <1>5, <1>11, <4>1
      <4> QED BY <1>8, <3>1, <4>2, <4>3
    <3> QED BY <3>2, <3>3
  <2>3. c[j + 1] = Linking(Raised(x, f), k, l)
    <3>1. grown(j + 1) = Raised(x, f) /\ j + 1 \in 1 .. n + 1
      <4>1. ~(j + 1 <= f) /\ j + 1 # f + 1 /\ j + 1 - 1 = j /\ j + 1 \in 1 .. n + 1 BY <1>0, <1>13
      <4> QED BY <4>1
    <3>2. Raised(x, f).prev = k /\ Raised(x, f).next = l
      <4>1. Raised(x, f) = Linking(x, k, l) BY <2>2 DEF Raised, From
      <4> HIDE DEF x, k, l
      <4>2. Linking(x, k, l).prev = k /\ Linking(x, k, l).next = l BY <2>0, <2>1, LinkingIs
      <4> QED BY <4>1, <4>2
    <3> HIDE DEF k, l, x, grown
    <3>3. c[j + 1] = Linking(Raised(x, f), IF j + 1 = rest.next THEN f + 1 ELSE Raised(x, f).prev,
                                IF j + 1 = rest.prev THEN f + 1 ELSE Raised(x, f).next)
      BY <1>9, <3>1
    <3> QED BY <2>2, <3>2, <3>3
  <2>4. Raised(x, f) = Linking(x, k, l) BY <2>2 DEF Raised, From
  <2> HIDE DEF x, k, l
  <2> DEFINE r == Linking(x, k, l)
             d == Linking(r, k, l)
  <2>5. r \in Block /\ Same(x, r) /\ r.adr = x.adr /\ r.size = x.size BY <2>0, <2>1, LinkingIs
  <2>6. c[j + 1] = d BY <2>3, <2>4
  <2> HIDE DEF r
  <2>7. d \in Block /\ Same(r, d) /\ d.adr = r.adr /\ d.size = r.size /\ d.prev = k /\ d.next = l
    BY <2>1, <2>5, LinkingIs
  <2> HIDE DEF d
  <2> QED BY <2>5, <2>6, <2>7 DEF x, k, l, Same, Like, SameFlags
<1>14. /\ c[f + 1] \in Block /\ ~InUse(c[f + 1]) /\ ~c[f + 1].locked /\ ~c[f + 1].keep
       /\ c[f + 1].adr = room /\ c[f + 1].size = left
       /\ c[f + 1].prev = From(f, p) /\ c[f + 1].next = From(f, q)
  <2>1. grown(f + 1) = rest /\ f + 1 \in 1 .. n + 1 BY <1>0
  <2>2. p = From(f, p) /\ Up(q) = From(f, q) /\ f + 1 # p BY <1>0, <1>5, <1>6 DEF From, Up
  <2> DEFINE u == Up(q)
  <2>3. p \in Nat /\ u \in Nat BY <1>5, <1>11
  <2>4. c[f + 1] = Linking(rest, p, u) BY <1>8, <1>9, <1>11, <2>1, <2>2
  <2> HIDE DEF u, p
  <2> DEFINE d == Linking(rest, p, u)
  <2>5. d \in Block /\ Same(rest, d) /\ d.adr = rest.adr /\ d.size = rest.size /\ d.prev = p /\ d.next = u
    BY <1>8, <2>3, LinkingIs
  <2> HIDE DEF d
  <2>6. ~InUse(d) /\ ~d.locked /\ ~d.keep BY <1>8, <2>5 DEF Same, Like, SameFlags, InUse
  <2> QED BY <1>8, <2>2, <2>4, <2>5, <2>6 DEF d, u
<1>15. c[f] \in Block /\ c[f].adr = b[f].adr
  <2> DEFINE x == b[f]
             k == IF f = rest.next THEN f + 1 ELSE x.prev
             l == IF f = rest.prev THEN f + 1 ELSE x.next
  <2>1. grown(f) = x /\ f \in 1 .. n + 1 BY <1>0
  <2>2. c[f] = Linking(x, k, l) BY <1>9, <2>1
  <2>3. x \in Block /\ k \in Nat /\ l \in Nat BY <1>0, <1>2, <1>5
  <2> HIDE DEF x, k, l
  <2> DEFINE d == Linking(x, k, l)
  <2>4. d \in Block /\ d.adr = x.adr BY <2>3, LinkingIs
  <2> HIDE DEF d
  <2> QED BY <2>2, <2>4 DEF d, x
<1>16. c \in Seq(Block) /\ Len(c) = n + 1
  <2>1. ASSUME NEW k \in 1 .. n + 1 PROVE c[k] \in Block
    <3>1. CASE k < f
      <4>1. k \in 1 .. n BY <1>0, <3>1
      <4> QED BY <1>12, <3>1, <4>1
    <3>2. CASE k = f \/ k = f + 1 BY <1>14, <1>15, <3>2
    <3>3. CASE k > f + 1
      <4> DEFINE j == k - 1
      <4>1. j \in 1 .. n /\ f < j /\ k = j + 1 BY <1>0, <3>3
      <4> HIDE DEF j
      <4> QED BY <1>13, <4>1
    <3> QED BY <1>0, <3>1, <3>2, <3>3
  <2>2. c \in [1 .. n + 1 -> Block] BY <1>10, <2>1
  <2>3. n + 1 \in Nat BY <1>0
  <2> QED BY <1>10, <2>2, <2>3
<1>17. ASSUME NEW j \in (1 .. n) \ {f}
       PROVE  /\ Same(b[j], c[From(f, j)]) /\ c[From(f, j)].adr = b[j].adr /\ c[From(f, j)].size = b[j].size
              /\ c[From(f, j)].prev = From(f, b[j].prev) /\ c[From(f, j)].next = From(f, b[j].next)
  <2>1. CASE j < f
    <3>1. From(f, j) = j BY <1>0, <2>1 DEF From
    <3> QED BY <1>12, <2>1, <3>1
  <2>2. CASE f < j
    <3>1. From(f, j) = j + 1 BY <1>0, <2>2 DEF From
    <3> QED BY <1>13, <2>2, <3>1
  <2> QED BY <1>0, <2>1, <2>2
<1> QED BY <1>14, <1>15, <1>16, <1>17 DEF SplitOff, c, n, room, left, p, q

(* What Unlist leaves of the blocks, but for block f.                      *)
LeftOff(b, c, f) ==
  /\ c \in Seq(Block) /\ Len(c) = Len(b) /\ c[f].adr = b[f].adr
  /\ \A j \in (1 .. Len(b)) \ {f} :
       /\ Same(b[j], c[j]) /\ c[j].adr = b[j].adr /\ c[j].size = b[j].size
       /\ c[j].prev = Instead(j, b[f].next, b[f].prev, b[j].prev)
       /\ c[j].next = Instead(j, b[f].prev, b[f].next, b[j].next)

LEMMA LeftIs ==
  ASSUME NEW b, NEW f, b \in Seq(Block), f \in 1 .. Len(b)
  PROVE  LeftOff(b, Left(b, f), f)
<1> DEFINE n == Len(b)
           c == Left(b, f)
<1>0. n \in Nat /\ f \in 1 .. n /\ DOMAIN b = 1 .. n OBVIOUS
<1>1. \A j \in 1 .. n : b[j] \in Block BY <1>0
<1>2. ASSUME NEW j \in 1 .. n
      PROVE  /\ c[j] \in Block /\ Same(b[j], c[j]) /\ c[j].adr = b[j].adr /\ c[j].size = b[j].size
             /\ c[j].prev = Instead(j, b[f].next, b[f].prev, b[j].prev)
             /\ c[j].next = Instead(j, b[f].prev, b[f].next, b[j].next)
  <2> DEFINE x == b[j]
             k == Instead(j, b[f].next, b[f].prev, x.prev)
             l == Instead(j, b[f].prev, b[f].next, x.next)
  <2>1. x \in Block BY <1>1
  <2>2. x.prev \in Nat /\ x.next \in Nat /\ b[f].prev \in Nat /\ b[f].next \in Nat
    BY <1>0, <1>1, BlockIs
  <2>3. k \in Nat /\ l \in Nat BY <2>2 DEF Instead
  <2>4. c[j] = Linking(x, k, l) BY <1>0 DEF Left, Instead
  <2> HIDE DEF x, k, l
  <2> DEFINE d == Linking(x, k, l)
  <2>5. d \in Block /\ Same(x, d) /\ d.adr = x.adr /\ d.size = x.size /\ d.prev = k /\ d.next = l
    BY <2>1, <2>3, LinkingIs
  <2> HIDE DEF d
  <2> QED BY <2>4, <2>5 DEF d, x, k, l
<1>3. c = [j \in 1 .. n |-> c[j]] /\ DOMAIN c = 1 .. n BY <1>0 DEF Left
<1> HIDE DEF c
<1>4. c \in Seq(Block) /\ Len(c) = n
  <2>1. c \in [1 .. n -> Block] BY <1>2, <1>3
  <2> QED BY <1>0, <1>3, <2>1
<1> QED BY <1>0, <1>2, <1>4 DEF LeftOff, c

Taken(y, x, adr, a, cur) ==
  [slice |-> y, adr |-> adr, size |-> Len8(y), keep |-> TRUE, locked |-> x.locked,
   altered |-> x.altered, was |-> x.was, file |-> a, prev |-> 0, next |-> 0, cur |-> cur]

\* d is the block of slice y, whose entry is x
BlockOf(d, y, x, adr, a, cur) ==
  /\ d \in Block /\ d.slice = y /\ d.adr = adr /\ d.size = Len8(y) /\ d.file = a /\ d.cur = cur
  /\ d.prev = 0 /\ d.next = 0 /\ d.keep = TRUE /\ d.locked = x.locked
  /\ d.altered = x.altered /\ d.was = x.was

LEMMA TakenIs ==
  ASSUME NEW y, NEW x, NEW adr, NEW a, NEW cur, y \in Slices, x \in Slice, adr \in Nat, a \in Nat,
         cur \in BOOLEAN
  PROVE  BlockOf(Taken(y, x, adr, a, cur), y, x, adr, a, cur)
<1> DEFINE l == Len8(y)
           on == TRUE
<1>1. l \in Nat \ {0} BY PlaceIs
<1>2. on \in BOOLEAN OBVIOUS
<1>3. x.locked \in BOOLEAN /\ x.altered \in BOOLEAN /\ x.was \in BOOLEAN BY SliceIs
<1> DEFINE d == [slice |-> y, adr |-> adr, size |-> l, keep |-> on, locked |-> x.locked,
                 altered |-> x.altered, was |-> x.was, file |-> a, prev |-> 0, next |-> 0, cur |-> cur]
<1> HIDE DEF l, on
<1>4. d \in Block BY <1>1, <1>2, <1>3 DEF Block
<1>5. /\ d.slice = y /\ d.adr = adr /\ d.size = l /\ d.file = a /\ d.cur = cur
      /\ d.prev = 0 /\ d.next = 0 /\ d.keep = on /\ d.locked = x.locked
      /\ d.altered = x.altered /\ d.was = x.was
  OBVIOUS
<1>6. Taken(y, x, adr, a, cur) = d BY DEF Taken, l, on
<1> HIDE DEF d
<1> QED BY <1>4, <1>5, <1>6 DEF l, on, BlockOf

LEMMA LoadedIs ==
  ASSUME NEW x, NEW f, x \in Slice, f \in Nat
  PROVE  LET z == Loaded(x, f)
         IN  /\ z \in Slice /\ z.bk = f /\ z.keep = TRUE /\ z.locked = x.locked
             /\ z.altered = x.altered /\ z.was = x.was /\ z.image = x.image
<1> DEFINE on == TRUE
           z == [x EXCEPT !.bk = f, !.keep = on]
<1>1. on \in BOOLEAN OBVIOUS
<1>2. Loaded(x, f) = z BY DEF Loaded
<1> HIDE DEF on
<1>3. /\ z \in Slice /\ z.bk = f /\ z.keep = on /\ z.locked = x.locked
      /\ z.altered = x.altered /\ z.was = x.was /\ z.image = x.image
  BY <1>1 DEF Slice
<1> HIDE DEF z
<1> QED BY <1>2, <1>3 DEF on

\* block f of c, in use for slice y; cur is its content
LoadedBlocks(T, c, x, y, f) ==
  [c EXCEPT ![f] = Taken(y, x, @.adr, FileAdr(T, y), x.image /\ OnFile(T, y))]
LoadedSlices(t, y, f) == [t EXCEPT ![y] = Loaded(@, f)]

LEMMA PlaceForm ==
  ASSUME NEW T, NEW U, NEW c, NEW t, NEW new, NEW y, NEW f, TypedTables(T), c \in Seq(Block),
         t \in [Slices -> Slice], new \in Nat, U = WithAll(T, c, t, new),
         U = IF T.b[f].size # Len8(y) THEN Split(T, f, Len8(y)) ELSE Unlist(T, f)
  PROVE  Place(T, y, f) = WithAll(T, LoadedBlocks(T, c, t[y], y, f), LoadedSlices(t, y, f), new)
<1>1. Put(T, U, c, t, new) BY PutAll
<1>2. U.b = c /\ U.s = t BY <1>1 DEF Put
<1> DEFINE V == IF T.b[f].size # Len8(y) THEN Split(T, f, Len8(y)) ELSE Unlist(T, f)
           bs == [V.b EXCEPT ![f] = Taken(y, V.s[y], @.adr, FileAdr(T, y), V.s[y].image /\ OnFile(T, y))]
           ss == [V.s EXCEPT ![y] = Loaded(@, f)]
<1>3. Place(T, y, f) = [V EXCEPT !.s = ss, !.b = bs] BY DEF Place, Taken
<1> HIDE DEF V
<1>4. V = U BY DEF V
<1>5. bs = LoadedBlocks(T, c, t[y], y, f) /\ ss = LoadedSlices(t, y, f)
  BY <1>2, <1>4 DEF LoadedBlocks, LoadedSlices
<1> HIDE DEF bs, ss
<1>6. [U EXCEPT !.s = ss, !.b = bs] = WithAll(T, bs, ss, new) BY DEF WithAll
<1> QED BY <1>3, <1>4, <1>5, <1>6

\* d is c with block f for slice y, whose entry is x
BlocksWith(c, d, x, y, f, a, cur) ==
  /\ d \in Seq(Block) /\ Len(d) = Len(c) /\ BlockOf(d[f], y, x, c[f].adr, a, cur)
  /\ \A j \in (1 .. Len(c)) \ {f} : d[j] = c[j]

LEMMA LoadedBlocksIs ==
  ASSUME NEW T, NEW c, NEW x, NEW y, NEW f, TypedTables(T), c \in Seq(Block), f \in 1 .. Len(c),
         x \in Slice, y \in Slices
  PROVE  BlocksWith(c, LoadedBlocks(T, c, x, y, f), x, y, f, FileAdr(T, y), x.image /\ OnFile(T, y))
<1> DEFINE cur == x.image /\ OnFile(T, y)
           adr == c[f].adr
           a == FileAdr(T, y)
           e == Taken(y, x, adr, a, cur)
           d == LoadedBlocks(T, c, x, y, f)
<1>1. c[f] \in Block /\ DOMAIN c = 1 .. Len(c) /\ Len(c) \in Nat OBVIOUS
<1>2. adr \in Nat BY <1>1, BlockIs
<1>3. a \in Nat
  <2> DEFINE at == T.base[VarOf[y]]
             k == Len8(y) * Piece[y]
  <2>1. at \in Nat /\ k \in Nat BY PlaceIs, TypedIs
  <2>2. a = IF at = NoAdr THEN NoAdr ELSE at + k BY DEF FileAdr
  <2> HIDE DEF at, k, a
  <2> QED BY <2>1, <2>2 DEF NoAdr
<1>4. cur \in BOOLEAN
  <2>1. OnFile(T, y) \in BOOLEAN BY DEF OnFile
  <2>2. x.image \in BOOLEAN BY SliceIs
  <2> QED BY <2>1, <2>2
<1>5. d = [c EXCEPT ![f] = e] BY DEF LoadedBlocks
<1> HIDE DEF cur, adr, a, d
<1>6. BlockOf(e, y, x, adr, a, cur) BY <1>2, <1>3, <1>4, TakenIs
<1> HIDE DEF e
<1>7. e \in Block BY <1>6 DEF BlockOf
<1>8. d[f] = e /\ d \in Seq(Block) /\ Len(d) = Len(c) /\ \A j \in (1 .. Len(c)) \ {f} : d[j] = c[j]
  BY <1>1, <1>5, <1>7
<1> QED BY <1>6, <1>8 DEF d, adr, a, cur, BlocksWith

\* u is t with slice y in block f
SlicesWith(t, u, y, f) ==
  /\ u \in [Slices -> Slice] /\ u[y].bk = f /\ u[y].keep = TRUE /\ u[y].locked = t[y].locked
  /\ u[y].altered = t[y].altered /\ u[y].was = t[y].was /\ u[y].image = t[y].image
  /\ \A x \in Slices : x # y => u[x] = t[x]

LEMMA LoadedSlicesIs ==
  ASSUME NEW t, NEW y, NEW f, t \in [Slices -> Slice], y \in Slices, f \in Nat
  PROVE  SlicesWith(t, LoadedSlices(t, y, f), y, f)
<1> DEFINE x == t[y]
           z == Loaded(x, f)
           u == LoadedSlices(t, y, f)
<1>1. x \in Slice OBVIOUS
<1>2. u = [t EXCEPT ![y] = z] BY DEF LoadedSlices
<1> HIDE DEF x
<1>3. /\ z \in Slice /\ z.bk = f /\ z.keep = TRUE /\ z.locked = x.locked
      /\ z.altered = x.altered /\ z.was = x.was /\ z.image = x.image
  BY <1>1, LoadedIs
<1> HIDE DEF u, z
<1>4. u[y] = z /\ u \in [Slices -> Slice] /\ \A v \in Slices : v # y => u[v] = t[v] BY <1>2, <1>3
<1> QED BY <1>3, <1>4 DEF u, x, SlicesWith

(* Slice y has come into memory; the others are where they were, in blocks *)
(* that may have another number.                                           *)
Given(T, U, y) ==
  /\ TypedTables(U) /\ Memory(U.b, U.s, U.first)
  /\ U.base = T.base /\ U.wp = T.wp /\ U.file = T.file /\ U.intact = T.intact
  /\ \A x \in Slices : /\ U.s[x].image = T.s[x].image /\ U.s[x].locked = T.s[x].locked
                       /\ U.s[x].bk # 0 <=> T.s[x].bk # 0 \/ x = y
  /\ U.b[U.s[y].bk].file = FileAdr(T, y) /\ (OnDisk(T, y) => U.b[U.s[y].bk].cur)
  /\ \A x \in Slices \ {y} : T.s[x].bk # 0 =>
       LET d == T.b[T.s[x].bk]  e == U.b[U.s[x].bk]
       IN  e.adr = d.adr /\ e.file = d.file /\ e.cur = d.cur
  /\ \A x \in Slices : SliceKept(T, U, x)
  /\ Grounds(T.b, U.b)

LEMMA GivenGood ==
  ASSUME NEW T, NEW U, NEW y, Good(T), y \in Slices, T.s[y].bk = 0, Given(T, U, y)
  PROVE  Good(U) /\ Carried(T, U) /\ Stays(Slices, T, U) /\ Spares(T, U, {})
<1>1. Memory(T.b, T.s, T.first) /\ Told(T) BY DEF Good
<1>2. ASSUME NEW x \in Slices, T.s[x].bk # 0
      PROVE  T.b[T.s[x].bk].file = FileAdr(T, x)
  <2>1. T.s[x].bk \in DOMAIN T.b /\ T.b[T.s[x].bk].slice = x BY <1>1, <1>2 DEF Memory, Names
  <2>2. x # NoSlice BY VmmAssumption
  <2> QED BY <1>1, <2>1, <2>2 DEF Told, InUse
<1>3. Carried(T, U)
  <2>1. ASSUME NEW x \in Slices, U.s[x].bk # 0 PROVE U.b[U.s[x].bk].file = FileAdr(T, x)
    <3>1. CASE x = y BY <3>1 DEF Given
    <3>2. CASE x # y BY <1>2, <2>1, <3>2 DEF Given
    <3> QED BY <3>1, <3>2
  <2> QED BY <2>1 DEF Carried, Given
<1>4. Stays(Slices, T, U)
  <2>1. ~T.s[y].locked BY <1>1 DEF Memory, Names
  <2>2. \A x \in Slices : T.s[x].locked => T.s[x].bk # 0 BY <1>1 DEF Memory, Names
  <2> QED BY <2>1, <2>2 DEF Stays, Given
<1>5. Good(U)
  <2>1. TypedTables(U) /\ Memory(U.b, U.s, U.first) BY DEF Given
  <2> QED BY <1>3, <2>1, CarriedGood
<1>6. Spares(T, U, {})
  <2>1. Even(T.b) => Even(U.b) BY EvenStays DEF Given
  <2>2. \A x \in Slices : SliceKept(T, U, x) BY DEF Given
  <2>3. ASSUME NEW x \in Slices PROVE ContentKept(T, U, x)
    <3>1. CASE x = y BY <3>1 DEF ContentKept, Given
    <3>2. CASE x # y BY <3>2 DEF ContentKept, Given
    <3> QED BY <3>1, <3>2
  <2>4. TypedTables(T) /\ U.base = T.base /\ U.wp = T.wp /\ U.file = T.file BY DEF Good, Given
  <2> QED BY <2>1, <2>2, <2>3, <2>4, MemorySpares
<1> QED BY <1>3, <1>4, <1>5, <1>6

SplitSlices(s, f) ==
  [x \in Slices |-> IF s[x].bk > f THEN Renumbered(s[x], s[x].bk + 1) ELSE s[x]]

LEMMA PlaceSplit ==
  ASSUME NEW T, NEW y, NEW f, Good(T), f \in 1 .. Len(T.b), ~InUse(T.b[f]),
         y \in Slices, T.s[y].bk = 0, Len8(y) < T.b[f].size
  PROVE  LET U == Place(T, y, f)
         IN  /\ Given(T, U, y) /\ f + 1 \in 1 .. Len(U.b) /\ ~InUse(U.b[f + 1])
             /\ U.b[f + 1].size = T.b[f].size - Len8(y)
<1> DEFINE b == T.b
           s == T.s
           n == Len(b)
           l == Len8(y)
           c == SplitBlocks(b, f, l)
           t == SplitSlices(s, f)
           first == IF T.first = f THEN f + 1 ELSE T.first
           d == LoadedBlocks(T, c, t[y], y, f)
           u == LoadedSlices(t, y, f)
           U == Place(T, y, f)
<1>1. TypedTables(T) /\ Memory(b, s, T.first) /\ Told(T) BY DEF Good
<1>2. b \in Seq(Block) /\ s \in [Slices -> Slice] /\ T.first \in Nat BY <1>1, TypedIs
<1>3. l \in Nat \ {0} BY PlaceIs
<1>4. DOMAIN b = 1 .. n /\ n \in Nat /\ f \in Nat /\ f \in 1 .. n BY <1>2
<1>5. t = [x \in Slices |-> IF s[x].bk > f THEN Renumbered(s[x], s[x].bk + 1) ELSE s[x]] BY DEF SplitSlices
<1>6. Split(T, f, l) = WithAll(T, c, t, first) BY DEF Split, SplitBlocks, SplitSlices, WithAll
<1> HIDE DEF t
<1>7. SplitOff(b, c, f, l)
  <2> HIDE DEF l, c
  <2> DEFINE g == T.first
  <2>1. Memory(b, s, g) /\ ~InUse(b[f]) /\ l < b[f].size BY <1>1 DEF l
  <2> HIDE DEF g, b, s
  <2> QED BY <1>2, <1>3, <1>4, <2>1, SplitBlocksIs DEF c, n
<1>8. c \in Seq(Block) /\ Len(c) = n + 1 /\ c[f].adr = b[f].adr
  <2> HIDE DEF c
  <2> QED BY <1>7 DEF SplitOff
<1>9. ASSUME NEW x \in Slices
      PROVE  /\ t[x] \in Slice /\ SameFlags(t[x], s[x]) /\ t[x].image = s[x].image
             /\ t[x].bk = From(f, s[x].bk)
  <2> DEFINE z == s[x]
             k == z.bk + 1
  <2>1. z \in Slice /\ z.bk \in Nat BY <1>2, SliceIs
  <2>2. t[x] = IF z.bk > f THEN Renumbered(z, k) ELSE z BY <1>5
  <2>3. z.bk # f
    <3> SUFFICES ASSUME z.bk = f PROVE FALSE OBVIOUS
    <3>1. b[f].slice = x BY <1>1, <1>4 DEF Memory, Names
    <3> QED BY <3>1, VmmAssumption DEF InUse
  <2> HIDE DEF z
  <2>4. k \in Nat BY <2>1
  <2> HIDE DEF k
  <2> DEFINE w == Renumbered(z, k)
  <2>5. w \in Slice /\ w.bk = k /\ SameFlags(w, z) /\ w.image = z.image BY <2>1, <2>4, RenumberedIs
  <2> HIDE DEF w
  <2>6. t[x] = IF z.bk > f THEN w ELSE z BY <2>2 DEF w
  <2>7. CASE z.bk > f
    <3>1. From(f, z.bk) = k BY <1>4, <2>1, <2>7 DEF From, k
    <3> QED BY <2>5, <2>6, <2>7, <3>1 DEF z
  <2>8. CASE ~(z.bk > f)
    <3>1. From(f, z.bk) = z.bk BY <1>4, <2>1, <2>3, <2>8 DEF From
    <3> QED BY <2>1, <2>6, <2>8, <3>1 DEF z, SameFlags
  <2> QED BY <2>7, <2>8
<1>10. t \in [Slices -> Slice]
  <2>1. t = [x \in Slices |-> t[x]] BY <1>5
  <2> QED BY <1>9, <2>1
<1>11. first \in Nat /\ first = From(f, T.first)
  <2>1. f \in Free(b) BY <1>4, FreeIs DEF InUse
  <2>2. T.first <= f BY <1>1, <1>4, <2>1 DEF Memory, Listed, NextIn
  <2> QED BY <1>2, <1>4, <2>2 DEF From
<1>12. U = WithAll(T, d, u, first)
  <2> DEFINE V == WithAll(T, c, t, first)
  <2>1. T.b[f].size # l
    <3>1. T.b[f] \in Block BY <1>2, <1>4
    <3>2. T.b[f].size \in Nat BY <3>1, BlockIs
    <3> QED BY <1>3, <3>2
  <2>2. V = IF T.b[f].size # l THEN Split(T, f, l) ELSE Unlist(T, f) BY <1>6, <2>1
  <2> HIDE DEF V, c, first
  <2>3. V = WithAll(T, c, t, first) BY DEF V
  <2> QED BY <1>1, <1>8, <1>10, <1>11, <2>2, <2>3, PlaceForm
<1> HIDE DEF U, c, first
<1> DEFINE x == t[y]
<1>13. x \in Slice /\ f \in 1 .. Len(c) BY <1>4, <1>8, <1>10
<1> HIDE DEF x
<1> DEFINE fa == FileAdr(T, y)
           fc == x.image /\ OnFile(T, y)
<1>30. BlocksWith(c, d, x, y, f, fa, fc)
  <2> DEFINE e == LoadedBlocks(T, c, x, y, f)
  <2>1. BlocksWith(c, e, x, y, f, fa, fc) BY <1>1, <1>8, <1>13, LoadedBlocksIs
  <2>2. d = e BY DEF x
  <2> HIDE DEF d, e
  <2> QED BY <2>1, <2>2
<1>31. SlicesWith(t, u, y, f) BY <1>4, <1>10, LoadedSlicesIs
<1> HIDE DEF d, u, fa, fc
<1>14. /\ d \in Seq(Block) /\ Len(d) = n + 1
       /\ d[f].slice = y /\ d[f].adr = c[f].adr /\ d[f].size = Len8(y) /\ d[f].file = fa /\ d[f].cur = fc
       /\ d[f].prev = 0 /\ d[f].next = 0 /\ d[f].keep = TRUE /\ d[f].locked = x.locked
       /\ d[f].altered = x.altered /\ d[f].was = x.was
       /\ \A j \in (1 .. n + 1) \ {f} : d[j] = c[j]
  BY <1>8, <1>30 DEF BlocksWith, BlockOf
<1>15. /\ u \in [Slices -> Slice] /\ u[y].bk = f /\ u[y].keep = TRUE /\ u[y].locked = x.locked
       /\ u[y].altered = x.altered /\ u[y].was = x.was /\ u[y].image = x.image
       /\ \A v \in Slices : v # y => u[v] = t[v]
  BY <1>31 DEF SlicesWith, x
<1>16. Put(T, U, d, u, first) BY <1>1, <1>11, <1>12, <1>14, <1>15, PutAll
<1>17. SplitFor(b, d, f, y)
  <2>1. f + 1 \in (1 .. n + 1) \ {f} BY <1>4
  <2>2. \A j \in (1 .. n) \ {f} : From(f, j) \in (1 .. n + 1) \ {f}
    <3>1. FromWorks(f, n) BY <1>4, FromIs
    <3> QED BY <3>1 DEF FromWorks
  <2>3. SplitOff(b, c, f, Len8(y)) BY <1>7
  <2> HIDE DEF b
  <2> QED BY <1>14, <2>1, <2>2, <2>3 DEF SplitFor, SplitOff, n
<1>18. SameFlags(d[f], u[y]) BY <1>14, <1>15 DEF SameFlags
<1>19. Memory(d, u, first)
  <2> DEFINE g == T.first
  <2>1. Memory(b, s, g) /\ ~InUse(b[f]) /\ s[y].bk = 0 /\ first = From(f, g) /\ g \in Nat BY <1>1, <1>2, <1>11
  <2>2. \A v \in Slices : v # y => SameFlags(u[v], s[v]) /\ u[v].bk = From(f, s[v].bk) BY <1>9, <1>15
  <2>3. f \in 1 .. Len(b) /\ u[y].bk = f BY <1>15
  <2> HIDE DEF g, b, s, n
  <2>4. Memory(d, u, From(f, g)) BY <1>2, <1>17, <1>18, <2>1, <2>2, <2>3, SplitMemory
  <2> QED BY <2>1, <2>4
<1>20. U.b = d /\ U.s = u /\ U.first = first /\ TypedTables(U) BY <1>16 DEF Put
<1>21. \A v \in Slices \ {y} : s[v].bk # 0 =>
         /\ d[u[v].bk].adr = b[s[v].bk].adr /\ d[u[v].bk].file = b[s[v].bk].file
         /\ d[u[v].bk].cur = b[s[v].bk].cur
  <2> SUFFICES ASSUME NEW v \in Slices \ {y}, s[v].bk # 0
               PROVE  /\ d[u[v].bk].adr = b[s[v].bk].adr /\ d[u[v].bk].file = b[s[v].bk].file
                      /\ d[u[v].bk].cur = b[s[v].bk].cur
    OBVIOUS
  <2> DEFINE k == s[v].bk
  <2>1. k \in 1 .. n /\ b[k].slice = v BY <1>1, <1>4 DEF Memory, Names
  <2>2. k # f BY <2>1, VmmAssumption DEF InUse
  <2>3. u[v].bk = From(f, k) BY <1>9, <1>15
  <2> HIDE DEF k
  <2>4. d[From(f, k)].adr = b[k].adr /\ Same(b[k], d[From(f, k)])
    <3> HIDE DEF b
    <3> QED BY <1>17, <2>1, <2>2 DEF SplitFor, n
  <2> QED BY <2>3, <2>4 DEF k, Same, Like
<1>22. ASSUME NEW v \in Slices
       PROVE  u[v].image = s[v].image /\ u[v].locked = s[v].locked /\ (u[v].bk # 0 <=> s[v].bk # 0 \/ v = y)
  <2>1. t[v].image = s[v].image /\ t[v].locked = s[v].locked BY <1>9 DEF SameFlags
  <2>2. CASE v = y BY <1>4, <1>15, <2>1, <2>2 DEF x
  <2>3. CASE v # y
    <3>1. u[v] = t[v] /\ t[v].bk = From(f, s[v].bk) /\ s[v].bk \in Nat BY <1>2, <1>9, <1>15, <2>3, SliceIs
    <3>2. From(f, s[v].bk) # 0 <=> s[v].bk # 0
      <4>1. FromWorks(f, n) BY <1>4, FromIs
      <4> QED BY <3>1, <4>1 DEF FromWorks
    <3> QED BY <2>1, <2>3, <3>1, <3>2
  <2> QED BY <2>2, <2>3
<1>25. \A v \in Slices : SliceKept(T, U, v)
  <2>1. \A v \in Slices : t[v].image = s[v].image /\ t[v].altered = s[v].altered /\ t[v].was = s[v].was
    BY <1>9 DEF SameFlags
  <2> QED BY <1>15, <1>20, <2>1 DEF SliceKept, s, x
<1>26. Grounds(b, d)
  <2>1. FromWorks(f, n) BY <1>4, FromIs
  <2> SUFFICES ASSUME NEW j \in 1 .. n + 1
               PROVE  \E k \in 1 .. n : d[j].adr = b[k].adr \/ \E v \in Slices : d[j].adr = b[k].adr + Len8(v)
    BY <1>14 DEF Grounds, n
  <2>2. CASE j = f BY <1>4, <1>8, <1>14, <2>2
  <2>3. CASE j = f + 1
    <3>1. d[f + 1].adr = b[f].adr + Len8(y) BY <1>17 DEF SplitFor
    <3> QED BY <1>4, <2>3, <3>1
  <2>4. CASE j # f /\ j # f + 1
    <3>1. j \in (1 .. n + 1) \ {f, f + 1} BY <2>4
    <3>2. PICK k \in (1 .. n) \ {f} : j = From(f, k) BY <2>1, <3>1 DEF FromWorks
    <3>3. d[From(f, k)].adr = b[k].adr
      <4> HIDE DEF b
      <4> QED BY <1>17, <3>2 DEF SplitFor, n
    <3> QED BY <3>2, <3>3
  <2> QED BY <2>2, <2>3, <2>4
<1>23. Given(T, U, y)
  <2>1. U.base = T.base /\ U.wp = T.wp /\ U.file = T.file /\ U.intact = T.intact BY <1>16 DEF Put
  <2>2. d[u[y].bk].file = FileAdr(T, y) BY <1>14, <1>15 DEF fa
  <2>3. OnDisk(T, y) => d[u[y].bk].cur
    <3>1. x.image = s[y].image BY <1>9 DEF x
    <3> QED BY <1>14, <1>15, <3>1 DEF fc, OnDisk, s
  <2> QED BY <1>19, <1>20, <1>21, <1>22, <1>25, <1>26, <2>1, <2>2, <2>3 DEF Given, b, s
<1>24. f + 1 \in 1 .. Len(d) /\ ~InUse(d[f + 1]) /\ d[f + 1].size = b[f].size - Len8(y)
  <2>1. ~InUse(d[f + 1]) /\ d[f + 1].size = b[f].size - Len8(y)
    <3> HIDE DEF b
    <3> QED BY <1>17 DEF SplitFor
  <2> QED BY <1>4, <1>14, <2>1
<1> QED BY <1>20, <1>23, <1>24 DEF U

Fits(T, y, f) == T.b[f].size = Len8(y)

LEMMA PlaceUnlist ==
  ASSUME NEW T, NEW y, NEW f, NeverExactlyFull, Good(T), f \in 1 .. Len(T.b), ~InUse(T.b[f]),
         y \in Slices, T.s[y].bk = 0, Fits(T, y, f)
  PROVE  Given(T, Place(T, y, f), y)
<1> DEFINE b == T.b
           s == T.s
           n == Len(b)
           p == b[f].prev
           k == b[f].next
           c == Left(b, f)
           first == IF T.first # f THEN T.first ELSE IF p # 0 THEN p ELSE IF k # 0 THEN k ELSE T.first
           x == s[y]
           fa == FileAdr(T, y)
           fc == x.image /\ OnFile(T, y)
           d == LoadedBlocks(T, c, x, y, f)
           u == LoadedSlices(s, y, f)
           U == Place(T, y, f)
<1>1. TypedTables(T) /\ Memory(b, s, T.first) /\ Told(T) BY DEF Good
<1>2. b \in Seq(Block) /\ s \in [Slices -> Slice] /\ T.first \in Nat BY <1>1, TypedIs
<1>4. DOMAIN b = 1 .. n /\ n \in Nat /\ f \in Nat /\ f \in 1 .. n BY <1>2
<1>5. b[f] \in Block /\ p \in Nat /\ k \in Nat BY <1>2, <1>4, BlockIs
<1>6. Unlist(T, f) = WithAll(T, c, s, first) BY <1>1 DEF Unlist, WithAll, TypedTables, Fits
<1>7. LeftOff(b, c, f) BY <1>2, <1>4, LeftIs
<1>8. c \in Seq(Block) /\ Len(c) = n /\ c[f].adr = b[f].adr
  <2> HIDE DEF c
  <2> QED BY <1>7 DEF LeftOff
<1>11. first \in Nat BY <1>2, <1>5
<1>12. U = WithAll(T, d, u, first)
  <2> DEFINE V == WithAll(T, c, s, first)
  <2>1. V = IF T.b[f].size # Len8(y) THEN Split(T, f, Len8(y)) ELSE Unlist(T, f) BY <1>6 DEF Fits
  <2> HIDE DEF V, c, first, s
  <2>3. V = WithAll(T, c, s, first) BY DEF V
  <2>4. TypedTables(T) /\ s \in [Slices -> Slice] /\ c \in Seq(Block) BY <1>1, <1>2, <1>8
  <2> QED BY <1>11, <2>1, <2>3, <2>4, PlaceForm
<1>17. first = NewFirst(b, f, T.first) BY DEF NewFirst
<1> HIDE DEF U, c, first, p, k
<1>13. x \in Slice /\ f \in 1 .. Len(c) BY <1>2, <1>4, <1>8
<1>30. BlocksWith(c, d, x, y, f, fa, fc)
  <2> HIDE DEF x
  <2> QED BY <1>1, <1>8, <1>13, LoadedBlocksIs
<1>31. SlicesWith(s, u, y, f) BY <1>2, <1>4, LoadedSlicesIs
<1> HIDE DEF d, u, fa, fc
<1>14. /\ d \in Seq(Block) /\ Len(d) = n
       /\ d[f].slice = y /\ d[f].adr = c[f].adr /\ d[f].size = Len8(y) /\ d[f].file = fa /\ d[f].cur = fc
       /\ d[f].prev = 0 /\ d[f].next = 0 /\ d[f].keep = TRUE /\ d[f].locked = x.locked
       /\ d[f].altered = x.altered /\ d[f].was = x.was
       /\ \A j \in (1 .. n) \ {f} : d[j] = c[j]
  BY <1>8, <1>30 DEF BlocksWith, BlockOf
<1>15. /\ u \in [Slices -> Slice] /\ u[y].bk = f /\ u[y].keep = TRUE /\ u[y].locked = x.locked
       /\ u[y].altered = x.altered /\ u[y].was = x.was /\ u[y].image = x.image
       /\ \A v \in Slices : v # y => u[v] = s[v]
  BY <1>31 DEF SlicesWith
<1>16. Put(T, U, d, u, first) BY <1>1, <1>11, <1>12, <1>14, <1>15, PutAll
<1>18. SameFlags(d[f], u[y]) BY <1>14, <1>15 DEF SameFlags
<1>9. UnlistFor(b, d, f, y)
  <2> HIDE DEF b
  <2> QED BY <1>7, <1>8, <1>14 DEF UnlistFor, LeftOff, n, b, Fits
<1>19. Memory(d, u, first)
  <2> DEFINE g == T.first
  <2>1. Memory(b, s, g) /\ ~InUse(b[f]) /\ s[y].bk = 0 /\ g \in Nat BY <1>1, <1>2
  <2>2. Alike(s, u, y) BY <1>15 DEF SameFlags, Alike
  <2>3. f \in 1 .. Len(b) /\ u[y].bk = f BY <1>15
  <2>4. first = NewFirst(b, f, g) BY <1>17
  <2> HIDE DEF g, b, s, n
  <2>5. Memory(d, u, NewFirst(b, f, g)) BY <1>2, <1>9, <1>18, <2>1, <2>2, <2>3, UnlistMemory
  <2> QED BY <2>4, <2>5
<1>20. U.b = d /\ U.s = u /\ U.first = first /\ TypedTables(U) BY <1>16 DEF Put
<1>21. \A v \in Slices \ {y} : s[v].bk # 0 =>
         /\ d[u[v].bk].adr = b[s[v].bk].adr /\ d[u[v].bk].file = b[s[v].bk].file
         /\ d[u[v].bk].cur = b[s[v].bk].cur
  <2> SUFFICES ASSUME NEW v \in Slices \ {y}, s[v].bk # 0
               PROVE  /\ d[u[v].bk].adr = b[s[v].bk].adr /\ d[u[v].bk].file = b[s[v].bk].file
                      /\ d[u[v].bk].cur = b[s[v].bk].cur
    OBVIOUS
  <2> DEFINE m == s[v].bk
  <2>1. m \in 1 .. n /\ b[m].slice = v BY <1>1, <1>4 DEF Memory, Names
  <2>2. m # f BY <2>1, VmmAssumption DEF InUse
  <2>3. u[v].bk = m BY <1>15
  <2> HIDE DEF m
  <2>4. d[m].adr = b[m].adr /\ Same(b[m], d[m])
    <3> HIDE DEF b
    <3> QED BY <1>9, <2>1, <2>2 DEF UnlistFor, n
  <2> QED BY <2>3, <2>4 DEF m, Same, Like
<1>22. ASSUME NEW v \in Slices
       PROVE  u[v].image = s[v].image /\ u[v].locked = s[v].locked /\ (u[v].bk # 0 <=> s[v].bk # 0 \/ v = y)
  <2>1. CASE v = y BY <1>4, <1>15, <2>1 DEF x
  <2>2. CASE v # y BY <1>15, <2>2
  <2> QED BY <2>1, <2>2
<1>25. \A v \in Slices : SliceKept(T, U, v) BY <1>15, <1>20 DEF SliceKept, s, x
<1>26. Grounds(b, d)
  <2>1. ASSUME NEW j \in 1 .. n PROVE d[j].adr = b[j].adr
    <3>1. CASE j = f BY <1>8, <1>14, <3>1
    <3>2. CASE j # f
      <4>1. j \in (1 .. n) \ {f} BY <3>2
      <4> HIDE DEF b
      <4> QED BY <1>9, <4>1 DEF UnlistFor, n
    <3> QED BY <3>1, <3>2
  <2> QED BY <1>14, <2>1 DEF Grounds, n
<1>23. Given(T, U, y)
  <2>1. U.base = T.base /\ U.wp = T.wp /\ U.file = T.file /\ U.intact = T.intact BY <1>16 DEF Put
  <2>2. d[u[y].bk].file = FileAdr(T, y) BY <1>14, <1>15 DEF fa
  <2>3. OnDisk(T, y) => d[u[y].bk].cur BY <1>14, <1>15 DEF fc, OnDisk, s, x
  <2> QED BY <1>19, <1>20, <1>21, <1>22, <1>25, <1>26, <2>1, <2>2, <2>3 DEF Given, b, s
<1> QED BY <1>23 DEF U

\* y has come into the first part of the free block f, or all of it
Placed(T, U, y, f) ==
  /\ Good(U) /\ Carried(T, U) /\ Stays(Slices, T, U) /\ Spares(T, U, {})
  /\ \A x \in Slices : U.s[x].bk # 0 <=> T.s[x].bk # 0 \/ x = y
  /\ Len8(y) < T.b[f].size =>
       f + 1 \in 1 .. Len(U.b) /\ ~InUse(U.b[f + 1]) /\ U.b[f + 1].size = T.b[f].size - Len8(y)

LEMMA PlaceGood ==
  ASSUME NEW T, NEW y, NEW f, NeverExactlyFull, Good(T), f \in 1 .. Len(T.b), ~InUse(T.b[f]),
         y \in Slices, T.s[y].bk = 0, Len8(y) <= T.b[f].size
  PROVE  Placed(T, Place(T, y, f), y, f)
<1> DEFINE U == Place(T, y, f)
           l == Len8(y)
           size == T.b[f].size
<1>1. l \in Nat BY PlaceIs
<1>2. size \in Nat
  <2>1. T.b \in Seq(Block) BY TypedIs DEF Good
  <2>2. T.b[f] \in Block BY <2>1
  <2> QED BY <2>2, BlockIs
<1>3. l <= size OBVIOUS
<1> HIDE DEF U, l, size
<1>4. l < size \/ l = size BY <1>1, <1>2, <1>3
<1>5. ASSUME l < size
      PROVE  Given(T, U, y) /\ f + 1 \in 1 .. Len(U.b) /\ ~InUse(U.b[f + 1]) /\ U.b[f + 1].size = size - l
  BY <1>5, PlaceSplit DEF U, l, size
<1>6. ASSUME l = size PROVE Given(T, U, y) BY <1>6, PlaceUnlist DEF U, l, size, Fits
<1>7. Given(T, U, y) BY <1>4, <1>5, <1>6
<1>8. Good(U) /\ Carried(T, U) /\ Stays(Slices, T, U) /\ Spares(T, U, {}) BY <1>7, GivenGood
<1>9. \A x \in Slices : U.s[x].bk # 0 <=> T.s[x].bk # 0 \/ x = y BY <1>7 DEF Given
<1> QED BY <1>5, <1>8, <1>9 DEF Placed, U, l, size

---------------------------------------------------------------------------
(* pack_segment and pack_blocks. *)

LEMMA GoodIs ==
  ASSUME NEW T, Good(T)
  PROVE  /\ TypedTables(T) /\ T.b \in Seq(Block) /\ DOMAIN T.b = 1 .. Len(T.b) /\ Len(T.b) \in Nat
         /\ Len(T.b) >= 1 /\ Names(T.b, T.s) /\ T.s \in [Slices -> Slice]
         /\ \A j \in 1 .. Len(T.b) : T.b[j] \in Block
<1>1. TypedTables(T) /\ Names(T.b, T.s) /\ Tiled(T.b) BY DEF Good, Memory
<1>2. T.b \in Seq(Block) /\ T.s \in [Slices -> Slice] BY <1>1, TypedIs
<1>3. Len(T.b) >= 1 BY <1>1 DEF Tiled
<1> QED BY <1>1, <1>2, <1>3

\* the slices in memory in T are so in U
StillInCore(T, U) == \A x \in Slices : T.s[x].bk # 0 => U.s[x].bk # 0

LEMMA CarriedTrans ==
  ASSUME NEW T, NEW U, NEW V, Carried(T, U), Carried(U, V)
  PROVE  Carried(T, V)
<1>1. \A x \in Slices : FileAdr(U, x) = FileAdr(T, x) BY DEF Carried, FileAdr
<1> QED BY <1>1 DEF Carried

LEMMA StaysTrans ==
  ASSUME NEW X, NEW T, NEW U, NEW V, Stays(X, T, U), Stays(X, U, V)
  PROVE  Stays(X, T, V)
BY DEF Stays

(* A block in use is that of a slice in memory.                            *)
LEMMA InCoreBy ==
  ASSUME NEW T, NEW U, Good(T), Good(U),
         \A j \in 1 .. Len(T.b) : InUse(T.b[j]) => \E k \in 1 .. Len(U.b) : U.b[k].slice = T.b[j].slice
  PROVE  StillInCore(T, U)
<1> SUFFICES ASSUME NEW x \in Slices, T.s[x].bk # 0 PROVE U.s[x].bk # 0 BY DEF StillInCore
<1>1. T.s[x].bk \in 1 .. Len(T.b) /\ T.b[T.s[x].bk].slice = x BY GoodIs DEF Names
<1>2. x # NoSlice BY VmmAssumption
<1>3. PICK k \in 1 .. Len(U.b) : U.b[k].slice = x BY <1>1, <1>2 DEF InUse
<1>4. InUse(U.b[k]) /\ k \in DOMAIN U.b BY <1>2, <1>3, GoodIs DEF InUse
<1>5. U.s[x].bk = k BY <1>3, <1>4, GoodIs DEF Names
<1> QED BY <1>3, <1>5

Room(x) == IF InUse(x) THEN 0 ELSE x.size

(* From the free block "at" to block e, before which nothing is locked     *)
(* since block i, the free blocks have the room that h counts, of which    *)
(* "need" is wanted.                                                       *)
Runs(T, i, at, need, e, h) ==
  /\ e \in at .. Len(T.b) /\ h \in [Nat -> Nat] /\ ~InUse(T.b[at])
  /\ \A j \in i .. e : T.b[j].locked = FALSE
  /\ h[at] <= T.b[at].size /\ need <= h[e]
  /\ \A j \in at + 1 .. e : h[j] <= h[j - 1] + Room(T.b[j])

LEMMA RunCollapsed ==
  ASSUME NEW T, NEW U, NEW i, NEW at, NEW need, NEW e, NEW h, i \in Nat, i >= 1, at \in i .. Len(T.b) - 1,
         Good(T), Good(U), Len(U.b) = Len(T.b) - 1, Runs(T, i, at, need, e, h), need \in Nat,
         ~InUse(T.b[at + 1]), \A j \in 1 .. at - 1 : U.b[j] = T.b[j],
         Same(T.b[at], U.b[at]), U.b[at].size = T.b[at].size + T.b[at + 1].size,
         \A j \in at + 1 .. Len(T.b) - 1 : Same(T.b[j + 1], U.b[j]) /\ U.b[j].size = T.b[j + 1].size
  PROVE  \E f, g : Runs(U, i, at, need, f, g)
<1> DEFINE b == T.b
           c == U.b
           n == Len(b)
<1>1. n \in Nat /\ Len(c) = n - 1 /\ at \in Nat /\ at \in 1 .. n - 1 /\ \A j \in 1 .. n : b[j] \in Block BY GoodIs
<1>2. \A j \in 1 .. n : b[j].size \in Nat /\ b[j].locked \in BOOLEAN BY <1>1, BlockIs
<1>3. /\ e \in at .. n /\ h \in [Nat -> Nat] /\ ~InUse(b[at]) /\ \A j \in i .. e : b[j].locked = FALSE
      /\ h[at] <= b[at].size /\ need <= h[e] /\ \A j \in at + 1 .. e : h[j] <= h[j - 1] + Room(b[j])
  BY DEF Runs
<1>4. /\ ~InUse(b[at + 1]) /\ (\A j \in 1 .. at - 1 : c[j] = b[j]) /\ Same(b[at], c[at])
      /\ c[at].size = b[at].size + b[at + 1].size
      /\ \A j \in at + 1 .. n - 1 : Same(b[j + 1], c[j]) /\ c[j].size = b[j + 1].size
  OBVIOUS
<1> HIDE DEF b, c, n
<1>5. ~InUse(c[at]) /\ c[at].locked = b[at].locked BY <1>3, <1>4 DEF Same, Like, InUse, SameFlags
<1>6. CASE e = at
  <2>1. e \in at .. n - 1 BY <1>1, <1>6
  <2>2. \A j \in i .. e : c[j].locked = FALSE
    <3> SUFFICES ASSUME NEW j \in i .. e PROVE c[j].locked = FALSE OBVIOUS
    <3>1. j = at \/ j \in 1 .. at - 1 BY <1>1, <1>6
    <3> QED BY <1>3, <1>4, <1>5, <1>6, <3>1
  <2>3. h[at] <= c[at].size
    <3> DEFINE k == h[at]
               p == b[at].size
               q == b[at + 1].size
    <3>1. k \in Nat /\ p \in Nat /\ q \in Nat /\ k <= p /\ c[at].size = p + q
      <4>1. at \in 1 .. n /\ at + 1 \in 1 .. n BY <1>1
      <4> QED BY <1>1, <1>2, <1>3, <1>4, <4>1
    <3> HIDE DEF k, p, q
    <3>2. k <= c[at].size BY <3>1
    <3> QED BY <3>2 DEF k
  <2>4. e \in at .. Len(c) /\ \A j \in at + 1 .. e : FALSE BY <1>1, <1>6
  <2>5. h \in [Nat -> Nat] /\ need <= h[e] BY <1>3
  <2> HIDE DEF b
  <2>6. Runs(U, i, at, need, e, h) BY <1>5, <2>2, <2>3, <2>4, <2>5 DEF Runs, c
  <2> QED BY <2>6
<1>7. CASE e # at
  <2> DEFINE f == e - 1
             g == [j \in Nat |-> h[j + 1]]
  <2>1. f \in at .. n - 1 /\ f \in Nat /\ f + 1 = e /\ e \in Nat BY <1>1, <1>3, <1>7
  <2>2. g \in [Nat -> Nat] /\ (\A j \in Nat : g[j] = h[j + 1])
    <3>1. \A j \in Nat : j + 1 \in Nat OBVIOUS
    <3>2. h \in [Nat -> Nat] BY <1>3
    <3>3. \A j \in Nat : h[j + 1] \in Nat BY <3>1, <3>2
    <3> QED BY <3>3
  <2> HIDE DEF f, g
  <2>3. \A j \in i .. f : c[j].locked = FALSE
    <3> SUFFICES ASSUME NEW j \in i .. f PROVE c[j].locked = FALSE OBVIOUS
    <3>1. j \in i .. e /\ j + 1 \in i .. e BY <2>1
    <3>2. CASE j = at BY <1>3, <1>5, <3>1, <3>2
    <3>3. CASE j < at
      <4>1. j \in 1 .. at - 1 BY <1>1, <3>3
      <4> QED BY <1>3, <1>4, <3>1, <4>1
    <3>4. CASE j > at
      <4>1. j \in at + 1 .. n - 1 BY <1>1, <2>1, <3>4
      <4> QED BY <1>3, <1>4, <3>1, <4>1 DEF Same, Like, SameFlags
    <3>5. j \in Nat BY <2>1
    <3>6. j = at \/ j < at \/ j > at BY <1>1, <3>5
    <3> QED BY <3>2, <3>3, <3>4, <3>6
  <2>4. g[at] <= c[at].size
    <3>1. at + 1 \in at + 1 .. e /\ at \in 1 .. n /\ at + 1 \in 1 .. n /\ at + 1 - 1 = at BY <1>1, <1>3, <1>7
    <3>2. h[at + 1] <= h[at] + Room(b[at + 1])
      <4> DEFINE k == at + 1
      <4>1. k \in at + 1 .. e /\ k - 1 = at BY <3>1
      <4>2. \A j \in at + 1 .. e : h[j] <= h[j - 1] + Room(b[j]) BY <1>3
      <4> HIDE DEF k
      <4>3. h[k] <= h[k - 1] + Room(b[k]) BY <4>1, <4>2
      <4> QED BY <4>1, <4>3 DEF k
    <3>3. Room(b[at + 1]) = b[at + 1].size BY <1>4 DEF Room
    <3> DEFINE k == h[at]
               l == h[at + 1]
               p == b[at].size
               q == b[at + 1].size
    <3>4. k \in Nat /\ l \in Nat /\ p \in Nat /\ q \in Nat /\ k <= p /\ c[at].size = p + q /\ l <= k + q /\ g[at] = l
      BY <1>1, <1>2, <1>3, <1>4, <2>2, <3>1, <3>2, <3>3
    <3> HIDE DEF k, l, p, q
    <3> QED BY <3>4
  <2>5. need <= g[f] BY <1>3, <2>1, <2>2
  <2>6. \A j \in at + 1 .. f : g[j] <= g[j - 1] + Room(c[j])
    <3> SUFFICES ASSUME NEW j \in at + 1 .. f PROVE g[j] <= g[j - 1] + Room(c[j]) OBVIOUS
    <3>1. j + 1 \in at + 1 .. e /\ j \in at + 1 .. n - 1 /\ j - 1 \in Nat /\ j - 1 + 1 = j /\ j + 1 - 1 = j /\ j \in Nat
      BY <1>1, <2>1
    <3>2. h[j + 1] <= h[j] + Room(b[j + 1]) BY <1>3, <3>1
    <3>3. Room(c[j]) = Room(b[j + 1]) BY <1>4, <3>1 DEF Room, Same, Like, InUse
    <3>4. g[j] = h[j + 1] /\ g[j - 1] = h[j] BY <2>2, <3>1
    <3> QED BY <3>2, <3>3, <3>4
  <2>7. Runs(U, i, at, need, f, g) BY <1>1, <1>5, <2>1, <2>2, <2>3, <2>4, <2>5, <2>6 DEF Runs, c
  <2> QED BY <2>7
<1> QED BY <1>6, <1>7

LEMMA RunSwapped ==
  ASSUME NEW T, NEW U, NEW i, NEW at, NEW need, NEW e, NEW h, i \in Nat, i >= 1, at \in i .. Len(T.b) - 1,
         Good(T), Good(U), Runs(T, i, at, need, e, h), need \in Nat,
         InUse(T.b[at + 1]), ~T.b[at + 1].locked, Swapped(T.b, U.b, at)
  PROVE  \E f, g : Runs(U, i, at + 1, need, f, g)
<1> DEFINE b == T.b
           c == U.b
           n == Len(b)
           k == at + 1
<1>1. n \in Nat /\ at \in Nat /\ at \in 1 .. n - 1 /\ \A j \in 1 .. n : b[j] \in Block /\ b[j].locked \in BOOLEAN
  BY GoodIs, BlockIs
<1>2. k \in Nat /\ k \in 1 .. n /\ at < k /\ k - 1 = at BY <1>1
<1>3. /\ e \in at .. n /\ h \in [Nat -> Nat] /\ \A j \in i .. e : b[j].locked = FALSE
      /\ h[at] <= b[at].size /\ need <= h[e] /\ \A j \in at + 1 .. e : h[j] <= h[j - 1] + Room(b[j])
  BY DEF Runs
<1>4. InUse(b[k]) /\ b[k].locked = FALSE BY <1>1, <1>2
<1>5. /\ Len(c) = n /\ Like(b[k], c[at]) /\ ~InUse(c[k]) /\ ~c[k].locked /\ c[k].size = b[at].size
      /\ \A j \in (1 .. n) \ {at, k} : Like(b[j], c[j]) /\ c[j].size = b[j].size
  BY DEF Swapped
<1>6. c[k].locked = FALSE
  <2>1. c[k] \in Block BY <1>2, <1>5, GoodIs
  <2> QED BY <1>5, <2>1, BlockIs
<1> HIDE DEF b, c, n, k
<1>7. e \in Nat /\ at <= e
  <2>1. n \in Nat /\ at \in Nat /\ e \in at .. n BY <1>1, <1>3
  <2> QED BY <2>1
<1>8. \A j \in i .. n : (j <= e \/ j <= k) => c[j].locked = FALSE
  <2> SUFFICES ASSUME NEW j \in i .. n, j <= e \/ j <= k PROVE c[j].locked = FALSE OBVIOUS
  <2>1. CASE j = at BY <1>4, <1>5, <2>1 DEF Like, SameFlags
  <2>2. CASE j = k BY <1>6, <2>2
  <2>3. CASE j # at /\ j # k
    <3>1. j \in Nat /\ i <= j /\ j <= n BY <1>1
    <3>2. k = at + 1 /\ at \in Nat BY <1>1 DEF k
    <3>3. j <= e BY <1>7, <2>3, <3>1, <3>2
    <3>4. j \in (1 .. n) \ {at, k} /\ j \in i .. e BY <1>7, <2>3, <3>1, <3>3
    <3> QED BY <1>3, <1>5, <3>4 DEF Like, SameFlags
  <2> QED BY <2>1, <2>2, <2>3
<1>9. CASE e = at
  <2> DEFINE g == [h EXCEPT ![k] = h[at]]
  <2>1. g \in [Nat -> Nat] /\ g[k] = h[at] BY <1>1, <1>2, <1>3
  <2> HIDE DEF g
  <2>2. Runs(U, i, k, need, k, g)
    <3>1. k \in k .. n /\ \A j \in i .. k : j \in i .. n BY <1>1, <1>2
    <3>2. \A j \in i .. k : c[j].locked = FALSE BY <1>1, <1>2, <1>8, <3>1
    <3>3. g[k] <= c[k].size /\ need <= g[k] BY <1>3, <1>5, <1>9, <2>1
    <3>4. \A j \in k + 1 .. k : FALSE BY <1>2
    <3> QED BY <1>5, <2>1, <3>1, <3>2, <3>3, <3>4 DEF Runs, c
  <2> QED BY <2>2 DEF k
<1>10. CASE e # at
  <2>1. e \in k .. n /\ e \in Nat BY <1>1, <1>2, <1>3, <1>10
  <2>2. h[k] <= c[k].size
    <3>1. k \in at + 1 .. e BY <1>2, <2>1 DEF k
    <3>2. h[k] <= h[at] + Room(b[k]) BY <1>2, <1>3, <3>1
    <3>3. Room(b[k]) = 0 BY <1>4 DEF Room
    <3>4. h[k] \in Nat /\ h[at] \in Nat /\ b[at].size \in Nat
      <4>1. at \in 1 .. n BY <1>1
      <4> QED BY <1>1, <1>2, <1>3, <4>1, BlockIs
    <3>5. h[at] <= b[at].size /\ c[k].size = b[at].size BY <1>3, <1>5
    <3> DEFINE l == h[k]
               m == h[at]
               q == b[at].size
    <3>6. l <= m + 0 /\ l \in Nat /\ m \in Nat /\ q \in Nat BY <3>2, <3>3, <3>4
    <3>7. m <= q BY <3>5
    <3> HIDE DEF l, m, q
    <3>8. l <= q BY <3>6, <3>7
    <3> QED BY <3>5, <3>8 DEF l, q
  <2>3. \A j \in k + 1 .. e : h[j] <= h[j - 1] + Room(c[j])
    <3> SUFFICES ASSUME NEW j \in k + 1 .. e PROVE h[j] <= h[j - 1] + Room(c[j]) OBVIOUS
    <3>1. j \in at + 1 .. e /\ j \in (1 .. n) \ {at, k} BY <1>1, <1>2, <2>1
    <3>2. Room(c[j]) = Room(b[j]) BY <1>5, <3>1 DEF Room, Like, InUse
    <3> QED BY <1>3, <3>1, <3>2
  <2>4. \A j \in i .. e : c[j].locked = FALSE
    <3>1. \A j \in i .. e : j \in i .. n /\ j <= e BY <1>1, <2>1
    <3> QED BY <1>8, <3>1
  <2>5. Runs(U, i, k, need, e, h) BY <1>3, <1>5, <2>1, <2>2, <2>3, <2>4 DEF Runs, c
  <2> QED BY <2>5 DEF k
<1> QED BY <1>9, <1>10

At1(T, i) == [t |-> T, at |-> i]

LEMMA PackTurnIs ==
  ASSUME NEW segment, NEW T, NEW i, NEW k, segment \in BOOLEAN, i \in Nat, Len(T.b) \in Nat
  PROVE  /\ i >= Len(T.b) => PackTurn(segment, At1(T, i), k) = At1(T, i)
         /\ i < Len(T.b) /\ InUse(T.b[i]) => PackTurn(segment, At1(T, i), k) = At1(T, i + 1)
         /\ i < Len(T.b) /\ ~InUse(T.b[i]) /\ ~InUse(T.b[i + 1]) =>
              PackTurn(segment, At1(T, i), k) = At1(CollapseBlocks(T, i), i)
         /\ i < Len(T.b) /\ ~InUse(T.b[i]) /\ InUse(T.b[i + 1]) /\ T.b[i + 1].locked =>
              PackTurn(segment, At1(T, i), k) = IF segment THEN At1(T, i) ELSE At1(T, i + 1)
         /\ i < Len(T.b) /\ ~InUse(T.b[i]) /\ InUse(T.b[i + 1]) /\ ~T.b[i + 1].locked =>
              PackTurn(segment, At1(T, i), k) = At1(SwapBlocks(T, i), i + 1)
<1> DEFINE r == At1(T, i)
           n == Len(T.b)
           U == CollapseBlocks(T, i)
           V == SwapBlocks(T, i)
           P == InUse(T.b[i])
           Q == InUse(T.b[i + 1])
           L == T.b[i + 1].locked
           z == PackTurn(segment, r, k)
<1>1. r.t = T /\ r.at = i BY DEF At1
<1>2. [r EXCEPT !.at = i + 1] = At1(T, i + 1) /\ [r EXCEPT !.t = U] = At1(U, i)
  <2> HIDE DEF U
  <2> QED BY DEF At1
<1>3. z = CASE i >= n -> r
            [] i < n /\ P -> At1(T, i + 1)
            [] i < n /\ ~P /\ ~Q -> At1(U, i)
            [] i < n /\ ~P /\ Q /\ L -> IF segment THEN r ELSE At1(T, i + 1)
            [] OTHER -> At1(V, i + 1)
  <2>1. V = SwapBlocks(T, i) OBVIOUS
  <2> HIDE DEF V, U
  <2> QED BY <1>1, <1>2, <2>1 DEF PackTurn, At1, U
<1> HIDE DEF r, n, U, V, P, Q, L, z
<1>4. n \in Nat /\ i \in Nat BY DEF n
<1>5. i >= n <=> ~(i < n) BY <1>4
<1>6. /\ i >= n => z = r
      /\ i < n /\ P => z = At1(T, i + 1)
      /\ i < n /\ ~P /\ ~Q => z = At1(U, i)
      /\ i < n /\ ~P /\ Q /\ L => z = IF segment THEN r ELSE At1(T, i + 1)
      /\ i < n /\ ~P /\ Q /\ ~L => z = At1(V, i + 1)
  BY <1>3, <1>5
<1> QED BY <1>6 DEF r, n, U, V, P, Q, L, z

HasRun(T, i, at, need) == \E e, h : Runs(T, i, at, need, e, h)

Stopped(b, at) == at >= Len(b) \/ (~InUse(b[at]) /\ InUse(b[at + 1]) /\ b[at + 1].locked)

(* The tables that a load may leave, as far as it has come: nothing that   *)
(* is in memory or locked is lost, and no content that was sound.          *)
Arranged(T, U) ==
  Good(U) /\ Carried(T, U) /\ Stays(Slices, T, U) /\ StillInCore(T, U) /\ Spares(T, U, {})

LEMMA ArrangedTrans ==
  ASSUME NEW T, NEW U, NEW V, Good(T), Arranged(T, U), Arranged(U, V)
  PROVE  Arranged(T, V)
<1>1. Carried(T, V) BY CarriedTrans DEF Arranged
<1>2. Stays(Slices, T, V) BY StaysTrans DEF Arranged
<1>3. StillInCore(T, V) BY DEF Arranged, StillInCore
<1>4. TypedTables(T) /\ TypedTables(U) /\ TypedTables(V) BY GoodIs DEF Arranged
<1>5. Spares(T, V, {})
  <2>1. Spares(T, U, {}) /\ Spares(U, V, {}) BY DEF Arranged
  <2> QED BY <1>4, <2>1, SparesTrans
<1> QED BY <1>1, <1>2, <1>3, <1>5 DEF Arranged

LEMMA ArrangedSelf ==
  ASSUME NEW T, Good(T)
  PROVE  Arranged(T, T)
<1>1. ASSUME NEW x \in Slices, T.s[x].bk # 0 PROVE T.b[T.s[x].bk].file = FileAdr(T, x)
  <2>1. T.s[x].bk \in DOMAIN T.b /\ T.b[T.s[x].bk].slice = x BY <1>1, GoodIs DEF Names
  <2>2. x # NoSlice BY VmmAssumption
  <2> QED BY <2>1, <2>2 DEF Good, Told, InUse
<1>2. Spares(T, T, {}) BY GoodIs, SparesSelf
<1> QED BY <1>1, <1>2 DEF Arranged, Carried, Stays, StillInCore

LEMMA CollapseArranged ==
  ASSUME NEW T, NEW i, Good(T), i \in 1 .. Len(T.b) - 1, ~InUse(T.b[i]), ~InUse(T.b[i + 1])
  PROVE  Arranged(T, CollapseBlocks(T, i))
<1> DEFINE U == CollapseBlocks(T, i)
           n == Len(T.b)
<1>0. CollapseLeaves(T, U, i) BY CollapseGood
<1>2. n \in Nat /\ i \in 1 .. n - 1 BY GoodIs
<1> HIDE DEF U
<1>1. /\ Good(U) /\ Carried(T, U) /\ Stays(Slices, T, U) /\ Spares(T, U, {}) /\ Len(U.b) = n - 1
      /\ \A j \in 1 .. i - 1 : U.b[j] = T.b[j]
      /\ \A j \in i + 1 .. n - 1 : Same(T.b[j + 1], U.b[j])
  BY <1>0 DEF CollapseLeaves
<1> HIDE DEF n
<1>3. \A j \in 1 .. n : InUse(T.b[j]) => \E k \in 1 .. Len(U.b) : U.b[k].slice = T.b[j].slice
  <2> SUFFICES ASSUME NEW j \in 1 .. n, InUse(T.b[j]) PROVE \E k \in 1 .. n - 1 : U.b[k].slice = T.b[j].slice
    BY <1>1
  <2>1. j # i /\ j # i + 1 OBVIOUS
  <2>2. CASE j < i
    <3>1. j \in 1 .. i - 1 /\ j \in 1 .. n - 1 BY <1>2, <2>2
    <3> QED BY <1>1, <3>1
  <2>3. CASE j > i
    <3> DEFINE k == j - 1
    <3>1. k \in i + 1 .. n - 1 /\ k \in 1 .. n - 1 /\ j = k + 1 BY <1>2, <2>1, <2>3
    <3> HIDE DEF k
    <3> QED BY <1>1, <3>1 DEF Same, Like
  <2>4. j < i \/ j > i BY <1>2, <2>1
  <2> QED BY <2>2, <2>3, <2>4
<1>4. StillInCore(T, U) BY <1>1, <1>3, InCoreBy DEF n
<1> QED BY <1>1, <1>4 DEF Arranged, U

LEMMA SwapArranged ==
  ASSUME NEW T, NEW i, Good(T), i \in 1 .. Len(T.b) - 1, ~InUse(T.b[i]), InUse(T.b[i + 1]), ~T.b[i + 1].locked
  PROVE  Arranged(T, SwapBlocks(T, i)) /\ Swapped(T.b, SwapBlocks(T, i).b, i)
<1> DEFINE U == SwapBlocks(T, i)
           n == Len(T.b)
<1>1. Good(U) /\ Carried(T, U) /\ Swapped(T.b, U.b, i) /\ Stays(Slices, T, U) /\ Spares(T, U, {}) BY SwapGood
<1>2. n \in Nat BY GoodIs
<1>5. i \in 1 .. n - 1 OBVIOUS
<1> HIDE DEF U, n
<1>3. \A j \in 1 .. n : InUse(T.b[j]) => \E k \in 1 .. Len(U.b) : U.b[k].slice = T.b[j].slice
  <2> SUFFICES ASSUME NEW j \in 1 .. n, InUse(T.b[j]) PROVE \E k \in 1 .. n : U.b[k].slice = T.b[j].slice
    BY <1>1 DEF Swapped, n
  <2>1. j # i OBVIOUS
  <2>2. CASE j = i + 1
    <3>1. i \in 1 .. n BY <1>2, <1>5
    <3> QED BY <1>1, <2>2, <3>1 DEF Swapped, Like
  <2>3. CASE j # i + 1
    <3>1. j \in (1 .. n) \ {i, i + 1} BY <2>1, <2>3
    <3> QED BY <1>1, <3>1 DEF Swapped, Like, n
  <2> QED BY <2>2, <2>3
<1>4. StillInCore(T, U) BY <1>1, <1>3, InCoreBy DEF n
<1> QED BY <1>1, <1>4 DEF Arranged, U

\* the loop of pack_segment and pack_blocks has come to r.at
Packs(d, r, k) ==
  /\ r = At1(r.t, r.at) /\ Arranged(d.t, r.t) /\ r.at \in d.i .. Len(r.t.b)
  /\ d.segment => /\ HasRun(r.t, d.i, r.at, d.need)
                  /\ Stopped(r.t.b, r.at) \/ Len(r.t.b) + k <= d.n + r.at

LP == INSTANCE Loops WITH Turn <- PackTurn, Inv <- Packs

\* what a turn makes of tables T at block i
PackedTo(T, i, U, at, segment) ==
  \/ U = T /\ at = i /\ Stopped(T.b, i)
  \/ U = T /\ at = i + 1 /\ i < Len(T.b) /\ ~(segment /\ ~InUse(T.b[i]))
  \/ i < Len(T.b) /\ ~InUse(T.b[i]) /\ ~InUse(T.b[i + 1]) /\ U = CollapseBlocks(T, i) /\ at = i
  \/ /\ i < Len(T.b) /\ ~InUse(T.b[i]) /\ InUse(T.b[i + 1]) /\ ~T.b[i + 1].locked
     /\ U = SwapBlocks(T, i) /\ at = i + 1

PackTurns(segment, T, i, k) ==
  \E U, at : PackTurn(segment, At1(T, i), k) = At1(U, at) /\ PackedTo(T, i, U, at, segment)

LEMMA PackTurnTo ==
  ASSUME NEW segment, NEW T, NEW i, NEW k, segment \in BOOLEAN, i \in Nat, Len(T.b) \in Nat
  PROVE  PackTurns(segment, T, i, k)
<1> DEFINE n == Len(T.b)
           P == InUse(T.b[i])
           Q == InUse(T.b[i + 1])
           L == T.b[i + 1].locked
           z == PackTurn(segment, At1(T, i), k)
           C == CollapseBlocks(T, i)
           S == SwapBlocks(T, i)
<1>1. /\ i >= n => z = At1(T, i)
      /\ i < n /\ P => z = At1(T, i + 1)
      /\ i < n /\ ~P /\ ~Q => z = At1(C, i)
      /\ i < n /\ ~P /\ Q /\ L => z = IF segment THEN At1(T, i) ELSE At1(T, i + 1)
      /\ i < n /\ ~P /\ Q /\ ~L => z = At1(S, i + 1)
  BY PackTurnIs
<1>2. /\ i >= n => PackedTo(T, i, T, i, segment)
      /\ i < n /\ P => PackedTo(T, i, T, i + 1, segment)
      /\ i < n /\ ~P /\ ~Q => PackedTo(T, i, C, i, segment)
      /\ i < n /\ ~P /\ Q /\ L => IF segment THEN PackedTo(T, i, T, i, segment) ELSE PackedTo(T, i, T, i + 1, segment)
      /\ i < n /\ ~P /\ Q /\ ~L => PackedTo(T, i, S, i + 1, segment)
  BY DEF PackedTo, Stopped
<1>3. i >= n \/ i < n OBVIOUS
<1> HIDE DEF n, P, Q, L, z, C, S
<1>4. \E U, at : z = At1(U, at) /\ PackedTo(T, i, U, at, segment)
  <2>1. CASE i >= n BY <1>1, <1>2, <2>1
  <2>2. CASE i < n /\ P BY <1>1, <1>2, <2>2
  <2>3. CASE i < n /\ ~P /\ ~Q BY <1>1, <1>2, <2>3
  <2>4. CASE i < n /\ ~P /\ Q /\ L
    <3>1. CASE segment BY <1>1, <1>2, <2>4, <3>1
    <3>2. CASE ~segment BY <1>1, <1>2, <2>4, <3>2
    <3> QED BY <3>1, <3>2
  <2>5. CASE i < n /\ ~P /\ Q /\ ~L BY <1>1, <1>2, <2>5
  <2> QED BY <1>3, <2>1, <2>2, <2>3, <2>4, <2>5
<1> QED BY <1>4 DEF z, PackTurns

LEMMA PackTurnKeeps ==
  ASSUME NEW d, NEW T, NEW i, NEW m, NEW U, NEW at, d.i \in Nat, d.i >= 1, d.need \in Nat, d.n \in Nat,
         d.segment \in BOOLEAN, Good(d.t), m \in Nat, i \in Nat, Packs(d, At1(T, i), m), PackedTo(T, i, U, at, d.segment)
  PROVE  Packs(d, At1(U, at), m + 1)
<1> DEFINE n == Len(T.b)
           j == d.i
<1>1. At1(T, i).t = T /\ At1(T, i).at = i /\ At1(U, at).t = U /\ At1(U, at).at = at BY DEF At1
<1>2. /\ Arranged(d.t, T) /\ i \in j .. n
      /\ d.segment => HasRun(T, j, i, d.need) /\ (Stopped(T.b, i) \/ n + m <= d.n + i)
  BY <1>1 DEF Packs
<1>3. Good(T) /\ n \in Nat /\ n >= 1 /\ j \in Nat /\ j >= 1 /\ i \in 1 .. n
  <2>1. Good(T) BY <1>2 DEF Arranged
  <2>2. n \in Nat /\ n >= 1 BY <2>1, GoodIs
  <2> QED BY <1>2, <2>1, <2>2
<1>4. SUFFICES /\ Arranged(d.t, U) /\ at \in j .. Len(U.b)
               /\ d.segment => /\ HasRun(U, j, at, d.need)
                               /\ Stopped(U.b, at) \/ Len(U.b) + (m + 1) <= d.n + at
  BY <1>1 DEF Packs
<1>5. CASE U = T /\ at = i /\ Stopped(T.b, i) BY <1>2, <1>5
<1>6. CASE U = T /\ at = i + 1 /\ i < n /\ ~(d.segment /\ ~InUse(T.b[i]))
  <2>1. at \in j .. n BY <1>3, <1>2, <1>6
  <2>2. ~d.segment
    <3>1. ASSUME d.segment PROVE ~InUse(T.b[i])
      <4>1. PICK e, h : Runs(T, j, i, d.need, e, h) BY <1>2, <3>1 DEF HasRun
      <4> QED BY <4>1 DEF Runs
    <3> QED BY <1>6, <3>1
  <2> QED BY <1>2, <1>6, <2>1, <2>2
<1>7. CASE i < n /\ ~InUse(T.b[i]) /\ ~InUse(T.b[i + 1]) /\ U = CollapseBlocks(T, i) /\ at = i
  <2>1. i \in 1 .. n - 1 /\ i \in j .. n - 1 BY <1>2, <1>3, <1>7
  <2>2. Arranged(T, U) /\ CollapseLeaves(T, U, i)
    <3> DEFINE V == CollapseBlocks(T, i)
    <3>1. Arranged(T, V) /\ CollapseLeaves(T, V, i) BY <1>3, <1>7, <2>1, CollapseArranged, CollapseGood
    <3> HIDE DEF V
    <3> QED BY <1>7, <3>1 DEF V
  <2>3. Arranged(d.t, U) BY <1>2, <2>2, ArrangedTrans
  <2>4. Len(U.b) = n - 1 /\ Good(U) BY <2>2 DEF CollapseLeaves
  <2>5. at \in j .. Len(U.b) BY <1>3, <1>7, <2>1, <2>4
  <2>6. ASSUME d.segment PROVE HasRun(U, j, at, d.need)
    <3>1. PICK e, h : Runs(T, j, i, d.need, e, h) BY <1>2, <2>6 DEF HasRun
    <3>2. /\ \A l \in 1 .. i - 1 : U.b[l] = T.b[l]
          /\ Same(T.b[i], U.b[i]) /\ U.b[i].size = T.b[i].size + T.b[i + 1].size
          /\ \A l \in i + 1 .. n - 1 : Same(T.b[l + 1], U.b[l]) /\ U.b[l].size = T.b[l + 1].size
      BY <2>2 DEF CollapseLeaves
    <3> DEFINE need == d.need
    <3>3. need \in Nat OBVIOUS
    <3> HIDE DEF need, j
    <3>4. \E f, g : Runs(U, j, i, need, f, g) BY <1>3, <1>7, <2>1, <2>4, <3>1, <3>2, <3>3, RunCollapsed DEF need
    <3> QED BY <1>7, <3>4 DEF HasRun, need, j
  <2>7. ASSUME d.segment PROVE Stopped(U.b, at) \/ Len(U.b) + (m + 1) <= d.n + at
    <3>1. Stopped(T.b, i) \/ n + m <= d.n + i BY <1>2, <2>7
    <3>2. ~Stopped(T.b, i) BY <1>3, <1>7 DEF Stopped
    <3> DEFINE q == d.n
               l == Len(U.b)
    <3>3. n + m <= q + i /\ q \in Nat /\ n \in Nat BY <1>3, <3>1, <3>2
    <3>4. l = n - 1 /\ at = i BY <1>7, <2>4
    <3> HIDE DEF q, l, n
    <3>5. l + (m + 1) <= q + at BY <3>3, <3>4
    <3> QED BY <3>5 DEF q, l
  <2> QED BY <2>3, <2>5, <2>6, <2>7
<1>8. CASE /\ i < n /\ ~InUse(T.b[i]) /\ InUse(T.b[i + 1]) /\ ~T.b[i + 1].locked
           /\ U = SwapBlocks(T, i) /\ at = i + 1
  <2>1. i \in 1 .. n - 1 /\ i \in j .. n - 1 BY <1>2, <1>3, <1>8
  <2>2. Arranged(T, U) /\ Swapped(T.b, U.b, i) BY <1>3, <1>8, <2>1, SwapArranged
  <2>3. Arranged(d.t, U) BY <1>2, <2>2, ArrangedTrans
  <2>4. Len(U.b) = n /\ Good(U) BY <2>2 DEF Swapped, Arranged
  <2>5. at \in j .. Len(U.b)
    <3> DEFINE l == Len(U.b)
    <3>1. l = n /\ i \in j .. n - 1 /\ at = i + 1 BY <1>8, <2>1, <2>4
    <3> HIDE DEF l, n, j
    <3>2. at \in j .. l BY <1>3, <3>1
    <3> QED BY <3>2 DEF l, n, j
  <2>6. ASSUME d.segment PROVE HasRun(U, j, at, d.need)
    <3>1. PICK e, h : Runs(T, j, i, d.need, e, h) BY <1>2, <2>6 DEF HasRun
    <3> DEFINE need == d.need
    <3>3. need \in Nat OBVIOUS
    <3> HIDE DEF need, j
    <3>4. \E f, g : Runs(U, j, i + 1, need, f, g) BY <1>3, <1>8, <2>1, <2>2, <2>4, <3>1, <3>3, RunSwapped DEF need
    <3> QED BY <1>8, <3>4 DEF HasRun, need, j
  <2>7. ASSUME d.segment PROVE Stopped(U.b, at) \/ Len(U.b) + (m + 1) <= d.n + at
    <3>1. Stopped(T.b, i) \/ n + m <= d.n + i BY <1>2, <2>7
    <3>2. ~Stopped(T.b, i) BY <1>3, <1>8 DEF Stopped
    <3> DEFINE q == d.n
               l == Len(U.b)
    <3>3. n + m <= q + i /\ q \in Nat /\ n \in Nat BY <1>3, <3>1, <3>2
    <3>4. l = n /\ at = i + 1 BY <1>8, <2>4
    <3> HIDE DEF q, l, n
    <3>5. l + (m + 1) <= q + at BY <3>3, <3>4
    <3> QED BY <3>5 DEF q, l
  <2> QED BY <2>3, <2>5, <2>6, <2>7
<1> QED BY <1>5, <1>6, <1>7, <1>8 DEF PackedTo

LEMMA PackLoop ==
  ASSUME NEW d, NEW T, NEW i, NEW segment, Good(T), segment \in BOOLEAN, i \in 1 .. Len(T.b),
         d.t = T, d.i = i, d.n = Len(T.b), d.need \in Nat, d.segment = segment,
         segment => HasRun(T, i, i, d.need)
  PROVE  \E U, at : U = Pack(T, i, segment) /\ Packs(d, At1(U, at), Len(T.b))
<1> DEFINE n == Len(T.b)
           x == At1(T, i)
           z == LP!After(segment, x, n)
<1>1. n \in Nat /\ i \in Nat /\ i >= 1 BY GoodIs
<1>2. Packs(d, x, 0)
  <2>1. x.t = T /\ x.at = i BY DEF At1
  <2>2. Arranged(T, T) BY ArrangedSelf
  <2>3. i \in i .. n /\ n + 0 <= n + i BY <1>1
  <2> HIDE DEF x
  <2> QED BY <2>1, <2>2, <2>3 DEF Packs, x
<1> HIDE DEF x, n
<1>3. \A k \in 1 .. n : \A y : Packs(d, y, k - 1) => Packs(d, PackTurn(segment, y, k), k)
  <2> SUFFICES ASSUME NEW k \in 1 .. n, NEW y, Packs(d, y, k - 1)
               PROVE  Packs(d, PackTurn(segment, y, k), k)
    OBVIOUS
  <2> DEFINE m == k - 1
             U == y.t
             j == y.at
  <2>1. m \in Nat /\ k = m + 1 BY <1>1
  <2>2. y = At1(U, j) /\ Arranged(d.t, U) /\ j \in d.i .. Len(U.b) /\ Packs(d, At1(U, j), m) BY DEF Packs
  <2> HIDE DEF m, U, j
  <2>3. j \in Nat /\ Len(U.b) \in Nat
    <3>1. Good(U) BY <2>2 DEF Arranged
    <3>2. Len(U.b) \in Nat BY <3>1, GoodIs
    <3> QED BY <1>1, <2>2, <3>2
  <2>7. PackTurns(segment, U, j, k) BY <2>3, PackTurnTo
  <2>4. PICK V, at : PackTurn(segment, At1(U, j), k) = At1(V, at) /\ PackedTo(U, j, V, at, segment)
    BY <2>7 DEF PackTurns
  <2>5. d.i \in Nat /\ d.i >= 1 /\ d.n \in Nat /\ d.segment \in BOOLEAN BY <1>1 DEF n
  <2>6. Packs(d, At1(V, at), m + 1) BY <2>1, <2>2, <2>3, <2>4, <2>5, PackTurnKeeps
  <2> QED BY <2>1, <2>2, <2>4, <2>6
<1>4. Packs(d, z, n) BY <1>1, <1>2, <1>3, LP!LoopKeeps
<1>5. z.t = Pack(T, i, segment) BY DEF z, x, n, Pack, Repeat, LP!After, At1
<1> HIDE DEF z
<1>6. z = At1(z.t, z.at) BY <1>4 DEF Packs
<1> QED BY <1>4, <1>5, <1>6 DEF n

LEMMA PackArranged ==
  ASSUME NEW T, NEW i, Good(T), i \in 1 .. Len(T.b)
  PROVE  Arranged(T, Pack(T, i, FALSE))
<1> DEFINE off == FALSE
           d == [t |-> T, i |-> i, n |-> Len(T.b), need |-> 0, segment |-> off]
<1>1. off \in BOOLEAN /\ (off => HasRun(T, i, i, d.need)) OBVIOUS
<1>2. d.t = T /\ d.i = i /\ d.n = Len(T.b) /\ d.need \in Nat /\ d.segment = off OBVIOUS
<1> HIDE DEF off, d
<1>3. PICK U, at : U = Pack(T, i, off) /\ Packs(d, At1(U, at), Len(T.b)) BY <1>1, <1>2, PackLoop
<1>4. Arranged(T, U) BY <1>2, <1>3 DEF Packs, At1
<1> QED BY <1>3, <1>4 DEF off

---------------------------------------------------------------------------
(* Smallest and largest numbers. *)

LargerTurn(c, m, k) == IF c[k] > m THEN c[k] ELSE m
LargestYet(d, m, k) == m \in Nat /\ \A j \in 1 .. k : d[j] <= m

LM == INSTANCE Loops WITH Turn <- LargerTurn, Inv <- LargestYet

LEMMA Bounded ==
  ASSUME NEW c, NEW n, n \in Nat, \A k \in 1 .. n : c[k] \in Nat
  PROVE  \E m \in Nat : \A k \in 1 .. n : c[k] <= m
<1> DEFINE zero == 0
           m == LM!After(c, zero, n)
<1>1. LargestYet(c, zero, 0) BY DEF LargestYet
<1>2. \A k \in 1 .. n : \A y : LargestYet(c, y, k - 1) => LargestYet(c, LargerTurn(c, y, k), k)
  <2> SUFFICES ASSUME NEW k \in 1 .. n, NEW y, LargestYet(c, y, k - 1)
               PROVE  LargestYet(c, LargerTurn(c, y, k), k)
    OBVIOUS
  <2> DEFINE z == LargerTurn(c, y, k)
             q == c[k]
  <2>1. y \in Nat /\ q \in Nat /\ z = IF q > y THEN q ELSE y BY DEF LargestYet, LargerTurn
  <2> HIDE DEF z, q
  <2>2. z \in Nat /\ q <= z /\ y <= z BY <2>1
  <2>3. ASSUME NEW j \in 1 .. k PROVE c[j] <= z
    <3>1. CASE j = k BY <2>2, <3>1 DEF q
    <3>2. CASE j # k
      <4>1. j \in 1 .. k - 1 /\ j \in 1 .. n BY <3>2
      <4>2. c[j] <= y /\ c[j] \in Nat BY <4>1 DEF LargestYet
      <4> DEFINE p == c[j]
      <4> HIDE DEF p
      <4>3. p <= y /\ p \in Nat BY <4>2 DEF p
      <4>4. p <= z BY <2>1, <2>2, <4>3
      <4> QED BY <4>4 DEF p
    <3> QED BY <3>1, <3>2
  <2> QED BY <2>2, <2>3 DEF LargestYet, z
<1> HIDE DEF zero
<1>3. LargestYet(c, m, n) BY <1>1, <1>2, LM!LoopKeeps
<1> QED BY <1>3 DEF LargestYet

(* Of some blocks, one has the most room.                                  *)
LEMMA SomeLargest ==
  ASSUME NEW c, NEW n, NEW S, n \in Nat, S \subseteq 1 .. n, S # {}, \A k \in 1 .. n : c[k] \in Nat
  PROVE  \E j \in S : \A k \in S : c[k] <= c[j]
<1> DEFINE B == {m \in Nat : \A k \in S : c[k] <= m}
<1>1. PICK t \in Nat : \A k \in 1 .. n : c[k] <= t BY Bounded
<1>2. t \in B /\ B \in SUBSET Nat BY <1>1
<1> HIDE DEF B
<1>3. PICK m \in B : \A l \in B : m <= l BY <1>2, LM!SmallestNumber
<1>4. m \in Nat /\ \A k \in S : c[k] <= m BY DEF B
<1>5. PICK k \in S : TRUE OBVIOUS
<1>6. \E j \in S : c[j] = m
  <2> SUFFICES ASSUME \A j \in S : c[j] # m PROVE FALSE OBVIOUS
  <2>1. \A j \in S : c[j] \in Nat OBVIOUS
  <2>2. \A j \in S : c[j] < m BY <1>4, <2>1
  <2> DEFINE l == m - 1
  <2>3. l \in Nat /\ l < m
    <3>1. c[k] < m /\ c[k] \in Nat BY <1>5, <2>1, <2>2
    <3> QED BY <1>4, <3>1
  <2>4. \A j \in S : c[j] <= l BY <1>4, <2>1, <2>2
  <2> HIDE DEF l
  <2>5. l \in B BY <2>3, <2>4 DEF B
  <2>6. m <= l BY <1>3, <2>5
  <2> QED BY <1>4, <2>3, <2>6
<1> QED BY <1>4, <1>6

LEMMA SmallestIs ==
  ASSUME NEW S, S \subseteq Nat, S # {}
  PROVE  Min(S) \in S /\ \A k \in S : Min(S) <= k
<1>1. \E m \in S : \A k \in S : m <= k BY LM!SmallestNumber
<1> QED BY <1>1 DEF Min

(* Once packed, the segment has one free block with the room there was.    *)
LEMMA PackSegmentGood ==
  ASSUME NEW T, NEW i, NEW need, Good(T), i \in 1 .. Len(T.b), need \in Nat, HasRun(T, i, i, need)
  PROVE  LET r == PackSegment(T, i)
         IN  /\ Arranged(T, r.t) /\ r.at \in 1 .. Len(r.t.b) /\ ~InUse(r.t.b[r.at])
             /\ need <= r.t.b[r.at].size
<1> DEFINE on == TRUE
           n == Len(T.b)
           d == [t |-> T, i |-> i, n |-> n, need |-> need, segment |-> on]
<1>0. n \in Nat /\ i \in Nat /\ i >= 1 /\ i \in 1 .. n BY GoodIs
<1>1. on \in BOOLEAN /\ (on => HasRun(T, i, i, d.need)) OBVIOUS
<1>2. d.t = T /\ d.i = i /\ d.n = Len(T.b) /\ d.need \in Nat /\ d.segment = on OBVIOUS
<1>20. d.need = need /\ d.segment OBVIOUS
<1> HIDE DEF on, d
<1>3. PICK P, at : P = Pack(T, i, on) /\ Packs(d, At1(P, at), n) BY <1>1, <1>2, PackLoop
<1>4. /\ Arranged(T, P) /\ at \in i .. Len(P.b) /\ HasRun(P, i, at, need)
      /\ Stopped(P.b, at) \/ Len(P.b) + n <= n + at
  BY <1>2, <1>20, <1>3 DEF Packs, At1
<1> DEFINE b == P.b
           m == Len(b)
<1>5. m \in Nat /\ Good(P) /\ \A j \in 1 .. m : b[j] \in Block
  <2>1. Good(P) BY <1>4 DEF Arranged
  <2> QED BY <2>1, GoodIs
<1>6. PICK e, h : Runs(P, i, at, need, e, h) BY <1>4 DEF HasRun
<1>7. /\ e \in at .. m /\ h \in [Nat -> Nat] /\ ~InUse(b[at]) /\ h[at] <= b[at].size /\ need <= h[e]
      /\ \A j \in i .. e : b[j].locked = FALSE
  BY <1>6 DEF Runs
<1>8. at \in 1 .. m /\ at \in i .. m /\ at \in Nat BY <1>0, <1>4
<1>80. Stopped(b, at) \/ m + n <= n + at BY <1>4
<1> HIDE DEF b, m, n
<1>9. e = at
  <2>1. CASE at >= m BY <1>5, <1>7, <1>8, <2>1
  <2>2. CASE at < m /\ b[at + 1].locked
    <3>1. at + 1 \notin i .. e BY <1>7, <2>2
    <3>2. e \in Nat BY <1>5, <1>7, <1>8
    <3>3. at <= e /\ i <= at BY <1>7, <1>8
    <3>4. at + 1 \in Nat /\ i <= at + 1 BY <1>0, <1>8, <3>3
    <3>5. ~(at + 1 <= e) BY <1>0, <3>1, <3>2, <3>4
    <3> QED BY <1>8, <3>2, <3>3, <3>5
  <2>3. at >= m \/ (at < m /\ b[at + 1].locked) BY <1>0, <1>5, <1>8, <1>80 DEF Stopped, m
  <2> QED BY <2>1, <2>2, <2>3
<1>10. need <= b[at].size
  <2> DEFINE k == h[at]
             q == b[at].size
  <2>1. k \in Nat /\ q \in Nat /\ k <= q /\ need <= k BY <1>5, <1>7, <1>8, <1>9, BlockIs
  <2> HIDE DEF k, q
  <2>2. need <= q BY <2>1
  <2> QED BY <2>2 DEF q
<1> DEFINE run == {j \in i .. m : \A k \in i .. j : ~b[k].locked}
           fs == {j \in run : ~InUse(b[j])}
           best == {j \in fs : \A k \in fs : b[k].size <= b[j].size}
           to == Min(best)
<1>11. at \in fs BY <1>7, <1>8, <1>9
<1>12. fs \subseteq 1 .. m BY <1>0, <1>5
<1>13. best # {}
  <2> DEFINE c == [j \in 1 .. m |-> b[j].size]
  <2>1. \A k \in 1 .. m : c[k] \in Nat /\ c[k] = b[k].size BY <1>5, BlockIs
  <2> HIDE DEF c, fs
  <2>2. PICK j \in fs : \A k \in fs : c[k] <= c[j] BY <1>5, <1>11, <1>12, <2>1, SomeLargest
  <2>3. \A k \in fs : b[k].size <= b[j].size BY <1>12, <2>1, <2>2
  <2> QED BY <2>3
<1>14. best \subseteq Nat BY <1>12
<1>15. Biggest(P, i) = to BY <1>11 DEF Biggest, b, m
<1> HIDE DEF run, fs
<1>16. to \in fs /\ \A k \in fs : b[k].size <= b[to].size
  <2> DEFINE B == best
  <2> HIDE DEF B
  <2>1. Min(B) \in B BY <1>13, <1>14, SmallestIs DEF B
  <2> QED BY <2>1 DEF B
<1> HIDE DEF to
<1>17. to \in 1 .. m /\ ~InUse(b[to]) BY <1>12, <1>16 DEF fs
<1>18. need <= b[to].size
  <2> DEFINE p == b[at].size
             q == b[to].size
  <2>1. p \in Nat /\ q \in Nat /\ need <= p /\ p <= q BY <1>5, <1>8, <1>10, <1>11, <1>16, <1>17, BlockIs
  <2> HIDE DEF p, q
  <2>2. need <= q BY <2>1
  <2> QED BY <2>2 DEF q
<1>19. PackSegment(T, i) = [t |-> P, at |-> to] BY <1>3, <1>15 DEF PackSegment, on
<1> QED BY <1>4, <1>17, <1>18, <1>19 DEF b, m

---------------------------------------------------------------------------
(* trouve_best_fit and trouve_best_segment. *)

\* the loop of trouve_best_fit: it walks on free blocks, and has one
Fits2(d, r, k) ==
  /\ r = [at |-> r.at, best |-> r.best] /\ r.at \in Free(d.b) \cup {0}
  /\ r.best # 0 => r.best \in Free(d.b) /\ d.b[r.best].size >= d.size

LF == INSTANCE Loops WITH Turn <- FitTurn, Inv <- Fits2

LEMMA FitTurnKeeps ==
  ASSUME NEW d, NEW r, NEW k, NEW m, Fits2(d, r, m), Linked(d.b), Positive(Free(d.b))
  PROVE  Fits2(d, FitTurn(d, r, k), k)
<1> DEFINE b == d.b
           F == Free(b)
           z == FitTurn(d, r, k)
           i == r.at
<1>1. r = [at |-> i, best |-> r.best] /\ i \in F \cup {0} BY DEF Fits2
<1>2. CASE i = 0
  <2>1. z = r BY <1>2 DEF FitTurn
  <2> QED BY <2>1 DEF Fits2
<1>3. CASE i # 0
  <2> DEFINE next == b[i].next
             better == /\ b[i].size >= d.size
                       /\ r.best = 0 \/ b[i].size < b[r.best].size
             best == IF better THEN i ELSE r.best
  <2>1. z = [at |-> next, best |-> best] BY <1>3 DEF FitTurn
  <2>2. i \in F BY <1>1, <1>3
  <2>3. NextIn(F, i, next) BY <2>2 DEF Linked
  <2>4. next \in F \cup {0} BY <2>3 DEF NextIn
  <2>5. best # 0 => best \in F /\ b[best].size >= d.size
    <3>1. CASE better BY <2>2, <3>1
    <3>2. CASE ~better BY <3>2 DEF Fits2
    <3> QED BY <3>1, <3>2
  <2> HIDE DEF z, best, next, F
  <2>6. z.at = next /\ z.best = best /\ z = [at |-> z.at, best |-> z.best] BY <2>1
  <2> QED BY <2>4, <2>5, <2>6 DEF Fits2, F, z
<1> QED BY <1>2, <1>3

LEMMA BestFitIs ==
  ASSUME NEW T, NEW size, Good(T)
  PROVE  LET k == TrouveBestFit(T, size)
         IN  k # 0 => k \in 1 .. Len(T.b) /\ ~InUse(T.b[k]) /\ T.b[k].size >= size
<1> DEFINE d == [b |-> T.b, size |-> size]
           x == [at |-> T.first, best |-> 0]
           n == Len(T.b)
           z == LF!After(d, x, n)
<1>1. T.b \in Seq(Block) /\ n \in Nat /\ Listed(T.b, T.first) BY GoodIs DEF Good, Memory
<1>2. d.b = T.b /\ d.size = size /\ x.at = T.first /\ x.best = 0 OBVIOUS
<1>3. Positive(Free(T.b)) /\ \A j \in Free(T.b) : j \in 1 .. n BY <1>1, FreeTyped
<1>4. T.first \in Free(T.b) \cup {0} BY <1>1 DEF Listed, NextIn
<1>5. x = [at |-> x.at, best |-> x.best] OBVIOUS
<1> HIDE DEF d, x, n
<1>6. Fits2(d, x, 0) BY <1>2, <1>4, <1>5 DEF Fits2
<1>7. \A k \in 1 .. n : \A y : Fits2(d, y, k - 1) => Fits2(d, FitTurn(d, y, k), k)
  <2>1. Linked(d.b) /\ Positive(Free(d.b)) BY <1>1, <1>2, <1>3 DEF Listed
  <2> QED BY <2>1, FitTurnKeeps
<1>8. Fits2(d, z, n) BY <1>1, <1>6, <1>7, LF!LoopKeeps
<1>9. z.best = TrouveBestFit(T, size) BY DEF z, d, x, n, TrouveBestFit, Repeat, LF!After
<1> HIDE DEF z
<1>10. z.best # 0 => z.best \in Free(T.b) /\ T.b[z.best].size >= size BY <1>2, <1>8 DEF Fits2
<1>11. z.best # 0 => z.best \in 1 .. n /\ ~InUse(T.b[z.best]) BY <1>3, <1>10 DEF Free
<1> QED BY <1>9, <1>10, <1>11 DEF n

(* The room that some blocks have together, as partial sums.               *)
Give(b, is, j) == IF j \in is THEN b[j].size ELSE 0

PartSums(d, h, k) ==
  /\ h \in [Nat -> Nat] /\ (k >= d.lo => h[d.lo] <= d.b[d.lo].size)
  /\ \A j \in d.lo + 1 .. d.hi : j <= k => h[j] <= h[j - 1] + Give(d.b, d.is, j)

Sums(d, x, k) ==
  \E h : /\ PartSums(d, h, k)
         /\ x = IF k < d.lo THEN 0 ELSE IF k <= d.hi THEN h[k] ELSE h[d.hi]

LS == INSTANCE Loops WITH Turn <- SizeTurn, Inv <- Sums

LEMMA SumsStep ==
  ASSUME NEW d, NEW b, NEW is, NEW lo, NEW hi, NEW x, NEW m, NEW k, NEW n, d.b = b, d.is = is, d.lo = lo, d.hi = hi,
         m \in Nat, k = m + 1, n \in Nat, k \in 1 .. n, lo \in is, lo \in Nat, hi \in Nat, lo <= hi,
         is \subseteq lo .. hi, \A j \in 1 .. n : b[j].size \in Nat, Sums(d, x, m)
  PROVE  Sums(d, x + Give(b, is, k), k)
<1> DEFINE g == Give(b, is, k)
           y == x + g
<1>1. PICK h : /\ PartSums(d, h, m)
               /\ x = IF m < lo THEN 0 ELSE IF m <= hi THEN h[m] ELSE h[hi]
  BY DEF Sums
<1>2. /\ h \in [Nat -> Nat] /\ (m >= lo => h[lo] <= b[lo].size)
      /\ \A j \in lo + 1 .. hi : j <= m => h[j] <= h[j - 1] + Give(b, is, j)
  BY <1>1 DEF PartSums
<1>3. g \in Nat /\ (k \notin is => g = 0) /\ (k \in is => g = b[k].size) BY DEF Give
<1>4. x \in Nat BY <1>1, <1>2
<1> HIDE DEF g
<1>5. y \in Nat BY <1>3, <1>4
<1>6. CASE k < lo
  <2>1. k \notin is /\ y = x + 0 BY <1>3, <1>6
  <2>2. y = 0 BY <1>1, <1>6, <2>1
  <2>3. PartSums(d, h, k) BY <1>2, <1>6 DEF PartSums
  <2> HIDE DEF y
  <2> QED BY <1>6, <2>2, <2>3 DEF Sums, y, g
<1>7. CASE k = lo
  <2> DEFINE f == [h EXCEPT ![k] = y]
  <2>1. f \in [Nat -> Nat] /\ f[k] = y BY <1>2, <1>5
  <2>2. y = b[lo].size
    <3>1. x = 0 /\ g = b[lo].size /\ g \in Nat BY <1>1, <1>3, <1>7
    <3> QED BY <3>1
  <2> HIDE DEF f, y
  <2>3. f[lo] <= b[lo].size BY <1>5, <1>7, <2>1, <2>2
  <2>4. PartSums(d, f, k) BY <1>7, <2>1, <2>3 DEF PartSums
  <2>5. y = IF k < lo THEN 0 ELSE IF k <= hi THEN f[k] ELSE f[hi] BY <1>7, <2>1
  <2> QED BY <2>4, <2>5 DEF Sums, y, g
<1>8. CASE k > lo /\ k <= hi
  <2> DEFINE f == [h EXCEPT ![k] = y]
  <2>1. f \in [Nat -> Nat] /\ f[k] = y /\ \A j \in Nat : j # k => f[j] = h[j] BY <1>2, <1>5
  <2>2. x = h[m] /\ m >= lo /\ m # k BY <1>1, <1>8
  <2> HIDE DEF f, y
  <2>3. f[lo] <= b[lo].size BY <1>2, <1>8, <2>1, <2>2
  <2>4. ASSUME NEW j \in lo + 1 .. hi, j <= k PROVE f[j] <= f[j - 1] + Give(b, is, j)
    <3>0. j \in Nat /\ j - 1 \in Nat /\ j - 1 # k BY <2>4
    <3>1. CASE j = k
      <4>1. f[j] = x + g /\ f[j - 1] = x /\ Give(b, is, j) = g
        <5>1. j - 1 = m BY <3>1
        <5> QED BY <2>1, <2>2, <3>0, <3>1, <5>1 DEF g, y
      <4>2. x + g <= x + g BY <1>3, <1>4
      <4> QED BY <4>1, <4>2
    <3>2. CASE j # k
      <4>1. j <= m BY <2>4, <3>0, <3>2
      <4>2. h[j] <= h[j - 1] + Give(b, is, j) BY <1>2, <4>1
      <4>3. f[j] = h[j] /\ f[j - 1] = h[j - 1] BY <2>1, <3>0, <3>2
      <4> QED BY <4>2, <4>3
    <3> QED BY <3>1, <3>2
  <2>5. PartSums(d, f, k) BY <2>1, <2>3, <2>4 DEF PartSums
  <2>6. y = IF k < lo THEN 0 ELSE IF k <= hi THEN f[k] ELSE f[hi] BY <1>8, <2>1
  <2> QED BY <2>5, <2>6 DEF Sums, y, g
<1>9. CASE k > hi
  <2>1. k \notin is /\ y = x BY <1>3, <1>4, <1>9
  <2>2. x = h[hi] /\ m >= hi BY <1>1, <1>9
  <2>3. PartSums(d, h, k) BY <1>2, <1>9, <2>2 DEF PartSums
  <2>4. y = IF k < lo THEN 0 ELSE IF k <= hi THEN h[k] ELSE h[hi] BY <1>9, <2>1, <2>2
  <2> HIDE DEF y
  <2> QED BY <2>3, <2>4 DEF Sums, y, g
<1> QED BY <1>6, <1>7, <1>8, <1>9

LEMMA SizeOfIs ==
  ASSUME NEW T, NEW is, NEW lo, NEW hi, Good(T), is \subseteq lo .. hi, lo \in is, lo \in 1 .. Len(T.b),
         hi \in 1 .. Len(T.b), lo <= hi
  PROVE  \E h : /\ h \in [Nat -> Nat] /\ h[lo] <= T.b[lo].size /\ SizeOf(T, is) = h[hi]
                /\ \A j \in lo + 1 .. hi : h[j] <= h[j - 1] + Give(T.b, is, j)
<1> DEFINE d == [b |-> T.b, is |-> is, lo |-> lo, hi |-> hi]
           c == [b |-> T.b, is |-> is]
           n == Len(T.b)
           zero == 0
           z == LS!After(c, zero, n)
           b == T.b
<1>1. n \in Nat /\ \A j \in 1 .. n : b[j].size \in Nat BY GoodIs, BlockIs
<1>2. d.b = b /\ d.is = is /\ d.lo = lo /\ d.hi = hi /\ c.b = b /\ c.is = is OBVIOUS
<1>3. lo \in Nat /\ hi \in Nat /\ lo >= 1 /\ hi <= n BY <1>1
<1> HIDE DEF d, c, n, b
<1>4. Sums(d, zero, 0)
  <2> DEFINE h == [j \in Nat |-> 0]
  <2>1. h \in [Nat -> Nat] OBVIOUS
  <2>2. PartSums(d, h, 0)
    <3> HIDE DEF h
    <3>1. ~(0 >= lo) /\ \A j \in lo + 1 .. hi : ~(j <= 0) BY <1>3
    <3> QED BY <1>2, <2>1, <3>1 DEF PartSums
  <2> QED BY <1>2, <1>3, <2>2 DEF Sums
<1> HIDE DEF zero
<1>5. \A k \in 1 .. n : \A x : Sums(d, x, k - 1) => Sums(d, SizeTurn(c, x, k), k)
  <2> SUFFICES ASSUME NEW k \in 1 .. n, NEW x, Sums(d, x, k - 1) PROVE Sums(d, SizeTurn(c, x, k), k) OBVIOUS
  <2>1. SizeTurn(c, x, k) = x + Give(b, is, k) BY <1>2 DEF SizeTurn, Give
  <2> DEFINE m == k - 1
  <2>2. m \in Nat /\ k = m + 1 /\ Sums(d, x, m) BY <1>1
  <2> HIDE DEF m
  <2>3. Sums(d, x + Give(b, is, k), k) BY <1>1, <1>2, <1>3, <2>2, SumsStep
  <2> QED BY <2>1, <2>3
<1>6. Sums(d, z, n) BY <1>1, <1>4, <1>5, LS!LoopKeeps
<1>7. z = SizeOf(T, is) BY DEF z, zero, c, n, b, SizeOf, Repeat, LS!After
<1> HIDE DEF z
<1>8. PICK h : PartSums(d, h, n) /\ z = IF n < lo THEN 0 ELSE IF n <= hi THEN h[n] ELSE h[hi]
  BY <1>2, <1>6 DEF Sums
<1>9. z = h[hi]
  <2>1. lo <= n BY DEF n
  <2> QED BY <1>1, <1>3, <1>8, <2>1
<1>10. /\ h \in [Nat -> Nat] /\ h[lo] <= b[lo].size
       /\ \A j \in lo + 1 .. hi : h[j] <= h[j - 1] + Give(b, is, j)
  <2>1. lo <= n /\ \A j \in lo + 1 .. hi : j <= n BY <1>1, <1>3 DEF n
  <2> QED BY <1>1, <1>2, <1>3, <1>8, <2>1 DEF PartSums
<1> QED BY <1>7, <1>9, <1>10 DEF b

LEMMA PoidsIs ==
  ASSUME NEW T, NEW i, Good(T), i \in 1 .. Len(T.b)
  PROVE  Poids(T.b[i]) \in Nat
<1>1. T.b[i] \in Block BY GoodIs
<1>2. CASE InUse(T.b[i])
  <2> DEFINE v == VarOf[T.b[i].slice]
             w == Weight[v]
  <2>1. T.b[i].slice \in Slices BY <1>1, <1>2, BlockIs DEF InUse
  <2>2. w \in 0 .. 9 BY <2>1, VmmAssumption
  <2>3. Poids(T.b[i]) = w + (IF v \in MustExist THEN 0 ELSE 9) BY <1>2 DEF Poids
  <2> HIDE DEF w
  <2> QED BY <2>2, <2>3
<1>3. CASE ~InUse(T.b[i]) BY <1>3 DEF Poids
<1> QED BY <1>2, <1>3

(* Among some blocks there is a lightest one.                              *)
LEMMA LightestIs ==
  ASSUME NEW T, NEW is, Good(T), is \subseteq 1 .. Len(T.b), is # {}
  PROVE  Lightest(T, is) \in is
<1> DEFINE P(i) == Poids(T.b[i])
           S == {P(i) : i \in is}
<1>1. \A i \in is : P(i) \in Nat BY PoidsIs
<1>2. S \in SUBSET Nat /\ S # {} BY <1>1
<1>3. PICK p \in S : \A q \in S : p <= q BY <1>2, LM!SmallestNumber
<1>4. p \in Nat /\ \A i \in is : p <= P(i) BY <1>2, <1>3
<1> DEFINE I == {i \in is : P(i) = p}
<1>5. I \in SUBSET Nat /\ I # {} BY <1>3
<1>6. PICK i \in I : \A j \in I : i <= j
  <2> HIDE DEF I
  <2> QED BY <1>5, LM!SmallestNumber
<1>7. i \in is /\ \A j \in is \ {i} : Lighter(T, i, j)
  <2> SUFFICES ASSUME NEW j \in is, j # i PROVE Lighter(T, i, j) BY <1>6
  <2> DEFINE a == P(i)
             c == P(j)
  <2>1. a = p /\ c \in Nat /\ p <= c BY <1>1, <1>4, <1>6
  <2>2. c = p => i < j
    <3>1. i \in Nat /\ j \in Nat BY <1>6
    <3>2. c = p => j \in I OBVIOUS
    <3>3. j \in I => i <= j BY <1>6
    <3> HIDE DEF I, c
    <3> QED BY <3>1, <3>2, <3>3
  <2>3. a < c \/ (a = c /\ i < j)
    <3> HIDE DEF a, c
    <3> QED BY <1>4, <2>1, <2>2
  <2> QED BY <2>3 DEF Lighter
<1> QED BY <1>7 DEF Lightest

(* Blocks of one segment that together have the room asked for.            *)
Candidates(T, size, v) ==
  v # {} /\ SizeOf(T, v) >= size /\ \E g : v \subseteq TableauEject(T, g)

LEMMA EnoughIs ==
  ASSUME NEW T, NEW size, NEW g, Good(T), Enough(T, TableauEject(T, g), size) # {}
  PROVE  Candidates(T, size, Enough(T, TableauEject(T, g), size))
<1> DEFINE tab == TableauEject(T, g)
           last == {i \in tab : SizeOf(T, UpTo(T, tab, i)) >= size}
           i == Lightest(T, last)
           v == UpTo(T, tab, i)
<1>1. tab \subseteq 1 .. Len(T.b) BY GoodIs DEF TableauEject
<1> HIDE DEF tab
<1>2. last # {} BY DEF Enough, tab
<1>3. Enough(T, tab, size) = v BY <1>2 DEF Enough
<1>4. i \in last
  <2>1. last \subseteq 1 .. Len(T.b) BY <1>1
  <2> HIDE DEF last
  <2> QED BY <1>2, <2>1, LightestIs
<1> HIDE DEF i
<1>5. i \in tab /\ SizeOf(T, v) >= size BY <1>4
<1>6. v \subseteq tab /\ i \in v BY <1>5 DEF UpTo
<1> QED BY <1>3, <1>5, <1>6 DEF Candidates, tab

LEMMA BestSegmentIs ==
  ASSUME NEW T, NEW size, Good(T), TrouveBestSegment(T, size) # {}
  PROVE  Candidates(T, size, TrouveBestSegment(T, size))
<1> DEFINE victims == Victims(T, size)
           able == {g \in DOMAIN victims : victims[g] # {}}
           best == {g \in able : \A h \in able : ~Cheaper(Cost(T, victims[h]), Cost(T, victims[g]))}
           one == {g \in best : \A h \in best : g <= h}
<1>1. DOMAIN victims = 0 .. Len(T.b) /\ \A g \in 0 .. Len(T.b) : victims[g] = Enough(T, TableauEject(T, g), size)
  BY DEF Victims
<1>2. TrouveBestSegment(T, size) = UNION {victims[g] : g \in one} BY DEF TrouveBestSegment, Cheapest
<1> HIDE DEF victims
<1>3. best \subseteq 0 .. Len(T.b) /\ \A g \in best : victims[g] # {} BY <1>1
<1> HIDE DEF best
<1>4. PICK g \in one : TRUE BY <1>2
<1>5. \A h \in one : h = g
  <2> SUFFICES ASSUME NEW h \in one PROVE h = g OBVIOUS
  <2>1. g \in Nat /\ h \in Nat /\ g <= h /\ h <= g BY <1>3, <1>4
  <2> QED BY <2>1
<1>6. g \in best BY <1>4
<1> HIDE DEF one
<1>7. UNION {victims[h] : h \in one} = victims[g] BY <1>4, <1>5
<1>8. victims[g] = Enough(T, TableauEject(T, g), size) /\ victims[g] # {} BY <1>1, <1>3, <1>6
<1>9. TrouveBestSegment(T, size) = Enough(T, TableauEject(T, g), size) BY <1>2, <1>7, <1>8
<1>10. Enough(T, TableauEject(T, g), size) # {} BY <1>8
<1> QED BY <1>9, <1>10, EnoughIs

(* No block of a segment is locked, nor one between two of them.           *)
LEMMA SegmentUnlocked ==
  ASSUME NEW T, NEW g, NEW i, NEW k, NEW j, Good(T), i \in TableauEject(T, g), k \in TableauEject(T, g),
         j \in i .. k
  PROVE  T.b[j].locked = FALSE
<1> DEFINE n == Len(T.b)
           L(m) == {l \in 1 .. m : T.b[l].locked}
<1>1. n \in Nat /\ i \in 1 .. n /\ k \in 1 .. n /\ j \in 1 .. n BY GoodIs DEF TableauEject
<1>2. T.b[j] \in Block /\ T.b[j].locked \in BOOLEAN BY <1>1, GoodIs, BlockIs
<1>3. T.b[i].locked = FALSE /\ T.b[k].locked = FALSE
  <2>1. T.b[i] \in Block /\ T.b[k] \in Block BY <1>1, GoodIs
  <2>2. ~T.b[i].locked /\ ~T.b[k].locked BY DEF TableauEject
  <2> QED BY <2>1, <2>2, BlockIs
<1>4. Cardinality(L(i)) = Cardinality(L(k)) BY DEF TableauEject, SegmentOf
<1>5. IsFiniteSet(L(k)) /\ L(i) \subseteq L(k)
  <2>1. IsFiniteSet(1 .. k) BY <1>1, FS_Interval
  <2>2. L(k) \subseteq 1 .. k OBVIOUS
  <2>3. IsFiniteSet(L(k)) BY <2>1, <2>2, FS_Subset
  <2>4. L(i) \subseteq L(k) BY <1>1
  <2> QED BY <2>3, <2>4
<1>6. L(i) = L(k)
  <2> DEFINE A == L(i)
             B == L(k)
  <2>1. IsFiniteSet(B) /\ A \subseteq B /\ Cardinality(B) = Cardinality(A) BY <1>4, <1>5
  <2> HIDE DEF A, B
  <2>2. B = A BY <2>1, FS_Subset
  <2> QED BY <2>2 DEF A, B
<1>7. SUFFICES ASSUME T.b[j].locked PROVE FALSE BY <1>2
<1>8. j \in L(k) BY <1>1, <1>7
<1>9. j \in L(i) BY <1>6, <1>8
<1>10. j = i BY <1>1, <1>9
<1> QED BY <1>3, <1>7, <1>10

---------------------------------------------------------------------------
(* eject_from_tableau, and trouve_best_free. *)

\* what a call does that gives nothing up: the file is extended, and what
\* was sound is so still
Bears(T, U) == Extends(T, U) /\ Spares(T, U, {})

LEMMA BearsTrans ==
  ASSUME NEW T, NEW U, NEW V, TypedTables(T), TypedTables(U), TypedTables(V), Bears(T, U), Bears(U, V)
  PROVE  Bears(T, V)
<1>1. Extends(T, V) BY ExtendsTrans DEF Bears
<1>2. Spares(T, V, {})
  <2>1. Spares(T, U, {}) /\ Spares(U, V, {}) BY DEF Bears
  <2> QED BY <2>1, SparesTrans
<1> QED BY <1>1, <1>2 DEF Bears

LEMMA ArrangedBears ==
  ASSUME NEW T, NEW U, Good(T), Arranged(T, U)
  PROVE  Bears(T, U)
<1>1. TypedTables(T) /\ Carried(T, U) /\ Spares(T, U, {}) BY GoodIs DEF Arranged
<1> QED BY <1>1, CarriedExtends DEF Bears

LEMMA ExtendsSelf ==
  ASSUME NEW T, Good(T)
  PROVE  Extends(T, T) /\ Bears(T, T)
BY ArrangedSelf, ArrangedBears DEF Bears

\* the slices that have to be kept are in memory in U if they were in T
KeptInCore(T, U) ==
  \A x \in Slices : T.s[x].bk # 0 /\ T.s[x].keep => U.s[x].bk # 0 /\ U.s[x].keep

\* the blocks of "gone" are free in U; the others are what they were in T
Thinned(T, U, gone) ==
  /\ Len(U.b) = Len(T.b)
  /\ \A j \in 1 .. Len(T.b) : U.b[j].size = T.b[j].size /\ U.b[j].locked = T.b[j].locked
  /\ \A j \in gone : ~InUse(U.b[j])
  /\ \A j \in (1 .. Len(T.b)) \ gone : U.b[j].keep = T.b[j].keep

Ejects(d, r, k) ==
  /\ r = [t |-> r.t, left |-> r.left] /\ r.left \subseteq d.v
  /\ Cardinality(r.left) + k = Cardinality(d.v)
  /\ Good(r.t) /\ Bears(d.t, r.t) /\ Stays(Slices, d.t, r.t) /\ KeptInCore(d.t, r.t)
  /\ Thinned(d.t, r.t, d.v \ r.left)

LE == INSTANCE Loops WITH Turn <- EjectTurn, Inv <- Ejects

LEMMA EjectedKept ==
  ASSUME NEW T, NEW U, NEW i, Good(T), i \in 1 .. Len(T.b), Ejected(T, U, i), ~T.b[i].keep
  PROVE  KeptInCore(T, U)
<1> SUFFICES ASSUME NEW x \in Slices, T.s[x].bk # 0, T.s[x].keep PROVE U.s[x].bk # 0 /\ U.s[x].keep
  BY DEF KeptInCore
<1>1. T.s[x].bk \in DOMAIN T.b /\ T.b[T.s[x].bk].slice = x /\ i \in DOMAIN T.b BY GoodIs DEF Names
<1>2. x # NoSlice BY VmmAssumption
<1>3. x # T.b[i].slice
  <2> SUFFICES ASSUME x = T.b[i].slice PROVE FALSE OBVIOUS
  <2>1. InUse(T.b[i]) BY <1>2 DEF InUse
  <2>2. SameFlags(T.b[i], T.s[x])
    <3>1. Names(T.b, T.s) BY GoodIs
    <3> DEFINE b == T.b
               s == T.s
    <3>2. Names(b, s) /\ i \in DOMAIN b /\ InUse(b[i]) /\ b[i].slice = x BY <1>1, <2>1, <3>1
    <3> HIDE DEF b, s
    <3>3. SameFlags(b[i], s[b[i].slice]) BY <3>2 DEF Names
    <3> QED BY <3>2, <3>3 DEF b, s
  <2> QED BY <2>2 DEF SameFlags
<1> QED BY <1>3 DEF Ejected

LEMMA EjectTurnKeeps ==
  ASSUME NEW d, NEW r, NEW k, NEW m, NeverExactlyFull, Good(d.t), m \in Nat, k = m + 1, k <= Cardinality(d.v),
         IsFiniteSet(d.v), d.v \subseteq 1 .. Len(d.t.b),
         \A j \in d.v : ~d.t.b[j].locked /\ ~d.t.b[j].keep, Ejects(d, r, m)
  PROVE  Ejects(d, EjectTurn(d.t, r, k), k)
<1> DEFINE T == d.t
           v == d.v
           U == r.t
           left == r.left
           i == Lightest(T, left)
           on == TRUE
           V == EjectBlock(U, i, on)
           q == Cardinality(left)
           c == Cardinality(v)
<1>1. /\ r = [t |-> U, left |-> left] /\ left \subseteq v /\ q + m = c
      /\ Good(U) /\ Bears(T, U) /\ Stays(Slices, T, U) /\ KeptInCore(T, U) /\ Thinned(T, U, v \ left)
  BY DEF Ejects
<1>2. IsFiniteSet(left) BY <1>1, FS_Subset
<1>3. q \in Nat /\ c \in Nat BY <1>2, FS_CardinalityType
<1>4. left # {}
  <2>1. q # 0
    <3> HIDE DEF q, c
    <3>1. k <= c BY DEF c
    <3> QED BY <1>1, <1>3, <3>1
  <2> HIDE DEF left
  <2> QED BY <2>1, FS_EmptySet DEF q
<1>5. i \in left
  <2>1. left \subseteq 1 .. Len(T.b) BY <1>1
  <2> HIDE DEF T, left
  <2> QED BY <1>4, <2>1, LightestIs DEF T
<1>6. EjectTurn(d.t, r, k) = [t |-> V, left |-> left \ {i}] BY <1>4 DEF EjectTurn
<1> HIDE DEF i
<1>7. i \in 1 .. Len(T.b) /\ Len(U.b) = Len(T.b) /\ i \in 1 .. Len(U.b) BY <1>1, <1>5 DEF Thinned
<1>8. on \in BOOLEAN /\ on OBVIOUS
<1> HIDE DEF on
<1>9. Good(V) /\ Bears(U, V) /\ Ejected(U, V, i)
  <2> HIDE DEF U
  <2> QED BY <1>1, <1>7, <1>8, EjectGood DEF Bears
<1> HIDE DEF V
<1>10. ~U.b[i].locked /\ ~U.b[i].keep
  <2>1. i \in v /\ i \notin v \ left BY <1>1, <1>5
  <2>2. U.b[i].locked = T.b[i].locked /\ U.b[i].keep = T.b[i].keep BY <1>1, <1>7, <2>1 DEF Thinned
  <2> QED BY <2>1, <2>2
<1>11. Stays(Slices, T, V)
  <2>1. Stays(Slices, U, V) BY <1>1, <1>7, <1>9, <1>10, EjectedStays
  <2> HIDE DEF T, U
  <2> QED BY <1>1, <2>1, StaysTrans
<1>12. KeptInCore(T, V)
  <2>1. KeptInCore(U, V)
    <3> HIDE DEF U
    <3> QED BY <1>1, <1>7, <1>9, <1>10, EjectedKept
  <2> QED BY <1>1, <2>1 DEF KeptInCore
<1>13. Bears(T, V)
  <2> HIDE DEF T, U
  <2>1. TypedTables(T) /\ TypedTables(U) /\ TypedTables(V) BY <1>1, <1>9, GoodIs DEF T
  <2> QED BY <1>1, <1>9, <2>1, BearsTrans
<1>14. Cardinality(left \ {i}) + k = c
  <2> DEFINE p == Cardinality(left \ {i})
  <2>1. p = q - 1
    <3> HIDE DEF left
    <3> QED BY <1>2, <1>5, FS_RemoveElement DEF q
  <2> HIDE DEF p, q, c
  <2>2. p + k = c BY <1>1, <1>3, <2>1
  <2> QED BY <2>2 DEF p
<1>15. Thinned(T, V, v \ (left \ {i}))
  <2> DEFINE n == Len(T.b)
             gone == v \ left
             more == v \ (left \ {i})
  <2>1. more = gone \cup {i} BY <1>1, <1>5
  <2>2. /\ Len(U.b) = n /\ \A j \in 1 .. n : U.b[j].size = T.b[j].size /\ U.b[j].locked = T.b[j].locked
        /\ \A j \in gone : ~InUse(U.b[j]) /\ j \in 1 .. n
        /\ \A j \in (1 .. n) \ gone : U.b[j].keep = T.b[j].keep
    BY <1>1 DEF Thinned
  <2>3. /\ Len(V.b) = n /\ ~InUse(V.b[i]) /\ ~V.b[i].locked /\ V.b[i].size = U.b[i].size
        /\ \A j \in (1 .. n) \ {i} :
             /\ V.b[j].slice = U.b[j].slice /\ V.b[j].size = U.b[j].size
             /\ V.b[j].keep = U.b[j].keep /\ V.b[j].locked = U.b[j].locked
    BY <1>9, <2>2 DEF Ejected
  <2>4. V.b[i].locked = T.b[i].locked
    <3>1. V.b[i] \in Block /\ T.b[i] \in Block BY <1>7, <1>9, <2>3, GoodIs
    <3>2. T.b[i].locked = U.b[i].locked BY <1>7, <2>2
    <3> QED BY <1>10, <2>3, <3>1, <3>2, BlockIs
  <2> HIDE DEF more, gone, T, U, n, v
  <2>5. ASSUME NEW j \in 1 .. n PROVE V.b[j].size = T.b[j].size /\ V.b[j].locked = T.b[j].locked
    <3>1. CASE j = i BY <2>2, <2>3, <2>4, <3>1
    <3>2. CASE j # i BY <2>2, <2>3, <3>2
    <3> QED BY <3>1, <3>2
  <2>6. ASSUME NEW j \in more PROVE ~InUse(V.b[j])
    <3>1. CASE j = i BY <2>3, <3>1
    <3>2. CASE j # i BY <2>1, <2>2, <2>3, <3>2 DEF InUse
    <3> QED BY <3>1, <3>2
  <2>7. ASSUME NEW j \in (1 .. n) \ more PROVE V.b[j].keep = T.b[j].keep BY <2>1, <2>2, <2>3
  <2> QED BY <2>3, <2>5, <2>6, <2>7 DEF Thinned, n, more
<1> DEFINE less == left \ {i}
<1>16. less \subseteq v BY <1>1
<1>17. Cardinality(less) + k = c /\ Thinned(T, V, v \ less) BY <1>14, <1>15
<1>18. EjectTurn(d.t, r, k) = [t |-> V, left |-> less] BY <1>6
<1> HIDE DEF less
<1> DEFINE z == EjectTurn(d.t, r, k)
<1>19. z = [t |-> z.t, left |-> z.left] /\ z.t = V /\ z.left = less BY <1>18
<1> HIDE DEF z, T, v
<1>20. Ejects(d, z, k)
  <2> USE DEF T, v, c
  <2>1. Good(z.t) BY <1>9, <1>19
  <2>2. Bears(d.t, z.t) /\ Stays(Slices, d.t, z.t) /\ KeptInCore(d.t, z.t) BY <1>11, <1>12, <1>13, <1>19
  <2>3. z.left \subseteq d.v /\ Cardinality(z.left) + k = Cardinality(d.v) BY <1>16, <1>17, <1>19
  <2>4. Thinned(d.t, z.t, d.v \ z.left) BY <1>17, <1>19
  <2> HIDE DEF T, v, c
  <2> QED BY <1>19, <2>1, <2>2, <2>3, <2>4 DEF Ejects
<1> QED BY <1>20 DEF z

EjectsAll(T, U, v) ==
  /\ Good(U) /\ Bears(T, U) /\ Stays(Slices, T, U) /\ KeptInCore(T, U) /\ Thinned(T, U, v)

LEMMA EjectAllIs ==
  ASSUME NEW T, NEW v, NeverExactlyFull, Good(T), v \subseteq 1 .. Len(T.b),
         \A j \in v : ~T.b[j].locked /\ ~T.b[j].keep
  PROVE  EjectsAll(T, EjectAll(T, v), v)
<1> DEFINE d == [t |-> T, v |-> v]
           x == [t |-> T, left |-> v]
           n == Cardinality(v)
           z == LE!After(T, x, n)
<1>1. d.t = T /\ d.v = v /\ x.t = T /\ x.left = v OBVIOUS
<1>2. IsFiniteSet(v)
  <2>1. Len(T.b) \in Nat BY GoodIs
  <2>2. IsFiniteSet(1 .. Len(T.b)) BY <2>1, FS_Interval
  <2> QED BY <2>2, FS_Subset
<1>3. n \in Nat BY <1>2, FS_CardinalityType
<1>4. Ejects(d, x, 0)
  <2>1. Bears(T, T) BY ExtendsSelf
  <2>2. Stays(Slices, T, T) /\ KeptInCore(T, T) BY DEF Stays, KeptInCore
  <2>3. Thinned(T, T, v \ v) BY DEF Thinned
  <2>4. Cardinality(v) + 0 = Cardinality(v) BY <1>3
  <2>5. x = [t |-> x.t, left |-> x.left] OBVIOUS
  <2> HIDE DEF x, d
  <2> QED BY <1>1, <2>1, <2>2, <2>3, <2>4, <2>5 DEF Ejects
<1> HIDE DEF x, d, n
<1>5. \A k \in 1 .. n : \A y : Ejects(d, y, k - 1) => Ejects(d, EjectTurn(T, y, k), k)
  <2> SUFFICES ASSUME NEW k \in 1 .. n, NEW y, Ejects(d, y, k - 1) PROVE Ejects(d, EjectTurn(T, y, k), k) OBVIOUS
  <2> DEFINE m == k - 1
  <2>1. m \in Nat /\ k = m + 1 /\ k <= n /\ Ejects(d, y, m) BY <1>3
  <2> HIDE DEF m
  <2>2. k <= Cardinality(d.v) BY <1>1, <2>1 DEF n
  <2> QED BY <1>1, <1>2, <2>1, <2>2, EjectTurnKeeps
<1>6. Ejects(d, z, n) BY <1>3, <1>4, <1>5, LE!LoopKeeps
<1>7. z.t = EjectAll(T, v) BY DEF z, x, n, EjectAll, Repeat, LE!After
<1> HIDE DEF z
<1>8. z.left = {}
  <2> DEFINE left == z.left
             q == Cardinality(left)
  <2>1. left \subseteq v /\ q + n = n BY <1>1, <1>6 DEF Ejects, n
  <2>2. IsFiniteSet(left) BY <1>2, <2>1, FS_Subset
  <2> HIDE DEF left
  <2>3. q \in Nat BY <2>2, FS_CardinalityType
  <2> HIDE DEF q
  <2>4. q = 0 BY <1>3, <2>1, <2>3
  <2>5. left = {} BY <2>2, <2>4, FS_EmptySet DEF q
  <2> QED BY <2>5 DEF left
<1>9. v \ {} = v OBVIOUS
<1> QED BY <1>1, <1>6, <1>7, <1>8, <1>9 DEF Ejects, EjectsAll

\* there may be room in block r.at of r.t, come from T
KeptStay(T, U) == \A x \in Slices : T.s[x].bk # 0 /\ T.s[x].keep => U.s[x].bk # 0

Roomy(T, r, need) ==
  /\ Good(r.t) /\ Bears(T, r.t) /\ Stays(Slices, T, r.t) /\ KeptStay(T, r.t)
  /\ r.at # 0 => r.at \in 1 .. Len(r.t.b) /\ ~InUse(r.t.b[r.at]) /\ need <= r.t.b[r.at].size

LEMMA RoomyAsItIs ==
  ASSUME NEW T, NEW at, NEW need, Good(T),
         at # 0 => at \in 1 .. Len(T.b) /\ ~InUse(T.b[at]) /\ need <= T.b[at].size
  PROVE  Roomy(T, [t |-> T, at |-> at], need)
<1> DEFINE r == [t |-> T, at |-> at]
<1>1. r.t = T /\ r.at = at OBVIOUS
<1> HIDE DEF r
<1>2. Bears(T, T) BY ExtendsSelf
<1>3. Stays(Slices, T, T) /\ KeptStay(T, T) BY DEF Stays, KeptStay
<1>4. Roomy(T, r, need) BY <1>1, <1>2, <1>3 DEF Roomy
<1> QED BY <1>4 DEF r

LEMMA RunLeft ==
  ASSUME NEW T, NEW E, NEW v, NEW need, Good(T), Good(E), need \in Nat, Candidates(T, need, v), Thinned(T, E, v)
  PROVE  Min(v) \in 1 .. Len(T.b) /\ HasRun(E, Min(v), Min(v), need)
<1> DEFINE lo == Min(v)
           n == Len(T.b)
<1>0. n \in Nat /\ \A j \in 1 .. n : T.b[j].size \in Nat BY GoodIs, BlockIs
<1>1. PICK g : v \subseteq TableauEject(T, g) BY DEF Candidates
<1>2. v \subseteq 1 .. n /\ v # {} /\ SizeOf(T, v) >= need BY <1>1, GoodIs DEF TableauEject, Candidates
<1>3. lo \in v /\ \A k \in v : lo <= k
  <2>1. v \subseteq Nat BY <1>0, <1>2
  <2> QED BY <1>2, <2>1, SmallestIs
<1> HIDE DEF lo, n
<1>4. PICK hi \in v : \A k \in v : k <= hi
  <2> DEFINE c == [k \in 1 .. n |-> k]
  <2>1. \A k \in 1 .. n : c[k] = k /\ c[k] \in Nat BY <1>0
  <2> HIDE DEF c
  <2>2. \E j \in v : \A k \in v : c[k] <= c[j] BY <1>0, <1>2, <2>1, SomeLargest
  <2> QED BY <1>2, <2>1, <2>2
<1>5. lo \in 1 .. n /\ hi \in 1 .. n /\ lo <= hi /\ v \subseteq lo .. hi
  <2>1. lo \in 1 .. n /\ hi \in 1 .. n /\ lo <= hi BY <1>2, <1>3, <1>4
  <2>2. \A k \in v : k \in Int /\ lo <= k /\ k <= hi BY <1>2, <1>3, <1>4
  <2> QED BY <2>1, <2>2
<1>6. PICK h : /\ h \in [Nat -> Nat] /\ h[lo] <= T.b[lo].size /\ SizeOf(T, v) = h[hi]
               /\ \A j \in lo + 1 .. hi : h[j] <= h[j - 1] + Give(T.b, v, j)
  BY <1>3, <1>5, SizeOfIs DEF n
<1>7. /\ Len(E.b) = n /\ \A j \in 1 .. n : E.b[j].size = T.b[j].size /\ E.b[j].locked = T.b[j].locked
      /\ \A j \in v : ~InUse(E.b[j])
  BY DEF Thinned, n
<1>8. \A j \in lo .. hi : E.b[j].locked = FALSE
  <2> SUFFICES ASSUME NEW j \in lo .. hi PROVE E.b[j].locked = FALSE OBVIOUS
  <2>1. j \in 1 .. n BY <1>0, <1>5
  <2>2. lo \in TableauEject(T, g) /\ hi \in TableauEject(T, g) BY <1>1, <1>3, <1>4
  <2>3. T.b[j].locked = FALSE BY <2>2, SegmentUnlocked
  <2> QED BY <1>7, <2>1, <2>3
<1>9. \A j \in lo + 1 .. hi : h[j] <= h[j - 1] + Room(E.b[j])
  <2> SUFFICES ASSUME NEW j \in lo + 1 .. hi PROVE h[j] <= h[j - 1] + Room(E.b[j]) OBVIOUS
  <2>1. j \in 1 .. n /\ j \in Nat /\ j - 1 \in Nat BY <1>0, <1>5
  <2>2. T.b[j].size \in Nat /\ E.b[j].size = T.b[j].size BY <1>0, <1>7, <2>1
  <2>3. h[j] <= h[j - 1] + Give(T.b, v, j) BY <1>6
  <2>4. CASE j \in v
    <3>1. Give(T.b, v, j) = T.b[j].size /\ Room(E.b[j]) = T.b[j].size BY <1>7, <2>2, <2>4 DEF Give, Room
    <3> QED BY <2>3, <3>1
  <2>5. CASE j \notin v
    <3>1. Give(T.b, v, j) = 0 /\ Room(E.b[j]) \in Nat BY <2>2, <2>5 DEF Give, Room
    <3> DEFINE p == h[j]
               q == h[j - 1]
               x == Room(E.b[j])
    <3>2. p \in Nat /\ q \in Nat /\ x \in Nat /\ p <= q + 0 BY <1>6, <2>1, <2>3, <3>1
    <3> HIDE DEF p, q, x
    <3>3. p <= q + x BY <3>2
    <3> QED BY <3>3 DEF p, q, x
  <2> QED BY <2>4, <2>5
<1>10. need <= h[hi]
  <2> DEFINE p == h[hi]
  <2>1. p \in Nat BY <1>0, <1>5, <1>6
  <2>2. p >= need BY <1>2, <1>6
  <2> HIDE DEF p
  <2>3. need <= p BY <2>1, <2>2
  <2> QED BY <2>3 DEF p
<1>11. hi \in lo .. Len(E.b) BY <1>0, <1>5, <1>7
<1>12. h[lo] <= E.b[lo].size BY <1>5, <1>6, <1>7
<1>13. Runs(E, lo, lo, need, hi, h) BY <1>3, <1>6, <1>7, <1>8, <1>9, <1>10, <1>11, <1>12 DEF Runs
<1> QED BY <1>5, <1>13 DEF HasRun, lo, n

LEMMA MakeRoomGood ==
  ASSUME NEW T, NEW v, NEW need, NeverExactlyFull, Good(T), need \in Nat, v # {} => Candidates(T, need, v)
  PROVE  Roomy(T, MakeRoom(T, v), need)
<1>1. CASE v = {}
  <2> DEFINE at == 0
  <2>1. MakeRoom(T, v) = [t |-> T, at |-> at] BY <1>1 DEF MakeRoom
  <2>2. at = 0 OBVIOUS
  <2> HIDE DEF at
  <2> QED BY <2>1, <2>2, RoomyAsItIs
<1>2. CASE v # {}
  <2> DEFINE E == EjectAll(T, v)
             lo == Min(v)
             r == PackSegment(E, lo)
  <2>1. Candidates(T, need, v) BY <1>2
  <2>2. PICK g : v \subseteq TableauEject(T, g) BY <2>1 DEF Candidates
  <2>3. v \subseteq 1 .. Len(T.b) /\ \A j \in v : ~T.b[j].locked /\ ~T.b[j].keep
    BY <2>2, GoodIs DEF TableauEject
  <2>4. MakeRoom(T, v) = r BY <1>2 DEF MakeRoom
  <2>5. EjectsAll(T, E, v) BY <2>3, EjectAllIs
  <2> HIDE DEF E
  <2>6. Good(E) /\ Bears(T, E) /\ Stays(Slices, T, E) /\ KeptInCore(T, E) /\ Thinned(T, E, v)
    BY <2>5 DEF EjectsAll
  <2>7. lo \in 1 .. Len(T.b) /\ HasRun(E, lo, lo, need) BY <2>1, <2>6, RunLeft
  <2>8. lo \in 1 .. Len(E.b) BY <2>6, <2>7 DEF Thinned
  <2> HIDE DEF lo
  <2>9. Arranged(E, r.t) /\ r.at \in 1 .. Len(r.t.b) /\ ~InUse(r.t.b[r.at]) /\ need <= r.t.b[r.at].size
    BY <2>6, <2>7, <2>8, PackSegmentGood
  <2> HIDE DEF r
  <2> DEFINE U == r.t
  <2>10. Good(U) /\ Carried(E, U) /\ Stays(Slices, E, U) /\ StillInCore(E, U) BY <2>9 DEF Arranged
  <2>21. Arranged(E, U) BY <2>9
  <2>20. TypedTables(T) /\ TypedTables(E) /\ TypedTables(U) BY <2>6, <2>10, GoodIs
  <2> HIDE DEF U
  <2>11. Bears(E, U) BY <2>6, <2>21, ArrangedBears
  <2>12. Bears(T, U) BY <2>6, <2>11, <2>20, BearsTrans
  <2>13. Stays(Slices, T, U) BY <2>6, <2>10, StaysTrans
  <2>14. KeptStay(T, U) BY <2>6, <2>10 DEF KeptStay, KeptInCore, StillInCore
  <2> QED BY <2>4, <2>9, <2>10, <2>12, <2>13, <2>14 DEF Roomy, U
<1> QED BY <1>1, <1>2

LEMMA TrouveBestFreeGood ==
  ASSUME NEW T, NEW need, NeverExactlyFull, Good(T), need \in Nat
  PROVE  Roomy(T, TrouveBestFree(T, need), need)
<1> DEFINE fit == TrouveBestFit(T, need)
           v == TrouveBestSegment(T, need)
<1>1. TrouveBestFree(T, need) = IF fit # 0 THEN [t |-> T, at |-> fit] ELSE MakeRoom(T, v)
  BY DEF TrouveBestFree
<1>2. fit # 0 => fit \in 1 .. Len(T.b) /\ ~InUse(T.b[fit]) /\ T.b[fit].size >= need BY BestFitIs
<1>3. v # {} => Candidates(T, need, v) BY BestSegmentIs
<1> HIDE DEF fit, v
<1>4. CASE fit # 0
  <2> DEFINE size == T.b[fit].size
  <2>1. size \in Nat /\ size >= need BY <1>2, <1>4, GoodIs, BlockIs
  <2> HIDE DEF size
  <2>2. need <= size BY <2>1
  <2>3. need <= T.b[fit].size BY <2>2 DEF size
  <2> QED BY <1>1, <1>2, <1>4, <2>3, RoomyAsItIs
<1>5. CASE fit = 0
  <2>1. Roomy(T, MakeRoom(T, v), need) BY <1>3, MakeRoomGood
  <2> QED BY <1>1, <1>5, <2>1
<1> QED BY <1>4, <1>5

---------------------------------------------------------------------------
(* Calls that change marks only. *)

\* in U, marks of T are changed, and those of a slice are those of its block
Marking(T, U) ==
  /\ TypedTables(U) /\ Marked(T.b, U.b) /\ U.first = T.first /\ U.base = T.base /\ U.wp = T.wp
  /\ \A w \in 1 .. MaxFile : U.file[w].of = T.file[w].of
  /\ \A x \in Slices : /\ U.s[x].bk = T.s[x].bk /\ (U.s[x].image => T.s[x].image)
                       /\ T.s[x].bk = 0 => ~U.s[x].locked
  /\ \A j \in 1 .. Len(T.b) :
       /\ U.b[j].file = T.b[j].file
       /\ IF InUse(T.b[j]) THEN SameFlags(U.b[j], U.s[T.b[j].slice]) ELSE ~U.b[j].locked /\ ~U.b[j].keep

LEMMA MarkingGood ==
  ASSUME NEW T, NEW U, Good(T), Marking(T, U)
  PROVE  Good(U) /\ Extends(T, U)
<1> DEFINE first == T.first
<1>1. TypedTables(T) /\ Memory(T.b, T.s, first) /\ Told(T) /\ Reserved(T.base, T.wp) /\ ImagesWritten(T)
  BY DEF Good
<1>2. /\ TypedTables(U) /\ Marked(T.b, U.b) /\ U.first = first /\ U.base = T.base /\ U.wp = T.wp
      /\ \A w \in 1 .. MaxFile : U.file[w].of = T.file[w].of
      /\ \A x \in Slices : /\ U.s[x].bk = T.s[x].bk /\ (U.s[x].image => T.s[x].image)
                           /\ T.s[x].bk = 0 => ~U.s[x].locked
      /\ \A j \in 1 .. Len(T.b) :
           /\ U.b[j].file = T.b[j].file
           /\ IF InUse(T.b[j]) THEN SameFlags(U.b[j], U.s[T.b[j].slice]) ELSE ~U.b[j].locked /\ ~U.b[j].keep
  BY DEF Marking
<1>3. T.b \in Seq(Block) /\ DOMAIN T.b = 1 .. Len(T.b) BY GoodIs
<1>4. DOMAIN U.b = 1 .. Len(T.b) /\ \A j \in 1 .. Len(T.b) : U.b[j].slice = T.b[j].slice
  <2>1. U.b \in Seq(Block) /\ Len(U.b) = Len(T.b) BY <1>2 DEF Marked
  <2>2. DOMAIN U.b = 1 .. Len(U.b) BY <2>1
  <2> QED BY <1>2, <2>1, <2>2 DEF Marked
<1> HIDE DEF first
<1>5. Memory(U.b, U.s, first)
  <2> DEFINE b == T.b
             c == U.b
             s == T.s
             t == U.s
  <2>1. b \in Seq(Block) /\ Marked(b, c) /\ Memory(b, s, first) BY <1>1, <1>2, <1>3
  <2>2. \A x \in Slices : t[x].bk = s[x].bk /\ (s[x].bk = 0 => ~t[x].locked) BY <1>2
  <2>3. \A j \in 1 .. Len(b) : IF InUse(b[j]) THEN SameFlags(c[j], t[b[j].slice])
                               ELSE ~c[j].locked /\ ~c[j].keep
    BY <1>2
  <2> HIDE DEF b, c, s, t
  <2>4. Memory(c, t, first) BY <2>1, <2>2, <2>3, MarkedMemory
  <2> QED BY <2>4 DEF c, t
<1>6. \A x : FileAdr(U, x) = FileAdr(T, x) BY <1>2 DEF FileAdr
<1>7. Told(U)
  <2> SUFFICES ASSUME NEW j \in 1 .. Len(T.b), InUse(U.b[j]) PROVE U.b[j].file = FileAdr(U, U.b[j].slice)
    BY <1>4 DEF Told
  <2>1. InUse(T.b[j]) /\ U.b[j].slice = T.b[j].slice BY <1>4 DEF InUse
  <2>2. T.b[j].file = FileAdr(T, T.b[j].slice) BY <1>1, <1>3, <2>1 DEF Told
  <2> QED BY <1>2, <1>6, <2>1, <2>2
<1>8. ASSUME U.wp <= MaxFile + 1, NEW x \in Written(T) PROVE x \in Written(U)
  <2>1. x \in Slices /\ FileAdr(T, x) # NoAdr /\ \A w \in Words(FileAdr(T, x), x) : T.file[w].of = x
    BY DEF Written
  <2>2. T.base[VarOf[x]] # NoAdr BY <2>1 DEF FileAdr
  <2> DEFINE d == FileAdr(T, x)
             l == Len8(x)
             end == T.wp
  <2>3. d \in Nat /\ d # NoAdr /\ d + l <= end BY <1>1, <2>1, <2>2, AdrIs
  <2>4. l \in Nat /\ end \in Nat BY <1>1, <2>1, PlaceIs, TypedIs
  <2>5. FileAdr(U, x) = d BY <1>6
  <2>6. Words(d, x) = d .. d + l - 1 BY DEF Words
  <2>7. end <= MaxFile + 1 /\ MaxFile \in Nat BY <1>2, <1>8, VmmAssumption
  <2> HIDE DEF d, l, end
  <2>8. \A w \in d .. d + l - 1 : w \in 1 .. MaxFile BY <2>3, <2>4, <2>7 DEF NoAdr
  <2>9. \A w \in Words(d, x) : U.file[w].of = x BY <1>2, <2>1, <2>6, <2>8 DEF d
  <2> QED BY <2>1, <2>3, <2>5, <2>9 DEF Written
<1>9. ImagesWritten(U)
  <2> SUFFICES ASSUME U.wp <= MaxFile + 1, NEW x \in Slices, U.s[x].image PROVE x \in Written(U)
    BY DEF ImagesWritten
  <2>1. x \in Written(T) BY <1>1, <1>2 DEF ImagesWritten
  <2> QED BY <1>8, <2>1
<1>10. Reserved(U.base, U.wp) BY <1>1, <1>2
<1>11. Good(U) BY <1>2, <1>5, <1>7, <1>9, <1>10 DEF Good
<1>12. Extends(T, U)
  <2>1. T.wp <= U.wp
    <3>1. T.wp \in Nat BY <1>1, TypedIs
    <3> QED BY <1>2, <3>1
  <2> QED BY <1>2, <1>8, <2>1 DEF Extends
<1> QED BY <1>11, <1>12

LEMMA MarkingStays ==
  ASSUME NEW T, NEW U, NEW X, Good(T), Marking(T, U), X \subseteq Slices, \A x \in X : U.s[x].locked = T.s[x].locked
  PROVE  Stays(X, T, U)
<1> SUFFICES ASSUME NEW x \in X, T.s[x].locked PROVE U.b[U.s[x].bk].adr = T.b[T.s[x].bk].adr
  BY DEF Stays
<1>1. x \in Slices OBVIOUS
<1>2. T.s[x].bk \in 1 .. Len(T.b) BY <1>1, GoodIs DEF Names
<1>3. U.s[x].bk = T.s[x].bk /\ Marked(T.b, U.b) BY <1>1 DEF Marking
<1> QED BY <1>2, <1>3 DEF Marked

---------------------------------------------------------------------------
(* qvmlod and vmmlod. *)

LEMMA KeptIs ==
  ASSUME NEW more \in BOOLEAN
  PROVE  /\ \A x \in Block :
              /\ Kept(x, more) \in Block /\ Kept(x, more).slice = x.slice /\ Kept(x, more).adr = x.adr
              /\ Kept(x, more).size = x.size /\ Kept(x, more).prev = x.prev /\ Kept(x, more).next = x.next
              /\ Kept(x, more).file = x.file /\ Kept(x, more).locked = x.locked
              /\ Kept(x, more).altered = x.altered /\ Kept(x, more).was = x.was
              /\ Kept(x, more).keep = (x.keep \/ more) /\ Kept(x, more).cur = x.cur
         /\ \A x \in Slice :
              /\ Kept(x, more) \in Slice /\ Kept(x, more).bk = x.bk /\ Kept(x, more).image = x.image
              /\ Kept(x, more).locked = x.locked /\ Kept(x, more).altered = x.altered
              /\ Kept(x, more).was = x.was /\ Kept(x, more).keep = (x.keep \/ more)
<1>1. ASSUME NEW x \in Block
      PROVE   /\ Kept(x, more) \in Block /\ Kept(x, more).slice = x.slice /\ Kept(x, more).adr = x.adr
              /\ Kept(x, more).size = x.size /\ Kept(x, more).prev = x.prev /\ Kept(x, more).next = x.next
              /\ Kept(x, more).file = x.file /\ Kept(x, more).locked = x.locked
              /\ Kept(x, more).altered = x.altered /\ Kept(x, more).was = x.was
              /\ Kept(x, more).keep = (x.keep \/ more) /\ Kept(x, more).cur = x.cur
  BY DEF Block, Kept
<1>2. ASSUME NEW x \in Slice
      PROVE   /\ Kept(x, more) \in Slice /\ Kept(x, more).bk = x.bk /\ Kept(x, more).image = x.image
              /\ Kept(x, more).locked = x.locked /\ Kept(x, more).altered = x.altered
              /\ Kept(x, more).was = x.was /\ Kept(x, more).keep = (x.keep \/ more)
  BY DEF Slice, Kept
<1> QED BY <1>1, <1>2

Keys(ks) == \E n \in Nat : ks \in [1 .. n -> Slices]

\* the keys in memory are kept
Held(T, U, ks) ==
  /\ Good(U) /\ Bears(T, U) /\ Stays(Slices, T, U)
  /\ \A x \in Slices : U.s[x].bk = T.s[x].bk
  /\ \A x \in ToSet(ks) : U.s[x].bk # 0 => U.s[x].keep

LEMMA KeepInCoreGood ==
  ASSUME NEW T, NEW ks, Good(T), Keys(ks)
  PROVE  Held(T, KeepInCore(T, ks), ks)
<1> DEFINE here == {x \in ToSet(ks) : T.s[x].bk # 0}
           b == T.b
           s == T.s
           n == Len(b)
           c == [j \in DOMAIN b |-> Kept(b[j], b[j].slice \in here)]
           t == [x \in Slices |-> Kept(s[x], x \in here)]
           U == KeepInCore(T, ks)
<1>1. TypedTables(T) /\ b \in Seq(Block) /\ s \in [Slices -> Slice] /\ DOMAIN b = 1 .. n /\ n \in Nat /\ Names(b, s)
  BY GoodIs
<1>2. here \subseteq ToSet(ks) /\ ToSet(ks) \subseteq Slices
  <2>1. PICK m \in Nat : ks \in [1 .. m -> Slices] BY DEF Keys
  <2>2. \A i \in DOMAIN ks : ks[i] \in Slices BY <2>1
  <2> QED BY <2>2 DEF ToSet
<1>3. U = WithSlices(T, c, t)
  <2>1. U = [T EXCEPT !.s = t, !.b = c] BY <1>1 DEF KeepInCore, TypedTables
  <2> HIDE DEF U, c, t
  <2> QED BY <1>1, <2>1 DEF WithSlices, TypedTables
<1>14. ToSet(ks) \cap {x \in Slices : s[x].bk # 0} \subseteq here OBVIOUS
<1>4. \A x \in here : s[x].bk # 0 OBVIOUS
<1> HIDE DEF U, here, s, b, n
<1>5. ASSUME NEW j \in 1 .. n
      PROVE  /\ c[j] \in Block /\ c[j].slice = b[j].slice /\ c[j].adr = b[j].adr /\ c[j].size = b[j].size
             /\ c[j].prev = b[j].prev /\ c[j].next = b[j].next /\ c[j].file = b[j].file
             /\ c[j].locked = b[j].locked /\ c[j].altered = b[j].altered /\ c[j].was = b[j].was
             /\ c[j].keep = (b[j].keep \/ b[j].slice \in here) /\ c[j].cur = b[j].cur
  <2> DEFINE x == b[j]
             more == x.slice \in here
  <2>1. x \in Block /\ more \in BOOLEAN /\ c[j] = Kept(x, more) BY <1>1
  <2> HIDE DEF x, more, c
  <2>2. c[j] \in Block /\ c[j].slice = x.slice /\ c[j].adr = x.adr /\ c[j].size = x.size
             /\ c[j].prev = x.prev /\ c[j].next = x.next /\ c[j].file = x.file
             /\ c[j].locked = x.locked /\ c[j].altered = x.altered /\ c[j].was = x.was
             /\ c[j].keep = (x.keep \/ more) /\ c[j].cur = x.cur
    BY <2>1, KeptIs
  <2> QED BY <2>2 DEF x, more
<1>6. ASSUME NEW x \in Slices
      PROVE  /\ t[x] \in Slice /\ t[x].bk = s[x].bk /\ t[x].image = s[x].image /\ t[x].locked = s[x].locked
             /\ t[x].altered = s[x].altered /\ t[x].was = s[x].was
             /\ t[x].keep = (s[x].keep \/ x \in here)
  <2> DEFINE y == s[x]
             more == x \in here
  <2>1. y \in Slice /\ more \in BOOLEAN /\ t[x] = Kept(y, more) BY <1>1
  <2> HIDE DEF y, more, t
  <2>2. /\ t[x] \in Slice /\ t[x].bk = y.bk /\ t[x].image = y.image /\ t[x].locked = y.locked
        /\ t[x].altered = y.altered /\ t[x].was = y.was /\ t[x].keep = (y.keep \/ more)
    BY <2>1, KeptIs
  <2> QED BY <2>2 DEF y, more
<1>7. c \in Seq(Block) /\ Len(c) = n /\ t \in [Slices -> Slice]
  <2>1. DOMAIN c = 1 .. n /\ c = [j \in 1 .. n |-> c[j]] /\ \A j \in 1 .. n : c[j] \in Block BY <1>1, <1>5
  <2>2. t = [x \in Slices |-> t[x]] /\ \A x \in Slices : t[x] \in Slice BY <1>6
  <2> HIDE DEF c, t
  <2>3. c \in [1 .. n -> Block] /\ t \in [Slices -> Slice] BY <2>1, <2>2
  <2> QED BY <1>1, <2>1, <2>3
<1> HIDE DEF c, t
<1>8. Put(T, U, c, t, T.first) BY <1>1, <1>3, <1>7, PutSlices
<1>9. TypedTables(U) /\ U.b = c /\ U.s = t /\ U.first = T.first /\ U.base = T.base /\ U.wp = T.wp /\ U.file = T.file
  BY <1>8 DEF Put
<1>10. Marked(b, c) BY <1>5, <1>7 DEF Marked, n
<1>11. Marking(T, U)
  <2>1. ASSUME NEW j \in 1 .. n
        PROVE  /\ c[j].file = b[j].file
               /\ IF InUse(b[j]) THEN SameFlags(c[j], t[b[j].slice]) ELSE ~c[j].locked /\ ~c[j].keep
    <3>1. CASE InUse(b[j])
      <4>1. b[j].slice \in Slices BY <1>1, <3>1, BlockIs DEF InUse
      <4>2. SameFlags(b[j], s[b[j].slice]) BY <1>1, <3>1 DEF Names
      <4> DEFINE x == b[j].slice
      <4>3. x \in Slices /\ SameFlags(b[j], s[x]) /\ c[j].keep = (b[j].keep \/ x \in here) BY <1>5, <4>1, <4>2
      <4> HIDE DEF x
      <4>4. SameFlags(c[j], t[x]) BY <1>5, <1>6, <4>3 DEF SameFlags
      <4> QED BY <1>5, <3>1, <4>4 DEF x
    <3>2. CASE ~InUse(b[j])
      <4>1. ~b[j].locked /\ ~b[j].keep BY <1>1, <3>2 DEF Names
      <4>2. b[j].slice \notin here BY <1>2, <3>2, VmmAssumption DEF InUse
      <4>3. c[j].keep = FALSE \/ c[j].keep = b[j].keep BY <1>5, <4>1, <4>2
      <4> QED BY <1>5, <3>2, <4>1, <4>2
    <3> QED BY <3>1, <3>2
  <2>2. ASSUME NEW x \in Slices
        PROVE  t[x].bk = s[x].bk /\ (t[x].image => s[x].image) /\ (s[x].bk = 0 => ~t[x].locked)
    BY <1>1, <1>6 DEF Names
  <2> QED BY <1>9, <1>10, <2>1, <2>2 DEF Marking, b, s, n
<1>17. Spares(T, U, {})
  <2>1. Even(T.b) => Even(U.b) BY <1>9, <1>10, MarkedEven DEF b
  <2>2. \A x \in Slices : SliceKept(T, U, x) BY <1>6, <1>9 DEF SliceKept, s
  <2>3. ASSUME NEW x \in Slices PROVE ContentKept(T, U, x)
    <3>1. U.s[x].bk = s[x].bk BY <1>6, <1>9
    <3>2. s[x].bk # 0 => s[x].bk \in 1 .. n BY <1>1 DEF Names
    <3>3. s[x].bk # 0 => c[s[x].bk].cur = b[s[x].bk].cur BY <1>5, <3>2
    <3> QED BY <1>9, <3>1, <3>3 DEF ContentKept, b, s
  <2> QED BY <1>1, <1>9, <2>1, <2>2, <2>3, MemorySpares
<1>12. Good(U) /\ Bears(T, U) BY <1>11, <1>17, MarkingGood DEF Bears
<1>13. Stays(Slices, T, U) BY <1>6, <1>9, <1>11, MarkingStays DEF s
<1>15. \A x \in ToSet(ks) : t[x].bk # 0 => t[x].keep
  <2> SUFFICES ASSUME NEW x \in ToSet(ks), t[x].bk # 0 PROVE t[x].keep OBVIOUS
  <2>1. x \in Slices /\ x \in here BY <1>2, <1>6, <1>14
  <2> QED BY <1>6, <2>1
<1>16. \A x \in Slices : t[x].bk = s[x].bk BY <1>6
<1> QED BY <1>9, <1>12, <1>13, <1>15, <1>16 DEF Held, U, s

\* N[k]: the room that the first k keys need
Wanted(T, y) == IF T.s[y].bk = 0 THEN Len8(y) ELSE 0

NeedSums(N, T, ks, k) ==
  /\ N \in [Nat -> Nat]
  /\ \A j \in 1 .. k : N[j] = N[j - 1] + Wanted(T, ks[j])
  /\ \A j \in 0 .. k : N[j] <= N[k]

NeedTo(T, ks, x, k) == \E N : NeedSums(N, T, ks, k) /\ x = N[k]
Needs(d, x, k) == NeedTo(d.t, d.ks, x, k)

LN == INSTANCE Loops WITH Turn <- NeedTurn, Inv <- Needs

LEMMA WantedIs ==
  ASSUME NEW T, NEW y, y \in Slices
  PROVE  Wanted(T, y) \in Nat /\ Len8(y) \in Nat \ {0}
BY PlaceIs DEF Wanted

LEMMA NeedStep ==
  ASSUME NEW T, NEW ks, NEW x, NEW m, NEW k, NEW g, m \in Nat, k = m + 1, g = Wanted(T, ks[k]), g \in Nat,
         NeedTo(T, ks, x, m)
  PROVE  NeedTo(T, ks, x + g, k)
<1>1. PICK N : NeedSums(N, T, ks, m) /\ x = N[m] BY DEF NeedTo
<1>2. /\ N \in [Nat -> Nat] /\ \A j \in 1 .. m : N[j] = N[j - 1] + Wanted(T, ks[j])
      /\ \A j \in 0 .. m : N[j] <= N[m]
  BY <1>1 DEF NeedSums
<1>3. x \in Nat BY <1>1, <1>2
<1> DEFINE y == x + g
           M == [N EXCEPT ![k] = y]
<1>4. y \in Nat /\ x <= y BY <1>3
<1> HIDE DEF y
<1>5. M \in [Nat -> Nat] /\ M[k] = y /\ \A j \in Nat : j # k => M[j] = N[j] BY <1>2, <1>4
<1> HIDE DEF M
<1>6. \A j \in 1 .. k : M[j] = M[j - 1] + Wanted(T, ks[j])
  <2> SUFFICES ASSUME NEW j \in 1 .. k PROVE M[j] = M[j - 1] + Wanted(T, ks[j]) OBVIOUS
  <2>1. CASE j = k
    <3>1. j - 1 = m /\ m # k /\ m \in Nat BY <2>1
    <3>2. M[j - 1] = x BY <1>1, <1>5, <3>1
    <3> QED BY <1>5, <2>1, <3>2 DEF y
  <2>2. CASE j # k
    <3> DEFINE i == j - 1
    <3>1. j \in 1 .. m /\ j \in Nat /\ i \in Nat /\ i # k BY <2>2
    <3>2. N[j] = N[i] + Wanted(T, ks[j]) BY <1>2, <3>1
    <3> HIDE DEF i
    <3>3. M[j] = N[j] /\ M[i] = N[i] BY <1>5, <2>2, <3>1
    <3>4. M[j] = M[i] + Wanted(T, ks[j]) BY <3>2, <3>3
    <3> QED BY <3>4 DEF i
  <2> QED BY <2>1, <2>2
<1>7. \A j \in 0 .. k : M[j] <= M[k]
  <2> SUFFICES ASSUME NEW j \in 0 .. k PROVE M[j] <= y BY <1>5
  <2>1. CASE j = k BY <1>4, <1>5, <2>1
  <2>2. CASE j # k
    <3>1. j \in 0 .. m /\ j \in Nat BY <2>2
    <3> DEFINE p == N[j]
    <3>2. p <= x /\ p \in Nat /\ M[j] = p BY <1>1, <1>2, <1>5, <2>2, <3>1
    <3> HIDE DEF p
    <3> QED BY <1>3, <1>4, <3>2
  <2> QED BY <2>1, <2>2
<1>8. NeedSums(M, T, ks, k) BY <1>5, <1>6, <1>7 DEF NeedSums
<1> QED BY <1>5, <1>8 DEF y, NeedTo

LEMMA NeedIs ==
  ASSUME NEW T, NEW ks, NEW n, n \in Nat, ks \in [1 .. n -> Slices]
  PROVE  \E N : NeedSums(N, T, ks, n) /\ Need(T, ks) = N[n]
<1> DEFINE d == [t |-> T, ks |-> ks]
           zero == 0
           z == LN!After(d, zero, n)
<1>1. d.t = T /\ d.ks = ks /\ zero = 0 OBVIOUS
<1> HIDE DEF d
<1>2. Needs(d, zero, 0)
  <2> DEFINE N == [j \in Nat |-> 0]
  <2>1. N \in [Nat -> Nat] /\ \A j \in Nat : N[j] = 0 OBVIOUS
  <2> HIDE DEF N
  <2>2. \A j \in 1 .. 0 : FALSE OBVIOUS
  <2>3. \A j \in 0 .. 0 : N[j] <= N[0] BY <2>1
  <2>4. NeedSums(N, T, ks, 0) BY <2>1, <2>2, <2>3 DEF NeedSums
  <2> QED BY <1>1, <2>1, <2>4 DEF Needs, NeedTo
<1> HIDE DEF zero
<1>3. \A k \in 1 .. n : \A y : Needs(d, y, k - 1) => Needs(d, NeedTurn(d, y, k), k)
  <2> SUFFICES ASSUME NEW k \in 1 .. n, NEW y, Needs(d, y, k - 1) PROVE Needs(d, NeedTurn(d, y, k), k) OBVIOUS
  <2> DEFINE m == k - 1
             g == Wanted(T, ks[k])
  <2>1. m \in Nat /\ k = m + 1 /\ Needs(d, y, m) OBVIOUS
  <2>2. g \in Nat BY WantedIs
  <2>3. NeedTurn(d, y, k) = y + g BY <1>1 DEF NeedTurn, Wanted
  <2>4. g = Wanted(T, ks[k]) OBVIOUS
  <2> HIDE DEF m, g
  <2>5. NeedTo(T, ks, y, m) BY <1>1, <2>1 DEF Needs
  <2>6. NeedTo(T, ks, y + g, k) BY <2>1, <2>2, <2>4, <2>5, NeedStep
  <2> QED BY <1>1, <2>3, <2>6 DEF Needs
<1>4. Needs(d, z, n) BY <1>2, <1>3, LN!LoopKeeps
<1>5. Len(ks) = n OBVIOUS
<1>6. z = Need(T, ks) BY <1>5 DEF z, d, zero, Need, Repeat, LN!After
<1> HIDE DEF z
<1> QED BY <1>1, <1>4, <1>6 DEF Needs, NeedTo

\* k keys are placed: the block at hand has the room for the others
Left2(d, U, at, k) ==
  \/ d.need[d.n] = d.need[k]
  \/ at \in 1 .. Len(U.b) /\ ~InUse(U.b[at]) /\ d.need[d.n] <= U.b[at].size + d.need[k]

Came(T, U, ks) ==
  /\ Good(U) /\ Bears(T, U) /\ Stays(Slices, T, U)
  /\ \A x \in ToSet(ks) : T.s[x].bk # 0 => U.s[x].bk # 0

Places(d, r, k) == r = At1(r.t, r.at) /\ Came(d.t, r.t, d.ks) /\ Left2(d, r.t, r.at, k)

LA == INSTANCE Loops WITH Turn <- PlaceTurn, Inv <- Places

LEMMA PlaceTurnKeeps ==
  ASSUME NEW d, NEW ks, NEW U, NEW at, NEW k, NEW m, NEW n, NeverExactlyFull, Good(d.t), n \in Nat, d.n = n, d.ks = ks,
         m \in Nat, k = m + 1, k <= n, ks \in [1 .. n -> Slices], NeedSums(d.need, d.t, ks, n),
         Came(d.t, U, ks), Left2(d, U, at, m)
  PROVE  Places(d, PlaceTurn(ks, At1(U, at), k), k)
<1> DEFINE T == d.t
           N == d.need
           y == ks[k]
           l == Len8(y)
           a == N[m]
           e == N[k]
           f == N[n]
           r == At1(U, at)
           V == Place(U, y, at)
           z == PlaceTurn(ks, r, k)
<1>1. k \in 1 .. n /\ y \in Slices /\ y \in ToSet(ks)
  <2>1. k \in 1 .. n OBVIOUS
  <2> QED BY <2>1 DEF ToSet
<1>2. l \in Nat \ {0} /\ Wanted(T, y) \in Nat BY <1>1, WantedIs
<1>3. /\ N \in [Nat -> Nat] /\ (\A j \in 1 .. n : N[j] = N[j - 1] + Wanted(T, ks[j])) /\ \A j \in 0 .. n : N[j] <= N[n]
  BY DEF NeedSums
<1>4. e = a + Wanted(T, y) /\ e <= f /\ e \in Nat /\ a \in Nat /\ f \in Nat
  <2>1. k - 1 = m /\ k \in Nat /\ k \in 0 .. n BY <1>1
  <2>2. N[k] = N[k - 1] + Wanted(T, ks[k]) BY <1>1, <1>3
  <2> QED BY <1>3, <2>1, <2>2
<1>5. Good(U) /\ Bears(T, U) /\ Stays(Slices, T, U) /\ \A x \in ToSet(ks) : T.s[x].bk # 0 => U.s[x].bk # 0
  BY DEF Came
<1>6. f = a \/ (at \in 1 .. Len(U.b) /\ ~InUse(U.b[at]) /\ f <= U.b[at].size + a) BY DEF Left2
<1>7. r.t = U /\ r.at = at BY DEF At1
<1>8. z = IF U.s[y].bk # 0 THEN r ELSE At1(V, at + 1) BY <1>7 DEF PlaceTurn, At1
<1>9. Len(U.b) \in Nat /\ \A j \in 1 .. Len(U.b) : U.b[j].size \in Nat BY <1>5, GoodIs, BlockIs
<1>10. CASE U.s[y].bk # 0
  <2>1. Left2(d, U, at, k)
    <3> DEFINE q == U.b[at].size
               w == Wanted(T, y)
    <3>1. f = a \/ (at \in 1 .. Len(U.b) /\ ~InUse(U.b[at]) /\ f <= q + a /\ q \in Nat) BY <1>6, <1>9
    <3>2. w \in Nat /\ e = a + w /\ e <= f /\ e \in Nat /\ a \in Nat /\ f \in Nat BY <1>2, <1>4
    <3> HIDE DEF q, w, a, e, f
    <3>3. f = e \/ (at \in 1 .. Len(U.b) /\ ~InUse(U.b[at]) /\ f <= q + e)
      <4>1. CASE f = a BY <3>2, <4>1
      <4>2. CASE at \in 1 .. Len(U.b) /\ ~InUse(U.b[at]) /\ f <= q + a /\ q \in Nat
        <5>1. f <= q + e BY <3>2, <4>2
        <5> QED BY <4>2, <5>1
      <4> QED BY <3>1, <4>1, <4>2
    <3> QED BY <3>3 DEF Left2, q, e, f
  <2> HIDE DEF r
  <2>2. z = r /\ r = At1(r.t, r.at) BY <1>7, <1>8, <1>10 DEF r
  <2> QED BY <1>7, <2>1, <2>2 DEF Places
<1>11. CASE U.s[y].bk = 0
  <2>1. T.s[y].bk = 0 BY <1>1, <1>5, <1>11
  <2>2. Wanted(T, y) = l BY <2>1 DEF Wanted
  <2> DEFINE q == U.b[at].size
  <2>3. at \in 1 .. Len(U.b) /\ ~InUse(U.b[at]) /\ f <= q + a /\ q \in Nat
    <3>1. f # a
      <4>1. e = a + l /\ e <= f /\ e \in Nat /\ a \in Nat /\ f \in Nat /\ l \in Nat \ {0} BY <1>2, <1>4, <2>2
      <4> HIDE DEF l, a, e, f
      <4> QED BY <4>1
    <3> QED BY <1>6, <1>9, <3>1
  <2>4. l <= q
    <3>1. e = a + l /\ e <= f /\ e \in Nat /\ a \in Nat /\ f \in Nat /\ l \in Nat /\ f <= q + a /\ q \in Nat
      BY <1>2, <1>4, <2>2, <2>3
    <3> HIDE DEF l, a, e, f, q
    <3> QED BY <3>1
  <2>5. Placed(U, V, y, at)
    <3> HIDE DEF V
    <3>1. Placed(U, Place(U, y, at), y, at)
      <4>1. Len8(y) <= U.b[at].size BY <2>4
      <4> HIDE DEF y
      <4> QED BY <1>1, <1>5, <1>11, <2>3, <4>1, PlaceGood
    <3> QED BY <3>1 DEF V
  <2> HIDE DEF V
  <2> DEFINE g == at + 1
  <2>6. /\ Good(V) /\ Carried(U, V) /\ Stays(Slices, U, V) /\ Spares(U, V, {})
        /\ \A x \in Slices : V.s[x].bk # 0 <=> U.s[x].bk # 0 \/ x = y
        /\ l < q => g \in 1 .. Len(V.b) /\ ~InUse(V.b[g]) /\ V.b[g].size = q - l
    BY <2>5 DEF Placed
  <2>7. Bears(T, V)
    <3>1. TypedTables(T) /\ TypedTables(U) /\ TypedTables(V) BY <1>5, <2>6, GoodIs DEF T
    <3>2. Bears(U, V) BY <2>6, <3>1, CarriedExtends DEF Bears
    <3> HIDE DEF T
    <3> QED BY <1>5, <3>1, <3>2, BearsTrans
  <2>8. Stays(Slices, T, V)
    <3> HIDE DEF T
    <3> QED BY <1>5, <2>6, StaysTrans
  <2>9. \A x \in ToSet(ks) : T.s[x].bk # 0 => V.s[x].bk # 0
    <3>1. ToSet(ks) \subseteq Slices BY DEF ToSet
    <3> QED BY <1>5, <2>6, <3>1
  <2>10. Came(T, V, ks) BY <2>6, <2>7, <2>8, <2>9 DEF Came
  <2>11. Left2(d, V, g, k)
    <3> DEFINE p == V.b[g].size
    <3>1. l < q => g \in 1 .. Len(V.b) /\ ~InUse(V.b[g]) /\ p = q - l BY <2>6
    <3>2. /\ e = a + l /\ e <= f /\ e \in Nat /\ a \in Nat /\ f \in Nat /\ l \in Nat /\ f <= q + a /\ q \in Nat /\ l <= q
      BY <1>2, <1>4, <2>2, <2>3, <2>4
    <3> HIDE DEF l, q, a, e, f, p, g
    <3>3. l < q \/ l = q BY <3>2
    <3>4. CASE l < q
      <4>1. f <= p + e BY <3>1, <3>2, <3>4
      <4> QED BY <3>1, <3>4, <4>1 DEF Left2, f, e, p
    <3>5. CASE l = q
      <4>1. f = e BY <3>2, <3>5
      <4> QED BY <4>1 DEF Left2, f, e
    <3> QED BY <3>3, <3>4, <3>5
  <2>12. z = At1(V, g) BY <1>8, <1>11
  <2>13. At1(V, g).t = V /\ At1(V, g).at = g BY DEF At1
  <2> HIDE DEF z, g
  <2>14. z.t = V /\ z.at = g /\ z = At1(z.t, z.at) BY <2>12, <2>13
  <2>15. Places(d, z, k) BY <2>10, <2>11, <2>14 DEF Places
  <2> QED BY <2>15 DEF z
<1> QED BY <1>10, <1>11

LEMMA RoomShape ==
  ASSUME NEW T, NEW need
  PROVE  LET r == TrouveBestFree(T, need) IN r = At1(r.t, r.at)
<1> DEFINE fit == TrouveBestFit(T, need)
           v == TrouveBestSegment(T, need)
           E == EjectAll(T, v)
           P == Pack(E, Min(v), TRUE)
           z == At1(T, fit)
           zero == 0
           y == At1(T, zero)
           x == At1(P, Biggest(P, Min(v)))
           r == TrouveBestFree(T, need)
<1>1. r = IF fit # 0 THEN z ELSE IF v = {} THEN y ELSE x
  BY DEF TrouveBestFree, MakeRoom, PackSegment, At1
<1>2. z = At1(z.t, z.at) /\ y = At1(y.t, y.at) /\ x = At1(x.t, x.at)
  <2> HIDE DEF P, E, fit, zero, v
  <2> QED BY DEF At1
<1> HIDE DEF x, y, z, r
<1>3. r = At1(r.t, r.at) BY <1>1, <1>2
<1> QED BY <1>3 DEF r

LEMMA PlaceAllGood ==
  ASSUME NEW T, NEW N, NEW ks, NEW n, NEW U, NEW at, NeverExactlyFull, Good(T), n \in Nat, ks \in [1 .. n -> Slices],
         NeedSums(N, T, ks, n), Came(T, U, ks),
         at # 0 => at \in 1 .. Len(U.b) /\ ~InUse(U.b[at]) /\ N[n] <= U.b[at].size
  PROVE  Came(T, PlaceAll(At1(U, at), ks).t, ks)
<1> DEFINE r == At1(U, at)
           d == [t |-> T, ks |-> ks, need |-> N, n |-> n]
           z == LA!After(ks, r, n)
<1>1. r.t = U /\ r.at = at /\ d.t = T /\ d.ks = ks /\ d.need = N /\ d.n = n BY DEF At1
<1>2. CASE at = 0
  <2>1. PlaceAll(r, ks) = r BY <1>1, <1>2 DEF PlaceAll
  <2> QED BY <1>1, <2>1
<1>3. CASE at # 0
  <2> HIDE DEF d
  <2>1. Len(ks) = n OBVIOUS
  <2>2. PlaceAll(r, ks) = z BY <1>1, <1>3, <2>1 DEF PlaceAll, Repeat, LA!After
  <2>3. Places(d, r, 0)
    <3> DEFINE q == U.b[at].size
               f == N[n]
               a == N[0]
    <3>1. q \in Nat /\ f <= q
      <4>1. Good(U) BY DEF Came
      <4> QED BY <1>3, <4>1, GoodIs, BlockIs
    <3>2. f \in Nat /\ a \in Nat BY DEF NeedSums
    <3> HIDE DEF q, f, a
    <3>3. f <= q + a BY <3>1, <3>2
    <3>4. Left2(d, U, at, 0) BY <1>1, <1>3, <3>3 DEF Left2, q, f, a
    <3>5. r = At1(r.t, r.at) BY <1>1
    <3> HIDE DEF r
    <3> QED BY <1>1, <3>4, <3>5 DEF Places
  <2> HIDE DEF r
  <2>4. \A k \in 1 .. n : \A y : Places(d, y, k - 1) => Places(d, PlaceTurn(ks, y, k), k)
    <3> SUFFICES ASSUME NEW k \in 1 .. n, NEW y, Places(d, y, k - 1) PROVE Places(d, PlaceTurn(ks, y, k), k) OBVIOUS
    <3> DEFINE m == k - 1
               V == y.t
               j == y.at
    <3>1. m \in Nat /\ k = m + 1 /\ k <= n /\ Places(d, y, m) OBVIOUS
    <3> HIDE DEF m
    <3>2. y = At1(V, j) /\ Came(T, V, ks) /\ Left2(d, V, j, m) BY <1>1, <3>1 DEF Places
    <3>3. Came(d.t, V, ks) /\ Good(d.t) /\ NeedSums(d.need, d.t, ks, n) BY <1>1, <3>2
    <3> HIDE DEF V, j
    <3>4. Places(d, PlaceTurn(ks, At1(V, j), k), k) BY <1>1, <3>1, <3>2, <3>3, PlaceTurnKeeps
    <3> QED BY <3>2, <3>4
  <2>5. Places(d, z, n) BY <2>3, <2>4, LA!LoopKeeps
  <2> HIDE DEF z
  <2>6. Came(T, z.t, ks) BY <1>1, <2>5 DEF Places
  <2> QED BY <2>2, <2>6 DEF r
<1> QED BY <1>2, <1>3

(* What a load leaves: nothing that is written or locked is lost.          *)
Loads(T, U) == Good(U) /\ Extends(T, U) /\ Stays(Slices, T, U)

LEMMA LoadsTrans ==
  ASSUME NEW T, NEW U, NEW V, Good(T), Loads(T, U), Loads(U, V)
  PROVE  Loads(T, V)
<1>1. TypedTables(T) /\ TypedTables(U) /\ TypedTables(V) BY GoodIs DEF Loads
<1>2. Extends(T, V) BY <1>1, ExtendsTrans DEF Loads
<1>3. Stays(Slices, T, V) BY StaysTrans DEF Loads
<1> QED BY <1>2, <1>3 DEF Loads

\* and no content that was sound is lost
Serves(T, U) == Loads(T, U) /\ Spares(T, U, {})

LEMMA ServesTrans ==
  ASSUME NEW T, NEW U, NEW V, Good(T), Serves(T, U), Serves(U, V)
  PROVE  Serves(T, V)
<1>1. Loads(T, U) /\ Loads(U, V) /\ Spares(T, U, {}) /\ Spares(U, V, {}) BY DEF Serves
<1>2. TypedTables(T) /\ TypedTables(U) /\ TypedTables(V) BY <1>1, GoodIs DEF Loads
<1>3. Spares(T, V, {}) BY <1>1, <1>2, SparesTrans
<1> QED BY <1>1, <1>3, LoadsTrans DEF Serves

LEMMA ArrangedServes ==
  ASSUME NEW T, NEW U, Good(T), Arranged(T, U)
  PROVE  Serves(T, U)
BY ArrangedBears DEF Arranged, Bears, Serves, Loads

LEMMA QvmlodGood ==
  ASSUME NEW T, NEW ks, NEW n, NeverExactlyFull, Good(T), n \in Nat, ks \in [1 .. n -> Slices]
  PROVE  Serves(T, Qvmlod(T, ks).t)
<1> DEFINE K == KeepInCore(T, ks)
           need == Need(T, ks)
           r == TrouveBestFree(K, need)
           U == r.t
           at == r.at
<1>1. Keys(ks) BY DEF Keys
<1>2. Held(T, K, ks) BY <1>1, KeepInCoreGood
<1>3. Qvmlod(T, ks) = PlaceAll(r, ks) BY DEF Qvmlod
<1> HIDE DEF K
<1>4. /\ Good(K) /\ Serves(T, K) /\ (\A x \in ToSet(ks) : K.s[x].bk # 0 => K.s[x].keep)
      /\ \A x \in Slices : K.s[x].bk = T.s[x].bk
  BY <1>2 DEF Held, Serves, Loads, Bears
<1>5. PICK N : NeedSums(N, K, ks, n) /\ need = N[n]
  <2>1. PICK N : NeedSums(N, T, ks, n) /\ need = N[n] BY NeedIs
  <2>2. \A j \in 1 .. n : Wanted(K, ks[j]) = Wanted(T, ks[j]) BY <1>4 DEF Wanted
  <2>3. NeedSums(N, K, ks, n) BY <2>1, <2>2 DEF NeedSums
  <2> QED BY <2>1, <2>3
<1>6. need \in Nat BY <1>5 DEF NeedSums
<1>7. r = At1(U, at) BY RoomShape
<1> HIDE DEF need
<1>8. Roomy(K, r, need) BY <1>4, <1>6, TrouveBestFreeGood
<1> HIDE DEF r
<1>9. /\ Good(U) /\ Bears(K, U) /\ Stays(Slices, K, U) /\ KeptStay(K, U)
      /\ at # 0 => at \in 1 .. Len(U.b) /\ ~InUse(U.b[at]) /\ N[n] <= U.b[at].size
  BY <1>5, <1>8 DEF Roomy
<1> HIDE DEF U, at
<1>10. Came(K, U, ks)
  <2>1. ToSet(ks) \subseteq Slices BY DEF ToSet
  <2> QED BY <1>4, <1>9, <2>1 DEF Came, KeptStay
<1> DEFINE V == PlaceAll(At1(U, at), ks).t
<1>11. Came(K, V, ks) BY <1>4, <1>5, <1>9, <1>10, PlaceAllGood
<1>12. Qvmlod(T, ks).t = V BY <1>3, <1>7
<1> HIDE DEF V
<1>13. Serves(K, V) BY <1>11 DEF Came, Serves, Loads, Bears
<1>14. Serves(T, V) BY <1>4, <1>13, ServesTrans
<1> QED BY <1>12, <1>14

OneKey(d, r, k) == Serves(d, r.t)

LK == INSTANCE Loops WITH Turn <- OneKeyTurn, Inv <- OneKey

LEMMA VmmlodGood ==
  ASSUME NEW T, NEW ks, NEW n, NEW locks, NeverExactlyFull, Good(T), n \in Nat, ks \in [1 .. n -> Slices]
  PROVE  Serves(T, Vmmlod(T, ks, locks).t)
<1>1. CASE locks = 0
  <2>1. Vmmlod(T, ks, locks) = Qvmlod(T, ks) BY <1>1 DEF Vmmlod
  <2> QED BY <2>1, QvmlodGood
<1>2. CASE locks # 0
  <2> DEFINE K == KeepInCore(T, ks)
             one == 1
             x == [t |-> K, at |-> one]
             z == LK!After(ks, x, n)
  <2>1. Len(ks) = n OBVIOUS
  <2>2. Vmmlod(T, ks, locks) = z BY <1>2, <2>1 DEF Vmmlod, Repeat, LK!After
  <2>3. Serves(T, K)
    <3>1. Keys(ks) BY DEF Keys
    <3>2. Held(T, K, ks) BY <3>1, KeepInCoreGood
    <3> HIDE DEF K
    <3> QED BY <3>2 DEF Held, Serves, Loads, Bears
  <2> HIDE DEF K
  <2>4. OneKey(T, x, 0) BY <2>3 DEF OneKey
  <2> HIDE DEF x
  <2>5. \A k \in 1 .. n : \A y : OneKey(T, y, k - 1) => OneKey(T, OneKeyTurn(ks, y, k), k)
    <3> SUFFICES ASSUME NEW k \in 1 .. n, NEW y, Serves(T, y.t) PROVE Serves(T, OneKeyTurn(ks, y, k).t) BY DEF OneKey
    <3>1. CASE y.at = 0 BY <3>1 DEF OneKeyTurn
    <3>2. CASE y.at # 0
      <4> DEFINE q == <<ks[k]>>
                 U == y.t
                 V == Qvmlod(U, q).t
                 m == 1
      <4>1. q \in [1 .. 1 -> Slices] OBVIOUS
      <4>2. OneKeyTurn(ks, y, k).t = V BY <3>2 DEF OneKeyTurn
      <4>3. Good(U) /\ Serves(T, U) BY DEF Serves, Loads
      <4>4. m \in Nat /\ q \in [1 .. m -> Slices] BY <4>1
      <4> HIDE DEF q, U, m
      <4>5. Serves(U, V) BY <4>3, <4>4, QvmlodGood
      <4> HIDE DEF V
      <4>6. Serves(T, V) BY <4>3, <4>5, ServesTrans
      <4> QED BY <4>2, <4>6
    <3> QED BY <3>1, <3>2
  <2>6. OneKey(T, z, n) BY <2>4, <2>5, LK!LoopKeeps
  <2> HIDE DEF z
  <2> QED BY <2>2, <2>6 DEF OneKey
<1> QED BY <1>1, <1>2

---------------------------------------------------------------------------
(* What the calls do to the state: T, n locks counted and control file c   *)
(* become U, m and c.                                                      *)

\* the locked fields stay, or locks are no longer counted, or none is kept
LockedKept(T, U, n, m) ==
  \A x \in Slices : T.s[x].bk # 0 /\ T.s[x].locked =>
    \/ /\ U.s[x].bk # 0 /\ U.s[x].locked
       /\ U.b[U.s[x].bk].adr = T.b[T.s[x].bk].adr
    \/ m # n
    \/ \A i \in DOMAIN U.b : ~U.b[i].keep

LEMMA LockedFinite == \A T : IsFiniteSet(Locked(T)) /\ Cardinality(Locked(T)) \in Nat
<1> TAKE T
<1>1. Locked(T) \subseteq Slices BY DEF Locked
<1> QED BY <1>1, VmmAssumption, FS_Subset, FS_CardinalityType

LEMMA ControlStays ==
  ASSUME NEW T, NEW U, NEW c, Control(T, c), Extends(T, U), U.wp <= MaxFile + 1
  PROVE  Control(U, c)
<1>1. \A v \in Variables : c.base[v] # NoAdr => U.base[v] = c.base[v] BY DEF Control, Extends
<1>2. \A x \in c.image : x \in Written(U) BY DEF Control, Extends
<1> QED BY <1>1, <1>2 DEF Control

LEMMA LockedInCore ==
  ASSUME NEW T, NEW x, Good(T), x \in Slices, T.s[x].locked
  PROVE  /\ T.s[x].bk # 0 /\ T.s[x].bk \in 1 .. Len(T.b) /\ T.b[T.s[x].bk].slice = x
         /\ T.b[T.s[x].bk].locked = T.s[x].locked
<1>1. T.s[x].bk # 0 /\ T.s[x].bk \in 1 .. Len(T.b) /\ T.b[T.s[x].bk].slice = x BY GoodIs DEF Names
<1> DEFINE i == T.s[x].bk
           b == T.b
           s == T.s
<1>2. Names(b, s) /\ i \in DOMAIN b /\ b[i].slice = x /\ InUse(b[i]) BY <1>1, GoodIs, VmmAssumption DEF InUse
<1> HIDE DEF i, b, s
<1>3. SameFlags(b[i], s[x]) BY <1>2 DEF Names
<1> QED BY <1>1, <1>3 DEF i, b, s, SameFlags

LEMMA LoadsStep ==
  ASSUME NEW T, NEW U, NEW n, NEW c, GoodState(T, n, c), Loads(T, U), U.wp <= MaxFile + 1
  PROVE  GoodState(U, n, c) /\ LockedKept(T, U, n, n)
<1>1. Good(T) /\ Good(U) /\ Extends(T, U) /\ Stays(Slices, T, U) /\ Counted(T, n) /\ Control(T, c)
  BY DEF GoodState, Loads
<1>2. Control(U, c) BY <1>1, ControlStays
<1>3. Locked(U) = Locked(T) BY <1>1 DEF Locked, Stays
<1>4. Counted(U, n) BY <1>1, <1>3 DEF Counted
<1>5. LockedKept(T, U, n, n)
  <2> SUFFICES ASSUME NEW x \in Slices, T.s[x].locked
               PROVE  U.s[x].bk # 0 /\ U.s[x].locked /\ U.b[U.s[x].bk].adr = T.b[T.s[x].bk].adr
    BY DEF LockedKept
  <2>1. U.s[x].locked /\ U.b[U.s[x].bk].adr = T.b[T.s[x].bk].adr BY <1>1 DEF Stays
  <2> QED BY <1>1, <2>1, LockedInCore
<1> QED BY <1>1, <1>2, <1>4, <1>5 DEF GoodState

\* champs_bloques once slice x is no longer locked
CountLess(T, n, x) == n - (IF T.s[x].bk # 0 /\ T.b[T.s[x].bk].locked THEN 1 ELSE 0)

LEMMA FreesStep ==
  ASSUME NEW T, NEW U, NEW n, NEW m, NEW c, NEW x, GoodState(T, n, c), x \in Slices, Good(U), Extends(T, U),
         Stays(Slices \ {x}, T, U), ~U.s[x].locked, U.wp <= MaxFile + 1, m = CountLess(T, n, x)
  PROVE  GoodState(U, m, c) /\ LockedKept(T, U, n, m)
<1>1. Good(T) /\ Counted(T, n) /\ Control(T, c) BY DEF GoodState
<1>2. Control(U, c) BY <1>1, ControlStays
<1>3. Locked(U) = Locked(T) \ {x} BY DEF Locked, Stays
<1> DEFINE p == Cardinality(Locked(T))
           q == Cardinality(Locked(U))
<1>4. p \in Nat /\ q \in Nat /\ n \in Nat /\ p <= n BY <1>1, LockedFinite DEF Counted
<1>5. CASE T.s[x].locked
  <2>1. m = n - 1
    <3>1. T.s[x].bk # 0 /\ T.b[T.s[x].bk].locked BY <1>1, <1>5, LockedInCore
    <3> QED BY <3>1 DEF CountLess
  <2>2. q = p - 1
    <3> DEFINE L == Locked(T)
    <3>1. x \in L /\ IsFiniteSet(L) /\ Locked(U) = L \ {x} BY <1>3, <1>5, LockedFinite DEF Locked
    <3> HIDE DEF L
    <3>2. Cardinality(L \ {x}) = Cardinality(L) - 1 BY <3>1, FS_RemoveElement
    <3> QED BY <3>1, <3>2 DEF L
  <2> HIDE DEF p, q
  <2>3. m \in Nat /\ q <= m /\ m # n BY <1>4, <2>1, <2>2
  <2>4. LockedKept(T, U, n, m) BY <2>3 DEF LockedKept
  <2> QED BY <1>2, <2>3, <2>4 DEF GoodState, Counted, q
<1>6. CASE ~T.s[x].locked
  <2>1. m = n
    <3> SUFFICES ASSUME T.s[x].bk # 0, T.b[T.s[x].bk].locked PROVE FALSE BY <1>4 DEF CountLess
    <3> DEFINE i == T.s[x].bk
               b == T.b
               s == T.s
    <3>1. Names(b, s) /\ i \in DOMAIN b /\ b[i].slice = x /\ b[i].locked BY <1>1, GoodIs DEF Names
    <3>2. InUse(b[i]) BY <3>1, VmmAssumption DEF InUse
    <3> HIDE DEF i, b, s
    <3>3. SameFlags(b[i], s[x]) BY <3>1, <3>2 DEF Names
    <3> QED BY <1>6, <3>1, <3>3 DEF SameFlags, s
  <2>2. Locked(U) = Locked(T) BY <1>3, <1>6 DEF Locked
  <2>3. Counted(U, m) BY <1>1, <2>1, <2>2 DEF Counted
  <2>4. LockedKept(T, U, n, m)
    <3> SUFFICES ASSUME NEW y \in Slices, T.s[y].locked
                 PROVE  U.s[y].bk # 0 /\ U.s[y].locked /\ U.b[U.s[y].bk].adr = T.b[T.s[y].bk].adr
      BY DEF LockedKept
    <3>1. y \in Slices \ {x} BY <1>6
    <3>2. U.s[y].locked /\ U.b[U.s[y].bk].adr = T.b[T.s[y].bk].adr BY <3>1 DEF Stays
    <3> QED BY <3>2, LockedInCore
  <2> QED BY <1>2, <2>3, <2>4 DEF GoodState
<1> QED BY <1>5, <1>6

LEMMA FreesAllStep ==
  ASSUME NEW T, NEW U, NEW n, NEW c, GoodState(T, n, c), Good(U), Extends(T, U),
         \A x \in Slices : ~U.s[x].locked, U.wp <= MaxFile + 1
  PROVE  GoodState(U, 0, c) /\ LockedKept(T, U, n, 0)
<1>1. Good(T) /\ Counted(T, n) /\ Control(T, c) BY DEF GoodState
<1>2. Control(U, c) BY <1>1, ControlStays
<1>3. Locked(U) = {} BY DEF Locked
<1>4. Counted(U, 0)
  <2>1. Cardinality(Locked(U)) = 0 BY <1>3, FS_EmptySet
  <2> QED BY <2>1 DEF Counted
<1>5. LockedKept(T, U, n, 0)
  <2> SUFFICES ASSUME NEW x \in Slices, T.s[x].locked PROVE 0 # n BY DEF LockedKept
  <2> DEFINE L == Locked(T)
  <2>1. x \in L /\ IsFiniteSet(L) /\ Cardinality(L) \in Nat /\ Cardinality(L) <= n /\ n \in Nat
    BY <1>1, LockedFinite DEF Locked, Counted
  <2> HIDE DEF L
  <2>2. Cardinality(L) # 0 BY <2>1, FS_EmptySet
  <2> QED BY <2>1, <2>2
<1> QED BY <1>2, <1>4, <1>5 DEF GoodState

LEMMA LocksStep ==
  ASSUME NEW T, NEW U, NEW n, NEW m, NEW c, NEW x, GoodState(T, n, c), x \in Slices, Marking(T, U),
         T.s[x].bk # 0, \A y \in Slices \ {x} : U.s[y].locked = T.s[y].locked, U.s[x].locked,
         U.wp <= MaxFile + 1, m = n + (IF T.s[x].locked THEN 0 ELSE 1)
  PROVE  GoodState(U, m, c) /\ LockedKept(T, U, n, m)
<1>1. Good(T) /\ Counted(T, n) /\ Control(T, c) BY DEF GoodState
<1>2. Good(U) /\ Extends(T, U) BY <1>1, MarkingGood
<1>3. Control(U, c) BY <1>1, <1>2, ControlStays
<1> DEFINE p == Cardinality(Locked(T))
           q == Cardinality(Locked(U))
<1>4. p \in Nat /\ q \in Nat /\ n \in Nat /\ p <= n BY <1>1, LockedFinite DEF Counted
<1>5. Counted(U, m)
  <2>1. CASE T.s[x].locked
    <3>1. Locked(U) = Locked(T) BY <2>1 DEF Locked
    <3>2. m = n BY <1>4, <2>1
    <3> QED BY <1>1, <3>1, <3>2 DEF Counted
  <2>2. CASE ~T.s[x].locked
    <3>1. q = p + 1
      <4> DEFINE L == Locked(T)
      <4>1. x \notin L /\ IsFiniteSet(L) /\ Locked(U) = L \cup {x} BY <2>2, LockedFinite DEF Locked
      <4> HIDE DEF L
      <4>2. Cardinality(L \cup {x}) = Cardinality(L) + 1 BY <4>1, FS_AddElement
      <4> QED BY <4>1, <4>2 DEF L
    <3>2. m = n + 1 BY <2>2
    <3> HIDE DEF p, q
    <3>3. m \in Nat /\ q <= m BY <1>4, <3>1, <3>2
    <3> QED BY <3>3 DEF Counted, q
  <2> QED BY <2>1, <2>2
<1>6. LockedKept(T, U, n, m)
  <2> SUFFICES ASSUME NEW y \in Slices, T.s[y].locked
               PROVE  U.s[y].bk # 0 /\ U.s[y].locked /\ U.b[U.s[y].bk].adr = T.b[T.s[y].bk].adr
    BY DEF LockedKept
  <2>1. T.s[y].bk # 0 /\ T.s[y].bk \in 1 .. Len(T.b) BY <1>1, LockedInCore
  <2>2. U.s[y].bk = T.s[y].bk /\ Marked(T.b, U.b) BY DEF Marking
  <2>3. U.s[y].locked OBVIOUS
  <2> QED BY <2>1, <2>2, <2>3 DEF Marked
<1> QED BY <1>2, <1>3, <1>5, <1>6 DEF GoodState
=============================================================================
