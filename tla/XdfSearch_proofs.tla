-------------------------- MODULE XdfSearch_proofs --------------------------
(***************************************************************************)
(* Proofs about XdfSearch, for any number of files, keys, entries per page *)
(* and pages, in a directory and in a handle: a search is exact, no match  *)
(* is passed over, nothing is missed, and a write through a handle changes *)
(* one record that has this handle.                                        *)
(*                                                                         *)
(* In four parts: the pages of a chain of files and their numbers; walking *)
(* the chain; what next_match finds; the invariant and its steps.          *)
(***************************************************************************)
EXTENDS XdfSearch, FiniteSetTheorems, TLAPS

(***************************************************************************)
(* The directories d and the links l of the files that are open.           *)
(***************************************************************************)
Leaf == Seq(Entry)

Dirs(d) ==
  /\ d \in [Files -> Seq(Leaf)]
  /\ \A i \in Files : Len(d[i]) \in 1 .. MaxDirPages
  /\ \A i \in Files : \A j \in 1 .. Len(d[i]) : Len(d[i][j]) <= EntriesPerPage

Links(l) ==
  /\ l \in [Files -> Int]
  /\ \A i \in Files : l[i] = NoFile \/ (l[i] = i + 1 /\ i < NFiles)

(***************************************************************************)
(* The pages of each file and of the files behind it (from in AllPages).   *)
(***************************************************************************)
IsFroms(f, d, l) == f = [i \in Files |-> d[i] \o (IF l[i] = NoFile THEN <<>> ELSE f[l[i]])]

Froms(d, l) == CHOOSE f : IsFroms(f, d, l)
Pages(d, l) == Froms(d, l)[1]

LEMMA AllPagesAre == AllPages = Pages(dir, link) /\ AllPages' = Pages(dir', link')
BY DEF AllPages, Pages, Froms, IsFroms

(***************************************************************************)
(* The loop that walks the chain: NextPage, of the directories and links   *)
(* in c.                                                                   *)
(***************************************************************************)
PageBehind(c, p, k) ==
  IF p = NULL THEN NULL
  ELSE IF p[2] < Len(c.dir[p[1]]) THEN <<p[1], p[2] + 1>>
  ELSE IF c.after[p[1]] = NoFile THEN NULL ELSE <<c.after[p[1]], 1>>

Said(c, p, k) == TRUE

Walk == INSTANCE Loops WITH Turn <- PageBehind, Inv <- Said

(***************************************************************************)
(* What holds of the last file, and of a file when it does of the next,    *)
(* holds of all; and the other way round.                                  *)
(***************************************************************************)
LEMMA FromTheLast ==
  ASSUME NEW S, \A i \in Files : (i < NFiles => i + 1 \in S) => i \in S
  PROVE  \A i \in Files : i \in S
<1> USE XdfSearchAssumption DEF Files
<1> DEFINE R == {m \in Nat : m < NFiles /\ NFiles - m \notin S}
<1>1. R = {}
  <2> SUFFICES ASSUME R # {} PROVE FALSE OBVIOUS
  <2>1. PICK m \in R : \A k \in R : m <= k BY Walk!SmallestNumber
  <2>2. NFiles - m \in Files BY <2>1
  <2>3. NFiles - m < NFiles => m - 1 \in Nat /\ m - 1 \notin R BY <2>1
  <2>4. NFiles - m < NFiles => NFiles - m + 1 \in S BY <2>1, <2>3
  <2> QED BY <2>1, <2>2, <2>4
<1> TAKE i \in Files
<1>2. NFiles - i \in Nat /\ NFiles - i < NFiles /\ NFiles - (NFiles - i) = i OBVIOUS
<1> QED BY <1>1, <1>2

LEMMA FromTheFirst ==
  ASSUME NEW S, 1 \in S, \A i \in Files : i < NFiles /\ i \in S => i + 1 \in S
  PROVE  \A i \in Files : i \in S
<1> USE XdfSearchAssumption DEF Files
<1> DEFINE R == {m \in Nat : m \in Files /\ m \notin S}
<1>1. R = {}
  <2> SUFFICES ASSUME R # {} PROVE FALSE OBVIOUS
  <2>1. PICK m \in R : \A k \in R : m <= k BY Walk!SmallestNumber
  <2>2. m # 1 BY <2>1
  <2>3. m - 1 \in Files /\ m - 1 < NFiles /\ m - 1 \notin R BY <2>1, <2>2
  <2>4. m - 1 + 1 = m BY <2>1
  <2>5. m \in S BY <2>3, <2>4
  <2> QED BY <2>1, <2>5
<1> QED BY <1>1

LEMMA FromsExist ==
  ASSUME NEW d, NEW l, Links(l)
  PROVE  IsFroms(Froms(d, l), d, l)
<1> USE XdfSearchAssumption DEF Files, NoFile
<1> DEFINE Rest(f, i) == d[i] \o (IF l[i] = NoFile THEN <<>> ELSE f[l[i]])
           Good(f, m) == f = [i \in m .. NFiles |-> Rest(f, i)]
           S == {m \in Files : \E f : Good(f, m)}
<1>1. ASSUME NEW m \in Files, m < NFiles => m + 1 \in S
      PROVE  m \in S
  <2>1. CASE m = NFiles
    <3> DEFINE g == [i \in m .. NFiles |-> d[i] \o <<>>]
    <3>1. \A i \in m .. NFiles : l[i] = NoFile BY <2>1 DEF Links
    <3>2. \A i \in m .. NFiles : g[i] = Rest(g, i) BY <3>1
    <3>3. g = [i \in m .. NFiles |-> g[i]] OBVIOUS
    <3> HIDE DEF g
    <3>4. Good(g, m) BY <3>2, <3>3
    <3> QED BY <3>4
  <2>2. CASE m # NFiles
    <3>0. m < NFiles BY <2>2
    <3>1. m + 1 \in S
      <4> HIDE DEF S
      <4> QED BY <1>1, <3>0
    <3>2. PICK f : Good(f, m + 1) BY <3>1
    <3> DEFINE g == [i \in m .. NFiles |-> IF i = m THEN Rest(f, m) ELSE f[i]]
    <3>3. \A i \in m .. NFiles : l[i] # NoFile => l[i] \in m + 1 .. NFiles BY DEF Links
    <3>4. \A i \in m + 1 .. NFiles : g[i] = f[i] OBVIOUS
    <3>5. \A i \in m + 1 .. NFiles : f[i] = Rest(f, i) BY <3>2
    <3>6. ASSUME NEW i \in m .. NFiles PROVE g[i] = Rest(g, i)
      <4>0. i # m => i \in m + 1 .. NFiles OBVIOUS
      <4>1. g[i] = Rest(f, i) BY <3>4, <3>5, <4>0
      <4>2. l[i] # NoFile => g[l[i]] = f[l[i]] BY <3>3, <3>4
      <4> QED BY <4>1, <4>2
    <3>7. g = [i \in m .. NFiles |-> g[i]] OBVIOUS
    <3> HIDE DEF g
    <3>8. Good(g, m) BY <3>6, <3>7
    <3> QED BY <3>8
  <2> QED BY <2>1, <2>2
<1> HIDE DEF S
<1>2. 1 \in S BY <1>1, FromTheLast
<1>3. PICK f : Good(f, 1) BY <1>2 DEF S
<1>4. IsFroms(f, d, l) BY <1>3 DEF IsFroms
<1> QED BY <1>4 DEF Froms

(***************************************************************************)
(* A chain: the files 1 .. i are linked one behind the other; how many     *)
(* pages come before those of file i; which page is page number n.         *)
(***************************************************************************)
OnChain(l, i) == \A j \in 1 .. i - 1 : l[j] = j + 1

Off(d, l, i) == Len(Froms(d, l)[1]) - Len(Froms(d, l)[i])

Spot(d, l, p, n) ==
  /\ p \in Files \X Nat
  /\ OnChain(l, p[1])
  /\ p[2] \in 1 .. Len(d[p[1]])
  /\ n = Off(d, l, p[1]) + p[2]

LEMMA Joined ==
  ASSUME NEW T, NEW s \in Seq(T), NEW t \in Seq(T)
  PROVE  /\ s \o t \in Seq(T)
         /\ Len(s) \in Nat /\ Len(t) \in Nat /\ Len(s \o t) = Len(s) + Len(t)
         /\ \A k \in 1 .. Len(s) : (s \o t)[k] = s[k]
         /\ \A k \in 1 .. Len(t) : Len(s) + k \in 1 .. Len(s \o t) /\ (s \o t)[Len(s) + k] = t[k]
OBVIOUS

LEMMA LinkTo ==
  ASSUME NEW l, Links(l), NEW i \in Files, l[i] # NoFile
  PROVE  i < NFiles /\ l[i] = i + 1 /\ i + 1 \in Files
BY XdfSearchAssumption DEF Links, Files

LEMMA FromsUnfold ==
  ASSUME NEW d, NEW l, Links(l), NEW i \in Files
  PROVE  Froms(d, l)[i] = d[i] \o (IF l[i] = NoFile THEN <<>> ELSE Froms(d, l)[l[i]])
<1> DEFINE F == Froms(d, l)
<1>1. IsFroms(F, d, l) BY FromsExist
<1> HIDE DEF F
<1>2. F[i] = d[i] \o (IF l[i] = NoFile THEN <<>> ELSE F[l[i]]) BY <1>1 DEF IsFroms
<1> QED BY <1>2 DEF F

LEMMA DirIs ==
  ASSUME NEW d, Dirs(d), NEW i \in Files
  PROVE  d[i] \in Seq(Leaf) /\ Len(d[i]) \in Nat /\ 1 <= Len(d[i]) /\ Len(d[i]) <= MaxDirPages
BY XdfSearchAssumption DEF Dirs

LEMMA FromsLast ==
  ASSUME NEW d, NEW l, Dirs(d), Links(l), NEW i \in Files, l[i] = NoFile
  PROVE  Froms(d, l)[i] = d[i]
<1>1. d[i] \o <<>> = d[i] BY DirIs
<1>2. Froms(d, l)[i] = d[i] \o <<>> BY FromsUnfold
<1> QED BY <1>1, <1>2

LEMMA FromsNext ==
  ASSUME NEW d, NEW l, Dirs(d), Links(l), NEW i \in Files, l[i] # NoFile
  PROVE  Froms(d, l)[i] = d[i] \o Froms(d, l)[i + 1]
<1>1. l[i] = i + 1 BY LinkTo
<1>2. Froms(d, l)[i] = d[i] \o Froms(d, l)[l[i]] BY FromsUnfold
<1> QED BY <1>1, <1>2

LEMMA FromsAre ==
  ASSUME NEW d, NEW l, Dirs(d), Links(l), NEW i \in Files
  PROVE  Froms(d, l)[i] \in Seq(Leaf) /\ Len(Froms(d, l)[i]) \in Nat
<1> DEFINE S == {j \in Files : Froms(d, l)[j] \in Seq(Leaf)}
<1>1. ASSUME NEW j \in Files, j < NFiles => j + 1 \in S
      PROVE  j \in S
  <2>1. d[j] \in Seq(Leaf) BY DirIs
  <2>2. CASE l[j] = NoFile BY <2>1, <2>2, FromsLast
  <2>3. CASE l[j] # NoFile
    <3>1. j + 1 \in S BY <1>1, <2>3, LinkTo
    <3>2. Froms(d, l)[j + 1] \in Seq(Leaf) BY <3>1
    <3>3. d[j] \o Froms(d, l)[j + 1] \in Seq(Leaf) BY <2>1, <3>2, Joined
    <3>4. Froms(d, l)[j] \in Seq(Leaf) BY <2>3, <3>3, FromsNext
    <3> QED BY <3>4
  <2> QED BY <2>2, <2>3
<1> HIDE DEF S
<1>2. i \in S BY <1>1, FromTheLast
<1>3. Froms(d, l)[i] \in Seq(Leaf) BY <1>2 DEF S
<1> QED BY <1>3

LEMMA OnChainNext ==
  ASSUME NEW l, NEW i \in Files, OnChain(l, i + 1)
  PROVE  OnChain(l, i) /\ l[i] = i + 1 /\ l[i] # NoFile
BY DEF OnChain, Files, NoFile

LEMMA OffNext ==
  ASSUME NEW d, NEW l, Dirs(d), Links(l), NEW i \in Files, l[i] # NoFile
  PROVE  Off(d, l, i + 1) = Off(d, l, i) + Len(d[i])
<1> DEFINE a == Len(Froms(d, l)[1])
           b == Len(Froms(d, l)[i])
           c == Len(Froms(d, l)[i + 1])
           n == Len(d[i])
<1>1. l[i] # NoFile OBVIOUS
<1>2. 1 \in Files BY XdfSearchAssumption DEF Files
<1>3. i + 1 \in Files BY <1>1, LinkTo
<1>4. d[i] \in Seq(Leaf) /\ n \in Nat BY DirIs
<1>5. Froms(d, l)[i + 1] \in Seq(Leaf) /\ c \in Nat BY <1>3, FromsAre
<1>6. a \in Nat /\ b \in Nat BY <1>2, FromsAre
<1>7. Len(d[i] \o Froms(d, l)[i + 1]) = n + c BY <1>4, <1>5, Joined
<1>8. b = n + c BY <1>1, <1>7, FromsNext
<1>9. Off(d, l, i + 1) = a - c /\ Off(d, l, i) = a - b BY DEF Off
<1> HIDE DEF a, b, c, n
<1>10. a - c = (a - b) + n BY <1>4, <1>5, <1>6, <1>8
<1> QED BY <1>9, <1>10 DEF n

(* The pages of file i of the chain, and those behind it, are the last of  *)
(* all the pages.                                                          *)
OffIs(d, l, i) ==
  /\ Off(d, l, i) \in Nat
  /\ Off(d, l, i) <= (i - 1) * MaxDirPages
  /\ \A k \in 1 .. Len(Froms(d, l)[i]) : Pages(d, l)[Off(d, l, i) + k] = Froms(d, l)[i][k]

LEMMA OffFirst ==
  ASSUME NEW d, NEW l, Dirs(d), Links(l)
  PROVE  1 \in Files /\ OnChain(l, 1) /\ Off(d, l, 1) = 0 /\ OffIs(d, l, 1)
<1>1. 1 \in Files BY XdfSearchAssumption DEF Files
<1> DEFINE a == Len(Froms(d, l)[1])
<1>2. a \in Nat BY <1>1, FromsAre
<1>3. Off(d, l, 1) = a - a BY DEF Off
<1> HIDE DEF a
<1>4. Off(d, l, 1) = 0 BY <1>2, <1>3
<1>5. (1 - 1) * MaxDirPages = 0 BY XdfSearchAssumption
<1>6. \A k \in 1 .. Len(Froms(d, l)[1]) : 0 + k = k OBVIOUS
<1>7. OffIs(d, l, 1) BY <1>4, <1>5, <1>6 DEF OffIs, Pages
<1>8. OnChain(l, 1) BY DEF OnChain
<1> QED BY <1>1, <1>4, <1>7, <1>8

LEMMA Times ==
  ASSUME NEW j \in Int
  PROVE  (j - 1) * MaxDirPages \in Int /\ ((j + 1) - 1) * MaxDirPages = (j - 1) * MaxDirPages + MaxDirPages
BY XdfSearchAssumption

LEMMA OffFacts ==
  ASSUME NEW d, NEW l, Dirs(d), Links(l), NEW i \in Files, OnChain(l, i)
  PROVE  OffIs(d, l, i)
<1> DEFINE S == {j \in Files : OnChain(l, j) => OffIs(d, l, j)}
<1>1. 1 \in S BY OffFirst
<1>2. ASSUME NEW j \in Files, j < NFiles, j \in S PROVE j + 1 \in S
  <2>0. j + 1 \in Files BY <1>2, XdfSearchAssumption DEF Files
  <2>1. SUFFICES ASSUME OnChain(l, j + 1) PROVE OffIs(d, l, j + 1) BY <2>0
  <2>2. OnChain(l, j) /\ l[j] # NoFile BY <2>1, OnChainNext
  <2>3. OffIs(d, l, j) BY <1>2, <2>2
  <2> HIDE DEF S
  <2> DEFINE F == Froms(d, l)[j]
             G == Froms(d, l)[j + 1]
             s == d[j]
             o == Off(d, l, j)
             p == Off(d, l, j + 1)
             x == (j - 1) * MaxDirPages
             y == ((j + 1) - 1) * MaxDirPages
             P == Pages(d, l)
  <2>4. F = s \o G BY <2>2, FromsNext
  <2>5. s \in Seq(Leaf) /\ Len(s) \in Nat /\ Len(s) <= MaxDirPages BY DirIs
  <2>6. G \in Seq(Leaf) BY <2>0, FromsAre
  <2>7. p = o + Len(s)
    <3>1. Off(d, l, j + 1) = Off(d, l, j) + Len(d[j]) BY <2>2, OffNext
    <3> QED BY <3>1
  <2>8. x \in Int /\ y = x + MaxDirPages BY Times DEF Files
  <2>9. o \in Nat /\ o <= x /\ (\A k \in 1 .. Len(F) : P[o + k] = F[k]) BY <2>3 DEF OffIs
  <2> HIDE DEF F, G, s, o, p, x, y, P
  <2>10. p \in Nat /\ p <= y BY <2>5, <2>7, <2>8, <2>9, XdfSearchAssumption
  <2>11. ASSUME NEW k \in 1 .. Len(G) PROVE P[p + k] = G[k]
    <3>1. Len(s) + k \in 1 .. Len(F) /\ F[Len(s) + k] = G[k] BY <2>4, <2>5, <2>6, Joined
    <3>2. P[o + (Len(s) + k)] = F[Len(s) + k] BY <2>9, <3>1
    <3>3. Len(G) \in Nat BY <2>6
    <3>4. o + (Len(s) + k) = p + k BY <2>5, <2>7, <2>9, <3>3
    <3> QED BY <3>1, <3>2, <3>4
  <2>12. p \in Nat /\ p <= y /\ (\A k \in 1 .. Len(G) : P[p + k] = G[k]) BY <2>10, <2>11
  <2> QED BY <2>12 DEF OffIs, G, p, y, P
<1> HIDE DEF S
<1>3. i \in S BY <1>1, <1>2, FromTheFirst
<1> QED BY <1>3 DEF S

LEMMA Front ==
  ASSUME NEW d, NEW l, Dirs(d), Links(l), NEW i \in Files
  PROVE  /\ Len(d[i]) <= Len(Froms(d, l)[i])
         /\ \A k \in 1 .. Len(d[i]) : Froms(d, l)[i][k] = d[i][k]
<1>1. d[i] \in Seq(Leaf) /\ Len(d[i]) \in Nat BY DirIs
<1>2. CASE l[i] = NoFile
  <2>1. Froms(d, l)[i] = d[i] BY <1>2, FromsLast
  <2> QED BY <1>1, <2>1
<1>3. CASE l[i] # NoFile
  <2> DEFINE s == d[i]
             G == Froms(d, l)[i + 1]
  <2>1. Froms(d, l)[i] = s \o G BY <1>3, FromsNext
  <2>2. i + 1 \in Files BY <1>3, LinkTo
  <2>3. G \in Seq(Leaf) BY <2>2, FromsAre
  <2>4. s \in Seq(Leaf) BY <1>1
  <2> HIDE DEF s, G
  <2>5. /\ Len(s) \in Nat /\ Len(G) \in Nat /\ Len(s \o G) = Len(s) + Len(G)
        /\ \A k \in 1 .. Len(s) : (s \o G)[k] = s[k]
    BY <2>3, <2>4, Joined
  <2>6. Len(s) <= Len(s \o G) BY <2>5
  <2> QED BY <2>1, <2>5, <2>6 DEF s
<1> QED BY <1>2, <1>3

LEMMA OffEnd ==
  ASSUME NEW d, NEW l, Dirs(d), Links(l), NEW i \in Files
  PROVE  Off(d, l, i) + Len(Froms(d, l)[i]) = Len(Pages(d, l))
<1> DEFINE a == Len(Froms(d, l)[1])
           b == Len(Froms(d, l)[i])
<1>1. 1 \in Files BY OffFirst
<1>2. a \in Nat /\ b \in Nat BY <1>1, FromsAre
<1>3. Off(d, l, i) = a - b /\ Len(Pages(d, l)) = a BY DEF Off, Pages
<1> HIDE DEF a, b
<1>4. (a - b) + b = a BY <1>2
<1> QED BY <1>3, <1>4 DEF b

LEMMA PagesAre ==
  ASSUME NEW d, NEW l, Dirs(d), Links(l)
  PROVE  Pages(d, l) \in Seq(Leaf) /\ Len(Pages(d, l)) \in Nat
BY OffFirst, FromsAre DEF Pages

LEMMA Fits ==
  ASSUME NEW i \in Files, NEW o \in Nat, NEW j \in Nat,
         o <= (i - 1) * MaxDirPages, j <= MaxDirPages
  PROVE  o + j <= MaxPageNo
<1> USE XdfSearchAssumption
<1> DEFINE x == (i - 1) * MaxDirPages
           z == (NFiles - i) * MaxDirPages
<1>1. NFiles \in Int /\ i \in Int /\ i <= NFiles BY DEF Files
<1>2. x \in Int BY <1>1
<1>3. z \in Int /\ 0 <= z BY <1>1
<1>4. MaxPageNo = x + MaxDirPages + z BY <1>1 DEF MaxPageNo
<1> HIDE DEF x, z
<1>5. o <= x BY DEF x
<1> QED BY <1>2, <1>3, <1>4, <1>5

(* The page at a spot is the page of that number.                          *)
LEMMA SpotPage ==
  ASSUME NEW d, NEW l, Dirs(d), Links(l), NEW p, NEW n, Spot(d, l, p, n)
  PROVE  /\ n \in 1 .. Len(Pages(d, l))
         /\ n \in 1 .. MaxPageNo
         /\ Pages(d, l)[n] = d[p[1]][p[2]]
         /\ p = <<p[1], p[2]>> /\ p[1] \in Files /\ p[2] \in 1 .. Len(d[p[1]])
<1> DEFINE i == p[1]
           j == p[2]
           o == Off(d, l, p[1])
           F == Froms(d, l)[p[1]]
           P == Pages(d, l)
           s == d[p[1]]
<1>1. p = <<i, j>> /\ i \in Files /\ j \in 1 .. Len(s) /\ n = o + j BY DEF Spot
<1>2. OffIs(d, l, i) BY <1>1, OffFacts DEF Spot
<1>3. o \in Nat /\ o <= (i - 1) * MaxDirPages /\ (\A k \in 1 .. Len(F) : P[o + k] = F[k])
  BY <1>2 DEF OffIs
<1>4. Len(s) <= Len(F) /\ (\A k \in 1 .. Len(s) : F[k] = s[k]) BY <1>1, Front
<1>5. o + Len(F) = Len(P) BY <1>1, OffEnd
<1>6. Len(s) \in Nat /\ Len(s) <= MaxDirPages BY <1>1, DirIs
<1>7. Len(F) \in Nat BY <1>1, FromsAre
<1>8. o + j <= MaxPageNo
  <2>1. j \in Nat /\ j <= MaxDirPages BY <1>1, <1>6, XdfSearchAssumption
  <2> HIDE DEF i, j, o
  <2> QED BY <1>1, <1>3, <2>1, Fits
<1> HIDE DEF i, j, o, F, P, s
<1>9. j \in 1 .. Len(F) BY <1>1, <1>4, <1>6, <1>7
<1>10. P[n] = s[j] BY <1>1, <1>3, <1>4, <1>9
<1>11. n \in 1 .. Len(P) BY <1>1, <1>3, <1>5, <1>7, <1>9
<1>12. MaxPageNo \in Nat BY XdfSearchAssumption DEF MaxPageNo
<1>13. n \in 1 .. MaxPageNo BY <1>1, <1>3, <1>6, <1>8, <1>12
<1> QED BY <1>1, <1>10, <1>11, <1>13 DEF i, j, P, s

(* Every page of the chain has a spot.                                     *)
LEMMA SpotExists ==
  ASSUME NEW d, NEW l, Dirs(d), Links(l), NEW n \in 1 .. Len(Pages(d, l))
  PROVE  \E p : Spot(d, l, p, n)
<1> DEFINE S == {i \in Files : OnChain(l, i) /\ n > Off(d, l, i) => \E p : Spot(d, l, p, n)}
<1>0. Len(Pages(d, l)) \in Nat BY PagesAre
<1>1. ASSUME NEW i \in Files, i < NFiles => i + 1 \in S PROVE i \in S
  <2> SUFFICES ASSUME OnChain(l, i), n > Off(d, l, i) PROVE \E p : Spot(d, l, p, n) OBVIOUS
  <2> DEFINE o == Off(d, l, i)
             s == d[i]
  <2>1. Len(s) \in Nat BY DirIs
  <2>2. o \in Nat BY OffFacts DEF OffIs
  <2>3. CASE n <= o + Len(s)
    <3> DEFINE k == n - o
    <3>1. k \in 1 .. Len(s) /\ n = o + k
      <4>1. n \in Nat /\ n > o BY <1>0
      <4> HIDE DEF o, s
      <4> QED BY <2>1, <2>2, <2>3, <4>1
    <3> HIDE DEF k
    <3>2. k \in Nat BY <2>1, <3>1
    <3>3. Spot(d, l, <<i, k>>, n) BY <3>1, <3>2 DEF Spot
    <3> QED BY <3>3
  <2>4. CASE ~(n <= o + Len(s))
    <3> DEFINE F == Froms(d, l)[i]
               P == Pages(d, l)
    <3>1. o + Len(F) = Len(P) BY OffEnd
    <3>2. Len(F) \in Nat BY FromsAre
    <3>3. l[i] # NoFile
      <4> SUFFICES ASSUME l[i] = NoFile PROVE FALSE OBVIOUS
      <4>1. F = s BY FromsLast
      <4>2. n \in 1 .. Len(P) /\ Len(P) \in Nat BY <1>0
      <4> HIDE DEF F, P, s, o
      <4> QED BY <2>1, <2>2, <2>4, <3>1, <4>1, <4>2
    <3>4. i + 1 \in S /\ i + 1 \in Files
      <4> HIDE DEF S
      <4>1. i < NFiles /\ i + 1 \in Files BY <3>3, LinkTo
      <4> QED BY <1>1, <4>1
    <3>5. OnChain(l, i + 1)
      <4>1. l[i] = i + 1 BY <3>3, LinkTo
      <4>2. i \in Int BY DEF Files
      <4> QED BY <4>1, <4>2 DEF OnChain
    <3>6. Off(d, l, i + 1) = o + Len(s) BY <3>3, OffNext
    <3>7. n > Off(d, l, i + 1)
      <4>1. n \in Nat BY <1>0
      <4> HIDE DEF o, s
      <4> QED BY <2>1, <2>2, <2>4, <3>6, <4>1
    <3> QED BY <3>4, <3>5, <3>7
  <2> QED BY <2>3, <2>4
<1> HIDE DEF S
<1>2. 1 \in S BY <1>1, OffFirst, FromTheLast
<1>3. OnChain(l, 1) /\ n > Off(d, l, 1) BY <1>0, OffFirst
<1> QED BY <1>2, <1>3 DEF S

LEMMA PagesBound ==
  ASSUME NEW d, NEW l, Dirs(d), Links(l)
  PROVE  Len(Pages(d, l)) \in Nat /\ Len(Pages(d, l)) <= MaxPageNo
<1> DEFINE n == Len(Pages(d, l))
<1>1. n \in Nat BY PagesAre
<1>2. MaxPageNo \in Nat BY XdfSearchAssumption DEF MaxPageNo
<1>3. CASE n = 0 BY <1>2, <1>3
<1>4. CASE n # 0
  <2>1. n \in 1 .. Len(Pages(d, l)) BY <1>1, <1>4
  <2>2. PICK p : Spot(d, l, p, n) BY <2>1, SpotExists
  <2>3. n \in 1 .. MaxPageNo BY <2>2, SpotPage
  <2> QED BY <1>1, <2>3
<1> QED BY <1>1, <1>3, <1>4

(* Files behind the first have their pages behind those of the first.      *)
LEMMA OffBehind ==
  ASSUME NEW d, NEW l, Dirs(d), Links(l), NEW i \in Files, OnChain(l, i), i # 1
  PROVE  Len(d[1]) <= Off(d, l, i)
<1> DEFINE S == {j \in Files : OnChain(l, j) /\ j # 1 => Len(d[1]) <= Off(d, l, j)}
<1>1. 1 \in S BY OffFirst
<1>2. ASSUME NEW j \in Files, j < NFiles, j \in S PROVE j + 1 \in S
  <2>0. j + 1 \in Files BY <1>2, XdfSearchAssumption DEF Files
  <2>1. SUFFICES ASSUME OnChain(l, j + 1) PROVE Len(d[1]) <= Off(d, l, j + 1) BY <2>0
  <2>2. OnChain(l, j) /\ l[j] # NoFile BY <2>1, OnChainNext
  <2> DEFINE o == Off(d, l, j)
             m == Len(d[j])
             q == Len(d[1])
             p == Off(d, l, j + 1)
  <2>3. p = o + m BY <2>2, OffNext
  <2>4. m \in Nat BY DirIs
  <2>5. o \in Nat BY <2>2, OffFacts DEF OffIs
  <2>6. q \in Nat BY OffFirst, DirIs
  <2>7. CASE j = 1
    <3>1. m = q BY <2>7
    <3> HIDE DEF o, m, q, p
    <3>2. q <= p BY <2>3, <2>5, <2>6, <3>1
    <3> QED BY <3>2 DEF q, p
  <2>8. CASE j # 1
    <3>1. q <= o BY <1>2, <2>2, <2>8
    <3> HIDE DEF o, m, q, p
    <3>2. q <= p BY <2>3, <2>4, <2>5, <2>6, <3>1
    <3> QED BY <3>2 DEF q, p
  <2> QED BY <2>7, <2>8
<1> HIDE DEF S
<1>3. i \in S BY <1>1, <1>2, FromTheFirst
<1> QED BY <1>3 DEF S

(* The first pages are those of file 1, and the pages of file 1 are those. *)
LEMMA SpotFirst ==
  ASSUME NEW d, NEW l, Dirs(d), Links(l), NEW n \in 1 .. Len(d[1])
  PROVE  Spot(d, l, <<1, n>>, n)
<1>1. 1 \in Files /\ OnChain(l, 1) /\ Off(d, l, 1) = 0 BY OffFirst
<1>2. Len(d[1]) \in Nat BY <1>1, DirIs
<1>3. n \in Nat /\ n = 0 + n BY <1>2
<1> QED BY <1>1, <1>3 DEF Spot

LEMMA SpotInFirst ==
  ASSUME NEW d, NEW l, Dirs(d), Links(l), NEW p, NEW n, Spot(d, l, p, n), n <= Len(d[1])
  PROVE  p[1] = 1 /\ p[2] = n
<1> DEFINE o == Off(d, l, p[1])
           q == Len(d[1])
<1>1. p[1] \in Files /\ p[2] \in Nat /\ p[2] >= 1 /\ n = o + p[2] /\ OnChain(l, p[1])
  BY DEF Spot
<1>2. q \in Nat BY OffFirst, DirIs
<1>3. o \in Nat BY <1>1, OffFacts DEF OffIs
<1>4. p[1] # 1 => q <= o BY <1>1, OffBehind
<1>5. p[1] = 1 => o = 0 BY OffFirst
<1>6. n <= q OBVIOUS
<1> HIDE DEF o, q
<1> QED BY <1>1, <1>2, <1>3, <1>4, <1>5, <1>6

(* The spot after a spot.                                                  *)
LEMMA SpotNextSame ==
  ASSUME NEW d, NEW l, Dirs(d), Links(l), NEW p, NEW n, Spot(d, l, p, n), p[2] < Len(d[p[1]])
  PROVE  Spot(d, l, <<p[1], p[2] + 1>>, n + 1)
<1> DEFINE o == Off(d, l, p[1])
           i == p[1]
           j == p[2]
           m == Len(d[p[1]])
<1>1. i \in Files /\ j \in Nat /\ j \in 1 .. m /\ n = o + j /\ OnChain(l, i) BY DEF Spot
<1>2. o \in Nat BY <1>1, OffFacts DEF OffIs
<1>3. m \in Nat BY <1>1, DirIs
<1>4. j < m OBVIOUS
<1> HIDE DEF o, i, j, m
<1>5. j + 1 \in Nat /\ j + 1 \in 1 .. m /\ n + 1 = o + (j + 1) BY <1>1, <1>2, <1>3, <1>4
<1> QED BY <1>1, <1>5 DEF Spot, o, i, j, m

LEMMA SpotNextFile ==
  ASSUME NEW d, NEW l, Dirs(d), Links(l), NEW p, NEW n, Spot(d, l, p, n),
         p[2] >= Len(d[p[1]])
  PROVE  /\ l[p[1]] # NoFile => Spot(d, l, <<l[p[1]], 1>>, n + 1)
         /\ l[p[1]] = NoFile => n = Len(Pages(d, l))
<1> DEFINE o == Off(d, l, p[1])
           i == p[1]
           j == p[2]
           m == Len(d[p[1]])
<1>1. i \in Files /\ j \in Nat /\ j \in 1 .. m /\ n = o + j /\ OnChain(l, i) BY DEF Spot
<1>2. o \in Nat BY <1>1, OffFacts DEF OffIs
<1>3. m \in Nat BY <1>1, DirIs
<1>4. j >= m OBVIOUS
<1>5. n = o + m BY <1>1, <1>3, <1>4
<1>6. CASE l[i] = NoFile
  <2>1. Froms(d, l)[i] = d[i] BY <1>1, <1>6, FromsLast
  <2>2. o + Len(Froms(d, l)[i]) = Len(Pages(d, l)) BY <1>1, OffEnd
  <2> QED BY <1>5, <1>6, <2>1, <2>2
<1>7. CASE l[i] # NoFile
  <2>1. l[i] = i + 1 /\ i + 1 \in Files BY <1>1, <1>7, LinkTo
  <2>2. i \in Int BY <1>1 DEF Files
  <2>3. OnChain(l, i + 1) BY <1>1, <2>1, <2>2 DEF OnChain
  <2>4. Off(d, l, i + 1) = o + m BY <1>1, <1>7, OffNext
  <2>5. 1 \in 1 .. Len(d[i + 1])
    <3> DEFINE t == Len(d[i + 1])
    <3>1. t \in Nat /\ 1 <= t BY <2>1, DirIs
    <3> HIDE DEF t
    <3>2. 1 \in 1 .. t BY <3>1
    <3> QED BY <3>2 DEF t
  <2> HIDE DEF o, i, j, m
  <2> DEFINE k == i + 1
  <2>6. n + 1 = Off(d, l, k) + 1 BY <1>5, <2>4
  <2>7. k \in Files /\ OnChain(l, k) /\ 1 \in 1 .. Len(d[k]) BY <2>1, <2>3, <2>5
  <2> HIDE DEF k
  <2>8. Spot(d, l, <<k, 1>>, n + 1) BY <2>6, <2>7 DEF Spot
  <2> QED BY <1>7, <2>1, <2>8 DEF k, i
<1> QED BY <1>6, <1>7

(***************************************************************************)
(* What changes behind a spot, and files that only grow, leave it where it *)
(* is.                                                                     *)
(***************************************************************************)
SameBefore(d, e, i) == \A j \in Files : j < i => Len(e[j]) = Len(d[j])

LEMMA SameOff ==
  ASSUME NEW d, NEW l, NEW e, NEW m, Dirs(d) /\ Dirs(e) /\ Links(l) /\ Links(m),
         NEW i \in Files, OnChain(l, i) /\ OnChain(m, i) /\ SameBefore(d, e, i)
  PROVE  Off(d, l, i) = Off(e, m, i)
<1> DEFINE S == {j \in Files : OnChain(l, j) /\ OnChain(m, j) /\ SameBefore(d, e, j)
                                  => Off(d, l, j) = Off(e, m, j)}
<1>1. 1 \in S BY OffFirst
<1>2. ASSUME NEW j \in Files, j < NFiles, j \in S PROVE j + 1 \in S
  <2>0. j + 1 \in Files BY <1>2, XdfSearchAssumption DEF Files
  <2>1. SUFFICES ASSUME OnChain(l, j + 1), OnChain(m, j + 1), SameBefore(d, e, j + 1)
                 PROVE  Off(d, l, j + 1) = Off(e, m, j + 1) BY <2>0
  <2>2. OnChain(l, j) /\ l[j] # NoFile /\ OnChain(m, j) /\ m[j] # NoFile BY <2>1, OnChainNext
  <2>3. SameBefore(d, e, j) /\ Len(e[j]) = Len(d[j]) BY <2>1 DEF SameBefore, Files
  <2>4. Off(d, l, j) = Off(e, m, j) BY <1>2, <2>2, <2>3
  <2>5. Off(d, l, j + 1) = Off(d, l, j) + Len(d[j]) BY <2>2, OffNext
  <2>6. Off(e, m, j + 1) = Off(e, m, j) + Len(e[j]) BY <2>2, OffNext
  <2> QED BY <2>3, <2>4, <2>5, <2>6
<1> HIDE DEF S
<1>3. i \in S BY <1>1, <1>2, FromTheFirst
<1> QED BY <1>3 DEF S

LEMMA SameSpot ==
  ASSUME NEW d, NEW l, NEW e, NEW m, Dirs(d) /\ Dirs(e) /\ Links(l) /\ Links(m),
         NEW p, NEW n, Spot(d, l, p, n),
         OnChain(m, p[1]) /\ SameBefore(d, e, p[1]) /\ Len(d[p[1]]) <= Len(e[p[1]])
  PROVE  Spot(e, m, p, n)
<1>1. p \in Files \X Nat /\ p[1] \in Files /\ OnChain(l, p[1]) /\ p[2] \in 1 .. Len(d[p[1]])
      /\ n = Off(d, l, p[1]) + p[2]
  BY DEF Spot
<1>2. Off(d, l, p[1]) = Off(e, m, p[1]) BY <1>1, SameOff
<1>3. p[2] \in 1 .. Len(e[p[1]])
  <2> DEFINE a == Len(d[p[1]])
             b == Len(e[p[1]])
  <2>1. a \in Nat /\ b \in Nat BY <1>1, DirIs
  <2>2. a <= b /\ p[2] \in 1 .. a BY <1>1
  <2> HIDE DEF a, b
  <2>3. p[2] \in 1 .. b BY <2>1, <2>2
  <2> QED BY <2>3 DEF b
<1> QED BY <1>1, <1>2, <1>3 DEF Spot

(***************************************************************************)
(* Walking the chain.                                                      *)
(***************************************************************************)
Shaped(d, l, a) ==
  /\ Dirs(d)
  /\ Links(l)
  /\ a \in [Files -> Int]
  /\ \A i \in Files : a[i] = NoFile \/ a[i] = l[i]

Shape == Shaped(dir, link, after)

IsPage(p) == p \in Files \X Nat /\ p[2] \in 1 .. NPages(p[1])

LEMMA UpTo ==
  ASSUME NEW n \in Nat, NEW S, 0 \in S, \A k \in 0 .. n : k < n /\ k \in S => k + 1 \in S
  PROVE  \A k \in 0 .. n : k \in S
<1> DEFINE R == {k \in Nat : k <= n /\ k \notin S}
<1>1. R = {}
  <2> SUFFICES ASSUME R # {} PROVE FALSE OBVIOUS
  <2>1. PICK k \in R : \A j \in R : k <= j BY Walk!SmallestNumber
  <2>2. k # 0 BY <2>1
  <2>3. k - 1 \in 0 .. n /\ k - 1 < n /\ k - 1 \notin R BY <2>1, <2>2
  <2>4. k - 1 \in S BY <2>3
  <2>5. k - 1 + 1 = k BY <2>1
  <2> QED BY <2>1, <2>3, <2>4, <2>5
<1> QED BY <1>1

LEMMA NextPageIs ==
  ASSUME NEW p, NEW k
  PROVE  PageBehind([dir |-> dir, after |-> after], p, k) = NextPage(p)
BY DEF PageBehind, NextPage, NPages

(* The pages 0, 1, ... d places ahead of p.                                *)
Steps(f, p, d) == f = [k \in 0 .. d |-> IF k = 0 THEN p ELSE NextPage(f[k - 1])]

LEMMA AheadIs ==
  ASSUME NEW p, NEW d \in Nat
  PROVE  \E f : Steps(f, p, d) /\ Ahead(p, d) = f[d]
<1> DEFINE c == [dir |-> dir, after |-> after]
           g == CHOOSE f : Steps(f, p, d)
<1>1. PICK f : Walk!TurnsOf(f, c, p, d) BY Walk!TurnsExist
<1>2. f = [k \in 0 .. d |-> IF k = 0 THEN p ELSE PageBehind(c, f[k - 1], k)]
  BY <1>1 DEF Walk!TurnsOf
<1>3. \A x, k : PageBehind(c, x, k) = NextPage(x) BY NextPageIs
<1> HIDE DEF c
<1>4. Steps(f, p, d) BY <1>2, <1>3 DEF Steps
<1>5. Steps(g, p, d) BY <1>4
<1>6. Ahead(p, d) = g[d] BY DEF Ahead, Steps
<1> QED BY <1>5, <1>6

LEMMA NextPageSpot ==
  ASSUME Shape, ChainIsWhole, NEW p, NEW n, Spot(dir, link, p, n)
  PROVE  IF n < Len(AllPages) THEN Spot(dir, link, NextPage(p), n + 1) ELSE NextPage(p) = NULL
<1>1. Dirs(dir) /\ Links(link) BY DEF Shape, Shaped
<1>2. AllPages = Pages(dir, link) BY AllPagesAre
<1>3. /\ p = <<p[1], p[2]>> /\ p[1] \in Files
      /\ p[2] \in 1 .. Len(dir[p[1]])
      /\ n \in 1 .. Len(AllPages)
  BY <1>1, <1>2, SpotPage
<1>4. p # NULL
  <2>1. p[1] # 0 BY <1>3 DEF Files
  <2> QED BY <2>1 DEF NULL
<1>5. after[p[1]] = link[p[1]] BY <1>3 DEF ChainIsWhole
<1>6. CASE p[2] < NPages(p[1])
  <2>1. NextPage(p) = <<p[1], p[2] + 1>> BY <1>4, <1>6 DEF NextPage
  <2>2. Spot(dir, link, NextPage(p), n + 1) BY <1>1, <1>6, <2>1, SpotNextSame DEF NPages
  <2>3. n + 1 \in 1 .. Len(AllPages) BY <1>1, <1>2, <2>2, SpotPage
  <2>4. Len(AllPages) \in Nat BY <1>1, <1>2, PagesAre
  <2>5. n < Len(AllPages) BY <1>3, <2>3, <2>4
  <2> QED BY <2>2, <2>5
<1>7. CASE ~(p[2] < NPages(p[1]))
  <2>1. p[2] >= Len(dir[p[1]])
    <3>1. Len(dir[p[1]]) \in Nat BY <1>1, <1>3, DirIs
    <3> QED BY <1>3, <1>7, <3>1 DEF NPages
  <2>2. CASE link[p[1]] = NoFile
    <3>1. n = Len(AllPages) BY <1>1, <1>2, <2>1, <2>2, SpotNextFile
    <3>2. NextPage(p) = NULL BY <1>4, <1>5, <1>7, <2>2 DEF NextPage
    <3>3. Len(AllPages) \in Nat BY <1>1, <1>2, PagesAre
    <3> QED BY <3>1, <3>2, <3>3
  <2>3. CASE link[p[1]] # NoFile
    <3>1. NextPage(p) = <<link[p[1]], 1>> BY <1>4, <1>5, <1>7, <2>3 DEF NextPage
    <3>2. Spot(dir, link, NextPage(p), n + 1) BY <1>1, <2>1, <2>3, <3>1, SpotNextFile
    <3>3. n + 1 \in 1 .. Len(AllPages) BY <1>1, <1>2, <3>2, SpotPage
    <3>4. Len(AllPages) \in Nat BY <1>1, <1>2, PagesAre
    <3>5. n < Len(AllPages) BY <1>3, <3>3, <3>4
    <3> QED BY <3>2, <3>5
  <2> QED BY <2>2, <2>3
<1> QED BY <1>6, <1>7

(* In a chain that is whole, the page k places ahead of page number n is   *)
(* page number n + k, and there is none when there are not so many pages.  *)
LEMMA AheadSpot ==
  ASSUME Shape, ChainIsWhole, NEW p, NEW n, Spot(dir, link, p, n), NEW k \in Nat
  PROVE  IF n + k <= Len(AllPages) THEN Spot(dir, link, Ahead(p, k), n + k) ELSE Ahead(p, k) = NULL
<1>1. Dirs(dir) /\ Links(link) BY DEF Shape, Shaped
<1>2. AllPages = Pages(dir, link) BY AllPagesAre
<1>3. Len(AllPages) \in Nat BY <1>1, <1>2, PagesAre
<1>4. n \in Nat /\ n <= Len(AllPages)
  <2>1. n \in 1 .. Len(AllPages) BY <1>1, <1>2, SpotPage
  <2> QED BY <1>3, <2>1
<1>5. PICK f : Steps(f, p, k) /\ Ahead(p, k) = f[k] BY AheadIs
<1> DEFINE Is(j) == IF n + j <= Len(AllPages) THEN Spot(dir, link, f[j], n + j) ELSE f[j] = NULL
           S == {j \in 0 .. k : Is(j)}
<1>6. 0 \in S
  <2>1. f[0] = p BY <1>5 DEF Steps
  <2>2. n + 0 = n BY <1>4
  <2> QED BY <1>4, <2>1, <2>2
<1>7. ASSUME NEW j \in 0 .. k, j < k, j \in S PROVE j + 1 \in S
  <2>1. j + 1 \in 0 .. k BY <1>7
  <2>2. f[j + 1] = NextPage(f[j])
    <3>1. j + 1 # 0 /\ (j + 1) - 1 = j OBVIOUS
    <3> QED BY <1>5, <2>1, <3>1 DEF Steps
  <2>3. Is(j) BY <1>7
  <2>4. CASE n + j <= Len(AllPages)
    <3>1. Spot(dir, link, f[j], n + j) BY <2>3, <2>4
    <3>2. IF n + j < Len(AllPages) THEN Spot(dir, link, NextPage(f[j]), n + j + 1)
                                   ELSE NextPage(f[j]) = NULL
      BY <3>1, NextPageSpot
    <3>3. n + (j + 1) = n + j + 1 /\ (n + j < Len(AllPages) <=> n + (j + 1) <= Len(AllPages))
      BY <1>3, <1>4
    <3>4. Is(j + 1) BY <2>2, <3>2, <3>3
    <3> QED BY <2>1, <3>4
  <2>5. CASE ~(n + j <= Len(AllPages))
    <3>1. f[j] = NULL BY <2>3, <2>5
    <3>2. f[j + 1] = NULL BY <2>2, <3>1 DEF NextPage
    <3>3. ~(n + (j + 1) <= Len(AllPages)) BY <1>3, <1>4, <2>5
    <3> QED BY <2>1, <3>2, <3>3
  <2> QED BY <2>4, <2>5
<1> HIDE DEF S
<1>8. k \in S BY <1>6, <1>7, UpTo
<1> QED BY <1>5, <1>8 DEF S

(* Whatever the chain, the pages ahead are pages.                          *)
LEMMA AheadPage ==
  ASSUME Shape, NEW p, IsPage(p), NEW k \in Nat
  PROVE  Ahead(p, k) = NULL \/ IsPage(Ahead(p, k))
<1>1. Dirs(dir) /\ Links(link) BY DEF Shape, Shaped
<1>2. PICK f : Steps(f, p, k) /\ Ahead(p, k) = f[k] BY AheadIs
<1> DEFINE S == {j \in 0 .. k : f[j] = NULL \/ IsPage(f[j])}
<1>3. 0 \in S
  <2>1. f[0] = p BY <1>2 DEF Steps
  <2> QED BY <2>1
<1>4. ASSUME NEW j \in 0 .. k, j < k, j \in S PROVE j + 1 \in S
  <2>1. j + 1 \in 0 .. k BY <1>4
  <2> DEFINE q == f[j]
  <2>2. f[j + 1] = NextPage(q)
    <3>1. j + 1 # 0 /\ (j + 1) - 1 = j OBVIOUS
    <3> QED BY <1>2, <2>1, <3>1 DEF Steps
  <2>3. q = NULL \/ IsPage(q) BY <1>4
  <2> HIDE DEF q
  <2>4. CASE q = NULL BY <2>1, <2>2, <2>4 DEF NextPage
  <2>5. CASE q # NULL
    <3>1. q \in Files \X Nat /\ q[1] \in Files /\ q[2] \in 1 .. NPages(q[1]) BY <2>3, <2>5 DEF IsPage
    <3>2. NPages(q[1]) \in Nat BY <1>1, <3>1, DirIs DEF NPages
    <3>3. CASE q[2] < NPages(q[1])
      <4>1. NextPage(q) = <<q[1], q[2] + 1>> BY <2>5, <3>3 DEF NextPage
      <4>2. q[2] + 1 \in Nat /\ q[2] + 1 \in 1 .. NPages(q[1]) BY <3>1, <3>2, <3>3
      <4>3. IsPage(NextPage(q)) BY <3>1, <4>1, <4>2 DEF IsPage
      <4> QED BY <2>1, <2>2, <4>3
    <3>4. CASE ~(q[2] < NPages(q[1])) /\ after[q[1]] = NoFile
      <4>1. NextPage(q) = NULL BY <2>5, <3>4 DEF NextPage
      <4> QED BY <2>1, <2>2, <4>1
    <3>5. CASE ~(q[2] < NPages(q[1])) /\ after[q[1]] # NoFile
      <4> DEFINE i == after[q[1]]
      <4>1. NextPage(q) = <<i, 1>> BY <2>5, <3>5 DEF NextPage
      <4>2. i = link[q[1]] /\ link[q[1]] # NoFile BY <3>1, <3>5 DEF Shape, Shaped
      <4>3. i \in Files BY <1>1, <3>1, <4>2, LinkTo
      <4>4. NPages(i) \in Nat /\ 1 <= NPages(i) BY <1>1, <4>3, DirIs DEF NPages
      <4> HIDE DEF i
      <4>5. 1 \in Nat /\ 1 \in 1 .. NPages(i) BY <4>4
      <4>6. IsPage(NextPage(q)) BY <4>1, <4>3, <4>5 DEF IsPage
      <4> QED BY <2>1, <2>2, <4>6
    <3> QED BY <3>3, <3>4, <3>5
  <2> QED BY <2>4, <2>5
<1> HIDE DEF S
<1>5. k \in S BY <1>3, <1>4, UpTo
<1> QED BY <1>2, <1>5 DEF S

LEMMA SmallestIs ==
  ASSUME NEW S \in SUBSET Nat, S # {}
  PROVE  Smallest(S) \in S /\ \A y \in S : Smallest(S) <= y
<1>1. \E x \in S : \A y \in S : x <= y BY Walk!SmallestNumber
<1> QED BY <1>1 DEF Smallest

LEMMA SpotIsNoNull ==
  ASSUME Shape, NEW p, NEW n, Spot(dir, link, p, n)
  PROVE  p # NULL /\ IsPage(p)
<1>1. p \in Files \X Nat /\ p[2] \in 1 .. Len(dir[p[1]]) BY DEF Spot
<1>2. p[1] # 0 BY <1>1 DEF Files
<1> QED BY <1>1, <1>2 DEF NULL, IsPage, NPages

LEMMA ChainFacts ==
  ASSUME Shape
  PROVE  /\ Dirs(dir) /\ Links(link)
         /\ AllPages = Pages(dir, link)
         /\ AllPages \in Seq(Leaf) /\ Len(AllPages) \in Nat /\ Len(AllPages) <= MaxPageNo
<1>1. Dirs(dir) /\ Links(link) BY DEF Shape, Shaped
<1>2. AllPages = Pages(dir, link) BY AllPagesAre
<1> QED BY <1>1, <1>2, PagesAre, PagesBound

LEMMA SpotIn ==
  ASSUME Shape, NEW p, NEW n, Spot(dir, link, p, n)
  PROVE  n \in Nat /\ n \in 1 .. Len(AllPages) /\ AllPages[n] = Page(p)
<1>1. n \in 1 .. Len(AllPages) /\ AllPages[n] = dir[p[1]][p[2]] BY ChainFacts, SpotPage
<1>2. n \in Nat BY <1>1, ChainFacts
<1> QED BY <1>1, <1>2 DEF Page

LEMMA FollowingIs ==
  ASSUME Shape, ChainIsWhole, NEW p, NEW n, Spot(dir, link, p, n)
  PROVE  Following(p) = Len(AllPages) - n /\ Following(p) \in Nat
<1> DEFINE N == Len(AllPages)
           m == N - n
<1>1. N \in Nat /\ N <= MaxPageNo /\ n \in 1 .. N BY ChainFacts, SpotIn
<1>2. MaxPageNo \in Nat BY XdfSearchAssumption DEF MaxPageNo
<1>3. ASSUME NEW k \in 1 .. MaxPageNo PROVE Ahead(p, k) # NULL <=> k \in 1 .. m
  <2>1. k \in Nat BY <1>2
  <2>2. IF n + k <= N THEN Spot(dir, link, Ahead(p, k), n + k) ELSE Ahead(p, k) = NULL
    BY <2>1, AheadSpot
  <2>3. n + k <= N => Ahead(p, k) # NULL BY <2>2, SpotIsNoNull
  <2> HIDE DEF N
  <2>4. n + k <= N <=> k \in 1 .. m BY <1>1, <1>2
  <2> QED BY <2>2, <2>3, <2>4
<1> HIDE DEF N
<1>4. m \in Nat /\ m <= MaxPageNo BY <1>1, <1>2
<1> HIDE DEF m
<1>5. {k \in 1 .. MaxPageNo : Ahead(p, k) # NULL} = 1 .. m BY <1>2, <1>3, <1>4
<1>6. Cardinality(1 .. m) = m
  <2>1. Cardinality(1 .. m) = IF 1 > m THEN 0 ELSE m - 1 + 1 BY <1>4, FS_Interval
  <2> QED BY <1>4, <2>1
<1> QED BY <1>4, <1>5, <1>6 DEF Following, m, N

(***************************************************************************)
(* Handles and places: every handle is a place, its own; every place has a *)
(* handle, the same when a handle has room for its page number.            *)
(***************************************************************************)
LEMMA PlaceIs ==
  ASSUME NEW g \in Places
  PROVE  /\ g = <<g[1], g[2]>> /\ g[1] \in Nat /\ g[1] >= 1 /\ g[1] <= MaxPageNo
         /\ g[2] \in Nat /\ g[2] >= 1 /\ g[2] <= EntriesPerPage
         /\ g # Lost /\ g # ERR_NOT_FOUND /\ g # ERR_NO_POS /\ g # Undefined /\ g # Start
<1>1. MaxPageNo \in Nat /\ EntriesPerPage \in Nat BY XdfSearchAssumption DEF MaxPageNo
<1>2. g \in (1 .. MaxPageNo) \X (1 .. EntriesPerPage) BY DEF Places
<1> QED BY <1>1, <1>2 DEF Lost, ERR_NOT_FOUND, ERR_NO_POS, Undefined, Start

LEMMA HandleIsAPlace == Handles \subseteq Places
BY DEF Handles

LEMMA Cut ==
  ASSUME NEW n \in Nat, n >= 1
  PROVE  /\ ((n - 1) % HandlePages) + 1 \in 1 .. n
         /\ ((n - 1) % HandlePages) + 1 <= HandlePages
         /\ n <= HandlePages => ((n - 1) % HandlePages) + 1 = n
<1> DEFINE a == n - 1
           b == HandlePages
<1>1. a \in Nat /\ b \in Nat /\ b > 0 BY XdfSearchAssumption
<1> HIDE DEF a, b
<1>2. a % b \in Nat /\ a % b < b /\ a % b <= a /\ (a < b => a % b = a) BY <1>1
<1> QED BY <1>1, <1>2 DEF a, b

LEMMA HandleOfIs ==
  ASSUME NEW g \in Places
  PROVE  /\ HandleOf(g) \in Handles
         /\ g[1] <= HandlePages => HandleOf(g) = g
<1> DEFINE n == ((g[1] - 1) % HandlePages) + 1
<1>1. g = <<g[1], g[2]>> /\ g[1] \in Nat /\ g[1] >= 1 /\ g[1] <= MaxPageNo BY PlaceIs
<1>2. n \in 1 .. g[1] /\ n <= HandlePages /\ (g[1] <= HandlePages => n = g[1]) BY <1>1, Cut
<1>3. HandleOf(g) = <<n, g[2]>> BY DEF HandleOf
<1>4. MaxPageNo \in Nat BY XdfSearchAssumption DEF MaxPageNo
<1> HIDE DEF n
<1>5. n \in 1 .. MaxPageNo BY <1>1, <1>2, <1>4
<1>6. g[2] \in 1 .. EntriesPerPage BY DEF Places
<1>7. <<n, g[2]>> \in Places BY <1>5, <1>6 DEF Places
<1>8. HandleOf(g) \in Handles BY <1>2, <1>3, <1>7 DEF Handles
<1> QED BY <1>1, <1>2, <1>3, <1>8

(* A handle whose page is found names the page of its number.              *)
LEMMA PageOfSpot ==
  ASSUME Shape, ChainIsWhole, NEW h \in Places, PageOf(h) # NULL
  PROVE  Spot(dir, link, PageOf(h), h[1])
<1> USE ChainFacts
<1>0. 1 \in Files /\ NPages(1) \in Nat /\ 1 <= NPages(1) BY OffFirst, DirIs DEF NPages
<1>1. h[1] \in Nat /\ h[1] >= 1 BY XdfSearchAssumption DEF Places, MaxPageNo
<1>2. CASE h[1] <= NPages(1)
  <2>1. h[1] \in 1 .. Len(dir[1]) BY <1>0, <1>1, <1>2 DEF NPages
  <2>2. PageOf(h) = <<1, h[1]>> BY <1>2 DEF PageOf
  <2> QED BY <2>1, <2>2, SpotFirst
<1>3. CASE ~(h[1] <= NPages(1))
  <2> DEFINE k == h[1] - NPages(1)
  <2>1. PageOf(h) = Ahead(LastPage(1), k) BY <1>3 DEF PageOf
  <2>2. k \in Nat /\ NPages(1) + k = h[1] BY <1>0, <1>1, <1>3
  <2>3. NPages(1) \in 1 .. Len(dir[1])
    <3>1. NPages(1) \in 1 .. NPages(1) BY <1>0
    <3> QED BY <3>1 DEF NPages
  <2>4. Spot(dir, link, LastPage(1), NPages(1)) BY <2>3, SpotFirst DEF LastPage
  <2> HIDE DEF k
  <2>5. IF NPages(1) + k <= Len(AllPages) THEN Spot(dir, link, Ahead(LastPage(1), k), NPages(1) + k)
                                          ELSE Ahead(LastPage(1), k) = NULL
    BY <2>2, <2>4, AheadSpot
  <2> QED BY <2>1, <2>2, <2>5
<1> QED BY <1>2, <1>3

LEMMA PageOfPage ==
  ASSUME Shape, NEW h \in Places, PageOf(h) # NULL
  PROVE  IsPage(PageOf(h))
<1> USE ChainFacts
<1>0. 1 \in Files /\ NPages(1) \in Nat /\ 1 <= NPages(1) BY OffFirst, DirIs DEF NPages
<1>1. h[1] \in Nat /\ h[1] >= 1 BY XdfSearchAssumption DEF Places, MaxPageNo
<1>2. CASE h[1] <= NPages(1)
  <2>1. h[1] \in 1 .. NPages(1) BY <1>0, <1>1, <1>2
  <2>2. PageOf(h) = <<1, h[1]>> BY <1>2 DEF PageOf
  <2> QED BY <1>0, <1>1, <2>1, <2>2 DEF IsPage
<1>3. CASE ~(h[1] <= NPages(1))
  <2> DEFINE k == h[1] - NPages(1)
  <2>1. PageOf(h) = Ahead(LastPage(1), k) BY <1>3 DEF PageOf
  <2>2. k \in Nat BY <1>0, <1>1, <1>3
  <2>3. IsPage(LastPage(1)) BY <1>0 DEF IsPage, LastPage
  <2> HIDE DEF k
  <2> QED BY <2>1, <2>2, <2>3, AheadPage
<1> QED BY <1>2, <1>3

(***************************************************************************)
(* Positions: IsPosition says that c has the fields of one; At, that it is *)
(* the position behind place h of the chain.                               *)
(***************************************************************************)
Fields == {"page", "pageno", "at", "entry", "record", "target"}

IsPosition(c) == DOMAIN c = Fields /\ c = [f \in Fields |-> c[f]]

At(d, l, c, h) ==
  /\ Spot(d, l, c.page, h[1])
  /\ c.at = c.page
  /\ c.pageno = h[1]
  /\ h[2] \in Nat
  /\ c.record = h[2] + 1
  /\ c.entry = c.record

(***************************************************************************)
(* next_match, by parts: the matches on the page d pages further, and the  *)
(* pages with one.                                                         *)
(***************************************************************************)
Hits(c, d) == HitsOn(Ahead(c.page, d), FirstRecord(c, d), c.target)
Where(c)   == {d \in 0 .. Following(c.page) : Hits(c, d) # {}}
First(c)   == Smallest(Where(c))
Hit(c)     == <<c.pageno + First(c), Smallest(Hits(c, First(c)))>>

LEMMA NextMatchNone ==
  ASSUME NEW c, IsPosition(c), ~InvalidPosition(c), Where(c) = {}
  PROVE  /\ NextMatch(c).got = ERR_NOT_FOUND
         /\ IsPosition(NextMatch(c).cur) /\ NextMatch(c).cur.target = c.target
<1> DEFINE more  == Following(c.page)
           from  == FirstRecord(c, more)
           final == Ahead(c.page, more)
           e == IF from > Len(Page(final)) THEN from ELSE Len(Page(final)) + 1
           n == c.pageno + more
           p == [c EXCEPT !.page = NULL, !.pageno = n, !.at = final, !.record = 1, !.entry = e]
<1>1. NextMatch(c) = [got |-> ERR_NOT_FOUND, cur |-> p] BY DEF NextMatch, Where, Hits
<1> HIDE DEF more, from, final, e, n
<1>2. DOMAIN p = Fields /\ p = [f \in Fields |-> p[f]] BY DEF IsPosition
<1>3. p.target = c.target BY DEF IsPosition, Fields
<1> HIDE DEF p
<1>4. IsPosition(p) BY <1>2 DEF IsPosition
<1> QED BY <1>1, <1>3, <1>4

LEMMA NextMatchHit ==
  ASSUME NEW c, IsPosition(c), ~InvalidPosition(c), Where(c) # {}
  PROVE  /\ NextMatch(c).got = HandleOf(Hit(c))
         /\ IsPosition(NextMatch(c).cur) /\ NextMatch(c).cur.target = c.target
         /\ NextMatch(c).cur.page = Ahead(c.page, First(c))
         /\ NextMatch(c).cur.at = NextMatch(c).cur.page
         /\ NextMatch(c).cur.pageno = Hit(c)[1]
         /\ NextMatch(c).cur.record = Hit(c)[2] + 1
         /\ NextMatch(c).cur.entry = NextMatch(c).cur.record
<1> DEFINE d == First(c)
           p == Ahead(c.page, d)
           s == Smallest(Hits(c, d))
           n == c.pageno + d
           t == s + 1
           q == [c EXCEPT !.page = p, !.at = p, !.pageno = n, !.entry = t, !.record = t]
<1>1. NextMatch(c) = [got |-> HandleOf(<<n, s>>), cur |-> q] BY DEF NextMatch, Where, Hits, First
<1>2. Hit(c) = <<n, s>> BY DEF Hit
<1>3. p = Ahead(c.page, First(c)) /\ t = s + 1 OBVIOUS
<1> HIDE DEF d, p, s, n, t
<1>4. DOMAIN q = Fields /\ q = [f \in Fields |-> q[f]] BY DEF IsPosition
<1>5. /\ q.page = p /\ q.at = p /\ q.pageno = n /\ q.entry = t /\ q.record = t
      /\ q.target = c.target
  BY DEF IsPosition, Fields
<1> HIDE DEF q
<1>6. IsPosition(q) BY <1>4 DEF IsPosition
<1> QED BY <1>1, <1>2, <1>3, <1>5, <1>6

LEMMA NextMatchPosition ==
  ASSUME NEW c, IsPosition(c)
  PROVE  IsPosition(NextMatch(c).cur) /\ NextMatch(c).cur.target = c.target
<1>1. CASE InvalidPosition(c)
  <2>1. NextMatch(c) = [got |-> ERR_NO_POS, cur |-> c] BY <1>1 DEF NextMatch
  <2> QED BY <2>1
<1>2. CASE ~InvalidPosition(c) /\ Where(c) = {} BY <1>2, NextMatchNone
<1>3. CASE ~InvalidPosition(c) /\ Where(c) # {} BY <1>3, NextMatchHit
<1> QED BY <1>1, <1>2, <1>3

(***************************************************************************)
(* next_match returns the first match behind its position.                 *)
(***************************************************************************)
LEMMA PageLen ==
  ASSUME Shape, NEW p, IsPage(p)
  PROVE  Page(p) \in Leaf /\ Len(Page(p)) \in Nat /\ Len(Page(p)) <= EntriesPerPage
<1> DEFINE i == p[1]
           j == p[2]
<1>1. i \in Files /\ j \in 1 .. Len(dir[i]) BY DEF IsPage, NPages
<1>2. Dirs(dir) BY ChainFacts
<1>3. dir[i] \in Seq(Leaf) BY <1>1, <1>2, DirIs
<1>4. dir[i][j] \in Leaf BY <1>1, <1>3
<1>5. Len(dir[i][j]) <= EntriesPerPage BY <1>1, <1>2 DEF Dirs
<1>6. Page(p) = dir[i][j] BY DEF Page
<1> HIDE DEF i, j
<1>7. Len(dir[i][j]) \in Nat BY <1>4 DEF Leaf
<1> QED BY <1>4, <1>5, <1>6, <1>7

LEMMA Hitting ==
  ASSUME Shape, ChainIsWhole, NEW c, NEW h, At(dir, link, c, h),
         NEW k \in 0 .. Len(AllPages) - h[1]
  PROVE  \A s : s \in Hits(c, k) <=> <<h[1] + k, s>> \in MatchesBehind(h, c.target)
<1> DEFINE n == h[1]
           q == Ahead(c.page, k)
           N == Len(AllPages)
           from == FirstRecord(c, k)
           t == c.target
<1>1. Spot(dir, link, c.page, n) /\ h[2] \in Nat /\ c.record = h[2] + 1 BY DEF At
<1>2. N \in Nat /\ N <= MaxPageNo /\ n \in 1 .. N BY <1>1, ChainFacts, SpotIn
<1>3. k \in Nat /\ n + k <= N /\ n + k \in Nat /\ n + k >= 1
  <2>1. k \in 0 .. N - n OBVIOUS
  <2> HIDE DEF N, n
  <2> QED BY <1>2, <2>1
<1>4. Spot(dir, link, q, n + k) BY <1>1, <1>3, AheadSpot
<1>5. AllPages[n + k] = Page(q) BY <1>4, SpotIn
<1> DEFINE pg == Page(q)
<1>6. Len(pg) \in Nat /\ Len(pg) <= EntriesPerPage BY <1>4, SpotIsNoNull, PageLen
<1>7. from = IF k = 0 THEN h[2] + 1 ELSE 1 BY <1>1 DEF FirstRecord
<1>8. Hits(c, k) = {s \in from .. Len(pg) : Matches(pg[s], t)} BY DEF Hits, HitsOn
<1>9. EntriesPerPage \in Nat /\ MaxPageNo \in Nat BY XdfSearchAssumption DEF MaxPageNo
<1> TAKE s
<1> DEFINE g == <<n + k, s>>
<1>10. g \in Places <=> n + k \in 1 .. MaxPageNo /\ s \in 1 .. EntriesPerPage BY DEF Places
<1>11. g[1] = n + k /\ g[2] = s OBVIOUS
<1> HIDE DEF g
<1>12. Before(h, g) <=> (n < n + k \/ (n = n + k /\ h[2] < s)) BY <1>11 DEF Before
<1>13. g \in MatchesBehind(h, t) <=>
         g \in Places /\ Before(h, g) /\ n + k <= N /\ s <= Len(pg) /\ Matches(pg[s], t)
  BY <1>5, <1>11 DEF MatchesBehind
<1> HIDE DEF n, q, N, from, t, pg
<1>14. s \in from .. Len(pg) => g \in Places /\ Before(h, g) /\ s <= Len(pg)
  <2> SUFFICES ASSUME s \in from .. Len(pg) PROVE g \in Places /\ Before(h, g) /\ s <= Len(pg)
    OBVIOUS
  <2>1. from \in Nat /\ from >= 1 BY <1>1, <1>7
  <2>2. s \in Int /\ from <= s /\ s <= Len(pg) BY <1>6, <2>1
  <2>3. n < n + k \/ (n = n + k /\ h[2] < s) BY <1>1, <1>2, <1>3, <1>7, <2>2
  <2>4. n + k \in 1 .. MaxPageNo /\ s \in 1 .. EntriesPerPage BY <1>2, <1>3, <1>6, <1>9, <2>1, <2>2
  <2> QED BY <1>10, <1>12, <2>2, <2>3, <2>4
<1>15. g \in Places /\ Before(h, g) /\ s <= Len(pg) => s \in from .. Len(pg)
  <2> SUFFICES ASSUME g \in Places, Before(h, g), s <= Len(pg) PROVE s \in from .. Len(pg)
    OBVIOUS
  <2>1. s \in Nat /\ s >= 1 BY <1>9, <1>10
  <2>2. k = 0 => h[2] < s BY <1>2, <1>12
  <2>3. from <= s /\ from \in Nat BY <1>1, <1>7, <2>1, <2>2
  <2> QED BY <1>6, <2>1, <2>3
<1> QED BY <1>3, <1>8, <1>13, <1>14, <1>15 DEF g, n, t

LEMMA Matched ==
  ASSUME Shape, ChainIsWhole, NEW c, NEW h, At(dir, link, c, h),
         NEW g \in MatchesBehind(h, c.target)
  PROVE  /\ g[1] \in Nat /\ g[2] \in Nat /\ g = <<g[1], g[2]>>
         /\ g[1] - h[1] \in 0 .. Len(AllPages) - h[1]
         /\ g[2] \in Hits(c, g[1] - h[1])
<1> DEFINE n == h[1]
           N == Len(AllPages)
           k == g[1] - n
<1>1. Spot(dir, link, c.page, n) BY DEF At
<1>2. N \in Nat /\ n \in 1 .. N BY <1>1, ChainFacts, SpotIn
<1>3. g \in Places /\ Before(h, g) /\ g[1] <= N BY DEF MatchesBehind
<1>4. MaxPageNo \in Nat /\ EntriesPerPage \in Nat BY XdfSearchAssumption DEF MaxPageNo
<1>5. g = <<g[1], g[2]>> /\ g[1] \in Nat /\ g[2] \in Nat BY <1>3, <1>4 DEF Places
<1>6. n <= g[1] BY <1>2, <1>3, <1>5 DEF Before
<1> HIDE DEF N, n
<1>7. k \in 0 .. N - n /\ n + k = g[1] BY <1>2, <1>3, <1>5, <1>6
<1> HIDE DEF k
<1>8. k \in 0 .. Len(AllPages) - h[1] BY <1>7 DEF N, n
<1>9. g[2] \in Hits(c, k) <=> <<n + k, g[2]>> \in MatchesBehind(h, c.target)
  BY <1>8, Hitting DEF n
<1>10. g[2] \in Hits(c, k) BY <1>5, <1>7, <1>9
<1> QED BY <1>5, <1>8, <1>10 DEF k, n

Origins == Places \cup {Start}

\* what is returned for a search that starts behind place h, and the place found
Place(r) == <<r.cur.pageno, r.cur.record - 1>>

Exact(r, h) ==
  LET M == MatchesBehind(h, r.cur.target) IN
  /\ M = {} => r.got = ERR_NOT_FOUND
  /\ M # {} => /\ r.got = HandleOf(Place(r))
               /\ Place(r) \in M
               /\ \A m \in M : ~Before(m, Place(r))
               /\ At(dir, link, r.cur, Place(r))

LEMMA NextMatchExact ==
  ASSUME Shape, ChainIsWhole, NEW c, NEW h, IsPosition(c), At(dir, link, c, h)
  PROVE  Exact(NextMatch(c), h)
<1> DEFINE n == h[1]
           N == Len(AllPages)
           M == MatchesBehind(h, c.target)
           W == Where(c)
<1>1. Spot(dir, link, c.page, n) /\ c.at = c.page /\ c.entry = c.record /\ c.pageno = n BY DEF At
<1>2. ~InvalidPosition(c) BY <1>1, SpotIsNoNull DEF InvalidPosition
<1>3. N \in Nat /\ n \in 1 .. N BY <1>1, ChainFacts, SpotIn
<1>4. Following(c.page) = N - n BY <1>1, FollowingIs
<1>5. W = {k \in 0 .. N - n : Hits(c, k) # {}} BY <1>4 DEF Where
<1>6. NextMatch(c).cur.target = c.target BY NextMatchPosition
<1>7. \A k \in 0 .. N - n : \A s : s \in Hits(c, k) <=> <<n + k, s>> \in M BY Hitting
<1>8. \A g \in M : /\ g[1] \in Nat /\ g[2] \in Nat /\ g = <<g[1], g[2]>>
                   /\ g[1] - n \in 0 .. N - n /\ g[2] \in Hits(c, g[1] - n)
  BY Matched
<1>9. CASE W = {}
  <2>1. M = {} BY <1>5, <1>8, <1>9
  <2> QED BY <1>2, <1>6, <1>9, <2>1, NextMatchNone DEF Exact
<1>10. CASE W # {}
  <2> DEFINE k == First(c)
             s == Smallest(Hits(c, k))
             r == NextMatch(c)
  <2>1. k \in W /\ \A j \in W : k <= j
    <3>1. W \in SUBSET Nat BY <1>3, <1>5
    <3> HIDE DEF W
    <3>2. Smallest(W) \in W /\ \A j \in W : Smallest(W) <= j BY <1>10, <3>1, SmallestIs
    <3>3. k = Smallest(W) BY DEF First, W
    <3> QED BY <3>2, <3>3
  <2>2. k \in 0 .. N - n /\ Hits(c, k) # {} BY <1>5, <2>1
  <2>3. Hits(c, k) \in SUBSET Nat
    <3> SUFFICES ASSUME NEW x \in Hits(c, k) PROVE x \in Nat OBVIOUS
    <3>1. <<n + k, x>> \in M BY <1>7, <2>2
    <3>2. <<n + k, x>>[2] \in Nat BY <1>8, <3>1
    <3> QED BY <3>2
  <2>4. s \in Hits(c, k) /\ \A x \in Hits(c, k) : s <= x BY <2>2, <2>3, SmallestIs
  <2>5. Hit(c) = <<n + k, s>> BY <1>1 DEF Hit
  <2>6. /\ r.got = HandleOf(Hit(c)) /\ r.cur.page = Ahead(c.page, k) /\ r.cur.at = r.cur.page
        /\ r.cur.pageno = Hit(c)[1] /\ r.cur.record = Hit(c)[2] + 1 /\ r.cur.entry = r.cur.record
    BY <1>2, <1>10, NextMatchHit
  <2>7. k \in Nat /\ n + k <= N /\ n \in Nat
    <3> HIDE DEF k, N, n
    <3> QED BY <1>3, <2>2
  <2>8. Spot(dir, link, Ahead(c.page, k), n + k) BY <1>1, <2>7, AheadSpot
  <2> HIDE DEF k, s, r, N, n, W, M
  <2>9. s \in Nat BY <2>3, <2>4
  <2> DEFINE g == Place(r)
  <2>10. g = <<n + k, s>> /\ r.got = HandleOf(g)
    <3>1. Hit(c)[1] = n + k /\ Hit(c)[2] = s BY <2>5
    <3>2. r.cur.pageno = n + k /\ r.cur.record - 1 = s BY <2>6, <2>9, <3>1
    <3> QED BY <2>5, <2>6, <3>2 DEF Place
  <2> HIDE DEF g
  <2>11. g[1] = n + k /\ g[2] = s BY <2>10
  <2>12. g \in M BY <1>7, <2>2, <2>4, <2>10
  <2>13. At(dir, link, r.cur, g) BY <2>5, <2>6, <2>8, <2>9, <2>11 DEF At
  <2>14. ASSUME NEW m \in M PROVE ~Before(m, g)
    <3> DEFINE j == m[1] - n
    <3>1. m[1] \in Nat /\ m[2] \in Nat /\ j \in 0 .. N - n /\ m[2] \in Hits(c, j) BY <1>8
    <3>2. j \in W BY <1>5, <3>1
    <3>3. k <= j BY <2>1, <3>2
    <3>4. ~(m[1] < n + k) BY <2>7, <3>1, <3>3
    <3>5. m[1] = n + k => ~(m[2] < s)
      <4> SUFFICES ASSUME m[1] = n + k PROVE ~(m[2] < s) OBVIOUS
      <4>1. j = k BY <2>7
      <4>2. m[2] \in Hits(c, k) BY <3>1, <4>1
      <4>3. s <= m[2] BY <2>4, <4>2
      <4> QED BY <2>9, <3>1, <4>3
    <3> QED BY <2>11, <3>4, <3>5 DEF Before
  <2>15. M = MatchesBehind(h, r.cur.target) BY <1>6 DEF M, r
  <2>16. Exact(r, h) BY <2>10, <2>12, <2>13, <2>14, <2>15 DEF Exact, g
  <2> QED BY <2>16 DEF r
<1> QED BY <1>9, <1>10

(***************************************************************************)
(* c_xdfloc2, from a position of its own.                                  *)
(***************************************************************************)
LEMMA FoundAt ==
  ASSUME NEW c, IsPosition(c), NEW e
  PROVE  LET q == [c EXCEPT !.at = c.page, !.entry = e, !.record = e] IN
         /\ IsPosition(q) /\ q.page = c.page /\ q.at = c.page /\ q.pageno = c.pageno
         /\ q.entry = e /\ q.record = e /\ q.target = c.target
<1> DEFINE q == [c EXCEPT !.at = c.page, !.entry = e, !.record = e]
<1>1. DOMAIN q = Fields /\ q = [f \in Fields |-> q[f]] BY DEF IsPosition
<1>2. /\ q.page = c.page /\ q.at = c.page /\ q.pageno = c.pageno
      /\ q.entry = e /\ q.record = e /\ q.target = c.target
  BY DEF IsPosition, Fields
<1> HIDE DEF q
<1>3. IsPosition(q) BY <1>1 DEF IsPosition
<1> QED BY <1>2, <1>3 DEF q

LEMMA FoundPosition ==
  ASSUME NEW c, IsPosition(c), NEW e
  PROVE  IsPosition(Found(c, e).cur) /\ Found(c, e).cur.target = c.target
<1> DEFINE q == [c EXCEPT !.at = c.page, !.entry = e, !.record = e]
<1>1. IsPosition(q) /\ q.target = c.target BY FoundAt
<1>2. Found(c, e) = NextMatch(q) BY DEF Found
<1> HIDE DEF q
<1> QED BY <1>1, <1>2, NextMatchPosition

LEMMA FoundExact ==
  ASSUME Shape, ChainIsWhole, NEW c, NEW h, IsPosition(c),
         Spot(dir, link, c.page, h[1]) /\ c.pageno = h[1] /\ h[2] \in Nat
  PROVE  Exact(Found(c, h[2] + 1), h)
<1> DEFINE e == h[2] + 1
           q == [c EXCEPT !.at = c.page, !.entry = e, !.record = e]
<1>1. Found(c, h[2] + 1) = NextMatch(q) BY DEF Found
<1>2. e = h[2] + 1 OBVIOUS
<1> HIDE DEF e
<1>3. q.page = c.page /\ q.at = c.page /\ q.pageno = c.pageno /\ q.entry = e /\ q.record = e
  BY DEF IsPosition, Fields
<1>4. IsPosition(q) BY FoundAt
<1> HIDE DEF q
<1>5. At(dir, link, q, h) BY <1>2, <1>3 DEF At
<1> QED BY <1>1, <1>4, <1>5, NextMatchExact

LEMMA LocatePosition ==
  ASSUME NEW c, IsPosition(c), NEW h
  PROVE  IsPosition(LocateFrom(c, h).cur) /\ LocateFrom(c, h).cur.target = c.target
<1> DEFINE n == NPages(1)
           moves == Moves(h[1] - n)
           p == Ahead(LastPage(1), moves)
           far == n + Following(LastPage(1)) + 1
           next == n + moves
           page == <<1, h[1]>>
           behind == h[2] + 1
           here  == [c EXCEPT !.page = page, !.pageno = h[1]]
           there == [c EXCEPT !.page = p, !.pageno = next]
           gone  == [c EXCEPT !.at = NULL, !.entry = 0]
           lost  == [c EXCEPT !.page = NULL, !.at = NULL, !.entry = 0]
           over  == [lost EXCEPT !.pageno = far]
           misled == [c EXCEPT !.page = NULL, !.at = Unusable, !.entry = behind, !.record = behind]
<1>1. \/ LocateFrom(c, h) = Found(here, behind)
      \/ LocateFrom(c, h).cur = misled
      \/ LocateFrom(c, h) = NextMatch(misled)
      \/ LocateFrom(c, h).cur = gone
      \/ LocateFrom(c, h).cur = over
      \/ LocateFrom(c, h) = Found(there, behind)
  BY DEF LocateFrom
<1> HIDE DEF n, moves, p, far, next, page, behind
<1>2. IsPosition(here) /\ here.target = c.target
  <2>1. DOMAIN here = Fields /\ here = [f \in Fields |-> here[f]] BY DEF IsPosition
  <2>2. here.target = c.target BY DEF IsPosition, Fields
  <2> HIDE DEF here
  <2> QED BY <2>1, <2>2 DEF IsPosition
<1>3. IsPosition(there) /\ there.target = c.target
  <2>1. DOMAIN there = Fields /\ there = [f \in Fields |-> there[f]] BY DEF IsPosition
  <2>2. there.target = c.target BY DEF IsPosition, Fields
  <2> HIDE DEF there
  <2> QED BY <2>1, <2>2 DEF IsPosition
<1>4. IsPosition(gone) /\ gone.target = c.target
  <2>1. DOMAIN gone = Fields /\ gone = [f \in Fields |-> gone[f]] BY DEF IsPosition
  <2>2. gone.target = c.target BY DEF IsPosition, Fields
  <2> HIDE DEF gone
  <2> QED BY <2>1, <2>2 DEF IsPosition
<1>5. IsPosition(over) /\ over.target = c.target
  <2>1. DOMAIN over = Fields /\ over = [f \in Fields |-> over[f]] BY DEF IsPosition
  <2>2. over.target = c.target BY DEF IsPosition, Fields
  <2> HIDE DEF over
  <2> QED BY <2>1, <2>2 DEF IsPosition
<1>6. IsPosition(misled) /\ misled.target = c.target
  <2>1. DOMAIN misled = Fields /\ misled = [f \in Fields |-> misled[f]] BY DEF IsPosition
  <2>2. misled.target = c.target BY DEF IsPosition, Fields
  <2> HIDE DEF misled
  <2> QED BY <2>1, <2>2 DEF IsPosition
<1> HIDE DEF here, there, gone, lost, over, misled
<1>7. IsPosition(NextMatch(misled).cur) /\ NextMatch(misled).cur.target = c.target
  BY <1>6, NextMatchPosition
<1> QED BY <1>1, <1>2, <1>3, <1>4, <1>5, <1>6, <1>7, FoundPosition

(* A linked page that is the current one, within the table: refused.       *)
LEMMA LocateRefused ==
  ASSUME NEW c, IsPosition(c), NEW h, LinkedAndCurrent(c, h), h[1] <= MaxDirPages,
         h[1] \in Int, NPages(1) \in Nat
  PROVE  LocateFrom(c, h).got = ERR_NO_POS
<1> DEFINE behind == h[2] + 1
           misled == [c EXCEPT !.page = NULL, !.at = Unusable, !.entry = behind, !.record = behind]
<1>1. ~(h[1] <= NPages(1)) BY DEF LinkedAndCurrent
<1>2. LocateFrom(c, h) = NextMatch(misled) BY <1>1 DEF LocateFrom
<1> HIDE DEF behind
<1>3. misled.page = NULL BY DEF IsPosition, Fields
<1> HIDE DEF misled
<1>4. NextMatch(misled) = [got |-> ERR_NO_POS, cur |-> misled] BY <1>3 DEF NextMatch, InvalidPosition
<1> QED BY <1>2, <1>4

(* The place where c_xdfloc2 begins to search for a handle: too early on a *)
(* page that is far behind file 1.                                         *)
Reached(h) == IF h[1] <= NPages(1) THEN h ELSE <<NPages(1) + Moves(h[1] - NPages(1)), h[2]>>

LEMMA ReachedIs ==
  ASSUME Shape, NEW h \in Origins
  PROVE  /\ Reached(h)[1] \in Nat /\ Reached(h)[1] >= 1 /\ Reached(h)[1] <= h[1]
         /\ Reached(h)[2] = h[2]
         /\ h[1] \in Nat /\ h[1] >= 1 /\ h[2] \in Nat
         /\ h[1] > NPages(1) => /\ h \in Places
                                /\ Moves(h[1] - NPages(1)) \in Nat
                                /\ Reached(h)[1] > NPages(1)
         /\ ~Far(h) => Reached(h) = h
<1> DEFINE n == NPages(1)
           k == h[1] - n
<1>0. n \in Nat /\ 1 <= n BY ChainFacts, OffFirst, DirIs DEF NPages
<1>1. h[1] \in Nat /\ h[1] >= 1 /\ h[2] \in Nat /\ (h \in Places => h = <<h[1], h[2]>>)
  <2>1. CASE h = Start BY <2>1, PlaceIs DEF Start
  <2>2. CASE h \in Places BY <2>2, PlaceIs
  <2> QED BY <2>1, <2>2 DEF Origins
<1>2. CASE h[1] <= n
  <2>1. ~(h[1] > n) BY <1>0, <1>1, <1>2
  <2> QED BY <1>1, <1>2, <2>1 DEF Reached
<1>3. CASE ~(h[1] <= n)
  <2>1. h \in Places BY <1>0, <1>3 DEF Origins, Start
  <2>2. Reached(h) = <<n + Moves(k), h[2]>> BY <1>3 DEF Reached
  <2>3. k \in Nat /\ k >= 1 /\ n + k = h[1] BY <1>0, <1>1, <1>3
  <2>4. Far(h) <=> k > 2 BY <1>0, <1>1 DEF Far
  <2> HIDE DEF k
  <2>5. Moves(k) \in Nat /\ Moves(k) >= 1 /\ Moves(k) <= k /\ (k <= 2 => Moves(k) = k)
    <3>1. k \div 2 \in Nat /\ (k >= 2 => k \div 2 < k) /\ (k = 1 => k \div 2 = 0)
          /\ (k = 2 => k \div 2 = 1)
      BY <2>3
    <3>2. k = 1 \/ k = 2 \/ k > 2 BY <2>3
    <3> QED BY <2>3, <3>1, <3>2 DEF Moves
  <2>6. Reached(h)[1] = n + Moves(k) /\ Reached(h)[2] = h[2] BY <2>2
  <2>7. n + Moves(k) \in Nat /\ n + Moves(k) > n /\ n + Moves(k) <= h[1] BY <1>0, <2>3, <2>5
  <2>8. ~Far(h) => Reached(h) = h
    <3> SUFFICES ASSUME ~Far(h) PROVE Reached(h) = h OBVIOUS
    <3>1. Moves(k) = k BY <2>3, <2>4, <2>5
    <3> QED BY <1>1, <2>1, <2>2, <2>3, <3>1
  <2> QED BY <1>0, <1>1, <2>1, <2>5, <2>6, <2>7, <2>8 DEF k
<1> QED BY <1>2, <1>3

(* From the beginning, and from a record that is not on a linked page that *)
(* is the current one, c_xdfloc2 finds the first match behind the place    *)
(* that it reaches.                                                        *)
LEMMA LocateExact ==
  ASSUME Shape, ChainIsWhole, NEW c, IsPosition(c), NEW h \in Origins,
         h = Start \/ (PageOf(h) # NULL /\ ~LinkedAndCurrent(c, h))
  PROVE  Exact(LocateFrom(c, h), Reached(h))
<1> DEFINE n == NPages(1)
           g == Reached(h)
<1>0. 1 \in Files /\ n \in Nat /\ 1 <= n /\ n = Len(dir[1])
  BY ChainFacts, OffFirst, DirIs DEF NPages
<1>1. h[1] \in Nat /\ h[1] >= 1 /\ h[2] \in Nat BY ReachedIs
<1>2. CASE h[1] <= n
  <2> DEFINE page == <<1, h[1]>>
             no == h[1]
             q == [c EXCEPT !.page = page, !.pageno = no]
  <2>1. LocateFrom(c, h) = Found(q, h[2] + 1) /\ g = h BY <1>2 DEF LocateFrom, Reached
  <2>2. Spot(dir, link, page, h[1])
    <3>1. h[1] \in 1 .. Len(dir[1]) BY <1>0, <1>1, <1>2
    <3> QED BY <3>1, ChainFacts, SpotFirst
  <2>3. no = h[1] OBVIOUS
  <2> HIDE DEF page, no, g
  <2>4. DOMAIN q = Fields /\ q = [f \in Fields |-> q[f]] BY DEF IsPosition
  <2>5. q.page = page /\ q.pageno = no BY DEF IsPosition, Fields
  <2> HIDE DEF q
  <2>6. IsPosition(q) BY <2>4 DEF IsPosition
  <2>7. Exact(Found(q, h[2] + 1), h) BY <1>1, <2>2, <2>3, <2>5, <2>6, FoundExact
  <2> QED BY <2>1, <2>7 DEF g
<1>3. CASE ~(h[1] <= n)
  <2> DEFINE p == Ahead(LastPage(1), Moves(h[1] - n))
             no == n + Moves(h[1] - n)
             q == [c EXCEPT !.page = p, !.pageno = no]
  <2>1. h # Start BY <1>0, <1>3 DEF Start
  <2>2. /\ g[1] = no /\ g[2] = h[2] /\ g[1] <= h[1] /\ g[1] > n /\ h \in Places
        /\ Moves(h[1] - n) \in Nat
    <3>1. g = <<no, h[2]>> BY <1>3 DEF Reached
    <3>2. h[1] > n BY <1>0, <1>1, <1>3
    <3> QED BY <3>1, <3>2, ReachedIs
  <2>3. PageOf(h) # NULL BY <2>1
  <2>4. link[1] # NoFile BY <1>3, <2>3 DEF PageOf
  <2>5. ~LinkedAndCurrent(c, h) BY <2>1
  <2>6. ~(h[1] > NPages(1) /\ h[1] = c.pageno) BY <2>5 DEF LinkedAndCurrent
  <2>7. Spot(dir, link, p, no)
    <3>1. Spot(dir, link, PageOf(h), h[1]) BY <2>2, <2>3, PageOfSpot
    <3>2. h[1] \in 1 .. Len(AllPages) /\ Len(AllPages) \in Nat BY <3>1, ChainFacts, SpotIn
    <3>3. no <= Len(AllPages) BY <1>0, <1>1, <2>2, <3>2
    <3>4. Spot(dir, link, LastPage(1), n)
      <4>1. n \in 1 .. Len(dir[1]) BY <1>0
      <4> QED BY <4>1, ChainFacts, SpotFirst DEF LastPage
    <3> DEFINE k == Moves(h[1] - n)
    <3>5. k \in Nat /\ no = n + k BY <2>2
    <3> HIDE DEF k
    <3>6. Spot(dir, link, Ahead(LastPage(1), k), n + k) BY <3>3, <3>4, <3>5, AheadSpot
    <3> QED BY <3>5, <3>6 DEF k
  <2>8. p # NULL BY <2>7, SpotIsNoNull
  <2>9. LocateFrom(c, h) = Found(q, h[2] + 1) BY <1>3, <2>4, <2>5, <2>8 DEF LocateFrom
  <2> HIDE DEF p, no, g
  <2>10. DOMAIN q = Fields /\ q = [f \in Fields |-> q[f]] BY DEF IsPosition
  <2>11. q.page = p /\ q.pageno = no BY DEF IsPosition, Fields
  <2> HIDE DEF q
  <2>12. IsPosition(q) BY <2>10 DEF IsPosition
  <2>13. Exact(Found(q, g[2] + 1), g) BY <1>1, <2>2, <2>7, <2>11, <2>12, FoundExact
  <2> QED BY <2>2, <2>9, <2>13 DEF g
<1> QED BY <1>2, <1>3

(***************************************************************************)
(* The invariant.  As long as the record last found, s, is the one the     *)
(* search stands at, the chain is whole, the position c is that behind s,  *)
(* and what the search has still to give is behind s and matches.          *)
(***************************************************************************)
Owes(d, l, h, t, g) ==
  /\ g \in Places
  /\ Before(h, g)
  /\ g[1] <= Len(Pages(d, l))
  /\ g[2] <= Len(Pages(d, l)[g[1]])
  /\ Matches(Pages(d, l)[g[1]][g[2]], t)

Whole(l, a) == \A i \in Files : a[i] = l[i]

Standing(d, l, a, c, s, o) ==
  IF s = Lost THEN o = {}
  ELSE /\ s \in Places
       /\ Whole(l, a)
       /\ At(d, l, c, s)
       /\ \A g \in o : Owes(d, l, s, c.target, g)

Stands == Standing(dir, link, after, cur, stand, owed)

IInv ==
  /\ Shape
  /\ IsPosition(cur)
  /\ Stands
  /\ SearchIsExact
  /\ NoMatchIsPassedOver
  /\ NothingIsMissed

LEMMA OwesIs ==
  ASSUME NEW h, NEW t, NEW g
  PROVE  Owes(dir, link, h, t, g) <=> g \in MatchesBehind(h, t)
BY AllPagesAre DEF Owes, MatchesBehind

LEMMA BeforeIs ==
  ASSUME NEW g \in Places, NEW h \in Places
  PROVE  Before(g, h) \/ Before(h, g) \/ g = h
<1>1. g = <<g[1], g[2]>> /\ g[1] \in Nat /\ g[2] \in Nat BY PlaceIs
<1>2. h = <<h[1], h[2]>> /\ h[1] \in Nat /\ h[2] \in Nat BY PlaceIs
<1> QED BY <1>1, <1>2 DEF Before

LEMMA FirstPlace ==
  ASSUME NEW S \in SUBSET Places, S # {}
  PROVE  \E g \in S : \A m \in S : ~Before(m, g)
<1> DEFINE N == {g[1] : g \in S}
<1>1. \A g \in S : g[1] \in Nat /\ g[2] \in Nat BY PlaceIs
<1>2. N \in SUBSET Nat /\ N # {} BY <1>1
<1> HIDE DEF N
<1>3. PICK n \in N : \A k \in N : n <= k BY <1>2, Walk!SmallestNumber
<1> DEFINE R == {g[2] : g \in {x \in S : x[1] = n}}
<1>4. R \in SUBSET Nat BY <1>1
<1>5. R # {} BY <1>3 DEF N
<1> HIDE DEF R
<1>6. PICK s \in R : \A k \in R : s <= k BY <1>4, <1>5, Walk!SmallestNumber
<1>7. PICK g \in S : g[1] = n /\ g[2] = s BY <1>6 DEF R
<1>8. ASSUME NEW m \in S PROVE ~Before(m, g)
  <2>1. m[1] \in Nat /\ m[2] \in Nat /\ g[1] \in Nat /\ g[2] \in Nat BY <1>1
  <2>2. m[1] \in N BY DEF N
  <2>3. g[1] <= m[1] BY <1>3, <1>7, <2>2
  <2>4. m[1] = n => g[2] <= m[2]
    <3> SUFFICES ASSUME m[1] = n PROVE g[2] <= m[2] OBVIOUS
    <3>1. m[2] \in R BY DEF R
    <3> QED BY <1>6, <1>7, <3>1
  <2> QED BY <1>7, <2>1, <2>3, <2>4 DEF Before
<1> QED BY <1>8

LEMMA DueIs ==
  ASSUME ChainIsWhole, NEW at, at # Lost, NEW t, MatchesBehind(at, t) # {}
  PROVE  /\ Due(at, t) \in MatchesBehind(at, t)
         /\ \A m \in MatchesBehind(at, t) : ~Before(m, Due(at, t))
<1> DEFINE M == MatchesBehind(at, t)
<1>1. M \in SUBSET Places BY DEF MatchesBehind
<1>2. Due(at, t) = CHOOSE x \in M : \A m \in M : ~Before(m, x) BY DEF Due
<1> HIDE DEF M
<1>3. \E x \in M : \A m \in M : ~Before(m, x) BY <1>1, FirstPlace DEF M
<1>4. Due(at, t) \in M /\ \A m \in M : ~Before(m, Due(at, t)) BY <1>2, <1>3
<1> QED BY <1>4 DEF M

(* What is behind a place is behind an earlier one, and behind Start.      *)
LEMMA BehindIs ==
  ASSUME NEW g, NEW h, NEW t, g[1] \in Nat, g[1] >= 1, h[1] \in Nat, h[2] \in Nat,
         g[1] <= h[1], g[2] = h[2]
  PROVE  /\ MatchesBehind(h, t) \subseteq MatchesBehind(g, t)
         /\ MatchesBehind(g, t) \subseteq MatchesBehind(Start, t)
<1>1. ASSUME NEW m \in Places PROVE Before(h, m) => Before(g, m)
  <2>1. m[1] \in Nat /\ m[2] \in Nat BY PlaceIs
  <2> QED BY <2>1 DEF Before
<1>2. ASSUME NEW m \in Places PROVE Before(Start, m)
  <2>1. m[1] \in Nat /\ m[2] \in Nat /\ m[1] >= 1 /\ m[2] >= 1 BY PlaceIs
  <2>2. Start[1] = 1 /\ Start[2] = 0 BY DEF Start
  <2> QED BY <2>1, <2>2 DEF Before
<1> QED BY <1>1, <1>2 DEF MatchesBehind

(* What a search returns keeps the invariant: when it is refused, or exact *)
(* for the place g where it began, and what was owed is behind that place. *)
LEMMA ReturnedKeeps ==
  ASSUME IInv, NEW at, NEW early \in BOOLEAN, NEW r, NEW all \in BOOLEAN, NEW from,
         Returned(at, early, r, all), IsPosition(r.cur),
         at # Lost /\ ChainIsWhole =>
           \/ early /\ r.got = ERR_NO_POS
           \/ /\ Exact(r, from) /\ (early \/ from = at)
              /\ MatchesBehind(at, r.cur.target) \subseteq MatchesBehind(from, r.cur.target)
              /\ MatchesBehind(from, r.cur.target) \subseteq MatchesBehind(Start, r.cur.target),
         all => ~early,
         all /\ at # Start => /\ at # Lost /\ ChainIsWhole
                             /\ owed \subseteq MatchesBehind(at, r.cur.target)
  PROVE  IInv'
<1> DEFINE t == r.cur.target
           M == MatchesBehind(at, t)
           F == MatchesBehind(from, t)
           due == Due(at, t)
           g == Place(r)
           place == IF r.got \in Handles THEN g ELSE Lost
           still == IF at # Start THEN owed ELSE IF due = Lost THEN {} ELSE MatchesBehind(Start, t)
<1>1. /\ cur' = r.cur
      /\ last' = [op |-> "loc", due |-> due, got |-> r.got, at |-> place, early |-> early]
      /\ stand' = IF due # Lost THEN place ELSE Lost
      /\ owed' = IF all THEN still \ {place} ELSE {}
      /\ dir' = dir /\ link' = link /\ after' = after
  BY DEF Returned, Place
<1>2. Shape' BY <1>1 DEF IInv, Shape
<1>3. IsPosition(cur') BY <1>1
<1>4. M \subseteq Places /\ F \subseteq Places BY DEF MatchesBehind
<1>5. /\ last'.due = due /\ last'.got = r.got /\ last'.at = place /\ last'.early = early
      /\ cur'.target = t
  BY <1>1
<1>6. CASE due = Lost
  <2>1. at = Start \/ ~all
    <3> SUFFICES ASSUME all, at # Start PROVE FALSE OBVIOUS
    <3>1. at # Lost /\ ChainIsWhole OBVIOUS
    <3>2. M = {} => due = ERR_NOT_FOUND BY <3>1 DEF Due
    <3>3. M # {} => due \in Places BY <1>4, <3>1, DueIs
    <3>4. ERR_NOT_FOUND # Lost BY DEF ERR_NOT_FOUND, Lost
    <3> QED BY <1>6, <3>2, <3>3, <3>4, PlaceIs
  <2>2. stand' = Lost /\ owed' = {} BY <1>1, <1>6, <2>1
  <2>3. last'.due = Lost BY <1>5, <1>6
  <2>4. Stands' BY <2>2 DEF Stands, Standing
  <2>5. SearchIsExact' /\ NoMatchIsPassedOver' BY <2>3 DEF SearchIsExact, NoMatchIsPassedOver
  <2>6. NothingIsMissed' BY <2>2 DEF NothingIsMissed
  <2> QED BY <1>2, <1>3, <2>4, <2>5, <2>6 DEF IInv
<1>7. CASE due # Lost
  <2>1. at # Lost /\ ChainIsWhole BY <1>7 DEF Due
  <2>2. all => still \subseteq M BY <1>7
  <2>3. M = {} => due = ERR_NOT_FOUND BY <2>1 DEF Due
  <2>4. M # {} => due \in M /\ \A m \in M : ~Before(m, due) BY <2>1, DueIs
  <2>5. ERR_NOT_FOUND \notin Places /\ ERR_NO_POS \notin Places /\ Handles \subseteq Places
    BY PlaceIs, HandleIsAPlace
  <2>6. MatchesBehind(Start, t) = MatchesBehind(Start, cur.target)'
    <3>1. AllPages' = AllPages BY <1>1, AllPagesAre
    <3> QED BY <1>5, <3>1 DEF MatchesBehind
  <2> DEFINE A == MatchesBehind(Start, t)
  <2>7. NoMatchIsPassedOver' <=>
          (last'.op = "loc" =>
            \/ r.got = ERR_NO_POS
            \/ r.got = ERR_NOT_FOUND /\ due = ERR_NOT_FOUND
            \/ place \in A /\ (due \in Places => ~Before(due, place)))
    BY <1>5, <1>7, <2>6 DEF NoMatchIsPassedOver, Before
  <2>8. SearchIsExact' <=>
          (last'.op = "loc" /\ ~early =>
            IF due = ERR_NOT_FOUND THEN r.got = ERR_NOT_FOUND
            ELSE r.got = HandleOf(due) /\ place = due)
    BY <1>5, <1>7 DEF SearchIsExact, HandleOf
  <2> HIDE DEF still, A
  <2>9. CASE early /\ r.got = ERR_NO_POS
    <3>1. place = Lost BY <2>5, <2>9
    <3>2. stand' = Lost /\ owed' = {} BY <1>1, <2>9, <3>1
    <3>3. Stands' BY <3>2 DEF Stands, Standing
    <3>4. NothingIsMissed' BY <3>2 DEF NothingIsMissed
    <3>5. SearchIsExact' /\ NoMatchIsPassedOver' BY <2>7, <2>8, <2>9
    <3> QED BY <1>2, <1>3, <3>3, <3>4, <3>5 DEF IInv
  <2>10. CASE /\ Exact(r, from) /\ (early \/ from = at)
              /\ M \subseteq F /\ F \subseteq MatchesBehind(Start, t)
    <3>1. CASE F = {}
      <4>1. r.got = ERR_NOT_FOUND BY <2>10, <3>1 DEF Exact
      <4>2. M = {} /\ due = ERR_NOT_FOUND BY <2>3, <2>10, <3>1
      <4>3. place = Lost BY <2>5, <4>1
      <4>4. stand' = Lost /\ owed' = {} BY <1>1, <2>2, <4>2, <4>3
      <4>5. Stands' BY <4>4 DEF Stands, Standing
      <4>6. NothingIsMissed' BY <4>4 DEF NothingIsMissed
      <4>7. SearchIsExact' /\ NoMatchIsPassedOver' BY <2>7, <2>8, <4>1, <4>2
      <4> QED BY <1>2, <1>3, <4>5, <4>6, <4>7 DEF IInv
    <3>2. CASE F # {}
      <4>1. /\ r.got = HandleOf(g) /\ g \in F
            /\ \A m \in F : ~Before(m, g)
            /\ At(dir, link, r.cur, g)
        BY <2>10, <3>2 DEF Exact
      <4>2. g \in Places /\ r.got \in Handles BY <1>4, <4>1, HandleOfIs
      <4>3. place = g /\ g # Lost BY <4>2, PlaceIs
      <4>4. stand' = g /\ stand' # Lost BY <1>1, <1>7, <4>3
      <4>5. ~early => due = g
        <5> SUFFICES ASSUME ~early PROVE due = g OBVIOUS
        <5>1. M = F BY <2>10
        <5>2. due \in M /\ ~Before(g, due) BY <2>4, <3>2, <4>1, <5>1
        <5>3. due \in Places /\ ~Before(due, g) BY <1>4, <4>1, <5>1, <5>2
        <5> QED BY <4>2, <5>2, <5>3, BeforeIs
      <4>6. ASSUME NEW x \in owed' PROVE Owes(dir', link', stand', cur'.target, x)
        <5>1. all /\ x \in M /\ x # g /\ x \in Places BY <1>1, <1>4, <2>2, <4>3
        <5>2. Before(g, x) BY <2>10, <4>1, <4>2, <5>1, BeforeIs
        <5>3. Owes(dir, link, at, t, x) BY <5>1, OwesIs
        <5>4. Owes(dir, link, g, t, x) BY <5>2, <5>3 DEF Owes
        <5> QED BY <1>1, <1>5, <4>4, <5>4
      <4>7. Whole(link', after') BY <1>1, <2>1 DEF Whole, ChainIsWhole
      <4>8. At(dir', link', cur', stand') BY <1>1, <4>1, <4>4
      <4>9. Stands' BY <4>2, <4>4, <4>6, <4>7, <4>8 DEF Stands, Standing
      <4>10. SearchIsExact'
        <5>1. due = g => due # ERR_NOT_FOUND BY <2>5, <4>2
        <5> QED BY <2>8, <4>1, <4>3, <4>5, <5>1
      <4>11. NoMatchIsPassedOver'
        <5>1. g \in A BY <2>10, <4>1 DEF A
        <5>2. due \in Places => ~Before(due, g) BY <2>3, <2>4, <2>5, <2>10, <4>1
        <5> QED BY <2>7, <4>3, <5>1, <5>2
      <4>12. NothingIsMissed'
        <5>1. last'.got # ERR_NOT_FOUND BY <1>5, <2>5, <4>2
        <5> QED BY <5>1 DEF NothingIsMissed
      <4> QED BY <1>2, <1>3, <4>9, <4>10, <4>11, <4>12 DEF IInv
    <3> QED BY <3>1, <3>2
  <2> QED BY <2>1, <2>9, <2>10
<1> QED BY <1>6, <1>7

LEMMA ToTarget ==
  ASSUME NEW c, IsPosition(c), NEW t
  PROVE  LET q == [c EXCEPT !.target = t] IN
         /\ IsPosition(q) /\ q.target = t /\ q.page = c.page /\ q.pageno = c.pageno
         /\ q.at = c.at /\ q.entry = c.entry /\ q.record = c.record
<1> DEFINE q == [c EXCEPT !.target = t]
<1>1. DOMAIN q = Fields /\ q = [f \in Fields |-> q[f]] BY DEF IsPosition
<1>2. /\ q.target = t /\ q.page = c.page /\ q.pageno = c.pageno
      /\ q.at = c.at /\ q.entry = c.entry /\ q.record = c.record
  BY DEF IsPosition, Fields
<1> HIDE DEF q
<1>3. IsPosition(q) BY <1>1 DEF IsPosition
<1> QED BY <1>2, <1>3 DEF q

LEMMA LocateFirstKeeps ==
  ASSUME IInv, NEW t, LocateFirst(t)
  PROVE  IInv'
<1> DEFINE none == 0
           no == FALSE
           all == TRUE
           c == [cur EXCEPT !.pageno = none, !.target = t]
           r == LocateFrom(c, Start)
<1>1. Shape /\ IsPosition(cur) BY DEF IInv
<1>2. Returned(Start, no, r, all) BY DEF LocateFirst
<1>3. no \in BOOLEAN /\ all \in BOOLEAN /\ ~no OBVIOUS
<1> HIDE DEF none, all, no
<1>4. DOMAIN c = Fields /\ c = [f \in Fields |-> c[f]] BY <1>1 DEF IsPosition
<1> HIDE DEF c
<1>5. IsPosition(c) BY <1>4 DEF IsPosition
<1>6. IsPosition(r.cur) BY <1>5, LocatePosition
<1>7. Start \in Origins BY DEF Origins
<1>8. Reached(Start) = Start
  <2>1. 1 <= NPages(1) BY <1>1, ChainFacts, OffFirst, DirIs DEF NPages
  <2> QED BY <2>1 DEF Reached, Start
<1>9. ChainIsWhole => Exact(r, Start) BY <1>1, <1>5, <1>7, <1>8, LocateExact
<1> HIDE DEF r
<1> QED BY <1>2, <1>3, <1>6, <1>9, ReturnedKeeps

LEMMA LocateBehindKeeps ==
  ASSUME IInv, NEW h \in Handles, NEW t, LocateBehind(h, t)
  PROVE  IInv'
<1> DEFINE none == FALSE
           current == LinkedAndCurrent(cur, h)
           at == IF PageOf(h) = NULL \/ (current /\ h[1] > MaxDirPages) THEN Lost ELSE h
           early == Far(h) \/ current
           c == [cur EXCEPT !.target = t]
           r == LocateFrom(c, h)
           from == Reached(h)
<1>1. Shape /\ IsPosition(cur) BY DEF IInv
<1>2. Returned(at, early, r, none) BY DEF LocateBehind
<1>3. none \in BOOLEAN /\ ~none OBVIOUS
<1>4. early \in BOOLEAN BY DEF Far, LinkedAndCurrent
<1> HIDE DEF none
<1>5. IsPosition(c) /\ c.pageno = cur.pageno BY <1>1, ToTarget
<1>6. current <=> LinkedAndCurrent(c, h) BY <1>5 DEF LinkedAndCurrent
<1> HIDE DEF c
<1>7. IsPosition(r.cur) BY <1>5, LocatePosition
<1>8. h \in Places /\ h \in Origins BY HandleIsAPlace DEF Origins
<1>9. /\ from[1] \in Nat /\ from[1] >= 1 /\ from[1] <= h[1] /\ from[2] = h[2]
      /\ h[1] \in Nat /\ h[2] \in Nat /\ (~Far(h) => from = h)
  BY <1>1, <1>8, ReachedIs
<1>10. NPages(1) \in Nat BY <1>1, ChainFacts, OffFirst, DirIs DEF NPages
<1>11. MaxDirPages \in Nat BY XdfSearchAssumption
<1> HIDE DEF current, from
<1>12. ASSUME at # Lost, ChainIsWhole
       PROVE  \/ early /\ r.got = ERR_NO_POS
              \/ /\ Exact(r, from) /\ (early \/ from = at)
                 /\ MatchesBehind(at, r.cur.target) \subseteq MatchesBehind(from, r.cur.target)
                 /\ MatchesBehind(from, r.cur.target) \subseteq MatchesBehind(Start, r.cur.target)
  <2>1. at = h /\ PageOf(h) # NULL /\ ~(current /\ h[1] > MaxDirPages) BY <1>12
  <2>2. CASE current
    <3>1. h[1] <= MaxDirPages BY <1>9, <1>11, <2>1, <2>2
    <3>2. r.got = ERR_NO_POS BY <1>5, <1>6, <1>9, <1>10, <2>2, <3>1, LocateRefused
    <3> QED BY <2>2, <3>2
  <2>3. CASE ~current
    <3>1. Exact(r, from) BY <1>1, <1>5, <1>6, <1>8, <1>12, <2>1, <2>3, LocateExact DEF from
    <3>2. /\ MatchesBehind(h, r.cur.target) \subseteq MatchesBehind(from, r.cur.target)
          /\ MatchesBehind(from, r.cur.target) \subseteq MatchesBehind(Start, r.cur.target)
      BY <1>9, BehindIs
    <3>3. early \/ from = at BY <1>9, <2>1, <2>3
    <3> QED BY <2>1, <3>1, <3>2, <3>3
  <2> QED BY <2>2, <2>3
<1> HIDE DEF r, at, early
<1> QED BY <1>2, <1>3, <1>4, <1>7, <1>12, ReturnedKeeps

LEMMA LocateNextKeeps ==
  ASSUME IInv, NEW t, LocateNext(t)
  PROVE  IInv'
<1> DEFINE none == FALSE
           c == [cur EXCEPT !.target = t]
           all == t = cur.target /\ stand # Lost
           nopos == [got |-> ERR_NO_POS, cur |-> cur]
           notarget == [got |-> ERR_NO_TARGET, cur |-> c]
           r == NextMatch(c)
<1>1. Shape /\ IsPosition(cur) /\ Stands BY DEF IInv
<1>2. \/ Returned(Lost, none, nopos, none)
      \/ Returned(Lost, none, notarget, none)
      \/ Returned(stand, none, r, all)
  BY DEF LocateNext
<1>3. none \in BOOLEAN /\ ~none /\ all \in BOOLEAN OBVIOUS
<1> HIDE DEF none
<1>4. /\ IsPosition(c) /\ c.target = t /\ c.page = cur.page /\ c.pageno = cur.pageno
      /\ c.at = cur.at /\ c.entry = cur.entry /\ c.record = cur.record
  BY <1>1, ToTarget
<1>5. CASE Returned(Lost, none, nopos, none)
  <2>1. IsPosition(nopos.cur) BY <1>1
  <2> HIDE DEF nopos
  <2> QED BY <1>3, <1>5, <2>1, ReturnedKeeps
<1>6. CASE Returned(Lost, none, notarget, none)
  <2>1. IsPosition(notarget.cur) BY <1>4
  <2> HIDE DEF notarget
  <2> QED BY <1>3, <1>6, <2>1, ReturnedKeeps
<1>7. CASE Returned(stand, none, r, all)
  <2>1. IsPosition(r.cur) /\ r.cur.target = t BY <1>4, NextMatchPosition
  <2>2. stand # Lost => /\ ChainIsWhole /\ At(dir, link, cur, stand) /\ stand \in Places
                        /\ \A g \in owed : Owes(dir, link, stand, cur.target, g)
    BY <1>1 DEF Stands, Standing, Whole, ChainIsWhole
  <2> HIDE DEF c
  <2>3. ASSUME stand # Lost
        PROVE  /\ Exact(r, stand)
               /\ MatchesBehind(stand, r.cur.target) \subseteq MatchesBehind(Start, r.cur.target)
    <3>1. At(dir, link, c, stand) BY <1>4, <2>2, <2>3 DEF At
    <3>2. stand[1] \in Nat /\ stand[1] >= 1 /\ stand[2] \in Nat /\ stand[1] <= stand[1]
      BY <2>2, <2>3, PlaceIs
    <3>3. Exact(r, stand) BY <1>1, <1>4, <2>2, <2>3, <3>1, NextMatchExact
    <3> QED BY <3>2, <3>3, BehindIs
  <2>4. all /\ stand # Start => /\ stand # Lost /\ ChainIsWhole
                               /\ owed \subseteq MatchesBehind(stand, r.cur.target)
    <3> SUFFICES ASSUME all PROVE /\ stand # Lost /\ ChainIsWhole
                                  /\ owed \subseteq MatchesBehind(stand, r.cur.target)
      OBVIOUS
    <3>1. stand # Lost /\ t = cur.target OBVIOUS
    <3> QED BY <2>1, <2>2, <3>1, OwesIs
  <2> HIDE DEF r, all
  <2> QED BY <1>3, <1>7, <2>1, <2>3, <2>4, ReturnedKeeps
<1> QED BY <1>2, <1>5, <1>6, <1>7

(***************************************************************************)
(* Entries added and replaced: the directories d with one entry of one     *)
(* page changed, or one entry more in one file.                            *)
(***************************************************************************)
LEMMA Excepted ==
  ASSUME NEW T, NEW s \in Seq(T), NEW j \in 1 .. Len(s), NEW e \in T
  PROVE  LET q == [s EXCEPT ![j] = e] IN
         /\ q \in Seq(T) /\ Len(q) = Len(s) /\ Len(s) \in Nat
         /\ \A k \in 1 .. Len(s) : q[k] = IF k = j THEN e ELSE s[k]
OBVIOUS

LEMMA Appended ==
  ASSUME NEW T, NEW s \in Seq(T), NEW e \in T
  PROVE  /\ Append(s, e) \in Seq(T) /\ Len(Append(s, e)) = Len(s) + 1 /\ Len(s) \in Nat
         /\ Append(s, e)[Len(s) + 1] = e
         /\ \A k \in 1 .. Len(s) : Append(s, e)[k] = s[k]
OBVIOUS

PagesOfAFile(f) ==
  /\ f \in Seq(Leaf)
  /\ Len(f) \in 1 .. MaxDirPages
  /\ \A j \in 1 .. Len(f) : Len(f[j]) <= EntriesPerPage

LEMMA DirsAre ==
  ASSUME NEW d, Dirs(d), NEW i \in Files
  PROVE  PagesOfAFile(d[i])
BY DEF Dirs, PagesOfAFile

LEMMA OneFile ==
  ASSUME NEW d, Dirs(d), NEW i \in Files, NEW f, PagesOfAFile(f)
  PROVE  Dirs([d EXCEPT ![i] = f])
<1> DEFINE q == [d EXCEPT ![i] = f]
<1>1. \A x \in Files : q[x] = IF x = i THEN f ELSE d[x] BY DEF Dirs
<1>2. q \in [Files -> Seq(Leaf)] BY DEF Dirs, PagesOfAFile
<1>3. \A x \in Files : PagesOfAFile(q[x]) BY <1>1, DirsAre
<1> HIDE DEF q
<1>4. Dirs(q) BY <1>2, <1>3 DEF Dirs, PagesOfAFile
<1> QED BY <1>4 DEF q

(* The directories e are d, with x at entry s of page j of file i.         *)
OneEntry(d, e, i, j, s, x) ==
  /\ Dirs(e)
  /\ \A y \in Files : Len(e[y]) = Len(d[y])
  /\ \A y \in Files : \A n \in 1 .. Len(d[y]) :
       /\ Len(e[y][n]) = Len(d[y][n])
       /\ \A m \in 1 .. Len(d[y][n]) :
            e[y][n][m] = IF y = i /\ n = j /\ m = s THEN x ELSE d[y][n][m]

LEMMA OnePage ==
  ASSUME NEW f, PagesOfAFile(f), NEW j \in 1 .. Len(f), NEW g \in Leaf, Len(g) <= EntriesPerPage
  PROVE  /\ PagesOfAFile([f EXCEPT ![j] = g])
         /\ Len([f EXCEPT ![j] = g]) = Len(f)
         /\ \A k \in 1 .. Len(f) : [f EXCEPT ![j] = g][k] = IF k = j THEN g ELSE f[k]
<1> DEFINE q == [f EXCEPT ![j] = g]
<1>1. f \in Seq(Leaf) BY DEF PagesOfAFile
<1>2. /\ q \in Seq(Leaf) /\ Len(q) = Len(f) /\ Len(f) \in Nat
      /\ \A k \in 1 .. Len(f) : q[k] = IF k = j THEN g ELSE f[k]
  BY <1>1, Excepted
<1> HIDE DEF q
<1>3. \A k \in 1 .. Len(q) : Len(q[k]) <= EntriesPerPage BY <1>2 DEF PagesOfAFile
<1>4. PagesOfAFile(q) BY <1>2, <1>3 DEF PagesOfAFile
<1> QED BY <1>2, <1>4 DEF q

LEMMA OneEntryIs ==
  ASSUME NEW d, Dirs(d), NEW i \in Files, NEW j \in 1 .. Len(d[i]),
         NEW s \in 1 .. Len(d[i][j]), NEW x \in Entry
  PROVE  OneEntry(d, [d EXCEPT ![i][j][s] = x], i, j, s, x)
<1> DEFINE g == [d[i][j] EXCEPT ![s] = x]
           f == [d[i] EXCEPT ![j] = g]
           e == [d EXCEPT ![i] = f]
<1>1. [d EXCEPT ![i][j][s] = x] = e OBVIOUS
<1>2. PagesOfAFile(d[i]) BY DirsAre
<1>3. d[i][j] \in Seq(Entry) /\ Len(d[i][j]) <= EntriesPerPage
  <2>1. d[i] \in Seq(Leaf) BY <1>2 DEF PagesOfAFile
  <2>2. d[i][j] \in Leaf BY <2>1
  <2> QED BY <1>2, <2>2 DEF PagesOfAFile, Leaf
<1>4. /\ g \in Seq(Entry) /\ Len(g) = Len(d[i][j])
      /\ \A m \in 1 .. Len(d[i][j]) : g[m] = IF m = s THEN x ELSE d[i][j][m]
  BY <1>3, Excepted
<1> HIDE DEF g
<1>5. g \in Leaf /\ Len(g) <= EntriesPerPage BY <1>3, <1>4 DEF Leaf
<1>6. /\ PagesOfAFile(f) /\ Len(f) = Len(d[i])
      /\ \A k \in 1 .. Len(d[i]) : f[k] = IF k = j THEN g ELSE d[i][k]
  BY <1>2, <1>5, OnePage
<1> HIDE DEF f
<1>7. Dirs(e) BY <1>6, OneFile
<1>8. \A y \in Files : e[y] = IF y = i THEN f ELSE d[y] BY DEF Dirs
<1> HIDE DEF e
<1>9. \A y \in Files : Len(e[y]) = Len(d[y]) BY <1>6, <1>8
<1>10. ASSUME NEW y \in Files, NEW n \in 1 .. Len(d[y])
       PROVE  e[y][n] = IF y = i /\ n = j THEN g ELSE d[y][n]
  BY <1>6, <1>8
<1>11. OneEntry(d, e, i, j, s, x) BY <1>4, <1>7, <1>9, <1>10 DEF OneEntry
<1> QED BY <1>1, <1>11

(* The directories e are d with one page more, or one entry more, at the   *)
(* end of file i.                                                          *)
OneMore(d, e, i) ==
  /\ Dirs(e)
  /\ \A y \in Files : y # i => e[y] = d[y]
  /\ Len(d[i]) <= Len(e[i])
  /\ \A n \in 1 .. Len(d[i]) :
       /\ Len(d[i][n]) <= Len(e[i][n])
       /\ \A m \in 1 .. Len(d[i][n]) : e[i][n][m] = d[i][n][m]

LEMMA WithEntryIs ==
  ASSUME Shape, NEW i \in Files, ~NoMorePages(i), NEW x \in Entry
  PROVE  /\ OneMore(dir, WithEntry(dir, i, x), i)
         /\ ~Full(i) => Len(WithEntry(dir, i, x)[i]) = Len(dir[i])
<1> DEFINE n == NPages(i)
           pg == Page(LastPage(i))
           g == Append(pg, x)
           f == IF Full(i) THEN Append(dir[i], <<x>>) ELSE [dir[i] EXCEPT ![n] = g]
           e == [dir EXCEPT ![i] = f]
<1>1. Dirs(dir) /\ PagesOfAFile(dir[i]) BY ChainFacts, DirsAre
<1>2. pg = dir[i][n] BY DEF Page, LastPage
<1>3. WithEntry(dir, i, x) = e BY <1>2 DEF WithEntry
<1>4. n = Len(dir[i]) /\ n \in Nat /\ 1 <= n /\ n \in 1 .. n BY <1>1, DirIs DEF NPages
<1>5. dir[i] \in Seq(Leaf) BY <1>1 DEF PagesOfAFile
<1>6. pg \in Leaf BY <1>2, <1>4, <1>5
<1>7. pg \in Seq(Entry) BY <1>6 DEF Leaf
<1>8. /\ g \in Seq(Entry) /\ Len(g) = Len(pg) + 1 /\ Len(pg) \in Nat
      /\ \A m \in 1 .. Len(pg) : g[m] = pg[m]
  BY <1>7, Appended
<1>9. g \in Leaf BY <1>8 DEF Leaf
<1>10. /\ PagesOfAFile(f)
       /\ Len(dir[i]) <= Len(f)
       /\ \A k \in 1 .. Len(dir[i]) :
            /\ Len(dir[i][k]) <= Len(f[k])
            /\ \A m \in 1 .. Len(dir[i][k]) : f[k][m] = dir[i][k][m]
       /\ ~Full(i) => Len(f) = Len(dir[i])
  <2>1. CASE Full(i)
    <3> DEFINE s == dir[i]
               new == <<x>>
    <3>1. f = Append(s, new) BY <2>1
    <3>2. new \in Leaf /\ Len(new) = 1 BY DEF Leaf
    <3>3. n < MaxDirPages BY <1>4, <2>1, XdfSearchAssumption DEF NoMorePages
    <3> HIDE DEF f, s, new, n
    <3>4. /\ f \in Seq(Leaf) /\ Len(f) = Len(s) + 1 /\ f[Len(s) + 1] = new
          /\ \A k \in 1 .. Len(s) : f[k] = s[k]
      BY <1>5, <3>1, <3>2, Appended DEF s
    <3>5. Len(s) = n BY <1>4 DEF s
    <3>6. Len(f) \in 1 .. MaxDirPages /\ Len(s) <= Len(f)
      BY <1>4, <3>3, <3>4, <3>5, XdfSearchAssumption
    <3>7. ASSUME NEW k \in 1 .. Len(f) PROVE Len(f[k]) <= EntriesPerPage
      <4>1. k = Len(s) + 1 \/ k \in 1 .. Len(s) BY <1>4, <3>4, <3>5
      <4>2. CASE k = Len(s) + 1
        <5>1. f[k] = new BY <3>4, <4>2
        <5>2. Len(f[k]) = 1 BY <3>2, <5>1
        <5>3. 1 <= EntriesPerPage BY XdfSearchAssumption
        <5> QED BY <5>2, <5>3
      <4>3. CASE k \in 1 .. Len(s) BY <1>1, <3>4, <4>3 DEF PagesOfAFile, s
      <4> QED BY <4>1, <4>2, <4>3
    <3>8. PagesOfAFile(f) BY <3>4, <3>6, <3>7 DEF PagesOfAFile
    <3>9. \A k \in 1 .. Len(s) : Len(s[k]) <= Len(s[k])
      <4> SUFFICES ASSUME NEW k \in 1 .. Len(s) PROVE Len(s[k]) <= Len(s[k]) OBVIOUS
      <4>1. s[k] \in Seq(Entry) BY <1>5 DEF s, Leaf
      <4>2. Len(s[k]) \in Nat BY <4>1
      <4> QED BY <4>2
    <3> QED BY <2>1, <3>4, <3>6, <3>8, <3>9 DEF s
  <2>2. CASE ~Full(i)
    <3> DEFINE s == dir[i]
    <3>1. f = [s EXCEPT ![n] = g] BY <2>2
    <3>2. Len(g) <= EntriesPerPage
      <4> HIDE DEF g, pg
      <4>1. Len(pg) < EntriesPerPage BY <1>8, <2>2, XdfSearchAssumption DEF Full, pg
      <4> QED BY <1>8, <4>1, XdfSearchAssumption
    <3>3. n \in 1 .. Len(s) BY <1>4
    <3> HIDE DEF f, g, n
    <3>4. /\ PagesOfAFile(f) /\ Len(f) = Len(s)
          /\ \A k \in 1 .. Len(s) : f[k] = IF k = n THEN g ELSE s[k]
      BY <1>1, <1>9, <3>1, <3>2, <3>3, OnePage
    <3>5. Len(s) \in Nat /\ Len(s) <= Len(f) BY <1>4, <3>4
    <3>6. ASSUME NEW k \in 1 .. Len(s)
          PROVE  Len(s[k]) <= Len(f[k]) /\ \A m \in 1 .. Len(s[k]) : f[k][m] = s[k][m]
      <4>1. CASE k = n
        <5>1. f[k] = g /\ s[k] = pg BY <1>2, <3>4, <4>1
        <5> HIDE DEF pg, s
        <5>2. Len(pg) <= Len(g) BY <1>8
        <5> QED BY <1>8, <5>1, <5>2
      <4>2. CASE k # n
        <5>1. f[k] = s[k] BY <3>4, <4>2
        <5>2. s[k] \in Seq(Entry) BY <1>5 DEF Leaf
        <5>3. Len(s[k]) \in Nat BY <5>2
        <5> QED BY <5>1, <5>3
      <4> QED BY <4>1, <4>2
    <3> HIDE DEF s
    <3>7. PagesOfAFile(f) /\ Len(s) <= Len(f) /\ Len(f) = Len(s) BY <3>4, <3>5
    <3> QED BY <3>6, <3>7 DEF s
  <2> QED BY <2>1, <2>2
<1> HIDE DEF f, g, pg, n
<1>11. Dirs(e) BY <1>1, <1>10, OneFile
<1>12. \A y \in Files : e[y] = IF y = i THEN f ELSE dir[y] BY <1>1 DEF Dirs
<1> HIDE DEF e
<1>13. OneMore(dir, e, i) BY <1>10, <1>11, <1>12 DEF OneMore
<1> QED BY <1>3, <1>10, <1>12, <1>13

(***************************************************************************)
(* c_xdfput in file 1: the search stands nowhere afterwards.               *)
(***************************************************************************)
LEMMA DisturbedKeeps ==
  ASSUME Shape', IsPosition(cur'), Disturbed, Wrote
  PROVE  IInv'
<1>1. stand' = Lost /\ owed' = {} /\ last'.op = "write" BY DEF Disturbed, Wrote
<1>2. Stands' BY <1>1 DEF Stands, Standing
<1>3. SearchIsExact' /\ NoMatchIsPassedOver' /\ NothingIsMissed'
  BY <1>1 DEF SearchIsExact, NoMatchIsPassedOver, NothingIsMissed
<1> QED BY <1>2, <1>3 DEF IInv

LEMMA ShapeKept ==
  ASSUME Shape, Dirs(dir'), link' = link, NEW i, after' = after \/ after' = Unlinked(i)
  PROVE  Shape'
<1>1. /\ Links(link) /\ after \in [Files -> Int]
      /\ \A x \in Files : after[x] = NoFile \/ after[x] = link[x]
  BY DEF Shape, Shaped
<1>2. /\ after' \in [Files -> Int]
      /\ \A x \in Files : after'[x] = NoFile \/ after'[x] = after[x]
  BY <1>1 DEF Unlinked, NoFile
<1>3. \A x \in Files : after'[x] = NoFile \/ after'[x] = link'[x] BY <1>1, <1>2
<1>4. Links(link') BY <1>1
<1> QED BY <1>2, <1>3, <1>4 DEF Shape, Shaped

LEMMA AtLastPagePosition ==
  ASSUME NEW c, IsPosition(c)
  PROVE  IsPosition(AtLastPage(c))
<1> DEFINE p == LastPage(1)
           n == NPages(1)
           q == [c EXCEPT !.page = p, !.pageno = n]
<1>1. AtLastPage(c) = q BY DEF AtLastPage
<1> HIDE DEF p, n
<1>2. DOMAIN q = Fields /\ q = [f \in Fields |-> q[f]] BY DEF IsPosition
<1> HIDE DEF q
<1> QED BY <1>1, <1>2 DEF IsPosition

LEMMA AtEndPosition ==
  ASSUME NEW c, IsPosition(c)
  PROVE  IsPosition(AtEnd(c))
<1> DEFINE p == IF Full(1) THEN <<1, NPages(1) + 1>> ELSE LastPage(1)
           e == IF Full(1) THEN 1 ELSE Len(Page(p)) + 1
           b == AtLastPage(c)
           q == [b EXCEPT !.page = p, !.at = p, !.entry = e]
<1>1. AtEnd(c) = q BY DEF AtEnd
<1>2. IsPosition(b) BY AtLastPagePosition
<1> HIDE DEF p, e, b
<1>3. DOMAIN q = Fields /\ q = [f \in Fields |-> q[f]] BY <1>2 DEF IsPosition
<1> HIDE DEF q
<1> QED BY <1>1, <1>3 DEF IsPosition

LEMMA PutNewKeeps ==
  ASSUME IInv, NEW k \in Keys, PutNew(k)
  PROVE  IInv'
<1>1. Shape /\ IsPosition(cur) BY DEF IInv
<1>2. Disturbed /\ Wrote /\ link' = link BY DEF PutNew
<1>3. CASE NoMorePages(1)
  <2>1. cur' = AtLastPage(cur) /\ dir' = dir /\ after' = after BY <1>3 DEF PutNew
  <2>2. IsPosition(cur') BY <1>1, <2>1, AtLastPagePosition
  <2>3. Dirs(dir') BY <1>1, <2>1, ChainFacts
  <2>4. Shape' BY <1>1, <1>2, <2>1, <2>3, ShapeKept
  <2> QED BY <1>2, <2>2, <2>4, DisturbedKeeps
<1>4. CASE ~NoMorePages(1)
  <2>1. cur' = AtEnd(cur) /\ dir' = WithEntry(dir, 1, k) /\ after' = Unlinked(1)
    BY <1>4 DEF PutNew
  <2>2. IsPosition(cur') BY <1>1, <2>1, AtEndPosition
  <2>3. 1 \in Files /\ k \in Entry BY <1>1, ChainFacts, OffFirst DEF Entry
  <2>4. Dirs(dir') BY <1>1, <1>4, <2>1, <2>3, WithEntryIs DEF OneMore
  <2>5. Shape' BY <1>1, <1>2, <2>1, <2>4, ShapeKept
  <2> QED BY <1>2, <2>2, <2>5, DisturbedKeeps
<1> QED BY <1>3, <1>4

(* The record of a handle is there.                                        *)
Live(h) ==
  /\ PageOf(h) # NULL
  /\ h[2] <= Len(Page(PageOf(h)))
  /\ Page(PageOf(h))[h[2]] # Gone

LEMMA Named ==
  ASSUME Shape, NEW h \in Places, Live(h)
  PROVE  LET p == PageOf(h) IN
         /\ IsPage(p) /\ p[1] \in Files /\ p[2] \in 1 .. Len(dir[p[1]])
         /\ h[2] \in 1 .. Len(dir[p[1]][p[2]])
         /\ Page(p) = dir[p[1]][p[2]]
<1> DEFINE p == PageOf(h)
<1>1. IsPage(p) BY PageOfPage DEF Live
<1>2. p[1] \in Files /\ p[2] \in 1 .. Len(dir[p[1]]) BY <1>1 DEF IsPage, NPages
<1>3. Page(p) = dir[p[1]][p[2]] BY DEF Page
<1>4. h[2] <= Len(Page(p)) BY DEF Live
<1>5. Len(Page(p)) \in Nat BY <1>1, PageLen
<1>6. h[2] \in Nat /\ h[2] >= 1 BY PlaceIs
<1> HIDE DEF p
<1>7. h[2] \in 1 .. Len(Page(p)) BY <1>4, <1>5, <1>6
<1> QED BY <1>1, <1>2, <1>3, <1>7 DEF p

(* A record erased or replaced where it is.                                *)
LEMMA ReplaceIs ==
  ASSUME Shape, NEW h \in Places, Live(h), NEW x \in Entry
  PROVE  LET p == PageOf(h) IN OneEntry(dir, Replace(dir, p, h[2], x), p[1], p[2], h[2], x)
<1> DEFINE p == PageOf(h)
<1>1. /\ p[1] \in Files /\ p[2] \in 1 .. Len(dir[p[1]])
      /\ h[2] \in 1 .. Len(dir[p[1]][p[2]])
  BY Named
<1>2. Dirs(dir) BY ChainFacts
<1> HIDE DEF p
<1>3. OneEntry(dir, [dir EXCEPT ![p[1]][p[2]][h[2]] = x], p[1], p[2], h[2], x)
  BY <1>1, <1>2, OneEntryIs
<1> QED BY <1>3 DEF Replace, p

(* A new entry counted in file 1, and the record of the handle erased.     *)
LEMMA MovedIs ==
  ASSUME Shape, NEW h \in Places, Live(h), ~NoMorePages(1), NEW x \in Entry
  PROVE  LET p == PageOf(h)
             d == WithEntry(dir, 1, x)
         IN OneMore(dir, d, 1) /\ OneEntry(d, Erase(d, p, h[2]), p[1], p[2], h[2], Gone)
<1> DEFINE p == PageOf(h)
           d == WithEntry(dir, 1, x)
           i == p[1]
           j == p[2]
           s == h[2]
<1>1. i \in Files /\ j \in 1 .. Len(dir[i]) /\ s \in 1 .. Len(dir[i][j]) BY Named
<1>2. 1 \in Files BY ChainFacts, OffFirst
<1>3. OneMore(dir, d, 1) BY <1>2, WithEntryIs
<1> HIDE DEF p, d, i, j, s
<1>4. Len(dir[i]) <= Len(d[i]) /\ Len(dir[i][j]) <= Len(d[i][j])
  <2>1. CASE i = 1 BY <1>1, <1>3, <2>1 DEF OneMore
  <2>2. CASE i # 1
    <3>1. d[i] = dir[i] BY <1>1, <1>3, <2>2 DEF OneMore
    <3>2. Len(dir[i]) \in Nat BY <1>1, ChainFacts, DirIs
    <3>3. Len(dir[i][j]) \in Nat
      <4>1. dir[i] \in Seq(Leaf) BY <1>1, ChainFacts, DirIs
      <4>2. dir[i][j] \in Leaf BY <1>1, <4>1
      <4> QED BY <4>2 DEF Leaf
    <3> QED BY <3>1, <3>2, <3>3
  <2> QED BY <2>1, <2>2
<1>5. Dirs(d) BY <1>3 DEF OneMore
<1>6. j \in 1 .. Len(d[i])
  <2> DEFINE a == Len(dir[i])
             b == Len(d[i])
  <2>1. a \in Nat /\ b \in Nat BY <1>1, <1>5, ChainFacts, DirIs
  <2>2. a <= b /\ j \in 1 .. a BY <1>1, <1>4
  <2> HIDE DEF a, b
  <2>3. j \in 1 .. b BY <2>1, <2>2
  <2> QED BY <2>3 DEF b
<1>7. s \in 1 .. Len(d[i][j])
  <2> DEFINE a == Len(dir[i][j])
             b == Len(d[i][j])
  <2>1. a \in Nat
    <3>1. dir[i] \in Seq(Leaf) BY <1>1, ChainFacts, DirIs
    <3>2. dir[i][j] \in Leaf BY <1>1, <3>1
    <3> QED BY <3>2 DEF Leaf
  <2>2. b \in Nat
    <3>1. d[i] \in Seq(Leaf) BY <1>1, <1>5, DirIs
    <3>2. d[i][j] \in Leaf BY <1>6, <3>1
    <3> QED BY <3>2 DEF Leaf
  <2>3. a <= b /\ s \in 1 .. a BY <1>1, <1>4
  <2> HIDE DEF a, b
  <2>4. s \in 1 .. b BY <2>1, <2>2, <2>3
  <2> QED BY <2>4 DEF b
<1>8. OneEntry(d, [d EXCEPT ![i][j][s] = Gone], i, j, s, Gone)
  <2>1. Gone \in Entry BY DEF Entry
  <2> QED BY <1>1, <1>5, <1>6, <1>7, <2>1, OneEntryIs
<1>9. OneEntry(d, Erase(d, p, s), i, j, s, Gone) BY <1>8 DEF Erase, i, j
<1> QED BY <1>3, <1>9 DEF d, p, i, j, s

(* The four outcomes of PutOver.                                           *)
OverRefused == dir' = dir /\ after' = after

OverThere(h, k) ==
  Live(h) /\ dir' = Replace(dir, PageOf(h), h[2], k) /\ after' = after

OverMoved(h, k) ==
  /\ Live(h) /\ ~NoMorePages(1)
  /\ dir' = Erase(WithEntry(dir, 1, k), PageOf(h), h[2]) /\ after' = Unlinked(1)

OverOrphan(h) ==
  /\ Live(h) /\ PageOf(h)[1] # 1 /\ Full(1) /\ ~NoMorePages(1)
  /\ dir' = WithEntry(dir, 1, Blank) /\ after' = Unlinked(1)

LEMMA PutOverIs ==
  ASSUME NEW h, NEW k, NEW same_length \in BOOLEAN, PutOver(h, k, same_length)
  PROVE  /\ Disturbed /\ Wrote /\ link' = link
         /\ OverRefused \/ OverThere(h, k) \/ OverMoved(h, k) \/ OverOrphan(h)
<1> DEFINE p == PageOf(h)
           refused == IF p = NULL THEN ERR_BAD_PAGENO
                      ELSE IF h[2] > Len(Page(p)) + 1 THEN ERR_BAD_HNDL
                      ELSE IF Slot(p, h[2]) = Blank THEN ERR_SPECIAL
                      ELSE IF Slot(p, h[2]) = Gone THEN ERR_DELETED
                      ELSE IF ~same_length /\ NoMorePages(1) THEN ERR_DIR_FULL ELSE Ok
           orphan == p # NULL /\ p[1] # 1 /\ Full(1)
<1>1. Disturbed /\ Wrote /\ link' = link BY DEF PutOver
<1>2. refused = Ok => Live(h) /\ (same_length \/ ~NoMorePages(1))
  <2> SUFFICES ASSUME refused = Ok PROVE Live(h) /\ (same_length \/ ~NoMorePages(1)) OBVIOUS
  <2>1. /\ p # NULL /\ Slot(p, h[2]) \notin {Gone, Blank}
        /\ (same_length \/ ~NoMorePages(1))
    BY DEF Ok, ERR_BAD_PAGENO, ERR_BAD_HNDL, ERR_SPECIAL, ERR_DELETED, ERR_DIR_FULL
  <2>2. h[2] <= Len(Page(p)) /\ Page(p)[h[2]] # Gone BY <2>1 DEF Slot
  <2> QED BY <2>1, <2>2 DEF Live
<1>3. \/ refused # Ok /\ dir' = dir /\ after' = after
      \/ refused = Ok /\ same_length /\ dir' = Replace(dir, p, h[2], k) /\ after' = after
      \/ /\ refused = Ok /\ ~same_length /\ ~orphan
         /\ dir' = Erase(WithEntry(dir, 1, k), p, h[2]) /\ after' = Unlinked(1)
      \/ /\ refused = Ok /\ ~same_length /\ orphan
         /\ dir' = WithEntry(dir, 1, Blank) /\ after' = Unlinked(1)
  BY DEF PutOver
<1> HIDE DEF refused, p
<1>4. OverRefused \/ OverThere(h, k) \/ OverMoved(h, k) \/ OverOrphan(h)
  BY <1>2, <1>3 DEF OverRefused, OverThere, OverMoved, OverOrphan, p
<1> QED BY <1>1, <1>4

LEMMA PutOverPosition ==
  ASSUME NEW h, NEW k, NEW same_length, PutOver(h, k, same_length), IsPosition(cur)
  PROVE  IsPosition(cur')
<1> DEFINE p == PageOf(h)
           e == h[2]
           c == [cur EXCEPT !.page = p, !.at = p, !.entry = e]
           a == [cur EXCEPT !.page = p]
           b == [cur EXCEPT !.page = NULL]
<1>1. cur' \in {AtLastPage(c), c, cur, a, b, AtEnd(c)} BY DEF PutOver
<1> HIDE DEF p, e
<1>2. IsPosition(c)
  <2>1. DOMAIN c = Fields /\ c = [f \in Fields |-> c[f]] BY DEF IsPosition
  <2> HIDE DEF c
  <2> QED BY <2>1 DEF IsPosition
<1>3. IsPosition(b)
  <2>1. DOMAIN b = Fields /\ b = [f \in Fields |-> b[f]] BY DEF IsPosition
  <2> HIDE DEF b
  <2> QED BY <2>1 DEF IsPosition
<1>5. IsPosition(a)
  <2>1. DOMAIN a = Fields /\ a = [f \in Fields |-> a[f]] BY DEF IsPosition
  <2> HIDE DEF a
  <2> QED BY <2>1 DEF IsPosition
<1> HIDE DEF a, b, c
<1>4. IsPosition(AtLastPage(c)) /\ IsPosition(AtEnd(c)) BY <1>2, AtLastPagePosition, AtEndPosition
<1> QED BY <1>1, <1>2, <1>3, <1>4, <1>5

LEMMA PutOverKeeps ==
  ASSUME IInv, NEW h \in Places, NEW k \in Keys, NEW same_length \in BOOLEAN,
         PutOver(h, k, same_length)
  PROVE  IInv'
<1>1. Shape /\ IsPosition(cur) BY DEF IInv
<1>2. IsPosition(cur') BY <1>1, PutOverPosition
<1>3. /\ Disturbed /\ Wrote /\ link' = link
      /\ OverRefused \/ OverThere(h, k) \/ OverMoved(h, k) \/ OverOrphan(h)
  BY PutOverIs
<1>4. k \in Entry /\ Blank \in Entry BY DEF Entry
<1>5. CASE OverRefused
  <2>1. Dirs(dir') /\ after' = after BY <1>1, <1>5, ChainFacts DEF OverRefused
  <2> QED BY <1>1, <1>2, <1>3, <2>1, ShapeKept, DisturbedKeeps
<1>6. CASE OverThere(h, k)
  <2>1. Dirs(dir') /\ after' = after BY <1>1, <1>3, <1>4, <1>6, ReplaceIs DEF OverThere, OneEntry
  <2> QED BY <1>1, <1>2, <1>3, <2>1, ShapeKept, DisturbedKeeps
<1>7. CASE OverMoved(h, k)
  <2>1. Dirs(dir') /\ after' = Unlinked(1) BY <1>1, <1>3, <1>4, <1>7, MovedIs DEF OverMoved, OneEntry
  <2> QED BY <1>1, <1>2, <1>3, <2>1, ShapeKept, DisturbedKeeps
<1>8. CASE OverOrphan(h)
  <2>1. 1 \in Files BY <1>1, ChainFacts, OffFirst
  <2>2. Dirs(dir') /\ after' = Unlinked(1)
    BY <1>1, <1>4, <1>8, <2>1, WithEntryIs DEF OverOrphan, OneMore
  <2> QED BY <1>1, <1>2, <1>3, <2>2, ShapeKept, DisturbedKeeps
<1> QED BY <1>3, <1>5, <1>6, <1>7, <1>8

(***************************************************************************)
(* The other writes: the search stands where it stood, and what it owes is *)
(* where it was.                                                           *)
(***************************************************************************)
EntryStays(d, e, p, s) ==
  s \in 1 .. Len(d[p[1]][p[2]]) =>
    s <= Len(e[p[1]][p[2]]) /\ e[p[1]][p[2]][s] = d[p[1]][p[2]][s]

LEMMA OwesKept ==
  ASSUME NEW d, NEW l, NEW e, NEW m, Dirs(d) /\ Dirs(e) /\ Links(l) /\ Links(m),
         NEW g,
         \A p : Spot(d, l, p, g[1]) => Spot(e, m, p, g[1]) /\ EntryStays(d, e, p, g[2])
  PROVE  \A h, t : Owes(d, l, h, t, g) => Owes(e, m, h, t, g)
<1> TAKE h, t
<1> HAVE Owes(d, l, h, t, g)
<1>1. /\ g \in Places /\ Before(h, g)
      /\ g[1] <= Len(Pages(d, l)) /\ g[2] <= Len(Pages(d, l)[g[1]])
      /\ Matches(Pages(d, l)[g[1]][g[2]], t)
  BY DEF Owes
<1>2. g[1] \in 1 .. Len(Pages(d, l)) BY <1>1, PlaceIs, PagesAre
<1>3. PICK p : Spot(d, l, p, g[1]) BY <1>2, SpotExists
<1>4. /\ Pages(d, l)[g[1]] = d[p[1]][p[2]]
      /\ p[1] \in Files /\ p[2] \in 1 .. Len(d[p[1]])
  <2>1. Pages(d, l)[g[1]] = d[p[1]][p[2]] BY <1>3, SpotPage
  <2>2. p[1] \in Files /\ p[2] \in 1 .. Len(d[p[1]]) BY <1>3 DEF Spot
  <2> QED BY <2>1, <2>2
<1>5. Spot(e, m, p, g[1]) /\ EntryStays(d, e, p, g[2]) BY <1>3
<1>6. Pages(e, m)[g[1]] = e[p[1]][p[2]] /\ g[1] \in 1 .. Len(Pages(e, m)) BY <1>5, SpotPage
<1>7. g[1] <= Len(Pages(e, m)) BY <1>1, <1>6, PlaceIs, PagesAre
<1> DEFINE x == d[p[1]][p[2]]
           y == e[p[1]][p[2]]
<1>8. Len(x) \in Nat
  <2>1. d[p[1]] \in Seq(Leaf) BY <1>4, DirIs
  <2>2. x \in Leaf BY <1>4, <2>1
  <2> QED BY <2>2 DEF Leaf
<1>9. g[2] <= Len(x) /\ g[2] \in Nat /\ g[2] >= 1 BY <1>1, <1>4, PlaceIs
<1>10. g[2] \in 1 .. Len(x) => g[2] <= Len(y) /\ y[g[2]] = x[g[2]] BY <1>5 DEF EntryStays
<1> HIDE DEF x, y
<1>11. g[2] <= Len(y) /\ y[g[2]] = x[g[2]] BY <1>8, <1>9, <1>10
<1>12. g[2] <= Len(Pages(e, m)[g[1]]) /\ Matches(Pages(e, m)[g[1]][g[2]], t)
  BY <1>1, <1>4, <1>6, <1>11 DEF x, y
<1> QED BY <1>1, <1>7, <1>12 DEF Owes

LEMMA StandsKept ==
  ASSUME Shape, Shape', Stands, cur' = cur, stand' = stand, owed' \subseteq owed,
         stand # Lost => Whole(link', after') /\ Spot(dir', link', cur.page, stand[1]),
         stand # Lost => \A g \in owed' : \A p : Spot(dir, link, p, g[1]) =>
            Spot(dir', link', p, g[1]) /\ EntryStays(dir, dir', p, g[2])
  PROVE  Stands'
<1>1. CASE stand = Lost
  <2>1. owed = {} BY <1>1 DEF Stands, Standing
  <2>2. owed' = {} /\ stand' = Lost BY <1>1, <2>1
  <2> QED BY <2>2 DEF Stands, Standing
<1>2. CASE stand # Lost
  <2>1. /\ stand \in Places /\ At(dir, link, cur, stand)
        /\ \A g \in owed : Owes(dir, link, stand, cur.target, g)
    BY <1>2 DEF Stands, Standing
  <2>2. At(dir', link', cur', stand') BY <1>2, <2>1 DEF At
  <2>3. Dirs(dir) /\ Links(link) /\ Dirs(dir') /\ Links(link') BY DEF Shape, Shaped
  <2>4. ASSUME NEW g \in owed' PROVE Owes(dir', link', stand', cur'.target, g)
    <3>1. Owes(dir, link, stand, cur.target, g) BY <2>1
    <3>2. \A p : Spot(dir, link, p, g[1]) =>
            Spot(dir', link', p, g[1]) /\ EntryStays(dir, dir', p, g[2])
      BY <1>2
    <3>3. Owes(dir', link', stand, cur.target, g) BY <2>3, <3>1, <3>2, OwesKept
    <3> QED BY <3>3
  <2>5. stand' # Lost /\ stand' \in Places /\ Whole(link', after') BY <1>2, <2>1
  <2> QED BY <2>2, <2>4, <2>5 DEF Stands, Standing
<1> QED BY <1>1, <1>2

LEMMA WroteKeeps ==
  ASSUME Shape', IsPosition(cur'), Stands', Wrote
  PROVE  IInv'
<1>1. last'.op = "write" BY DEF Wrote
<1>2. SearchIsExact' /\ NoMatchIsPassedOver' /\ NothingIsMissed'
  BY <1>1 DEF SearchIsExact, NoMatchIsPassedOver, NothingIsMissed
<1> QED BY <1>2 DEF IInv

LEMMA StandsAt ==
  ASSUME Stands, stand # Lost
  PROVE  /\ ChainIsWhole /\ Whole(link, after) /\ stand \in Places
         /\ Spot(dir, link, cur.page, stand[1])
         /\ \A g \in owed : g \in Places /\ Before(stand, g)
BY DEF Stands, Standing, Whole, ChainIsWhole, At, Owes

(* An entry more in file i, when no other file is cut off: every page and  *)
(* every entry is where it was.                                            *)
LEMMA MoreSpot ==
  ASSUME Shape, NEW i \in Files, ~NoMorePages(i), NEW x \in Entry,
         ~(Full(i) /\ link[i] # NoFile), NEW p, NEW n, Spot(dir, link, p, n)
  PROVE  Spot(WithEntry(dir, i, x), link, p, n)
<1> DEFINE e == WithEntry(dir, i, x)
<1>1. OneMore(dir, e, i) /\ (~Full(i) => Len(e[i]) = Len(dir[i])) BY WithEntryIs
<1> HIDE DEF e
<1>2. p[1] \in Files /\ OnChain(link, p[1]) BY DEF Spot
<1>3. Len(dir[p[1]]) <= Len(e[p[1]])
  <2>1. CASE p[1] = i BY <1>1, <2>1 DEF OneMore
  <2>2. CASE p[1] # i
    <3>1. e[p[1]] = dir[p[1]] BY <1>1, <1>2, <2>2 DEF OneMore
    <3>2. Len(dir[p[1]]) \in Nat BY <1>2, ChainFacts, DirIs
    <3> QED BY <3>1, <3>2
  <2> QED BY <2>1, <2>2
<1>4. SameBefore(dir, e, p[1])
  <2> SUFFICES ASSUME NEW j \in Files, j < p[1] PROVE Len(e[j]) = Len(dir[j])
    BY DEF SameBefore
  <2>1. CASE j # i BY <1>1, <2>1 DEF OneMore
  <2>2. CASE j = i
    <3>1. link[j] = j + 1 BY <1>2 DEF OnChain, Files
    <3>2. link[j] # NoFile BY <3>1 DEF Files, NoFile
    <3>3. ~Full(i) BY <2>2, <3>2
    <3> QED BY <1>1, <2>2, <3>3
  <2> QED BY <2>1, <2>2
<1>5. Dirs(dir) /\ Links(link) BY ChainFacts
<1>6. Dirs(e) BY <1>1 DEF OneMore
<1>7. Spot(e, link, p, n) BY <1>2, <1>3, <1>4, <1>5, <1>6, SameSpot
<1> QED BY <1>7 DEF e

LEMMA MoreEntry ==
  ASSUME Shape, NEW i \in Files, ~NoMorePages(i), NEW z \in Entry, NEW p, NEW n, NEW s,
         Spot(dir, link, p, n)
  PROVE  EntryStays(dir, WithEntry(dir, i, z), p, s)
<1> DEFINE e == WithEntry(dir, i, z)
           x == dir[p[1]][p[2]]
           y == e[p[1]][p[2]]
<1>1. OneMore(dir, e, i) BY WithEntryIs
<1>2. p[1] \in Files /\ p[2] \in 1 .. Len(dir[p[1]]) BY DEF Spot
<1> HIDE DEF e
<1>3. Len(x) \in Nat
  <2>1. dir[p[1]] \in Seq(Leaf) BY <1>2, ChainFacts, DirIs
  <2>2. x \in Leaf BY <1>2, <2>1
  <2> QED BY <2>2 DEF Leaf
<1>4. CASE p[1] # i
  <2>1. y = x BY <1>1, <1>2, <1>4 DEF OneMore
  <2> HIDE DEF x, y
  <2>2. s \in 1 .. Len(x) => s <= Len(y) /\ y[s] = x[s] BY <1>3, <2>1
  <2> QED BY <2>2 DEF EntryStays, x, y, e
<1>5. CASE p[1] = i
  <2>1. Len(x) <= Len(y) /\ \A m \in 1 .. Len(x) : y[m] = x[m] BY <1>1, <1>2, <1>5 DEF OneMore
  <2>2. Len(y) \in Nat
    <3>1. Len(dir[i]) <= Len(e[i]) /\ Dirs(e) BY <1>1 DEF OneMore
    <3>2. e[i] \in Seq(Leaf) /\ Len(dir[i]) \in Nat BY <3>1, ChainFacts, DirIs
    <3>3. p[2] \in 1 .. Len(e[i]) BY <1>2, <1>5, <3>1, <3>2
    <3>4. y \in Leaf BY <1>5, <3>2, <3>3
    <3> QED BY <3>4 DEF Leaf
  <2> HIDE DEF x, y
  <2>3. s \in 1 .. Len(x) => s <= Len(y) /\ y[s] = x[s] BY <1>3, <2>1, <2>2
  <2> QED BY <2>3 DEF EntryStays, x, y, e
<1> QED BY <1>4, <1>5

LEMMA PutElsewhereKeeps ==
  ASSUME IInv, NEW i \in Files, NEW k \in Keys, PutElsewhere(i, k)
  PROVE  IInv'
<1>1. Shape /\ IsPosition(cur) /\ Stands BY DEF IInv
<1>2. /\ ~NoMorePages(i) /\ dir' = WithEntry(dir, i, k) /\ after' = Unlinked(i)
      /\ Wrote /\ link' = link /\ cur' = cur
  BY DEF PutElsewhere
<1>3. k \in Entry BY DEF Entry
<1>4. OneMore(dir, dir', i) /\ (~Full(i) => Len(dir'[i]) = Len(dir[i]))
  BY <1>1, <1>2, <1>3, WithEntryIs
<1>5. Dirs(dir') BY <1>4 DEF OneMore
<1>6. Shape' BY <1>1, <1>2, <1>5, ShapeKept
<1>7. IsPosition(cur') BY <1>1, <1>2
<1>8. CASE Full(i) /\ link[i] # NoFile
  <2>1. Disturbed BY <1>8 DEF PutElsewhere
  <2> QED BY <1>2, <1>6, <1>7, <2>1, DisturbedKeeps
<1>9. CASE ~(Full(i) /\ link[i] # NoFile)
  <2>1. stand' = stand /\ owed' = owed BY <1>9 DEF PutElsewhere
  <2>2. ASSUME NEW p, NEW n, Spot(dir, link, p, n) PROVE Spot(dir', link', p, n)
    BY <1>1, <1>2, <1>3, <1>9, <2>2, MoreSpot
  <2>3. ASSUME NEW p, NEW n, NEW s, Spot(dir, link, p, n) PROVE EntryStays(dir, dir', p, s)
    BY <1>1, <1>2, <1>3, <2>3, MoreEntry
  <2>4. ASSUME stand # Lost PROVE Whole(link', after')
    <3>1. \A x \in Files : after[x] = link[x] BY <1>1, <2>4, StandsAt DEF Whole
    <3>2. \A x \in Files : after'[x] = IF Full(i) /\ x = i THEN NoFile ELSE after[x]
      BY <1>1, <1>2 DEF Unlinked, Shape, Shaped
    <3> QED BY <1>2, <1>9, <3>1, <3>2 DEF Whole
  <2>5. stand # Lost => Spot(dir', link', cur.page, stand[1]) BY <1>1, <2>2, StandsAt
  <2>6. Stands' BY <1>1, <1>2, <1>6, <2>1, <2>2, <2>3, <2>4, <2>5, StandsKept
  <2> QED BY <1>2, <1>6, <1>7, <2>6, WroteKeeps
<1> QED BY <1>8, <1>9

(* In a chain that is whole, two handles that name the same entry are the  *)
(* same handle.                                                            *)
LEMMA OneSpot ==
  ASSUME NEW d, NEW l, NEW p, NEW m, NEW n, Spot(d, l, p, m), Spot(d, l, p, n)
  PROVE  m = n
BY DEF Spot

(* The directories with one entry changed: every page is where it was.     *)
LEMMA OneEntrySpot ==
  ASSUME NEW d, NEW l, NEW e, Dirs(d) /\ Links(l), NEW q, NEW x, OneEntry(d, e, q[1], q[2], q[3], x),
         NEW p, NEW n, Spot(d, l, p, n)
  PROVE  Spot(e, l, p, n)
<1>1. p[1] \in Files /\ OnChain(l, p[1]) BY DEF Spot
<1>2. Dirs(e) /\ \A y \in Files : Len(e[y]) = Len(d[y]) BY DEF OneEntry
<1>3. SameBefore(d, e, p[1]) BY <1>2 DEF SameBefore
<1>4. Len(d[p[1]]) <= Len(e[p[1]])
  <2>1. Len(d[p[1]]) \in Nat BY <1>1, DirIs
  <2> QED BY <1>1, <1>2, <2>1
<1> QED BY <1>1, <1>2, <1>3, <1>4, SameSpot

LEMMA DelKeeps ==
  ASSUME IInv, NEW h \in Places, Del(h)
  PROVE  IInv'
<1> DEFINE q == PageOf(h)
<1>1. Shape /\ IsPosition(cur) /\ Stands BY DEF IInv
<1>2. /\ q # NULL /\ Live(h) /\ dir' = Erase(dir, q, h[2]) /\ owed' = owed \ {h}
      /\ Wrote /\ link' = link /\ after' = after /\ cur' = cur /\ stand' = stand
  BY DEF Del, Live, Slot
<1>3. Gone \in Entry BY DEF Entry
<1>4. OneEntry(dir, dir', q[1], q[2], h[2], Gone)
  <2>1. dir' = Replace(dir, q, h[2], Gone) BY <1>2 DEF Erase, Replace
  <2> QED BY <1>1, <1>2, <1>3, <2>1, ReplaceIs
<1>5. Dirs(dir') BY <1>4 DEF OneEntry
<1>6. Shape' BY <1>1, <1>2, <1>5, ShapeKept
<1>7. IsPage(q) BY <1>1, <1>2, PageOfPage
<1> HIDE DEF q
<1>8. ASSUME NEW p, NEW n, Spot(dir, link, p, n) PROVE Spot(dir', link', p, n)
  <2> DEFINE w == <<q[1], q[2], h[2]>>
  <2>1. OneEntry(dir, dir', w[1], w[2], w[3], Gone) BY <1>4
  <2> HIDE DEF w
  <2>2. Dirs(dir) /\ Links(link) BY <1>1, ChainFacts
  <2>3. Spot(dir', link, p, n) BY <1>8, <2>1, <2>2, OneEntrySpot
  <2> QED BY <1>2, <2>3
<1>9. ASSUME stand # Lost, NEW g \in owed', NEW p, Spot(dir, link, p, g[1])
      PROVE  EntryStays(dir, dir', p, g[2])
  <2>1. g \in owed /\ g # h /\ g \in Places BY <1>1, <1>2, <1>9, StandsAt
  <2>2. ~(p[1] = q[1] /\ p[2] = q[2] /\ g[2] = h[2])
    <3> SUFFICES ASSUME p[1] = q[1], p[2] = q[2], g[2] = h[2] PROVE FALSE OBVIOUS
    <3>1. ChainIsWhole BY <1>1, <1>9, StandsAt
    <3>2. Spot(dir, link, q, h[1]) BY <1>1, <1>2, <3>1, PageOfSpot DEF q
    <3>3. p \in Files \X Nat /\ q \in Files \X Nat BY <1>9, <3>2 DEF Spot
    <3>4. p = q BY <3>3
    <3>5. g[1] = h[1] BY <1>9, <3>2, <3>4, OneSpot
    <3>6. g = <<g[1], g[2]>> /\ h = <<h[1], h[2]>> BY <2>1, PlaceIs
    <3> QED BY <2>1, <3>5, <3>6
  <2>3. p[1] \in Files /\ p[2] \in 1 .. Len(dir[p[1]]) BY <1>9 DEF Spot
  <2> DEFINE x == dir[p[1]][p[2]]
             y == dir'[p[1]][p[2]]
             s == g[2]
  <2>4. Len(x) \in Nat
    <3>1. dir[p[1]] \in Seq(Leaf) BY <1>1, <2>3, ChainFacts, DirIs
    <3>2. x \in Leaf BY <2>3, <3>1
    <3> QED BY <3>2 DEF Leaf
  <2>5. Len(y) = Len(x) /\ (s \in 1 .. Len(x) => y[s] = x[s]) BY <1>4, <2>2, <2>3 DEF OneEntry
  <2> HIDE DEF x, y, s
  <2>6. s \in 1 .. Len(x) => s <= Len(y) /\ y[s] = x[s] BY <2>4, <2>5
  <2> QED BY <2>6 DEF EntryStays, x, y, s
<1>10. stand # Lost => Whole(link', after') /\ Spot(dir', link', cur.page, stand[1])
  BY <1>1, <1>2, <1>8, StandsAt
<1>11. owed' \subseteq owed BY <1>2
<1>12. Stands' BY <1>1, <1>2, <1>6, <1>8, <1>9, <1>10, <1>11, StandsKept
<1>13. IsPosition(cur') BY <1>1, <1>2
<1> QED BY <1>2, <1>6, <1>12, <1>13, WroteKeeps

LEMMA EntriesStay ==
  ASSUME NEW d, Dirs(d), NEW p, p[1] \in Files, p[2] \in 1 .. Len(d[p[1]]), NEW s
  PROVE  EntryStays(d, d, p, s)
<1> DEFINE x == d[p[1]][p[2]]
<1>1. d[p[1]] \in Seq(Leaf) BY DirIs
<1>2. x \in Leaf BY <1>1
<1>3. Len(x) \in Nat BY <1>2 DEF Leaf
<1> HIDE DEF x
<1>4. s \in 1 .. Len(x) => s <= Len(x) BY <1>3
<1> QED BY <1>4 DEF EntryStays, x

LEMMA LnkKeeps ==
  ASSUME IInv, NEW n \in 2 .. NFiles, Lnk(n)
  PROVE  IInv'
<1>1. Shape /\ IsPosition(cur) /\ Stands BY DEF IInv
<1>2. /\ link' = [i \in Files |-> IF i < n THEN i + 1 ELSE link[i]]
      /\ after' = [i \in Files |-> IF i < n THEN i + 1 ELSE after[i]]
      /\ Wrote /\ dir' = dir /\ cur' = cur /\ stand' = stand /\ owed' = owed
  BY DEF Lnk
<1>3. /\ Dirs(dir) /\ Links(link) /\ after \in [Files -> Int]
      /\ \A i \in Files : after[i] = NoFile \/ after[i] = link[i]
  BY <1>1 DEF Shape, Shaped
<1>4. /\ \A i \in Files : link'[i] = IF i < n THEN i + 1 ELSE link[i]
      /\ \A i \in Files : after'[i] = IF i < n THEN i + 1 ELSE after[i]
  BY <1>2
<1>5. \A i \in Files : i \in Int /\ i <= NFiles BY XdfSearchAssumption DEF Files
<1>6. n \in Int /\ n <= NFiles BY XdfSearchAssumption
<1>7. link' \in [Files -> Int] /\ after' \in [Files -> Int] BY <1>2, <1>3, <1>5 DEF Links
<1>8. \A i \in Files : link'[i] = NoFile \/ (link'[i] = i + 1 /\ i < NFiles)
  BY <1>3, <1>4, <1>5, <1>6, XdfSearchAssumption DEF Links
<1>9. \A i \in Files : after'[i] = NoFile \/ after'[i] = link'[i] BY <1>3, <1>4
<1>10. Links(link') BY <1>7, <1>8 DEF Links
<1>11. Shape' BY <1>2, <1>3, <1>7, <1>9, <1>10 DEF Shape, Shaped
<1>12. ASSUME NEW p, NEW m, Spot(dir, link, p, m) PROVE Spot(dir', link', p, m)
  <2>1. p[1] \in Files /\ OnChain(link, p[1]) BY <1>12 DEF Spot
  <2>2. OnChain(link', p[1])
    <3> SUFFICES ASSUME NEW j \in 1 .. p[1] - 1 PROVE link'[j] = j + 1 BY DEF OnChain
    <3>1. p[1] \in Int /\ p[1] <= NFiles /\ NFiles \in Int BY <2>1, XdfSearchAssumption DEF Files
    <3>2. j \in 1 .. NFiles BY <3>1
    <3>3. link[j] = j + 1 BY <2>1 DEF OnChain
    <3> QED BY <1>4, <3>2, <3>3 DEF Files
  <2>3. SameBefore(dir, dir, p[1]) BY DEF SameBefore
  <2>4. Len(dir[p[1]]) <= Len(dir[p[1]])
    <3>1. Len(dir[p[1]]) \in Nat BY <1>3, <2>1, DirIs
    <3> QED BY <3>1
  <2>5. Spot(dir, link', p, m) BY <1>3, <1>10, <1>12, <2>2, <2>3, <2>4, SameSpot
  <2> QED BY <1>2, <2>5
<1>13. ASSUME NEW p, NEW m, NEW s, Spot(dir, link, p, m) PROVE EntryStays(dir, dir', p, s)
  <2>1. p[1] \in Files /\ p[2] \in 1 .. Len(dir[p[1]]) BY <1>13 DEF Spot
  <2>2. EntryStays(dir, dir, p, s) BY <1>3, <2>1, EntriesStay
  <2> QED BY <1>2, <2>2
<1>14. Whole(link, after) => Whole(link', after') BY <1>4 DEF Whole
<1>15. stand # Lost => Whole(link', after') /\ Spot(dir', link', cur.page, stand[1])
  BY <1>1, <1>12, <1>14, StandsAt
<1>16. owed' \subseteq owed BY <1>2
<1>17. Stands' BY <1>1, <1>2, <1>11, <1>12, <1>13, <1>15, <1>16, StandsKept
<1>18. IsPosition(cur') BY <1>1, <1>2
<1> QED BY <1>2, <1>11, <1>17, <1>18, WroteKeeps

LEMMA UnlKeeps ==
  ASSUME IInv, NEW n \in Files, Unl(n)
  PROVE  IInv'
<1>1. Shape /\ IsPosition(cur) /\ Stands BY DEF IInv
<1>2. /\ link' = [i \in Files |-> IF i <= n THEN NoFile ELSE link[i]]
      /\ after' = [i \in Files |-> IF i <= n THEN NoFile ELSE after[i]]
      /\ stand' = IF stand[1] > NPages(1) THEN Lost ELSE stand
      /\ owed' = {g \in owed : g[1] <= NPages(1)}
      /\ Wrote /\ dir' = dir /\ cur' = cur
  BY DEF Unl
<1>3. /\ Dirs(dir) /\ Links(link) /\ after \in [Files -> Int]
      /\ \A i \in Files : after[i] = NoFile \/ after[i] = link[i]
  BY <1>1 DEF Shape, Shaped
<1>4. /\ \A i \in Files : link'[i] = IF i <= n THEN NoFile ELSE link[i]
      /\ \A i \in Files : after'[i] = IF i <= n THEN NoFile ELSE after[i]
  BY <1>2
<1>5. link' \in [Files -> Int] /\ after' \in [Files -> Int] BY <1>2, <1>3 DEF Links, NoFile
<1>6. \A i \in Files : link'[i] = NoFile \/ (link'[i] = i + 1 /\ i < NFiles)
  BY <1>3, <1>4 DEF Links
<1>7. \A i \in Files : after'[i] = NoFile \/ after'[i] = link'[i] BY <1>3, <1>4
<1>8. Links(link') BY <1>5, <1>6 DEF Links
<1>9. Shape' BY <1>2, <1>3, <1>5, <1>7, <1>8 DEF Shape, Shaped
<1>10. NPages(1) = Len(dir[1]) /\ NPages(1) \in Nat /\ 1 \in Files
  BY <1>3, OffFirst, DirIs DEF NPages
<1>11. ASSUME NEW p, NEW m, Spot(dir, link, p, m), m <= NPages(1) PROVE Spot(dir', link', p, m)
  <2>1. p[1] = 1 BY <1>3, <1>10, <1>11, SpotInFirst
  <2>2. OnChain(link', p[1]) BY <2>1 DEF OnChain
  <2>3. SameBefore(dir, dir, p[1]) BY DEF SameBefore
  <2>4. Len(dir[p[1]]) <= Len(dir[p[1]]) BY <1>10, <2>1
  <2>5. Spot(dir, link', p, m) BY <1>3, <1>8, <1>11, <2>2, <2>3, <2>4, SameSpot
  <2> QED BY <1>2, <2>5
<1>12. ASSUME NEW p, NEW m, NEW s, Spot(dir, link, p, m) PROVE EntryStays(dir, dir', p, s)
  <2>1. p[1] \in Files /\ p[2] \in 1 .. Len(dir[p[1]]) BY <1>12 DEF Spot
  <2>2. EntryStays(dir, dir, p, s) BY <1>3, <2>1, EntriesStay
  <2> QED BY <1>2, <2>2
<1>13. Whole(link, after) => Whole(link', after') BY <1>4 DEF Whole
<1>14. IsPosition(cur') BY <1>1, <1>2
<1>15. owed' \subseteq owed BY <1>2
<1>16. CASE stand[1] > NPages(1)
  <2>1. stand # Lost BY <1>10, <1>16 DEF Lost
  <2>2. ASSUME NEW g \in owed PROVE ~(g[1] <= NPages(1))
    <3>1. g \in Places /\ Before(stand, g) /\ stand \in Places BY <1>1, <2>1, StandsAt
    <3>2. g[1] \in Nat /\ stand[1] \in Nat BY <3>1, PlaceIs
    <3>3. stand[1] <= g[1] BY <3>1, <3>2 DEF Before
    <3> QED BY <1>10, <1>16, <3>2, <3>3
  <2>3. owed' = {} /\ stand' = Lost BY <1>2, <1>16, <2>2
  <2>4. Disturbed BY <2>3 DEF Disturbed
  <2> QED BY <1>2, <1>9, <1>14, <2>4, DisturbedKeeps
<1>17. CASE ~(stand[1] > NPages(1))
  <2>1. stand' = stand BY <1>2, <1>17
  <2>2. ASSUME stand # Lost
        PROVE  Whole(link', after') /\ Spot(dir', link', cur.page, stand[1])
    <3>1. Whole(link, after) /\ stand \in Places /\ Spot(dir, link, cur.page, stand[1])
      BY <1>1, <2>2, StandsAt
    <3>2. stand[1] <= NPages(1) BY <1>10, <1>17, <3>1, PlaceIs
    <3> QED BY <1>11, <1>13, <3>1, <3>2
  <2>3. \A g \in owed' : g[1] <= NPages(1) BY <1>2
  <2>4. Stands' BY <1>1, <1>2, <1>9, <1>11, <1>12, <1>15, <2>1, <2>2, <2>3, StandsKept
  <2> QED BY <1>2, <1>9, <1>14, <2>4, WroteKeeps
<1> QED BY <1>16, <1>17

(***************************************************************************)
(* The invariant holds.                                                    *)
(***************************************************************************)
LEMMA InitIInv ==
  ASSUME Init
  PROVE  IInv
<1>1. /\ dir = Opened
      /\ link = [i \in Files |-> NoFile] /\ after = [i \in Files |-> NoFile]
  BY DEF Init
<1>9. Dirs(dir) BY <1>1, OpenedAssumption DEF Dirs, Files, Leaf
<1>10. Links(link) /\ after \in [Files -> Int] /\ \A i \in Files : after[i] = NoFile
  BY <1>1 DEF Links, NoFile
<1>11. Shape BY <1>9, <1>10 DEF Shape, Shaped
<1>12. IsPosition(cur)
  <2>1. cur = [page |-> NULL, pageno |-> 0, at |-> NULL, entry |-> 0, record |-> 1,
               target |-> NoTarget]
    BY DEF Init
  <2>2. DOMAIN cur = Fields /\ cur = [x \in Fields |-> cur[x]] BY <2>1 DEF Fields
  <2> QED BY <2>2 DEF IsPosition
<1>13. Stands BY DEF Init, Stands, Standing
<1>14. last.op = "open" BY DEF Init
<1>15. SearchIsExact /\ NoMatchIsPassedOver /\ NothingIsMissed
  BY <1>14 DEF SearchIsExact, NoMatchIsPassedOver, NothingIsMissed
<1> QED BY <1>11, <1>12, <1>13, <1>15 DEF IInv

LEMMA IInvStutters ==
  ASSUME IInv, UNCHANGED vars
  PROVE  IInv'
<1>1. /\ dir' = dir /\ link' = link /\ after' = after /\ cur' = cur
      /\ last' = last /\ stand' = stand /\ owed' = owed
  BY DEF vars
<1>2. Shape' BY <1>1 DEF IInv, Shape
<1>3. IsPosition(cur') BY <1>1 DEF IInv
<1>4. Stands' BY <1>1 DEF IInv, Stands
<1>5. SearchIsExact' BY <1>1 DEF IInv, SearchIsExact
<1>6. NothingIsMissed' BY <1>1 DEF IInv, NothingIsMissed
<1>7. NoMatchIsPassedOver'
  <2>1. AllPages' = AllPages BY <1>1, AllPagesAre
  <2>2. MatchesBehind(Start, cur.target)' = MatchesBehind(Start, cur.target)
    BY <1>1, <2>1 DEF MatchesBehind
  <2> QED BY <1>1, <2>2 DEF IInv, NoMatchIsPassedOver
<1> QED BY <1>2, <1>3, <1>4, <1>5, <1>6, <1>7 DEF IInv

LEMMA IInvKept ==
  ASSUME IInv, [Next]_vars
  PROVE  IInv'
<1>1. ASSUME NEW t \in Targets, LocateFirst(t) PROVE IInv' BY <1>1, LocateFirstKeeps
<1>2. ASSUME NEW h \in Handles, NEW t \in Targets, LocateBehind(h, t) PROVE IInv'
  BY <1>2, LocateBehindKeeps
<1>3. ASSUME NEW t \in Targets \cup {cur.target}, LocateNext(t) PROVE IInv'
  BY <1>3, LocateNextKeeps
<1>4. ASSUME NEW k \in Keys, PutNew(k) PROVE IInv' BY <1>4, PutNewKeeps
<1>5. ASSUME NEW i \in Files, NEW k \in Keys, PutElsewhere(i, k) PROVE IInv'
  BY <1>5, PutElsewhereKeeps
<1>6. ASSUME NEW h \in Handles, NEW k \in Keys, NEW same_length \in BOOLEAN,
             PutOver(h, k, same_length)
      PROVE  IInv'
  BY <1>6, PutOverKeeps, HandleIsAPlace
<1>7. ASSUME NEW h \in Handles, Del(h) PROVE IInv' BY <1>7, DelKeeps, HandleIsAPlace
<1>8. ASSUME NEW n \in 2 .. NFiles, Lnk(n) PROVE IInv' BY <1>8, LnkKeeps
<1>9. ASSUME NEW n \in Files, Unl(n) PROVE IInv' BY <1>9, UnlKeeps
<1>10. CASE UNCHANGED vars BY <1>10, IInvStutters
<1> QED BY <1>1, <1>2, <1>3, <1>4, <1>5, <1>6, <1>7, <1>8, <1>9, <1>10 DEF Next

THEOREM SearchInvariant == Spec => []IInv
<1>1. Init => IInv BY InitIInv
<1>2. IInv /\ [Next]_vars => IInv' BY IInvKept
<1> QED BY <1>1, <1>2, PTL DEF Spec

(***************************************************************************)
(* Whatever the files, the keys, the capacity of the directories and the   *)
(* room in a handle: a search by c_xdfloc2 returns the first record that   *)
(* matches behind the place it starts from, in file 1 and the files linked *)
(* to it, unless that place is on a linked page that is the current one,   *)
(* or more than two pages behind file 1 (early).                           *)
(***************************************************************************)
THEOREM SearchAlwaysExact == Spec => []SearchIsExact
<1>1. IInv => SearchIsExact BY DEF IInv
<1> QED BY <1>1, SearchInvariant, PTL

(***************************************************************************)
(* A search from any record, those of SearchAlwaysExact and the others, is *)
(* refused or returns a match that is not behind the first one it should   *)
(* find: c_xdfloc2 may begin too early, it never begins too late.          *)
(***************************************************************************)
THEOREM NoMatchEverPassedOver == Spec => []NoMatchIsPassedOver
<1>1. IInv => NoMatchIsPassedOver BY DEF IInv
<1> QED BY <1>1, SearchInvariant, PTL

(***************************************************************************)
(* When a series of calls for the next record ends, every record that      *)
(* matched when the series began and was not erased since was returned.    *)
(***************************************************************************)
THEOREM NothingEverMissed == Spec => []NothingIsMissed
<1>1. IInv => NothingIsMissed BY DEF IInv
<1> QED BY <1>1, SearchInvariant, PTL

(***************************************************************************)
(* What a write through a handle changes.                                  *)
(***************************************************************************)
OnlyThat(h) ==
  LET pages == AllPages IN
  /\ h[1] <= Len(pages) /\ h[2] <= Len(pages[h[1]]) /\ pages[h[1]][h[2]] # Gone
  /\ \A g \in Places \ {h} :
       g[1] <= Len(pages) /\ g[2] <= Len(pages[g[1]]) =>
         AllPages'[g[1]][g[2]] = pages[g[1]][g[2]]

(* Every spot stays, and so does every entry but that of h.                *)
AllStay(e, h) ==
  \A p, n : Spot(dir, link, p, n) =>
    /\ Spot(e, link, p, n)
    /\ \A s : p # PageOf(h) \/ s # h[2] => EntryStays(dir, e, p, s)

LEMMA StayingIsOnlyThat ==
  ASSUME Shape, Shape', ChainIsWhole, NEW h \in Places, Live(h), link' = link,
         AllStay(dir', h)
  PROVE  OnlyThat(h)
<1> DEFINE P == AllPages
<1>1. Spot(dir, link, PageOf(h), h[1]) BY PageOfSpot DEF Live
<1>2. h[1] \in Nat /\ h[1] \in 1 .. Len(P) /\ P[h[1]] = Page(PageOf(h)) BY <1>1, SpotIn
<1>3. h[2] <= Len(Page(PageOf(h))) BY DEF Live
<1>4. Len(P) \in Nat BY ChainFacts
<1>5. h[1] <= Len(P) /\ h[2] <= Len(P[h[1]]) /\ P[h[1]][h[2]] # Gone
  BY <1>2, <1>3, <1>4 DEF Live
<1>6. ASSUME NEW g \in Places \ {h}, g[1] <= Len(P), g[2] <= Len(P[g[1]])
      PROVE  AllPages'[g[1]][g[2]] = P[g[1]][g[2]]
  <2>1. g \in Places /\ g # h OBVIOUS
  <2>2. g[1] \in 1 .. Len(P) BY <1>4, <1>6, <2>1, PlaceIs
  <2>3. Dirs(dir) /\ Links(link) /\ P = Pages(dir, link) BY ChainFacts
  <2>4. PICK p : Spot(dir, link, p, g[1]) BY <2>2, <2>3, SpotExists
  <2>5. P[g[1]] = dir[p[1]][p[2]] BY <2>4, SpotIn DEF Page
  <2>6. Spot(dir', link', p, g[1]) BY <2>4 DEF AllStay
  <2>7. Dirs(dir') /\ Links(link') BY DEF Shape, Shaped
  <2>8. AllPages'[g[1]] = dir'[p[1]][p[2]] BY <2>6, <2>7, SpotPage, AllPagesAre
  <2>9. p # PageOf(h) \/ g[2] # h[2]
    <3> SUFFICES ASSUME p = PageOf(h), g[2] = h[2] PROVE FALSE OBVIOUS
    <3>1. g[1] = h[1] BY <1>1, <2>4, OneSpot
    <3>2. g = <<g[1], g[2]>> /\ h = <<h[1], h[2]>> BY <2>1, PlaceIs
    <3> QED BY <2>1, <3>1, <3>2
  <2>10. EntryStays(dir, dir', p, g[2]) BY <2>4, <2>9 DEF AllStay
  <2> DEFINE x == dir[p[1]][p[2]]
             s == g[2]
  <2>11. Len(x) \in Nat /\ s \in Nat /\ s >= 1
    <3>1. Page(p) = x BY DEF Page
    <3>2. Len(x) \in Nat BY <2>4, <3>1, SpotIsNoNull, PageLen
    <3> QED BY <2>1, <3>2, PlaceIs
  <2>12. s <= Len(x) BY <1>6, <2>5
  <2>13. s \in 1 .. Len(x) => dir'[p[1]][p[2]][s] = x[s] BY <2>10 DEF EntryStays
  <2> HIDE DEF x, s
  <2>14. s \in 1 .. Len(x) BY <2>11, <2>12
  <2>15. dir'[p[1]][p[2]][s] = x[s] BY <2>13, <2>14
  <2> QED BY <2>5, <2>8, <2>15 DEF x, s
<1> HIDE DEF P
<1> QED BY <1>5, <1>6 DEF OnlyThat, P

LEMMA ReplacingStays ==
  ASSUME Shape, NEW h \in Places, Live(h), NEW x \in Entry
  PROVE  AllStay(Replace(dir, PageOf(h), h[2], x), h)
<1> DEFINE q == PageOf(h)
           e == Replace(dir, q, h[2], x)
<1>1. OneEntry(dir, e, q[1], q[2], h[2], x) BY ReplaceIs
<1>2. IsPage(q) BY PageOfPage DEF Live
<1> HIDE DEF q, e
<1>3. ASSUME NEW p, NEW n, Spot(dir, link, p, n) PROVE Spot(e, link, p, n)
  <2> DEFINE w == <<q[1], q[2], h[2]>>
  <2>1. OneEntry(dir, e, w[1], w[2], w[3], x) BY <1>1
  <2> HIDE DEF w
  <2> QED BY <1>3, <2>1, ChainFacts, OneEntrySpot
<1>4. ASSUME NEW p, NEW n, Spot(dir, link, p, n), NEW s, p # q \/ s # h[2]
      PROVE  EntryStays(dir, e, p, s)
  <2>1. p \in Files \X Nat /\ q \in Files \X Nat BY <1>2, <1>4 DEF IsPage, Spot
  <2>2. ~(p[1] = q[1] /\ p[2] = q[2] /\ s = h[2]) BY <1>4, <2>1
  <2>3. p[1] \in Files /\ p[2] \in 1 .. Len(dir[p[1]]) BY <1>4 DEF Spot
  <2> DEFINE y == dir[p[1]][p[2]]
             z == e[p[1]][p[2]]
  <2>4. Len(y) \in Nat
    <3>1. Page(p) = y BY DEF Page
    <3> QED BY <1>4, <3>1, SpotIsNoNull, PageLen
  <2>5. Len(z) = Len(y) /\ (s \in 1 .. Len(y) => z[s] = y[s]) BY <1>1, <2>2, <2>3 DEF OneEntry
  <2> HIDE DEF y, z
  <2>6. s \in 1 .. Len(y) => s <= Len(z) /\ z[s] = y[s] BY <2>4, <2>5
  <2> QED BY <2>6 DEF EntryStays, y, z
<1>5. AllStay(e, h) BY <1>3, <1>4 DEF AllStay, q
<1> QED BY <1>5 DEF e, q

LEMMA MovingStays ==
  ASSUME Shape, NEW h \in Places, Live(h), ~NoMorePages(1), NEW x \in Entry,
         ~(Full(1) /\ link[1] # NoFile)
  PROVE  AllStay(Erase(WithEntry(dir, 1, x), PageOf(h), h[2]), h)
<1> DEFINE q == PageOf(h)
           d == WithEntry(dir, 1, x)
           e == Erase(d, q, h[2])
<1>0. 1 \in Files BY ChainFacts, OffFirst
<1>1. OneMore(dir, d, 1) /\ OneEntry(d, e, q[1], q[2], h[2], Gone) BY MovedIs
<1>2. IsPage(q) BY PageOfPage DEF Live
<1>3. ASSUME NEW p, NEW n, Spot(dir, link, p, n)
      PROVE  Spot(d, link, p, n) /\ \A s : EntryStays(dir, d, p, s)
  BY <1>0, <1>3, MoreSpot, MoreEntry
<1> HIDE DEF q, d, e
<1>4. Dirs(d) /\ Links(link) BY <1>1, ChainFacts DEF OneMore
<1>5. ASSUME NEW p, NEW n, Spot(d, link, p, n) PROVE Spot(e, link, p, n)
  <2> DEFINE w == <<q[1], q[2], h[2]>>
  <2>1. OneEntry(d, e, w[1], w[2], w[3], Gone) BY <1>1
  <2> HIDE DEF w
  <2> QED BY <1>4, <1>5, <2>1, OneEntrySpot
<1>6. ASSUME NEW p, NEW n, Spot(dir, link, p, n), NEW s, p # q \/ s # h[2]
      PROVE  EntryStays(dir, e, p, s)
  <2>1. p \in Files \X Nat /\ q \in Files \X Nat BY <1>2, <1>6 DEF IsPage, Spot
  <2>2. ~(p[1] = q[1] /\ p[2] = q[2] /\ s = h[2]) BY <1>6, <2>1
  <2>3. Spot(d, link, p, n) /\ EntryStays(dir, d, p, s) BY <1>3, <1>6
  <2>4. p[1] \in Files /\ p[2] \in 1 .. Len(d[p[1]]) BY <2>3 DEF Spot
  <2> DEFINE w == dir[p[1]][p[2]]
             y == d[p[1]][p[2]]
             z == e[p[1]][p[2]]
  <2>5. Len(w) \in Nat
    <3>1. Page(p) = w BY DEF Page
    <3> QED BY <1>6, <3>1, SpotIsNoNull, PageLen
  <2>6. Len(y) \in Nat
    <3>1. d[p[1]] \in Seq(Leaf) BY <1>4, <2>4, DirIs
    <3>2. y \in Leaf BY <2>4, <3>1
    <3> QED BY <3>2 DEF Leaf
  <2>7. s \in 1 .. Len(w) => s <= Len(y) /\ y[s] = w[s] BY <2>3 DEF EntryStays
  <2>8. Len(z) = Len(y) /\ (s \in 1 .. Len(y) => z[s] = y[s]) BY <1>1, <2>2, <2>4 DEF OneEntry
  <2> HIDE DEF w, y, z
  <2>9. s \in 1 .. Len(w) => s <= Len(z) /\ z[s] = w[s] BY <2>5, <2>6, <2>7, <2>8
  <2> QED BY <2>9 DEF EntryStays, w, z
<1>7. AllStay(e, h) BY <1>3, <1>5, <1>6 DEF AllStay, q
<1> QED BY <1>7 DEF e, d, q

LEMMA RewritingIsOnlyThat ==
  ASSUME Shape, Shape', ChainIsWhole, ChainIsWhole', dir' # dir, NEW h \in Places, Rewrites(h)
  PROVE  OnlyThat(h)
<1>1. CASE Del(h)
  <2>1. /\ Live(h) /\ link' = link
        /\ dir' = Replace(dir, PageOf(h), h[2], Gone)
    BY <1>1 DEF Del, Live, Slot, Erase, Replace
  <2>2. Gone \in Entry BY DEF Entry
  <2>3. AllStay(dir', h) BY <2>1, <2>2, ReplacingStays DEF Live
  <2> QED BY <2>1, <2>3, StayingIsOnlyThat
<1>2. CASE \E k \in Keys, same_length \in BOOLEAN : PutOver(h, k, same_length)
  <2>1. PICK k \in Keys, same_length \in BOOLEAN : PutOver(h, k, same_length) BY <1>2
  <2>2. /\ link' = link
        /\ OverRefused \/ OverThere(h, k) \/ OverMoved(h, k) \/ OverOrphan(h)
    BY <2>1, PutOverIs
  <2>3. k \in Entry /\ 1 \in Files BY ChainFacts, OffFirst DEF Entry
  <2>4. ~OverRefused BY DEF OverRefused
  <2>5. CASE OverThere(h, k)
    <3>1. AllStay(dir', h) BY <2>2, <2>3, <2>5, ReplacingStays DEF OverThere, Live
    <3> QED BY <2>2, <2>5, <3>1, StayingIsOnlyThat DEF OverThere
  <2>6. ASSUME after' = Unlinked(1) PROVE ~(Full(1) /\ link[1] # NoFile)
    <3> SUFFICES ASSUME Full(1) PROVE link[1] = NoFile OBVIOUS
    <3>1. after' = [after EXCEPT ![1] = NoFile] BY <2>6 DEF Unlinked
    <3>2. after \in [Files -> Int] BY DEF Shape, Shaped
    <3>3. after'[1] = NoFile BY <2>3, <3>1, <3>2
    <3>4. after'[1] = link'[1] BY <2>3 DEF ChainIsWhole
    <3> QED BY <2>2, <3>3, <3>4
  <2>7. CASE OverMoved(h, k)
    <3>1. AllStay(dir', h) BY <2>2, <2>3, <2>6, <2>7, MovingStays DEF OverMoved, Live
    <3> QED BY <2>2, <2>7, <3>1, StayingIsOnlyThat DEF OverMoved
  <2>8. CASE OverOrphan(h)
    <3>1. link[1] = NoFile BY <2>6, <2>8 DEF OverOrphan
    <3>2. PageOf(h) = <<1, h[1]>> \/ PageOf(h) = NULL BY <3>1 DEF PageOf
    <3>3. FALSE BY <2>8, <3>2 DEF OverOrphan, Live
    <3> QED BY <3>3
  <2> QED BY <2>2, <2>4, <2>5, <2>7, <2>8
<1> QED BY <1>1, <1>2 DEF Rewrites

(* The entry of the place that the handle is; among the pages whose number *)
(* the handle has room for, the only entry with this handle.               *)
LEMMA OnlyThatIsNamed ==
  ASSUME Shape, NEW h \in Handles, OnlyThat(h)
  PROVE  LET pages == AllPages
             named == {g \in Places : HandleOf(g) = h /\ Exists(pages, g)}
         IN
         /\ Len(pages) <= HandlePages => named = {h}
         /\ \E g \in named :
              /\ pages[g[1]][g[2]] # Gone
              /\ \A f \in Places \ {g} :
                   Exists(pages, f) => AllPages'[f[1]][f[2]] = pages[f[1]][f[2]]
<1> DEFINE P == AllPages
           named == {g \in Places : HandleOf(g) = h /\ Exists(P, g)}
<1>1. h \in Places /\ h[1] <= HandlePages BY DEF Handles
<1>2. HandleOf(h) = h BY <1>1, HandleOfIs
<1>3. Len(P) \in Nat /\ HandlePages \in Nat BY ChainFacts, XdfSearchAssumption
<1>4. h \in named BY <1>1, <1>2 DEF OnlyThat, Exists
<1>5. ASSUME Len(P) <= HandlePages, NEW g \in named PROVE g = h
  <2>1. g \in Places /\ HandleOf(g) = h /\ g[1] <= Len(P) BY DEF Exists
  <2>2. g[1] <= HandlePages BY <1>3, <1>5, <2>1, PlaceIs
  <2> QED BY <2>1, <2>2, HandleOfIs
<1>6. /\ P[h[1]][h[2]] # Gone
      /\ \A f \in Places \ {h} : Exists(P, f) => AllPages'[f[1]][f[2]] = P[f[1]][f[2]]
  BY DEF OnlyThat, Exists
<1> HIDE DEF P, named
<1>7. Len(P) <= HandlePages => named = {h} BY <1>4, <1>5
<1> QED BY <1>4, <1>6, <1>7 DEF P, named

(***************************************************************************)
(* Erasing or rewriting through a handle, in a chain that stays whole,     *)
(* changes one live entry that a search gives this handle for and no other *)
(* entry; when the chain has no more pages than a handle has room for,     *)
(* there is no other entry with this handle.                               *)
(***************************************************************************)
THEOREM OnlyTheNamedRecordEverChanges == Spec => OnlyTheNamedRecordChanges
<1> DEFINE named(h) == {g \in Places : HandleOf(g) = h /\ Exists(AllPages, g)}
           Only(h) ==
             /\ Len(AllPages) <= HandlePages => named(h) = {h}
             /\ \E g \in named(h) :
                  /\ AllPages[g[1]][g[2]] # Gone
                  /\ \A f \in Places \ {g} :
                       Exists(AllPages, f) => AllPages'[f[1]][f[2]] = AllPages[f[1]][f[2]]
<1>1. ASSUME IInv, IInv', [Next]_vars, last'.op = "write", dir' # dir, ChainIsWhole, ChainIsWhole',
             NEW h \in Handles, Rewrites(h)
      PROVE  Only(h)
  <2>1. Shape /\ Shape' BY <1>1 DEF IInv
  <2>2. h \in Places BY HandleIsAPlace
  <2>3. OnlyThat(h) BY <1>1, <2>1, <2>2, RewritingIsOnlyThat
  <2> QED BY <2>1, <2>3, OnlyThatIsNamed
<1>2. IInv /\ IInv' /\ [Next]_vars =>
        [ last'.op = "write" /\ dir' # dir /\ ChainIsWhole /\ ChainIsWhole' =>
            \A h \in Handles : Rewrites(h) => Only(h) ]_vars
  <2> HIDE DEF Only
  <2> QED BY <1>1
<1> QED BY <1>2, SearchInvariant, PTL DEF Spec, OnlyTheNamedRecordChanges
=============================================================================
