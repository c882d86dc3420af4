-------------------------- MODULE WordFile_proofs --------------------------
(***************************************************************************)
(* Files whose pages come and go are the arrays of words of WordArray, for *)
(* every size of page and of pool, where requests are of whole 64-bit      *)
(* words, as are those that xdf98.c makes on random-access files, through  *)
(* W64TOWD.  c_wawrit2 and c_waread2 take any request: the Fortran wawrit2 *)
(* doubles its own, but only under ALL64, and vmm.c makes requests that    *)
(* do not satisfy the hypotheses here.                                     *)
(***************************************************************************)
EXTENDS WordFile, SequenceTheorems, WellFoundedInduction, TLAPS

(* Requests begin at odd addresses and have an even number of words, pages *)
(* have an even number of words (WA_CONFIG counts 1024 of them).           *)
DoubleWords ==
  /\ \A c \in Configs : c.WA_PAGE_SIZE % 2 = 0
  /\ \A a \in Starts : a % 2 = 1
  /\ \A n \in Lengths : n % 2 = 0
  /\ \A f \in Files : Len(Initial[f]) % 2 = 0

P == config.WA_PAGE_SIZE

---------------------------------------------------------------------------
(* Pages of z words: page number of a word, first and last word of a page. *)

Number(z, a) == (a - 1) \div z
Lowest(z, k) == k * z + 1
Highest(z, k) == (k + 1) * z
Span(z, k) == Lowest(z, k) .. Highest(z, k)

(* What a file is: its words on disk d, its pages in memory m, its size s, *)
(* the addresses fr written since it was opened.                           *)
HeldIn(z, d, m, a) ==
  IF z # 0 /\ Number(z, a) \in DOMAIN m THEN m[Number(z, a)].data[a]
  ELSE IF a <= Len(d) THEN d[a] ELSE Zero

(* A page in memory agrees with the disk where a scrap would not write.    *)
PageGood(z, f, d, s, k, m) ==
  /\ m \in [data : [Span(z, k) -> Value(f)], walast : 0 .. MaxSize[f], touched : BOOLEAN]
  /\ m.walast <= s /\ m.walast <= Highest(z, k)
  /\ m.touched => Lowest(z, k) <= m.walast
  /\ \A a \in Span(z, k) : a <= Len(d) /\ (~m.touched \/ a > m.walast) => m.data[a] = d[a]

FileGood(z, f, d, m, s, fr) ==
  /\ d \in Seq(Value(f))
  /\ s \in 0 .. MaxSize[f] /\ Len(d) <= s
  /\ DOMAIN m \subseteq Nat /\ (z = 0 => DOMAIN m = {})
  /\ \A k \in DOMAIN m : PageGood(z, f, d, s, k, m[k])
  /\ \A a \in Len(d) + 1 .. s : \E k \in DOMAIN m : a \in Span(z, k) /\ a <= m[k].walast /\ m[k].touched
  /\ fr \subseteq 1 .. MaxSize[f]
  /\ \A a \in (1 .. s) \ fr : a <= Len(d) /\ HeldIn(z, d, m, a) = d[a]

(* The words of a file end with a whole 64-bit word, those of a page in    *)
(* memory too.                                                             *)
EvenFile(d, m, s) ==
  /\ Len(d) % 2 = 0
  /\ s % 2 = 0
  /\ \A k \in DOMAIN m : m[k].walast % 2 = 0

---------------------------------------------------------------------------
(* What is left of a call. *)

EndOf(r) == r.adr + Len(r.buf) - 1
InOnePage(z, lo, hi) == z # 0 => hi <= Highest(z, Number(z, lo))

WriteRequest(f) == [adr : Nat \ {0}, buf : Seq(Value(f))]

(* The rest of a write to a file of s words: it begins at the end of the   *)
(* file or before, and goes on without a hole.                             *)
TodoGood(z, f, s, fr, t) ==
  /\ t \in Seq(WriteRequest(f)) /\ t # <<>>
  /\ t[1].adr <= s + 1
  /\ \A i \in 1 .. Len(t) :
       /\ t[i].buf # <<>> /\ EndOf(t[i]) <= MaxSize[f]
       /\ t[i].adr .. EndOf(t[i]) \subseteq fr
       /\ InOnePage(z, t[i].adr, EndOf(t[i]))
  /\ \A i \in 1 .. Len(t) - 1 : t[i + 1].adr <= EndOf(t[i]) + 1
  /\ \A i, j \in 1 .. Len(t) : i < j => EndOf(t[i]) < EndOf(t[j])
  /\ \A a \in s + 1 .. EndOf(t[Len(t)]) : Covers(t, a) # {}

(* All of its parts begin on a 64-bit word, and end with one; but for the  *)
(* one that fills a gap up to the first word to write, which ends in the   *)
(* middle of the first 64-bit word of the next one, both in the same page. *)
TodoEven(s, t) ==
  /\ \A i \in 1 .. Len(t) :
       /\ t[i].adr % 2 = 1
       /\ EndOf(t[i]) % 2 = 1 =>
            /\ i < Len(t) /\ t[i + 1].adr = EndOf(t[i]) /\ EndOf(t[i + 1]) % 2 = 0
            /\ EndOf(t[i]) > s
  /\ s % 2 = 1 => s = t[1].adr /\ EndOf(t[1]) % 2 = 0

(* The middle of such a write: the page that ends with the gap is still in *)
(* memory.                                                                 *)
OddFile(z, d, m, s) ==
  /\ Len(d) % 2 = 0
  /\ Number(z, s) \in DOMAIN m
  /\ \A k \in DOMAIN m : k = Number(z, s) \/ m[k].walast % 2 = 0

ReadRequest == [adr : Nat \ {0}, n : Nat \ {0}]

ReadGood(z, s, c) ==
  /\ c.todo \in Seq(ReadRequest) /\ c.todo # <<>>
  /\ c.adr \in Starts /\ Len(c.words) \in Nat
  /\ c.adr + Len(c.words) = c.todo[1].adr
  /\ \A i \in 1 .. Len(c.todo) :
       /\ InOnePage(z, c.todo[i].adr, c.todo[i].adr + c.todo[i].n - 1)
       /\ c.todo[i].adr + c.todo[i].n - 1 <= s
       /\ z # 0 => c.todo[i].adr % 2 = 1
  /\ \A i \in 1 .. Len(c.todo) - 1 : c.todo[i + 1].adr = c.todo[i].adr + c.todo[i].n
  /\ \E n \in Lengths :
       c.todo[Len(c.todo)].adr + c.todo[Len(c.todo)].n - 1 = Smaller(c.adr + n - 1, s)

---------------------------------------------------------------------------
(* The inductive invariant. *)

Size(f) == IF f \in opened THEN size[f] ELSE Len(disk[f])

Tables ==
  /\ config \in Configs
  /\ opened \subseteq Files
  /\ disk = [f \in Files |-> disk[f]]
  /\ page = [f \in Files |-> page[f]]
  /\ size \in [Files -> Nat]
  /\ fresh = [f \in Files |-> fresh[f]]

FilesGood == \A f \in Files : FileGood(P, f, disk[f], page[f], Size(f), fresh[f])

ClosedFiles ==
  \A f \in Files \ opened : size[f] = 0 /\ fresh[f] = {} /\ DOMAIN page[f] = {}

Writing(f) == call.op = "write" /\ call.file = f

FilesEven ==
  P # 0 => \A f \in Files :
             \/ EvenFile(disk[f], page[f], Size(f))
             \/ Writing(f) /\ size[f] % 2 = 1 /\ OddFile(P, disk[f], page[f], size[f])

CallGood ==
  \/ call = NoCall
  \/ \E f \in opened : call = [op |-> "close", file |-> f]
  \/ \E f \in opened \ ReadOnly :
       /\ call = [op |-> "write", file |-> f, todo |-> call.todo]
       /\ TodoGood(P, f, size[f], fresh[f], call.todo)
       /\ P # 0 => TodoEven(size[f], call.todo)
  \/ \E f \in opened :
       /\ call = [op |-> "read", file |-> f, adr |-> call.adr, words |-> call.words, todo |-> call.todo]
       /\ ReadGood(P, size[f], call)
       /\ call.words = SubSeq(Seen(f), call.adr, call.adr + Len(call.words) - 1)

IInv == Tables /\ FilesGood /\ ClosedFiles /\ FilesEven /\ CallGood

---------------------------------------------------------------------------
(* Pages of z words. *)

LEMMA PageBounds ==
  ASSUME NEW z \in Nat \ {0}, NEW a \in Nat \ {0}
  PROVE  /\ Number(z, a) \in Nat
         /\ Lowest(z, Number(z, a)) <= a /\ a <= Highest(z, Number(z, a))
<1> DEFINE q == (a - 1) \div z
<1>1. q \in Nat /\ q * z <= a - 1 /\ a - 1 < q * z + z BY SMTT(30)
<1>2. (q + 1) * z = q * z + z /\ q * z \in Nat BY <1>1
<1> HIDE DEF q
<1>3. q * z + 1 <= a /\ a <= (q + 1) * z BY <1>1, <1>2
<1> QED BY <1>1, <1>3 DEF Number, Lowest, Highest, q

(* The ends of pages are numbers, and pages follow each other.             *)
LEMMA PageEnds ==
  ASSUME NEW z \in Nat, NEW k \in Nat
  PROVE  /\ Lowest(z, k) \in Nat \ {0} /\ Highest(z, k) \in Nat
         /\ Highest(z, k) = Lowest(z, k) + z - 1
         /\ Lowest(z, k + 1) = Highest(z, k) + 1
<1>1. k * z \in Nat /\ (k + 1) * z = k * z + z OBVIOUS
<1> QED BY <1>1 DEF Lowest, Highest

LEMMA PageOrder ==
  ASSUME NEW z \in Nat, NEW j \in Nat, NEW k \in Nat, j < k
  PROVE  Highest(z, j) < Lowest(z, k)
<1>1. PICK i \in Nat : k = j + 1 + i OBVIOUS
<1>2. k * z = (j + 1) * z + i * z BY <1>1
<1>3. i * z \in Nat /\ (j + 1) * z \in Nat OBVIOUS
<1> QED BY <1>2, <1>3 DEF Lowest, Highest

LEMMA PageUnique ==
  ASSUME NEW z \in Nat \ {0}, NEW k \in Nat, NEW a \in Span(z, k)
  PROVE  a \in Nat \ {0} /\ Number(z, a) = k
<1>0. Lowest(z, k) \in Nat \ {0} /\ Highest(z, k) \in Nat BY PageEnds
<1>1. a \in Nat \ {0} /\ Lowest(z, k) <= a /\ a <= Highest(z, k) BY <1>0 DEF Span
<1> DEFINE n == Number(z, a)
<1>2. n \in Nat /\ Lowest(z, n) <= a /\ a <= Highest(z, n) BY <1>1, PageBounds
<1>3. Lowest(z, n) \in Nat /\ Highest(z, n) \in Nat /\ Lowest(z, k) \in Nat /\ Highest(z, k) \in Nat
  BY <1>2, PageEnds
<1> HIDE DEF n
<1>4. ~(n < k) BY <1>1, <1>2, <1>3, PageOrder
<1>5. ~(k < n) BY <1>1, <1>2, <1>3, PageOrder
<1>6. n = k BY <1>2, <1>4, <1>5
<1> QED BY <1>1, <1>6 DEF n

LEMMA InItsPage ==
  ASSUME NEW z \in Nat \ {0}, NEW a \in Nat \ {0}
  PROVE  Number(z, a) \in Nat /\ a \in Span(z, Number(z, a))
BY PageBounds, PageEnds DEF Span

(* Pages with an even number of words begin at odd addresses.              *)
LEMMA EvenPages ==
  ASSUME NEW z \in Nat, z % 2 = 0, NEW k \in Nat
  PROVE  Lowest(z, k) % 2 = 1 /\ Highest(z, k) % 2 = 0
<1>1. PICK h \in Nat : z = 2 * h OBVIOUS
<1>2. k * z = 2 * (k * h) /\ (k + 1) * z = 2 * ((k + 1) * h) BY <1>1
<1>3. k * h \in Nat /\ (k + 1) * h \in Nat BY <1>1
<1>4. \A x \in Nat : (2 * x) % 2 = 0 /\ (2 * x + 1) % 2 = 1 OBVIOUS
<1> QED BY <1>2, <1>3, <1>4 DEF Lowest, Highest

(* The page that wa_page_read and wa_page_write obtain for an odd address  *)
(* is the one the address is in.                                           *)
LEMMA NumberOfOdd ==
  ASSUME NEW z \in Nat \ {0}, z % 2 = 0, NEW a \in Nat, a % 2 = 1
  PROVE  a \div z = Number(z, a)
<1>0. a \in Nat \ {0} OBVIOUS
<1> DEFINE n == Number(z, a)
<1>1. n \in Nat /\ Lowest(z, n) <= a /\ a <= Highest(z, n) BY <1>0, PageBounds
<1>2. a # Highest(z, n) BY <1>1, EvenPages
<1>3. n * z \in Nat /\ (n + 1) * z = n * z + z BY <1>1
<1> HIDE DEF n
<1>4. n * z <= a /\ a < n * z + z BY <1>1, <1>2, <1>3 DEF Lowest, Highest
<1>5. PICK r \in 0 .. z - 1 : a = n * z + r
  <2>1. a - n * z \in 0 .. z - 1 BY <1>3, <1>4
  <2> QED BY <1>3, <2>1
<1>6. a \div z = n BY <1>1, <1>5, SMTT(30)
<1> QED BY <1>6 DEF n

---------------------------------------------------------------------------
(* What a write of the system leaves. *)

LEMMA FunctionIsSeq ==
  ASSUME NEW S, NEW n \in Nat, NEW s \in [1 .. n -> S]
  PROVE  s \in Seq(S) /\ Len(s) = n
OBVIOUS

LEMMA ValueIs ==
  ASSUME NEW f \in Files
  PROVE  Zero \in Value(f) /\ Junk \in Value(f) /\ MaxSize[f] \in Nat
BY WordFileAssumption DEF Value, WordFileAssumption

LEMMA WrittenIs ==
  ASSUME NEW f \in Files, NEW s \in Seq(Value(f)), NEW adr \in Nat \ {0}, NEW w \in Seq(Value(f)),
         w # <<>>
  PROVE  /\ Written(s, adr, w) \in Seq(Value(f))
         /\ Len(Written(s, adr, w)) = Larger(Len(s), adr + Len(w) - 1)
         /\ \A a \in 1 .. Larger(Len(s), adr + Len(w) - 1) :
              Written(s, adr, w)[a] = IF a \in adr .. adr + Len(w) - 1 THEN w[a - adr + 1]
                                      ELSE IF a <= Len(s) THEN s[a] ELSE Zero
<1>0. Zero \in Value(f) BY ValueIs
<1> DEFINE top == Larger(Len(s), adr + Len(w) - 1)
           x == Written(s, adr, w)
<1>1. Len(s) \in Nat /\ Len(w) \in Nat /\ adr + Len(w) - 1 \in Nat OBVIOUS
<1>2. top \in Nat BY <1>1 DEF Larger
<1>3. x = [a \in 1 .. top |-> IF a \in adr .. adr + Len(w) - 1 THEN w[a - adr + 1]
                              ELSE IF a <= Len(s) THEN s[a] ELSE Zero]
  BY DEF Written
<1> HIDE DEF top
<1>4. ASSUME NEW a \in 1 .. top
      PROVE  (IF a \in adr .. adr + Len(w) - 1 THEN w[a - adr + 1]
              ELSE IF a <= Len(s) THEN s[a] ELSE Zero) \in Value(f)
  <2>1. CASE a \in adr .. adr + Len(w) - 1
    <3>1. a - adr + 1 \in 1 .. Len(w) BY <1>1, <1>2, <2>1
    <3> QED BY <2>1, <3>1
  <2>2. CASE a \notin adr .. adr + Len(w) - 1 /\ a <= Len(s)
    <3>1. a \in 1 .. Len(s) BY <1>1, <1>2, <2>2
    <3> QED BY <2>2, <3>1
  <2>3. CASE a \notin adr .. adr + Len(w) - 1 /\ ~(a <= Len(s)) BY <1>0, <2>3
  <2> QED BY <2>1, <2>2, <2>3
<1>5. x \in [1 .. top -> Value(f)] BY <1>3, <1>4
<1>6. x \in Seq(Value(f)) /\ Len(x) = top BY <1>2, <1>5, FunctionIsSeq
<1> QED BY <1>3, <1>6 DEF top

---------------------------------------------------------------------------
(* Pages that come and go. *)

(* The disk d2 and the pages m2 hold the same words of the file as d and m.*)
Moved(z, f, d, m, s, fr, d2, m2) ==
  /\ FileGood(z, f, d2, m2, s, fr)
  /\ \A a \in 1 .. s : HeldIn(z, d2, m2, a) = HeldIn(z, d, m, a)
  /\ z % 2 = 0 /\ EvenFile(d, m, s) => EvenFile(d2, m2, s)

(* They hold the same words, but for those of buf, which is at adr .. e.   *)
Changed(z, f, d, m, s, fr, d2, m2, adr, e, buf) ==
  /\ FileGood(z, f, d2, m2, Larger(s, e), fr)
  /\ \A a \in 1 .. Larger(s, e) :
       HeldIn(z, d2, m2, a) = IF a \in adr .. e THEN buf[a - adr + 1] ELSE HeldIn(z, d, m, a)

(* A page that is scrapped leaves every word of the file as it was.        *)
ScrapWords(z, k, m) == [i \in 1 .. m.walast - Lowest(z, k) + 1 |-> m.data[Lowest(z, k) + i - 1]]

LEMMA ScrapFile ==
  ASSUME NEW z \in Nat \ {0}, NEW f \in Files, NEW d, NEW m, NEW s, NEW fr,
         FileGood(z, f, d, m, s, fr), NEW k \in DOMAIN m, NEW d2, NEW m2,
         DOMAIN m2 = DOMAIN m \ {k}, \A j \in DOMAIN m2 : m2[j] = m[j],
         m[k].touched => d2 = Written(d, Lowest(z, k), ScrapWords(z, k, m[k])),
         ~m[k].touched => d2 = d
  PROVE  Moved(z, f, d, m, s, fr, d2, m2)
<1> DEFINE p == m[k]
           lo == Lowest(z, k)
           w == [i \in 1 .. p.walast - lo + 1 |-> p.data[lo + i - 1]]
<1>1. /\ d \in Seq(Value(f)) /\ s \in Nat /\ s <= MaxSize[f] /\ Len(d) \in Nat /\ Len(d) <= s
      /\ DOMAIN m \subseteq Nat /\ k \in Nat
  BY ValueIs DEF FileGood
<1>2. /\ lo \in Nat \ {0} /\ Highest(z, k) \in Nat /\ Highest(z, k) = lo + z - 1
      /\ lo = Lowest(z, k) /\ Span(z, k) = lo .. Highest(z, k)
  BY <1>1, PageEnds DEF Span
<1> HIDE DEF lo
<1>3. PageGood(z, f, d, s, k, p) BY DEF FileGood
<1>4. /\ p.data \in [Span(z, k) -> Value(f)] /\ p.walast \in Nat /\ p.walast <= s /\ p.touched \in BOOLEAN
      /\ p.walast <= Highest(z, k) /\ (p.touched => lo <= p.walast)
      /\ \A a \in Span(z, k) : a <= Len(d) /\ (~p.touched \/ a > p.walast) => p.data[a] = d[a]
  BY <1>2, <1>3, ValueIs DEF PageGood
<1>5. \A a \in Len(d) + 1 .. s : \E j \in DOMAIN m : a \in Span(z, j) /\ a <= m[j].walast /\ m[j].touched
  BY DEF FileGood
<1>6. ASSUME NEW a \in 1 .. s
      PROVE  a \in Nat \ {0} /\ Number(z, a) \in Nat /\ a \in Span(z, Number(z, a))
  <2>1. a \in Nat \ {0} BY <1>1
  <2> QED BY <2>1, InItsPage
<1>7. \A j \in DOMAIN m : \A a \in Span(z, j) : Number(z, a) = j BY <1>1, PageUnique
\* the words of the page that are written, and the disk afterwards
<1> DEFINE Out(a) == p.touched /\ a \in Span(z, k) /\ a <= p.walast
<1>8. /\ d2 \in Seq(Value(f))
      /\ Len(d2) = IF p.touched THEN Larger(Len(d), p.walast) ELSE Len(d)
      /\ \A a \in 1 .. Len(d2) : d2[a] = IF Out(a) THEN p.data[a]
                                          ELSE IF a <= Len(d) THEN d[a] ELSE Zero
  <2>1. CASE p.touched
    <3>1. lo <= p.walast /\ p.walast <= Highest(z, k) BY <1>2, <1>4, <2>1
    <3>2. p.walast - lo + 1 \in Nat \ {0} BY <1>2, <1>4, <3>1
    <3>3. \A i \in 1 .. p.walast - lo + 1 : lo + i - 1 \in Span(z, k)
      BY <1>2, <1>4, <3>1, <3>2
    <3>4. w \in [1 .. p.walast - lo + 1 -> Value(f)] BY <1>4, <3>3
    <3>5. w \in Seq(Value(f)) /\ Len(w) = p.walast - lo + 1
      <4> HIDE DEF w
      <4> QED BY <3>2, <3>4, FunctionIsSeq
    <3>6. w # <<>>
      <4> HIDE DEF w
      <4> QED BY <3>2, <3>5
    <3>7. d2 = Written(d, lo, w) BY <1>2, <2>1 DEF ScrapWords
    <3>8. lo + Len(w) - 1 = p.walast
      <4> HIDE DEF w
      <4> QED BY <1>2, <1>4, <3>5
    <3>9. /\ d2 \in Seq(Value(f)) /\ Len(d2) = Larger(Len(d), p.walast)
          /\ \A a \in 1 .. Larger(Len(d), p.walast) :
               d2[a] = IF a \in lo .. p.walast THEN w[a - lo + 1]
                       ELSE IF a <= Len(d) THEN d[a] ELSE Zero
      <4> HIDE DEF w
      <4>1. lo \in Nat \ {0} /\ d \in Seq(Value(f)) /\ w \in Seq(Value(f)) /\ Zero \in Value(f)
        BY <1>1, <1>2, <3>5, ValueIs
      <4>2. /\ Written(d, lo, w) \in Seq(Value(f))
            /\ Len(Written(d, lo, w)) = Larger(Len(d), lo + Len(w) - 1)
            /\ \A a \in 1 .. Larger(Len(d), lo + Len(w) - 1) :
                 Written(d, lo, w)[a] = IF a \in lo .. lo + Len(w) - 1 THEN w[a - lo + 1]
                                        ELSE IF a <= Len(d) THEN d[a] ELSE Zero
        BY <3>6, <4>1, WrittenIs DEF Larger
      <4> QED BY <3>7, <3>8, <4>2
    <3>10. ASSUME NEW a \in 1 .. Len(d2)
           PROVE  d2[a] = IF Out(a) THEN p.data[a] ELSE IF a <= Len(d) THEN d[a] ELSE Zero
      <4>0. a \in Nat BY <3>9
      <4>1. Out(a) <=> a \in lo .. p.walast BY <1>2, <1>4, <2>1, <3>1, <4>0
      <4>2. ASSUME Out(a) PROVE w[a - lo + 1] = p.data[a]
        <5>1. a \in lo .. p.walast BY <4>1, <4>2
        <5>2. a - lo + 1 \in 1 .. p.walast - lo + 1 /\ lo + (a - lo + 1) - 1 = a BY <1>2, <1>4, <4>0, <5>1
        <5> QED BY <5>2
      <4> QED BY <3>9, <4>1, <4>2
    <3> QED BY <2>1, <3>9, <3>10
  <2>2. CASE ~p.touched BY <1>1, <2>2
  <2> QED BY <1>4, <2>1, <2>2
<1>9. Len(d2) \in Nat /\ Len(d) <= Len(d2) /\ Len(d2) <= s BY <1>1, <1>4, <1>8 DEF Larger
<1> HIDE DEF w
\* the words of page k are on disk, and there as they are in memory
<1>10. ASSUME NEW a \in 1 .. s, a \in Span(z, k)
       PROVE  a <= Len(d2) /\ d2[a] = p.data[a]
  <2>0. a \in Nat /\ 1 <= a BY <1>1
  <2>1. CASE a <= Len(d)
    <3>1. a \in 1 .. Len(d2) BY <1>1, <1>9, <2>0, <2>1
    <3>2. CASE Out(a) BY <1>8, <3>1, <3>2
    <3>3. CASE ~Out(a)
      <4>1. ~p.touched \/ a > p.walast BY <1>4, <1>10, <2>0, <3>3
      <4> QED BY <1>4, <1>8, <1>10, <2>1, <3>1, <3>3, <4>1
    <3> QED BY <3>1, <3>2, <3>3, <1>9, <2>0
  <2>2. CASE ~(a <= Len(d))
    <3>1. PICK j \in DOMAIN m : a \in Span(z, j) /\ a <= m[j].walast /\ m[j].touched
      BY <1>1, <1>5, <2>0, <2>2
    <3>2. j = k BY <1>7, <1>10, <3>1
    <3>3. Out(a) BY <1>10, <3>1, <3>2
    <3>4. a <= Len(d2) BY <1>1, <1>4, <1>8, <2>0, <3>3 DEF Larger
    <3> QED BY <1>8, <2>0, <3>3, <3>4, <1>9
  <2> QED BY <2>1, <2>2
<1>11. ASSUME NEW a \in 1 .. Len(d), a \notin Span(z, k)
       PROVE  a <= Len(d2) /\ d2[a] = d[a]
  <2>1. a \in 1 .. Len(d2) /\ a <= Len(d) BY <1>1, <1>9
  <2> QED BY <1>8, <1>9, <1>11, <2>1
<1>12. ASSUME NEW a \in 1 .. s PROVE HeldIn(z, d2, m2, a) = HeldIn(z, d, m, a)
  <2>1. a \in Nat \ {0} /\ Number(z, a) \in Nat /\ a \in Span(z, Number(z, a)) BY <1>6
  <2>2. CASE Number(z, a) = k
    <3>1. a <= Len(d2) /\ d2[a] = p.data[a] BY <1>10, <2>1, <2>2
    <3> QED BY <2>2, <3>1 DEF HeldIn
  <2>3. CASE Number(z, a) # k /\ Number(z, a) \in DOMAIN m BY <2>3 DEF HeldIn
  <2>4. CASE Number(z, a) \notin DOMAIN m
    <3>1. a <= Len(d)
      <4> SUFFICES ASSUME ~(a <= Len(d)) PROVE FALSE OBVIOUS
      <4>1. a \in Len(d) + 1 .. s BY <1>1, <2>1
      <4> QED BY <1>5, <1>7, <2>4, <4>1
    <3>2. a \notin Span(z, k) BY <1>7, <2>4
    <3>3. a <= Len(d2) /\ d2[a] = d[a] BY <1>1, <1>11, <2>1, <3>1, <3>2
    <3> QED BY <2>4, <3>1, <3>3 DEF HeldIn
  <2> QED BY <2>2, <2>3, <2>4
<1>13. ASSUME NEW j \in DOMAIN m2 PROVE PageGood(z, f, d2, s, j, m2[j])
  <2>1. j \in DOMAIN m /\ j # k /\ m2[j] = m[j] /\ PageGood(z, f, d, s, j, m[j]) BY DEF FileGood
  <2>2. ASSUME NEW a \in Span(z, j), a <= Len(d2), ~m[j].touched \/ a > m[j].walast
        PROVE  m[j].data[a] = d2[a]
    <3>0. a \in Nat \ {0} /\ Number(z, a) = j BY <1>1, <2>1, PageUnique
    <3>1. a \in 1 .. s BY <1>1, <1>9, <2>2, <3>0
    <3>2. a \notin Span(z, k) BY <1>7, <2>1, <3>0
    <3>3. a <= Len(d)
      <4> SUFFICES ASSUME ~(a <= Len(d)) PROVE FALSE OBVIOUS
      <4>1. PICK i \in DOMAIN m : a \in Span(z, i) /\ a <= m[i].walast /\ m[i].touched
        BY <1>1, <1>5, <3>1
      <4>2. i = j BY <1>7, <3>0, <4>1
      <4>3. m[j].walast \in Nat BY <2>1, ValueIs DEF PageGood
      <4> QED BY <2>2, <3>0, <4>1, <4>2, <4>3
    <3>4. d2[a] = d[a] BY <1>1, <1>11, <3>0, <3>2, <3>3
    <3> QED BY <2>1, <2>2, <3>3, <3>4 DEF PageGood
  <2> QED BY <2>1, <2>2 DEF PageGood
<1>14. ASSUME NEW a \in Len(d2) + 1 .. s
       PROVE  \E j \in DOMAIN m2 : a \in Span(z, j) /\ a <= m2[j].walast /\ m2[j].touched
  <2>1. a \in 1 .. s /\ a \in Len(d) + 1 .. s /\ ~(a <= Len(d2)) BY <1>1, <1>9
  <2>2. PICK j \in DOMAIN m : a \in Span(z, j) /\ a <= m[j].walast /\ m[j].touched BY <1>5, <2>1
  <2>3. j # k BY <1>10, <2>1, <2>2
  <2> QED BY <2>2, <2>3
<1>15. ASSUME NEW a \in (1 .. s) \ fr PROVE a <= Len(d2) /\ HeldIn(z, d2, m2, a) = d2[a]
  <2>1. a <= Len(d) /\ HeldIn(z, d, m, a) = d[a] BY DEF FileGood
  <2>2. a \in Nat \ {0} /\ Number(z, a) \in Nat /\ a \in Span(z, Number(z, a)) BY <1>6
  <2>3. HeldIn(z, d2, m2, a) = HeldIn(z, d, m, a) BY <1>12
  <2>4. CASE Number(z, a) = k
    <3>1. a <= Len(d2) /\ d2[a] = p.data[a] BY <1>10, <2>2, <2>4
    <3> QED BY <2>3, <2>4, <3>1 DEF HeldIn
  <2>5. CASE Number(z, a) # k
    <3>1. a \notin Span(z, k) BY <1>7, <2>5
    <3> QED BY <1>1, <1>11, <2>1, <2>2, <2>3, <3>1
  <2> QED BY <2>4, <2>5
<1>16. fr \subseteq 1 .. MaxSize[f] BY DEF FileGood
<1>17. FileGood(z, f, d2, m2, s, fr)
  BY <1>1, <1>8, <1>9, <1>13, <1>14, <1>15, <1>16, ValueIs DEF FileGood
<1>18. EvenFile(d, m, s) => EvenFile(d2, m2, s) BY <1>8 DEF EvenFile, Larger
<1> QED BY <1>12, <1>17, <1>18 DEF Moved

(* A page that is read agrees with the disk.                               *)
LEMMA LoadFile ==
  ASSUME NEW z \in Nat \ {0}, NEW f \in Files, NEW d, NEW m, NEW s, NEW fr,
         FileGood(z, f, d, m, s, fr), NEW k \in Nat, k \notin DOMAIN m,
         Len(d) >= Smaller(s, Highest(z, k)), NEW m2,
         DOMAIN m2 = DOMAIN m \cup {k}, \A j \in DOMAIN m : m2[j] = m[j],
         m2[k] = [data |-> [a \in Span(z, k) |-> IF a <= Len(d) THEN d[a] ELSE Zero],
                  walast |-> Smaller(Len(d), Highest(z, k)), touched |-> FALSE]
  PROVE  Moved(z, f, d, m, s, fr, d, m2)
<1>1. /\ d \in Seq(Value(f)) /\ s \in Nat /\ s <= MaxSize[f] /\ Len(d) \in Nat /\ Len(d) <= s
      /\ DOMAIN m \subseteq Nat /\ MaxSize[f] \in Nat /\ Zero \in Value(f)
      /\ fr \subseteq 1 .. MaxSize[f] /\ s \in 0 .. MaxSize[f]
  BY ValueIs DEF FileGood
<1>2. /\ Lowest(z, k) \in Nat \ {0} /\ Highest(z, k) \in Nat
      /\ Span(z, k) = Lowest(z, k) .. Highest(z, k)
  BY <1>1, PageEnds DEF Span
<1>3. \A a \in 1 .. s : a \in Nat \ {0} /\ Number(z, a) \in Nat /\ a \in Span(z, Number(z, a))
  <2> TAKE a \in 1 .. s
  <2>1. a \in Nat \ {0} BY <1>1
  <2> QED BY <2>1, InItsPage
\* the words of page k that the file has are on disk
<1>4. \A a \in Span(z, k) : a <= s => a \in 1 .. Len(d)
  BY <1>1, <1>2 DEF Smaller
<1>5. \A a \in Span(z, k) : m2[k].data[a] = IF a <= Len(d) THEN d[a] ELSE Zero OBVIOUS
<1>6. PageGood(z, f, d, s, k, m2[k])
  <2>1. [a \in Span(z, k) |-> IF a <= Len(d) THEN d[a] ELSE Zero] \in [Span(z, k) -> Value(f)]
    <3>1. ASSUME NEW a \in Span(z, k) PROVE (IF a <= Len(d) THEN d[a] ELSE Zero) \in Value(f)
      <4>1. a <= Len(d) => a \in 1 .. Len(d) BY <1>1, <1>2
      <4> QED BY <1>1, <4>1
    <3> QED BY <3>1
  <2>2. Smaller(Len(d), Highest(z, k)) \in 0 .. MaxSize[f] /\ Smaller(Len(d), Highest(z, k)) <= s
        /\ Smaller(Len(d), Highest(z, k)) <= Highest(z, k)
    BY <1>1, <1>2 DEF Smaller
  <2> QED BY <1>5, <2>1, <2>2 DEF PageGood
<1>7. ASSUME NEW a \in 1 .. s PROVE HeldIn(z, d, m2, a) = HeldIn(z, d, m, a)
  <2>1. CASE Number(z, a) = k
    <3>1. a \in Span(z, k) BY <1>3, <2>1
    <3>2. a \in 1 .. Len(d) BY <1>1, <1>4, <3>1
    <3>3. a <= Len(d) BY <1>1, <3>2
    <3> QED BY <1>5, <2>1, <3>1, <3>3 DEF HeldIn
  <2>2. CASE Number(z, a) # k BY <2>2 DEF HeldIn
  <2> QED BY <2>1, <2>2
<1>8. ASSUME NEW j \in DOMAIN m2 PROVE PageGood(z, f, d, s, j, m2[j])
  BY <1>6 DEF FileGood
<1>9. ASSUME NEW a \in Len(d) + 1 .. s
      PROVE  \E j \in DOMAIN m2 : a \in Span(z, j) /\ a <= m2[j].walast /\ m2[j].touched
  <2>1. PICK j \in DOMAIN m : a \in Span(z, j) /\ a <= m[j].walast /\ m[j].touched BY DEF FileGood
  <2> QED BY <2>1
<1>10. ASSUME NEW a \in (1 .. s) \ fr PROVE a <= Len(d) /\ HeldIn(z, d, m2, a) = d[a]
  BY <1>7 DEF FileGood
<1>11. FileGood(z, f, d, m2, s, fr) BY <1>1, <1>8, <1>9, <1>10 DEF FileGood
<1>12. ASSUME z % 2 = 0, EvenFile(d, m, s) PROVE EvenFile(d, m2, s)
  <2>1. Highest(z, k) % 2 = 0 BY <1>12, EvenPages
  <2>2. m2[k].walast % 2 = 0 BY <1>12, <2>1 DEF EvenFile, Smaller
  <2> QED BY <1>12, <2>2 DEF EvenFile
<1> QED BY <1>7, <1>11, <1>12 DEF Moved

LoadCase(z, f, d, m, s, fr, k, m2) ==
  /\ z \in Nat \ {0} /\ f \in Files /\ FileGood(z, f, d, m, s, fr) /\ k \in Nat /\ k \notin DOMAIN m
  /\ Len(d) >= Smaller(s, Highest(z, k))
  /\ DOMAIN m2 = DOMAIN m \cup {k} /\ \A j \in DOMAIN m : m2[j] = m[j]
  /\ m2[k] = [data |-> [a \in Span(z, k) |-> IF a <= Len(d) THEN d[a] ELSE Zero],
              walast |-> Smaller(Len(d), Highest(z, k)), touched |-> FALSE]

LEMMA LoadFileCase ==
  ASSUME NEW z, NEW f, NEW d, NEW m, NEW s, NEW fr, NEW k, NEW m2, LoadCase(z, f, d, m, s, fr, k, m2)
  PROVE  Moved(z, f, d, m, s, fr, d, m2)
BY LoadFile DEF LoadCase

(* What is written to a page in memory, which was read before if it has    *)
(* words of the file that the write does not replace.                      *)
LEMMA StoreFile ==
  ASSUME NEW z \in Nat \ {0}, NEW f \in Files, NEW d, NEW m, NEW s, NEW fr,
         FileGood(z, f, d, m, s, fr), NEW k \in Nat,
         NEW adr \in Span(z, k), NEW buf \in Seq(Value(f)), NEW e \in Span(z, k),
         e = adr + Len(buf) - 1, adr <= s + 1, e <= MaxSize[f], adr .. e \subseteq fr, adr <= e,
         NEW old \in [data : [Span(z, k) -> Value(f)], walast : 0 .. MaxSize[f], touched : BOOLEAN],
         k \in DOMAIN m => old = m[k],
         k \notin DOMAIN m =>
           /\ ~old.touched /\ old.walast <= s /\ old.walast <= Highest(z, k)
           /\ \A a \in Span(z, k) \ (adr .. e) : a <= s => a <= Len(d) /\ old.data[a] = d[a],
         NEW m2, DOMAIN m2 = DOMAIN m \cup {k}, \A j \in DOMAIN m \ {k} : m2[j] = m[j],
         m2[k] = Stored(old, adr, buf)
  PROVE  Changed(z, f, d, m, s, fr, d, m2, adr, e, buf)
<1> DEFINE top == Larger(s, e)
           new == Larger(old.walast, e)
<1>1. /\ d \in Seq(Value(f)) /\ s \in Nat /\ s <= MaxSize[f] /\ Len(d) \in Nat /\ Len(d) <= s
      /\ DOMAIN m \subseteq Nat /\ MaxSize[f] \in Nat
      /\ fr \subseteq 1 .. MaxSize[f] /\ s \in 0 .. MaxSize[f]
  BY ValueIs DEF FileGood
<1>2. /\ Lowest(z, k) \in Nat \ {0} /\ Highest(z, k) \in Nat
      /\ Span(z, k) = Lowest(z, k) .. Highest(z, k)
  BY <1>1, PageEnds DEF Span
<1>3. /\ adr \in Nat \ {0} /\ e \in Nat /\ Len(buf) \in Nat
      /\ Lowest(z, k) <= adr /\ e <= Highest(z, k)
  BY <1>2
<1>4. /\ old.data \in [Span(z, k) -> Value(f)] /\ old.walast \in Nat /\ old.walast <= s
      /\ old.walast <= Highest(z, k)
      /\ k \in DOMAIN m => PageGood(z, f, d, s, k, old)
  BY <1>1 DEF FileGood, PageGood
<1>5. /\ top \in Nat /\ top <= MaxSize[f] /\ s <= top /\ e <= top /\ (top = s \/ top = e)
      /\ new \in Nat /\ new <= top /\ new <= Highest(z, k) /\ Lowest(z, k) <= new /\ old.walast <= new /\ e <= new
  BY <1>1, <1>2, <1>3, <1>4 DEF Larger
<1>6. \A a \in Nat \ {0} : Number(z, a) \in Nat /\ a \in Span(z, Number(z, a)) BY InItsPage
<1>7. /\ m2[k].data = [a \in Span(z, k) |-> IF a \in adr .. e THEN buf[a - adr + 1] ELSE old.data[a]]
      /\ m2[k].walast = new /\ m2[k].touched
      /\ m2[k] = [data |-> m2[k].data, walast |-> m2[k].walast, touched |-> m2[k].touched]
      /\ m2[k].touched = TRUE
  BY DEF Stored
<1> HIDE DEF top, new
<1>8. \A a \in Span(z, k) : m2[k].data[a] = IF a \in adr .. e THEN buf[a - adr + 1] ELSE old.data[a]
  BY <1>7
<1>9. m2[k].data \in [Span(z, k) -> Value(f)]
  <2>1. ASSUME NEW a \in Span(z, k)
        PROVE  (IF a \in adr .. e THEN buf[a - adr + 1] ELSE old.data[a]) \in Value(f)
    <3>1. a \in adr .. e => a - adr + 1 \in 1 .. Len(buf) BY <1>2, <1>3
    <3> QED BY <1>4, <3>1
  <2> QED BY <1>7, <2>1
\* the other words of page k that the file has
<1>10. ASSUME NEW a \in 1 .. s, a \in Span(z, k), a \notin adr .. e
       PROVE  old.data[a] = HeldIn(z, d, m, a)
  <2>1. Number(z, a) = k BY <1>10, PageUnique
  <2>2. CASE k \in DOMAIN m BY <2>1, <2>2 DEF HeldIn
  <2>3. CASE k \notin DOMAIN m BY <1>1, <1>10, <2>1, <2>3 DEF HeldIn
  <2> QED BY <2>2, <2>3
<1>11. PageGood(z, f, d, top, k, m2[k])
  <2>1. ASSUME NEW a \in Span(z, k), a <= Len(d), a > new PROVE m2[k].data[a] = d[a]
    <3>1. a \in Nat /\ a \in 1 .. s /\ a \notin adr .. e /\ a > old.walast
      BY <1>1, <1>2, <1>3, <1>4, <1>5, <2>1
    <3>2. m2[k].data[a] = old.data[a] BY <1>8, <3>1
    <3>3. CASE k \in DOMAIN m BY <1>4, <2>1, <3>1, <3>2, <3>3 DEF PageGood
    <3>4. CASE k \notin DOMAIN m BY <1>1, <3>1, <3>2, <3>4
    <3> QED BY <3>3, <3>4
  <2>2. new \in 0 .. MaxSize[f] BY <1>1, <1>5
  <2>3. m2[k] \in [data : [Span(z, k) -> Value(f)], walast : 0 .. MaxSize[f], touched : BOOLEAN]
    BY <1>7, <1>9, <2>2
  <2> QED BY <1>5, <1>7, <2>1, <2>3 DEF PageGood
<1>12. ASSUME NEW j \in DOMAIN m2, j # k PROVE PageGood(z, f, d, top, j, m2[j])
  <2>1. j \in DOMAIN m /\ m2[j] = m[j] /\ PageGood(z, f, d, s, j, m[j]) BY <1>12 DEF FileGood
  <2>2. m[j].walast \in Nat BY <1>1, <2>1 DEF PageGood
  <2> QED BY <1>1, <1>5, <2>1, <2>2 DEF PageGood
<1>13. ASSUME NEW a \in Len(d) + 1 .. top
       PROVE  \E j \in DOMAIN m2 : a \in Span(z, j) /\ a <= m2[j].walast /\ m2[j].touched
  <2>0. a \in Nat /\ (a \in Len(d) + 1 .. s \/ a \in s + 1 .. e) BY <1>1, <1>3, <1>5
  <2>1. CASE a \in Len(d) + 1 .. s
    <3>1. PICK j \in DOMAIN m : a \in Span(z, j) /\ a <= m[j].walast /\ m[j].touched
      BY <2>1 DEF FileGood
    <3>2. CASE j = k
      <4>1. a \in Span(z, k) /\ a <= old.walast BY <3>1, <3>2
      <4>2. a \in Nat BY <1>1, <2>1
      <4>3. a <= m2[k].walast BY <1>4, <1>5, <1>7, <4>1, <4>2
      <4> QED BY <1>7, <4>1, <4>3
    <3>3. CASE j # k BY <3>1, <3>3
    <3> QED BY <3>2, <3>3
  <2>2. CASE a \in s + 1 .. e
    <3>0. a \in Nat /\ adr <= a /\ a <= e BY <1>1, <1>3, <2>2
    <3>1. a \in Span(z, k) /\ a <= new BY <1>2, <1>3, <1>5, <3>0
    <3> QED BY <1>7, <3>1
  <2> QED BY <2>0, <2>1, <2>2
<1>14. ASSUME NEW a \in 1 .. top
       PROVE  HeldIn(z, d, m2, a) = IF a \in adr .. e THEN buf[a - adr + 1] ELSE HeldIn(z, d, m, a)
  <2>0. a \in Nat \ {0} BY <1>5
  <2>1. CASE Number(z, a) = k
    <3>1. a \in Span(z, k) BY <1>6, <2>0, <2>1
    <3>2. HeldIn(z, d, m2, a) = m2[k].data[a] BY <2>1 DEF HeldIn
    <3>3. a \notin adr .. e => a \in 1 .. s BY <1>1, <1>3, <1>5, <2>0
    <3> QED BY <1>8, <1>10, <3>1, <3>2, <3>3
  <2>2. CASE Number(z, a) # k
    <3>1. a \notin adr .. e
      <4> SUFFICES ASSUME a \in adr .. e PROVE FALSE OBVIOUS
      <4>1. a \in Span(z, k) BY <1>2, <1>3, <2>0
      <4> QED BY <2>2, <4>1, PageUnique
    <3> QED BY <2>2, <3>1 DEF HeldIn
  <2> QED BY <2>1, <2>2
<1>15. ASSUME NEW a \in (1 .. top) \ fr PROVE a <= Len(d) /\ HeldIn(z, d, m2, a) = d[a]
  <2>1. a \notin adr .. e /\ a \in (1 .. s) \ fr BY <1>1, <1>3, <1>5
  <2> QED BY <1>14, <2>1 DEF FileGood
<1>16. FileGood(z, f, d, m2, top, fr)
  <2>1. top \in 0 .. MaxSize[f] /\ Len(d) <= top /\ DOMAIN m2 \subseteq Nat BY <1>1, <1>5
  <2> QED BY <1>1, <1>11, <1>12, <1>13, <1>15, <2>1 DEF FileGood
<1> QED BY <1>14, <1>16 DEF Changed, top

StoreCase(z, f, d, m, s, fr, k, adr, e, buf, old, m2) ==
  /\ z \in Nat \ {0} /\ f \in Files /\ FileGood(z, f, d, m, s, fr) /\ k \in Nat
  /\ adr \in Span(z, k) /\ buf \in Seq(Value(f)) /\ e \in Span(z, k)
  /\ e = adr + Len(buf) - 1 /\ adr <= s + 1 /\ e <= MaxSize[f] /\ adr .. e \subseteq fr /\ adr <= e
  /\ old \in [data : [Span(z, k) -> Value(f)], walast : 0 .. MaxSize[f], touched : BOOLEAN]
  /\ k \in DOMAIN m => old = m[k]
  /\ k \notin DOMAIN m =>
       /\ ~old.touched /\ old.walast <= s /\ old.walast <= Highest(z, k)
       /\ \A a \in Span(z, k) \ (adr .. e) : a <= s => a <= Len(d) /\ old.data[a] = d[a]
  /\ DOMAIN m2 = DOMAIN m \cup {k} /\ \A j \in DOMAIN m \ {k} : m2[j] = m[j]
  /\ m2[k] = Stored(old, adr, buf)

LEMMA StoreFileCase ==
  ASSUME NEW z, NEW f, NEW d, NEW m, NEW s, NEW fr, NEW k, NEW adr, NEW e, NEW buf, NEW old, NEW m2,
         StoreCase(z, f, d, m, s, fr, k, adr, e, buf, old, m2)
  PROVE  Changed(z, f, d, m, s, fr, d, m2, adr, e, buf)
BY StoreFile DEF StoreCase

(* Without pages, a file is what is on disk.                               *)
LEMMA DirectFile ==
  ASSUME NEW f \in Files, NEW d, NEW m, NEW s, NEW fr, FileGood(0, f, d, m, s, fr)
  PROVE  Len(d) = s /\ \A a \in 1 .. s : HeldIn(0, d, m, a) = d[a]
<1>1. d \in Seq(Value(f)) /\ s \in Nat /\ Len(d) \in Nat /\ Len(d) <= s /\ DOMAIN m = {}
  BY ValueIs DEF FileGood
<1>2. ~(Len(d) < s)
  <2> SUFFICES ASSUME Len(d) < s PROVE FALSE OBVIOUS
  <2>1. s \in Len(d) + 1 .. s BY <1>1
  <2> QED BY <1>1, <2>1 DEF FileGood
<1>3. Len(d) = s BY <1>1, <1>2
<1> QED BY <1>1, <1>3 DEF HeldIn

LEMMA PutFile ==
  ASSUME NEW f \in Files, NEW d, NEW m, NEW s, NEW fr, FileGood(0, f, d, m, s, fr),
         NEW adr \in Nat \ {0}, NEW buf \in Seq(Value(f)), buf # <<>>, NEW e \in Nat,
         e = adr + Len(buf) - 1, adr <= s + 1, e <= MaxSize[f], adr .. e \subseteq fr
  PROVE  Changed(0, f, d, m, s, fr, Written(d, adr, buf), m, adr, e, buf)
<1> DEFINE d2 == Written(d, adr, buf)
           top == Larger(s, e)
<1>1. /\ d \in Seq(Value(f)) /\ s \in Nat /\ s <= MaxSize[f] /\ DOMAIN m = {} /\ MaxSize[f] \in Nat
      /\ fr \subseteq 1 .. MaxSize[f]
  BY ValueIs DEF FileGood
<1>2. Len(d) = s /\ \A a \in 1 .. s : HeldIn(0, d, m, a) = d[a] BY DirectFile
<1>3. top \in Nat /\ top <= MaxSize[f] /\ s <= top /\ e <= top /\ (top = s \/ top = e)
  BY <1>1 DEF Larger
<1>4. /\ d2 \in Seq(Value(f)) /\ Len(d2) = top
      /\ \A a \in 1 .. top : d2[a] = IF a \in adr .. e THEN buf[a - adr + 1]
                                     ELSE IF a <= s THEN d[a] ELSE Zero
  BY <1>1, <1>2, WrittenIs DEF Larger
<1> HIDE DEF d2, top
<1>5. ASSUME NEW a \in 1 .. top
      PROVE  /\ HeldIn(0, d2, m, a) = d2[a]
             /\ d2[a] = IF a \in adr .. e THEN buf[a - adr + 1] ELSE HeldIn(0, d, m, a)
  <2>1. HeldIn(0, d2, m, a) = d2[a] BY <1>3, <1>4 DEF HeldIn
  <2>2. a \notin adr .. e => a \in 1 .. s /\ a <= s BY <1>1, <1>3
  <2> QED BY <1>2, <1>4, <2>1, <2>2
<1>6. ASSUME NEW a \in (1 .. top) \ fr PROVE a <= Len(d2) /\ HeldIn(0, d2, m, a) = d2[a]
  BY <1>3, <1>4, <1>5
<1>7. Len(d2) + 1 .. top = {} BY <1>3, <1>4
<1>8. FileGood(0, f, d2, m, top, fr) BY <1>1, <1>3, <1>4, <1>6, <1>7 DEF FileGood
<1> QED BY <1>5, <1>8 DEF Changed, d2, top

---------------------------------------------------------------------------
(* What the program sees: the words h of the file, n of them, and what is  *)
(* left of the write in course over them.                                  *)

HeldWords(z, d, m, n) == [a \in 1 .. n |-> HeldIn(z, d, m, a)]
LastOver(t, a) == CHOOSE i \in Covers(t, a) : \A j \in Covers(t, a) : j <= i
TopOf(n, t) == IF t = <<>> THEN n ELSE Larger(n, EndOf(t[Len(t)]))

Over(n, h, t) ==
  [a \in 1 .. TopOf(n, t) |->
     IF Covers(t, a) = {} THEN h[a] ELSE t[LastOver(t, a)].buf[a - t[LastOver(t, a)].adr + 1]]

LEMMA Least ==
  ASSUME NEW T \in SUBSET Nat, T # {}
  PROVE  \E n \in T : \A m \in T : n <= m
<1> DEFINE R == {ss \in Nat \X Nat : ss[1] < ss[2]}
<1>1. IsWellFoundedOn(R, Nat) BY NatLessThanWellFounded DEF OpToRel
<1>2. \A x, y \in Nat : x < y => <<x, y>> \in R OBVIOUS
<1> HIDE DEF R
<1>3. PICK x \in T : \A y \in T : ~(<<y, x>> \in R) BY <1>1, WFMin
<1>4. \A y \in T : ~(y < x) BY <1>2, <1>3
<1> QED BY <1>4

LEMMA HasLast ==
  ASSUME NEW t, Len(t) \in Nat, DOMAIN t = 1 .. Len(t), NEW a, Covers(t, a) # {}
  PROVE  \E i \in Covers(t, a) : \A j \in Covers(t, a) : j <= i
<1>1. Covers(t, a) \subseteq 1 .. Len(t) BY DEF Covers
<1> DEFINE T == {n \in 0 .. Len(t) : \A j \in Covers(t, a) : j <= n}
<1>2. Len(t) \in T BY <1>1
<1>3. T \in SUBSET Nat OBVIOUS
<1>4. PICK n \in T : \A m \in T : n <= m
  <2> HIDE DEF T
  <2> QED BY <1>2, <1>3, Least
<1>5. n \in Covers(t, a)
  <2> SUFFICES ASSUME n \notin Covers(t, a) PROVE FALSE OBVIOUS
  <2>1. n # 0 BY <1>1, <1>4
  <2>2. n - 1 \in T BY <1>1, <1>4, <2>1
  <2> QED BY <1>3, <1>4, <2>2
<1> QED BY <1>4, <1>5

LEMMA LastIs ==
  ASSUME NEW t, Len(t) \in Nat, DOMAIN t = 1 .. Len(t), NEW a
  PROVE  /\ Covers(t, a) # {} => LastOver(t, a) \in Covers(t, a)
         /\ \A i \in Covers(t, a) : (\A j \in Covers(t, a) : j <= i) => LastOver(t, a) = i
<1>1. Covers(t, a) \subseteq 1 .. Len(t) BY DEF Covers
<1>2. ASSUME NEW i \in Covers(t, a), \A j \in Covers(t, a) : j <= i PROVE LastOver(t, a) = i
  <2>1. \A x \in Covers(t, a) : (\A j \in Covers(t, a) : j <= x) => x = i
    BY <1>1, <1>2
  <2> QED BY <1>2, <2>1 DEF LastOver
<1> QED BY <1>2, HasLast

(* The parts of t end one behind the other and leave no hole.              *)
InOrder(n, t) ==
  /\ \A i, j \in 1 .. Len(t) : i < j => EndOf(t[i]) < EndOf(t[j])
  /\ \A a \in n + 1 .. EndOf(t[Len(t)]) : Covers(t, a) # {}

(* The n words of h become h2 when r is written.                           *)
Puts(n, h, h2, r) ==
  \A a \in 1 .. Larger(n, EndOf(r)) :
    h2[a] = IF a \in r.adr .. EndOf(r) THEN r.buf[a - r.adr + 1] ELSE h[a]

SameOver(n, h, t, n2, h2, u) == Over(n2, h2, u) = Over(n, h, t)

(* To carry out the first part of what is left changes nothing.            *)
LEMMA OverTail ==
  ASSUME NEW f \in Files, NEW n \in Nat, NEW h, NEW t \in Seq(WriteRequest(f)), t # <<>>,
         InOrder(n, t), NEW h2, Puts(n, h, h2, t[1])
  PROVE  SameOver(n, h, t, Larger(n, EndOf(t[1])), h2, Tail(t))
<1> DEFINE u == Tail(t)
           n2 == Larger(n, EndOf(t[1]))
<1>1. /\ Len(t) \in Nat \ {0} /\ DOMAIN t = 1 .. Len(t)
      /\ Len(u) = Len(t) - 1 /\ DOMAIN u = 1 .. Len(u) /\ \A i \in 1 .. Len(u) : u[i] = t[i + 1]
  OBVIOUS
<1> HIDE DEF u
<1>2. \A i \in 1 .. Len(t) : t[i].adr \in Nat \ {0} /\ t[i].buf \in Seq(Value(f)) /\ EndOf(t[i]) \in Int
  <2> TAKE i \in 1 .. Len(t)
  <2>1. t[i] \in WriteRequest(f) OBVIOUS
  <2>2. t[i].adr \in Nat \ {0} /\ t[i].buf \in Seq(Value(f)) BY <2>1 DEF WriteRequest
  <2>3. Len(t[i].buf) \in Nat BY <2>2
  <2> QED BY <2>2, <2>3 DEF EndOf
<1>3. u = <<>> <=> Len(t) = 1
  <2>1. u \in Seq(WriteRequest(f)) BY DEF u
  <2> QED BY <1>1, <2>1
<1>4. TopOf(n2, u) = TopOf(n, t)
  <2>1. CASE Len(t) = 1 BY <1>3, <2>1 DEF TopOf
  <2>2. CASE Len(t) # 1
    <3>1. u[Len(u)] = t[Len(t)] /\ 1 \in 1 .. Len(t) /\ Len(t) \in 1 .. Len(t) /\ 1 < Len(t) BY <1>1, <2>2
    <3>2. EndOf(t[1]) < EndOf(t[Len(t)]) /\ EndOf(t[1]) \in Int /\ EndOf(t[Len(t)]) \in Int
      BY <1>2, <3>1 DEF InOrder
    <3>3. Larger(n2, EndOf(t[Len(t)])) = Larger(n, EndOf(t[Len(t)])) BY <3>2 DEF Larger
    <3> QED BY <1>3, <2>2, <3>1, <3>3 DEF TopOf
  <2> QED BY <2>1, <2>2
<1>5. \A a : \A i : i \in Covers(t, a) <=> i \in 1 .. Len(t) /\ a \in t[i].adr .. EndOf(t[i])
  BY <1>1 DEF Covers, EndOf
<1>6. \A a : \A i : i \in Covers(u, a) <=> i \in 1 .. Len(u) /\ a \in t[i + 1].adr .. EndOf(t[i + 1])
  <2> TAKE a
  <2> TAKE i
  <2>1. i \in Covers(u, a) <=> i \in 1 .. Len(u) /\ a \in u[i].adr .. EndOf(u[i])
    BY <1>1 DEF Covers, EndOf
  <2> QED BY <1>1, <2>1
<1>7. ASSUME NEW a \in 1 .. TopOf(n, t)
      PROVE  (IF Covers(u, a) = {} THEN h2[a] ELSE u[LastOver(u, a)].buf[a - u[LastOver(u, a)].adr + 1]) =
             (IF Covers(t, a) = {} THEN h[a] ELSE t[LastOver(t, a)].buf[a - t[LastOver(t, a)].adr + 1])
  <2>1. CASE Covers(u, a) # {}
    <3> DEFINE j == LastOver(u, a)
    <3>1. j \in Covers(u, a) BY <1>1, <2>1, LastIs
    <3>2. \A i \in Covers(u, a) : i <= j
      <4>1. PICK x \in Covers(u, a) : \A i \in Covers(u, a) : i <= x BY <1>1, <2>1, HasLast
      <4> QED BY <1>1, <4>1, LastIs
    <3> HIDE DEF j
    <3>3. j \in 1 .. Len(u) /\ u[j] = t[j + 1] /\ j + 1 \in Covers(t, a) BY <1>1, <1>5, <1>6, <3>1
    <3>4. ASSUME NEW i \in Covers(t, a) PROVE i <= j + 1
      <4>1. i \in 1 .. Len(t) BY <1>5
      <4>2. CASE i = 1 BY <3>3, <4>2
      <4>3. CASE i # 1
        <5>1. i - 1 \in 1 .. Len(u) /\ (i - 1) + 1 = i BY <1>1, <4>1, <4>3
        <5>2. i - 1 \in Covers(u, a) BY <1>5, <1>6, <5>1
        <5> QED BY <3>2, <3>3, <4>1, <5>2
      <4> QED BY <4>2, <4>3
    <3>5. LastOver(t, a) = j + 1 BY <1>1, <3>3, <3>4, LastIs
    <3> QED BY <2>1, <3>3, <3>5 DEF j
  <2>2. CASE Covers(u, a) = {}
    <3>1. \A i \in Covers(t, a) : i = 1
      <4> SUFFICES ASSUME NEW i \in Covers(t, a), i # 1 PROVE FALSE OBVIOUS
      <4>1. i \in 1 .. Len(t) /\ a \in t[i].adr .. EndOf(t[i]) BY <1>5
      <4>2. i - 1 \in 1 .. Len(u) /\ (i - 1) + 1 = i BY <1>1, <4>1
      <4> QED BY <1>6, <2>2, <4>1, <4>2
    <3>2. CASE 1 \in Covers(t, a)
      <4>1. LastOver(t, a) = 1 BY <1>1, <3>1, <3>2, LastIs
      <4>2. a \in t[1].adr .. EndOf(t[1]) BY <1>5, <3>2
      <4>3. a \in 1 .. n2 BY <1>1, <1>2, <4>2 DEF Larger
      <4>4. Covers(t, a) # {} BY <3>2
      <4> QED BY <2>2, <4>1, <4>2, <4>3, <4>4 DEF Puts
    <3>3. CASE 1 \notin Covers(t, a)
      <4>1. Covers(t, a) = {} BY <3>1, <3>3
      <4>2. Len(t) \in 1 .. Len(t) /\ 1 \in 1 .. Len(t) BY <1>1
      <4>3. a \notin n + 1 .. EndOf(t[Len(t)]) BY <4>1 DEF InOrder
      <4>4. a \in 1 .. n BY <1>2, <4>2, <4>3 DEF TopOf, Larger
      <4>5. a \in 1 .. n2 BY <1>2, <4>2, <4>4 DEF Larger
      <4>6. a \notin t[1].adr .. EndOf(t[1]) BY <1>5, <3>3, <4>2
      <4> QED BY <2>2, <4>1, <4>5, <4>6 DEF Puts
    <3> QED BY <3>2, <3>3
  <2> QED BY <2>1, <2>2
<1> HIDE DEF n2
<1>8. Over(n2, h2, u) = Over(n, h, t) BY <1>4, <1>7 DEF Over
<1>9. SameOver(n, h, t, n2, h2, u) BY <1>8 DEF SameOver
<1> QED BY <1>9 DEF n2, u

LEMMA OverRest ==
  ASSUME NEW f \in Files, NEW n \in Nat, NEW h, NEW t \in Seq(WriteRequest(f)), t # <<>>,
         InOrder(n, t), NEW h2, NEW r, r = t[1], Puts(n, h, h2, r),
         NEW n2, n2 = Larger(n, EndOf(r)), NEW u, u = Tail(t)
  PROVE  SameOver(n, h, t, n2, h2, u)
<1>1. Puts(n, h, h2, t[1]) OBVIOUS
<1>2. SameOver(n, h, t, Larger(n, EndOf(t[1])), h2, Tail(t)) BY <1>1, OverTail
<1> QED BY <1>2

LEMMA OverNothing ==
  ASSUME NEW n \in Nat, NEW h
  PROVE  Over(n, h, <<>>) = [a \in 1 .. n |-> h[a]]
<1>1. \A a : Covers(<<>>, a) = {} BY DEF Covers
<1> QED BY <1>1 DEF Over, TopOf

---------------------------------------------------------------------------
(* A request cut where pages end: adr .. e is a request, k0 and k1 are the *)
(* pages of its ends.                                                      *)

LastOf(r) == r.adr + r.n - 1

LEMMA PagesOfRequest ==
  ASSUME NEW z \in Nat \ {0}, NEW adr \in Nat \ {0}, NEW e \in Nat, adr <= e
  PROVE  /\ Number(z, adr) \in Nat /\ Number(z, e) \in Nat /\ Number(z, adr) <= Number(z, e)
         /\ \A k \in Number(z, adr) .. Number(z, e) :
              LET from == Larger(adr, Lowest(z, k))
                  to   == Smaller(e, Highest(z, k))
              IN  /\ from = IF k = Number(z, adr) THEN adr ELSE Lowest(z, k)
                  /\ to = IF k = Number(z, e) THEN e ELSE Highest(z, k)
                  /\ from \in Nat \ {0} /\ to \in Nat /\ from <= to /\ adr <= from /\ to <= e
                  /\ Lowest(z, k) <= from /\ to <= Highest(z, k) /\ Number(z, from) = k
<1> DEFINE k0 == Number(z, adr)
           k1 == Number(z, e)
<1>1. /\ k0 \in Nat /\ Lowest(z, k0) <= adr /\ adr <= Highest(z, k0)
      /\ k1 \in Nat /\ Lowest(z, k1) <= e /\ e <= Highest(z, k1)
  <2>1. e \in Nat \ {0} OBVIOUS
  <2> QED BY <2>1, PageBounds
<1> HIDE DEF k0, k1
<1>2. /\ Lowest(z, k0) \in Nat /\ Highest(z, k0) \in Nat
      /\ Lowest(z, k1) \in Nat /\ Highest(z, k1) \in Nat
  BY <1>1, PageEnds
<1>3. k0 <= k1
  <2> SUFFICES ASSUME k1 < k0 PROVE FALSE BY <1>1
  <2>1. Highest(z, k1) < Lowest(z, k0) BY <1>1, PageOrder
  <2> QED BY <1>1, <1>2, <2>1
<1>4. ASSUME NEW k \in k0 .. k1
      PROVE  LET from == Larger(adr, Lowest(z, k))
                 to   == Smaller(e, Highest(z, k))
             IN  /\ from = IF k = k0 THEN adr ELSE Lowest(z, k)
                 /\ to = IF k = k1 THEN e ELSE Highest(z, k)
                 /\ from \in Nat \ {0} /\ to \in Nat /\ from <= to /\ adr <= from /\ to <= e
                 /\ Lowest(z, k) <= from /\ to <= Highest(z, k) /\ Number(z, from) = k
  <2> DEFINE from == Larger(adr, Lowest(z, k))
             to == Smaller(e, Highest(z, k))
  <2>0. k \in Nat /\ k0 <= k /\ k <= k1 BY <1>1
  <2>1. /\ Lowest(z, k) \in Nat \ {0} /\ Highest(z, k) \in Nat /\ Highest(z, k) = Lowest(z, k) + z - 1
    BY <2>0, PageEnds
  <2>2. k # k0 => adr < Lowest(z, k)
    <3>1. k # k0 => Highest(z, k0) < Lowest(z, k) BY <1>1, <2>0, PageOrder
    <3> QED BY <1>1, <1>2, <2>1, <3>1
  <2>3. k # k1 => Highest(z, k) < e
    <3>1. k # k1 => Highest(z, k) < Lowest(z, k1) BY <1>1, <2>0, PageOrder
    <3> QED BY <1>1, <1>2, <2>1, <3>1
  <2>4. from = IF k = k0 THEN adr ELSE Lowest(z, k) BY <1>1, <2>1, <2>2 DEF Larger
  <2>5. to = IF k = k1 THEN e ELSE Highest(z, k) BY <1>1, <2>1, <2>3 DEF Smaller
  <2>6. /\ from \in Nat \ {0} /\ to \in Nat /\ from <= to /\ adr <= from /\ to <= e
        /\ Lowest(z, k) <= from /\ to <= Highest(z, k)
    BY <1>1, <2>1, <2>2, <2>3, <2>4, <2>5
  <2> HIDE DEF from, to
  <2>7. from \in Span(z, k) BY <2>1, <2>6 DEF Span
  <2>8. Number(z, from) = k BY <2>0, <2>7, PageUnique
  <2> QED BY <2>4, <2>5, <2>6, <2>8 DEF from, to
<1> QED BY <1>1, <1>3, <1>4 DEF k0, k1

(* The requests p that a request of the words adr .. e is cut into.        *)
CutAtPages(p, adr, e) ==
  /\ p \in Seq(ReadRequest) /\ Len(p) \in Nat \ {0}
  /\ p[1].adr = adr /\ LastOf(p[Len(p)]) = e
  /\ \A i \in 1 .. Len(p) :
       /\ adr <= p[i].adr /\ LastOf(p[i]) <= e /\ p[i].adr <= LastOf(p[i]) /\ LastOf(p[i]) \in Nat
       /\ InOnePage(P, p[i].adr, LastOf(p[i]))
       /\ P % 2 = 0 /\ adr % 2 = 1 => p[i].adr % 2 = 1
       /\ P % 2 = 0 /\ i # Len(p) => LastOf(p[i]) % 2 = 0
  /\ \A i \in 1 .. Len(p) - 1 : p[i + 1].adr = LastOf(p[i]) + 1
  /\ \A i, j \in 1 .. Len(p) : i < j => LastOf(p[i]) < p[j].adr
  /\ \A a \in adr .. e : \E i \in 1 .. Len(p) : a \in p[i].adr .. LastOf(p[i])

LEMMA PiecesAre ==
  ASSUME P \in Nat, NEW adr \in Nat \ {0}, NEW n \in Nat \ {0}, NEW e \in Nat, e = adr + n - 1
  PROVE  CutAtPages(Pieces(adr, n), adr, e)
<1> DEFINE p == Pieces(adr, n)
<1>0. e \in Nat \ {0} /\ adr <= e OBVIOUS
<1>1. CASE P = 0
  <2>1. p = <<[adr |-> adr, n |-> n]>> BY <1>1 DEF Pieces, Paged, P
  <2> HIDE DEF p
  <2>2. p \in Seq(ReadRequest) /\ Len(p) = 1 /\ p[1].adr = adr /\ p[1].n = n BY <2>1 DEF ReadRequest
  <2>3. LastOf(p[1]) = e BY <2>2 DEF LastOf
  <2> QED BY <1>0, <1>1, <2>2, <2>3 DEF InOnePage, CutAtPages, p
<1>2. CASE P # 0
  <2> DEFINE k0 == Number(P, adr)
             k1 == Number(P, e)
             L == k1 - k0 + 1
             From(k) == Larger(adr, Lowest(P, k))
             To(k) == Smaller(e, Highest(P, k))
  <2>0. P \in Nat \ {0} BY <1>2
  <2>1. /\ k0 \in Nat /\ k1 \in Nat /\ k0 <= k1
        /\ \A k \in k0 .. k1 :
             /\ From(k) = IF k = k0 THEN adr ELSE Lowest(P, k)
             /\ To(k) = IF k = k1 THEN e ELSE Highest(P, k)
             /\ From(k) \in Nat \ {0} /\ To(k) \in Nat /\ From(k) <= To(k) /\ adr <= From(k) /\ To(k) <= e
             /\ Lowest(P, k) <= From(k) /\ To(k) <= Highest(P, k) /\ Number(P, From(k)) = k
    BY <1>0, <2>0, PagesOfRequest
  <2>2. p = [i \in 1 .. L |-> [adr |-> From(k0 + i - 1), n |-> To(k0 + i - 1) - From(k0 + i - 1) + 1]]
    BY <1>2 DEF Pieces, Piece, Paged, P, PageOf, First, Last, Number, Lowest, Highest
  <2> HIDE DEF k0, k1, p, From, To
  <2>3. L \in Nat \ {0} /\ \A i \in 1 .. L : k0 + i - 1 \in k0 .. k1 BY <2>1
  <2> HIDE DEF L
  <2>4. ASSUME NEW i \in 1 .. L
        PROVE  /\ p[i] = [adr |-> From(k0 + i - 1), n |-> To(k0 + i - 1) - From(k0 + i - 1) + 1]
               /\ p[i] \in ReadRequest
               /\ p[i].adr = From(k0 + i - 1) /\ LastOf(p[i]) = To(k0 + i - 1)
    <3>1. p[i] = [adr |-> From(k0 + i - 1), n |-> To(k0 + i - 1) - From(k0 + i - 1) + 1] BY <2>2
    <3>2. /\ From(k0 + i - 1) \in Nat \ {0} /\ To(k0 + i - 1) \in Nat
          /\ From(k0 + i - 1) <= To(k0 + i - 1)
      BY <2>1, <2>3
    <3> QED BY <3>1, <3>2 DEF ReadRequest, LastOf
  <2>5. p \in Seq(ReadRequest) /\ Len(p) = L
    <3>1. p \in [1 .. L -> ReadRequest] BY <2>2, <2>4
    <3> QED BY <2>3, <3>1, FunctionIsSeq
  <2>6. k0 + 1 - 1 = k0 /\ k0 + L - 1 = k1 BY <2>1 DEF L
  <2>7. p[1].adr = adr /\ LastOf(p[Len(p)]) = e
    <3>1. 1 \in 1 .. L /\ L \in 1 .. L /\ k0 \in k0 .. k1 /\ k1 \in k0 .. k1 BY <2>1, <2>3
    <3> QED BY <2>1, <2>4, <2>5, <2>6, <3>1
  <2>8. ASSUME NEW i \in 1 .. L
        PROVE  /\ adr <= p[i].adr /\ LastOf(p[i]) <= e /\ p[i].adr <= LastOf(p[i]) /\ LastOf(p[i]) \in Nat
               /\ InOnePage(P, p[i].adr, LastOf(p[i]))
               /\ P % 2 = 0 /\ adr % 2 = 1 => p[i].adr % 2 = 1
               /\ P % 2 = 0 /\ i # L => LastOf(p[i]) % 2 = 0
    <3> DEFINE k == k0 + i - 1
    <3>1. k \in k0 .. k1 /\ k \in Nat /\ (i # L => k # k1) BY <2>1, <2>3 DEF L
    <3>2. p[i].adr = From(k) /\ LastOf(p[i]) = To(k) BY <2>4
    <3> HIDE DEF k
    <3>3. P % 2 = 0 => Lowest(P, k) % 2 = 1 /\ Highest(P, k) % 2 = 0 BY <2>0, <3>1, EvenPages
    <3>4. /\ From(k) = IF k = k0 THEN adr ELSE Lowest(P, k)
          /\ To(k) = IF k = k1 THEN e ELSE Highest(P, k)
          /\ From(k) \in Nat \ {0} /\ To(k) \in Nat /\ From(k) <= To(k) /\ adr <= From(k) /\ To(k) <= e
          /\ To(k) <= Highest(P, k) /\ Number(P, From(k)) = k
      BY <2>1, <3>1
    <3> QED BY <3>1, <3>2, <3>3, <3>4 DEF InOnePage
  <2>9. \A i, j \in 1 .. L : i < j => LastOf(p[i]) < p[j].adr
    <3> SUFFICES ASSUME NEW i \in 1 .. L, NEW j \in 1 .. L, i < j PROVE LastOf(p[i]) < p[j].adr OBVIOUS
    <3> DEFINE k == k0 + i - 1
               l == k0 + j - 1
    <3>1. k \in k0 .. k1 /\ l \in k0 .. k1 /\ k \in Nat /\ l \in Nat /\ k < l BY <2>1, <2>3
    <3>2. LastOf(p[i]) = To(k) /\ p[j].adr = From(l) BY <2>4
    <3> HIDE DEF k, l
    <3>3. Highest(P, k) < Lowest(P, l) /\ Highest(P, k) \in Nat /\ Lowest(P, l) \in Nat
      BY <2>0, <3>1, PageOrder, PageEnds
    <3>4. To(k) \in Nat /\ From(l) \in Nat /\ To(k) <= Highest(P, k) /\ Lowest(P, l) <= From(l) BY <2>1, <3>1
    <3> QED BY <3>2, <3>3, <3>4
  <2>10. ASSUME NEW i \in 1 .. L - 1 PROVE p[i + 1].adr = LastOf(p[i]) + 1
    <3> DEFINE k == k0 + i - 1
    <3>1. /\ i \in 1 .. L /\ i + 1 \in 1 .. L /\ k \in k0 .. k1 /\ k + 1 \in k0 .. k1 /\ k # k1 /\ k + 1 # k0
          /\ k \in Nat /\ k0 + (i + 1) - 1 = k + 1
      BY <2>1, <2>3 DEF L
    <3>2. LastOf(p[i]) = To(k) /\ p[i + 1].adr = From(k + 1) BY <2>4, <3>1
    <3> HIDE DEF k
    <3>3. Lowest(P, k + 1) = Highest(P, k) + 1 BY <2>0, <3>1, PageEnds
    <3> QED BY <2>1, <3>1, <3>2, <3>3
  <2>11. ASSUME NEW a \in adr .. e PROVE \E i \in 1 .. L : a \in p[i].adr .. LastOf(p[i])
    <3> DEFINE k == Number(P, a)
    <3>1. a \in Nat \ {0} BY <1>0
    <3>2. k \in Nat /\ Lowest(P, k) <= a /\ a <= Highest(P, k) BY <2>0, <3>1, PageBounds
    <3>3. k \in k0 .. k1
      <4>1. k0 <= k
        <5>1. \A x \in Nat \ {0} : \A y \in Nat : x <= y => Number(P, x) <= Number(P, y)
          BY <2>0, PagesOfRequest
        <5> QED BY <3>1, <5>1 DEF k0
      <4>2. k <= k1
        <5>1. \A x \in Nat \ {0} : \A y \in Nat : x <= y => Number(P, x) <= Number(P, y)
          BY <2>0, PagesOfRequest
        <5> QED BY <1>0, <3>1, <5>1 DEF k1
      <4> QED BY <2>1, <3>2, <4>1, <4>2
    <3> DEFINE i == k - k0 + 1
    <3> HIDE DEF k
    <3>4. i \in 1 .. L /\ k0 + i - 1 = k BY <2>1, <3>2, <3>3 DEF L
    <3>5. p[i].adr = From(k) /\ LastOf(p[i]) = To(k) BY <2>4, <3>4
    <3>6. From(k) <= a /\ a <= To(k) /\ From(k) \in Nat /\ To(k) \in Nat
      <4>1. From(k) = IF k = k0 THEN adr ELSE Lowest(P, k) BY <2>1, <3>3
      <4>2. To(k) = IF k = k1 THEN e ELSE Highest(P, k) BY <2>1, <3>3
      <4> QED BY <2>1, <3>1, <3>2, <3>3, <4>1, <4>2
    <3> QED BY <3>1, <3>4, <3>5, <3>6
  <2> QED BY <1>2, <2>3, <2>5, <2>7, <2>8, <2>9, <2>10, <2>11 DEF CutAtPages, p
<1> QED BY <1>1, <1>2

(* The requests q that write the words v[adr] .. v[e].                      *)
RunOf(f, q, adr, e, v) ==
  /\ q \in Seq(WriteRequest(f)) /\ Len(q) \in Nat \ {0}
  /\ q[1].adr = adr /\ EndOf(q[Len(q)]) = e
  /\ \A i \in 1 .. Len(q) :
       /\ q[i].buf # <<>> /\ EndOf(q[i]) \in Nat /\ q[i].adr \in Nat
       /\ adr <= q[i].adr /\ EndOf(q[i]) <= e /\ q[i].adr <= EndOf(q[i])
       /\ InOnePage(P, q[i].adr, EndOf(q[i]))
       /\ P % 2 = 0 /\ adr % 2 = 1 => q[i].adr % 2 = 1
       /\ P % 2 = 0 /\ i # Len(q) => EndOf(q[i]) % 2 = 0
       /\ \A a \in q[i].adr .. EndOf(q[i]) : q[i].buf[a - q[i].adr + 1] = v[a]
  /\ \A i \in 1 .. Len(q) - 1 : q[i + 1].adr = EndOf(q[i]) + 1
  /\ \A i, j \in 1 .. Len(q) : i < j => EndOf(q[i]) < q[j].adr
  /\ \A a \in adr .. e : \E i \in 1 .. Len(q) : a \in q[i].adr .. EndOf(q[i])

LEMMA WritePiecesAre ==
  ASSUME P \in Nat, NEW f \in Files, NEW adr \in Nat \ {0}, NEW buf \in Seq(Value(f)), buf # <<>>,
         NEW e \in Nat, e = adr + Len(buf) - 1, NEW v, \A a \in adr .. e : v[a] = buf[a - adr + 1]
  PROVE  RunOf(f, WritePieces(adr, buf), adr, e, v)
<1> DEFINE p == Pieces(adr, Len(buf))
           q == WritePieces(adr, buf)
<1>1. Len(buf) \in Nat \ {0} OBVIOUS
<1>2. CutAtPages(p, adr, e) BY <1>1, PiecesAre
<1>3. q = [i \in DOMAIN p |-> [adr |-> p[i].adr,
                               buf |-> SubSeq(buf, p[i].adr - adr + 1, p[i].adr - adr + p[i].n)]]
  BY DEF WritePieces
<1> HIDE DEF p, q
<1>4. /\ p \in Seq(ReadRequest) /\ Len(p) \in Nat \ {0} /\ DOMAIN p = 1 .. Len(p)
      /\ \A i \in 1 .. Len(p) : /\ adr <= p[i].adr /\ LastOf(p[i]) <= e
                                /\ p[i].adr <= LastOf(p[i]) /\ LastOf(p[i]) \in Nat
  BY <1>2 DEF CutAtPages
<1>5. ASSUME NEW i \in 1 .. Len(p)
      PROVE  /\ q[i] \in WriteRequest(f)
             /\ q[i].adr = p[i].adr /\ EndOf(q[i]) = LastOf(p[i]) /\ q[i].buf # <<>>
             /\ \A a \in q[i].adr .. EndOf(q[i]) : q[i].buf[a - q[i].adr + 1] = v[a]
  <2> DEFINE x == p[i].adr
             n == p[i].n
             b == SubSeq(buf, x - adr + 1, x - adr + n)
  <2>1. p[i] \in ReadRequest BY <1>4
  <2>2. x \in Nat \ {0} /\ n \in Nat \ {0} BY <2>1 DEF ReadRequest
  <2>3. adr <= x /\ x + n - 1 <= e BY <1>4, <2>2 DEF LastOf
  <2>4. q[i] = [adr |-> x, buf |-> b] BY <1>3, <1>4
  <2> HIDE DEF x, n
  <2>5. x - adr + 1 \in 1 .. Len(buf) /\ x - adr + n \in 1 .. Len(buf) /\ x - adr + n >= x - adr + 1
    BY <1>1, <2>2, <2>3
  <2>6. /\ b \in Seq(Value(f)) /\ Len(b) = n
        /\ \A j \in 1 .. n : b[j] = buf[x - adr + j]
    <3> DEFINE lo == x - adr + 1
               hi == x - adr + n
    <3>1. lo \in 1 .. Len(buf) /\ hi \in 1 .. Len(buf) /\ hi - lo + 1 = n /\ \A j \in 1 .. n : lo + j - 1 = x - adr + j
          /\ lo \in Int /\ hi \in Int
      BY <1>1, <2>2, <2>5
    <3> HIDE DEF lo, hi
    <3>2. b = SubSeq(buf, lo, hi) BY DEF lo, hi
    <3>3. /\ SubSeq(buf, lo, hi) \in Seq(Value(f))
          /\ Len(SubSeq(buf, lo, hi)) = hi - lo + 1
          /\ \A j \in 1 .. hi - lo + 1 : SubSeq(buf, lo, hi)[j] = buf[lo + j - 1]
      <4>1. hi - lo + 1 \in Nat BY <2>2, <3>1
      <4>2. \A j \in lo .. hi : j \in 1 .. Len(buf) BY <1>1, <3>1
      <4> QED BY <1>1, <2>2, <3>1, <4>1, <4>2, SubSeqProperties
    <3> QED BY <3>1, <3>2, <3>3
  <2> HIDE DEF b
  <2>7. q[i].adr = x /\ q[i].buf = b BY <2>4
  <2>8. b # <<>> BY <2>2, <2>6
  <2>9. EndOf(q[i]) = LastOf(p[i]) BY <2>6, <2>7 DEF EndOf, LastOf, x, n
  <2>10. ASSUME NEW a \in x .. x + n - 1 PROVE b[a - x + 1] = v[a]
    <3>1. a - x + 1 \in 1 .. n /\ x - adr + (a - x + 1) = a - adr + 1 BY <2>2
    <3>2. a \in adr .. e BY <2>2, <2>3
    <3> QED BY <2>6, <3>1, <3>2
  <2>11. EndOf(q[i]) = x + n - 1 BY <2>9 DEF LastOf, x, n
  <2> QED BY <2>2, <2>4, <2>6, <2>7, <2>8, <2>9, <2>10, <2>11 DEF WriteRequest, x
<1>6. q \in Seq(WriteRequest(f)) /\ Len(q) = Len(p)
  <2>1. q \in [1 .. Len(p) -> WriteRequest(f)] BY <1>3, <1>4, <1>5
  <2> QED BY <1>4, <2>1, FunctionIsSeq
<1>7. \A i \in 1 .. Len(q) : q[i].adr = p[i].adr /\ EndOf(q[i]) = LastOf(p[i]) /\ q[i].adr \in Nat
  BY <1>5, <1>6 DEF WriteRequest
<1>8. Len(p) \in 1 .. Len(p) /\ 1 \in 1 .. Len(p) /\ \A i \in 1 .. Len(p) - 1 : i \in 1 .. Len(p) /\ i + 1 \in 1 .. Len(p)
  BY <1>4
<1>9. q[1].adr = adr /\ EndOf(q[Len(q)]) = e BY <1>2, <1>6, <1>7, <1>8 DEF CutAtPages
<1>10. \A i \in 1 .. Len(q) - 1 : q[i + 1].adr = EndOf(q[i]) + 1 BY <1>2, <1>6, <1>7, <1>8 DEF CutAtPages
<1>11. \A i, j \in 1 .. Len(q) : i < j => EndOf(q[i]) < q[j].adr BY <1>2, <1>6, <1>7 DEF CutAtPages
<1>12. \A a \in adr .. e : \E i \in 1 .. Len(q) : a \in q[i].adr .. EndOf(q[i])
  <2> TAKE a \in adr .. e
  <2>1. PICK i \in 1 .. Len(p) : a \in p[i].adr .. LastOf(p[i]) BY <1>2 DEF CutAtPages
  <2>2. q[i].adr = p[i].adr /\ EndOf(q[i]) = LastOf(p[i]) BY <1>6, <1>7
  <2> QED BY <1>6, <2>1, <2>2
<1>13. \A i \in 1 .. Len(q) :
         /\ InOnePage(P, q[i].adr, EndOf(q[i]))
         /\ P % 2 = 0 /\ adr % 2 = 1 => q[i].adr % 2 = 1
         /\ P % 2 = 0 /\ i # Len(q) => EndOf(q[i]) % 2 = 0
  BY <1>2, <1>6, <1>7 DEF CutAtPages
<1>14. \A i \in 1 .. Len(q) : EndOf(q[i]) \in Nat /\ adr <= q[i].adr /\ EndOf(q[i]) <= e /\ q[i].adr <= EndOf(q[i])
  BY <1>4, <1>6, <1>7
<1> QED BY <1>4, <1>5, <1>6, <1>7, <1>9, <1>10, <1>11, <1>12, <1>13, <1>14 DEF RunOf, q

(* What fills the gap, if there is one, then the words.                    *)
Gap(s, adr)      == [i \in 1 .. adr - s |-> Junk]
Words(adr, n, w) == [i \in 1 .. n |-> <<w, adr + i - 1>>]

Plan(s, adr, n, w) ==
  (IF adr > s + 1 THEN WritePieces(s + 1, Gap(s, adr)) ELSE <<>>) \o WritePieces(adr, Words(adr, n, w))

(* The words h of a file, s of them, when v is written to adr .. e and u   *)
(* to the gap.                                                             *)
Grown(h, s, adr, e, v, u) ==
  [a \in 1 .. Larger(s, e) |-> IF a \in adr .. e THEN v[a] ELSE IF a <= s THEN h[a] ELSE u[a]]

(* The same for a write of the marks w.                                    *)
Marked(h, s, adr, e, w) ==
  [a \in 1 .. Larger(s, e) |-> IF a \in adr .. e THEN <<w, a>> ELSE IF a <= s THEN h[a] ELSE Junk]

(* What is left to write, t, fills the gap with u and writes v.            *)
PlanGood(f, s, adr, e, fr, t, v, u) ==
  /\ TodoGood(P, f, s, fr, t)
  /\ P % 2 = 0 /\ s % 2 = 0 /\ adr % 2 = 1 /\ e % 2 = 0 => TodoEven(s, t)
  /\ \A h : Over(s, h, t) = Grown(h, s, adr, e, v, u)

LEMMA RunCovers ==
  ASSUME NEW f \in Files, NEW q, NEW adr, NEW e, NEW v, RunOf(f, q, adr, e, v)
  PROVE  \A a, i : i \in Covers(q, a) <=> i \in 1 .. Len(q) /\ a \in q[i].adr .. EndOf(q[i])
<1>1. DOMAIN q = 1 .. Len(q) BY DEF RunOf
<1> QED BY <1>1 DEF Covers, EndOf

(* A write that leaves no gap.                                             *)
LEMMA RunTodo ==
  ASSUME P \in Nat, NEW f \in Files, NEW s \in Nat, NEW adr \in Nat \ {0}, NEW e \in Nat, NEW q, NEW v,
         RunOf(f, q, adr, e, v), adr <= s + 1, e <= MaxSize[f], NEW fr, adr .. e \subseteq fr, NEW u
  PROVE  PlanGood(f, s, adr, e, fr, q, v, u)
<1>1. /\ q \in Seq(WriteRequest(f)) /\ Len(q) \in Nat \ {0} /\ q # <<>>
      /\ q[1].adr = adr /\ EndOf(q[Len(q)]) = e /\ MaxSize[f] \in Nat
  BY ValueIs DEF RunOf
<1>2. \A i \in 1 .. Len(q) :
       /\ q[i].buf # <<>> /\ EndOf(q[i]) \in Nat /\ q[i].adr \in Nat
       /\ adr <= q[i].adr /\ EndOf(q[i]) <= e /\ q[i].adr <= EndOf(q[i])
       /\ InOnePage(P, q[i].adr, EndOf(q[i]))
  BY DEF RunOf
<1>3. \A a, i : i \in Covers(q, a) <=> i \in 1 .. Len(q) /\ a \in q[i].adr .. EndOf(q[i]) BY RunCovers
<1>4. \A a \in adr .. e : Covers(q, a) # {} BY <1>3 DEF RunOf
<1>5. TodoGood(P, f, s, fr, q)
  <2>1. \A i \in 1 .. Len(q) : q[i].adr .. EndOf(q[i]) \subseteq fr /\ EndOf(q[i]) <= MaxSize[f] BY <1>1, <1>2
  <2>2. \A i \in 1 .. Len(q) - 1 : q[i + 1].adr <= EndOf(q[i]) + 1
    <3> TAKE i \in 1 .. Len(q) - 1
    <3>1. q[i + 1].adr = EndOf(q[i]) + 1 BY DEF RunOf
    <3>2. i \in 1 .. Len(q) BY <1>1
    <3> QED BY <1>2, <3>1, <3>2
  <2>3. \A i, j \in 1 .. Len(q) : i < j => EndOf(q[i]) < EndOf(q[j])
    <3> SUFFICES ASSUME NEW i \in 1 .. Len(q), NEW j \in 1 .. Len(q), i < j PROVE EndOf(q[i]) < EndOf(q[j])
      OBVIOUS
    <3>1. EndOf(q[i]) < q[j].adr BY DEF RunOf
    <3> QED BY <1>2, <3>1
  <2>4. \A a \in s + 1 .. EndOf(q[Len(q)]) : Covers(q, a) # {}
    <3> TAKE a \in s + 1 .. EndOf(q[Len(q)])
    <3>1. a \in adr .. e BY <1>1
    <3> QED BY <1>4, <3>1
  <2> QED BY <1>1, <1>2, <2>1, <2>2, <2>3, <2>4 DEF TodoGood
<1>6. ASSUME P % 2 = 0, s % 2 = 0, adr % 2 = 1, e % 2 = 0 PROVE TodoEven(s, q)
  <2>1. \A i \in 1 .. Len(q) : q[i].adr % 2 = 1 /\ EndOf(q[i]) % 2 = 0
    <3> TAKE i \in 1 .. Len(q)
    <3>1. q[i].adr % 2 = 1 /\ (i # Len(q) => EndOf(q[i]) % 2 = 0) BY <1>6 DEF RunOf
    <3> QED BY <1>1, <1>6, <3>1
  <2> QED BY <1>6, <2>1 DEF TodoEven
<1>7. ASSUME NEW h PROVE Over(s, h, q) = Grown(h, s, adr, e, v, u)
  <2>1. TopOf(s, q) = Larger(s, e) BY <1>1 DEF TopOf
  <2>2. ASSUME NEW a \in 1 .. Larger(s, e)
        PROVE  (IF Covers(q, a) = {} THEN h[a] ELSE q[LastOver(q, a)].buf[a - q[LastOver(q, a)].adr + 1]) =
               (IF a \in adr .. e THEN v[a] ELSE IF a <= s THEN h[a] ELSE u[a])
    <3>1. CASE a \in adr .. e
      <4>1. LastOver(q, a) \in Covers(q, a) BY <1>1, <1>4, <3>1, LastIs
      <4>2. LastOver(q, a) \in 1 .. Len(q) /\ a \in q[LastOver(q, a)].adr .. EndOf(q[LastOver(q, a)])
        BY <1>3, <4>1
      <4>3. q[LastOver(q, a)].buf[a - q[LastOver(q, a)].adr + 1] = v[a] BY <4>2 DEF RunOf
      <4> QED BY <1>4, <3>1, <4>3
    <3>2. CASE a \notin adr .. e
      <4>1. \A i \in 1 .. Len(q) : a \notin q[i].adr .. EndOf(q[i]) BY <1>2, <3>2
      <4>2. Covers(q, a) = {} BY <1>3, <4>1
      <4>3. a <= s BY <3>2 DEF Larger
      <4> QED BY <3>2, <4>2, <4>3
    <3> QED BY <3>1, <3>2
  <2> QED BY <2>1, <2>2 DEF Over, Grown
<1> QED BY <1>5, <1>6, <1>7 DEF PlanGood

(* A write that fills a gap first, up to its own first word.               *)
LEMMA GapTodo ==
  ASSUME P \in Nat, NEW f \in Files, NEW s \in Nat, NEW adr \in Nat \ {0}, NEW e \in Nat,
         NEW c \in Nat, c = s + 1, NEW g, NEW u, RunOf(f, g, c, adr, u), NEW q, NEW v, RunOf(f, q, adr, e, v),
         adr > s + 1, e <= MaxSize[f], NEW fr, s + 1 .. adr \subseteq fr, adr .. e \subseteq fr,
         \A j \in 1 .. Len(q) : adr < EndOf(q[j])
  PROVE  PlanGood(f, s, adr, e, fr, g \o q, v, u)
<1> DEFINE t == g \o q
           G == Len(g)
           T == Len(g) + Len(q)
<1>1. /\ g \in Seq(WriteRequest(f)) /\ G \in Nat \ {0} /\ g[1].adr = s + 1 /\ EndOf(g[G]) = adr
      /\ q \in Seq(WriteRequest(f)) /\ Len(q) \in Nat \ {0} /\ q[1].adr = adr /\ EndOf(q[Len(q)]) = e
      /\ MaxSize[f] \in Nat /\ T = G + Len(q)
  BY ValueIs DEF RunOf
<1>2. /\ t \in Seq(WriteRequest(f)) /\ Len(t) = T /\ DOMAIN t = 1 .. T
      /\ \A i \in 1 .. T : t[i] = IF i <= G THEN g[i] ELSE q[i - G]
  BY <1>1
<1>3. t # <<>> BY <1>1, <1>2
<1> HIDE DEF t, G, T
<1>4. \A i \in 1 .. G : i \in 1 .. T /\ t[i] = g[i] BY <1>1, <1>2
<1>5. \A i \in 1 .. T : ~(i <= G) => i - G \in 1 .. Len(q) /\ t[i] = q[i - G] BY <1>1, <1>2
<1>6. t[1] = g[1] /\ t[G] = g[G] /\ t[G + 1] = q[1] /\ t[T] = q[Len(q)]
  <2>1. /\ 1 \in 1 .. T /\ 1 <= G /\ G \in 1 .. T /\ G <= G
        /\ G + 1 \in 1 .. T /\ ~(G + 1 <= G) /\ (G + 1) - G = 1
        /\ T \in 1 .. T /\ ~(T <= G) /\ T - G = Len(q)
    BY <1>1
  <2> QED BY <1>2, <2>1
<1>7. \A i \in 1 .. Len(g) :
       /\ g[i].buf # <<>> /\ EndOf(g[i]) \in Nat /\ g[i].adr \in Nat
       /\ s + 1 <= g[i].adr /\ EndOf(g[i]) <= adr /\ g[i].adr <= EndOf(g[i])
       /\ InOnePage(P, g[i].adr, EndOf(g[i]))
  BY DEF RunOf
<1>8. \A i \in 1 .. Len(q) :
       /\ q[i].buf # <<>> /\ EndOf(q[i]) \in Nat /\ q[i].adr \in Nat
       /\ adr <= q[i].adr /\ EndOf(q[i]) <= e /\ q[i].adr <= EndOf(q[i])
       /\ InOnePage(P, q[i].adr, EndOf(q[i]))
  BY DEF RunOf
<1>9. adr <= e /\ Len(g) = G BY <1>1, <1>8 DEF G
<1>10. \A i \in 1 .. T :
         /\ t[i].buf # <<>> /\ EndOf(t[i]) \in Nat /\ t[i].adr \in Nat /\ t[i].adr <= EndOf(t[i])
         /\ InOnePage(P, t[i].adr, EndOf(t[i])) /\ EndOf(t[i]) <= e /\ s + 1 <= t[i].adr
         /\ i <= G => EndOf(t[i]) <= adr
         /\ ~(i <= G) => adr <= t[i].adr /\ adr < EndOf(t[i])
  <2> TAKE i \in 1 .. T
  <2>1. CASE i <= G
    <3>1. i \in 1 .. Len(g) /\ t[i] = g[i] BY <1>1, <1>2, <1>9, <2>1
    <3> QED BY <1>7, <1>9, <2>1, <3>1
  <2>2. CASE ~(i <= G)
    <3>1. i - G \in 1 .. Len(q) /\ t[i] = q[i - G] BY <1>5, <2>2
    <3> QED BY <1>8, <1>9, <2>2, <3>1
  <2> QED BY <2>1, <2>2
<1>11. \A a, i : i \in Covers(t, a) <=> i \in 1 .. T /\ a \in t[i].adr .. EndOf(t[i])
  BY <1>2 DEF Covers, EndOf
<1>12. ASSUME NEW a \in adr .. e PROVE \E i \in Covers(t, a) : ~(i <= G)
  <2>1. PICK j \in 1 .. Len(q) : a \in q[j].adr .. EndOf(q[j]) BY DEF RunOf
  <2>2. j + G \in 1 .. T /\ ~(j + G <= G) /\ (j + G) - G = j BY <1>1
  <2>3. t[j + G] = q[j] BY <1>2, <2>2
  <2> QED BY <1>11, <2>1, <2>2, <2>3
<1>13. ASSUME NEW a \in s + 1 .. adr PROVE Covers(t, a) # {}
  <2>1. PICK j \in 1 .. Len(g) : a \in g[j].adr .. EndOf(g[j]) BY DEF RunOf
  <2> QED BY <1>4, <1>9, <1>11, <2>1
<1>14. TodoGood(P, f, s, fr, t)
  <2>1. \A i \in 1 .. T : t[i].adr .. EndOf(t[i]) \subseteq fr /\ EndOf(t[i]) <= MaxSize[f]
    BY <1>1, <1>9, <1>10
  <2>2. \A i \in 1 .. T - 1 : t[i + 1].adr <= EndOf(t[i]) + 1
    <3> TAKE i \in 1 .. T - 1
    <3>0. i \in 1 .. T /\ i + 1 \in 1 .. T BY <1>1
    <3>1. CASE i + 1 <= G
      <4>1. t[i] = g[i] /\ t[i + 1] = g[i + 1] /\ i \in 1 .. Len(g) - 1 BY <1>1, <1>2, <1>9, <3>0, <3>1
      <4>2. g[i + 1].adr = EndOf(g[i]) + 1 BY <4>1 DEF RunOf
      <4> QED BY <1>10, <3>0, <4>1, <4>2
    <3>2. CASE i = G BY <1>1, <1>6, <3>2
    <3>3. CASE ~(i <= G)
      <4>b. G \in Nat /\ Len(q) \in Nat /\ T = G + Len(q) BY <1>1
      <4>e. T \in Nat /\ i \in Nat /\ i + 1 <= T BY <3>0, <4>b
      <4>a. i \in Nat /\ i + 1 <= T /\ i >= G + 1 BY <3>3, <4>b, <4>e
      <4>c. ~(i + 1 <= G) /\ (i + 1) - G = (i - G) + 1 BY <4>a, <4>b
      <4>d. i - G >= 1 /\ i - G <= Len(q) - 1 BY <4>a, <4>b
      <4>0. i - G \in 1 .. Len(q) - 1 BY <4>a, <4>b, <4>d
      <4>1. t[i] = q[i - G] /\ t[i + 1] = q[(i - G) + 1] /\ i - G \in 1 .. Len(q) - 1
        BY <1>2, <3>0, <3>3, <4>0, <4>c
      <4>2. q[(i - G) + 1].adr = EndOf(q[i - G]) + 1 BY <4>1 DEF RunOf
      <4> QED BY <1>10, <3>0, <4>1, <4>2
    <3> QED BY <1>1, <3>0, <3>1, <3>2, <3>3
  <2>3. \A i, j \in 1 .. T : i < j => EndOf(t[i]) < EndOf(t[j])
    <3> SUFFICES ASSUME NEW i \in 1 .. T, NEW j \in 1 .. T, i < j PROVE EndOf(t[i]) < EndOf(t[j])
      OBVIOUS
    <3>1. CASE j <= G
      <4>1. t[i] = g[i] /\ t[j] = g[j] /\ i \in 1 .. Len(g) /\ j \in 1 .. Len(g) BY <1>1, <1>2, <1>9, <3>1
      <4>2. EndOf(g[i]) < g[j].adr BY <4>1 DEF RunOf
      <4> QED BY <1>7, <4>1, <4>2
    <3>2. CASE i <= G /\ ~(j <= G) BY <1>10, <3>2
    <3>3. CASE ~(i <= G)
      <4>0. ~(j <= G) /\ i - G < j - G BY <1>1, <3>3
      <4>1. t[i] = q[i - G] /\ t[j] = q[j - G] /\ i - G \in 1 .. Len(q) /\ j - G \in 1 .. Len(q) /\ i - G < j - G
        BY <1>5, <3>3, <4>0
      <4>2. EndOf(q[i - G]) < q[j - G].adr BY <4>1 DEF RunOf
      <4> QED BY <1>8, <4>1, <4>2
    <3> QED BY <1>1, <3>1, <3>2, <3>3
  <2>4. \A a \in s + 1 .. EndOf(t[Len(t)]) : Covers(t, a) # {}
    <3> TAKE a \in s + 1 .. EndOf(t[Len(t)])
    <3>1. a \in s + 1 .. adr \/ a \in adr .. e BY <1>1, <1>2, <1>6
    <3> QED BY <1>12, <1>13, <3>1
  <2>5. t[1].adr <= s + 1 BY <1>1, <1>6
  <2> QED BY <1>2, <1>3, <1>10, <2>1, <2>2, <2>3, <2>4, <2>5 DEF TodoGood
<1>15. ASSUME P % 2 = 0, s % 2 = 0, adr % 2 = 1, e % 2 = 0 PROVE TodoEven(s, t)
  <2>1. (s + 1) % 2 = 1 BY <1>15
  <2>2. \A i \in 1 .. Len(g) : g[i].adr % 2 = 1 /\ (i # Len(g) => EndOf(g[i]) % 2 = 0)
    BY <1>15, <2>1 DEF RunOf
  <2>3. \A i \in 1 .. Len(q) : q[i].adr % 2 = 1 /\ EndOf(q[i]) % 2 = 0
    <3> TAKE i \in 1 .. Len(q)
    <3>1. q[i].adr % 2 = 1 /\ (i # Len(q) => EndOf(q[i]) % 2 = 0) BY <1>15 DEF RunOf
    <3> QED BY <1>1, <1>15, <3>1
  <2>4. ASSUME NEW i \in 1 .. T
        PROVE  t[i].adr % 2 = 1 /\ (EndOf(t[i]) % 2 = 1 => i = G)
    <3>1. CASE i <= G
      <4>1. i \in 1 .. Len(g) /\ t[i] = g[i] BY <1>1, <1>2, <1>9, <3>1
      <4> QED BY <1>9, <2>2, <4>1
    <3>2. CASE ~(i <= G) BY <1>5, <2>3, <3>2
    <3> QED BY <3>1, <3>2
  <2>5. /\ G < T /\ t[G + 1].adr = EndOf(t[G]) /\ EndOf(t[G + 1]) % 2 = 0 /\ EndOf(t[G]) > s
    <3>1. 1 \in 1 .. Len(q) BY <1>1
    <3> QED BY <1>1, <1>6, <2>3, <3>1
  <2>6. \A i \in 1 .. T :
          /\ t[i].adr % 2 = 1
          /\ EndOf(t[i]) % 2 = 1 =>
               i < T /\ t[i + 1].adr = EndOf(t[i]) /\ EndOf(t[i + 1]) % 2 = 0 /\ EndOf(t[i]) > s
    <3> TAKE i \in 1 .. T
    <3>1. CASE i = G BY <2>4, <2>5, <3>1
    <3>2. CASE i # G BY <2>4, <3>2
    <3> QED BY <3>1, <3>2
  <2> QED BY <1>2, <1>15, <2>6 DEF TodoEven
<1>16. ASSUME NEW h PROVE Over(s, h, t) = Grown(h, s, adr, e, v, u)
  <2>1. TopOf(s, t) = Larger(s, e) BY <1>1, <1>2, <1>3, <1>6 DEF TopOf
  <2>2. ASSUME NEW a \in 1 .. Larger(s, e)
        PROVE  (IF Covers(t, a) = {} THEN h[a] ELSE t[LastOver(t, a)].buf[a - t[LastOver(t, a)].adr + 1]) =
               (IF a \in adr .. e THEN v[a] ELSE IF a <= s THEN h[a] ELSE u[a])
    <3> DEFINE l == LastOver(t, a)
    <3>0. a \in Nat /\ (a <= s \/ a <= e) BY <1>1, <1>9 DEF Larger
    <3>1. Covers(t, a) # {} => l \in Covers(t, a) /\ \A i \in Covers(t, a) : i <= l
      <4> SUFFICES ASSUME Covers(t, a) # {} PROVE l \in Covers(t, a) /\ \A i \in Covers(t, a) : i <= l
        OBVIOUS
      <4>1. Len(t) \in Nat /\ DOMAIN t = 1 .. Len(t) BY <1>1, <1>2
      <4>2. PICK x \in Covers(t, a) : \A i \in Covers(t, a) : i <= x BY <4>1, HasLast
      <4> QED BY <4>1, <4>2, LastIs
    <3> HIDE DEF l
    <3>2. CASE a \in adr .. e
      <4>1. PICK i \in Covers(t, a) : ~(i <= G) BY <1>12, <3>2
      <4>2. l \in 1 .. T /\ i \in 1 .. T /\ i <= l /\ a \in t[l].adr .. EndOf(t[l]) BY <1>11, <3>1, <4>1
      <4>3. ~(l <= G) BY <1>1, <4>1, <4>2
      <4>4. l - G \in 1 .. Len(q) /\ t[l] = q[l - G] BY <1>5, <4>2, <4>3
      <4>5. t[l].buf[a - t[l].adr + 1] = v[a]
        <5> DEFINE j == l - G
        <5>1. j \in 1 .. Len(q) /\ t[l] = q[j] BY <4>4
        <5> HIDE DEF j
        <5>2. \A b \in q[j].adr .. EndOf(q[j]) : q[j].buf[b - q[j].adr + 1] = v[b] BY <5>1 DEF RunOf
        <5> QED BY <4>2, <5>1, <5>2
      <4> QED BY <3>2, <4>1, <4>5 DEF l
    <3>3. CASE a \notin adr .. e /\ a <= s
      <4>1. \A i \in 1 .. T : a \notin t[i].adr .. EndOf(t[i]) BY <1>10, <3>0, <3>3
      <4>2. Covers(t, a) = {} BY <1>11, <4>1
      <4> QED BY <3>3, <4>2
    <3>4. CASE a \notin adr .. e /\ ~(a <= s)
      <4>1. a \in s + 1 .. adr /\ a < adr BY <1>9, <3>0, <3>4
      <4>2. l \in 1 .. T /\ a \in t[l].adr .. EndOf(t[l]) /\ Covers(t, a) # {} BY <1>11, <1>13, <3>1, <4>1
      <4>3. l <= G BY <1>10, <4>1, <4>2
      <4>4. l \in 1 .. Len(g) /\ t[l] = g[l] BY <1>1, <1>2, <1>9, <4>2, <4>3
      <4>5. t[l].buf[a - t[l].adr + 1] = u[a]
        <5>1. \A b \in g[l].adr .. EndOf(g[l]) : g[l].buf[b - g[l].adr + 1] = u[b] BY <4>4 DEF RunOf
        <5> QED BY <4>2, <4>4, <5>1
      <4> QED BY <3>4, <4>2, <4>5 DEF l
    <3> QED BY <3>2, <3>3, <3>4
  <2> QED BY <2>1, <2>2 DEF Over, Grown
<1> QED BY <1>14, <1>15, <1>16 DEF PlanGood, t

PlanCase(f, s, adr, n, w, e, fr) ==
  /\ f \in Files /\ s \in Nat /\ adr \in Nat \ {0} /\ n \in Nat \ {0} /\ adr % 2 = 1 /\ n % 2 = 0
  /\ w \in Marks /\ e \in Nat /\ e = adr + n - 1 /\ e <= MaxSize[f]
  /\ s + 1 .. adr \subseteq fr /\ adr .. e \subseteq fr

LEMMA PlanIs ==
  ASSUME P \in Nat, P % 2 = 0, NEW f, NEW s, NEW adr, NEW n, NEW w, NEW e, NEW fr,
         PlanCase(f, s, adr, n, w, e, fr)
  PROVE  /\ TodoGood(P, f, s, fr, Plan(s, adr, n, w))
         /\ s % 2 = 0 => TodoEven(s, Plan(s, adr, n, w))
         /\ \A h : Over(s, h, Plan(s, adr, n, w)) = Marked(h, s, adr, e, w)
<1>0. /\ f \in Files /\ s \in Nat /\ adr \in Nat \ {0} /\ n \in Nat \ {0} /\ adr % 2 = 1 /\ n % 2 = 0
      /\ w \in Marks /\ e \in Nat /\ e = adr + n - 1 /\ e <= MaxSize[f]
      /\ s + 1 .. adr \subseteq fr /\ adr .. e \subseteq fr
  BY DEF PlanCase
<1> DEFINE buf == Words(adr, n, w)
           q == WritePieces(adr, buf)
           v == [a \in adr .. e |-> <<w, a>>]
<1>1. buf \in Seq(Value(f)) /\ Len(buf) = n /\ buf # <<>> /\ \A i \in 1 .. n : buf[i] = <<w, adr + i - 1>>
  <2>1. MaxSize[f] \in Nat BY <1>0, ValueIs
  <2>2. ASSUME NEW i \in 1 .. n PROVE <<w, adr + i - 1>> \in Value(f)
    <3>1. adr + i - 1 \in 1 .. MaxSize[f] BY <1>0, <2>1
    <3> QED BY <1>0, <3>1 DEF Value
  <2>3. buf \in [1 .. n -> Value(f)] BY <1>0, <2>2 DEF Words
  <2>4. buf \in Seq(Value(f)) /\ Len(buf) = n BY <1>0, <2>3, FunctionIsSeq
  <2> QED BY <1>0, <2>4 DEF Words
<1> HIDE DEF buf
<1>2. \A a \in adr .. e : v[a] = buf[a - adr + 1]
  <2> TAKE a \in adr .. e
  <2>1. a - adr + 1 \in 1 .. n /\ adr + (a - adr + 1) - 1 = a BY <1>0
  <2> QED BY <1>0, <1>1, <2>1
<1>3. \A a \in adr .. e : v[a] = <<w, a>> BY <1>0
<1> HIDE DEF v
<1>4. RunOf(f, q, adr, e, v) BY <1>0, <1>1, <1>2, WritePiecesAre
<1> HIDE DEF q
<1>5. e % 2 = 0 /\ adr < e BY <1>0
<1>6. CASE adr > s + 1
  <2> DEFINE gap == Gap(s, adr)
             g == WritePieces(s + 1, gap)
             u == [a \in s + 1 .. adr |-> Junk]
             c == s + 1
  <2>1. Junk \in Value(f) /\ adr - s \in Nat \ {0} BY <1>0, <1>6, ValueIs
  <2>2. gap \in Seq(Value(f)) /\ Len(gap) = adr - s /\ gap # <<>> /\ \A i \in 1 .. adr - s : gap[i] = Junk
    <3>1. gap \in [1 .. adr - s -> Value(f)] BY <1>0, <2>1 DEF Gap
    <3>2. gap \in Seq(Value(f)) /\ Len(gap) = adr - s BY <1>0, <2>1, <3>1, FunctionIsSeq
    <3> QED BY <1>0, <2>1, <3>2 DEF Gap
  <2> HIDE DEF gap
  <2>3. \A a \in c .. adr : u[a] = gap[a - c + 1]
    <3> TAKE a \in c .. adr
    <3>1. a - c + 1 \in 1 .. adr - s BY <1>0, <1>6
    <3> QED BY <1>0, <2>2, <3>1
  <2>4. \A a \in s + 1 .. adr : u[a] = Junk BY <1>0
  <2>5. c \in Nat \ {0} /\ adr \in Nat /\ adr = c + Len(gap) - 1 /\ c = s + 1 BY <1>0, <2>2
  <2> HIDE DEF u, c
  <2>6. RunOf(f, g, c, adr, u) BY <1>0, <2>2, <2>3, <2>5, WritePiecesAre DEF c
  <2> HIDE DEF g
  <2>7. \A j \in 1 .. Len(q) : adr < EndOf(q[j])
    <3> TAKE j \in 1 .. Len(q)
    <3>1. /\ adr <= q[j].adr /\ q[j].adr <= EndOf(q[j]) /\ EndOf(q[j]) \in Nat /\ q[j].adr \in Nat
          /\ (j # Len(q) => EndOf(q[j]) % 2 = 0) /\ EndOf(q[Len(q)]) = e
      BY <1>0, <1>4 DEF RunOf
    <3>2. EndOf(q[j]) % 2 = 0 BY <1>0, <1>5, <3>1
    <3> QED BY <1>0, <3>1, <3>2
  <2>8. Plan(s, adr, n, w) = g \o q BY <1>0, <1>6 DEF Plan, g, q, gap, buf
  <2>9. PlanGood(f, s, adr, e, fr, g \o q, v, u) BY <1>0, <1>4, <1>6, <2>5, <2>6, <2>7, GapTodo
  <2>10. ASSUME NEW h PROVE Over(s, h, g \o q) = Marked(h, s, adr, e, w)
    <3>1. ASSUME NEW a \in 1 .. Larger(s, e)
          PROVE  (IF a \in adr .. e THEN v[a] ELSE IF a <= s THEN h[a] ELSE u[a]) =
                 (IF a \in adr .. e THEN <<w, a>> ELSE IF a <= s THEN h[a] ELSE Junk)
      <4>1. a \notin adr .. e /\ ~(a <= s) => a \in s + 1 .. adr BY <1>0, <1>6 DEF Larger
      <4> QED BY <1>0, <1>3, <2>4, <4>1
    <3>2. Over(s, h, g \o q) = Grown(h, s, adr, e, v, u) BY <1>0, <2>9 DEF PlanGood
    <3>3. Grown(h, s, adr, e, v, u) = Marked(h, s, adr, e, w) BY <1>0, <3>1 DEF Grown, Marked
    <3> QED BY <1>0, <3>2, <3>3
  <2> QED BY <1>0, <1>5, <2>8, <2>9, <2>10 DEF PlanGood
<1>7. CASE ~(adr > s + 1)
  <2>1. q \in Seq(WriteRequest(f)) BY <1>0, <1>4 DEF RunOf
  <2>2. Plan(s, adr, n, w) = q
    <3>1. Plan(s, adr, n, w) = <<>> \o q BY <1>0, <1>7 DEF Plan, q, buf
    <3> QED BY <1>0, <2>1, <3>1
  <2> DEFINE u == [a \in 1 .. e |-> Junk]
  <2> HIDE DEF u
  <2>3. PlanGood(f, s, adr, e, fr, q, v, u) BY <1>0, <1>4, <1>7, RunTodo
  <2>4. ASSUME NEW h PROVE Over(s, h, q) = Marked(h, s, adr, e, w)
    <3>1. ASSUME NEW a \in 1 .. Larger(s, e)
          PROVE  (IF a \in adr .. e THEN v[a] ELSE IF a <= s THEN h[a] ELSE u[a]) =
                 (IF a \in adr .. e THEN <<w, a>> ELSE IF a <= s THEN h[a] ELSE Junk)
      <4>1. a \notin adr .. e => a <= s BY <1>0, <1>7 DEF Larger
      <4> QED BY <1>0, <1>3, <4>1
    <3>2. Over(s, h, q) = Grown(h, s, adr, e, v, u) BY <1>0, <2>3 DEF PlanGood
    <3>3. Grown(h, s, adr, e, v, u) = Marked(h, s, adr, e, w) BY <1>0, <3>1 DEF Grown, Marked
    <3> QED BY <1>0, <3>2, <3>3
  <2> QED BY <1>0, <1>5, <2>2, <2>3, <2>4 DEF PlanGood
<1> QED BY <1>0, <1>6, <1>7

---------------------------------------------------------------------------
(* The states of WordFile. *)

LEMMA PageSize ==
  ASSUME config \in Configs
  PROVE  P \in Nat /\ (DoubleWords => P % 2 = 0)
BY WordFileAssumption DEF WordFileAssumption, P, DoubleWords

LEMMA PageTerms ==
  ASSUME NEW k, NEW a
  PROVE  /\ PageOf(a) = Number(P, a) /\ First(k) = Lowest(P, k) /\ Last(k) = Highest(P, k)
         /\ (Paged <=> P # 0)
BY DEF PageOf, Number, First, Lowest, Last, Highest, Paged, P

SeenAs(f) == Over(Size(f), HeldWords(P, disk[f], page[f], Size(f)), Todo(f))

Covered ==
  \A f \in Files : \A a \in Size(f) + 1 .. TopOf(Size(f), Todo(f)) : Covers(Todo(f), a) # {}

LEMMA SizeIs == Tables /\ FilesGood => \A f \in Files : Size(f) \in Nat /\ Size(f) <= MaxSize[f]
BY ValueIs DEF FilesGood, FileGood

SeenRight == \A f \in Files : Seen(f) = SeenAs(f)

LEMMA SeenIs == Tables /\ FilesGood /\ ClosedFiles /\ Covered => SeenRight
<1> SUFFICES ASSUME Tables, FilesGood, ClosedFiles, Covered, NEW f \in Files PROVE Seen(f) = SeenAs(f)
  BY DEF SeenRight
<1> DEFINE t == Todo(f)
           s == Size(f)
           h == HeldWords(P, disk[f], page[f], s)
<1>1. s \in Nat BY SizeIs
<1>2. ASSUME NEW a \in 1 .. s PROVE Held(f, a) = h[a]
  <2>1. f \notin opened => DOMAIN page[f] = {} BY DEF ClosedFiles
  <2>2. Held(f, a) = HeldIn(P, disk[f], page[f], a)
    BY <2>1, PageTerms DEF Held, HeldIn, InMemory
  <2> QED BY <1>2, <2>2 DEF HeldWords
<1>3. \A a \in s + 1 .. TopOf(s, t) : Covers(t, a) # {} BY DEF Covered
<1>4. Seen(f) = [a \in 1 .. TopOf(s, t) |->
                   IF Covers(t, a) = {} THEN Held(f, a)
                   ELSE t[LastOver(t, a)].buf[a - t[LastOver(t, a)].adr + 1]]
  BY DEF Seen, TopOf, EndOf, Size, LastOver
<1> HIDE DEF t, s, h
<1>5. ASSUME NEW a \in 1 .. TopOf(s, t), Covers(t, a) = {} PROVE Held(f, a) = h[a]
  <2>1. a \notin s + 1 .. TopOf(s, t) BY <1>3, <1>5
  <2>2. a \in 1 .. s BY <1>1, <2>1
  <2> QED BY <1>2, <2>2
<1>6. Seen(f) = Over(s, h, t) BY <1>4, <1>5 DEF Over
<1> QED BY <1>6 DEF SeenAs, t, s, h

LEMMA IsCovered == IInv => Covered
<1> SUFFICES ASSUME IInv, NEW f \in Files
             PROVE  \A a \in Size(f) + 1 .. TopOf(Size(f), Todo(f)) : Covers(Todo(f), a) # {}
  BY DEF Covered
<1>1. Size(f) \in Nat BY SizeIs DEF IInv
<1>2. CASE Todo(f) = <<>>
  <2>1. Size(f) + 1 .. TopOf(Size(f), Todo(f)) = {} BY <1>1, <1>2 DEF TopOf
  <2> QED BY <2>1
<1>3. CASE Todo(f) # <<>>
  <2>1. call.op = "write" /\ call.file = f /\ Todo(f) = call.todo BY <1>3 DEF Todo
  <2>2. f \in opened /\ TodoGood(P, f, size[f], fresh[f], call.todo)
    BY <2>1 DEF IInv, CallGood, NoCall
  <2>3. size[f] = Size(f) BY <2>2 DEF Size
  <2>4. \A a \in Size(f) + 1 .. EndOf(call.todo[Len(call.todo)]) : Covers(call.todo, a) # {}
    BY <2>2, <2>3 DEF TodoGood
  <2>5. \A a \in Size(f) + 1 .. TopOf(Size(f), Todo(f)) :
          a \in Size(f) + 1 .. EndOf(call.todo[Len(call.todo)])
    <3>1. TopOf(Size(f), Todo(f)) = Size(f) \/ TopOf(Size(f), Todo(f)) = EndOf(call.todo[Len(call.todo)])
      BY <1>3, <2>1 DEF TopOf, Larger
    <3> QED BY <1>1, <3>1
  <2> QED BY <2>1, <2>4, <2>5
<1> QED BY <1>2, <1>3

LEMMA SeenNow == IInv => SeenRight
BY SeenIs, IsCovered DEF IInv

(* The rest of a write, when its first part is carried out.                *)
LEMMA TailTodo ==
  ASSUME NEW z, NEW f \in Files, NEW s \in Nat, NEW fr, NEW t, TodoGood(z, f, s, fr, t), Len(t) # 1,
         NEW n, n = Larger(s, EndOf(t[1]))
  PROVE  TodoGood(z, f, n, fr, Tail(t)) /\ (TodoEven(s, t) => TodoEven(n, Tail(t)))
<1> DEFINE u == Tail(t)
<1>1. /\ t \in Seq(WriteRequest(f)) /\ t # <<>> /\ Len(t) \in Nat \ {0} /\ DOMAIN t = 1 .. Len(t)
      /\ u \in Seq(WriteRequest(f)) /\ Len(u) = Len(t) - 1 /\ DOMAIN u = 1 .. Len(u)
      /\ Len(u) \in Nat \ {0} /\ u # <<>>
      /\ \A i \in 1 .. Len(u) : u[i] = t[i + 1] /\ i + 1 \in 1 .. Len(t)
  <2>1. t \in Seq(WriteRequest(f)) /\ t # <<>> BY DEF TodoGood
  <2>2. Len(t) \in Nat \ {0} /\ DOMAIN t = 1 .. Len(t) BY <2>1
  <2>3. u \in Seq(WriteRequest(f)) /\ Len(u) = Len(t) - 1 /\ \A i \in 1 .. Len(u) : u[i] = t[i + 1]
    BY <2>1, <2>2
  <2> HIDE DEF u
  <2>4. Len(u) \in Nat \ {0} /\ DOMAIN u = 1 .. Len(u) BY <2>2, <2>3
  <2> QED BY <2>1, <2>2, <2>3, <2>4
<1> HIDE DEF u
<1>2. \A i \in 1 .. Len(t) :
       /\ t[i].buf # <<>> /\ EndOf(t[i]) <= MaxSize[f]
       /\ t[i].adr .. EndOf(t[i]) \subseteq fr
       /\ InOnePage(z, t[i].adr, EndOf(t[i]))
  BY DEF TodoGood
<1>3. \A i \in 1 .. Len(t) : EndOf(t[i]) \in Int /\ t[i].adr \in Nat
  <2> TAKE i \in 1 .. Len(t)
  <2>1. t[i] \in WriteRequest(f) BY <1>1
  <2>2. t[i].adr \in Nat \ {0} /\ Len(t[i].buf) \in Nat BY <2>1 DEF WriteRequest
  <2> QED BY <2>2 DEF EndOf
<1>4. 1 \in 1 .. Len(t) /\ 1 \in 1 .. Len(u) /\ 1 \in 1 .. Len(t) - 1 /\ u[1] = t[2] /\ 1 + 1 = 2
      /\ u[Len(u)] = t[Len(t)] /\ 2 \in 1 .. Len(t) /\ Len(t) \in 1 .. Len(t)
  BY <1>1
<1>5. n \in Int /\ s <= n /\ EndOf(t[1]) <= n /\ (n = s \/ n = EndOf(t[1])) BY <1>3, <1>4 DEF Larger
<1>6. \A i, j \in 1 .. Len(t) : i < j => EndOf(t[i]) < EndOf(t[j]) BY DEF TodoGood
<1>7. TodoGood(z, f, n, fr, u)
  <2>1. u[1].adr <= n + 1
    <3>1. t[1 + 1].adr <= EndOf(t[1]) + 1 BY <1>4 DEF TodoGood
    <3> QED BY <1>3, <1>4, <1>5, <3>1
  <2>2. \A i \in 1 .. Len(u) - 1 : u[i + 1].adr <= EndOf(u[i]) + 1
    <3> TAKE i \in 1 .. Len(u) - 1
    <3>1. i \in 1 .. Len(u) /\ i + 1 \in 1 .. Len(u) /\ i + 1 \in 1 .. Len(t) - 1 BY <1>1
    <3>2. t[(i + 1) + 1].adr <= EndOf(t[i + 1]) + 1 BY <3>1 DEF TodoGood
    <3> QED BY <1>1, <3>1, <3>2
  <2>3. \A i, j \in 1 .. Len(u) : i < j => EndOf(u[i]) < EndOf(u[j])
    <3> SUFFICES ASSUME NEW i \in 1 .. Len(u), NEW j \in 1 .. Len(u), i < j PROVE EndOf(u[i]) < EndOf(u[j])
      OBVIOUS
    <3>1. i + 1 < j + 1 BY <1>1
    <3> QED BY <1>1, <1>6, <3>1
  <2>4. \A a \in n + 1 .. EndOf(u[Len(u)]) : Covers(u, a) # {}
    <3> TAKE a \in n + 1 .. EndOf(u[Len(u)])
    <3>1. a \in s + 1 .. EndOf(t[Len(t)]) BY <1>3, <1>4, <1>5
    <3>2. PICK i \in 1 .. Len(t) : a \in t[i].adr .. EndOf(t[i])
      BY <1>1, <3>1 DEF TodoGood, Covers, EndOf
    <3>3. i # 1 BY <1>3, <1>4, <1>5, <3>2
    <3>4. i - 1 \in 1 .. Len(u) /\ (i - 1) + 1 = i BY <1>1, <3>3
    <3>5. i - 1 \in Covers(u, a) BY <1>1, <3>2, <3>4 DEF Covers, EndOf
    <3> QED BY <3>5
  <2>5. \A i \in 1 .. Len(u) :
       /\ u[i].buf # <<>> /\ EndOf(u[i]) <= MaxSize[f]
       /\ u[i].adr .. EndOf(u[i]) \subseteq fr
       /\ InOnePage(z, u[i].adr, EndOf(u[i]))
    BY <1>1, <1>2
  <2> QED BY <1>1, <2>1, <2>2, <2>3, <2>4, <2>5 DEF TodoGood
<1>8. ASSUME TodoEven(s, t) PROVE TodoEven(n, u)
  <2>1. \A i \in 1 .. Len(u) :
          /\ u[i].adr % 2 = 1
          /\ EndOf(u[i]) % 2 = 1 =>
               i < Len(u) /\ u[i + 1].adr = EndOf(u[i]) /\ EndOf(u[i + 1]) % 2 = 0 /\ EndOf(u[i]) > n
    <3> TAKE i \in 1 .. Len(u)
    <3>1. i + 1 \in 1 .. Len(t) /\ u[i] = t[i + 1] /\ 1 < i + 1 BY <1>1
    <3>2. t[i + 1].adr % 2 = 1 BY <1>8, <3>1 DEF TodoEven
    <3>3. ASSUME EndOf(u[i]) % 2 = 1
          PROVE  i < Len(u) /\ u[i + 1].adr = EndOf(u[i]) /\ EndOf(u[i + 1]) % 2 = 0 /\ EndOf(u[i]) > n
      <4>1. /\ i + 1 < Len(t) /\ t[(i + 1) + 1].adr = EndOf(t[i + 1])
            /\ EndOf(t[(i + 1) + 1]) % 2 = 0 /\ EndOf(t[i + 1]) > s
        BY <1>8, <3>1, <3>3 DEF TodoEven
      <4>2. EndOf(t[1]) < EndOf(t[i + 1]) BY <1>4, <1>6, <3>1
      <4>3. EndOf(t[i + 1]) > n BY <1>5, <4>1, <4>2
      <4>4. i < Len(u) /\ i + 1 \in 1 .. Len(u) BY <1>1, <4>1
      <4> QED BY <1>1, <3>1, <4>1, <4>3, <4>4
    <3> QED BY <3>1, <3>2, <3>3
  <2>2. n % 2 = 1 => n = u[1].adr /\ EndOf(u[1]) % 2 = 0
    <3>1. s % 2 = 1 => EndOf(t[1]) % 2 = 0 /\ s = t[1].adr BY <1>8 DEF TodoEven
    <3>2. EndOf(t[1]) % 2 = 1 => t[1 + 1].adr = EndOf(t[1]) /\ EndOf(t[1 + 1]) % 2 = 0 /\ EndOf(t[1]) > s
      BY <1>4, <1>8 DEF TodoEven
    <3>3. s % 2 = 1 => n # s
      <4>1. t[1].adr <= EndOf(t[1])
        <5>1. t[1] \in WriteRequest(f) /\ t[1].buf # <<>> BY <1>1, <1>2, <1>4
        <5>2. t[1].adr \in Nat /\ Len(t[1].buf) \in Nat \ {0} BY <5>1 DEF WriteRequest
        <5> QED BY <5>2 DEF EndOf
      <4> QED BY <1>3, <1>4, <1>5, <3>1, <4>1 DEF Larger
    <3>4. n % 2 = 1 => n = EndOf(t[1]) /\ EndOf(t[1]) % 2 = 1 BY <1>5, <3>3
    <3> QED BY <1>4, <3>2, <3>4
  <2> QED BY <1>1, <2>1, <2>2 DEF TodoEven
<1> QED BY <1>7, <1>8 DEF u

---------------------------------------------------------------------------
(* Pages that come and go leave the files as they were: d2 and p2 are the  *)
(* disk and the pages afterwards.                                          *)

Tabled(d2, p2) == d2 = [g \in Files |-> d2[g]] /\ p2 = [g \in Files |-> p2[g]]

Stays(d2, p2) ==
  \A g \in Files :
    /\ Moved(P, g, disk[g], page[g], Size(g), fresh[g], d2[g], p2[g])
    /\ g \notin opened => d2[g] = disk[g] /\ p2[g] = page[g]

LEMMA NothingMoved ==
  ASSUME Tables, FilesGood
  PROVE  Tabled(disk, page) /\ Stays(disk, page)
BY DEF Tables, FilesGood, Tabled, Stays, Moved

LEMMA ScrapStays ==
  ASSUME Tables, FilesGood, ClosedFiles, P # 0, NEW f \in Files, NEW k \in InMemory(f),
         NEW d2, d2 = Scrapped(disk, f, k), NEW p2, p2 = [page EXCEPT ![f] = Without(@, k)]
  PROVE  Tabled(d2, p2) /\ Stays(d2, p2)
<1> DEFINE d == disk[f]
           m == page[f]
           s == Size(f)
           x == ScrapWords(P, k, m[k])
<1>1. P \in Nat \ {0} BY PageSize DEF Tables
<1>2. FileGood(P, f, d, m, s, fresh[f]) /\ k \in DOMAIN m /\ s \in Nat BY SizeIs DEF FilesGood, InMemory
<1>3. f \in opened BY <1>2 DEF ClosedFiles
<1>4. /\ Tabled(d2, p2)
      /\ d2[f] = IF m[k].touched THEN Written(d, Lowest(P, k), x) ELSE d
      /\ p2[f] = Without(m, k)
      /\ \A g \in Files \ {f} : d2[g] = disk[g] /\ p2[g] = page[g]
  <2>1. Scrapped(disk, f, k) = IF m[k].touched THEN [disk EXCEPT ![f] = Written(@, Lowest(P, k), x)] ELSE disk
    BY DEF Scrapped, ScrapWords, First, Lowest, P
  <2>2. disk = [g \in Files |-> disk[g]] /\ page = [g \in Files |-> page[g]] BY DEF Tables
  <2> HIDE DEF x
  <2>3. CASE m[k].touched
    <3>1. d2 = [disk EXCEPT ![f] = Written(@, Lowest(P, k), x)] BY <2>1, <2>3
    <3>2. d2 = [g \in Files |-> IF g = f THEN Written(disk[f], Lowest(P, k), x) ELSE disk[g]] BY <2>2, <3>1
    <3> QED BY <2>2, <2>3, <3>2 DEF Tabled
  <2>4. CASE ~m[k].touched
    <3>1. d2 = disk BY <2>1, <2>4
    <3> QED BY <2>2, <2>4, <3>1 DEF Tabled
  <2> QED BY <2>3, <2>4
<1>5. DOMAIN p2[f] = DOMAIN m \ {k} /\ \A j \in DOMAIN p2[f] : p2[f][j] = m[j] BY <1>4 DEF Without
<1>6. Moved(P, f, d, m, s, fresh[f], d2[f], p2[f])
  <2> DEFINE fr == fresh[f]
             e == d2[f]
             q == p2[f]
  <2>1. /\ P \in Nat \ {0} /\ FileGood(P, f, d, m, s, fr) /\ k \in DOMAIN m
        /\ DOMAIN q = DOMAIN m \ {k} /\ \A j \in DOMAIN q : q[j] = m[j]
        /\ m[k].touched => e = Written(d, Lowest(P, k), ScrapWords(P, k, m[k]))
        /\ ~m[k].touched => e = d
    BY <1>1, <1>2, <1>4, <1>5
  <2> HIDE DEF d, m, s, fr, e, q
  <2>2. Moved(P, f, d, m, s, fr, e, q) BY <2>1, ScrapFile
  <2> QED BY <2>2 DEF fr, e, q
<1>7. Stays(d2, p2)
  <2> SUFFICES ASSUME NEW g \in Files
      PROVE  /\ Moved(P, g, disk[g], page[g], Size(g), fresh[g], d2[g], p2[g])
             /\ g \notin opened => d2[g] = disk[g] /\ p2[g] = page[g]
    BY DEF Stays
  <2>1. CASE g = f BY <1>3, <1>6, <2>1
  <2>2. CASE g # f BY <1>4, <2>2 DEF FilesGood, Moved
  <2> QED BY <2>1, <2>2
<1> QED BY <1>4, <1>7

(* The page that a new page needs room for.                                *)
LEMMA RoomIs ==
  ASSUME Tables, FilesGood, ClosedFiles, P # 0, NEW f \in Files, NEW room \in GetNewPage(f)
  PROVE  Tabled(room.disk, room.page) /\ Stays(room.disk, room.page)
<1>1. CASE Victims(f) = {}
  <2>1. room = [disk |-> disk, page |-> page] BY <1>1 DEF GetNewPage
  <2>2. room.disk = disk /\ room.page = page BY <2>1
  <2> QED BY <2>2, NothingMoved
<1>2. CASE Victims(f) # {}
  <2>1. PICK v \in Victims(f) :
          room = [disk |-> Scrapped(disk, v[1], v[2]), page |-> [page EXCEPT ![v[1]] = Without(@, v[2])]]
    BY <1>2 DEF GetNewPage
  <2>2. PICK g \in Files : \E k \in InMemory(g) : v = <<g, k>> BY <2>1 DEF Victims, PagesInUse
  <2>3. PICK k \in InMemory(g) : v = <<g, k>> BY <2>2
  <2>4. room.disk = Scrapped(disk, g, k) /\ room.page = [page EXCEPT ![g] = Without(@, k)] BY <2>1, <2>3
  <2> QED BY <2>4, ScrapStays
<1> QED BY <1>1, <1>2

(* A step that moves nothing but pages.                                    *)
LEMMA QuietStep ==
  ASSUME IInv, Tabled(disk', page'), Stays(disk', page'),
         UNCHANGED <<config, opened, size, fresh>>
  PROVE  /\ Tables' /\ FilesGood' /\ ClosedFiles'
         /\ \A f \in Files : Size(f)' = Size(f)
         /\ (\A f \in Files : Todo(f)' = Todo(f)) => \A f \in Files : Seen(f)' = Seen(f)
<1>1. Tables' BY DEF IInv, Tables, Tabled
<1>2. ASSUME NEW f \in Files PROVE Size(f)' = Size(f) BY DEF Stays, Size
<1>3. P' = P BY DEF P
<1>4. FilesGood' BY <1>2, <1>3 DEF FilesGood, Stays, Moved
<1>5. ClosedFiles' BY DEF IInv, ClosedFiles, Stays
<1>6. ASSUME \A f \in Files : Todo(f)' = Todo(f), NEW f \in Files PROVE Seen(f)' = Seen(f)
  <2>1. Covered BY IsCovered
  <2>2. Covered'
    <3> SUFFICES ASSUME NEW g \in Files
                 PROVE  \A a \in Size(g)' + 1 .. TopOf(Size(g)', Todo(g)') : Covers(Todo(g)', a) # {}
      BY DEF Covered
    <3>1. Size(g)' = Size(g) /\ Todo(g)' = Todo(g) BY <1>2, <1>6
    <3> QED BY <2>1, <3>1 DEF Covered
  <2>3. Tables' /\ FilesGood' /\ ClosedFiles' /\ Covered' => SeenRight' BY SeenIs, PTL
  <2>4. Seen(f)' = SeenAs(f)' BY <1>1, <1>4, <1>5, <2>2, <2>3 DEF SeenRight
  <2>5. Seen(f) = SeenAs(f) BY SeenNow DEF SeenRight
  <2>6. SeenAs(f) = Over(Size(f), HeldWords(P, disk[f], page[f], Size(f)), Todo(f)) BY DEF SeenAs
  <2>7. SeenAs(f)' = Over(Size(f)', HeldWords(P', disk'[f], page'[f], Size(f)'), Todo(f)') BY DEF SeenAs
  <2>8. HeldWords(P, disk'[f], page'[f], Size(f)) = HeldWords(P, disk[f], page[f], Size(f))
    BY DEF HeldWords, Stays, Moved
  <2>9. Size(f)' = Size(f) /\ Todo(f)' = Todo(f) BY <1>2, <1>6
  <2> QED BY <1>3, <2>4, <2>5, <2>6, <2>7, <2>8, <2>9
<1> QED BY <1>1, <1>2, <1>4, <1>5, <1>6

---------------------------------------------------------------------------
(* Writing *)

LEMMA WriteFacts ==
  ASSUME IInv, call.op = "write", NEW f, f = call.file, NEW t, t = call.todo
  PROVE  /\ f \in Files /\ f \in opened \ ReadOnly /\ call = [op |-> "write", file |-> f, todo |-> t]
         /\ Size(f) = size[f] /\ size[f] \in Nat /\ size[f] <= MaxSize[f] /\ MaxSize[f] \in Nat
         /\ FileGood(P, f, disk[f], page[f], size[f], fresh[f])
         /\ TodoGood(P, f, size[f], fresh[f], t)
         /\ P # 0 => TodoEven(size[f], t)
         /\ Head(t) = t[1] /\ Len(t) \in Nat \ {0} /\ t \in Seq(WriteRequest(f))
         /\ t[1].adr \in Nat \ {0} /\ t[1].buf \in Seq(Value(f)) /\ t[1].buf # <<>>
         /\ EndOf(t[1]) \in Nat /\ EndOf(t[1]) = t[1].adr + Len(t[1].buf) - 1
         /\ t[1].adr <= EndOf(t[1]) /\ EndOf(t[1]) <= MaxSize[f]
         /\ t[1].adr <= size[f] + 1 /\ t[1].adr .. EndOf(t[1]) \subseteq fresh[f]
         /\ InOnePage(P, t[1].adr, EndOf(t[1]))
<1>1. /\ f \in opened \ ReadOnly /\ call = [op |-> "write", file |-> f, todo |-> t]
      /\ TodoGood(P, f, size[f], fresh[f], t)
      /\ P # 0 => TodoEven(size[f], t)
  BY DEF IInv, CallGood, NoCall
<1>2. f \in Files BY <1>1 DEF IInv, Tables
<1>3. /\ Size(f) = size[f] /\ size[f] \in Nat /\ size[f] <= MaxSize[f] /\ MaxSize[f] \in Nat
      /\ FileGood(P, f, disk[f], page[f], size[f], fresh[f])
  <2>1. Size(f) = size[f] BY <1>1 DEF Size
  <2> QED BY <1>2, <2>1, SizeIs, ValueIs DEF IInv, FilesGood
<1>4. t \in Seq(WriteRequest(f)) /\ t # <<>> /\ t[1].adr <= size[f] + 1 BY <1>1 DEF TodoGood
<1>5. Len(t) \in Nat \ {0} /\ Head(t) = t[1] /\ 1 \in 1 .. Len(t) BY <1>4
<1>6. t[1] \in WriteRequest(f) BY <1>4, <1>5
<1>7. /\ t[1].buf # <<>> /\ EndOf(t[1]) <= MaxSize[f]
      /\ t[1].adr .. EndOf(t[1]) \subseteq fresh[f]
      /\ InOnePage(P, t[1].adr, EndOf(t[1]))
  BY <1>1, <1>5 DEF TodoGood
<1>8. t[1].adr \in Nat \ {0} /\ t[1].buf \in Seq(Value(f)) /\ Len(t[1].buf) \in Nat \ {0}
  BY <1>6, <1>7 DEF WriteRequest
<1>9. EndOf(t[1]) \in Nat /\ EndOf(t[1]) = t[1].adr + Len(t[1].buf) - 1 /\ t[1].adr <= EndOf(t[1])
  BY <1>8 DEF EndOf
<1> QED BY <1>1, <1>2, <1>3, <1>4, <1>5, <1>7, <1>8, <1>9

LEMMA TailIs ==
  ASSUME NEW f \in Files, NEW t \in Seq(WriteRequest(f)), t # <<>>
  PROVE  /\ Tail(t) \in Seq(WriteRequest(f)) /\ Len(Tail(t)) = Len(t) - 1
         /\ Tail(t) = <<>> <=> Len(t) = 1
<1>1. Tail(t) \in Seq(WriteRequest(f)) /\ Len(Tail(t)) = Len(t) - 1 /\ Len(t) \in Nat OBVIOUS
<1> DEFINE u == Tail(t)
<1>2. u \in Seq(WriteRequest(f)) /\ Len(u) = Len(t) - 1 BY <1>1
<1> HIDE DEF u
<1>3. u = <<>> <=> Len(t) = 1 BY <1>1, <1>2
<1> QED BY <1>1, <1>3 DEF u

LEMMA AfterPieceIs ==
  ASSUME NEW f, NEW t, call = [op |-> "write", file |-> f, todo |-> t]
  PROVE  AfterPiece = IF Len(t) = 1 THEN NoCall ELSE [op |-> "write", file |-> f, todo |-> Tail(t)]
<1> DEFINE u == Tail(t)
<1>1. AfterPiece = IF Len(t) = 1 THEN NoCall ELSE [call EXCEPT !.todo = u] BY DEF AfterPiece
<1> HIDE DEF u
<1>2. [call EXCEPT !.todo = u] = [op |-> "write", file |-> f, todo |-> u] OBVIOUS
<1> QED BY <1>1, <1>2 DEF u

LEMMA MovedThenChanged ==
  ASSUME NEW z, NEW f \in Files, NEW d, NEW m, NEW s \in Nat, NEW fr, NEW d1, NEW m1,
         Moved(z, f, d, m, s, fr, d1, m1),
         NEW d2, NEW m2, NEW adr \in Nat \ {0}, NEW e \in Nat, NEW buf, adr <= s + 1,
         Changed(z, f, d1, m1, s, fr, d2, m2, adr, e, buf)
  PROVE  Changed(z, f, d, m, s, fr, d2, m2, adr, e, buf)
<1>1. ASSUME NEW a \in 1 .. Larger(s, e), a \notin adr .. e PROVE a \in 1 .. s
  BY <1>1 DEF Larger
<1> QED BY <1>1 DEF Moved, Changed

(* What is common to the two ways to write the first part of what is left. *)
PieceDone(f, t, e) ==
  /\ f = call.file /\ t = call.todo /\ e = EndOf(t[1])
  /\ Tabled(disk', page')
  /\ Changed(P, f, disk[f], page[f], size[f], fresh[f], disk'[f], page'[f], t[1].adr, e, t[1].buf)
  /\ \A g \in Files \ {f} :
       /\ Moved(P, g, disk[g], page[g], Size(g), fresh[g], disk'[g], page'[g])
       /\ g \notin opened => disk'[g] = disk[g] /\ page'[g] = page[g]
  /\ FilesEven'
  /\ size' = [size EXCEPT ![f] = Larger(@, e)] /\ call' = AfterPiece
  /\ UNCHANGED <<config, opened, fresh, got>>

LEMMA PieceWritten ==
  ASSUME IInv, call.op = "write", NEW f, NEW t, NEW e, PieceDone(f, t, e)
  PROVE  IInv' /\ \A g \in Files : Seen(g)' = Seen(g)
<1>0. /\ f = call.file /\ t = call.todo /\ e = EndOf(t[1])
      /\ Tabled(disk', page')
      /\ Changed(P, f, disk[f], page[f], size[f], fresh[f], disk'[f], page'[f], t[1].adr, e, t[1].buf)
      /\ \A g \in Files \ {f} :
           /\ Moved(P, g, disk[g], page[g], Size(g), fresh[g], disk'[g], page'[g])
           /\ g \notin opened => disk'[g] = disk[g] /\ page'[g] = page[g]
      /\ FilesEven'
      /\ size' = [size EXCEPT ![f] = Larger(@, e)] /\ call' = AfterPiece
      /\ UNCHANGED <<config, opened, fresh, got>>
  BY DEF PieceDone
<1> DEFINE s == size[f]
           n == Larger(s, e)
<1>1. /\ f \in Files /\ f \in opened \ ReadOnly /\ call = [op |-> "write", file |-> f, todo |-> t]
      /\ Size(f) = s /\ s \in Nat
      /\ TodoGood(P, f, s, fresh[f], t)
      /\ P # 0 => TodoEven(s, t)
      /\ Len(t) \in Nat \ {0} /\ t \in Seq(WriteRequest(f)) /\ t # <<>> /\ e \in Nat
  BY <1>0, WriteFacts
<1>2. n \in Nat BY <1>0, <1>1 DEF Larger
<1>3. P' = P BY <1>0 DEF P
<1>4. size'[f] = n /\ Size(f)' = n /\ \A g \in Files \ {f} : size'[g] = size[g] /\ Size(g)' = Size(g)
  <2>1. size \in [Files -> Nat] BY <1>0 DEF IInv, Tables
  <2>2. size'[f] = n /\ \A g \in Files \ {f} : size'[g] = size[g] BY <1>0, <1>1, <2>1
  <2>3. Size(f)' = n BY <1>0, <1>1, <2>2 DEF Size
  <2> HIDE DEF n, s
  <2> QED BY <1>0, <2>2, <2>3 DEF Size
<1>5. Tables'
  <2>1. size' \in [Files -> Nat] BY <1>0, <1>1, <1>2 DEF IInv, Tables
  <2> QED BY <1>0, <2>1 DEF IInv, Tables, Tabled
<1> HIDE DEF n, s
<1>6. FilesGood'
  <2> SUFFICES ASSUME NEW g \in Files PROVE FileGood(P, g, disk'[g], page'[g], Size(g)', fresh[g])
    BY <1>0, <1>3 DEF FilesGood
  <2>1. CASE g = f BY <1>0, <1>4, <2>1 DEF Changed, n, s
  <2>2. CASE g # f BY <1>0, <1>4, <2>2 DEF Moved
  <2> QED BY <1>0, <2>1, <2>2
<1>7. ClosedFiles'
  <2> SUFFICES ASSUME NEW g \in Files \ opened PROVE size'[g] = 0 /\ fresh[g] = {} /\ DOMAIN page'[g] = {}
    BY <1>0 DEF ClosedFiles
  <2>1. g # f BY <1>0, <1>1
  <2>2. size[g] = 0 /\ fresh[g] = {} /\ DOMAIN page[g] = {} BY <1>0 DEF IInv, ClosedFiles
  <2> QED BY <1>0, <1>4, <2>1, <2>2
<1>8. Tail(t) = <<>> <=> Len(t) = 1 BY <1>0, <1>1, TailIs
<1>9. call' = IF Len(t) = 1 THEN NoCall ELSE [op |-> "write", file |-> f, todo |-> Tail(t)]
  BY <1>0, <1>1, AfterPieceIs
<1>10. Todo(f)' = Tail(t) /\ Todo(f) = t /\ \A g \in Files \ {f} : Todo(g)' = Todo(g)
  <2>1. Todo(f) = t /\ \A g \in Files \ {f} : Todo(g) = <<>> BY <1>0 DEF Todo
  <2>2. CASE Len(t) = 1
    <3>1. call'.op = "none" BY <1>0, <1>9, <2>2 DEF NoCall
    <3> QED BY <1>0, <1>8, <2>1, <2>2, <3>1 DEF Todo
  <2>3. CASE Len(t) # 1
    <3>1. call'.op = "write" /\ call'.file = f /\ call'.todo = Tail(t) BY <1>0, <1>9, <2>3
    <3> QED BY <1>0, <2>1, <3>1 DEF Todo
  <2> QED BY <1>0, <2>2, <2>3
<1>11. CallGood'
  <2>1. CASE Len(t) = 1 BY <1>0, <1>9, <2>1 DEF CallGood
  <2>2. CASE Len(t) # 1
    <3>1. TodoGood(P, f, n, fresh[f], Tail(t)) /\ (TodoEven(s, t) => TodoEven(n, Tail(t)))
      BY <1>0, <1>1, <2>2, TailTodo DEF n
    <3>2. /\ call' = [op |-> "write", file |-> f, todo |-> call'.todo] /\ call'.todo = Tail(t)
      BY <1>0, <1>9, <2>2
    <3> QED BY <1>0, <1>1, <1>3, <1>4, <3>1, <3>2 DEF CallGood
  <2> QED BY <1>0, <2>1, <2>2
<1>12. IInv' BY <1>0, <1>5, <1>6, <1>7, <1>11 DEF IInv
<1>13. ASSUME NEW g \in Files PROVE Seen(g)' = Seen(g)
  <2>1. IInv' => SeenRight' BY SeenNow, PTL
  <2>2. Seen(g)' = SeenAs(g)' /\ Seen(g) = SeenAs(g) BY <1>0, <1>12, <2>1, SeenNow DEF SeenRight
  <2>3. SeenAs(g) = Over(Size(g), HeldWords(P, disk[g], page[g], Size(g)), Todo(g)) BY <1>0 DEF SeenAs
  <2>4. SeenAs(g)' = Over(Size(g)', HeldWords(P, disk'[g], page'[g], Size(g)'), Todo(g)')
    BY <1>0, <1>3 DEF SeenAs
  <2>5. CASE g # f
    <3>1. HeldWords(P, disk'[g], page'[g], Size(g)) = HeldWords(P, disk[g], page[g], Size(g))
      BY <1>0, <2>5 DEF HeldWords, Moved
    <3> QED BY <1>0, <1>4, <1>10, <2>2, <2>3, <2>4, <2>5, <3>1
  <2>6. CASE g = f
    <3> DEFINE h == HeldWords(P, disk[f], page[f], s)
               h2 == HeldWords(P, disk'[f], page'[f], n)
    <3>1. \A a \in 1 .. n : h2[a] = IF a \in t[1].adr .. e THEN t[1].buf[a - t[1].adr + 1] ELSE h[a]
      <4> TAKE a \in 1 .. n
      <4>1. h2[a] = HeldIn(P, disk'[f], page'[f], a) BY <1>0 DEF HeldWords
      <4>2. HeldIn(P, disk'[f], page'[f], a) = IF a \in t[1].adr .. e THEN t[1].buf[a - t[1].adr + 1]
                                               ELSE HeldIn(P, disk[f], page[f], a)
        BY <1>0 DEF Changed, n, s
      <4>3. a \notin t[1].adr .. e => a \in 1 .. s
        <5>1. t[1].adr <= s + 1 /\ t[1].adr \in Nat BY <1>0, WriteFacts DEF s
        <5> QED BY <1>0, <1>1, <1>2, <5>1 DEF n, Larger
      <4>4. a \notin t[1].adr .. e => h[a] = HeldIn(P, disk[f], page[f], a) BY <1>0, <4>3 DEF HeldWords
      <4> QED BY <1>0, <4>1, <4>2, <4>4
    <3> HIDE DEF h, h2
    <3>2. InOrder(s, t) BY <1>0, <1>1 DEF TodoGood, InOrder
    <3>3. Over(n, h2, Tail(t)) = Over(s, h, t)
      <4> DEFINE x == EndOf(t[1])
                 r == t[1]
                 u == Tail(t)
      <4>1. n = Larger(s, x) /\ e = x BY <1>0 DEF n
      <4>2. Puts(s, h, h2, r) BY <1>0, <3>1, <4>1 DEF Puts
      <4>3. f \in Files /\ s \in Nat /\ t \in Seq(WriteRequest(f)) /\ t # <<>> /\ n = Larger(s, EndOf(r))
        BY <1>0, <1>1, <4>1
      <4>4. InOrder(s, t) /\ r = t[1] /\ u = Tail(t) BY <1>0, <3>2
      <4> HIDE DEF r, u, x
      <4>5. SameOver(s, h, t, n, h2, u) BY <1>0, <4>2, <4>3, <4>4, OverRest
      <4> QED BY <1>0, <4>5 DEF SameOver, u
    <3> QED BY <1>0, <1>1, <1>4, <1>10, <2>2, <2>3, <2>4, <2>6, <3>3 DEF h, h2
  <2> QED BY <1>0, <2>5, <2>6
<1> QED BY <1>0, <1>12, <1>13

LEMMA DirectWriteStep ==
  ASSUME IInv, DirectWrite
  PROVE  IInv' /\ \A g \in Files : Seen(g)' = Seen(g)
<1> DEFINE f == call.file
           t == call.todo
           e == EndOf(t[1])
           x == t[1].adr
           b == t[1].buf
           d == disk[f]
           m == page[f]
           s == size[f]
           fr == fresh[f]
           d2 == Written(d, x, b)
<1>1. /\ call.op = "write" /\ P = 0
      /\ disk' = [disk EXCEPT ![f] = Written(@, Head(t).adr, Head(t).buf)]
      /\ size' = [size EXCEPT ![f] = Larger(@, Head(t).adr + Len(Head(t).buf) - 1)]
      /\ call' = AfterPiece /\ UNCHANGED <<config, opened, page, fresh, got>>
  BY PageTerms DEF DirectWrite
<1>2. /\ f \in Files /\ s \in Nat /\ FileGood(P, f, d, m, s, fr)
      /\ Head(t) = t[1] /\ x \in Nat \ {0} /\ b \in Seq(Value(f)) /\ b # <<>>
      /\ e \in Nat /\ e = x + Len(b) - 1 /\ e <= MaxSize[f] /\ x <= s + 1 /\ x .. e \subseteq fr
  <2> HIDE DEF f, t
  <2>1. f = call.file /\ t = call.todo BY DEF f, t
  <2> QED BY <1>1, <2>1, WriteFacts
<1>3. disk = [g \in Files |-> disk[g]] /\ page = [g \in Files |-> page[g]] BY DEF IInv, Tables
<1>4. disk'[f] = d2 /\ (\A g \in Files \ {f} : disk'[g] = disk[g]) /\ disk' = [g \in Files |-> disk'[g]]
  <2>1. disk' = [disk EXCEPT ![f] = d2] BY <1>1, <1>2
  <2> HIDE DEF d2, f
  <2>2. disk' = [g \in Files |-> IF g = f THEN d2 ELSE disk[g]] BY <1>2, <1>3, <2>1
  <2> QED BY <1>2, <2>2
<1>5. size' = [size EXCEPT ![f] = Larger(@, e)] BY <1>1, <1>2
<1>6. Changed(P, f, d, m, s, fr, disk'[f], page'[f], x, e, b)
  <2>1. FileGood(0, f, d, m, s, fr) BY <1>1, <1>2
  <2> HIDE DEF f, t, e, x, b, d, m, s, fr
  <2>2. Changed(0, f, d, m, s, fr, Written(d, x, b), m, x, e, b) BY <1>2, <2>1, PutFile
  <2>3. page'[f] = m BY <1>1 DEF m
  <2> QED BY <1>1, <1>4, <2>2, <2>3 DEF d2
<1>7. \A g \in Files \ {f} :
        /\ Moved(P, g, disk[g], page[g], Size(g), fresh[g], disk'[g], page'[g])
        /\ g \notin opened => disk'[g] = disk[g] /\ page'[g] = page[g]
  <2> TAKE g \in Files \ {f}
  <2>1. disk'[g] = disk[g] /\ page'[g] = page[g] BY <1>1, <1>4
  <2>2. FileGood(P, g, disk[g], page[g], Size(g), fresh[g]) BY DEF IInv, FilesGood
  <2> QED BY <2>1, <2>2 DEF Moved
<1>8. FilesEven'
  <2>1. P' = 0 BY <1>1 DEF P
  <2> QED BY <2>1 DEF FilesEven
<1>9. Tabled(disk', page') BY <1>1, <1>3, <1>4 DEF Tabled
<1>10. f = call.file /\ t = call.todo /\ e = EndOf(t[1]) OBVIOUS
<1> HIDE DEF f, t, e
<1>11. PieceDone(f, t, e)
  BY <1>1, <1>5, <1>6, <1>7, <1>8, <1>9, <1>10 DEF x, b, d, m, s, fr, PieceDone
<1> QED BY <1>1, <1>11, PieceWritten

(* The sizes of a file and of its pages when a part of a write that ends   *)
(* at e, in page k, is stored there.                                       *)
EvenAfter(z, d, m, s, e) ==
  IF e % 2 = 0 THEN EvenFile(d, m, Larger(s, e))
  ELSE Larger(s, e) = e /\ OddFile(z, d, m, Larger(s, e))

EvenCase(z, d, m, s, e, k, m2, w) ==
  /\ s \in Nat /\ e \in Nat /\ w \in Nat /\ k = Number(z, e)
  /\ DOMAIN m2 = DOMAIN m \cup {k} /\ \A j \in DOMAIN m \ {k} : m2[j] = m[j]
  /\ m2[k].walast = Larger(w, e)
  /\ \/ EvenFile(d, m, s) /\ w % 2 = 0 /\ (e % 2 = 1 => e > s)
     \/ OddFile(z, d, m, s) /\ k = Number(z, s) /\ w <= s /\ s <= e /\ e % 2 = 0

LEMMA StoredEven ==
  ASSUME NEW z, NEW d, NEW m, NEW s, NEW e, NEW k, NEW m2, NEW w, EvenCase(z, d, m, s, e, k, m2, w)
  PROVE  EvenAfter(z, d, m2, s, e)
<1>0. /\ s \in Nat /\ e \in Nat /\ w \in Nat /\ k = Number(z, e)
      /\ DOMAIN m2 = DOMAIN m \cup {k} /\ \A j \in DOMAIN m \ {k} : m2[j] = m[j]
      /\ m2[k].walast = Larger(w, e)
      /\ \/ EvenFile(d, m, s) /\ w % 2 = 0 /\ (e % 2 = 1 => e > s)
         \/ OddFile(z, d, m, s) /\ k = Number(z, s) /\ w <= s /\ s <= e /\ e % 2 = 0
  BY DEF EvenCase
<1>1. \A j \in DOMAIN m2 : j = k \/ (j \in DOMAIN m \ {k} /\ m2[j] = m[j]) BY <1>0
<1>2. Len(d) % 2 = 0 /\ \A j \in DOMAIN m2 : j = k \/ m2[j].walast % 2 = 0
  BY <1>0, <1>1 DEF EvenFile, OddFile
<1>3. CASE e % 2 = 0
  <2>1. Larger(s, e) % 2 = 0 /\ Larger(w, e) % 2 = 0 BY <1>0, <1>3 DEF EvenFile, Larger
  <2> QED BY <1>0, <1>2, <1>3, <2>1 DEF EvenAfter, EvenFile
<1>4. CASE e % 2 # 0
  <2>1. e > s BY <1>0, <1>4
  <2>2. Larger(s, e) = e BY <1>0, <2>1 DEF Larger
  <2> QED BY <1>0, <1>2, <1>4, <2>2 DEF EvenAfter, OddFile
<1> QED BY <1>3, <1>4

LEMMA StillEven ==
  ASSUME IInv, call.op = "write", P # 0, P % 2 = 0, NEW f, f = call.file, NEW t, t = call.todo,
         NEW e, e = EndOf(t[1]),
         \A g \in Files \ {f} : Moved(P, g, disk[g], page[g], Size(g), fresh[g], disk'[g], page'[g]),
         EvenAfter(P, disk'[f], page'[f], size[f], e),
         size' = [size EXCEPT ![f] = Larger(@, e)], call' = AfterPiece, UNCHANGED <<config, opened>>
  PROVE  FilesEven'
<1>1. /\ f \in Files /\ f \in opened /\ call = [op |-> "write", file |-> f, todo |-> t]
      /\ TodoEven(size[f], t) /\ Len(t) \in Nat \ {0} /\ e \in Nat
  BY WriteFacts
<1>2. P' = P BY DEF P
<1>3. size'[f] = Larger(size[f], e) /\ \A g \in Files \ {f} : size'[g] = size[g]
  BY <1>1 DEF IInv, Tables
<1>4. ASSUME NEW g \in Files \ {f} PROVE EvenFile(disk'[g], page'[g], Size(g)')
  <2>1. ~Writing(g) BY DEF Writing
  <2>2. EvenFile(disk[g], page[g], Size(g)) BY <2>1 DEF IInv, FilesEven
  <2>3. EvenFile(disk'[g], page'[g], Size(g)) BY <2>2 DEF Moved
  <2>4. CASE g \in opened
    <3>1. Size(g)' = Size(g) BY <1>3, <2>4 DEF Size
    <3> QED BY <2>3, <3>1
  <2>5. CASE g \notin opened
    <3>1. Size(g)' = Len(disk'[g]) BY <2>5 DEF Size
    <3> QED BY <2>3, <3>1 DEF EvenFile
  <2> QED BY <2>4, <2>5
<1>5. Size(f)' = Larger(size[f], e) BY <1>1, <1>3 DEF Size
<1>6. CASE e % 2 = 0
  <2>1. EvenFile(disk'[f], page'[f], Size(f)') BY <1>5, <1>6 DEF EvenAfter
  <2> QED BY <1>4, <2>1 DEF FilesEven
<1>7. CASE e % 2 = 1
  <2>1. 1 \in 1 .. Len(t) BY <1>1
  <2>2. Len(t) # 1 BY <1>1, <1>7, <2>1 DEF TodoEven
  <2>3. call' = IF Len(t) = 1 THEN NoCall ELSE [op |-> "write", file |-> f, todo |-> Tail(t)]
    BY <1>1, AfterPieceIs
  <2>4. Writing(f)' BY <2>2, <2>3 DEF Writing
  <2>5. size'[f] % 2 = 1 /\ OddFile(P, disk'[f], page'[f], size'[f]) BY <1>3, <1>7 DEF EvenAfter
  <2> QED BY <1>2, <1>4, <2>4, <2>5 DEF FilesEven
<1> QED BY <1>1, <1>6, <1>7

(* The page that the part of a write is in.                                *)
LEMMA PageOfWrite ==
  ASSUME IInv, DoubleWords, call.op = "write", P # 0, NEW f, f = call.file, NEW t, t = call.todo,
         NEW e, e = EndOf(t[1]), NEW x, x = t[1].adr, NEW k, k = Number(P, x)
  PROVE  /\ P \in Nat \ {0} /\ P % 2 = 0 /\ k \in Nat /\ x \in Span(P, k) /\ e \in Span(P, k)
         /\ k = Number(P, e) /\ k = NewNumber(x) /\ x % 2 = 1
<1>1. P \in Nat \ {0} /\ P % 2 = 0 BY PageSize DEF IInv, Tables
<1>2. /\ x \in Nat \ {0} /\ e \in Nat /\ x <= e /\ InOnePage(P, x, e) /\ TodoEven(size[f], t)
      /\ Len(t) \in Nat \ {0}
  BY WriteFacts
<1>3. x % 2 = 1
  <2>1. 1 \in 1 .. Len(t) BY <1>2
  <2> QED BY <1>2, <2>1 DEF TodoEven
<1>4. k \in Nat /\ x \in Span(P, k) BY <1>1, <1>2, InItsPage
<1>5. e <= Highest(P, k) BY <1>2 DEF InOnePage
<1>6. Lowest(P, k) \in Nat /\ Highest(P, k) \in Nat BY <1>1, <1>4, PageEnds
<1>7. e \in Span(P, k) BY <1>2, <1>4, <1>5, <1>6 DEF Span
<1>8. Number(P, e) = k BY <1>1, <1>4, <1>7, PageUnique
<1>9. x \div P = Number(P, x) BY <1>1, <1>2, <1>3, NumberOfOdd
<1> QED BY <1>1, <1>3, <1>4, <1>7, <1>8, <1>9 DEF NewNumber, P

(* A page that comes into memory for words x .. e to be written there.     *)
OldGood(f, d, k, x, e, old) ==
  /\ old \in [data : [Span(P, k) -> Value(f)], walast : 0 .. MaxSize[f], touched : BOOLEAN]
  /\ ~old.touched /\ old.walast <= size[f] /\ old.walast <= Highest(P, k)
  /\ \A a \in Span(P, k) \ (x .. e) : a <= size[f] => a <= Len(d) /\ old.data[a] = d[a]
  /\ Len(d) % 2 = 0 => old.walast % 2 = 0

LEMMA PageIsRead ==
  ASSUME P \in Nat \ {0}, P % 2 = 0, NEW f \in Files, NEW d, NEW m, NEW fr, FileGood(P, f, d, m, size[f], fr),
         NEW k \in Nat, CanRead(d, k, f), NEW x, NEW e
  PROVE  OldGood(f, d, k, x, e, PageRead(d, k))
<1>1. /\ d \in Seq(Value(f)) /\ Len(d) \in Nat /\ size[f] \in Nat /\ Len(d) <= size[f]
      /\ size[f] <= MaxSize[f] /\ MaxSize[f] \in Nat /\ Zero \in Value(f)
  BY ValueIs DEF FileGood
<1>2. Lowest(P, k) \in Nat \ {0} /\ Highest(P, k) \in Nat /\ Highest(P, k) % 2 = 0
  BY PageEnds, EvenPages
<1> DEFINE w == Smaller(Len(d), Highest(P, k))
           v == [a \in Span(P, k) |-> IF a <= Len(d) THEN d[a] ELSE Zero]
<1>3. PageRead(d, k) = [data |-> v, walast |-> w, touched |-> FALSE]
  BY PageTerms DEF PageRead, Span
<1>4. /\ w \in Nat /\ w <= size[f] /\ w <= MaxSize[f] /\ w <= Highest(P, k)
      /\ Len(d) % 2 = 0 => w % 2 = 0
  BY <1>1, <1>2 DEF Smaller
<1>5. v \in [Span(P, k) -> Value(f)]
  <2>1. ASSUME NEW a \in Span(P, k), a <= Len(d) PROVE d[a] \in Value(f)
    <3>1. a \in 1 .. Len(d) BY <1>1, <1>2, <2>1 DEF Span
    <3> QED BY <1>1, <3>1
  <2> QED BY <1>1, <2>1
<1>6. \A a \in Span(P, k) : a <= size[f] => a <= Len(d) /\ v[a] = d[a]
  <2> TAKE a \in Span(P, k)
  <2>1. Len(d) >= Smaller(size[f], Highest(P, k)) BY PageTerms DEF CanRead
  <2>2. a <= Highest(P, k) /\ a \in Nat BY <1>2 DEF Span
  <2>3. a <= size[f] => a <= Len(d) BY <1>1, <1>2, <2>1, <2>2 DEF Smaller
  <2> QED BY <2>3
<1> HIDE DEF v, w
<1> QED BY <1>1, <1>3, <1>4, <1>5, <1>6 DEF OldGood

LEMMA PageIsNotRead ==
  ASSUME IInv, P \in Nat \ {0}, NEW f \in Files, NEW d, NEW k \in Nat, NEW x \in Span(P, k), NEW e \in Span(P, k),
         NEW n, e = x + n - 1, n \in Nat, ~MustRead(x, n, k, f), size[f] % 2 = 0, e % 2 = 1 => e > size[f]
  PROVE  OldGood(f, d, k, x, e, PageNotRead(k))
<1>1. Lowest(P, k) \in Nat \ {0} /\ Highest(P, k) \in Nat /\ Highest(P, k) = Lowest(P, k) + P - 1
  BY PageEnds
<1>2. size[f] \in Nat /\ MaxSize[f] \in Nat /\ Junk \in Value(f) BY ValueIs DEF IInv, Tables
<1>3. x \in Nat /\ e \in Nat /\ Lowest(P, k) <= x /\ e <= Highest(P, k) BY <1>1 DEF Span
<1>4. /\ ~(x > Lowest(P, k))
      /\ x + n = Lowest(P, k) + P \/ ~(x + n < size[f])
  BY PageTerms DEF MustRead, P
<1>5. x = Lowest(P, k) BY <1>1, <1>3, <1>4
<1>6. ASSUME NEW a \in Span(P, k) \ (x .. e), a <= size[f] PROVE FALSE
  <2>1. a \in Nat /\ Lowest(P, k) <= a /\ a <= Highest(P, k) BY <1>1 DEF Span
  <2>2. a > e BY <1>3, <1>5, <2>1
  <2>3. ~(x + n = Lowest(P, k) + P) BY <1>1, <1>3, <1>5, <2>1, <2>2
  <2>4. x + n >= size[f] BY <1>2, <1>3, <1>4, <2>3
  <2>5. size[f] = e + 1 BY <1>2, <1>3, <1>6, <2>1, <2>2, <2>4
  <2>6. e % 2 = 1 BY <1>3, <2>5
  <2> QED BY <1>2, <1>3, <2>5, <2>6
<1> DEFINE v == [a \in Span(P, k) |-> Junk]
<1>7. PageNotRead(k) = [data |-> v, walast |-> 0, touched |-> FALSE] BY PageTerms DEF PageNotRead, Span
<1>8. v \in [Span(P, k) -> Value(f)] BY <1>2
<1> HIDE DEF v
<1> QED BY <1>1, <1>2, <1>6, <1>7, <1>8 DEF OldGood

(* The part of a write is stored in page k, over what the page held.       *)
PagePut(f, t, e, x, k, b, d1, m1, old, m2) ==
  /\ f = call.file /\ t = call.todo /\ e = EndOf(t[1]) /\ x = t[1].adr /\ k = Number(P, x) /\ b = t[1].buf
  /\ Moved(P, f, disk[f], page[f], size[f], fresh[f], d1, m1)
  /\ EvenFile(d1, m1, size[f]) \/ (size[f] % 2 = 1 /\ OddFile(P, d1, m1, size[f]))
  /\ k \in DOMAIN m1 => old = m1[k]
  /\ k \notin DOMAIN m1 => OldGood(f, d1, k, x, e, old)
  /\ Tabled(disk', page') /\ disk'[f] = d1 /\ page'[f] = m2
  /\ DOMAIN m2 = DOMAIN m1 \cup {k} /\ \A j \in DOMAIN m1 \ {k} : m2[j] = m1[j]
  /\ m2[k] = Stored(old, x, b)
  /\ \A g \in Files \ {f} :
       /\ Moved(P, g, disk[g], page[g], Size(g), fresh[g], disk'[g], page'[g])
       /\ g \notin opened => disk'[g] = disk[g] /\ page'[g] = page[g]
  /\ size' = [size EXCEPT ![f] = Larger(@, e)] /\ call' = AfterPiece
  /\ UNCHANGED <<config, opened, fresh, got>>

LEMMA PageStored ==
  ASSUME IInv, DoubleWords, call.op = "write", P # 0,
         NEW f, NEW t, NEW e, NEW x, NEW k, NEW b, NEW d1, NEW m1, NEW old, NEW m2,
         PagePut(f, t, e, x, k, b, d1, m1, old, m2)
  PROVE  IInv' /\ \A g \in Files : Seen(g)' = Seen(g)
<1> DEFINE s == size[f]
           fr == fresh[f]
           w == old.walast
<1>0. /\ f = call.file /\ t = call.todo /\ e = EndOf(t[1]) /\ x = t[1].adr /\ k = Number(P, x) /\ b = t[1].buf
      /\ Moved(P, f, disk[f], page[f], size[f], fresh[f], d1, m1)
      /\ EvenFile(d1, m1, size[f]) \/ (size[f] % 2 = 1 /\ OddFile(P, d1, m1, size[f]))
      /\ k \in DOMAIN m1 => old = m1[k]
      /\ k \notin DOMAIN m1 => OldGood(f, d1, k, x, e, old)
      /\ Tabled(disk', page') /\ disk'[f] = d1 /\ page'[f] = m2
      /\ DOMAIN m2 = DOMAIN m1 \cup {k} /\ \A j \in DOMAIN m1 \ {k} : m2[j] = m1[j]
      /\ m2[k] = Stored(old, x, b)
      /\ \A g \in Files \ {f} :
           /\ Moved(P, g, disk[g], page[g], Size(g), fresh[g], disk'[g], page'[g])
           /\ g \notin opened => disk'[g] = disk[g] /\ page'[g] = page[g]
      /\ size' = [size EXCEPT ![f] = Larger(@, e)] /\ call' = AfterPiece
      /\ UNCHANGED <<config, opened, fresh, got>>
  BY DEF PagePut
<1>1. /\ f \in Files /\ s \in Nat /\ x \in Nat \ {0} /\ b \in Seq(Value(f)) /\ e \in Nat
      /\ e = x + Len(b) - 1 /\ e <= MaxSize[f] /\ x <= s + 1 /\ x .. e \subseteq fr /\ x <= e
      /\ TodoEven(s, t) /\ 1 \in 1 .. Len(t)
  BY <1>0, WriteFacts
<1>2. /\ P \in Nat \ {0} /\ P % 2 = 0 /\ k \in Nat /\ x \in Span(P, k) /\ e \in Span(P, k)
      /\ k = Number(P, e)
  BY <1>0, PageOfWrite
<1>3. FileGood(P, f, d1, m1, s, fr) BY <1>0 DEF Moved
<1>4. /\ old \in [data : [Span(P, k) -> Value(f)], walast : 0 .. MaxSize[f], touched : BOOLEAN]
      /\ w \in Nat /\ w <= s
      /\ k \notin DOMAIN m1 =>
           /\ ~old.touched /\ old.walast <= s /\ old.walast <= Highest(P, k)
           /\ \A a \in Span(P, k) \ (x .. e) : a <= s => a <= Len(d1) /\ old.data[a] = d1[a]
  <2>1. CASE k \in DOMAIN m1
    <3>1. PageGood(P, f, d1, s, k, old) BY <1>0, <1>3, <2>1 DEF FileGood
    <3> QED BY <1>1, <2>1, <3>1, ValueIs DEF PageGood
  <2>2. CASE k \notin DOMAIN m1 BY <1>0, <1>1, <2>2, ValueIs DEF OldGood
  <2> QED BY <1>0, <2>1, <2>2
<1>5. Changed(P, f, d1, m1, s, fr, d1, m2, x, e, b)
  <2>1. /\ P \in Nat \ {0} /\ f \in Files /\ FileGood(P, f, d1, m1, s, fr) /\ k \in Nat
        /\ x \in Span(P, k) /\ b \in Seq(Value(f)) /\ e \in Span(P, k)
        /\ e = x + Len(b) - 1 /\ x <= s + 1 /\ e <= MaxSize[f] /\ x .. e \subseteq fr /\ x <= e
    BY <1>0, <1>1, <1>2, <1>3
  <2>2. /\ DOMAIN m2 = DOMAIN m1 \cup {k} /\ \A j \in DOMAIN m1 \ {k} : m2[j] = m1[j]
        /\ m2[k] = Stored(old, x, b) /\ (k \in DOMAIN m1 => old = m1[k])
    BY <1>0
  <2>3. StoreCase(P, f, d1, m1, s, fr, k, x, e, b, old, m2) BY <1>4, <2>1, <2>2 DEF StoreCase
  <2> HIDE DEF s, fr
  <2> QED BY <1>0, <2>3, StoreFileCase
<1>6. Changed(P, f, disk[f], page[f], s, fr, disk'[f], page'[f], x, e, b)
  <2> DEFINE d == disk[f]
             m == page[f]
  <2>1. Moved(P, f, d, m, s, fr, d1, m1) BY <1>0
  <2> HIDE DEF s, fr, d, m
  <2>2. Changed(P, f, d, m, s, fr, d1, m2, x, e, b) BY <1>0, <1>1, <1>5, <2>1, MovedThenChanged
  <2> QED BY <1>0, <2>2 DEF d, m
<1>7. EvenAfter(P, disk'[f], page'[f], s, e)
  <2>1. e % 2 = 1 => e > s BY <1>0, <1>1 DEF TodoEven
  <2>2. m2[k].walast = Larger(w, e) BY <1>0, <1>1 DEF Stored
  <2>3. CASE EvenFile(d1, m1, s)
    <3>1. w % 2 = 0 BY <1>0, <2>3 DEF EvenFile, OldGood
    <3>2. EvenCase(P, d1, m1, s, e, k, m2, w)
      BY <1>0, <1>1, <1>2, <1>4, <2>1, <2>2, <2>3, <3>1 DEF EvenCase
    <3> HIDE DEF s, w
    <3> QED BY <1>0, <3>2, StoredEven
  <2>4. CASE s % 2 = 1 /\ OddFile(P, d1, m1, s)
    <3>1. s = x /\ e % 2 = 0 BY <1>0, <1>1, <2>4 DEF TodoEven
    <3>2. k = Number(P, s) /\ s <= e BY <1>0, <1>1, <3>1
    <3>3. EvenCase(P, d1, m1, s, e, k, m2, w)
      BY <1>0, <1>1, <1>2, <1>4, <2>2, <2>4, <3>1, <3>2 DEF EvenCase
    <3> HIDE DEF s, w
    <3> QED BY <1>0, <3>3, StoredEven
  <2> QED BY <1>0, <2>3, <2>4
<1>8. FilesEven' BY <1>0, <1>2, <1>7, StillEven
<1>9. PieceDone(f, t, e) BY <1>0, <1>6, <1>8 DEF PieceDone
<1> QED BY <1>0, <1>9, PieceWritten

LEMMA WaPageWriteStep ==
  ASSUME IInv, DoubleWords, WaPageWrite
  PROVE  IInv' /\ \A g \in Files : Seen(g)' = Seen(g)
<1> DEFINE f == call.file
           t == call.todo
           e == EndOf(t[1])
           x == t[1].adr
           b == t[1].buf
           k == Number(P, x)
           s == size[f]
<1>1. call.op = "write" /\ P # 0 BY PageTerms DEF WaPageWrite
<1>2. f = call.file /\ t = call.todo /\ e = EndOf(t[1]) /\ x = t[1].adr /\ b = t[1].buf /\ k = Number(P, x)
  OBVIOUS
<1> HIDE DEF f, t, e, x, b, k
<1>3. /\ f \in Files /\ f \in opened /\ s \in Nat /\ FileGood(P, f, disk[f], page[f], s, fresh[f])
      /\ TodoEven(s, t) /\ Head(t) = t[1] /\ e = x + Len(b) - 1 /\ Len(t) \in Nat \ {0} /\ Len(b) \in Nat
      /\ Size(f) = s
  BY <1>1, <1>2, WriteFacts
<1>4. /\ P \in Nat \ {0} /\ P % 2 = 0 /\ k \in Nat /\ x \in Span(P, k) /\ e \in Span(P, k)
      /\ k = Number(P, e) /\ k = NewNumber(x) /\ x % 2 = 1
  BY <1>1, <1>2, PageOfWrite
<1>5. PageOf(x) = k BY <1>2, PageTerms
<1>6. Tables /\ FilesGood /\ ClosedFiles BY DEF IInv
<1>7. size' = [size EXCEPT ![f] = Larger(@, e)] /\ call' = AfterPiece /\ UNCHANGED <<config, opened, fresh, got>>
  BY <1>2, <1>3 DEF WaPageWrite
<1>8. CASE k \in DOMAIN page[f]
  <2> DEFINE d == disk[f]
             m == page[f]
             old == m[k]
             m2 == page'[f]
  <2>1. disk' = disk /\ page' = [page EXCEPT ![f][k] = Stored(@, x, b)]
    BY <1>2, <1>3, <1>5, <1>8 DEF WaPageWrite, InMemory
  <2>2. page = [g \in Files |-> page[g]] /\ disk = [g \in Files |-> disk[g]] BY <1>6 DEF Tables
  <2>3. m2 = [m EXCEPT ![k] = Stored(m[k], x, b)] /\ \A g \in Files \ {f} : page'[g] = page[g]
    BY <1>3, <2>1, <2>2
  <2>4. Tabled(disk', page')
    <3>1. page' = [g \in Files |-> page'[g]] BY <2>1, <2>2
    <3> QED BY <2>1, <2>2, <3>1 DEF Tabled
  <2>5. DOMAIN m2 = DOMAIN m \cup {k} /\ \A j \in DOMAIN m \ {k} : m2[j] = m[j]
    BY <1>8, <2>3
  <2>6. m2[k] = Stored(old, x, b) BY <1>8, <2>3
  <2>7. Moved(P, f, d, m, s, fresh[f], d, m) BY <1>3 DEF Moved
  <2>8. EvenFile(d, m, s) \/ (s % 2 = 1 /\ OddFile(P, d, m, s)) BY <1>1, <1>3 DEF IInv, FilesEven
  <2>9. \A g \in Files \ {f} :
          /\ Moved(P, g, disk[g], page[g], Size(g), fresh[g], disk'[g], page'[g])
          /\ g \notin opened => disk'[g] = disk[g] /\ page'[g] = page[g]
    BY <1>6, <2>1, <2>3 DEF FilesGood, Moved
  <2>10. PagePut(f, t, e, x, k, b, d, m, old, m2)
    BY <1>2, <1>7, <1>8, <2>1, <2>4, <2>5, <2>6, <2>7, <2>8, <2>9 DEF PagePut
  <2> HIDE DEF d, m, old, m2
  <2> QED BY <1>1, <2>10, PageStored
<1>9. CASE k \notin DOMAIN page[f]
  <2>1. PICK room \in GetNewPage(f) :
          /\ k \notin DOMAIN room.page[f]
          /\ MustRead(x, Len(b), k, f) => CanRead(room.disk[f], k, f)
          /\ page' = [room.page EXCEPT ![f] =
                        WithPage(@, k, Stored(IF MustRead(x, Len(b), k, f) THEN PageRead(room.disk[f], k)
                                              ELSE PageNotRead(k), x, b))]
          /\ disk' = room.disk
    BY <1>2, <1>3, <1>4, <1>5, <1>9 DEF WaPageWrite, InMemory
  <2> DEFINE d == room.disk[f]
             m == room.page[f]
             old == IF MustRead(x, Len(b), k, f) THEN PageRead(d, k) ELSE PageNotRead(k)
             m2 == page'[f]
  <2>2. Tabled(room.disk, room.page) /\ Stays(room.disk, room.page) BY <1>1, <1>3, <1>6, RoomIs
  <2>3. m2 = WithPage(m, k, Stored(old, x, b)) /\ \A g \in Files \ {f} : page'[g] = room.page[g]
    BY <1>3, <2>1, <2>2 DEF Tabled
  <2>4. Tabled(disk', page')
    <3>1. page' = [g \in Files |-> page'[g]] BY <2>1, <2>2 DEF Tabled
    <3> QED BY <2>1, <2>2, <3>1 DEF Tabled
  <2>5. Moved(P, f, disk[f], page[f], s, fresh[f], d, m) BY <1>3, <2>2 DEF Stays
  <2>6. EvenFile(disk[f], page[f], s)
    <3> SUFFICES ASSUME s % 2 = 1, OddFile(P, disk[f], page[f], s) PROVE FALSE
      BY <1>1, <1>3 DEF IInv, FilesEven
    <3>1. s = x BY <1>2, <1>3 DEF TodoEven
    <3> QED BY <1>2, <1>9, <3>1 DEF OddFile
  <2>7. EvenFile(d, m, s) BY <1>4, <2>5, <2>6 DEF Moved
  <2>8. OldGood(f, d, k, x, e, old)
    <3>1. CASE MustRead(x, Len(b), k, f)
      <4>1. FileGood(P, f, d, m, s, fresh[f]) BY <2>5 DEF Moved
      <4>2. CanRead(d, k, f) BY <2>1, <3>1
      <4> HIDE DEF d, m
      <4>3. OldGood(f, d, k, x, e, PageRead(d, k)) BY <1>3, <1>4, <4>1, <4>2, PageIsRead
      <4> QED BY <3>1, <4>3
    <3>2. CASE ~MustRead(x, Len(b), k, f)
      <4>1. s % 2 = 0 BY <2>6 DEF EvenFile
      <4>2. e % 2 = 1 => e > s
        <5>1. 1 \in 1 .. Len(t) BY <1>3
        <5> QED BY <1>2, <1>3, <5>1 DEF TodoEven
      <4> HIDE DEF d, m
      <4>3. OldGood(f, d, k, x, e, PageNotRead(k)) BY <1>3, <1>4, <3>2, <4>1, <4>2, PageIsNotRead
      <4> QED BY <3>2, <4>3
    <3> QED BY <3>1, <3>2
  <2>9. \A g \in Files \ {f} :
          /\ Moved(P, g, disk[g], page[g], Size(g), fresh[g], disk'[g], page'[g])
          /\ g \notin opened => disk'[g] = disk[g] /\ page'[g] = page[g]
    BY <2>1, <2>2, <2>3 DEF Stays
  <2>10. DOMAIN m2 = DOMAIN m \cup {k} /\ (\A j \in DOMAIN m \ {k} : m2[j] = m[j]) /\ m2[k] = Stored(old, x, b)
    <3> HIDE DEF m, old, m2
    <3> QED BY <2>3 DEF WithPage
  <2>11. k \notin DOMAIN m /\ disk'[f] = d BY <2>1
  <2> HIDE DEF d, m, old, m2
  <2>12. page'[f] = m2 BY DEF m2
  <2>13. PagePut(f, t, e, x, k, b, d, m, old, m2)
    BY <1>2, <1>7, <2>4, <2>5, <2>7, <2>8, <2>9, <2>10, <2>11, <2>12 DEF PagePut
  <2> QED BY <1>1, <2>13, PageStored
<1> QED BY <1>8, <1>9

---------------------------------------------------------------------------
(* Reading and closing *)

(* What the program sees when no write is in course.                       *)
LEMMA NoWrite ==
  ASSUME IInv, NEW f \in Files, ~Writing(f)
  PROVE  /\ Size(f) \in Nat /\ Seen(f) = HeldWords(P, disk[f], page[f], Size(f))
         /\ Seen(f) \in Seq({Seen(f)[a] : a \in 1 .. Size(f)}) /\ Len(Seen(f)) = Size(f)
         /\ \A a \in 1 .. Size(f) : Seen(f)[a] = HeldIn(P, disk[f], page[f], a)
         /\ P # 0 => EvenFile(disk[f], page[f], Size(f))
<1> DEFINE n == Size(f)
           h == HeldWords(P, disk[f], page[f], n)
<1>1. n \in Nat BY SizeIs DEF IInv
<1>2. Todo(f) = <<>> BY DEF Todo, Writing
<1>3. Seen(f) = Over(n, h, <<>>) BY <1>2, SeenNow DEF SeenRight, SeenAs
<1>4. h = [a \in 1 .. n |-> HeldIn(P, disk[f], page[f], a)] BY DEF HeldWords
<1> HIDE DEF n
<1>5. Seen(f) = [a \in 1 .. n |-> h[a]]
  <2> HIDE DEF h
  <2> QED BY <1>1, <1>3, OverNothing
<1>6. Seen(f) = h /\ \A a \in 1 .. n : Seen(f)[a] = HeldIn(P, disk[f], page[f], a) BY <1>4, <1>5
<1>7. Seen(f) \in Seq({Seen(f)[a] : a \in 1 .. n}) /\ Len(Seen(f)) = n
  <2> DEFINE v == Seen(f)
             S == {v[a] : a \in 1 .. n}
  <2>1. v = [a \in 1 .. n |-> v[a]] BY <1>5
  <2> HIDE DEF v
  <2>2. v \in [1 .. n -> S] BY <2>1
  <2> HIDE DEF S
  <2>3. v \in Seq(S) /\ Len(v) = n BY <1>1, <2>2, FunctionIsSeq
  <2> QED BY <2>3 DEF v, S
<1>8. P # 0 => EvenFile(disk[f], page[f], n) BY DEF IInv, FilesEven, n
<1> QED BY <1>1, <1>6, <1>7, <1>8 DEF n, h

LEMMA QuietEven ==
  ASSUME IInv, call.op # "write", DoubleWords, Stays(disk', page'), UNCHANGED <<config, opened, size, fresh>>
  PROVE  FilesEven'
<1> SUFFICES ASSUME P' # 0, NEW f \in Files PROVE EvenFile(disk'[f], page'[f], Size(f)')
  BY DEF FilesEven
<1>1. P' = P /\ P % 2 = 0 BY PageSize DEF P, IInv, Tables
<1>2. EvenFile(disk[f], page[f], Size(f)) BY <1>1, NoWrite DEF Writing
<1>3. EvenFile(disk'[f], page'[f], Size(f)) BY <1>1, <1>2 DEF Stays, Moved
<1>4. Size(f)' = Size(f) BY DEF Stays, Size
<1> QED BY <1>3, <1>4

LEMMA SameWords ==
  ASSUME \A g \in Files : Seen(g)' = Seen(g)
  PROVE  [g \in Files |-> Seen(g)'] = [g \in Files |-> Seen(g)]
OBVIOUS

(* The rest of a read, when its first part is done.                        *)
LEMMA TailRead ==
  ASSUME NEW z, NEW s \in Nat, NEW c, ReadGood(z, s, c), Len(c.todo) # 1, NEW w, Len(c.words \o w) = Len(c.words) + c.todo[1].n,
         NEW c2, c2.todo = Tail(c.todo), c2.adr = c.adr, c2.words = c.words \o w
  PROVE  ReadGood(z, s, c2)
<1> DEFINE t == c.todo
           u == Tail(t)
<1>1. /\ t \in Seq(ReadRequest) /\ t # <<>> /\ Len(t) \in Nat \ {0} /\ DOMAIN t = 1 .. Len(t)
      /\ u \in Seq(ReadRequest) /\ Len(u) = Len(t) - 1 /\ DOMAIN u = 1 .. Len(u)
      /\ Len(u) \in Nat \ {0} /\ u # <<>>
      /\ \A i \in 1 .. Len(u) : u[i] = t[i + 1] /\ i + 1 \in 1 .. Len(t)
  <2>1. t \in Seq(ReadRequest) /\ t # <<>> /\ Len(t) # 1 BY DEF ReadGood
  <2> HIDE DEF t
  <2>2. Len(t) \in Nat \ {0} /\ DOMAIN t = 1 .. Len(t) BY <2>1
  <2>3. u \in Seq(ReadRequest) /\ Len(u) = Len(t) - 1 /\ \A i \in 1 .. Len(u) : u[i] = t[i + 1]
    BY <2>1, <2>2
  <2> HIDE DEF u
  <2>4. Len(u) \in Nat \ {0} /\ DOMAIN u = 1 .. Len(u) BY <2>1, <2>2, <2>3
  <2> QED BY <2>1, <2>2, <2>3, <2>4
<1>2. c2.todo = u OBVIOUS
<1>3. /\ c.adr \in Starts /\ c.adr + Len(c.words) = t[1].adr /\ Len(c.words) \in Nat
      /\ \A i \in 1 .. Len(t) :
           /\ InOnePage(z, t[i].adr, t[i].adr + t[i].n - 1)
           /\ t[i].adr + t[i].n - 1 <= s
           /\ z # 0 => t[i].adr % 2 = 1
      /\ \A i \in 1 .. Len(t) - 1 : t[i + 1].adr = t[i].adr + t[i].n
      /\ \E n \in Lengths : t[Len(t)].adr + t[Len(t)].n - 1 = Smaller(c.adr + n - 1, s)
  BY DEF ReadGood
<1> HIDE DEF t, u
<1>4. u[Len(u)] = t[Len(t)] /\ 1 \in 1 .. Len(t) - 1 /\ 1 \in 1 .. Len(u) /\ 1 \in 1 .. Len(t) /\ u[1] = t[1 + 1]
  BY <1>1
<1>5. c2.adr + Len(c2.words) = u[1].adr /\ Len(c2.words) \in Nat
  <2>1. t[1] \in ReadRequest BY <1>1, <1>4
  <2>2. t[1].n \in Nat BY <2>1 DEF ReadRequest
  <2>3. t[1 + 1].adr = t[1].adr + t[1].n BY <1>3, <1>4
  <2>4. c.adr \in Nat BY <1>3, WordFileAssumption DEF WordFileAssumption
  <2>5. Len(c2.words) = Len(c.words) + t[1].n /\ Len(c.words) \in Nat BY <1>3 DEF t
  <2>6. u[1].adr = t[1].adr + t[1].n BY <1>4, <2>3
  <2> QED BY <1>3, <2>2, <2>4, <2>5, <2>6
<1>6. \A i \in 1 .. Len(u) :
       /\ InOnePage(z, u[i].adr, u[i].adr + u[i].n - 1)
       /\ u[i].adr + u[i].n - 1 <= s
       /\ z # 0 => u[i].adr % 2 = 1
  BY <1>1, <1>3
<1>7. \A i \in 1 .. Len(u) - 1 : u[i + 1].adr = u[i].adr + u[i].n
  <2> TAKE i \in 1 .. Len(u) - 1
  <2>1. i \in 1 .. Len(u) /\ i + 1 \in 1 .. Len(u) /\ i + 1 \in 1 .. Len(t) - 1 BY <1>1
  <2> QED BY <1>1, <1>3, <2>1
<1> QED BY <1>1, <1>2, <1>3, <1>4, <1>5, <1>6, <1>7 DEF ReadGood

Implemented == A!Next \/ UNCHANGED A!vars

LEMMA Stutter ==
  ASSUME \A g \in Files : Seen(g)' = Seen(g), UNCHANGED <<opened, fresh, got>>
  PROVE  Implemented
BY SameWords DEF Implemented, A!vars

ReadIs(f, t, x, n, s, v, adr, ws) ==
  /\ x = t[1].adr /\ n = t[1].n /\ s = size[f] /\ v = Seen(f)
  /\ f \in Files /\ f \in opened /\ Size(f) = s /\ s \in Nat /\ ~Writing(f)
  /\ call = [op |-> "read", file |-> f, adr |-> adr, words |-> ws, todo |-> t]
  /\ ReadGood(P, s, call)
  /\ ws = SubSeq(v, adr, adr + Len(ws) - 1)
  /\ adr \in Nat \ {0} /\ adr \in Starts /\ Len(ws) \in Nat /\ adr + Len(ws) = x
  /\ Head(t) = t[1] /\ Len(t) \in Nat \ {0} /\ x \in Nat \ {0} /\ n \in Nat \ {0}
  /\ x + n - 1 <= s /\ InOnePage(P, x, x + n - 1) /\ (P # 0 => x % 2 = 1)
  /\ FileGood(P, f, disk[f], page[f], s, fresh[f])

LEMMA ReadFacts ==
  ASSUME IInv, call.op = "read"
  PROVE  ReadIs(call.file, call.todo, call.todo[1].adr, call.todo[1].n, size[call.file], Seen(call.file),
                call.adr, call.words)
<1> DEFINE f == call.file
           t == call.todo
           x == t[1].adr
           n == t[1].n
<1>1. /\ f \in opened
      /\ call = [op |-> "read", file |-> f, adr |-> call.adr, words |-> call.words, todo |-> t]
      /\ ReadGood(P, size[f], call)
      /\ call.words = SubSeq(Seen(f), call.adr, call.adr + Len(call.words) - 1)
  BY DEF IInv, CallGood, NoCall
<1>2. f \in Files /\ Size(f) = size[f] /\ size[f] \in Nat BY <1>1 DEF IInv, Tables, Size
<1>3. FileGood(P, f, disk[f], page[f], size[f], fresh[f]) BY <1>2 DEF IInv, FilesGood
<1>4. /\ t \in Seq(ReadRequest) /\ t # <<>> /\ call.adr \in Starts /\ Len(call.words) \in Nat
      /\ call.adr + Len(call.words) = t[1].adr
      /\ \A i \in 1 .. Len(t) :
           /\ InOnePage(P, t[i].adr, t[i].adr + t[i].n - 1)
           /\ t[i].adr + t[i].n - 1 <= size[f]
           /\ P # 0 => t[i].adr % 2 = 1
  BY <1>1 DEF ReadGood
<1>5. Len(t) \in Nat \ {0} /\ Head(t) = t[1] /\ 1 \in 1 .. Len(t) BY <1>4
<1>6. t[1] \in ReadRequest BY <1>4, <1>5
<1>7. x \in Nat \ {0} /\ n \in Nat \ {0} BY <1>6 DEF ReadRequest
<1>8. call.adr \in Nat \ {0} BY <1>4, WordFileAssumption DEF WordFileAssumption
<1> QED BY <1>1, <1>2, <1>3, <1>4, <1>5, <1>7, <1>8 DEF Writing, ReadIs

(* A part of a read that delivers what the program should see.             *)
LEMMA PieceRead ==
  ASSUME IInv, DoubleWords, call.op = "read", Tabled(disk', page'), Stays(disk', page'),
         NEW f, NEW t, NEW x, NEW n, NEW s, NEW v, NEW adr, NEW ws, ReadIs(f, t, x, n, s, v, adr, ws),
         NEW w, w = SubSeq(v, x, x + n - 1), Delivered(w)
  PROVE  IInv' /\ Implemented
<1>1. /\ x = t[1].adr /\ n = t[1].n /\ s = size[f] /\ v = Seen(f)
      /\ f \in Files /\ f \in opened /\ Size(f) = s /\ s \in Nat
      /\ call = [op |-> "read", file |-> f, adr |-> adr, words |-> ws, todo |-> t]
      /\ ReadGood(P, s, call)
      /\ ws = SubSeq(v, adr, adr + Len(ws) - 1)
      /\ adr \in Nat \ {0} /\ adr \in Starts /\ Len(ws) \in Nat
      /\ adr + Len(ws) = x
      /\ Len(t) \in Nat \ {0} /\ x \in Nat \ {0} /\ n \in Nat \ {0}
      /\ x + n - 1 <= s /\ ~Writing(f)
  BY DEF ReadIs
<1>0. /\ adr \in Nat \ {0} /\ Len(ws) \in Nat /\ adr + Len(ws) = x /\ n \in Nat \ {0} /\ s \in Nat
      /\ x \in Nat \ {0} /\ x + n - 1 <= s
  BY <1>1
<1>2. v \in Seq({v[a] : a \in 1 .. s}) /\ Len(v) = s BY <1>1, NoWrite
<1>3. UNCHANGED <<config, opened, size, fresh>> BY DEF Delivered
<1>4. Tables' /\ FilesGood' /\ ClosedFiles' BY <1>3, QuietStep
<1>5. FilesEven' BY <1>1, <1>3, QuietEven
<1>6. ws \o w = SubSeq(v, adr, x + n - 1) /\ Len(ws \o w) = Len(ws) + n
  <2> DEFINE S == {v[a] : a \in 1 .. s}
             k == x - 1
             e == x + n - 1
  <2>1. v \in Seq(S) BY <1>2
  <2>2. /\ adr \in 1 .. Len(v) + 1 /\ k \in adr - 1 .. Len(v) /\ e \in k .. Len(v) /\ k + 1 = x
        /\ adr + Len(ws) - 1 = k /\ e = adr + (Len(ws) + n) - 1
    <3>1. /\ adr \in Nat \ {0} /\ Len(ws) \in Nat /\ adr + Len(ws) = x /\ n \in Nat \ {0} /\ s \in Nat
          /\ x \in Nat /\ x + n - 1 <= s /\ Len(v) = s
      BY <1>1, <1>2
    <3> QED BY <3>1
  <2>3. ws = SubSeq(v, adr, k) /\ w = SubSeq(v, k + 1, e)
    <3>1. w = SubSeq(v, x, e) OBVIOUS
    <3> QED BY <1>1, <2>2, <3>1
  <2> HIDE DEF S, k, e
  <2>4. SubSeq(v, adr, k) \o SubSeq(v, k + 1, e) = SubSeq(v, adr, e)
    BY <2>1, <2>2, ConcatAdjacentSubSeq
  <2>5. Len(SubSeq(v, adr, e)) = Len(ws) + n
    <3>a. adr \in Int /\ e \in Int /\ \A i \in adr .. e : i \in 1 .. s BY <1>0 DEF e
    <3>1. adr \in Int /\ e \in Int /\ \A i \in adr .. e : v[i] \in S BY <3>a DEF S
    <3>2. adr <= e /\ e - adr + 1 = Len(ws) + n BY <1>0, <2>2
    <3> QED BY <3>1, <3>2, SubSeqProperties
  <2> QED BY <2>3, <2>4, <2>5 DEF e
<1>7. CASE Len(t) = 1
  <2>1. call' = NoCall /\ got' = Answer(f, adr, ws \o w) BY <1>1, <1>7 DEF Delivered
  <2>2. CallGood' BY <2>1 DEF CallGood
  <2>3. IInv' BY <1>4, <1>5, <2>2 DEF IInv
  <2>4. \A g \in Files : Todo(g)' = Todo(g) BY <1>1, <2>1 DEF Todo, NoCall
  <2>5. \A g \in Files : Seen(g)' = Seen(g) BY <1>3, <2>4, QuietStep
  <2>6. PICK m \in Lengths : x + n - 1 = Smaller(adr + m - 1, s)
    BY <1>1, <1>7 DEF ReadGood
  <2>7. m \in Nat BY WordFileAssumption DEF WordFileAssumption
  <2>8. x + n - 1 = IF adr + m - 1 > Len(v) THEN Len(v) ELSE adr + m - 1
    BY <1>0, <1>2, <2>6, <2>7 DEF Smaller
  <2>9. A!Read(f, adr, m)
    <3>1. got' = [file |-> f, adr |-> adr, words |-> SubSeq(v, adr, IF adr + m - 1 > Len(v) THEN Len(v) ELSE adr + m - 1)]
      BY <1>6, <2>1, <2>8 DEF Answer
    <3>2. [g \in Files |-> Seen(g)'] = [g \in Files |-> Seen(g)] BY <2>5
    <3>3. [g \in Files |-> Seen(g)][f] = v BY <1>1
    <3> QED BY <1>1, <1>3, <3>1, <3>2, <3>3 DEF A!Read
  <2>10. A!Next BY <1>1, <2>9 DEF A!Next
  <2> QED BY <2>3, <2>10 DEF Implemented
<1>8. CASE Len(t) # 1
  <2> DEFINE u == Tail(t)
             y == ws \o w
  <2>1. call' = [call EXCEPT !.todo = u, !.words = y] /\ got' = got
    BY <1>1, <1>8 DEF Delivered
  <2> HIDE DEF u, y
  <2>2. call' = [op |-> "read", file |-> f, adr |-> adr, words |-> y, todo |-> u]
    <3>1. call = [op |-> "read", file |-> f, adr |-> adr, words |-> ws, todo |-> t] BY <1>1
    <3> DEFINE c == [op |-> "read", file |-> f, adr |-> adr, words |-> ws, todo |-> u]
    <3>2. [call EXCEPT !.todo = u, !.words = y] = [[call EXCEPT !.todo = u] EXCEPT !.words = y] OBVIOUS
    <3>3. [call EXCEPT !.todo = u] = c BY <3>1
    <3>4. [c EXCEPT !.words = y] = [op |-> "read", file |-> f, adr |-> adr, words |-> y, todo |-> u] OBVIOUS
    <3> HIDE DEF c
    <3> QED BY <2>1, <3>2, <3>3, <3>4
  <2>3. \A g \in Files : Todo(g)' = Todo(g) BY <1>1, <2>2 DEF Todo
  <2>4. \A g \in Files : Seen(g)' = Seen(g) BY <1>3, <2>3, QuietStep
  <2>5. call'.todo = u /\ call'.adr = adr /\ call'.words = y BY <2>2
  <2>6. ReadGood(P, s, call')
    <3> DEFINE c == call
               c2 == call'
    <3>1. /\ ReadGood(P, s, c) /\ Len(c.todo) # 1 /\ Len(c.words \o w) = Len(c.words) + c.todo[1].n
          /\ c2.todo = Tail(c.todo) /\ c2.adr = c.adr /\ c2.words = c.words \o w
      BY <1>1, <1>6, <1>8, <2>5 DEF u, y
    <3> HIDE DEF c, c2
    <3>2. ReadGood(P, s, c2) BY <1>1, <3>1, TailRead
    <3> QED BY <3>2 DEF c2
  <2>7. y = SubSeq(v, adr, adr + Len(y) - 1)
    <3>1. adr + (Len(ws) + n) - 1 = x + n - 1
      <4>1. adr \in Nat /\ Len(ws) \in Nat /\ n \in Nat /\ adr + Len(ws) = x BY <1>1
      <4> QED BY <4>1
    <3> QED BY <1>6, <3>1 DEF y
  <2>8. CallGood'
    <3>1. P' = P /\ f \in opened' /\ size'[f] = s BY <1>1, <1>3 DEF P
    <3>2. Seen(f)' = v BY <1>1, <2>4
    <3>3. call' = [op |-> "read", file |-> f, adr |-> call'.adr, words |-> call'.words, todo |-> call'.todo]
      BY <2>2, <2>5
    <3>4. call'.words = SubSeq(v, call'.adr, call'.adr + Len(call'.words) - 1) BY <2>5, <2>7
    <3>5. call'.words = SubSeq(Seen(f)', call'.adr, call'.adr + Len(call'.words) - 1) BY <3>2, <3>4
    <3> QED BY <2>6, <3>1, <3>3, <3>5 DEF CallGood
  <2>9. IInv' BY <1>4, <1>5, <2>8 DEF IInv
  <2>10. Implemented BY <1>3, <2>1, <2>4, Stutter
  <2> QED BY <2>9, <2>10
<1> QED BY <1>7, <1>8

IsPart(S, v, x, n, q) ==
  /\ v \in Seq(S) /\ x \in Nat \ {0} /\ n \in Nat \ {0} /\ x + n - 1 <= Len(v)
  /\ q = [i \in 1 .. n |-> q[i]] /\ \A i \in 1 .. n : q[i] = v[x + i - 1]

LEMMA PartIs ==
  ASSUME NEW S, NEW v, NEW x, NEW n, NEW q, IsPart(S, v, x, n, q)
  PROVE  q = SubSeq(v, x, x + n - 1)
<1>0. /\ v \in Seq(S) /\ x \in Nat \ {0} /\ n \in Nat \ {0} /\ x + n - 1 <= Len(v)
      /\ q = [i \in 1 .. n |-> q[i]] /\ \A i \in 1 .. n : q[i] = v[x + i - 1]
  BY DEF IsPart
<1> DEFINE e == x + n - 1
           u == SubSeq(v, x, e)
<1>1. x \in Int /\ e \in Int /\ x <= e /\ e - x + 1 = n /\ \A i \in x .. e : v[i] \in S BY <1>0
<1> HIDE DEF e
<1>2. u \in Seq(S) /\ Len(u) = n /\ \A i \in 1 .. n : u[i] = v[x + i - 1]
  BY <1>1, SubSeqProperties
<1> HIDE DEF u
<1>3. u = [i \in 1 .. n |-> u[i]] BY <1>2
<1>4. q = u BY <1>0, <1>2, <1>3
<1> QED BY <1>4 DEF u, e

LEMMA DirectReadStep ==
  ASSUME IInv, DoubleWords, DirectRead
  PROVE  IInv' /\ Implemented
<1>0. call.op = "read" /\ P = 0 BY PageTerms DEF DirectRead
<1>1. PICK f, t, x, n, s, v, adr, ws : ReadIs(f, t, x, n, s, v, adr, ws) BY <1>0, ReadFacts
<1>2. /\ f = call.file /\ t = call.todo /\ Head(t) = t[1] /\ x = t[1].adr /\ n = t[1].n
      /\ f \in Files /\ Size(f) = s /\ s \in Nat /\ v = Seen(f) /\ ~Writing(f)
      /\ x \in Nat \ {0} /\ n \in Nat \ {0} /\ x + n - 1 <= s
      /\ FileGood(P, f, disk[f], page[f], s, fresh[f])
  BY <1>1 DEF ReadIs
<1>3. v = disk[f]
  <2> DEFINE d == disk[f]
  <2>1. FileGood(0, f, d, page[f], s, fresh[f]) BY <1>0, <1>2
  <2>2. d \in Seq(Value(f)) BY <2>1 DEF FileGood
  <2>3. Len(d) = s /\ \A a \in 1 .. s : HeldIn(P, d, page[f], a) = d[a]
    BY <1>0, <1>2, <2>1, DirectFile
  <2>4. v = [a \in 1 .. s |-> HeldIn(P, d, page[f], a)] BY <1>2, NoWrite DEF HeldWords
  <2> HIDE DEF d
  <2>5. v = d BY <2>2, <2>3, <2>4
  <2> QED BY <2>5 DEF d
<1>4. UNCHANGED <<disk, page>> /\ Delivered(SubSeq(v, x, x + n - 1)) BY <1>2, <1>3 DEF DirectRead
<1>5. Tabled(disk', page') /\ Stays(disk', page') BY <1>4, NothingMoved DEF IInv
<1> QED BY <1>0, <1>1, <1>4, <1>5, PieceRead

LEMMA MovedTwice ==
  ASSUME NEW z, NEW f, NEW d, NEW m, NEW s, NEW fr, NEW d1, NEW m1, NEW d2, NEW m2,
         Moved(z, f, d, m, s, fr, d1, m1), Moved(z, f, d1, m1, s, fr, d2, m2)
  PROVE  Moved(z, f, d, m, s, fr, d2, m2)
BY DEF Moved

LEMMA WaPageReadStep ==
  ASSUME IInv, DoubleWords, WaPageRead
  PROVE  IInv' /\ Implemented
<1>0. call.op = "read" /\ P # 0 BY PageTerms DEF WaPageRead
<1>1. PICK f, t, x, n, s, v, adr, ws : ReadIs(f, t, x, n, s, v, adr, ws) BY <1>0, ReadFacts
<1>2. /\ f = call.file /\ t = call.todo /\ Head(t) = t[1] /\ x = t[1].adr /\ n = t[1].n
      /\ f \in Files /\ Size(f) = s /\ s = size[f] /\ s \in Nat /\ v = Seen(f) /\ ~Writing(f)
      /\ x \in Nat \ {0} /\ n \in Nat \ {0} /\ x + n - 1 <= s /\ InOnePage(P, x, x + n - 1) /\ x % 2 = 1
      /\ FileGood(P, f, disk[f], page[f], s, fresh[f])
  BY <1>0, <1>1 DEF ReadIs
<1>3. Tables /\ FilesGood /\ ClosedFiles BY DEF IInv
<1>4. P \in Nat \ {0} /\ P % 2 = 0 BY <1>0, <1>3, PageSize DEF Tables
<1> DEFINE k == Number(P, x)
<1>5. k \in Nat /\ x \in Span(P, k) /\ k = NewNumber(x) /\ PageOf(x) = k
  <2>1. x \div P = Number(P, x) BY <1>2, <1>4, NumberOfOdd
  <2> QED BY <1>2, <1>4, <2>1, InItsPage, PageTerms DEF NewNumber, P
<1>6. ASSUME NEW i \in 1 .. n PROVE x + i - 1 \in Span(P, k) /\ Number(P, x + i - 1) = k /\ x + i - 1 \in 1 .. s
  <2>1. Lowest(P, k) \in Nat \ {0} /\ Highest(P, k) \in Nat BY <1>4, <1>5, PageEnds
  <2>2. x + n - 1 <= Highest(P, k) BY <1>0, <1>2 DEF InOnePage
  <2>3. Lowest(P, k) <= x /\ x \in Int BY <1>5, <2>1 DEF Span
  <2> HIDE DEF k
  <2>4. x + i - 1 \in Span(P, k) /\ x + i - 1 \in 1 .. s BY <1>2, <2>1, <2>2, <2>3 DEF Span
  <2> DEFINE b == x + i - 1
  <2>5. b \in Span(P, k) BY <2>4
  <2> HIDE DEF b
  <2>6. Number(P, b) = k BY <1>4, <1>5, <2>5, PageUnique
  <2> QED BY <2>4, <2>6 DEF b
<1> HIDE DEF k
<1>7. /\ v \in Seq({v[a] : a \in 1 .. s}) /\ Len(v) = s
      /\ \A a \in 1 .. s : v[a] = HeldIn(P, disk[f], page[f], a)
  BY <1>2, NoWrite
<1>8. ASSUME NEW q, DOMAIN q.data = Span(P, k), \A i \in 1 .. n : q.data[x + i - 1] = v[x + i - 1]
      PROVE  Taken(q, x, n) = SubSeq(v, x, x + n - 1)
  <2> DEFINE y == Taken(q, x, n)
             S == {v[a] : a \in 1 .. s}
  <2>1. \A i \in 1 .. n : y[i] = v[x + i - 1] BY <1>6, <1>8 DEF Taken
  <2>2. y = [i \in 1 .. n |-> y[i]] BY DEF Taken
  <2>3. v \in Seq(S) /\ x + n - 1 <= Len(v) BY <1>2, <1>7
  <2>4. IsPart(S, v, x, n, y)
    <3> HIDE DEF y, S
    <3> QED BY <1>2, <2>1, <2>2, <2>3 DEF IsPart
  <2> HIDE DEF y, S
  <2>5. y = SubSeq(v, x, x + n - 1) BY <2>4, PartIs
  <2> QED BY <2>5 DEF y
<1>9. CASE k \in DOMAIN page[f]
  <2> DEFINE q == page[f][k]
  <2>1. UNCHANGED <<disk, page>> /\ Delivered(Taken(q, x, n))
    BY <1>2, <1>5, <1>9 DEF WaPageRead, InMemory
  <2>2. PageGood(P, f, disk[f], s, k, q) BY <1>2, <1>9 DEF FileGood
  <2>3. DOMAIN q.data = Span(P, k) BY <2>2 DEF PageGood
  <2>4. \A i \in 1 .. n : q.data[x + i - 1] = v[x + i - 1] BY <1>0, <1>6, <1>7, <1>9 DEF HeldIn
  <2> HIDE DEF q
  <2>5. Taken(q, x, n) = SubSeq(v, x, x + n - 1) BY <1>8, <2>3, <2>4
  <2>6. Tabled(disk', page') /\ Stays(disk', page') BY <1>3, <2>1, NothingMoved
  <2>7. Delivered(SubSeq(v, x, x + n - 1)) BY <2>1, <2>5
  <2> QED BY <1>0, <1>1, <2>6, <2>7, PieceRead
<1>10. CASE k \notin DOMAIN page[f]
  <2>1. PICK room \in GetNewPage(f) :
          /\ k \notin DOMAIN room.page[f]
          /\ CanRead(room.disk[f], k, f)
          /\ page' = [room.page EXCEPT ![f] = WithPage(@, k, PageRead(room.disk[f], k))]
          /\ disk' = room.disk
          /\ Delivered(Taken(PageRead(room.disk[f], k), x, n))
    BY <1>2, <1>5, <1>10 DEF WaPageRead, InMemory
  <2> DEFINE d == room.disk[f]
             m == room.page[f]
             q == PageRead(d, k)
             m2 == page'[f]
             fr == fresh[f]
  <2>2. Tabled(room.disk, room.page) /\ Stays(room.disk, room.page) BY <1>0, <1>2, <1>3, RoomIs
  <2>3. m2 = WithPage(m, k, q) /\ (\A g \in Files \ {f} : page'[g] = room.page[g]) /\ Tabled(disk', page')
    <3>1. page' = [g \in Files |-> IF g = f THEN WithPage(m, k, q) ELSE room.page[g]]
      BY <1>2, <2>1, <2>2 DEF Tabled
    <3> HIDE DEF m, q
    <3> QED BY <1>2, <2>1, <2>2, <3>1 DEF Tabled
  <2>4. q = [data |-> [a \in Span(P, k) |-> IF a <= Len(d) THEN d[a] ELSE Zero],
             walast |-> Smaller(Len(d), Highest(P, k)), touched |-> FALSE]
    BY PageTerms DEF PageRead, Span
  <2>5. Moved(P, f, disk[f], page[f], s, fr, d, m) BY <1>2, <2>2 DEF Stays
  <2>6. DOMAIN m2 = DOMAIN m \cup {k} /\ (\A j \in DOMAIN m : m2[j] = m[j]) /\ m2[k] = q
    <3>1. k \notin DOMAIN m BY <2>1
    <3> HIDE DEF m, q, m2
    <3> QED BY <2>3, <3>1 DEF WithPage
  <2>7. Moved(P, f, d, m, s, fr, d, m2)
    <3>1. FileGood(P, f, d, m, s, fr) BY <2>5 DEF Moved
    <3>2. Len(d) >= Smaller(s, Highest(P, k)) BY <1>2, <2>1, PageTerms DEF CanRead
    <3>3. k \notin DOMAIN m BY <2>1
    <3> HIDE DEF d, m, m2, q, fr
    <3>4. LoadCase(P, f, d, m, s, fr, k, m2)
      BY <1>2, <1>4, <1>5, <2>4, <2>6, <3>1, <3>2, <3>3 DEF LoadCase
    <3> QED BY <3>4, LoadFileCase
  <2>8. Moved(P, f, disk[f], page[f], s, fr, d, m2)
    <3> DEFINE d0 == disk[f]
               m0 == page[f]
    <3>1. Moved(P, f, d0, m0, s, fr, d, m) BY <2>5
    <3> HIDE DEF d, m, m2, fr, d0, m0
    <3>2. Moved(P, f, d0, m0, s, fr, d, m2) BY <2>7, <3>1, MovedTwice
    <3> QED BY <3>2 DEF d0, m0
  <2>9. Stays(disk', page')
    <3>1. f \in opened BY <1>1 DEF ReadIs
    <3>2. disk'[f] = d BY <2>1
    <3> QED BY <1>2, <2>1, <2>2, <2>3, <2>8, <3>1, <3>2 DEF Stays
  <2>10. \A i \in 1 .. n : q.data[x + i - 1] = v[x + i - 1]
    <3> TAKE i \in 1 .. n
    <3> DEFINE b == x + i - 1
    <3>1. Number(P, b) = k /\ b \in 1 .. s BY <1>6
    <3> HIDE DEF b, q, m2, d, m
    <3>2. HeldIn(P, d, m2, b) = q.data[b] BY <1>0, <2>6, <3>1 DEF HeldIn
    <3>3. HeldIn(P, d, m2, b) = HeldIn(P, disk[f], page[f], b) BY <2>8, <3>1 DEF Moved
    <3> QED BY <1>7, <3>1, <3>2, <3>3 DEF b
  <2>11. DOMAIN q.data = Span(P, k) BY <2>4
  <2>12. Delivered(Taken(q, x, n)) BY <2>1
  <2> HIDE DEF q
  <2>13. Taken(q, x, n) = SubSeq(v, x, x + n - 1) BY <1>8, <2>10, <2>11
  <2>14. Delivered(SubSeq(v, x, x + n - 1)) BY <2>12, <2>13
  <2> QED BY <1>0, <1>1, <2>3, <2>9, <2>14, PieceRead
<1> QED BY <1>9, <1>10

(* Steps that leave disks and pages alone.                                 *)
LEMMA SameSeen ==
  ASSUME IInv, IInv', UNCHANGED <<disk, page, config>>, \A g \in Files : Size(g)' = Size(g),
         \A g \in Files : Todo(g)' = Todo(g)
  PROVE  \A g \in Files : Seen(g)' = Seen(g)
<1> TAKE g \in Files
<1>1. IInv' => SeenRight' BY SeenNow, PTL
<1>2. Seen(g)' = SeenAs(g)' /\ Seen(g) = SeenAs(g) BY <1>1, SeenNow DEF SeenRight
<1>3. SeenAs(g) = Over(Size(g), HeldWords(P, disk[g], page[g], Size(g)), Todo(g)) BY DEF SeenAs
<1>4. SeenAs(g)' = Over(Size(g)', HeldWords(P', disk'[g], page'[g], Size(g)'), Todo(g)') BY DEF SeenAs
<1>5. P' = P BY DEF P
<1>6. Size(g)' = Size(g) /\ Todo(g)' = Todo(g) OBVIOUS
<1> QED BY <1>2, <1>3, <1>4, <1>5, <1>6

LEMMA FlushPageStep ==
  ASSUME IInv, DoubleWords, NEW k \in InMemory(call.file), FlushPage(k)
  PROVE  IInv' /\ Implemented
<1>1. PICK f \in opened : call = [op |-> "close", file |-> f] BY DEF IInv, CallGood, FlushPage, NoCall
<1>2. f \in Files /\ call.file = f /\ call.op = "close" BY <1>1 DEF IInv, Tables
<1>3. P # 0
  <2>1. FileGood(P, f, disk[f], page[f], Size(f), fresh[f]) BY <1>2 DEF IInv, FilesGood
  <2> QED BY <1>2, <2>1 DEF FileGood, InMemory
<1>4. disk' = Scrapped(disk, f, k) /\ page' = [page EXCEPT ![f] = Without(@, k)]
      /\ UNCHANGED <<config, opened, size, call, fresh, got>>
  BY <1>2 DEF FlushPage
<1>5. Tabled(disk', page') /\ Stays(disk', page') BY <1>2, <1>3, <1>4, ScrapStays DEF IInv
<1>6. \A g \in Files : Todo(g)' = Todo(g) BY <1>4 DEF Todo
<1>7. Tables' /\ FilesGood' /\ ClosedFiles' /\ \A g \in Files : Seen(g)' = Seen(g)
  BY <1>4, <1>5, <1>6, QuietStep
<1>8. FilesEven' BY <1>2, <1>4, <1>5, QuietEven
<1>9. CallGood' BY <1>1, <1>4 DEF CallGood
<1> QED BY <1>4, <1>7, <1>8, <1>9, Stutter DEF IInv

LEMMA StartCloseStep ==
  ASSUME IInv, DoubleWords, NEW f \in Files, StartClose(f)
  PROVE  IInv' /\ Implemented
<1>1. /\ call = NoCall /\ f \in opened /\ call' = [op |-> "close", file |-> f]
      /\ UNCHANGED <<disk, config, opened, size, page, fresh, got>>
  BY DEF StartClose
<1>2. Tabled(disk', page') /\ Stays(disk', page') BY <1>1, NothingMoved DEF IInv
<1>3. \A g \in Files : Todo(g)' = Todo(g) BY <1>1 DEF Todo, NoCall
<1>4. Tables' /\ FilesGood' /\ ClosedFiles' /\ \A g \in Files : Seen(g)' = Seen(g)
  BY <1>1, <1>2, <1>3, QuietStep
<1>5. FilesEven' BY <1>1, <1>2, QuietEven DEF NoCall
<1>6. CallGood' BY <1>1 DEF CallGood
<1> QED BY <1>1, <1>4, <1>5, <1>6, Stutter DEF IInv

LEMMA EndCloseStep ==
  ASSUME IInv, DoubleWords, EndClose
  PROVE  IInv' /\ Implemented
<1>1. PICK f \in opened : call = [op |-> "close", file |-> f] BY DEF IInv, CallGood, EndClose, NoCall
<1>2. f \in Files /\ call.file = f /\ call.op = "close" BY <1>1 DEF IInv, Tables
<1>3. /\ DOMAIN page[f] = {} /\ opened' = opened \ {f} /\ size' = [size EXCEPT ![f] = 0] /\ call' = NoCall
      /\ fresh' = [fresh EXCEPT ![f] = {}] /\ got' = NoAnswer /\ UNCHANGED <<disk, config, page>>
  BY <1>2 DEF EndClose, InMemory
<1>4. Tables /\ FilesGood /\ ClosedFiles BY DEF IInv
<1>5. /\ \A g \in Files \ {f} : size'[g] = size[g] /\ fresh'[g] = fresh[g]
      /\ size'[f] = 0 /\ fresh'[f] = {} /\ fresh' = [g \in Files |-> fresh'[g]]
  <2>1. size \in [Files -> Nat] /\ fresh = [g \in Files |-> fresh[g]] BY <1>4 DEF Tables
  <2>2. fresh' = [g \in Files |-> IF g = f THEN {} ELSE fresh[g]] BY <1>2, <1>3, <2>1
  <2> QED BY <1>2, <1>3, <2>1, <2>2
<1>6. Tables'
  <2>1. size' \in [Files -> Nat] BY <1>3, <1>4 DEF Tables
  <2> QED BY <1>3, <1>4, <1>5, <2>1 DEF Tables
<1>7. P' = P BY <1>3 DEF P
<1> DEFINE d == disk[f]
           m == page[f]
           s == size[f]
<1>8. FileGood(P, f, d, m, s, fresh[f]) BY <1>2, <1>4 DEF FilesGood, Size
<1>9. Len(d) = s /\ d \in Seq(Value(f)) /\ s \in 0 .. MaxSize[f] /\ DOMAIN m = {} /\ s \in Nat
  <2>1. d \in Seq(Value(f)) /\ s \in Nat /\ Len(d) \in Nat /\ Len(d) <= s /\ s \in 0 .. MaxSize[f] /\ DOMAIN m = {}
    BY <1>2, <1>3, <1>8, ValueIs DEF FileGood
  <2>2. \A a \in Len(d) + 1 .. s : FALSE BY <1>8, <2>1 DEF FileGood
  <2>3. ~(Len(d) < s)
    <3> SUFFICES ASSUME Len(d) < s PROVE FALSE OBVIOUS
    <3>1. s \in Len(d) + 1 .. s BY <2>1
    <3> QED BY <2>2, <3>1
  <2> QED BY <2>1, <2>3
<1>10. \A g \in Files : Size(g)' = Size(g)
  <2> TAKE g \in Files
  <2>1. CASE g = f BY <1>2, <1>3, <1>9, <2>1 DEF Size
  <2>2. CASE g # f BY <1>3, <1>5, <2>2 DEF Size
  <2> QED BY <2>1, <2>2
<1>11. FilesGood'
  <2> SUFFICES ASSUME NEW g \in Files PROVE FileGood(P, g, disk[g], page[g], Size(g), fresh'[g])
    BY <1>3, <1>7, <1>10 DEF FilesGood
  <2>1. CASE g # f BY <1>4, <1>5, <2>1 DEF FilesGood
  <2>2. CASE g = f
    <3>1. Size(f) = s BY <1>2 DEF Size
    <3>2. \A a \in 1 .. s : a <= Len(d) /\ HeldIn(P, d, m, a) = d[a] BY <1>9 DEF HeldIn
    <3>3. Len(d) + 1 .. s = {} BY <1>9
    <3> HIDE DEF d, m, s
    <3>4. FileGood(P, f, d, m, s, {}) BY <1>8, <1>9, <3>2, <3>3 DEF FileGood
    <3> QED BY <1>5, <2>2, <3>1, <3>4 DEF d, m, s
  <2> QED BY <2>1, <2>2
<1>12. ClosedFiles'
  <2> SUFFICES ASSUME NEW g \in Files \ opened' PROVE size'[g] = 0 /\ fresh'[g] = {} /\ DOMAIN page[g] = {}
    BY <1>3 DEF ClosedFiles
  <2>1. CASE g = f BY <1>3, <1>5, <2>1
  <2>2. CASE g # f BY <1>3, <1>4, <1>5, <2>2 DEF ClosedFiles
  <2> QED BY <2>1, <2>2
<1>13. FilesEven' BY <1>2, <1>3, <1>7, <1>10 DEF FilesEven, IInv, Writing
<1>14. CallGood' BY <1>3 DEF CallGood
<1>15. IInv' BY <1>6, <1>11, <1>12, <1>13, <1>14 DEF IInv
<1>16. \A g \in Files : Todo(g)' = Todo(g) BY <1>2, <1>3 DEF Todo, NoCall
<1>17. \A g \in Files : Seen(g)' = Seen(g) BY <1>3, <1>10, <1>15, <1>16, SameSeen
<1>18. A!Close(f) BY <1>1, <1>3, <1>17, SameWords DEF A!Close, NoAnswer, A!NoAnswer
<1> QED BY <1>2, <1>15, <1>18 DEF Implemented, A!Next

LEMMA OpenStep ==
  ASSUME IInv, DoubleWords, NEW f \in Files, Open(f)
  PROVE  IInv' /\ Implemented
<1>1. /\ call = NoCall /\ f \notin opened /\ opened' = opened \cup {f}
      /\ size' = [size EXCEPT ![f] = Len(disk[f])] /\ fresh' = [fresh EXCEPT ![f] = {}]
      /\ got' = NoAnswer /\ UNCHANGED <<disk, config, page, call>>
  BY DEF Open
<1>2. Tables /\ FilesGood /\ ClosedFiles BY DEF IInv
<1>3. fresh[f] = {} /\ Size(f) = Len(disk[f]) /\ Size(f) \in Nat BY <1>1, <1>2, SizeIs DEF ClosedFiles, Size
<1>4. fresh' = fresh
  <2>1. fresh = [g \in Files |-> fresh[g]] BY <1>2 DEF Tables
  <2> QED BY <1>1, <1>3, <2>1
<1>5. size' \in [Files -> Nat] /\ size'[f] = Size(f) /\ \A g \in Files \ {f} : size'[g] = size[g]
  BY <1>1, <1>2, <1>3 DEF Tables
<1>6. Tables' BY <1>1, <1>2, <1>4, <1>5 DEF Tables
<1>7. P' = P BY <1>1 DEF P
<1>8. \A g \in Files : Size(g)' = Size(g)
  <2> TAKE g \in Files
  <2>1. CASE g = f BY <1>1, <1>5, <2>1 DEF Size
  <2>2. CASE g # f BY <1>1, <1>5, <2>2 DEF Size
  <2> QED BY <2>1, <2>2
<1>9. FilesGood' BY <1>1, <1>2, <1>4, <1>7, <1>8 DEF FilesGood
<1>10. ClosedFiles'
  <2> SUFFICES ASSUME NEW g \in Files \ opened' PROVE size'[g] = 0 /\ fresh'[g] = {} /\ DOMAIN page[g] = {}
    BY <1>1 DEF ClosedFiles
  <2> QED BY <1>1, <1>2, <1>4, <1>5 DEF ClosedFiles
<1>11. FilesEven' BY <1>1, <1>7, <1>8 DEF FilesEven, IInv, Writing, NoCall
<1>12. CallGood' BY <1>1 DEF CallGood
<1>13. IInv' BY <1>6, <1>9, <1>10, <1>11, <1>12 DEF IInv
<1>14. \A g \in Files : Todo(g)' = Todo(g) BY <1>1 DEF Todo
<1>15. \A g \in Files : Seen(g)' = Seen(g) BY <1>1, <1>8, <1>13, <1>14, SameSeen
<1>16. A!Open(f) BY <1>1, <1>15, SameWords DEF A!Open, NoAnswer, A!NoAnswer
<1> QED BY <1>13, <1>16 DEF Implemented, A!Next

LEMMA StartReadStep ==
  ASSUME IInv, DoubleWords, NEW f \in Files, NEW adr \in Starts, NEW n \in Lengths, StartRead(f, adr, n)
  PROVE  IInv' /\ Implemented
<1> DEFINE s == size[f]
           v == Seen(f)
           m == IF adr + n - 1 > s THEN s - adr + 1 ELSE n
<1>1. /\ call = NoCall /\ f \in opened /\ UNCHANGED <<disk, config, opened, size, page, fresh>>
  BY DEF StartRead
<1>2. s \in Nat /\ Size(f) = s /\ adr \in Nat \ {0} /\ n \in Nat \ {0} /\ adr % 2 = 1
  BY <1>1, WordFileAssumption DEF WordFileAssumption, IInv, Tables, Size, DoubleWords
<1>3. v \in Seq({v[a] : a \in 1 .. s}) /\ Len(v) = s
  <2>1. ~Writing(f) BY <1>1 DEF Writing, NoCall
  <2> QED BY <1>2, <2>1, NoWrite
<1>4. P \in Nat /\ P % 2 = 0 BY PageSize DEF IInv, Tables
<1>5. Tabled(disk', page') /\ Stays(disk', page') BY <1>1, NothingMoved DEF IInv
<1>6. Tables' /\ FilesGood' /\ ClosedFiles' BY <1>1, <1>5, QuietStep
<1>7. FilesEven' BY <1>1, <1>5, QuietEven DEF NoCall
<1>8. CASE adr > s + 2 \/ s = 0 \/ m = 0
  <2>1. got' = Answer(f, adr, <<>>) /\ call' = call BY <1>8 DEF StartRead
  <2>2. CallGood' BY <1>1, <2>1 DEF CallGood
  <2>3. IInv' BY <1>6, <1>7, <2>2 DEF IInv
  <2>4. \A g \in Files : Todo(g)' = Todo(g) BY <2>1 DEF Todo
  <2>5. \A g \in Files : Seen(g)' = Seen(g) BY <1>1, <1>5, <2>4, QuietStep
  <2> DEFINE last == IF adr + n - 1 > Len(v) THEN Len(v) ELSE adr + n - 1
  <2>6. last \in Int /\ last < adr BY <1>2, <1>3, <1>8
  <2>7. SubSeq(v, adr, last) = <<>>
    <3> HIDE DEF v, last
    <3> QED BY <1>2, <2>6, SubSeqEmpty
  <2>8. A!Read(f, adr, n)
    <3>1. got' = [file |-> f, adr |-> adr, words |-> SubSeq(v, adr, last)] BY <2>1, <2>7 DEF Answer
    <3>2. [g \in Files |-> Seen(g)'] = [g \in Files |-> Seen(g)] BY <2>5
    <3>3. [g \in Files |-> Seen(g)][f] = v OBVIOUS
    <3> QED BY <1>1, <3>1, <3>2, <3>3 DEF A!Read
  <2> QED BY <2>3, <2>8 DEF Implemented, A!Next
<1>9. CASE ~(adr > s + 2 \/ s = 0 \/ m = 0)
  <2> DEFINE p == Pieces(adr, m)
             e == adr + m - 1
  <2>1. /\ m > 0 /\ got' = got
        /\ call' = [op |-> "read", file |-> f, adr |-> adr, words |-> <<>>, todo |-> p]
    BY <1>9 DEF StartRead
  <2>2. m \in Nat \ {0} /\ e \in Nat /\ e <= s /\ e = Smaller(adr + n - 1, s) BY <1>2, <2>1 DEF Smaller
  <2> HIDE DEF m, e
  <2>3. CutAtPages(p, adr, e)
    <3>1. e = adr + m - 1 BY DEF e
    <3> QED BY <1>2, <1>4, <2>2, <3>1, PiecesAre
  <2> HIDE DEF p
  <2>4. ReadGood(P, s, call')
    <3>1. call'.todo = p /\ call'.adr = adr /\ call'.words = <<>> /\ Len(<<>>) = 0 BY <2>1
    <3>2. p \in Seq(ReadRequest) /\ Len(p) \in Nat \ {0} /\ p # <<>> /\ p[1].adr = adr /\ LastOf(p[Len(p)]) = e
      BY <2>3 DEF CutAtPages
    <3>3. \A i \in 1 .. Len(p) :
            /\ InOnePage(P, p[i].adr, p[i].adr + p[i].n - 1)
            /\ p[i].adr + p[i].n - 1 <= s
            /\ P # 0 => p[i].adr % 2 = 1
      <4> TAKE i \in 1 .. Len(p)
      <4>1. LastOf(p[i]) <= e /\ LastOf(p[i]) \in Nat /\ InOnePage(P, p[i].adr, LastOf(p[i])) /\ p[i].adr % 2 = 1
        BY <1>2, <1>4, <2>3 DEF CutAtPages
      <4> QED BY <1>2, <2>2, <4>1 DEF LastOf
    <3>4. \A i \in 1 .. Len(p) - 1 : p[i + 1].adr = p[i].adr + p[i].n
      <4> TAKE i \in 1 .. Len(p) - 1
      <4>1. i \in 1 .. Len(p) BY <3>2
      <4>2. p[i] \in ReadRequest BY <3>2, <4>1
      <4>3. p[i + 1].adr = LastOf(p[i]) + 1 BY <2>3 DEF CutAtPages
      <4> QED BY <4>2, <4>3 DEF LastOf, ReadRequest
    <3>5. adr + Len(<<>>) = p[1].adr /\ Len(<<>>) \in Nat BY <1>2, <3>1, <3>2
    <3> QED BY <2>2, <3>1, <3>2, <3>3, <3>4, <3>5 DEF ReadGood, LastOf
  <2>5. \A g \in Files : Todo(g)' = Todo(g) BY <1>1, <2>1 DEF Todo, NoCall
  <2>6. \A g \in Files : Seen(g)' = Seen(g) BY <1>1, <1>5, <2>5, QuietStep
  <2>7. CallGood'
    <3>1. call' = [op |-> "read", file |-> f, adr |-> call'.adr, words |-> call'.words, todo |-> call'.todo]
      BY <2>1
    <3>2. call'.words = SubSeq(Seen(f)', call'.adr, call'.adr + Len(call'.words) - 1)
      <4> DEFINE v2 == Seen(f)'
      <4>1. adr \in Int /\ adr + 0 - 1 \in Int /\ adr + 0 - 1 < adr BY <1>2
      <4> HIDE DEF v2
      <4>2. SubSeq(v2, adr, adr + 0 - 1) = <<>> BY <4>1, SubSeqEmpty
      <4>3. call'.adr = adr /\ call'.words = <<>> /\ Len(call'.words) = 0 BY <2>1
      <4> QED BY <4>2, <4>3 DEF v2
    <3>3. P' = P /\ size'[f] = s /\ f \in opened' BY <1>1 DEF P
    <3> QED BY <2>4, <3>1, <3>2, <3>3 DEF CallGood
  <2>8. IInv' BY <1>6, <1>7, <2>7 DEF IInv
  <2>9. Implemented BY <1>1, <2>1, <2>6, Stutter
  <2> QED BY <2>8, <2>9
<1> QED BY <1>8, <1>9

LEMMA StartWriteStep ==
  ASSUME IInv, DoubleWords, NEW f \in Files, NEW adr \in Starts, NEW n \in Lengths, NEW w \in Marks,
         StartWrite(f, adr, n, w)
  PROVE  IInv' /\ Implemented
<1> DEFINE s == size[f]
           e == adr + n - 1
           v == Seen(f)
           t == Plan(s, adr, n, w)
           fr == fresh[f] \cup (adr .. e) \cup (s + 1 .. adr)
<1>1. /\ call = NoCall /\ f \in opened \ ReadOnly /\ got' = NoAnswer
      /\ adr <= s + Hole /\ e <= MaxSize[f]
      /\ fresh' = [fresh EXCEPT ![f] = @ \cup (adr .. e) \cup (s + 1 .. adr)]
      /\ UNCHANGED <<disk, config, opened, size, page>>
  BY DEF StartWrite
<1>2. call' = [op |-> "write", file |-> f, todo |-> t] BY DEF StartWrite, Plan, Gap, Words
<1>3. Tables /\ FilesGood /\ ClosedFiles BY DEF IInv
<1>4. /\ s \in Nat /\ Size(f) = s /\ adr \in Nat \ {0} /\ n \in Nat \ {0} /\ adr % 2 = 1 /\ n % 2 = 0
      /\ e \in Nat /\ e = adr + n - 1 /\ adr <= e /\ MaxSize[f] \in Nat
  BY <1>1, <1>3, ValueIs, WordFileAssumption DEF WordFileAssumption, Tables, Size, DoubleWords
<1>5. P' = P /\ P \in Nat /\ P % 2 = 0 BY <1>1, <1>3, PageSize DEF Tables, P
<1>6. /\ v = HeldWords(P, disk[f], page[f], s) /\ Len(v) = s
      /\ P # 0 => EvenFile(disk[f], page[f], s)
  <2>1. ~Writing(f) BY <1>1 DEF Writing, NoCall
  <2> QED BY <1>4, <2>1, NoWrite
<1>7. fresh'[f] = fr /\ (\A g \in Files \ {f} : fresh'[g] = fresh[g]) /\ fresh' = [g \in Files |-> fresh'[g]]
  <2>1. fresh = [g \in Files |-> fresh[g]] BY <1>3 DEF Tables
  <2>2. fresh' = [fresh EXCEPT ![f] = fr] BY <1>1
  <2> HIDE DEF fr
  <2>3. fresh' = [g \in Files |-> IF g = f THEN fr ELSE fresh[g]] BY <2>1, <2>2
  <2> QED BY <2>3
<1> HIDE DEF s, e, v, t
<1>8. /\ TodoGood(P, f, s, fr, t)
      /\ s % 2 = 0 => TodoEven(s, t)
      /\ \A h : Over(s, h, t) = Marked(h, s, adr, e, w)
  <2>1. s + 1 .. adr \subseteq fr /\ adr .. e \subseteq fr OBVIOUS
  <2> HIDE DEF fr
  <2>2. PlanCase(f, s, adr, n, w, e, fr) BY <1>1, <1>4, <2>1 DEF PlanCase
  <2> QED BY <1>5, <2>2, PlanIs DEF t
<1>9. \A g \in Files : Size(g)' = Size(g) BY <1>1 DEF Size
<1>10. Tables' BY <1>1, <1>3, <1>7 DEF Tables
<1>11. FilesGood'
  <2> SUFFICES ASSUME NEW g \in Files PROVE FileGood(P, g, disk[g], page[g], Size(g), fresh'[g])
    BY <1>1, <1>5, <1>9 DEF FilesGood
  <2>1. FileGood(P, g, disk[g], page[g], Size(g), fresh[g]) BY <1>3 DEF FilesGood
  <2>2. CASE g # f BY <1>7, <2>1, <2>2
  <2>3. CASE g = f
    <3> DEFINE d == disk[f]
               m == page[f]
               old == fresh[f]
    <3>1. FileGood(P, f, d, m, s, old) BY <1>4, <2>1, <2>3
    <3>2. fr \subseteq 1 .. MaxSize[f]
      <4>1. old \subseteq 1 .. MaxSize[f] BY <3>1 DEF FileGood
      <4> QED BY <1>1, <1>4, <4>1
    <3>3. old \subseteq fr OBVIOUS
    <3> HIDE DEF d, m, old, fr
    <3>4. FileGood(P, f, d, m, s, fr) BY <3>1, <3>2, <3>3 DEF FileGood
    <3> QED BY <1>4, <1>7, <2>3, <3>4 DEF d, m
  <2> QED BY <2>2, <2>3
<1>12. ClosedFiles' BY <1>1, <1>3, <1>7 DEF ClosedFiles
<1>13. FilesEven'
  <2> SUFFICES ASSUME P # 0, NEW g \in Files PROVE EvenFile(disk[g], page[g], Size(g))
    BY <1>1, <1>5, <1>9 DEF FilesEven
  <2>1. ~Writing(g) BY <1>1 DEF Writing, NoCall
  <2> QED BY <2>1, NoWrite
<1>14. CallGood'
  <2>1. call' = [op |-> "write", file |-> f, todo |-> call'.todo] /\ call'.todo = t BY <1>2
  <2>2. size'[f] = s /\ f \in opened' \ ReadOnly BY <1>1 DEF s
  <2>3. P # 0 => TodoEven(s, t) BY <1>6, <1>8 DEF EvenFile
  <2>4. TodoGood(P', f, size'[f], fresh'[f], call'.todo) BY <1>5, <1>7, <1>8, <2>1, <2>2
  <2>5. P' # 0 => TodoEven(size'[f], call'.todo) BY <1>5, <2>1, <2>2, <2>3
  <2> QED BY <2>1, <2>2, <2>4, <2>5 DEF CallGood
<1>15. IInv' BY <1>10, <1>11, <1>12, <1>13, <1>14 DEF IInv
<1>16. Todo(f)' = t /\ \A g \in Files : Todo(g) = <<>> /\ (g # f => Todo(g)' = <<>>)
  BY <1>1, <1>2 DEF Todo, NoCall
<1>17. \A g \in Files : Seen(g)' = IF g = f THEN Marked(v, s, adr, e, w) ELSE Seen(g)
  <2> TAKE g \in Files
  <2>1. IInv' => SeenRight' BY SeenNow, PTL
  <2>2. Seen(g)' = SeenAs(g)' /\ Seen(g) = SeenAs(g) BY <1>15, <2>1, SeenNow DEF SeenRight
  <2>3. SeenAs(g) = Over(Size(g), HeldWords(P, disk[g], page[g], Size(g)), Todo(g)) BY DEF SeenAs
  <2>4. SeenAs(g)' = Over(Size(g)', HeldWords(P', disk'[g], page'[g], Size(g)'), Todo(g)') BY DEF SeenAs
  <2>5. SeenAs(g)' = Over(Size(g), HeldWords(P, disk[g], page[g], Size(g)), Todo(g)')
    BY <1>1, <1>5, <1>9, <2>4
  <2>6. CASE g # f BY <1>16, <2>2, <2>3, <2>5, <2>6
  <2>7. CASE g = f BY <1>4, <1>6, <1>8, <1>16, <2>2, <2>5, <2>7
  <2> QED BY <2>6, <2>7
<1>18. A!Write(f, adr, n, w)
  <2> DEFINE new == Marked(v, s, adr, e, w)
             ws == [g \in Files |-> Seen(g)]
  <2>1. ws[f] = v BY DEF v
  <2>2. [g \in Files |-> Seen(g)'] = [ws EXCEPT ![f] = new]
    <3>1. \A g \in Files : Seen(g)' = IF g = f THEN new ELSE Seen(g) BY <1>17
    <3> HIDE DEF new
    <3>2. [g \in Files |-> Seen(g)'] = [g \in Files |-> IF g = f THEN new ELSE Seen(g)] BY <3>1
    <3> QED BY <3>2
  <2>3. new = [a \in 1 .. (IF e > s THEN e ELSE s) |->
                 IF a \in adr .. e THEN <<w, a>> ELSE IF a <= s THEN v[a] ELSE Junk]
    <3>1. Larger(s, e) = IF e > s THEN e ELSE s BY <1>4 DEF Larger
    <3> QED BY <3>1 DEF Marked
  <2>4. fresh[f] \cup (adr .. e) \cup (s + 1 .. e) = fr BY <1>4
  <2>5. fresh' = [fresh EXCEPT ![f] = @ \cup (adr .. e) \cup (s + 1 .. e)]
    <3>1. fresh' = [fresh EXCEPT ![f] = fr] BY <1>1 DEF s, e
    <3> HIDE DEF fr
    <3> QED BY <2>4, <3>1
  <2> HIDE DEF ws, new, fr
  <2>6. /\ f \in opened \ ReadOnly /\ UNCHANGED opened /\ got' = A!NoAnswer
        /\ adr <= Len(ws[f]) + Hole
        /\ fresh' = [fresh EXCEPT ![f] = @ \cup (adr .. e) \cup (Len(ws[f]) + 1 .. e)]
        /\ [g \in Files |-> Seen(g)'] =
             [ws EXCEPT ![f] = [a \in 1 .. (IF e > Len(ws[f]) THEN e ELSE Len(ws[f])) |->
                 IF a \in adr .. e THEN <<w, a>>
                 ELSE IF a <= Len(ws[f]) THEN ws[f][a] ELSE Junk]]
    <3>1. adr <= s + Hole BY <1>1 DEF s
    <3>2. f \in opened \ ReadOnly /\ UNCHANGED opened /\ got' = A!NoAnswer
      BY <1>1 DEF NoAnswer, A!NoAnswer
    <3>3. ws[f] = v /\ Len(ws[f]) = s BY <1>6, <2>1
    <3> QED BY <2>2, <2>3, <2>5, <3>1, <3>2, <3>3
  <2> QED BY <2>6 DEF A!Write, ws, e
<1> QED BY <1>15, <1>18 DEF Implemented, A!Next

---------------------------------------------------------------------------
(* A program stops, another one begins. *)

(* A file of which nothing is in memory.                                   *)
LEMMA OnDisk ==
  ASSUME NEW f \in Files, NEW d \in Seq(Value(f)), Len(d) <= MaxSize[f], NEW z
  PROVE  FileGood(z, f, d, NoPages, Len(d), {})
<1>1. Len(d) \in 0 .. MaxSize[f] /\ Len(d) \in Nat BY ValueIs
<1>2. DOMAIN NoPages = {} BY DEF NoPages
<1>3. \A a \in 1 .. Len(d) : a <= Len(d) /\ HeldIn(z, d, NoPages, a) = d[a] BY <1>1, <1>2 DEF HeldIn
<1>4. Len(d) + 1 .. Len(d) = {} BY <1>1
<1> QED BY <1>1, <1>2, <1>3, <1>4 DEF FileGood

(* What the disk has is what the program saw, but for what it wrote since  *)
(* it opened the file.                                                     *)
LEMMA DiskIsKept ==
  ASSUME IInv, NEW f \in Files
  PROVE  /\ Len(disk[f]) <= Len(Seen(f))
         /\ \A a \in (1 .. Len(Seen(f))) \ fresh[f] : a <= Len(disk[f]) /\ disk[f][a] = Seen(f)[a]
<1> DEFINE n == Size(f)
           d == disk[f]
           t == Todo(f)
           h == HeldWords(P, d, page[f], n)
           v == Seen(f)
           fr == fresh[f]
<1>1. n \in Nat /\ FileGood(P, f, d, page[f], n, fr) BY SizeIs DEF IInv, FilesGood
<1>2. Len(d) \in Nat /\ Len(d) <= n /\ \A a \in (1 .. n) \ fr : a <= Len(d) /\ HeldIn(P, d, page[f], a) = d[a]
  BY <1>1, ValueIs DEF FileGood
<1>3. v = Over(n, h, t) BY SeenNow DEF SeenRight, SeenAs
<1>4. h = [a \in 1 .. n |-> HeldIn(P, d, page[f], a)] BY DEF HeldWords
<1>5. t = <<>> \/ TodoGood(P, f, n, fr, t)
  <2>1. CASE ~Writing(f) BY <2>1 DEF Todo, Writing
  <2>2. CASE Writing(f)
    <3>1. f \in opened /\ t = call.todo /\ TodoGood(P, f, size[f], fr, call.todo)
      BY <2>2 DEF IInv, CallGood, Writing, Todo, NoCall
    <3> QED BY <3>1 DEF Size
  <2> QED BY <2>1, <2>2
<1>6. \A a \in fr : a \in 1 .. MaxSize[f] BY <1>1 DEF FileGood
<1> HIDE DEF n, d, t, h, v, fr
<1>7. /\ TopOf(n, t) \in Nat /\ n <= TopOf(n, t)
      /\ \A a \in (1 .. TopOf(n, t)) \ fr : Covers(t, a) = {} /\ a <= n
  <2>1. CASE t = <<>>
    <3>1. \A a : Covers(t, a) = {} BY <2>1 DEF Covers
    <3>2. TopOf(n, t) = n BY <2>1 DEF TopOf
    <3> QED BY <1>1, <3>1, <3>2
  <2>2. CASE t # <<>> /\ TodoGood(P, f, n, fr, t)
    <3> DEFINE e == EndOf(t[Len(t)])
    <3>1. /\ t \in Seq(WriteRequest(f)) /\ Len(t) \in Nat \ {0} /\ DOMAIN t = 1 .. Len(t) /\ Len(t) \in 1 .. Len(t)
      BY <2>2 DEF TodoGood
    <3>2. /\ \A i \in 1 .. Len(t) : t[i].adr .. EndOf(t[i]) \subseteq fr
          /\ \A a \in n + 1 .. e : Covers(t, a) # {}
      BY <2>2 DEF TodoGood
    <3>3. e \in Int
      <4>1. t[Len(t)] \in WriteRequest(f) BY <3>1
      <4> QED BY <4>1 DEF WriteRequest, EndOf
    <3>4. \A a : Covers(t, a) # {} => a \in fr BY <3>1, <3>2 DEF Covers, EndOf
    <3>5. TopOf(n, t) = Larger(n, e) BY <2>2 DEF TopOf
    <3> HIDE DEF e
    <3>6. TopOf(n, t) \in Nat /\ n <= TopOf(n, t) /\ (TopOf(n, t) = n \/ TopOf(n, t) = e)
      BY <1>1, <3>3, <3>5 DEF Larger
    <3>7. ASSUME NEW a \in (1 .. TopOf(n, t)) \ fr PROVE Covers(t, a) = {} /\ a <= n
      <4>1. Covers(t, a) = {} BY <3>4
      <4>2. a \notin n + 1 .. e BY <3>2, <4>1
      <4> QED BY <1>1, <3>3, <3>6, <4>1, <4>2
    <3> QED BY <3>6, <3>7
  <2> QED BY <1>5, <2>1, <2>2
<1>8. Len(v) = TopOf(n, t) /\ \A a \in 1 .. TopOf(n, t) : Covers(t, a) = {} => v[a] = h[a]
  <2> DEFINE S == {v[a] : a \in 1 .. TopOf(n, t)}
  <2>1. v = [a \in 1 .. TopOf(n, t) |-> v[a]] BY <1>3 DEF Over
  <2>2. v \in [1 .. TopOf(n, t) -> S] BY <2>1
  <2> HIDE DEF S
  <2>3. Len(v) = TopOf(n, t) BY <1>7, <2>2, FunctionIsSeq
  <2> QED BY <1>3, <2>3 DEF Over
<1>9. ASSUME NEW a \in (1 .. Len(v)) \ fr PROVE a <= Len(d) /\ d[a] = v[a]
  <2>1. Covers(t, a) = {} /\ a <= n /\ a \in 1 .. TopOf(n, t) BY <1>7, <1>8
  <2>2. a \in (1 .. n) \ fr BY <1>1, <1>7, <2>1
  <2> QED BY <1>2, <1>4, <1>8, <2>1, <2>2
<1>10. Len(d) <= Len(v) BY <1>1, <1>2, <1>7, <1>8
<1> QED BY <1>9, <1>10 DEF d, v, fr

SeenIsDisk == \A f \in Files : Seen(f) = disk[f]

LEMMA SeenOnDisk == IInv /\ opened = {} /\ call = NoCall => SeenIsDisk
<1> SUFFICES ASSUME IInv, opened = {}, call = NoCall, NEW f \in Files PROVE Seen(f) = disk[f]
  BY DEF SeenIsDisk
<1> DEFINE d == disk[f]
           m == page[f]
<1>1. ~Writing(f) /\ Size(f) = Len(d) /\ DOMAIN m = {} BY DEF Writing, NoCall, Size, IInv, ClosedFiles
<1>2. Seen(f) = HeldWords(P, d, m, Len(d)) BY <1>1, NoWrite
<1>3. d \in Seq(Value(f)) BY DEF IInv, FilesGood, FileGood
<1> HIDE DEF d, m
<1>4. \A a \in 1 .. Len(d) : HeldIn(P, d, m, a) = d[a] BY <1>1, <1>3 DEF HeldIn
<1>5. HeldWords(P, d, m, Len(d)) = [a \in 1 .. Len(d) |-> d[a]] BY <1>4 DEF HeldWords
<1>6. d = [a \in 1 .. Len(d) |-> d[a]] BY <1>3
<1>7. Seen(f) = d BY <1>2, <1>5, <1>6
<1> QED BY <1>7 DEF d

LEMMA StopStep ==
  ASSUME IInv, DoubleWords, AllAlike, Stop
  PROVE  IInv' /\ Implemented
<1>1. /\ config' \in Configs /\ (config'.WA_PAGE_SIZE = 0 <=> ~Paged) /\ opened' = {}
      /\ size' = [f \in Files |-> 0] /\ page' = [f \in Files |-> NoPages] /\ call' = NoCall
      /\ fresh' = [f \in Files |-> {}] /\ got' = NoAnswer /\ disk' = disk
  BY DEF Stop
<1>2. Tables /\ FilesGood BY DEF IInv
<1>3. P' = 0 <=> P = 0 BY <1>1 DEF P, Paged
<1>4. Tables' BY <1>1, <1>2 DEF Tables
<1>5. \A f \in Files : Size(f)' = Len(disk[f]) /\ page'[f] = NoPages /\ fresh'[f] = {} BY <1>1 DEF Size
<1>6. FilesGood'
  <2> SUFFICES ASSUME NEW f \in Files PROVE FileGood(P', f, disk[f], NoPages, Len(disk[f]), {})
    BY <1>1, <1>5 DEF FilesGood
  <2> DEFINE d == disk[f]
             n == Size(f)
  <2>1. FileGood(P, f, d, page[f], n, fresh[f]) /\ n \in Nat BY <1>2, SizeIs DEF FilesGood
  <2> HIDE DEF d, n
  <2>2. d \in Seq(Value(f)) /\ Len(d) <= MaxSize[f] BY <2>1, ValueIs DEF FileGood
  <2>3. FileGood(P', f, d, NoPages, Len(d), {}) BY <2>2, OnDisk
  <2> QED BY <2>3 DEF d
<1>7. ClosedFiles' BY <1>1 DEF ClosedFiles, NoPages
<1>8. FilesEven'
  <2> SUFFICES ASSUME P # 0, NEW f \in Files PROVE EvenFile(disk[f], NoPages, Len(disk[f]))
    BY <1>1, <1>3, <1>5 DEF FilesEven
  <2>1. Len(disk[f]) % 2 = 0 BY DEF IInv, FilesEven, EvenFile, OddFile
  <2> QED BY <2>1 DEF EvenFile, NoPages
<1>9. CallGood' BY <1>1 DEF CallGood
<1>10. IInv' BY <1>4, <1>6, <1>7, <1>8, <1>9 DEF IInv
<1>11. \A f \in Files : Seen(f)' = disk[f]
  <2>1. (IInv /\ opened = {} /\ call = NoCall => SeenIsDisk)' BY SeenOnDisk, PTL
  <2> QED BY <1>1, <1>10, <2>1 DEF SeenIsDisk
<1>12. \A f \in Files : A!Kept(f, Seen(f)') BY <1>11, DiskIsKept DEF A!Kept
<1>13. A!Stop BY <1>1, <1>12 DEF A!Stop, NoAnswer, A!NoAnswer
<1> QED BY <1>10, <1>13 DEF Implemented, A!Next

LEMMA InitStep ==
  ASSUME Init, DoubleWords
  PROVE  IInv /\ A!Init
<1>1. /\ disk = Initial /\ config \in Configs /\ opened = {} /\ size = [f \in Files |-> 0]
      /\ page = [f \in Files |-> NoPages] /\ call = NoCall /\ fresh = [f \in Files |-> {}] /\ got = NoAnswer
  BY DEF Init
<1>2. Initial = [f \in Files |-> Initial[f]] /\ \A f \in Files : Len(Initial[f]) <= MaxSize[f]
  BY WordFileAssumption DEF WordFileAssumption
<1>3. \A f \in Files : Initial[f] \in Seq(Value(f)) /\ Len(Initial[f]) % 2 = 0
  <2> TAKE f \in Files
  <2>1. Initial[f] \in Seq({Zero}) BY WordFileAssumption DEF WordFileAssumption
  <2>2. {Zero} \subseteq Value(f) BY ValueIs
  <2>3. Initial[f] \in Seq(Value(f))
    <3> DEFINE d == Initial[f]
    <3>1. \A a \in 1 .. Len(d) : d[a] \in Value(f) BY <2>1, <2>2
    <3>2. Len(d) \in Nat /\ d = [a \in 1 .. Len(d) |-> d[a]] BY <2>1
    <3> HIDE DEF d
    <3>3. d \in [1 .. Len(d) -> Value(f)] BY <3>1, <3>2
    <3>4. d \in Seq(Value(f)) BY <3>2, <3>3, FunctionIsSeq
    <3> QED BY <3>4 DEF d
  <2> QED BY <2>3 DEF DoubleWords
<1>4. Tables BY <1>1, <1>2 DEF Tables
<1>5. FilesGood
  <2> SUFFICES ASSUME NEW f \in Files PROVE FileGood(P, f, Initial[f], NoPages, Len(Initial[f]), {})
    BY <1>1 DEF FilesGood, Size
  <2> QED BY <1>2, <1>3, OnDisk
<1>6. ClosedFiles BY <1>1 DEF ClosedFiles, NoPages
<1>7. FilesEven
  <2> SUFFICES ASSUME NEW f \in Files PROVE EvenFile(Initial[f], NoPages, Len(Initial[f]))
    BY <1>1 DEF FilesEven, Size
  <2> QED BY <1>3 DEF EvenFile, NoPages
<1>8. CallGood BY <1>1 DEF CallGood
<1>9. IInv BY <1>4, <1>5, <1>6, <1>7, <1>8 DEF IInv
<1>10. \A f \in Files : Seen(f) = Initial[f] BY <1>1, <1>9, SeenOnDisk DEF SeenIsDisk
<1>11. [f \in Files |-> Seen(f)] = Initial BY <1>2, <1>10
<1> QED BY <1>1, <1>9, <1>11 DEF A!Init, NoAnswer, A!NoAnswer

LEMMA NoStep ==
  ASSUME IInv, UNCHANGED vars
  PROVE  IInv' /\ Implemented
<1>1. UNCHANGED <<disk, config, opened, size, page, call, fresh, got>> BY DEF vars
<1>2. P' = P /\ (\A f \in Files : Size(f)' = Size(f) /\ Todo(f)' = Todo(f)) BY <1>1 DEF P, Size, Todo
<1>3. \A f \in Files : Seen(f)' = Seen(f)
  BY <1>1 DEF Seen, Todo, Covers, Held, InMemory, Paged, PageOf
<1>4. Tables' /\ FilesGood' /\ ClosedFiles' /\ FilesEven'
  BY <1>1, <1>2 DEF IInv, Tables, FilesGood, ClosedFiles, FilesEven, Writing
<1>5. CallGood' BY <1>1, <1>2, <1>3 DEF IInv, Tables, CallGood
<1> QED BY <1>1, <1>3, <1>4, <1>5, Stutter DEF IInv

LEMMA Step ==
  ASSUME IInv, DoubleWords, AllAlike, [Next]_vars
  PROVE  IInv' /\ Implemented
<1>1. ASSUME NEW f \in Files, Open(f) PROVE IInv' /\ Implemented BY <1>1, OpenStep
<1>2. ASSUME NEW f \in Files, StartClose(f) PROVE IInv' /\ Implemented BY <1>2, StartCloseStep
<1>3. ASSUME NEW f \in Files, NEW adr \in Starts, NEW n \in Lengths, StartRead(f, adr, n)
      PROVE  IInv' /\ Implemented
  BY <1>3, StartReadStep
<1>4. ASSUME NEW f \in Files, NEW adr \in Starts, NEW n \in Lengths, NEW w \in Marks, StartWrite(f, adr, n, w)
      PROVE  IInv' /\ Implemented
  BY <1>4, StartWriteStep
<1>5. CASE DirectWrite
  <2>1. IInv' /\ \A g \in Files : Seen(g)' = Seen(g) BY <1>5, DirectWriteStep
  <2> QED BY <1>5, <2>1, Stutter DEF DirectWrite
<1>6. CASE WaPageWrite
  <2>1. IInv' /\ \A g \in Files : Seen(g)' = Seen(g) BY <1>6, WaPageWriteStep
  <2>2. UNCHANGED <<opened, fresh, got>> BY <1>6 DEF WaPageWrite
  <2> QED BY <2>1, <2>2, Stutter
<1>7. CASE DirectRead BY <1>7, DirectReadStep
<1>8. CASE WaPageRead BY <1>8, WaPageReadStep
<1>9. ASSUME NEW k \in InMemory(call.file), FlushPage(k) PROVE IInv' /\ Implemented BY <1>9, FlushPageStep
<1>10. CASE EndClose BY <1>10, EndCloseStep
<1>11. CASE Stop BY <1>11, StopStep
<1>12. CASE UNCHANGED vars BY <1>12, NoStep
<1> QED BY <1>1, <1>2, <1>3, <1>4, <1>5, <1>6, <1>7, <1>8, <1>9, <1>10, <1>11, <1>12 DEF Next

---------------------------------------------------------------------------
(* What the program may rely on. *)

LEMMA Typed == IInv => TypeOK
<1> SUFFICES ASSUME IInv, NEW f \in Files
             PROVE  /\ Len(disk[f]) <= MaxSize[f] /\ \A a \in 1 .. Len(disk[f]) : disk[f][a] \in Value(f)
                    /\ \A k \in InMemory(f) : k \in Nat /\ page[f][k] \in PageType(f, k)
                    /\ fresh[f] \subseteq 1 .. MaxSize[f]
  BY DEF TypeOK, IInv, Tables
<1> DEFINE d == disk[f]
           m == page[f]
           s == Size(f)
<1>1. FileGood(P, f, d, m, s, fresh[f]) BY DEF IInv, FilesGood
<1>2. s \in Nat /\ s <= MaxSize[f] /\ MaxSize[f] \in Nat BY SizeIs, ValueIs DEF IInv
<1>3. \A k \in DOMAIN m : k \in Nat /\ m[k] \in PageType(f, k)
  <2> TAKE k \in DOMAIN m
  <2>1. PageGood(P, f, d, s, k, m[k]) /\ k \in Nat BY <1>1 DEF FileGood
  <2>2. First(k) .. Last(k) = Span(P, k) BY PageTerms DEF Span
  <2> HIDE DEF d, m, s
  <2> QED BY <2>1, <2>2 DEF PageGood, PageType
<1> HIDE DEF d, m, s
<1>4. d \in Seq(Value(f)) /\ Len(d) <= s /\ fresh[f] \subseteq 1 .. MaxSize[f] BY <1>1 DEF FileGood
<1>5. Len(d) \in Nat /\ Len(d) <= MaxSize[f] /\ \A a \in 1 .. Len(d) : d[a] \in Value(f) BY <1>2, <1>4
<1> QED BY <1>3, <1>4, <1>5 DEF d, m, InMemory

LEMMA AllHeld == IInv => NoWordIsMissing
<1> SUFFICES ASSUME IInv, NEW f \in opened
             PROVE  /\ Len(disk[f]) <= size[f]
                    /\ \A a \in Len(disk[f]) + 1 .. size[f] :
                         \E k \in InMemory(f) : /\ a \in First(k) .. Last(k)
                                                /\ a <= page[f][k].walast /\ page[f][k].touched
  BY DEF NoWordIsMissing
<1>1. f \in Files /\ Size(f) = size[f] BY DEF IInv, Tables, Size
<1>2. FileGood(P, f, disk[f], page[f], size[f], fresh[f]) BY <1>1 DEF IInv, FilesGood
<1>3. \A k : First(k) .. Last(k) = Span(P, k) BY PageTerms DEF Span
<1> QED BY <1>2, <1>3 DEF FileGood, InMemory

(* IInv is an inductive invariant, and each step that keeps it is a step   *)
(* of WordArray or changes nothing of it.                                  *)
THEOREM Invariance ==
  ASSUME AllAlike, DoubleWords
  PROVE  Spec => []IInv
<1>1. Init => IInv BY InitStep
<1>2. IInv /\ [Next]_vars => IInv' BY Step
<1> QED BY <1>1, <1>2, PTL DEF Spec

(* The variables keep their types, the words of a file on disk and in      *)
(* memory never are more than what the file may hold: TypeOK, for every    *)
(* size of page and pool, as long as the requests are of whole 64-bit      *)
(* words and the programs of a site all use pages or all none.             *)
THEOREM WordTypes ==
  ASSUME AllAlike, DoubleWords
  PROVE  Spec => []TypeOK
<1>1. Spec => []IInv BY Invariance
<1> QED BY <1>1, Typed, PTL

(* No word of an open file is lost by the pool: it is on disk, or in a     *)
(* page in memory that scrap_page will write that far.                     *)
THEOREM NothingMissing ==
  ASSUME AllAlike, DoubleWords
  PROVE  Spec => []NoWordIsMissing
<1>1. Spec => []IInv BY Invariance
<1> QED BY <1>1, AllHeld, PTL

(* Through pages that come and go, gaps, files that share the pool and     *)
(* programs that stop, the files are the arrays of words of WordArray: a   *)
(* read gives what was written last, a program that stops loses nothing    *)
(* it had not written since it opened the file.                            *)
THEOREM KeepsArray ==
  ASSUME AllAlike, DoubleWords
  PROVE  Spec => Promise
<1>1. Init => A!Init BY InitStep
<1>2. IInv /\ [Next]_vars => [A!Next]_(A!vars) BY Step DEF Implemented
<1>3. Spec => []IInv BY Invariance
<1> QED BY <1>1, <1>2, <1>3, PTL DEF Spec, Promise, A!Spec

=============================================================================
