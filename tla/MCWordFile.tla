----------------------------- MODULE MCWordFile -----------------------------
(* A file of a page and a half next to one of half a page that is only read, *)
(* with no pages, one page in all, or two pages for the three they could use *)
EXTENDS WordFile, TLC

CONSTANTS rw, ro, m1, m2

Config(s, n, l) == [WA_PAGE_SIZE |-> s, WA_PAGE_NB |-> n, WA_PAGE_LIMIT |-> l]
AnyConfig    == {Config(0, 1, 1), Config(4, 1, 1), Config(4, 2, 2)}
TwoInRo       == [h \in Files |-> IF h = ro THEN <<Zero, Zero>> ELSE <<>>]
SixAndTwo    == [h \in Files |-> IF h = rw THEN 6 ELSE 2]
MarkSymmetry == Permutations(Marks)
=============================================================================
