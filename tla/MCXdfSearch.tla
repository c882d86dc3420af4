---------------------------- MODULE MCXdfSearch ----------------------------
(***************************************************************************)
(* Instances of XdfSearch for TLC.                                         *)
(***************************************************************************)
EXTENDS XdfSearch, TLC

CONSTANT k1

\* three files of five pages that were written, and erased in part, before
Five == << << <<Gone, Gone>> >>,
           << <<Gone, Gone>>, <<Gone, Gone>> >>,
           << <<k1, Gone>>, <<k1>> >> >>

\* a new file
Empty == << << <<>> >> >>

=============================================================================
