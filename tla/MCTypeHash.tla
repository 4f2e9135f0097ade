----------------------------- MODULE MCTypeHash -----------------------------
(****************************************************************************)
(* Type ids of six bits; a few multipliers, good and bad.                   *)
(****************************************************************************)
EXTENDS TypeHash

\* A program of classes with one type id each.
Single(ids) == [n \in DOMAIN ids |-> [class |-> n, id |-> ids[n]]]

\* No class; one, two and three classes, with type ids aligned on four, which
\* any odd multiplier tells apart in four bits; two at neighbouring addresses,
\* for which the search may fail; two with type ids from several shared
\* libraries.
SmallPrograms ==
    { <<>>,
      Single(<<32>>),
      Single(<<4, 8>>), Single(<<32, 33>>),
      Single(<<4, 8, 12>>), Single(<<44, 20, 32>>),
      << [class |-> 1, id |-> 8], [class |-> 1, id |-> 16],
         [class |-> 2, id |-> 24], [class |-> 2, id |-> 40],
         [class |-> 2, id |-> 56] >> }

SomeMultipliers == {1, 11, 29, 63}
=============================================================================
