------------------------------ MODULE MCNvsClient ------------------------------
(****************************************************************************)
(* Instances of NvsClient for TLC.  A word of the entry table has 4 bytes   *)
(* of 4 entries, as in the code; the pages are those of the code (8 pages   *)
(* of 126 entries, NvsNamespaces) or shorter ones (31 entries, NvsCommit).  *)
(****************************************************************************)
EXTENDS NvsClient, FiniteSetsExt

MCKeyHash(ns, key) == IF key = {} THEN 0 ELSE 1 + SumSet(key) + Cardinality(ns)

PhyName == {5}
NameA == {5, 6}
NameB == {6, 7}
OneName == {NameA}
TwoNames == {NameA, NameB}
OneKey == {{4, 5}}
FourKeys == {{4, 5}, {4, 7}, {4, 8}, {7, 8}}
OneValue == {{1}}
TwoValues == {{1}, {2}}
Nothing == {}
================================================================================
