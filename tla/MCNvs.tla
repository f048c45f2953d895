--------------------------------- MODULE MCNvs ---------------------------------
(****************************************************************************)
(* Instance of Nvs for TLC: three pages of three entries.  A word of the    *)
(* entry table covers two entries (16 in the code) and a byte one (4 in the *)
(* code), so entry 0 stands for the entries 0..3 whose word index is right, *)
(* entry 1 for 4..31 and entry 2 for 32..125, whose index is past the table.*)
(****************************************************************************)
EXTENDS Nvs, FiniteSetsExt

MCKeyHash(ns, key) == IF key = {} THEN 0 ELSE 1 + SumSet(key) + Cardinality(ns)

PhyName == {5}
OneName == {{5, 6}}
OneKey == {{4, 5}}
OneValue == {{1}}
TwoValues == {{1}, {2}}
LongBlob == {3}
ZeroOneTwo == {0, 1, 2}
AllApis == {"erase_key", "erase_all", "flash_erase"}
SomeApis == {"erase_key", "flash_erase"}
ZeroOne == {0, 1}
================================================================================
