------------------------------- MODULE MCRram -------------------------------
(***************************************************************************)
(* Rram on a small memory: units of 2 bytes, at most 2 units per write,    *)
(* application memory of 4 units (bytes 0 to 7) with configuration memory  *)
(* from byte 8. The regions are one that ends inside a unit, one that      *)
(* reaches into configuration memory (refused) and one that begins there   *)
(* (refused); sizes and addresses include unaligned and too large ones.    *)
(***************************************************************************)
EXTENDS Rram

MCRegions == {[origin |-> 2, length |-> 5], [origin |-> 4, length |-> 5],
              [origin |-> 8, length |-> 2]}
MCContents == {[o \in Offsets |-> IF o = 0 THEN "a" ELSE "b"]}
=============================================================================
