---------------------------- MODULE OverlayMemory ----------------------------
(***************************************************************************)
(* What a dirty-page overlay promises (winreg-core/src/txlog.rs, lines     *)
(* 14-15): the bytes of the hive are read through, and every page that was *)
(* applied shows in full, the page applied last on top.                    *)
(*                                                                         *)
(* A byte is the place it was copied from: <<0, p>> is byte p of the base  *)
(* hive, <<n, q>> byte q of the n-th transaction log.                      *)
(***************************************************************************)
EXTENDS Integers

CONSTANT
  HiveLen     \* number of bytes of the hive, the length of the overlay too

VARIABLES
  mem,        \* what a reader of the whole overlay sees
  last        \* the page applied last, or NoWrite

Write == [off : Nat, log : Nat, at : Nat, len : Nat]

NoWrite == [off |-> 0, log |-> 0, at |-> 0, len |-> 0]

Overlaid(m, w) ==
  [p \in 0 .. HiveLen - 1 |->
     IF w.off <= p /\ p < w.off + w.len THEN <<w.log, w.at + (p - w.off)>>
                                        ELSE m[p]]

Init == /\ mem = [p \in 0 .. HiveLen - 1 |-> <<0, p>>]
        /\ last = NoWrite

\* apply_page: the page just applied, last', covers whatever was there.
Apply == /\ last' \in Write
         /\ mem' = Overlaid(mem, last')

Next == Apply

Spec == Init /\ [][Next]_<<mem, last>>
=============================================================================
