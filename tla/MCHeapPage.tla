---------------------------- MODULE MCHeapPage ----------------------------
(* Transactions 3 and 5, the subtransaction 4 of 3 on another log page.   *)
EXTENDS HeapPage

MCXids == {3, 4, 5}
MCSubOf == [x \in MCXids |-> IF x = 4 THEN 3 ELSE x]
=============================================================================
