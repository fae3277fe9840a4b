------------------------------ MODULE MCAdapters ------------------------------
(* Two calls, billed in powers of two so that no two sums of counters agree. *)
EXTENDS Adapters

MCCalls == <<"c1", "c2">>

MCBill ==
    "c1" :> [fresh |-> 1, read |-> 2, write |-> 4, output |-> 8, reasoning |-> 16]
    @@ "c2" :> [fresh |-> 32, read |-> 64, write |-> 128, output |-> 256, reasoning |-> 512]
===============================================================================
