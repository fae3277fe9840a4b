----------------------------- MODULE UsageLedger -----------------------------
(***************************************************************************)
(* What the scan pipeline promises about one provider, whatever files,     *)
(* fingerprints and crashes it goes through: usage the tool has written    *)
(* down is entered in the ledger, nothing else is, nothing leaves it; what *)
(* a later scan may pass over is already in it; and it is called settled,  *)
(* so that scans do nothing at all, only when all usage is in it.          *)
(* ScanStore implements this specification.                                *)
(***************************************************************************)
CONSTANT Record

VARIABLES
    used,        \* the records the tool has produced so far
    ledger,      \* the records in the database
    checkpoint,  \* the records the next scan takes for granted
    settled      \* would the next scan be skipped?

vars == <<used, ledger, checkpoint, settled>>

Init == used = {} /\ ledger = {} /\ checkpoint = {} /\ settled = FALSE

\* The tool writes: perhaps records, in any case something to look at.
Use ==
    /\ \E S \in SUBSET Record : used' = used \cup S
    /\ settled' = FALSE
    /\ UNCHANGED <<ledger, checkpoint>>

\* A transaction of a scan commits.
Enter ==
    /\ \E S \in SUBSET used : ledger' = ledger \cup S
    /\ UNCHANGED <<used, checkpoint, settled>>

\* A scan notes how far it got.
Vouch ==
    /\ \E S \in SUBSET ledger : checkpoint' = S
    /\ UNCHANGED <<used, ledger, settled>>

\* A scan notes what it saw: all there is, or something out of date by now.
Settle ==
    /\ \/ used \subseteq ledger /\ settled' = TRUE
       \/ settled' = FALSE
    /\ UNCHANGED <<used, ledger, checkpoint>>

Next == Use \/ Enter \/ Vouch \/ Settle

Spec == Init /\ [][Next]_vars

=============================================================================
