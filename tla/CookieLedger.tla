---------------------------- MODULE CookieLedger ----------------------------
(***************************************************************************)
(* What the persisted-cookie pipeline promises about the table, with       *)
(* nothing of how it gets there: no passes, requests, browsers or ticks.   *)
(*                                                                         *)
(* An entry is a value and a verdict about it.  A verdict is for good: only*)
(* a new value lifts it.  It needs evidence: "dead" that a key was lost,   *)
(* "rejected" that strikes have been counted up to the threshold.  Between *)
(* the last strike and the verdict the pipeline may be interrupted, and a  *)
(* new value may be put: the charge stands, and hits the new value (which  *)
(* is more than cookie_store.py promises, see the README's findings).      *)
(***************************************************************************)
EXTENDS Naturals

CONSTANTS Identity, None, Threshold

VARIABLES
    entry,      \* entry[id]: the value, its verdict and its strikes, or None
    charge,     \* the cookie about to be judged "rejected", or None
    lost        \* whether a key has been lost

lvars == <<entry, charge, lost>>

Active(id) == entry[id] # None /\ entry[id].verdict = "none"

LedgerInit == entry = [id \in Identity |-> None] /\ charge = None /\ ~lost

\* a sync or a persist; a new value has a clean slate
PutEntry(id) ==
    /\ entry'[id] # None /\ entry'[id].verdict = "none" /\ entry'[id].strikes = 0
    /\ \A other \in Identity \ {id} : entry'[other] = entry[other]
    /\ UNCHANGED <<charge, lost>>

\* a forget, a clear, or an expiry
DropEntries ==
    /\ \E ids \in SUBSET Identity :
        entry' = [id \in Identity |-> IF id \in ids THEN None ELSE entry[id]]
    /\ UNCHANGED <<charge, lost>>

Strike(id) ==
    /\ Active(id)
    /\ entry' = [entry EXCEPT ![id].strikes = @ + 1]
    /\ UNCHANGED <<charge, lost>>

\* strikes are counted one by one and judged at the threshold
Charge(id) ==
    /\ charge = None
    /\ Active(id) /\ entry[id].strikes >= Threshold
    /\ charge' = id
    /\ UNCHANGED <<entry, lost>>

\* a charge whose entry is gone by now is void
Reject ==
    /\ charge # None
    /\ entry' = IF Active(charge) THEN [entry EXCEPT ![charge].verdict = "rejected"] ELSE entry
    /\ charge' = None
    /\ UNCHANGED lost

\* the judgement is interrupted
Acquit == charge # None /\ charge' = None /\ UNCHANGED <<entry, lost>>

\* what a lost key encrypted is dead
Condemn(id) ==
    /\ lost /\ Active(id)
    /\ entry' = [entry EXCEPT ![id].verdict = "dead"]
    /\ UNCHANGED <<charge, lost>>

LoseKey == lost' = TRUE /\ UNCHANGED <<entry, charge>>

LedgerNext ==
    \/ \E id \in Identity : PutEntry(id) \/ Strike(id) \/ Charge(id) \/ Condemn(id)
    \/ DropEntries \/ Reject \/ Acquit \/ LoseKey

LedgerSpec == LedgerInit /\ [][LedgerNext]_lvars
=============================================================================
