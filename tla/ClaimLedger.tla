----------------------------- MODULE ClaimLedger -----------------------------
(* What the driver transaction (DriverTransaction.tla) promises about what  *)
(* it leaves on the machine: nothing before it is on record, no package     *)
(* before its certificate and its announcement, and no certificate taken    *)
(* from under an installed package.                                         *)
CONSTANT Txs

VARIABLES recorded,     \* transactions with a receipt
          announced,    \* whose receipt says that the driver may be touched
          trusted,      \* whose certificate the machine trusts
          installed     \* whose package is in the driver store

ledger == <<recorded, announced, trusted, installed>>

Init == recorded = {} /\ announced = {} /\ trusted = {} /\ installed = {}

Record(t) == recorded' = recorded \cup {t} /\ UNCHANGED <<announced, trusted, installed>>

Trust(t) ==
    /\ t \in recorded /\ trusted' = trusted \cup {t}
    /\ UNCHANGED <<recorded, announced, installed>>

Announce(t) ==
    /\ t \in recorded /\ announced' = announced \cup {t}
    /\ UNCHANGED <<recorded, trusted, installed>>

Install(t) ==
    /\ t \in trusted /\ t \in announced /\ installed' = installed \cup {t}
    /\ UNCHANGED <<recorded, announced, trusted>>

Uninstall(t) == installed' = installed \ {t} /\ UNCHANGED <<recorded, announced, trusted>>

Distrust(gone) ==
    /\ gone \cap installed = {} /\ trusted' = trusted \ gone
    /\ UNCHANGED <<recorded, announced, installed>>

Next ==
    \/ \E t \in Txs : Record(t) \/ Trust(t) \/ Announce(t) \/ Install(t) \/ Uninstall(t)
    \/ \E gone \in SUBSET Txs : Distrust(gone)

Spec == Init /\ [][Next]_ledger
=============================================================================
