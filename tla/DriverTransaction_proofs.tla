---------------------- MODULE DriverTransaction_proofs ----------------------
(* Proofs about DriverTransaction.tla, for any set of boards, transactions and *)
(* names, and any number of deaths and failures.                               *)
EXTENDS DriverTransaction, FiniteSetTheorems, TLAPS

-----------------------------------------------------------------------------
(* The inductive invariant. *)

Bare == {"idle", "next", "strip", "settle", "repair", "end"}
Early == {"mkdir", "begin"}
Claiming == {"sign", "trust", "verify", "fresh", "attempt", "add"}
Preparing == Early \cup Claiming \cup {"inventory", "scan", "survey", "compensate"}
Proven == {"rescan", "restored", "distrust", "rolled"}
Undoing == Proven \cup {"affected", "remove", "delete", "gone", "recover"}

\* which operation may be at which step, and where a reboot leaves it
Steps ==
    /\ pc \in Bare \cup Preparing \cup Undoing \cup {"releasing", "released", "audit"}
    /\ pc \in Preparing => op = "prepare"
    /\ pc \in {"releasing", "released"} => op = "release"
    /\ pc = "audit" => op = "cleanup"
    /\ pc \in {"strip", "settle"} => op = "releaseall"
    /\ pc = "next" => op \in {"cleanup", "releaseall"}
    /\ pc = "repair" => op = "repair"
    /\ pc \in Undoing => op \in {"prepare", "release", "cleanup"}
    /\ pc = "affected" => op # "cleanup"
    /\ code = "reboot" => pc \in {"inventory", "compensate", "recover", "end"}

\* the receipt in hand: it announces whatever the one on disk does, and no package
\* but its own goes by its name
Hand ==
    /\ pc \notin Bare => id \in Txs /\ rec \in Receipts
    /\ pc \notin Bare \cup Early => journal[id] \in Receipts /\ (journal[id].attempted => rec.attempted)
    /\ pc \in Early => journal[id] = None /\ ~rec.attempted
    /\ pc \in Preparing \cup {"releasing", "affected"} => rec.phase # "rolledback"
    /\ pc \in {"releasing", "affected", "remove", "delete"} =>
          \A p \in packages : p.oem = rec.oem => p.tx = id

\* what the step has behind it: on disk, in the certificate store and in the driver store
Behind ==
    /\ pc \in Claiming => journal[id].phase # "rolledback"
    /\ pc \in {"verify", "fresh", "attempt", "add"} => id \in certs
    /\ pc = "add" => journal[id].attempted
    /\ pc \in Proven => \A p \in packages : p.tx # id
    /\ pc = "rolled" => id \notin certs
    /\ pc = "releasing" => journal[id].phase = "active"
    /\ pc = "released" => journal[id].phase = "rolledback"

\* names are given once at a time, and what is installed was announced
Books ==
    /\ \A p, q \in packages : p.oem = q.oem => p = q
    /\ \A p \in packages : journal[p.tx] \in Receipts /\ journal[p.tx].attempted

\* what is left on the machine is what a cleanup has still to do
Sweep ==
    /\ op \in {"cleanup", "repair"} => \A t \in todo : journal[t] \in Receipts
    /\ op = "cleanup" /\ pc \in Proven \cup {"next"} => \A p \in packages : p.tx \in todo
    /\ op = "cleanup" /\ pc \in {"audit", "remove", "delete", "gone"} =>
          \A p \in packages : p.tx \in todo \cup {id}
    /\ op = "cleanup" /\ pc = "next" => dirs \subseteq todo
    /\ op = "cleanup" /\ pc \in Proven \cup {"audit", "remove", "delete", "gone"} =>
          dirs \subseteq todo \cup {id}
    /\ op = "releaseall" /\ pc \in {"settle", "next"} => todo = {}
    /\ op = "releaseall" /\ pc = "next" => packages = {}

\* RolledBackIsClean, in the terms of the other parts
Clean ==
    \A t \in Txs : journal[t] # None /\ journal[t].phase = "rolledback" =>
        t \notin certs \cup dirs /\ \A p \in packages : p.tx # t

IInv == TypeOK /\ Steps /\ Hand /\ Behind /\ Books /\ Sweep /\ Clean

-----------------------------------------------------------------------------
(* Names and receipts. *)

LEMMA NameOf ==
    ASSUME NEW t, Mine(t) # {}
    PROVE  \E p \in packages : p.tx = t /\ Name(t) = p.oem
<1>1. (CHOOSE p \in Mine(t) : TRUE) \in Mine(t)
  OBVIOUS
<1> QED
  BY <1>1 DEF Name, Mine

LEMMA InitHolds == ASSUME Init PROVE IInv
<1>1. TypeOK
  <2>1. /\ driver \in [Boards -> {"away", "keyboard", "winusb", "removed"}]
        /\ journal \in [Txs -> Receipts \cup {None}]
    BY DEF Init
  <2>2. spare \in 0 .. MaxSpare /\ faults \in 0 .. MaxFaults
    BY DriverAssumption DEF Init
  <2> QED
    BY <2>1, <2>2 DEF Init, TypeOK, Codes
<1>2. Steps /\ Hand /\ Behind
  BY DEF Init, Steps, Hand, Behind, Bare, Early, Claiming, Preparing, Proven, Undoing
<1>3. Books /\ Sweep /\ Clean
  BY DEF Init, Books, Sweep, Clean
<1> QED
  BY <1>1, <1>2, <1>3 DEF IInv

-----------------------------------------------------------------------------
(* What a write does. *)

(* After a write the receipt is in hand; on disk it is there and the step goes *)
(* on, or nothing changed and the step fails.                                   *)
LEMMA PersistEffect ==
    ASSUME TypeOK, NEW t \in Txs, NEW r \in Receipts, NEW next, NEW fail, Persist(t, r, next, fail)
    PROVE  /\ rec' = r /\ stuck' \in BOOLEAN /\ torn' \in BOOLEAN /\ faults' \in 0 .. MaxFaults
           /\ \/ journal' = journal /\ pc' = fail
              \/ journal' = [journal EXCEPT ![t] = r] /\ journal'[t] = r /\ pc' = next
           /\ journal' \in [Txs -> Receipts \cup {None}]
           /\ \A u \in Txs \ {t} : journal'[u] = journal[u]
<1>1. journal \in [Txs -> Receipts \cup {None}] /\ stuck \in BOOLEAN /\ torn \in BOOLEAN
      /\ faults \in 0 .. MaxFaults
  BY DEF TypeOK
<1>2. rec' = r
  BY DEF Persist
<1>3. CASE ~stuck /\ journal' = [journal EXCEPT ![t] = r] /\ pc' = next /\ UNCHANGED <<torn, stuck, faults>>
  BY <1>1, <1>2, <1>3
<1>4. CASE pc' = fail /\ journal' = journal /\ stuck /\ UNCHANGED <<torn, stuck, faults>>
  BY <1>1, <1>2, <1>4
<1>5. CASE /\ pc' = fail /\ journal' = journal /\ Fault
           /\ \E left \in BOOLEAN : stuck' = left /\ torn' = (torn \/ left)
  <2>1. faults' \in 0 .. MaxFaults
    BY <1>1, <1>5, DriverAssumption DEF Fault
  <2>2. stuck' \in BOOLEAN /\ torn' \in BOOLEAN
    BY <1>1, <1>5
  <2> QED
    BY <1>1, <1>2, <1>5, <2>1, <2>2
<1> QED
  BY <1>3, <1>4, <1>5 DEF Persist

(* What a write leaves of the invariant when the new receipt announces all the *)
(* old one did, and says "rolled back" of nothing that is left.                *)
LEMMA PersistKeeps ==
    ASSUME IInv, NEW t \in Txs, NEW r \in Receipts, NEW next, NEW fail, Persist(t, r, next, fail),
           UNCHANGED <<packages, certs>>, dirs' \subseteq dirs,
           journal[t] \in Receipts /\ journal[t].attempted => r.attempted,
           r.phase = "rolledback" => t \notin certs \cup dirs' /\ \A p \in packages : p.tx # t
    PROVE  /\ Books' /\ Clean'
           /\ \A u \in Txs : journal[u] \in Receipts =>
                 journal'[u] \in Receipts /\ (journal[u].attempted => journal'[u].attempted)
<1>1. /\ \A u \in Txs \ {t} : journal'[u] = journal[u]
      /\ journal'[t] = journal[t] \/ journal'[t] = r
  BY PersistEffect DEF IInv
<1>2. ASSUME NEW u \in Txs, journal[u] \in Receipts
      PROVE  journal'[u] \in Receipts /\ (journal[u].attempted => journal'[u].attempted)
  BY <1>1, <1>2
<1>3. Books'
  BY <1>2 DEF IInv, TypeOK, Packages, Books
<1>4. Clean'
  BY <1>1 DEF IInv, Clean
<1> QED
  BY <1>2, <1>3, <1>4

-----------------------------------------------------------------------------
(* The steps of the helper. *)

(* A step may change how boards are bound, but only to what Windows knows. *)
LEMMA DriversTyped ==
    ASSUME TypeOK
    PROVE  /\ Settled \in [Boards -> {"away", "keyboard", "winusb", "removed"}]
           /\ Bound \in [Boards -> {"away", "keyboard", "winusb", "removed"}]
           /\ \A b \in Boards : [driver EXCEPT ![b] = "removed"] \in
                 [Boards -> {"away", "keyboard", "winusb", "removed"}]
           /\ [b \in Boards |-> IF b \in OnWinUsb THEN "removed" ELSE driver[b]] \in
                 [Boards -> {"away", "keyboard", "winusb", "removed"}]
  BY DEF TypeOK, Settled, Match, Bound

(* Steps that write nothing and install nothing. *)
LEMMA WalkStep ==
    ASSUME IInv, Fresh \/ Scan \/ Blind \/ Remove \/ Gone \/ Rescan \/ Restored
    PROVE  IInv'
<1> USE DEF Bare, Early, Claiming, Preparing, Proven, Undoing
<1>1. UNCHANGED <<op, id, rec, todo, packages, certs, key, stuck, spare, store>>
  BY DEF Fresh, Scan, Blind, Remove, Gone, Rescan, Restored, machine
<1>2. driver' \in [Boards -> {"away", "keyboard", "winusb", "removed"}]
  BY DriversTyped DEF IInv, TypeOK, Fresh, Scan, Blind, Remove, Gone, Rescan, Restored, machine, Present
<1>3. code' \in Codes /\ affected' \subseteq Boards
  BY DEF IInv, TypeOK, Fresh, Scan, Blind, Remove, Gone, Rescan, Restored, machine, Run, Idles, Codes
<1>4. faults' \in 0 .. MaxFaults
  BY DriverAssumption DEF IInv, TypeOK, Fresh, Scan, Blind, Remove, Gone, Rescan, Restored, Run, Idles, Fault
<1>5. TypeOK'
  BY <1>1, <1>2, <1>3, <1>4 DEF IInv, TypeOK, store
<1>6. Steps'
  BY <1>1 DEF IInv, Steps, Fresh, Scan, Blind, Remove, Gone, Rescan, Restored, Run, Idles
<1>7. Hand'
  BY <1>1 DEF IInv, Steps, Hand, store, Fresh, Scan, Blind, Remove, Gone, Rescan, Restored, Run, Idles
<1>8. Behind'
  BY <1>1 DEF IInv, Steps, Behind, store, Fresh, Scan, Blind, Remove, Gone, Rescan, Restored, Run, Idles, Mine
<1>9. Books' /\ Clean'
  BY <1>1 DEF IInv, Books, Clean, store
<1>10. Sweep'
  BY <1>1 DEF IInv, Steps, Sweep, Hand, store, Fresh, Scan, Blind, Remove, Gone, Rescan, Restored, Run, Idles, Mine
<1> QED
  BY <1>5, <1>6, <1>7, <1>8, <1>9, <1>10 DEF IInv

(* A step that writes the receipt of the transaction in hand keeps the types, *)
(* and the hand holds what it wrote.                                          *)
LEMMA WriteTyped ==
    ASSUME IInv, NEW t \in Txs, NEW r \in Receipts, NEW next, NEW fail, Persist(t, r, next, fail),
           UNCHANGED <<op, id, code, machine>>, todo' \subseteq todo, affected' \subseteq Boards,
           dirs' \subseteq dirs
    PROVE  TypeOK'
<1>1. /\ rec' \in Receipts /\ stuck' \in BOOLEAN /\ torn' \in BOOLEAN /\ faults' \in 0 .. MaxFaults
      /\ journal' \in [Txs -> Receipts \cup {None}]
  BY PersistEffect DEF IInv
<1> QED
  BY <1>1 DEF IInv, TypeOK, machine

LEMMA BeginStep == ASSUME IInv, Begin PROVE IInv'
<1> USE DEF Bare, Early, Claiming, Preparing, Proven, Undoing
<1>1. /\ pc = "begin" /\ op = "prepare" /\ id \in Txs /\ rec \in Receipts /\ journal[id] = None
      /\ ~rec.attempted /\ rec.phase # "rolledback" /\ Persist(id, rec, "sign", "end")
      /\ UNCHANGED <<op, id, todo, affected, code, machine, dirs>>
  BY DEF IInv, Steps, Hand, Begin
<1>2. /\ rec' = rec
      /\ \/ journal' = journal /\ pc' = "end"
         \/ journal'[id] = rec /\ pc' = "sign"
      /\ \A u \in Txs \ {id} : journal'[u] = journal[u]
  BY <1>1, PersistEffect DEF IInv
<1>3. TypeOK'
  BY <1>1, WriteTyped DEF IInv, TypeOK
<1>4. Books' /\ Clean'
  BY <1>1, PersistKeeps, DriverAssumption DEF machine
<1>5. Steps' /\ Behind'
  BY <1>1, <1>2 DEF IInv, Steps, Behind
<1>6. Hand'
  BY <1>1, <1>2 DEF Hand
<1>7. Sweep'
  BY <1>1 DEF Sweep
<1> QED
  BY <1>3, <1>4, <1>5, <1>6, <1>7 DEF IInv

(* The rest of prepare_with writes what it has done so far. *)
LEMMA ClaimWrites ==
    ASSUME IInv, NEW r \in Receipts, NEW next, Persist(id, r, next, "compensate"),
           pc \in {"verify", "attempt", "inventory", "survey"},
           UNCHANGED <<op, id, todo, affected, code, machine, dirs>>,
           rec.attempted => r.attempted, r.phase # "rolledback",
           \/ pc = "verify" /\ next = "fresh"
           \/ pc = "attempt" /\ next = "add" /\ r.attempted
           \/ pc = "inventory" /\ next \in {"scan", "compensate"} /\ (next = "scan" => code = "ok")
           \/ pc = "survey" /\ next = "end"
    PROVE  IInv'
<1> USE DEF Bare, Early, Claiming, Preparing, Proven, Undoing
<1>1. /\ op = "prepare" /\ id \in Txs /\ rec \in Receipts /\ journal[id] \in Receipts
      /\ journal[id].attempted => r.attempted
      /\ code = "reboot" => pc = "inventory"
  BY DEF IInv, Steps, Hand
<1>2. /\ rec' = r
      /\ \/ journal' = journal /\ pc' = "compensate"
         \/ journal'[id] = r /\ pc' = next
      /\ \A u \in Txs \ {id} : journal'[u] = journal[u]
  BY <1>1, PersistEffect DEF IInv
<1>3. TypeOK'
  BY <1>1, WriteTyped DEF IInv, TypeOK
<1>4. Books' /\ Clean'
  BY <1>1, PersistKeeps DEF machine
<1>5. Steps'
  BY <1>1, <1>2 DEF IInv, Steps
<1>6. Behind'
  BY <1>1, <1>2 DEF IInv, Behind, machine
<1>7. Hand'
  BY <1>1, <1>2 DEF Hand, machine
<1>8. Sweep'
  BY <1>1 DEF Sweep
<1> QED
  BY <1>3, <1>4, <1>5, <1>6, <1>7, <1>8 DEF IInv

LEMMA KnownReceipt ==
    ASSUME TypeOK, rec \in Receipts, Mine(id) # {}
    PROVE  /\ Known \in Receipts /\ Known.phase = "installed" /\ Known.attempted = rec.attempted
           /\ \E p \in packages : p.tx = id /\ p.oem = Known.oem
<1>1. PICK p \in packages : p.tx = id /\ Name(id) = p.oem
  BY NameOf
<1>2. p.oem \in Oems \cup {None} /\ "installed" \in Phases
  BY DEF TypeOK, Packages, Phases
<1>3. /\ Known \in Receipts /\ Known.phase = "installed" /\ Known.attempted = rec.attempted
      /\ Known.oem = p.oem
  BY <1>1, <1>2 DEF Known, Receipts
<1> QED
  BY <1>1, <1>3

LEMMA VerifyStep == ASSUME IInv, Verify PROVE IInv'
<1>1. rec \in Receipts /\ "prepared" \in Phases /\ UNCHANGED <<op, id, todo, affected, code, machine, dirs>>
  BY DEF Verify, IInv, Hand, Bare, Phases
<1>2. /\ [rec EXCEPT !.phase = "prepared"] \in Receipts
      /\ [rec EXCEPT !.phase = "prepared"].attempted = rec.attempted
      /\ [rec EXCEPT !.phase = "prepared"].phase # "rolledback"
  BY <1>1 DEF Receipts
<1> QED
  BY <1>1, <1>2, ClaimWrites DEF Verify

LEMMA AttemptStep == ASSUME IInv, Attempt PROVE IInv'
<1>1. rec \in Receipts /\ rec.phase # "rolledback" /\ UNCHANGED <<op, id, todo, affected, code, machine, dirs>>
  BY DEF Attempt, IInv, Hand, Bare, Preparing, Claiming
<1>2. /\ [rec EXCEPT !.attempted = TRUE] \in Receipts
      /\ [rec EXCEPT !.attempted = TRUE].attempted
      /\ [rec EXCEPT !.attempted = TRUE].phase # "rolledback"
  BY <1>1 DEF Receipts
<1> QED
  BY <1>1, <1>2, ClaimWrites DEF Attempt

(* The command that binds the boards ran, and its package is not to be found. *)
LEMMA GiveUpStep ==
    ASSUME IInv, pc \in {"inventory", "survey"}, pc' = "compensate",
           UNCHANGED <<rec, stuck, journal, torn, faults>>,
           UNCHANGED <<op, id, todo, affected, code, machine, dirs>>
    PROVE  IInv'
<1> USE DEF Bare, Early, Claiming, Preparing, Proven, Undoing, machine
<1>1. TypeOK' /\ Steps' /\ Books' /\ Sweep' /\ Clean'
  BY DEF IInv, TypeOK, Steps, Books, Sweep, Clean
<1>2. Hand' /\ Behind'
  BY DEF IInv, Hand, Behind
<1> QED
  BY <1>1, <1>2 DEF IInv

LEMMA InventoryStep == ASSUME IInv, Inventory PROVE IInv'
<1>1. UNCHANGED <<op, id, todo, affected, code, machine, dirs>> /\ pc = "inventory" /\ rec \in Receipts
  BY DEF Inventory, IInv, Hand, Bare
<1>2. CASE Mine(id) # {}
  <2>1. /\ Known \in Receipts /\ Known.phase # "rolledback" /\ Known.attempted = rec.attempted
        /\ Persist(id, Known, IF code = "ok" THEN "scan" ELSE "compensate", "compensate")
    BY <1>1, <1>2, KnownReceipt DEF Inventory, IInv
  <2> QED
    BY <1>1, <2>1, ClaimWrites
<1>3. CASE Mine(id) = {}
  BY <1>1, <1>3, GiveUpStep DEF Inventory
<1> QED
  BY <1>2, <1>3

LEMMA SurveyStep == ASSUME IInv, Survey PROVE IInv'
<1>1. UNCHANGED <<op, id, todo, affected, code, machine, dirs>> /\ pc = "survey" /\ rec \in Receipts
  BY DEF Survey, IInv, Hand, Bare
<1>2. /\ [rec EXCEPT !.phase = "active"] \in Receipts
      /\ [rec EXCEPT !.phase = "active"].attempted = rec.attempted
      /\ [rec EXCEPT !.phase = "active"].phase # "rolledback"
  BY <1>1 DEF Receipts, Phases
<1>3. CASE OnWinUsb = {rec.target}
  BY <1>1, <1>2, <1>3, ClaimWrites DEF Survey
<1>4. CASE OnWinUsb # {rec.target}
  BY <1>1, <1>4, GiveUpStep DEF Survey
<1> QED
  BY <1>3, <1>4

(* compensate_prepare_failure: a package that is there was announced, so what *)
(* is not undone by the driver rollback has nothing to be undone.             *)
LEMMA CompensateStep == ASSUME IInv, Compensate PROVE IInv'
<1> USE DEF Bare, Early, Claiming, Preparing, Proven, Undoing
<1>1. /\ pc = "compensate" /\ op = "prepare" /\ id \in Txs /\ rec \in Receipts
      /\ journal[id] \in Receipts /\ (journal[id].attempted => rec.attempted)
      /\ rec.phase # "rolledback" /\ UNCHANGED <<op, id, todo, affected, code, machine, dirs>>
  BY DEF IInv, Steps, Hand, Compensate
<1>2. CASE Mine(id) # {} /\ (rec.attempted \/ code = "reboot")
  <2>1. /\ Known \in Receipts /\ Known.phase = "installed" /\ Known.attempted = rec.attempted
        /\ \E p \in packages : p.tx = id /\ p.oem = Known.oem
        /\ Persist(id, Known, Rollback, Rollback)
    BY <1>1, <1>2, KnownReceipt DEF Compensate, IInv
  <2>2. /\ rec' = Known /\ pc' = Rollback
        /\ journal' = journal \/ journal'[id] = Known
        /\ \A u \in Txs \ {id} : journal'[u] = journal[u]
    BY <1>1, <2>1, PersistEffect DEF IInv
  <2>3. TypeOK'
    BY <1>1, <2>1, WriteTyped DEF IInv, TypeOK
  <2>4. Books' /\ Clean'
    BY <1>1, <2>1, PersistKeeps DEF machine
  <2>5. Steps'
    BY <1>1, <2>2 DEF IInv, Steps, Rollback
  <2>6. Behind' /\ Sweep'
    BY <1>1, <2>2 DEF Behind, Sweep, Rollback
  <2>7. Hand'
    BY <1>1, <2>1, <2>2 DEF IInv, Books, Hand, Rollback, machine
  <2> QED
    BY <2>3, <2>4, <2>5, <2>6, <2>7 DEF IInv
<1>3. CASE ~(Mine(id) # {} /\ (rec.attempted \/ code = "reboot"))
  <2>1. /\ pc' = IF code = "reboot" \/ (rec.attempted /\ OnWinUsb # {}) THEN "recover" ELSE "distrust"
        /\ UNCHANGED <<rec, stuck, journal, torn, faults>>
    BY <1>3 DEF Compensate
  <2>2. \A p \in packages : p.tx # id
    BY <1>1, <1>3 DEF IInv, Books, Mine
  <2>3. TypeOK' /\ Books' /\ Clean'
    BY <1>1, <2>1 DEF IInv, TypeOK, Books, Clean, machine
  <2>4. Steps' /\ Sweep'
    BY <1>1, <2>1 DEF IInv, Steps, Sweep
  <2>5. Hand' /\ Behind'
    BY <1>1, <2>1, <2>2 DEF IInv, Hand, Behind, machine
  <2> QED
    BY <2>3, <2>4, <2>5 DEF IInv
<1> QED
  BY <1>2, <1>3

(* Phase by phase, a receipt stays one. *)
LEMMA PhaseSet ==
    ASSUME NEW r \in Receipts, NEW ph \in Phases
    PROVE  /\ [r EXCEPT !.phase = ph] \in Receipts /\ [r EXCEPT !.phase = ph].phase = ph
           /\ [r EXCEPT !.phase = ph].attempted = r.attempted /\ [r EXCEPT !.phase = ph].oem = r.oem
  BY DEF Receipts

LEMMA AffectedStep == ASSUME IInv, Affected PROVE IInv'
<1> USE DEF Bare, Early, Claiming, Preparing, Proven, Undoing
<1>1. /\ pc = "affected" /\ op \in {"prepare", "release"} /\ id \in Txs /\ rec \in Receipts
      /\ journal[id] \in Receipts /\ (journal[id].attempted => rec.attempted)
      /\ rec.phase # "rolledback" /\ Persist(id, rec, "remove", "recover")
      /\ UNCHANGED <<op, id, todo, code, machine, dirs>>
      /\ \A p \in packages : p.oem = rec.oem => p.tx = id
  BY DEF IInv, Steps, Hand, Affected
<1>2. /\ rec' = rec /\ pc' \in {"remove", "recover"}
      /\ journal' = journal \/ journal'[id] = rec
      /\ \A u \in Txs \ {id} : journal'[u] = journal[u]
  BY <1>1, PersistEffect DEF IInv
<1>3. affected' \subseteq Boards
  <2>1. rec.target \in Boards
    BY <1>1 DEF Receipts
  <2> QED
    BY <2>1 DEF Affected, OnWinUsb
<1>4. TypeOK'
  BY <1>1, <1>3, WriteTyped DEF IInv, TypeOK
<1>5. Books' /\ Clean'
  BY <1>1, PersistKeeps DEF machine
<1>6. Steps' /\ Behind'
  BY <1>1, <1>2 DEF IInv, Steps, Behind
<1>7. Hand'
  BY <1>1, <1>2 DEF Hand, machine
<1>8. Sweep'
  BY <1>1, <1>2 DEF IInv, Sweep, machine
<1> QED
  BY <1>4, <1>5, <1>6, <1>7, <1>8 DEF IInv

(* The closing write says "rolled back" of nothing that is left. *)
LEMMA RolledStep == ASSUME IInv, Rolled PROVE IInv'
<1> USE DEF Bare, Early, Claiming, Preparing, Proven, Undoing
<1>1. /\ pc = "rolled" /\ op \in {"prepare", "release", "cleanup"} /\ id \in Txs /\ rec \in Receipts
      /\ journal[id] \in Receipts /\ (journal[id].attempted => rec.attempted)
      /\ id \notin certs /\ (\A p \in packages : p.tx # id) /\ dirs' = dirs \ {id}
      /\ UNCHANGED <<op, id, todo, affected, code, machine>>
  BY DEF IInv, Steps, Hand, Behind, Rolled
<1> DEFINE phase == IF op = "cleanup" THEN "released" ELSE "rolledback"
           next  == CASE op = "cleanup" -> "next" [] op = "release" -> "released" [] OTHER -> "end"
           r     == [rec EXCEPT !.phase = phase]
<1>2. /\ Persist(id, r, next, "recover") /\ phase \in Phases /\ next \in {"next", "released", "end"}
      /\ next = "next" <=> op = "cleanup"
      /\ next = "released" <=> op = "release"
  BY <1>1 DEF Rolled, Phases
<1>3. r \in Receipts /\ r.phase = phase /\ r.attempted = rec.attempted
  BY <1>1, <1>2, PhaseSet
<1>4. op = "release" => phase = "rolledback"
  OBVIOUS
<1> HIDE DEF r, phase, next
<1>5. /\ rec' = r
      /\ \/ journal' = journal /\ pc' = "recover"
         \/ journal'[id] = r /\ pc' = next
      /\ \A u \in Txs \ {id} : journal'[u] = journal[u]
  BY <1>1, <1>2, <1>3, PersistEffect DEF IInv
<1>6. TypeOK'
  BY <1>1, <1>2, <1>3, WriteTyped DEF IInv, TypeOK
<1>7. /\ Books' /\ Clean'
      /\ \A u \in Txs : journal[u] \in Receipts => journal'[u] \in Receipts
  BY <1>1, <1>2, <1>3, PersistKeeps DEF machine
<1>8. Steps'
  BY <1>1, <1>2, <1>5 DEF IInv, Steps
<1>9. Behind'
  BY <1>1, <1>2, <1>3, <1>4, <1>5 DEF Behind
<1>10. Hand'
  BY <1>1, <1>2, <1>3, <1>5 DEF Hand
<1>11. Sweep'
  BY <1>1, <1>2, <1>5, <1>7 DEF IInv, TypeOK, Sweep, machine
<1> QED
  BY <1>6, <1>7, <1>8, <1>9, <1>10, <1>11 DEF IInv

LEMMA RecoverStep == ASSUME IInv, Recover PROVE IInv'
<1> USE DEF Bare, Early, Claiming, Preparing, Proven, Undoing
<1>1. /\ pc = "recover" /\ op \in {"prepare", "release", "cleanup"} /\ id \in Txs /\ rec \in Receipts
      /\ journal[id] \in Receipts /\ (journal[id].attempted => rec.attempted)
      /\ "recovery" \in Phases /\ Persist(id, [rec EXCEPT !.phase = "recovery"], "end", "end")
      /\ UNCHANGED <<op, id, todo, affected, code, machine, dirs>>
  BY DEF IInv, Steps, Hand, Recover, Phases
<1>2. PICK r \in Receipts : r = [rec EXCEPT !.phase = "recovery"] /\ r.phase = "recovery"
                           /\ r.attempted = rec.attempted
  BY <1>1, PhaseSet
<1>3. pc' = "end"
  BY <1>1, <1>2, PersistEffect DEF IInv
<1>4. TypeOK'
  BY <1>1, <1>2, WriteTyped DEF IInv, TypeOK
<1>5. /\ Books' /\ Clean'
      /\ \A u \in Txs : journal[u] \in Receipts => journal'[u] \in Receipts
  BY <1>1, <1>2, PersistKeeps DEF machine
<1>6. Steps' /\ Hand' /\ Behind'
  BY <1>1, <1>3 DEF IInv, Steps, Hand, Behind
<1>7. Sweep'
  BY <1>1, <1>3, <1>5 DEF IInv, TypeOK, Sweep
<1> QED
  BY <1>4, <1>5, <1>6, <1>7 DEF IInv

(* release_with writes before and after the rollback. *)
LEMMA ReleaseWrites == ASSUME IInv, Releasing \/ Released PROVE IInv'
<1> USE DEF Bare, Early, Claiming, Preparing, Proven, Undoing
<1>1. /\ op = "release" /\ id \in Txs /\ rec \in Receipts /\ journal[id] \in Receipts
      /\ (journal[id].attempted => rec.attempted)
      /\ UNCHANGED <<op, id, todo, affected, code, machine, dirs>>
      /\ code # "reboot" /\ "released" \in Phases
  BY DEF IInv, Steps, Hand, Releasing, Released, Phases
<1>2. CASE Releasing
  <2>1. Persist(id, rec, "affected", "end") /\ rec.phase # "rolledback" /\ pc = "releasing"
    BY <1>2 DEF Releasing, IInv, Hand
  <2>2. rec' = rec /\ pc' \in {"affected", "end"}
        /\ (journal' = journal \/ journal'[id] = rec)
    BY <1>1, <2>1, PersistEffect DEF IInv
  <2>3. TypeOK'
    BY <1>1, <2>1, WriteTyped DEF IInv, TypeOK
  <2>4. Books' /\ Clean'
    BY <1>1, <2>1, PersistKeeps DEF machine
  <2>5. Steps' /\ Behind' /\ Sweep'
    BY <1>1, <2>2 DEF IInv, Steps, Behind, Sweep
  <2>6. Hand'
    BY <1>1, <2>1, <2>2 DEF IInv, Hand, machine
  <2> QED
    BY <2>3, <2>4, <2>5, <2>6 DEF IInv
<1>3. CASE Released
  <2>1. PICK r \in Receipts : r = [rec EXCEPT !.phase = "released"] /\ r.phase = "released"
                             /\ r.attempted = rec.attempted
    BY <1>1, PhaseSet
  <2>2. Persist(id, r, "end", "end")
    BY <1>3, <2>1 DEF Released
  <2>3. pc' = "end"
    BY <1>1, <2>2, PersistEffect DEF IInv
  <2>4. TypeOK'
    BY <1>1, <2>2, WriteTyped DEF IInv, TypeOK
  <2>5. Books' /\ Clean'
    BY <1>1, <2>1, <2>2, PersistKeeps DEF machine
  <2>6. Steps' /\ Hand' /\ Behind' /\ Sweep'
    BY <1>1, <2>3 DEF IInv, Steps, Hand, Behind, Sweep
  <2> QED
    BY <2>4, <2>5, <2>6 DEF IInv
<1> QED
  BY <1>2, <1>3

(* Typing counts keyboards. *)
LEMMA TypingIsNat == ASSUME TypeOK, NEW b \in Boards, Present = {b} PROVE Typing \in Nat
<1>1. IsFiniteSet({b})
  BY FS_Singleton
<1>2. IsFiniteSet(Present \ OnWinUsb)
  BY <1>1, FS_Subset
<1>3. Cardinality(Present \ OnWinUsb) \in Nat
  BY <1>2, FS_CardinalityType
<1> QED
  BY <1>3, DriverAssumption DEF Typing, TypeOK

LEMMA PrepareStep == ASSUME IInv, NEW b \in Boards, NEW t \in Txs, Prepare(b, t) PROVE IInv'
<1> USE DEF Bare, Early, Claiming, Preparing, Proven, Undoing, machine, store
<1>1. /\ pc = "idle" /\ pc' = "mkdir" /\ op' = "prepare" /\ id' = t /\ journal[t] = None
      /\ UNCHANGED <<todo, affected, code, stuck, machine, store, faults>>
      /\ rec' = [phase |-> "preparing", target |-> b, oem |-> None, attempted |-> FALSE, before |-> Typing]
  BY DEF Prepare
<1>2. Typing \in Nat
  BY TypingIsNat DEF IInv, Prepare
<1>3. rec' \in Receipts /\ ~rec'.attempted /\ rec'.phase # "rolledback"
  BY <1>1, <1>2 DEF Receipts, Phases
<1>4. TypeOK'
  BY <1>1, <1>3 DEF IInv, TypeOK
<1>5. Steps' /\ Behind'
  BY <1>1 DEF IInv, Steps, Behind
<1>6. Hand'
  BY <1>1, <1>3 DEF Hand
<1>7. Books' /\ Sweep' /\ Clean'
  BY <1>1 DEF IInv, Books, Sweep, Clean
<1> QED
  BY <1>4, <1>5, <1>6, <1>7 DEF IInv

(* The steps of prepare_with that touch the machine and not the journal. *)
LEMMA ClaimStep == ASSUME IInv, MakeDir \/ Sign \/ Trust PROVE IInv'
<1> USE DEF Bare, Early, Claiming, Preparing, Proven, Undoing, machine, store
<1>1. /\ op = "prepare" /\ UNCHANGED <<op, id, rec, todo, affected, code, stuck, journal, packages>>
      /\ id \in Txs /\ certs \subseteq certs' /\ certs' \subseteq certs \cup {id}
      /\ dirs' \subseteq dirs \cup {id} /\ code # "reboot"
      /\ \/ pc = "mkdir" /\ pc' \in {"begin", "end"} /\ certs' = certs
         \/ pc = "sign" /\ pc' \in {"trust", "compensate"} /\ UNCHANGED <<certs, dirs>>
         \/ pc = "trust" /\ pc' \in {"verify", "compensate"} /\ id \in certs' /\ UNCHANGED dirs
  BY DEF IInv, Steps, Hand, MakeDir, Sign, Trust, Try
<1>2. faults' \in 0 .. MaxFaults
  <2>1. UNCHANGED faults \/ Fault
    BY DEF MakeDir, Sign, Trust, Try
  <2>2. faults \in 0 .. MaxFaults
    BY DEF IInv, TypeOK
  <2> QED
    BY <2>1, <2>2, DriverAssumption DEF Fault
<1>3. TypeOK'
  BY <1>1, <1>2 DEF IInv, TypeOK, MakeDir, Sign, Trust
<1>4. Steps' /\ Hand'
  BY <1>1 DEF IInv, Steps, Hand
<1>5. Behind'
  BY <1>1 DEF IInv, Behind
<1>6. Books' /\ Sweep'
  BY <1>1 DEF IInv, Books, Sweep
<1>7. journal[id] # None => journal[id].phase # "rolledback"
  BY <1>1 DEF IInv, Hand, Behind
<1>8. Clean'
  BY <1>1, <1>7 DEF IInv, Clean
<1> QED
  BY <1>3, <1>4, <1>5, <1>6, <1>8 DEF IInv

(* The package of this transaction takes a name that is free. *)
LEMMA AddStep == ASSUME IInv, Add PROVE IInv'
<1> USE DEF Bare, Early, Claiming, Preparing, Proven, Undoing, machine, store
<1>1. /\ pc = "add" /\ op = "prepare" /\ id \in Txs /\ journal[id] \in Receipts /\ journal[id].attempted
      /\ journal[id].phase # "rolledback" /\ rec.phase # "rolledback"
      /\ UNCHANGED <<op, id, rec, todo, affected, stuck, certs, key, spare, store>>
      /\ pc' \in {"inventory", "compensate"}
  BY DEF IInv, Steps, Hand, Behind, Add, Run
<1>2. packages' = packages \/ \E o \in Free : packages' = packages \cup {[tx |-> id, oem |-> o]}
  BY DEF Add
<1>3. driver' \in [Boards -> {"away", "keyboard", "winusb", "removed"}]
  BY DriversTyped DEF IInv, TypeOK, Add
<1>4. code' \in Codes /\ faults' \in 0 .. MaxFaults
  BY DriverAssumption DEF IInv, TypeOK, Add, Run, Fault, Codes
<1>5. packages' \subseteq Packages
  BY <1>1, <1>2 DEF IInv, TypeOK, Packages, Free
<1>6. TypeOK'
  BY <1>1, <1>3, <1>4, <1>5 DEF IInv, TypeOK
<1>7. Steps' /\ Hand' /\ Behind' /\ Sweep'
  BY <1>1 DEF IInv, Steps, Hand, Behind, Sweep
<1>8. Books'
  <2>1. CASE packages' = packages
    BY <1>1, <2>1 DEF IInv, Books
  <2>2. ASSUME NEW o \in Free, packages' = packages \cup {[tx |-> id, oem |-> o]} PROVE Books'
    <3>1. \A p \in packages : p.oem # o
      BY DEF Free
    <3>2. ASSUME NEW p \in packages', NEW q \in packages', p.oem = q.oem PROVE p = q
      BY <2>2, <3>1, <3>2 DEF IInv, Books
    <3>3. ASSUME NEW p \in packages' PROVE journal'[p.tx] \in Receipts /\ journal'[p.tx].attempted
      BY <1>1, <2>2 DEF IInv, Books
    <3> QED
      BY <3>2, <3>3 DEF Books
  <2> QED
    BY <1>2, <2>1, <2>2
<1>9. Clean'
  BY <1>1, <1>2 DEF IInv, Clean
<1> QED
  BY <1>6, <1>7, <1>8, <1>9 DEF IInv

(* What a command of pnputil may leave in the exit code and the fault count. *)
LEMMA CommandTyped ==
    ASSUME TypeOK, NEW next, NEW fail, Run(next, fail) \/ Idles(next, fail)
    PROVE  /\ code' \in Codes /\ faults' \in 0 .. MaxFaults /\ pc' \in {next} \cup fail
           /\ pc' \notin fail => code' = code
<1>1. UNCHANGED faults \/ Fault
  BY DEF Run, Idles
<1>2. faults \in 0 .. MaxFaults /\ code \in Codes
  BY DEF TypeOK
<1>3. faults' \in 0 .. MaxFaults
  BY <1>1, <1>2, DriverAssumption DEF Fault
<1> QED
  BY <1>2, <1>3 DEF Run, Idles, Codes

(* What is taken away is never an error of the books. *)
LEMMA FewerPackages ==
    ASSUME IInv, packages' \subseteq packages, certs' \subseteq certs, UNCHANGED <<journal, dirs>>
    PROVE  Books' /\ Clean'
  BY DEF IInv, Books, Clean

LEMMA DeleteStep == ASSUME IInv, Delete PROVE IInv'
<1> USE DEF Bare, Early, Claiming, Preparing, Proven, Undoing, machine, store
<1>1. /\ pc = "delete" /\ op \in {"prepare", "release", "cleanup"} /\ code # "reboot"
      /\ UNCHANGED <<op, id, rec, todo, affected, stuck, spare, certs, key, store>>
  BY DEF IInv, Steps, Delete
<1>2. /\ packages' \subseteq packages /\ pc' \in {"gone", "recover"} /\ code' \in Codes
      /\ faults' \in 0 .. MaxFaults /\ (pc' = "gone" => code' = code)
  <2>1. CASE Run("gone", {"recover"}) /\ Deleted(rec.oem)
    BY <2>1, CommandTyped DEF IInv, Deleted
  <2>2. CASE Idles("gone", {"recover"}) /\ UNCHANGED packages
    BY <2>2, CommandTyped DEF IInv
  <2>3. CASE UNCHANGED <<packages, code, faults>> /\ pc' \in {"gone", "recover"}
    BY <2>3 DEF IInv, TypeOK
  <2> QED
    BY <2>1, <2>2, <2>3 DEF Delete
<1>3. driver' \in [Boards -> {"away", "keyboard", "winusb", "removed"}]
  BY DriversTyped DEF IInv, TypeOK, Delete, Deleted
<1>4. TypeOK'
  BY <1>1, <1>2, <1>3 DEF IInv, TypeOK
<1>5. Steps' /\ Hand' /\ Behind'
  BY <1>1, <1>2 DEF IInv, Steps, Hand, Behind
<1>6. Books' /\ Clean'
  BY <1>1, <1>2, FewerPackages
<1>7. Sweep'
  BY <1>1, <1>2 DEF IInv, Sweep
<1> QED
  BY <1>4, <1>5, <1>6, <1>7 DEF IInv

LEMMA DistrustStep == ASSUME IInv, Distrust PROVE IInv'
<1> USE DEF Bare, Early, Claiming, Preparing, Proven, Undoing, machine, store
<1>1. /\ pc = "distrust" /\ op \in {"prepare", "release", "cleanup"} /\ code # "reboot" /\ id \in Txs
      /\ UNCHANGED <<op, id, rec, todo, affected, code, stuck, driver, spare, packages, store>>
      /\ pc' \in {"rolled", "recover", "end"} /\ key' \in BOOLEAN /\ certs' \subseteq certs
      /\ pc' = "rolled" => id \notin certs'
  BY DEF IInv, TypeOK, Steps, Hand, Distrust, Try, Unpersisted
<1>2. faults' \in 0 .. MaxFaults
  <2>1. UNCHANGED faults \/ Fault
    BY DEF Distrust, Try
  <2> QED
    BY <2>1, DriverAssumption DEF Fault, IInv, TypeOK
<1>3. TypeOK'
  BY <1>1, <1>2 DEF IInv, TypeOK
<1>4. Steps' /\ Hand' /\ Behind'
  BY <1>1 DEF IInv, Steps, Hand, Behind
<1>5. Books' /\ Clean'
  BY <1>1, FewerPackages
<1>6. Sweep'
  BY <1>1 DEF IInv, Sweep
<1> QED
  BY <1>3, <1>4, <1>5, <1>6 DEF IInv

(* cleanup_receipt goes on with a name that belongs to its own package. *)
LEMMA IdentifiedIsOwn ==
    ASSUME IInv, rec \in Receipts, Exact
    PROVE  /\ Identified \in Oems \cup {None}
           /\ \A p \in packages : p.oem = Identified => p.tx = id
<1>1. \A p \in packages : p.oem \in Oems /\ p.oem # None
  BY DriverAssumption DEF IInv, TypeOK, Packages
<1>2. CASE rec.oem # None /\ Named # {}
  BY <1>2 DEF Identified, Exact, Named, Mine, Receipts
<1>3. CASE ~(rec.oem # None /\ Named # {}) /\ Mine(id) = {}
  BY <1>1, <1>3 DEF Identified
<1>4. CASE ~(rec.oem # None /\ Named # {}) /\ Mine(id) # {}
  <2>1. PICK q \in packages : q.tx = id /\ Name(id) = q.oem
    BY <1>4, NameOf
  <2> QED
    BY <1>1, <1>4, <2>1 DEF Identified, IInv, Books
<1> QED
  BY <1>2, <1>3, <1>4

LEMMA AuditStep == ASSUME IInv, Audit PROVE IInv'
<1> USE DEF Bare, Early, Claiming, Preparing, Proven, Undoing
<1>1. /\ pc = "audit" /\ op = "cleanup" /\ id \in Txs /\ rec \in Receipts /\ journal[id] \in Receipts
      /\ (journal[id].attempted => rec.attempted) /\ code # "reboot" /\ "releasing" \in Phases
      /\ UNCHANGED <<op, id, todo, code, machine, dirs>>
  BY DEF IInv, Steps, Hand, Audit, Phases
<1>2. CASE Exact /\ (Identified # None \/ OnWinUsb = {})
  <2>1. /\ Identified \in Oems \cup {None}
        /\ \A p \in packages : p.oem = Identified => p.tx = id
    BY <1>1, <1>2, IdentifiedIsOwn
  <2> DEFINE r == [rec EXCEPT !.phase = "releasing", !.oem = Identified]
  <2>2. r \in Receipts /\ r.phase = "releasing" /\ r.oem = Identified /\ r.attempted = rec.attempted
    BY <1>1, <2>1 DEF Receipts
  <2>3. Persist(id, r, "remove", "recover") /\ affected' = OnWinUsb
    BY <1>2 DEF Audit
  <2> HIDE DEF r
  <2>4. /\ rec' = r /\ pc' \in {"remove", "recover"}
        /\ journal' = journal \/ journal'[id] = r
    BY <1>1, <2>2, <2>3, PersistEffect DEF IInv
  <2>5. TypeOK'
    BY <1>1, <2>2, <2>3, WriteTyped DEF OnWinUsb
  <2>6. /\ Books' /\ Clean'
        /\ \A u \in Txs : journal[u] \in Receipts => journal'[u] \in Receipts
    BY <1>1, <2>2, <2>3, PersistKeeps DEF machine
  <2>7. Steps' /\ Behind'
    BY <1>1, <2>4 DEF IInv, Steps, Behind
  <2>8. Hand'
    BY <1>1, <2>1, <2>2, <2>4 DEF Hand, machine
  <2>9. Sweep'
    BY <1>1, <2>4, <2>6 DEF IInv, TypeOK, Sweep, machine
  <2> QED
    BY <2>5, <2>6, <2>7, <2>8, <2>9 DEF IInv
<1>3. CASE pc' = "recover" /\ UNCHANGED <<rec, affected, stuck, journal, torn, faults>>
  BY <1>1, <1>3 DEF IInv, TypeOK, Steps, Hand, Behind, Books, Sweep, Clean, machine
<1> QED
  BY <1>2, <1>3 DEF Audit

(* cleanup_with takes the next receipt; its closing sweep finds none left. *)
LEMMA CleanupWalk ==
    ASSUME IInv, Pick \/ Residue
    PROVE  IInv'
<1> USE DEF Bare, Early, Claiming, Preparing, Proven, Undoing, machine, store
<1>1. CASE Pick
  <2>1. PICK t \in todo : id' = t /\ rec' = journal[t] /\ todo' = todo \ {t}
    BY <1>1 DEF Pick
  <2>2. /\ pc = "next" /\ pc' = "audit" /\ op = "cleanup" /\ t \in Txs /\ journal[t] \in Receipts
        /\ code # "reboot" /\ UNCHANGED <<op, affected, code, stuck, machine, store, faults>>
    BY <1>1, <2>1 DEF Pick, IInv, TypeOK, Steps, Sweep
  <2>3. TypeOK'
    BY <2>1, <2>2 DEF IInv, TypeOK
  <2>4. Steps' /\ Hand' /\ Behind'
    BY <2>1, <2>2 DEF Steps, Hand, Behind
  <2>5. Books' /\ Sweep' /\ Clean'
    BY <2>1, <2>2 DEF IInv, Books, Sweep, Clean
  <2> QED
    BY <2>3, <2>4, <2>5 DEF IInv
<1>2. CASE Residue
  <2>1. /\ pc = "next" /\ pc' = "end" /\ todo = {} /\ op \in {"cleanup", "releaseall"}
        /\ certs' \subseteq certs /\ key' \in BOOLEAN
        /\ UNCHANGED <<op, id, rec, todo, affected, code, stuck, driver, spare, packages, store>>
    BY <1>2 DEF Residue, Try, IInv, TypeOK, Steps
  <2>2. faults' \in 0 .. MaxFaults
    <3>1. UNCHANGED faults \/ Fault
      BY <1>2 DEF Residue, Try
    <3> QED
      BY <3>1, DriverAssumption DEF Fault, IInv, TypeOK
  <2>3. TypeOK'
    BY <2>1, <2>2 DEF IInv, TypeOK
  <2>4. Steps' /\ Hand' /\ Behind' /\ Sweep'
    BY <2>1 DEF Steps, Hand, Behind, Sweep
  <2>5. Books' /\ Clean'
    BY <2>1, FewerPackages
  <2> QED
    BY <2>3, <2>4, <2>5 DEF IInv
<1> QED
  BY <1>1, <1>2

(* release_all_with takes the packages off, one after the other. *)
LEMMA ReleaseAllStep ==
    ASSUME IInv, Strip \/ Settle
    PROVE  IInv'
<1> USE DEF Bare, Early, Claiming, Preparing, Proven, Undoing, machine, store
<1>1. /\ op = "releaseall" /\ code # "reboot" /\ pc \in {"strip", "settle"}
      /\ UNCHANGED <<op, id, rec, affected, stuck, spare, certs, key, store>>
      /\ todo' \subseteq todo /\ packages' \subseteq packages
  BY DEF IInv, Steps, Strip, Settle, Deleted
<1>2. driver' \in [Boards -> {"away", "keyboard", "winusb", "removed"}]
  BY DriversTyped DEF IInv, TypeOK, Strip, Settle, Deleted
<1>3. /\ code' \in Codes /\ faults' \in 0 .. MaxFaults
      /\ \/ pc' = "strip" /\ code' = code
         \/ pc' = "settle" /\ code' = code /\ todo' = {}
         \/ pc' = "next" /\ code' = code /\ packages' = {} /\ todo' = {}
         \/ pc' = "end"
  <2>1. CASE Strip
    <3>1. PICK t \in todo :
            LET next == IF todo = {t} THEN "settle" ELSE "strip"
            IN  todo' = todo \ {t} /\ (Run(next, {"end"}) \/ Idles(next, {"end"}))
      BY <2>1 DEF Strip
    <3>2. CASE todo = {t}
      BY <3>1, <3>2, CommandTyped DEF IInv
    <3>3. CASE todo # {t}
      BY <3>1, <3>3, CommandTyped DEF IInv
    <3> QED
      BY <3>2, <3>3
  <2>2. CASE Settle
    <3>1. todo' = {} /\ packages' = packages
      BY <1>1, <2>2 DEF Settle, IInv, Sweep
    <3>2. CASE packages = {}
      <4>1. Run("next", {"end"}) \/ Idles("next", {"end"})
        BY <2>2, <3>2 DEF Settle
      <4> QED
        BY <3>1, <3>2, <4>1, CommandTyped DEF IInv
    <3>3. CASE packages # {}
      <4>1. Run("end", {"end"}) \/ Idles("end", {"end"})
        BY <2>2, <3>3 DEF Settle
      <4> QED
        BY <3>1, <3>3, <4>1, CommandTyped DEF IInv
    <3> QED
      BY <3>2, <3>3
  <2> QED
    BY <2>1, <2>2
<1>4. TypeOK'
  BY <1>1, <1>2, <1>3 DEF IInv, TypeOK
<1>5. Steps' /\ Hand' /\ Behind' /\ Sweep'
  BY <1>1, <1>3 DEF Steps, Hand, Behind, Sweep
<1>6. Books' /\ Clean'
  BY <1>1, FewerPackages
<1> QED
  BY <1>4, <1>5, <1>6 DEF IInv

(* repair_with closes a receipt, and never says "rolled back". *)
LEMMA CorrectStep == ASSUME IInv, Correct PROVE IInv'
<1> USE DEF Bare, Early, Claiming, Preparing, Proven, Undoing
<1>1. PICK t \in todo :
        /\ todo' = todo \ {t}
        /\ Persist(t, [journal[t] EXCEPT !.phase = "released"],
                   IF todo = {t} THEN "end" ELSE "repair", "end")
  BY DEF Correct
<1>2. /\ pc = "repair" /\ op = "repair" /\ t \in Txs /\ journal[t] \in Receipts /\ code # "reboot"
      /\ "released" \in Phases /\ UNCHANGED <<op, id, affected, code, machine, dirs>>
  BY <1>1 DEF Correct, IInv, TypeOK, Steps, Sweep, Phases
<1> DEFINE r == [journal[t] EXCEPT !.phase = "released"]
           next == IF todo = {t} THEN "end" ELSE "repair"
<1>3. r \in Receipts /\ r.phase = "released" /\ r.attempted = journal[t].attempted
  BY <1>2, PhaseSet
<1>4. Persist(t, r, next, "end") /\ next \in {"end", "repair"}
  BY <1>1
<1> HIDE DEF r, next
<1>5. rec' = r /\ pc' \in {"end", "repair"}
  BY <1>2, <1>3, <1>4, PersistEffect DEF IInv
<1>6. TypeOK'
  <2>1. todo' \subseteq todo /\ affected' \subseteq Boards /\ dirs' \subseteq dirs
    BY <1>1, <1>2 DEF IInv, TypeOK
  <2> QED
    BY <1>2, <1>3, <1>4, <2>1, WriteTyped
<1>7. /\ Books' /\ Clean'
      /\ \A u \in Txs : journal[u] \in Receipts => journal'[u] \in Receipts
  BY <1>2, <1>3, <1>4, PersistKeeps DEF machine
<1>8. Steps' /\ Hand' /\ Behind'
  BY <1>2, <1>5 DEF Steps, Hand, Behind
<1>9. Sweep'
  BY <1>1, <1>2, <1>5, <1>7 DEF IInv, TypeOK, Sweep
<1> QED
  BY <1>6, <1>7, <1>8, <1>9 DEF IInv

-----------------------------------------------------------------------------
(* How an operation starts. *)

LEMMA ReleaseStep == ASSUME IInv, NEW b \in Boards, NEW t \in Txs, Release(b, t) PROVE IInv'
<1> USE DEF Bare, Early, Claiming, Preparing, Proven, Undoing, machine, store
<1>1. /\ pc = "idle" /\ pc' = "releasing" /\ op' = "release" /\ id' = t
      /\ rec' = [journal[t] EXCEPT !.phase = "releasing"]
      /\ [tx |-> t, oem |-> journal[t].oem] \in packages
      /\ UNCHANGED <<todo, affected, code, stuck, machine, store, faults>>
  BY DEF Release
<1>2. journal[t] # None /\ journal[t].phase = "active"
  BY DEF Release, Active, Recorded
<1>3. journal[t] \in Receipts /\ "releasing" \in Phases
  BY <1>2 DEF IInv, TypeOK, Phases
<1>4. /\ rec' \in Receipts /\ rec'.phase = "releasing" /\ rec'.oem = journal[t].oem
      /\ rec'.attempted = journal[t].attempted
  BY <1>1, <1>3, PhaseSet
<1>5. \A p \in packages : p.oem = rec'.oem => p.tx = t
  <2>1. DEFINE q == [tx |-> t, oem |-> journal[t].oem]
  <2>2. q \in packages /\ q.oem = rec'.oem /\ q.tx = t
    BY <1>1, <1>4
  <2> HIDE DEF q
  <2> QED
    BY <2>2 DEF IInv, Books
<1>6. TypeOK'
  BY <1>1, <1>4 DEF IInv, TypeOK
<1>7. Steps' /\ Sweep'
  BY <1>1 DEF IInv, Steps, Sweep
<1>8. Hand' /\ Behind'
  BY <1>1, <1>2, <1>3, <1>4, <1>5 DEF Hand, Behind
<1>9. Books' /\ Clean'
  BY <1>1 DEF IInv, Books, Clean
<1> QED
  BY <1>6, <1>7, <1>8, <1>9 DEF IInv

(* A cleanup and a repair start from a journal that every reader understands. *)
LEMMA StartStep == ASSUME IInv, Cleanup \/ ReleaseAll \/ Repair PROVE IInv'
<1> USE DEF Bare, Early, Claiming, Preparing, Proven, Undoing, machine, store
<1>1. /\ pc = "idle" /\ code # "reboot"
      /\ UNCHANGED <<id, rec, affected, code, stuck, machine, store, faults>>
      /\ \/ pc' = "next" /\ op' = "cleanup" /\ todo' = Recorded /\ dirs \subseteq Recorded
         \/ pc' = "next" /\ op' = "releaseall" /\ packages = {} /\ todo' = {}
         \/ pc' = "strip" /\ op' = "releaseall" /\ todo' = {p.tx : p \in packages}
         \/ pc' = "repair" /\ op' = "repair" /\ todo' \subseteq Recorded
  BY DEF Cleanup, ReleaseAll, Repair, Owned, Readable, IInv, Steps
<1>2. \A t \in Recorded : t \in Txs /\ journal[t] \in Receipts
  BY DEF Recorded, IInv, TypeOK
<1>3. \A p \in packages : p.tx \in Recorded
  BY DriverAssumption DEF IInv, TypeOK, Packages, Books, Recorded
<1>4. TypeOK'
  BY <1>1, <1>2, <1>3 DEF IInv, TypeOK
<1>5. Steps' /\ Hand' /\ Behind'
  BY <1>1 DEF Steps, Hand, Behind
<1>6. Books' /\ Clean'
  BY <1>1 DEF IInv, Books, Clean
<1>7. Sweep'
  BY <1>1, <1>2, <1>3 DEF Sweep
<1> QED
  BY <1>4, <1>5, <1>6, <1>7 DEF IInv

(* How one ends, by itself or not, and what happens around the helper. *)
LEMMA LeaveStep == ASSUME IInv, End \/ Crash PROVE IInv'
<1> USE DEF Bare, Early, Claiming, Preparing, Proven, Undoing, machine, store
<1>1. Leave /\ UNCHANGED <<machine, journal, dirs>> /\ torn' \in BOOLEAN /\ faults' \in 0 .. MaxFaults
  <2>1. UNCHANGED faults \/ Fault
    BY DEF End, Crash
  <2>2. faults' \in 0 .. MaxFaults
    BY <2>1, DriverAssumption DEF Fault, IInv, TypeOK
  <2>3. torn' \in BOOLEAN
    BY DEF End, Crash, Writing, IInv, TypeOK
  <2> QED
    BY <2>2, <2>3 DEF End, Crash
<1>2. TypeOK'
  BY <1>1 DEF Leave, IInv, TypeOK, Codes
<1>3. Steps' /\ Hand' /\ Behind' /\ Sweep'
  BY <1>1 DEF Leave, Steps, Hand, Behind, Sweep
<1>4. Books' /\ Clean'
  BY <1>1, FewerPackages
<1> QED
  BY <1>2, <1>3, <1>4 DEF IInv

LEMMA WorldStep ==
    ASSUME IInv, SweepCertificates \/ (\E b \in Boards : Plug(b) \/ Unplug(b)) \/ SpareMoves \/ UNCHANGED vars
    PROVE  IInv'
<1> USE DEF Bare, Early, Claiming, Preparing, Proven, Undoing, helper, machine, store
<1>1. /\ UNCHANGED <<helper, packages, store, faults>> /\ key' \in BOOLEAN /\ certs' \subseteq certs
      /\ (certs' = certs \/ pc = "idle")
  BY DEF SweepCertificates, Plug, Unplug, SpareMoves, vars, IInv, TypeOK
<1>2. driver' \in [Boards -> {"away", "keyboard", "winusb", "removed"}] /\ spare' \in 0 .. MaxSpare
  BY DEF SweepCertificates, Plug, Unplug, SpareMoves, vars, IInv, TypeOK, Match
<1>3. TypeOK'
  BY <1>1, <1>2 DEF IInv, TypeOK
<1>4. Steps' /\ Hand' /\ Behind' /\ Sweep'
  BY <1>1 DEF IInv, Steps, Hand, Behind, Sweep
<1>5. Books' /\ Clean'
  BY <1>1, FewerPackages
<1> QED
  BY <1>3, <1>4, <1>5 DEF IInv

LEMMA NextStep == ASSUME IInv, [Next]_vars PROVE IInv'
<1>1. CASE UNCHANGED vars \/ SweepCertificates \/ (\E b \in Boards : Plug(b) \/ Unplug(b)) \/ SpareMoves
  BY <1>1, WorldStep
<1>2. CASE \E b \in Boards, t \in Txs : Prepare(b, t) \/ Release(b, t)
  BY <1>2, PrepareStep, ReleaseStep
<1>3. CASE Cleanup \/ ReleaseAll \/ Repair
  BY <1>3, StartStep
<1>4. CASE End \/ Crash
  BY <1>4, LeaveStep
<1>5. CASE Helper /\ ~End
  <2>1. CASE Fresh \/ Scan \/ Blind \/ Remove \/ Gone \/ Rescan \/ Restored
    BY <2>1, WalkStep
  <2>2. CASE MakeDir \/ Sign \/ Trust
    BY <2>2, ClaimStep
  <2>3. CASE Begin \/ Verify \/ Attempt \/ Inventory \/ Survey \/ Compensate \/ Affected
    BY <2>3, BeginStep, VerifyStep, AttemptStep, InventoryStep, SurveyStep, CompensateStep, AffectedStep
  <2>4. CASE Rolled \/ Recover \/ Releasing \/ Released \/ Audit \/ Correct
    BY <2>4, RolledStep, RecoverStep, ReleaseWrites, AuditStep, CorrectStep
  <2>5. CASE Add \/ Delete \/ Distrust
    BY <2>5, AddStep, DeleteStep, DistrustStep
  <2>6. CASE Pick \/ Residue \/ Strip \/ Settle
    BY <2>6, CleanupWalk, ReleaseAllStep
  <2> QED
    BY <1>5, <2>1, <2>2, <2>3, <2>4, <2>5, <2>6 DEF Helper
<1> QED
  BY <1>1, <1>2, <1>3, <1>4, <1>5 DEF Next

(* The parts of the invariant hold in every state. *)
THEOREM Inductive == Spec => []IInv
<1>1. Init => IInv
  BY InitHolds
<1>2. IInv /\ [Next]_vars => IInv'
  BY NextStep
<1> QED
  BY <1>1, <1>2, PTL DEF Spec

(* Every state of the machine and its journal: typed, "rolled back" written only *)
(* of what left no package, certificate or file, and nothing more done to the    *)
(* driver stack once Windows asked for a reboot.                                 *)
THEOREM JournalAccounts == Spec => []JournalInv
<1>1. IInv => JournalInv
  <2> SUFFICES ASSUME IInv PROVE JournalInv
    OBVIOUS
  <2>1. RolledBackIsClean
    BY DEF IInv, Clean, RolledBackIsClean, Recorded, Mine
  <2>2. StopsAtReboot
    BY DEF IInv, Steps, StopsAtReboot
  <2> QED
    BY <2>1, <2>2 DEF IInv, JournalInv
<1> QED
  BY <1>1, Inductive, PTL

-----------------------------------------------------------------------------
(* Which step changes what. *)

LEMMA Moves ==
    ASSUME [Next]_vars
    PROVE  /\ packages' = packages \/ Add \/ Delete \/ Strip
           /\ certs' = certs \/ Trust \/ Distrust \/ Residue \/ SweepCertificates
           /\ \/ journal' = journal
              \/ Begin \/ Verify \/ Attempt \/ Inventory \/ Survey \/ Compensate
              \/ Affected \/ Rolled \/ Recover \/ Releasing \/ Released \/ Audit \/ Correct
<1> USE DEF machine, store
<1>1. CASE UNCHANGED vars \/ SweepCertificates \/ (\E b \in Boards : Plug(b) \/ Unplug(b)) \/ SpareMoves
  BY <1>1 DEF vars, SweepCertificates, Plug, Unplug, SpareMoves
<1>2. CASE \/ \E b \in Boards, t \in Txs : Prepare(b, t) \/ Release(b, t)
           \/ Cleanup \/ ReleaseAll \/ Repair \/ Crash
  BY <1>2 DEF Prepare, Release, Cleanup, ReleaseAll, Repair, Crash
<1>3. CASE Helper
  <2>1. CASE MakeDir \/ Sign \/ Trust \/ Fresh \/ Scan \/ Blind \/ Remove \/ Gone \/ Rescan \/ Restored
    BY <2>1 DEF MakeDir, Sign, Trust, Fresh, Scan, Blind, Remove, Gone, Rescan, Restored
  <2>2. CASE Pick \/ Residue \/ Strip \/ Settle \/ End \/ Add \/ Delete \/ Distrust
    BY <2>2 DEF Pick, Residue, Strip, Settle, End, Add, Delete, Distrust
  <2>3. CASE Begin \/ Verify \/ Attempt \/ Inventory \/ Survey \/ Compensate \/ Affected
    BY <2>3 DEF Begin, Verify, Attempt, Inventory, Survey, Compensate, Affected
  <2>4. CASE Rolled \/ Recover \/ Releasing \/ Released \/ Audit \/ Correct
    BY <2>4 DEF Rolled, Recover, Releasing, Released, Audit, Correct
  <2> QED
    BY <1>3, <2>1, <2>2, <2>3, <2>4 DEF Helper
<1> QED
  BY <1>1, <1>2, <1>3 DEF Next

(* No transaction takes a package that another one installed. *)
THEOREM TakesItsOwn == Spec => OnlyItsOwnPackage
<1>1. ASSUME IInv, [Next]_vars, op # "releaseall", NEW p \in packages \ packages'
      PROVE  p.tx = id
  <2>1. Delete
    BY <1>1, Moves DEF Add, Strip, IInv, Steps
  <2>2. pc = "delete" /\ p.oem = rec.oem
    BY <1>1, <2>1 DEF Delete, Deleted
  <2> QED
    BY <1>1, <2>2 DEF IInv, Hand
<1>2. IInv /\ [Next]_vars => [op # "releaseall" => \A p \in packages \ packages' : p.tx = id]_vars
  BY <1>1
<1> QED
  BY <1>2, Inductive, PTL DEF Spec, OnlyItsOwnPackage

(* The steps that end an operation. *)
LEMMA Endings ==
    ASSUME [Next]_vars, pc # "end", pc' = "end", op \in {"prepare", "release", "cleanup"}, IInv
    PROVE  \/ MakeDir \/ Begin \/ Survey \/ Distrust \/ Rolled \/ Recover
           \/ Releasing \/ Released \/ Residue
<1> USE DEF helper
<1>1. CASE UNCHANGED vars \/ SweepCertificates \/ (\E b \in Boards : Plug(b) \/ Unplug(b)) \/ SpareMoves
  BY <1>1 DEF vars, SweepCertificates, Plug, Unplug, SpareMoves
<1>2. CASE \/ \E b \in Boards, t \in Txs : Prepare(b, t) \/ Release(b, t)
           \/ Cleanup \/ ReleaseAll \/ Repair \/ Crash
  BY <1>2 DEF Prepare, Release, Cleanup, ReleaseAll, Repair, Crash, Leave
<1>3. CASE Helper
  <2>1. CASE Sign \/ Trust \/ Fresh \/ Scan \/ Blind \/ Remove \/ Gone \/ Rescan \/ Restored
    BY <2>1 DEF Sign, Trust, Fresh, Scan, Blind, Remove, Gone, Rescan, Restored, Try, Run, Idles
  <2>2. CASE Pick \/ Strip \/ Settle \/ End \/ Add \/ Delete \/ Correct
    BY <2>2 DEF Pick, Strip, Settle, End, Leave, Add, Delete, Correct, Run, Idles, IInv, Steps
  <2>3. CASE Verify \/ Attempt \/ Inventory \/ Compensate \/ Affected \/ Audit
    BY <2>3 DEF Verify, Attempt, Inventory, Compensate, Rollback, Affected, Audit, Persist
  <2> QED
    BY <1>3, <2>1, <2>2, <2>3 DEF Helper
<1> QED
  BY <1>1, <1>2, <1>3 DEF Next

(* A cleanup that reports success left no package, certificate, file or key. *)
THEOREM CleanupIsThorough == Spec => CleanupLeavesNothing
<1>1. ASSUME IInv, [Next]_vars, op = "cleanup", pc = "next", pc' = "end", UNCHANGED faults
      PROVE  packages' = {} /\ certs' = {} /\ dirs' = {} /\ ~key'
  <2>1. Residue
    BY <1>1, Endings DEF MakeDir, Begin, Survey, Distrust, Rolled, Recover, Releasing, Released
  <2>2. todo = {} /\ UNCHANGED <<packages, dirs>>
    BY <2>1 DEF Residue, store
  <2>3. packages = {} /\ dirs = {}
    BY <1>1, <2>2 DEF IInv, Sweep
  <2> QED
    BY <1>1, <2>1, <2>2, <2>3 DEF Residue
<1>2. IInv /\ [Next]_vars =>
        [op = "cleanup" /\ pc = "next" /\ pc' = "end" /\ UNCHANGED faults =>
            packages' = {} /\ certs' = {} /\ dirs' = {} /\ ~key']_vars
  BY <1>1
<1> QED
  BY <1>2, Inductive, PTL DEF Spec, CleanupLeavesNothing

(* A receipt is left in a phase that its reader can act on. *)
THEOREM EndsReadable == Spec => EndsOnTheRecord
<1> DEFINE final == {"active", "rolledback", "released", "recovery"}
<1>1. ASSUME IInv, [Next]_vars, pc # "end", pc' = "end", op \in {"prepare", "release"},
             journal'[id] # None, ~(pc = "recover" /\ journal' = journal)
      PROVE  journal'[id].phase \in final
  <2>1. MakeDir \/ Begin \/ Survey \/ Rolled \/ Recover \/ Releasing \/ Released
    BY <1>1, Endings DEF Distrust, Unpersisted, Residue, Try, IInv, Steps
  <2>2. id \in Txs /\ (pc # "mkdir" => rec \in Receipts) /\ TypeOK
    BY <1>1, <2>1 DEF IInv, Hand, MakeDir, Begin, Survey, Rolled, Recover, Releasing, Released,
          Bare
  <2>3. CASE MakeDir \/ Begin
    <3>1. journal[id] = None /\ journal' = journal
      BY <1>1, <2>3 DEF IInv, Hand, Early, MakeDir, Begin, Persist
    <3> QED
      BY <1>1, <3>1
  <2>4. CASE Survey
    <3>1. journal' = [journal EXCEPT ![id] = [rec EXCEPT !.phase = "active"]]
      BY <1>1, <2>4 DEF Survey, Persist
    <3> QED
      BY <2>2, <2>4, <3>1 DEF TypeOK, Survey, Receipts
  <2>5. CASE Rolled
    <3>1. journal' = [journal EXCEPT ![id] = [rec EXCEPT !.phase = "rolledback"]]
      BY <1>1, <2>5 DEF Rolled, Persist
    <3> QED
      BY <2>2, <2>5, <3>1 DEF TypeOK, Rolled, Receipts
  <2>6. CASE Recover
    <3>1. journal' = [journal EXCEPT ![id] = [rec EXCEPT !.phase = "recovery"]]
      BY <1>1, <2>6 DEF Recover, Persist
    <3> QED
      BY <2>2, <2>6, <3>1 DEF TypeOK, Recover, Receipts
  <2>7. CASE Releasing
    <3>1. journal' = journal /\ journal[id].phase = "active"
      BY <1>1, <2>7 DEF Releasing, Persist, IInv, Behind
    <3> QED
      BY <3>1
  <2>8. CASE Released
    <3>1. journal[id].phase = "rolledback"
      BY <1>1, <2>8 DEF Released, IInv, Behind
    <3>2. \/ journal' = journal
          \/ journal' = [journal EXCEPT ![id] = [rec EXCEPT !.phase = "released"]]
      BY <2>8 DEF Released, Persist
    <3> QED
      BY <2>2, <2>8, <3>1, <3>2 DEF TypeOK, Released, Receipts
  <2> QED
    BY <2>1, <2>3, <2>4, <2>5, <2>6, <2>7, <2>8
<1>2. IInv /\ [Next]_vars =>
        [pc # "end" /\ pc' = "end" /\ op \in {"prepare", "release"} /\ journal'[id] # None
         /\ ~(pc = "recover" /\ journal' = journal) =>
            journal'[id].phase \in {"active", "rolledback", "released", "recovery"}]_vars
  BY <1>1
<1> QED
  BY <1>2, Inductive, PTL DEF Spec, EndsOnTheRecord

-----------------------------------------------------------------------------
(* The refinement of ClaimLedger. *)

(* A write puts a transaction on record, or announces it, or tells a reader of *)
(* the ledger nothing new.                                                     *)
LEMMA WriteInLedger ==
    ASSUME IInv, NEW t \in Txs, NEW r \in Receipts, NEW next, NEW fail, Persist(t, r, next, fail),
           UNCHANGED <<packages, certs>>,
           journal[t] \in Receipts /\ journal[t].attempted => r.attempted,
           journal[t] = None => ~r.attempted
    PROVE  [Ledger!Next]_(Ledger!ledger)
<1> DEFINE announced == {u \in Recorded : journal[u].attempted}
<1>1. /\ \A u \in Txs \ {t} : journal'[u] = journal[u]
      /\ journal' = journal \/ journal'[t] = r
  BY PersistEffect DEF IInv
<1>2. r # None /\ (journal[t] = None \/ journal[t] \in Receipts)
  BY DriverAssumption DEF IInv, TypeOK
<1>3. CASE journal' = journal
  BY <1>3 DEF Ledger!ledger, Recorded
<1>4. CASE journal'[t] = r /\ journal[t] = None
  <2>1. Recorded' = Recorded \cup {t} /\ announced' = announced
    BY <1>1, <1>2, <1>4 DEF Recorded
  <2> QED
    BY <2>1 DEF Ledger!Next, Ledger!Record
<1>5. CASE journal'[t] = r /\ journal[t] # None
  <2>1. Recorded' = Recorded /\ t \in Recorded /\ announced' = (IF r.attempted THEN announced \cup {t} ELSE announced)
    BY <1>1, <1>2, <1>5 DEF Recorded
  <2> QED
    BY <2>1 DEF Ledger!Next, Ledger!Announce, Ledger!ledger
<1> QED
  BY <1>1, <1>3, <1>4, <1>5

(* Every write of the helper is one of those. *)
LEMMA WritesInLedger ==
    ASSUME IInv, \/ Begin \/ Verify \/ Attempt \/ Inventory \/ Survey \/ Compensate
                 \/ Affected \/ Rolled \/ Recover \/ Releasing \/ Released \/ Audit \/ Correct
    PROVE  [Ledger!Next]_(Ledger!ledger)
<1> USE DEF Bare, Early, Claiming, Preparing, Proven, Undoing, machine
<1>1. UNCHANGED <<packages, certs>>
  BY DEF Begin, Verify, Attempt, Inventory, Survey, Compensate, Affected, Rolled, Recover,
         Releasing, Released, Audit, Correct
<1>2. journal' = journal => [Ledger!Next]_(Ledger!ledger)
  BY <1>1 DEF Ledger!ledger, Recorded
<1>3. CASE Begin
  BY <1>1, <1>3, WriteInLedger, DriverAssumption DEF Begin, IInv, Hand
<1>4. CASE ~Begin /\ ~Correct
  <2>1. /\ id \in Txs /\ rec \in Receipts /\ journal[id] \in Receipts /\ journal[id] # None
        /\ journal[id].attempted => rec.attempted
    BY <1>4, DriverAssumption DEF IInv, Hand, Verify, Attempt, Inventory, Survey, Compensate,
          Affected, Rolled, Recover, Releasing, Released, Audit
  <2>2. ASSUME NEW r \in Receipts, NEW next, NEW fail, Persist(id, r, next, fail),
               rec.attempted => r.attempted
        PROVE  [Ledger!Next]_(Ledger!ledger)
    BY <1>1, <2>1, <2>2, WriteInLedger
  <2>3. ASSUME NEW ph \in Phases, NEW next, NEW fail, Persist(id, [rec EXCEPT !.phase = ph], next, fail)
        PROVE  [Ledger!Next]_(Ledger!ledger)
    <3>1. [rec EXCEPT !.phase = ph] \in Receipts /\ [rec EXCEPT !.phase = ph].attempted = rec.attempted
      BY <2>1, PhaseSet
    <3> QED
      BY <2>2, <2>3, <3>1
  <2>4. CASE Verify \/ Survey \/ Rolled \/ Recover \/ Released
    <3>1. {"prepared", "active", "rolledback", "released", "recovery"} \subseteq Phases
      BY DEF Phases
    <3>2. \/ \E ph \in Phases : \E next, fail : Persist(id, [rec EXCEPT !.phase = ph], next, fail)
          \/ journal' = journal
      BY <2>4, <3>1 DEF Verify, Survey, Rolled, Recover, Released
    <3> QED
      BY <1>2, <2>3, <3>2
  <2>5. CASE Attempt
    <3>1. [rec EXCEPT !.attempted = TRUE] \in Receipts /\ [rec EXCEPT !.attempted = TRUE].attempted
      BY <2>1 DEF Receipts
    <3> QED
      BY <2>2, <2>5, <3>1 DEF Attempt
  <2>6. CASE Inventory \/ Compensate
    <3>1. CASE Mine(id) # {}
      <4>1. Known \in Receipts /\ Known.attempted = rec.attempted
        BY <2>1, <3>1, KnownReceipt DEF IInv
      <4> QED
        BY <1>2, <2>2, <2>6, <3>1, <4>1 DEF Inventory, Compensate
    <3>2. CASE Mine(id) = {}
      BY <1>2, <2>6, <3>2 DEF Inventory, Compensate
    <3> QED
      BY <3>1, <3>2
  <2>7. CASE Affected \/ Releasing
    BY <2>1, <2>2, <2>7 DEF Affected, Releasing
  <2>8. CASE Audit
    <3>1. CASE Exact /\ (Identified # None \/ OnWinUsb = {})
      <4>1. Identified \in Oems \cup {None} /\ "releasing" \in Phases
        BY <2>1, <3>1, IdentifiedIsOwn DEF Phases
      <4>2. /\ [rec EXCEPT !.phase = "releasing", !.oem = Identified] \in Receipts
            /\ [rec EXCEPT !.phase = "releasing", !.oem = Identified].attempted = rec.attempted
        BY <2>1, <4>1 DEF Receipts
      <4> QED
        BY <2>2, <2>8, <3>1, <4>2 DEF Audit
    <3>2. CASE ~(Exact /\ (Identified # None \/ OnWinUsb = {}))
      BY <1>2, <2>8, <3>2 DEF Audit
    <3> QED
      BY <3>1, <3>2
  <2> QED
    BY <1>4, <2>4, <2>5, <2>6, <2>7, <2>8
<1>5. CASE Correct
  <2>1. PICK t \in todo : \E next : Persist(t, [journal[t] EXCEPT !.phase = "released"], next, "end")
    BY <1>5 DEF Correct
  <2>2. t \in Txs /\ journal[t] \in Receipts /\ journal[t] # None /\ "released" \in Phases
    BY <1>5, DriverAssumption DEF Correct, IInv, TypeOK, Steps, Sweep, Phases
  <2>3. /\ [journal[t] EXCEPT !.phase = "released"] \in Receipts
        /\ [journal[t] EXCEPT !.phase = "released"].attempted = journal[t].attempted
    BY <2>2, PhaseSet
  <2> QED
    BY <1>1, <2>1, <2>2, <2>3, WriteInLedger
<1> QED
  BY <1>3, <1>4, <1>5

(* Packages come one at a time, certified and announced, and go one at a time. *)
LEMMA PackagesInLedger ==
    ASSUME IInv, Add \/ Delete \/ Strip
    PROVE  [Ledger!Next]_(Ledger!ledger)
<1>1. UNCHANGED <<certs, journal>>
  BY DEF Add, Delete, Strip, store
<1> DEFINE installed == {p.tx : p \in packages}
<1>2. CASE packages' = packages
  BY <1>1, <1>2 DEF Ledger!ledger, Recorded
<1>3. CASE Add /\ packages' # packages
  <2>1. PICK o \in Free : packages' = packages \cup {[tx |-> id, oem |-> o]}
    BY <1>3 DEF Add
  <2>2. id \in Txs /\ id \in certs /\ journal[id] \in Receipts /\ journal[id].attempted
    BY <1>3 DEF IInv, Hand, Behind, Add, Bare, Early
  <2>3. id \in Recorded
    BY <2>2, DriverAssumption DEF Recorded
  <2>4. [tx |-> id, oem |-> o].tx = id
    OBVIOUS
  <2>5. installed' = installed \cup {id}
    BY <2>1, <2>4
  <2> QED
    BY <1>1, <2>2, <2>3, <2>5 DEF Ledger!Next, Ledger!Install, Recorded
<1>4. ASSUME NEW name, packages' = {p \in packages : p.oem # name}
      PROVE  [Ledger!Next]_(Ledger!ledger)
  <2>1. CASE \E p \in packages : p.oem = name
    <3>1. PICK p \in packages : p.oem = name
      BY <2>1
    <3>2. p.tx \in Txs /\ packages' = packages \ {p}
      BY <1>4, <3>1 DEF IInv, TypeOK, Packages, Books
    <3>3. installed' = installed \/ installed' = installed \ {p.tx}
      BY <3>2
    <3>4. Recorded' = Recorded /\ {t \in Recorded : journal[t].attempted}' = {t \in Recorded : journal[t].attempted}
      BY <1>1 DEF Recorded
    <3> HIDE DEF installed
    <3>5. CASE installed' = installed
      BY <1>1, <3>4, <3>5 DEF Ledger!ledger, installed
    <3>6. CASE installed' = installed \ {p.tx}
      BY <1>1, <3>2, <3>4, <3>6 DEF Ledger!Next, Ledger!Uninstall, installed
    <3> QED
      BY <3>3, <3>5, <3>6
  <2>2. CASE ~\E p \in packages : p.oem = name
    BY <1>2, <1>4, <2>2
  <2> QED
    BY <2>1, <2>2
<1> QED
  BY <1>2, <1>3, <1>4 DEF Delete, Strip, Deleted

(* A certificate is trusted for a receipt on disk, and given up when no package *)
(* of the same transaction is left.                                             *)
LEMMA CertificatesInLedger ==
    ASSUME IInv, Trust \/ Distrust \/ Residue \/ SweepCertificates
    PROVE  [Ledger!Next]_(Ledger!ledger)
<1> USE DEF Bare, Early, Claiming, Preparing, Proven, Undoing
<1>1. UNCHANGED <<packages, journal>>
  BY DEF Trust, Distrust, Residue, SweepCertificates, store
<1>2. CASE Trust
  <2>1. id \in Txs /\ journal[id] \in Receipts /\ certs' = certs \cup {id}
    BY <1>2 DEF IInv, Hand, Trust
  <2>2. id \in Recorded
    BY <2>1, DriverAssumption DEF Recorded
  <2> QED
    BY <1>1, <2>1, <2>2 DEF Ledger!Next, Ledger!Trust, Recorded
<1>3. ASSUME NEW gone \in SUBSET Txs, certs' = certs \ gone, \A p \in packages : p.tx \notin gone
      PROVE  [Ledger!Next]_(Ledger!ledger)
  BY <1>1, <1>3 DEF Ledger!Next, Ledger!Distrust, Recorded
<1>4. CASE Distrust
  <2>1. id \in Txs /\ \A p \in packages : p.tx # id
    BY <1>4 DEF IInv, Hand, Behind, Distrust
  <2>2. {id} \in SUBSET Txs /\ {} \in SUBSET Txs
    BY <2>1
  <2>3. certs' = certs \ {id} \/ certs' = certs \ {}
    BY <1>4 DEF Distrust
  <2>4. CASE certs' = certs \ {id}
    BY <1>3, <2>1, <2>2, <2>4
  <2>5. CASE certs' = certs \ {}
    BY <1>3, <2>2, <2>5
  <2> QED
    BY <2>3, <2>4, <2>5
<1>5. CASE Residue
  <2>1. packages = {} /\ certs' = certs \ (certs \ certs')
    BY <1>5 DEF Residue, IInv, Steps, Sweep
  <2> QED
    BY <1>3, <2>1 DEF IInv, TypeOK
<1>6. CASE SweepCertificates
  <2>1. PICK gone \in SUBSET {t \in certs : Mine(t) = {}} : certs' = certs \ gone
    BY <1>6 DEF SweepCertificates
  <2>2. gone \in SUBSET Txs /\ \A p \in packages : p.tx \notin gone
    BY <2>1 DEF IInv, TypeOK, Mine
  <2> QED
    BY <1>3, <2>1, <2>2
<1> QED
  BY <1>2, <1>4, <1>5, <1>6

(* What is on the machine is on record before it is there: the helper is an *)
(* implementation of the ledger.                                            *)
THEOREM KeepsTheLedger == Spec => ImplementsLedger
<1>1. Init => Ledger!Init
  <2> SUFFICES ASSUME Init PROVE Ledger!Init
    OBVIOUS
  <2>1. Recorded = {} /\ {t \in Recorded : journal[t].attempted} = {} /\ {p.tx : p \in packages} = {}
    BY DEF Init, Recorded
  <2> QED
    BY <2>1 DEF Init, Ledger!Init
<1>2. ASSUME IInv, [Next]_vars PROVE [Ledger!Next]_(Ledger!ledger)
  <2>1. CASE UNCHANGED <<packages, certs, journal>>
    BY <2>1 DEF Ledger!ledger, Recorded
  <2>2. CASE ~UNCHANGED <<packages, certs, journal>>
    BY <1>2, <2>2, Moves, WritesInLedger, PackagesInLedger, CertificatesInLedger
  <2> QED
    BY <2>1, <2>2
<1>3. IInv /\ [Next]_vars => [Ledger!Next]_(Ledger!ledger)
  BY <1>2
<1> QED
  BY <1>1, <1>3, Inductive, PTL DEF Spec, ImplementsLedger, Ledger!Spec

=============================================================================
