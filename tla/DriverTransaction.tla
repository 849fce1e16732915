-------------------------- MODULE DriverTransaction --------------------------
(* The elevated helper that moves a keyboard to WinUSB and back             *)
(* (ksx-platform, winusb_transaction.rs).  Packages match a hardware id, so *)
(* the boards of this model are identical ones.  Every mutation of the      *)
(* machine is preceded by a journal write; the helper may die at any step,  *)
(* a command, a read or a write may fail, and boards come and go between    *)
(* any two steps.  A named mutex keeps helpers apart, so there is one.      *)
(* Windows and pnputil are modelled from how the code uses them.            *)
EXTENDS Naturals, FiniteSets

CONSTANTS Boards,       \* interfaces that share one hardware id
          Txs,          \* transaction ids, each used once
          Oems,         \* published package names: Windows uses them again
          None,         \* no receipt, no name
          MaxSpare,     \* bound: other keyboards
          MaxFaults     \* bound: deaths and failures

Phases == {"preparing", "prepared", "installed", "active", "releasing",
           "rolledback", "released", "recovery"}
Receipts == [phase : Phases, target : Boards, oem : Oems \cup {None},
             attempted : BOOLEAN, before : Nat]
Packages == [tx : Txs, oem : Oems]

ASSUME DriverAssumption ==
    /\ MaxSpare \in Nat /\ MaxFaults \in Nat
    /\ IsFiniteSet(Txs) /\ IsFiniteSet(Oems) /\ Cardinality(Oems) >= Cardinality(Txs)
    /\ None \notin Txs \cup Oems \cup Boards \cup Receipts

VARIABLES
    pc, op, id, rec,        \* the helper: step, operation, receipt in hand
    todo, affected, code,   \* receipts and boards to go, the last exit code
    stuck,                  \* its own temporary file refuses a next write
    driver, spare,          \* what each board is bound to, other keyboards
    packages, certs, key,   \* driver store, trusted certificates, a signing key
    journal, dirs, torn,    \* receipts, artifact directories, a stray temporary
    faults

helper  == <<pc, op, id, rec, todo, affected, code, stuck>>
machine == <<driver, spare, packages, certs, key>>
store   == <<journal, dirs, torn>>
vars    == <<helper, machine, store, faults>>

Init ==
    /\ pc = "idle" /\ op = "none" /\ id = None /\ rec = None
    /\ todo = {} /\ affected = {} /\ code = "ok" /\ stuck = FALSE
    /\ driver = [b \in Boards |-> "away"] /\ spare = MaxSpare
    /\ packages = {} /\ certs = {} /\ key = FALSE
    /\ journal = [t \in Txs |-> None] /\ dirs = {} /\ torn = FALSE
    /\ faults = 0

-----------------------------------------------------------------------------
(* The machine, as a survey and an inventory see it *)

OnWinUsb == {b \in Boards : driver[b] = "winusb"}
Present == {b \in Boards : driver[b] \in {"keyboard", "winusb"}}
Typing == spare + Cardinality(Present \ OnWinUsb)
Mine(t) == {p \in packages : p.tx = t}
Name(t) == (CHOOSE p \in Mine(t) : TRUE).oem

\* a package in the store takes the boards that are enumerated
Match == IF packages = {} THEN "keyboard" ELSE "winusb"
Settled == [b \in Boards |-> IF driver[b] = "removed" THEN Match ELSE driver[b]]

Recorded == {t \in Txs : journal[t] # None}

\* receipts refuses the whole store for one entry it does not know
Readable == ~torn /\ dirs \subseteq Recorded

-----------------------------------------------------------------------------
(* The helper's steps *)

Fault == faults < MaxFaults /\ faults' = faults + 1

\* the step ends well, or by an error return
Try(next, fail) ==
    \/ pc' = next /\ UNCHANGED faults
    \/ pc' \in fail /\ Fault

\* a pnputil command, which may also ask for a reboot
Run(next, fail) ==
    \/ pc' = next /\ UNCHANGED <<faults, code>>
    \/ pc' \in fail /\ Fault /\ code' \in {"error", "reboot"}

\* ... or does nothing, whatever it answers
Idles(next, fail) ==
    /\ Fault
    /\ \/ pc' = next /\ UNCHANGED code
       \/ pc' \in fail /\ code' \in {"error", "reboot"}

\* atomic_write: a failed write may leave its temporary file, which then refuses the
\* next write of this process and, to any reader, the journal
Persist(t, r, next, fail) ==
    /\ rec' = r
    /\ \/ /\ ~stuck /\ journal' = [journal EXCEPT ![t] = r] /\ pc' = next
          /\ UNCHANGED <<torn, stuck, faults>>
       \/ /\ pc' = fail /\ journal' = journal
          /\ \/ stuck /\ UNCHANGED <<torn, stuck, faults>>
             \/ /\ Fault
                /\ \E left \in BOOLEAN : stuck' = left /\ torn' = (torn \/ left)

Leave ==
    /\ pc' = "idle" /\ op' = "none" /\ id' = None /\ rec' = None
    /\ todo' = {} /\ affected' = {} /\ code' = "ok" /\ stuck' = FALSE

End == pc = "end" /\ Leave /\ UNCHANGED <<machine, store, faults>>

Writing == {"begin", "verify", "attempt", "inventory", "survey", "compensate", "affected",
            "rolled", "released", "recover", "releasing", "audit", "repair"}

\* the process dies: in a write, beside its temporary file
Crash ==
    /\ pc \notin {"idle", "end"} /\ Fault /\ Leave
    /\ torn' \in {torn, torn \/ pc \in Writing}
    /\ UNCHANGED <<machine, journal, dirs>>

-----------------------------------------------------------------------------
(* prepare_with *)

Prepare(b, t) ==
    /\ pc = "idle" /\ journal[t] = None /\ t \notin dirs
    /\ Present = {b} /\ b \notin OnWinUsb /\ spare > 0 /\ ~key
    /\ pc' = "mkdir" /\ op' = "prepare" /\ id' = t
    /\ rec' = [phase |-> "preparing", target |-> b, oem |-> None,
               attempted |-> FALSE, before |-> Typing]
    /\ UNCHANGED <<todo, affected, code, stuck, machine, store, faults>>

MakeDir ==
    /\ pc = "mkdir" /\ Try("begin", {"end"}) /\ dirs' = dirs \cup {id}
    /\ UNCHANGED <<op, id, rec, todo, affected, code, stuck, machine, journal, torn>>

Begin ==
    /\ pc = "begin" /\ Persist(id, rec, "sign", "end")
    /\ UNCHANGED <<op, id, todo, affected, code, machine, dirs>>

Sign ==
    /\ pc = "sign" /\ Try("trust", {"compensate"}) /\ key' = TRUE
    /\ UNCHANGED <<op, id, rec, todo, affected, code, stuck, driver, spare, packages, certs, store>>

Trust ==
    /\ pc = "trust" /\ Try("verify", {"compensate"}) /\ certs' = certs \cup {id}
    /\ key' \in {key, FALSE} /\ (pc' = "verify" => ~key')
    /\ UNCHANGED <<op, id, rec, todo, affected, code, stuck, driver, spare, packages, store>>

Verify ==
    /\ pc = "verify" /\ Persist(id, [rec EXCEPT !.phase = "prepared"], "fresh", "compensate")
    /\ UNCHANGED <<op, id, todo, affected, code, machine, dirs>>

Fresh ==
    /\ pc = "fresh"
    /\ pc' = IF Present = {rec.target} /\ OnWinUsb = {} THEN "attempt" ELSE "compensate"
    /\ UNCHANGED <<op, id, rec, todo, affected, code, stuck, machine, store, faults>>

\* Mutant of Attempt: the command runs before the receipt says so.
AttemptUnannounced ==
    /\ pc = "attempt" /\ pc' = "add"
    /\ UNCHANGED <<op, id, rec, todo, affected, code, stuck, machine, store, faults>>

Attempt ==
    /\ pc = "attempt" /\ Persist(id, [rec EXCEPT !.attempted = TRUE], "add", "compensate")
    /\ UNCHANGED <<op, id, todo, affected, code, machine, dirs>>

Bound == [b \in Boards |-> IF b \in Present THEN "winusb" ELSE driver[b]]
Free == {o \in Oems : \A p \in packages : p.oem # o}

\* pnputil: published and bound; or an error, a reboot or no answer after any part of it
Add ==
    /\ pc = "add"
    /\ \/ /\ \E o \in Free : packages' = packages \cup {[tx |-> id, oem |-> o]}
          /\ driver' = Bound
          /\ Run("inventory", {"inventory", "compensate"})
       \/ /\ \/ packages' = packages
             \/ \E o \in Free : packages' = packages \cup {[tx |-> id, oem |-> o]}
          /\ driver' = driver
          /\ Fault /\ pc' \in {"inventory", "compensate"} /\ code' \in {"error", "reboot"}
    /\ UNCHANGED <<op, id, rec, todo, affected, stuck, spare, certs, key, store>>

Known == [rec EXCEPT !.oem = Name(id), !.phase = "installed"]

Inventory ==
    /\ pc = "inventory"
    /\ IF Mine(id) # {}
       THEN Persist(id, Known, IF code = "ok" THEN "scan" ELSE "compensate", "compensate")
       ELSE pc' = "compensate" /\ UNCHANGED <<rec, stuck, journal, torn, faults>>
    /\ UNCHANGED <<op, id, todo, affected, code, machine, dirs>>

Scan ==
    /\ pc = "scan"
    /\ \/ Run("survey", {"compensate"}) /\ driver' = Settled
       \/ Idles("survey", {"compensate"}) /\ driver' = driver
    /\ UNCHANGED <<op, id, rec, todo, affected, stuck, spare, packages, certs, key, store>>

Survey ==
    /\ pc = "survey"
    /\ IF OnWinUsb = {rec.target}
       THEN Persist(id, [rec EXCEPT !.phase = "active"], "end", "compensate")
       ELSE pc' = "compensate" /\ UNCHANGED <<rec, stuck, journal, torn, faults>>
    /\ UNCHANGED <<op, id, todo, affected, code, machine, dirs>>

Rollback == IF code = "reboot" THEN "recover" ELSE "affected"

\* compensate_prepare_failure; the write of the recovered name is best effort
Compensate ==
    /\ pc = "compensate" 
    /\ IF Mine(id) # {} /\ (rec.attempted \/ code = "reboot")
       THEN Persist(id, Known, Rollback, Rollback)
       ELSE /\ pc' = IF code = "reboot" \/ (rec.attempted /\ OnWinUsb # {})
                     THEN "recover" ELSE "distrust"
            /\ UNCHANGED <<rec, stuck, journal, torn, faults>>
    /\ UNCHANGED <<op, id, todo, affected, code, machine, dirs>>

\* an inventory or a survey the helper needs to decide cannot be read
Blind ==
    /\ pc \in {"compensate", "affected", "gone", "restored", "audit"}
    /\ pc = "compensate" => rec.attempted
    /\ Fault /\ pc' = "recover"
    /\ UNCHANGED <<op, id, rec, todo, affected, code, stuck, machine, store>>

-----------------------------------------------------------------------------
(* rollback_installed, which release_with and cleanup_receipt share the steps of *)

Affected ==
    /\ pc = "affected"
    /\ affected' = (IF OnWinUsb = {} THEN {rec.target} ELSE OnWinUsb)
    /\ Persist(id, rec, "remove", "recover")
    /\ UNCHANGED <<op, id, todo, code, machine, dirs>>

Remove ==
    /\ pc = "remove"
    /\ \/ affected = {} /\ pc' = "delete" /\ UNCHANGED <<affected, driver, code, faults>>
       \/ \E b \in affected :
            /\ affected' = affected \ {b}
            /\ \/ /\ b \in Present /\ Run("remove", {"recover"})
                  /\ driver' = [driver EXCEPT ![b] = "removed"]
               \/ b \in Present /\ Idles("remove", {"recover"}) /\ driver' = driver
               \/ b \notin Present /\ pc' = "recover" /\ UNCHANGED <<driver, code, faults>>
    /\ UNCHANGED <<op, id, rec, todo, stuck, spare, packages, certs, key, store>>

\* /delete-driver /uninstall /force takes the package off every board
Deleted(name) ==
    /\ packages' = {p \in packages : p.oem # name}
    /\ driver' = [b \in Boards |-> IF b \in OnWinUsb THEN "removed" ELSE driver[b]]

Delete ==
    /\ pc = "delete"
    /\ IF \E p \in packages : p.oem = rec.oem
       THEN \/ Deleted(rec.oem) /\ Run("gone", {"recover"})
            \/ UNCHANGED <<packages, driver>> /\ Idles("gone", {"recover"})
       ELSE /\ pc' = IF op = "cleanup" /\ rec.oem = None THEN "gone" ELSE "recover"
            /\ UNCHANGED <<packages, driver, code, faults>>
    /\ UNCHANGED <<op, id, rec, todo, affected, stuck, spare, certs, key, store>>
\* Mutant of Gone: the exit code of the deletion is proof enough.
ByExitCode ==
    /\ pc = "gone"
    /\ pc' = IF op = "cleanup" /\ rec.oem = None THEN "distrust" ELSE "rescan"
    /\ UNCHANGED <<op, id, rec, todo, affected, code, stuck, machine, store, faults>>

Gone ==
    /\ pc = "gone"
    /\ pc' = IF Mine(id) # {} THEN "recover"
             ELSE IF op = "cleanup" /\ rec.oem = None THEN "distrust" ELSE "rescan"
    /\ UNCHANGED <<op, id, rec, todo, affected, code, stuck, machine, store, faults>>

Rescan ==
    /\ pc = "rescan"
    /\ \/ Run("restored", {"recover"}) /\ driver' = Settled
       \/ Idles("restored", {"recover"}) /\ driver' = driver
    /\ UNCHANGED <<op, id, rec, todo, affected, stuck, spare, packages, certs, key, store>>

Restored ==
    /\ pc = "restored"
    /\ pc' = IF (IF op = "cleanup" THEN OnWinUsb = {}
                 ELSE rec.target \in Present \ OnWinUsb /\ Typing >= rec.before)
             THEN "distrust" ELSE "recover"
    /\ UNCHANGED <<op, id, rec, todo, affected, code, stuck, machine, store, faults>>

\* Mutant of Unpersisted: the pass-through that rollback_installed once had.
AlwaysThrough == {"recover", "end"}

\* what RecoveryRequired from the certificate store becomes: rollback_installed writes
\* it down, cleanup_receipt passes it on
Unpersisted == IF op = "cleanup" THEN {"recover", "end"} ELSE {"recover"}

Distrust ==
    /\ pc = "distrust" /\ Try("rolled", Unpersisted)
    /\ key' \in {key, FALSE} /\ certs' \in {certs, certs \ {id}}
    /\ pc' = "rolled" => ~key' /\ certs' = certs \ {id}
    /\ UNCHANGED <<op, id, rec, todo, affected, code, stuck, driver, spare, packages, store>>

\* cleanup_artifacts and the closing write
Rolled ==
    /\ pc = "rolled" /\ dirs' = dirs \ {id}
    /\ IF op = "cleanup" THEN Persist(id, [rec EXCEPT !.phase = "released"], "next", "recover")
       ELSE Persist(id, [rec EXCEPT !.phase = "rolledback"],
                    IF op = "release" THEN "released" ELSE "end", "recover")
    /\ UNCHANGED <<op, id, todo, affected, code, machine>>

\* set_recovery
Recover ==
    /\ pc = "recover" /\ Persist(id, [rec EXCEPT !.phase = "recovery"], "end", "end")
    /\ UNCHANGED <<op, id, todo, affected, code, machine, dirs>>

-----------------------------------------------------------------------------
(* release_with *)

Active(b) == {t \in Recorded : journal[t].phase = "active" /\ journal[t].target = b}

Release(b, t) ==
    /\ pc = "idle" /\ Readable /\ Active(b) = {t} /\ b \in Present
    /\ [tx |-> t, oem |-> journal[t].oem] \in packages
    /\ pc' = "releasing" /\ op' = "release" /\ id' = t
    /\ rec' = [journal[t] EXCEPT !.phase = "releasing"]
    /\ UNCHANGED <<todo, affected, code, stuck, machine, store, faults>>

Releasing ==
    /\ pc = "releasing" /\ Persist(id, rec, "affected", "end")
    /\ UNCHANGED <<op, id, todo, affected, code, machine, dirs>>

Released ==
    /\ pc = "released" /\ Persist(id, [rec EXCEPT !.phase = "released"], "end", "end")
    /\ UNCHANGED <<op, id, todo, affected, code, machine, dirs>>

-----------------------------------------------------------------------------
(* cleanup_with: the uninstaller, over every receipt *)

\* Mutant of Owned: the receipts that are over are passed by.
StillOpen == {t \in Recorded : journal[t].phase \notin {"rolledback", "released"}}

Owned == Recorded

Cleanup ==
    /\ pc = "idle" /\ Readable
    /\ pc' = "next" /\ op' = "cleanup" /\ todo' = Owned
    /\ UNCHANGED <<id, rec, affected, code, stuck, machine, store, faults>>

Pick ==
    /\ pc = "next" /\ pc' = "audit"
    /\ \E t \in todo : id' = t /\ rec' = journal[t] /\ todo' = todo \ {t}
    /\ UNCHANGED <<op, affected, code, stuck, machine, store, faults>>

Named == {p \in packages : p.oem = rec.oem}

\* Mutant of Exact: the published name alone identifies the package.
ByPublishedName == TRUE

\* a recorded package is gone, or it answers to both of its names
Exact == rec.oem = None \/ Named = Mine(id)

Identified ==
    IF rec.oem # None /\ Named # {} THEN rec.oem
    ELSE IF Mine(id) = {} THEN None ELSE Name(id)

Audit ==
    /\ pc = "audit"
    /\ IF Exact /\ (Identified # None \/ OnWinUsb = {})
       THEN /\ affected' = OnWinUsb
            /\ Persist(id, [rec EXCEPT !.phase = "releasing", !.oem = Identified],
                       "remove", "recover")
       ELSE pc' = "recover" /\ UNCHANGED <<rec, affected, stuck, journal, torn, faults>>
    /\ UNCHANGED <<op, id, todo, code, machine, dirs>>

\* cleanup_owned_residue, for the uninstaller and for release-all
Residue ==
    /\ pc = "next" /\ todo = {} /\ Try("end", {"end"})
    /\ key' \in {key, FALSE} /\ certs' \in SUBSET certs
    /\ UNCHANGED faults => ~key' /\ certs' = {}
    /\ UNCHANGED <<op, id, rec, todo, affected, code, stuck, driver, spare, packages, store>>

-----------------------------------------------------------------------------
(* release_all_with reads no receipt; repair_with touches no driver *)

ReleaseAll ==
    /\ pc = "idle" /\ (packages # {} \/ OnWinUsb # {})
    /\ pc' = (IF packages = {} THEN "next" ELSE "strip") /\ op' = "releaseall"
    /\ todo' = {p.tx : p \in packages}
    /\ UNCHANGED <<id, rec, affected, code, stuck, machine, store, faults>>

Strip ==
    /\ pc = "strip"
    /\ \E t \in todo :
         LET next == IF todo = {t} THEN "settle" ELSE "strip"
         IN  /\ todo' = todo \ {t}
             /\ \/ Deleted(Name(t)) /\ Run(next, {"end"})
                \/ UNCHANGED <<packages, driver>> /\ Idles(next, {"end"})
    /\ UNCHANGED <<op, id, rec, affected, stuck, spare, certs, key, store>>

\* the rescan, and the absence of every package proved
Settle ==
    /\ pc = "settle"
    /\ LET next == IF packages = {} THEN "next" ELSE "end"
       IN  \/ Run(next, {"end"}) /\ driver' = Settled
           \/ Idles(next, {"end"}) /\ driver' = driver
    /\ UNCHANGED <<op, id, rec, todo, affected, stuck, spare, packages, certs, key, store>>

StaleClaim(t) == journal[t].phase = "active" /\ journal[t].target \notin OnWinUsb
ReleaseFinished(t) == journal[t].phase \in {"releasing", "recovery"} /\ Mine(t) = {}

Repair ==
    /\ pc = "idle" /\ Readable /\ pc' = "repair" /\ op' = "repair"
    /\ todo' = {t \in Recorded : StaleClaim(t) \/ ReleaseFinished(t)} /\ todo' # {}
    /\ UNCHANGED <<id, rec, affected, code, stuck, machine, store, faults>>

Correct ==
    /\ pc = "repair"
    /\ \E t \in todo :
         /\ todo' = todo \ {t}
         /\ Persist(t, [journal[t] EXCEPT !.phase = "released"],
                    IF todo = {t} THEN "end" ELSE "repair", "end")
    /\ UNCHANGED <<op, id, affected, code, machine, dirs>>

\* sweep_orphaned_certificates: those no installed package was signed with
SweepCertificates ==
    /\ pc = "idle"
    /\ \E gone \in SUBSET {t \in certs : Mine(t) = {}} : gone # {} /\ certs' = certs \ gone
    /\ key' = FALSE
    /\ UNCHANGED <<helper, driver, spare, packages, store, faults>>

-----------------------------------------------------------------------------
(* The rest of the world *)

Plug(b) ==
    /\ driver[b] = "away" /\ driver' = [driver EXCEPT ![b] = Match]
    /\ UNCHANGED <<helper, spare, packages, certs, key, store, faults>>

Unplug(b) ==
    /\ driver[b] # "away" /\ driver' = [driver EXCEPT ![b] = "away"]
    /\ UNCHANGED <<helper, spare, packages, certs, key, store, faults>>

SpareMoves ==
    /\ spare' \in (0 .. MaxSpare) \ {spare}
    /\ UNCHANGED <<helper, driver, packages, certs, key, store, faults>>

Helper ==
    \/ MakeDir \/ Begin \/ Sign \/ Trust \/ Verify \/ Fresh \/ Attempt \/ Add \/ Inventory
    \/ Scan \/ Survey \/ Compensate \/ Blind
    \/ Affected \/ Remove \/ Delete \/ Gone \/ Rescan \/ Restored \/ Distrust \/ Rolled
    \/ Recover \/ Releasing \/ Released \/ Pick \/ Audit \/ Residue \/ Strip \/ Settle
    \/ Correct \/ End

Next ==
    \/ \E b \in Boards, t \in Txs : Prepare(b, t) \/ Release(b, t)
    \/ \E b \in Boards : Plug(b) \/ Unplug(b)
    \/ Cleanup \/ ReleaseAll \/ Repair \/ SweepCertificates
    \/ Helper \/ Crash \/ SpareMoves

Spec == Init /\ [][Next]_vars

-----------------------------------------------------------------------------
(* Properties *)

Codes == {"ok", "error", "reboot"}

TypeOK ==
    /\ op \in {"none", "prepare", "release", "cleanup", "releaseall", "repair"}
    /\ id \in Txs \cup {None} /\ rec \in Receipts \cup {None}
    /\ todo \subseteq Txs /\ affected \subseteq Boards /\ code \in Codes /\ stuck \in BOOLEAN
    /\ driver \in [Boards -> {"away", "keyboard", "winusb", "removed"}] /\ spare \in 0 .. MaxSpare
    /\ packages \subseteq Packages /\ certs \subseteq Txs /\ key \in BOOLEAN
    /\ journal \in [Txs -> Receipts \cup {None}] /\ dirs \subseteq Txs /\ torn \in BOOLEAN
    /\ faults \in 0 .. MaxFaults

\* What is on the machine is on record before it is there, and an installed package
\* keeps the certificate it was signed with.
Ledger == INSTANCE ClaimLedger WITH
    recorded  <- Recorded,
    announced <- {t \in Recorded : journal[t].attempted},
    trusted   <- certs,
    installed <- {p.tx : p \in packages}
ImplementsLedger == Ledger!Spec

\* RolledBack is written when nothing is left: no package, no certificate, no file.
RolledBackIsClean ==
    \A t \in Recorded : journal[t].phase = "rolledback" =>
        Mine(t) = {} /\ t \notin certs \cup dirs

\* A published name is used again by Windows, and receipts keep it for ever: no
\* transaction but release-all takes a package another one installed.
OnlyItsOwnPackage ==
    [][op # "releaseall" => \A p \in packages \ packages' : p.tx = id]_vars

\* A cleanup that reports success has left nothing of any receipt, terminal ones and
\* disconnected boards included.
CleanupLeavesNothing ==
    [][op = "cleanup" /\ pc = "next" /\ pc' = "end" /\ UNCHANGED faults =>
         packages' = {} /\ certs' = {} /\ dirs' = {} /\ ~key']_vars

\* A prepare or a release that has its receipt ends on a phase a reader can act on:
\* never in the middle, unless the last write itself failed.
EndsOnTheRecord ==
    [][pc # "end" /\ pc' = "end" /\ op \in {"prepare", "release"} /\ journal'[id] # None
       /\ ~(pc = "recover" /\ journal' = journal) =>
         journal'[id].phase \in {"active", "rolledback", "released", "recovery"}]_vars

\* After a command asked for a reboot the same helper drives the stack no further.
StopsAtReboot ==
    code = "reboot" => pc \notin {"add", "scan", "remove", "delete", "rescan", "strip", "settle"}

\* What every single state of the machine and its journal keeps.
JournalInv == TypeOK /\ RolledBackIsClean /\ StopsAtReboot

\* The code says more than it does in these two.

\* A claim is refused where no other keyboard types, also by the look taken after
\* the consent prompt.
LastKeyboardIsLeft == [][pc = "fresh" /\ pc' = "attempt" => spare > 0]_vars

\* A receipt that says released has no package left to take its board again.
ReleasedIsGone ==
    \A t \in Recorded : journal[t].phase = "released" => Mine(t) = {}
=============================================================================
