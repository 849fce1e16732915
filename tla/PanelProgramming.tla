-------------------------- MODULE PanelProgramming --------------------------
(* Writing the key chart of a physical encoder (ksx-backend, facade.rs and  *)
(* panel_programming.rs).  The chart lives in the board's EEPROM and is     *)
(* sent in packets, so a crash, a pulled cable or a refused packet leaves a *)
(* mixture.  Four durable records make that survivable: immutable backups,  *)
(* a marker for the unresolved write with those it was to repair, the       *)
(* record of a trial write, and the receipt that unlocks full charts.  Each *)
(* record is renamed into place, so a crash falls between two of the steps. *)
(* The machine lease, held throughout, admits one operation and no start    *)
(* (ControlLoop.tla composes it with the daemon).                           *)
EXTENDS Naturals, Sequences, FiniteSets

CONSTANTS Packets,      \* reports of one chart
          Values,       \* what a packet may hold
          Vendor,       \* charts another tool may put on the board
          None,         \* no record; a backup that cannot be read back
          MaxPrior,     \* MAX_PRIOR_TRANSACTIONS
          MaxBackups    \* bound: backups saved

Positions == 1 .. Packets
Images == [Positions -> Values]

ASSUME ProgrammingAssumption ==
    /\ Packets \in Nat \ {0}
    /\ Vendor # {} /\ Vendor \subseteq Images
    /\ MaxPrior \in Nat /\ MaxBackups \in Nat
    /\ None \notin Images /\ None \notin [base : Images, desired : Images,
                                          safety : Nat, verified : BOOLEAN]

VARIABLES
    pc, job, sent,      \* the operation: its step, its plan, packets sent
    eeprom,             \* the chart on the board
    backups,            \* the backup files, by id
    marker,             \* the unresolved write, then those it was to repair
    trial,              \* the trial write that waits for its restore
    qualified,          \* the receipt that unlocks full charts
    playing,            \* a session runs
    unseen,             \* ghost: KSX wrote, and has not read the chart since
    first,              \* ghost: the chart before the first unresolved write
    tests, shown, proved  \* ghost: trial writes, those read back, and undone

durable == <<backups, marker, trial, qualified>>
ghosts  == <<unseen, first, tests, shown, proved>>
vars == <<pc, job, sent, eeprom, durable, playing, ghosts>>

Ops == {"program", "restore", "chart"}
Jobs == [op : Ops, base : Images, desired : Images, safety : Nat, test : BOOLEAN]
Snapshots == [op : {"program", "restore"}, base : Images, desired : Images,
              safety : Nat, test : BOOLEAN]
Trials == [base : Images, desired : Images, safety : Nat, verified : BOOLEAN]

Unresolved == marker # << >>
Waiting == ~qualified /\ trial # None       \* the state ValidationWritten
Differ(a, b) == {i \in Positions : a[i] # b[i]}

Resting(image) ==
    [op |-> "chart", base |-> image, desired |-> image, safety |-> 0, test |-> FALSE]

Init ==
    /\ eeprom \in Vendor
    /\ pc = "idle" /\ sent = 0 /\ job = Resting(eeprom)
    /\ backups = << >> /\ marker = << >> /\ trial = None /\ qualified = FALSE
    /\ playing = FALSE
    /\ unseen = FALSE /\ first = eeprom
    /\ tests = {} /\ shown = {} /\ proved = FALSE

Go(next) == pc' = next
Plan(op, desired, test) ==
    job' = [op |-> op, base |-> eeprom, desired |-> desired, safety |-> 0, test |-> test]

-----------------------------------------------------------------------------
(* What an operation reads and refuses before it changes anything *)

\* a trial changes one terminal; a full chart needs the receipt
Program(desired) ==
    /\ pc = "idle" /\ ~playing /\ ~Unresolved /\ desired # eeprom
    /\ qualified \/ (trial = None /\ Cardinality(Differ(eeprom, desired)) = 1)
    /\ Plan("program", desired, ~qualified) /\ Go("review")
    /\ UNCHANGED <<sent, eeprom, durable, playing, ghosts>>

MayRestore(id) == qualified \/ (Waiting /\ id = trial.safety)

Restore(id) ==
    /\ pc = "idle" /\ ~playing /\ MayRestore(id)
    /\ backups[id] \notin {None, eeprom}
    /\ Plan("restore", backups[id], FALSE) /\ Go("review")
    /\ UNCHANGED <<sent, eeprom, durable, playing, ghosts>>

\* chart --backup: two equal reads; the board is open to others afterwards
Chart ==
    /\ pc = "idle" /\ Plan("chart", eeprom, FALSE) /\ Go("review")
    /\ UNCHANGED <<sent, eeprom, durable, playing, ghosts>>

-----------------------------------------------------------------------------
(* The backup and the write *)

\* a backup is never replaced; what reached the disk may not be what was sent
Save ==
    /\ pc = "review" /\ Len(backups) < MaxBackups
    /\ \E content \in {job.base, None} : backups' = Append(backups, content)
    /\ job' = [job EXCEPT !.safety = Len(backups) + 1] /\ Go("saved")
    /\ UNCHANGED <<sent, eeprom, marker, trial, qualified, playing, ghosts>>

Reopened == backups[job.safety] = job.base

\* Mutant of Chain: a restore's marker forgets what it was to repair.
OnlyThis(snapshot) == <<snapshot>>

Chain(snapshot) == <<snapshot>> \o marker

\* packet zero: the session is asked again, then the marker becomes durable
Begin ==
    /\ pc = "saved" /\ job.op \in {"program", "restore"} /\ Reopened /\ ~playing
    /\ Len(marker) <= MaxPrior
    /\ marker' = Chain([op |-> job.op, base |-> job.base, desired |-> job.desired,
                        safety |-> job.safety, test |-> job.test])
    /\ sent' = 0 /\ Go("write")
    /\ first' = IF Unresolved THEN first ELSE eeprom
    /\ tests' = IF job.test THEN tests \cup {<<job.base, job.desired>>} ELSE tests
    /\ UNCHANGED <<job, eeprom, backups, trial, qualified, playing, unseen, shown, proved>>

\* one report; the board takes it or does not
Packet ==
    /\ pc = "write" /\ sent < Packets
    /\ eeprom' \in {eeprom, [eeprom EXCEPT ![sent + 1] = job.desired[sent + 1]]}
    /\ sent' = sent + 1 /\ unseen' = TRUE
    /\ UNCHANGED <<pc, job, durable, playing, first, tests, shown, proved>>

\* the whole chart was read
Observe(image) ==
    /\ unseen' = FALSE
    /\ shown' = shown \cup {t \in tests : t[2] = image}
    /\ proved' = (proved \/ \E t \in shown : t[1] = image)
    /\ UNCHANGED <<first, tests>>

\* Mutant of Verify: the packets were all accepted, that is enough.
NoReadback ==
    /\ pc = "write" /\ sent = Packets /\ Go("verified")
    /\ UNCHANGED <<job, sent, eeprom, durable, playing, ghosts>>

\* the complete readback: every byte, or the marker stays
Verify ==
    /\ pc = "write" /\ sent = Packets /\ eeprom = job.desired
    /\ Observe(eeprom) /\ Go("verified")
    /\ UNCHANGED <<job, sent, eeprom, durable, playing>>

\* record_validation refuses to replace a record
RecordTrial ==
    /\ pc = "verified" /\ job.op = "program" /\ Go("resolve")
    /\ IF job.test
       THEN /\ trial = None
            /\ trial' = [base |-> job.base, desired |-> job.desired,
                         safety |-> job.safety, verified |-> TRUE]
       ELSE trial' = trial
    /\ UNCHANGED <<job, sent, eeprom, backups, marker, qualified, playing, ghosts>>

\* Mutant of Receipt: any restored trial unlocks full charts.
ReceiptForAll == TRUE

\* complete: only a trial that was read back in full earns the receipt
Receipt == qualified \/ trial.verified

EndTrial ==
    /\ pc = "verified" /\ job.op = "restore"
    /\ qualified' = (IF Waiting THEN Receipt ELSE qualified)
    /\ Go(IF Waiting THEN "clear" ELSE "resolve")
    /\ UNCHANGED <<job, sent, eeprom, backups, marker, trial, playing, ghosts>>

ClearTrial ==
    /\ pc = "clear" /\ trial' = None /\ Go("resolve")
    /\ UNCHANGED <<job, sent, eeprom, backups, marker, qualified, playing, ghosts>>

Over == pc' = "idle" /\ sent' = 0 /\ job' = Resting(eeprom)

Resolve ==
    /\ pc = "resolve" /\ marker' = << >> /\ Over
    /\ UNCHANGED <<eeprom, backups, trial, qualified, playing, ghosts>>

-----------------------------------------------------------------------------
(* A chart read that was backed up settles an interrupted write *)

Backed ==
    /\ pc = "saved" /\ job.op = "chart" /\ Reopened
    /\ Observe(job.base) /\ Go("charted")
    /\ UNCHANGED <<job, sent, eeprom, durable, playing>>

\* the trial's own record was never written: rebuilt from the marker
Interrupted == /\ ~qualified /\ trial = None /\ Unresolved
               /\ Head(marker).op = "program" /\ Head(marker).test
               /\ job.base # Head(marker).base

Reconstruct ==
    /\ pc = "charted" /\ Go("reconcile")
    /\ trial' = IF Interrupted
                THEN [base |-> Head(marker).base, desired |-> Head(marker).desired,
                      safety |-> Head(marker).safety,
                      verified |-> job.base = Head(marker).desired]
                ELSE trial
    /\ UNCHANGED <<job, sent, eeprom, backups, marker, qualified, playing, ghosts>>

\* the trial's restore was written, and died before it could say so
Restored == /\ Waiting /\ Unresolved
            /\ Head(marker).op = "restore" /\ Head(marker).desired = trial.base
            /\ job.base = trial.base

Reconcile ==
    /\ pc = "reconcile"
    /\ qualified' = (IF Restored THEN Receipt ELSE qualified)
    /\ Go(IF Restored THEN "clear" ELSE "resolve")
    /\ UNCHANGED <<job, sent, eeprom, backups, marker, trial, playing, ghosts>>

-----------------------------------------------------------------------------
(* The rest of the world *)

\* an error return or the death of the process: nothing more is written
Fail ==
    /\ pc # "idle" /\ Over
    /\ UNCHANGED <<eeprom, durable, playing, ghosts>>

\* the vendor's tool, whenever KSX does not hold the board open
Foreign ==
    /\ pc = "idle" \/ job.op = "chart"
    /\ eeprom' \in Vendor /\ unseen' = FALSE
    /\ job' = IF pc = "idle" THEN Resting(eeprom') ELSE job
    /\ UNCHANGED <<pc, sent, durable, playing, first, tests, shown, proved>>

\* acquire_play_start_guard
Settled == ~Unresolved

Play ==
    /\ pc = "idle" /\ ~playing /\ Settled /\ playing' = TRUE
    /\ UNCHANGED <<pc, job, sent, eeprom, durable, ghosts>>

StopPlay ==
    /\ playing /\ playing' = FALSE
    /\ UNCHANGED <<pc, job, sent, eeprom, durable, ghosts>>

Next ==
    \/ \E desired \in Images : Program(desired)
    \/ \E id \in DOMAIN backups : Restore(id)
    \/ Chart \/ Save \/ Begin \/ Packet \/ Verify
    \/ RecordTrial \/ EndTrial \/ ClearTrial \/ Resolve
    \/ Backed \/ Reconstruct \/ Reconcile
    \/ Fail \/ Foreign \/ Play \/ StopPlay

Spec == Init /\ [][Next]_vars

-----------------------------------------------------------------------------
(* Properties *)

PCs == {"idle", "review", "saved", "write", "verified", "clear", "resolve",
        "charted", "reconcile"}

TypeOK ==
    /\ pc \in PCs /\ job \in Jobs /\ sent \in 0 .. Packets
    /\ eeprom \in Images /\ backups \in Seq(Images \cup {None})
    /\ marker \in Seq(Snapshots) /\ trial \in Trials \cup {None}
    /\ qualified \in BOOLEAN /\ playing \in BOOLEAN
    /\ unseen \in BOOLEAN /\ first \in Images /\ proved \in BOOLEAN
    /\ tests \in SUBSET (Images \X Images) /\ shown \subseteq tests

\* A chart KSX wrote and has not read since is always marked, so that neither a new
\* write nor a session starts from it, whatever died where.
UnseenIsMarked == unseen => Unresolved

\* No session plays on such a chart.
PlayIsSettled == playing => ~unseen

\* What was on the board before the first unresolved write can be restored, through
\* any number of failed attempts to repair it.
WayBackIsKept ==
    Unresolved => LET s == marker[Len(marker)]
                  IN  s.safety \in DOMAIN backups /\ backups[s.safety] = first

\* The records can be loaded: each names a backup of the very chart it says (a
\* record that cannot locks the board out of every operation).
IsBackupOf(id, image) == id \in DOMAIN backups /\ backups[id] = image
RecordsStayValid ==
    /\ \A i \in DOMAIN marker : IsBackupOf(marker[i].safety, marker[i].base)
    /\ trial # None => IsBackupOf(trial.safety, trial.base)

\* A full chart is only written to a board on which a trial chart was read back in
\* full and later the chart before it, over crashes and reconstructed records.
WriterIsProved ==
    /\ qualified => proved
    /\ pc = "write" /\ job.op = "program" /\ Cardinality(Differ(job.base, job.desired)) > 1
         => proved

\* What the refusals of program and of Play say: the marked write's safety backup may
\* be restored.  Until the trial is recorded it may not, nor after its failed restore.
RemedyIsOpen == pc = "idle" /\ Unresolved => MayRestore(Head(marker).safety)
=============================================================================
