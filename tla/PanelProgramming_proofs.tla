----------------------- MODULE PanelProgramming_proofs -----------------------
(* Proofs about PanelProgramming.tla, for charts of any number of packets,  *)
(* any number of backups and of failed attempts to repair.                  *)
EXTENDS PanelProgramming, SequenceTheorems, TLAPS

\* what the step of the operation says about the board and about the session
Stepped ==
    /\ pc = "write" => ~playing /\ Unresolved
    /\ pc \in {"verified", "clear", "resolve", "charted", "reconcile"} => ~unseen
    /\ pc \in {"review", "saved"} /\ job.op # "chart" => job.base = eeprom
    /\ UnseenIsMarked /\ PlayIsSettled

\* every record names a backup of the chart it says
Backups ==
    /\ RecordsStayValid
    /\ pc = "saved" => job.safety \in DOMAIN backups
    /\ pc \in {"write", "verified"} => IsBackupOf(job.safety, job.base)
    /\ WayBackIsKept

Pair(r) == <<r.base, r.desired>>

\* what was read, step by step, on the way to the receipt
Read ==
    /\ WriterIsProved
    /\ job.op = "program" /\ pc \in {"review", "saved"} =>
         qualified \/ Cardinality(Differ(job.base, job.desired)) = 1
    /\ \A i \in DOMAIN marker : marker[i].test => Pair(marker[i]) \in tests
    /\ pc = "write" /\ job.test => Pair(job) \in tests
    /\ pc = "verified" /\ job.test => Pair(job) \in shown
    /\ trial # None /\ trial.verified => Pair(trial) \in shown
    /\ job.op = "restore" /\ pc \in {"review", "saved", "write"} /\ Waiting =>
         job.desired = trial.base
    /\ job.op = "restore" /\ pc = "verified" /\ Waiting /\ trial.verified => proved
    /\ pc = "charted" => \A t \in tests : t[2] = job.base => t \in shown
    /\ pc = "charted" /\ trial # None /\ trial.verified /\ job.base = trial.base => proved
    /\ pc = "reconcile" /\ Restored /\ trial.verified => proved

IInv == TypeOK /\ Stepped /\ Backups /\ Read

-----------------------------------------------------------------------------
(* Types *)

LEMMA Records ==
  /\ \A b, d \in Images, n \in Nat, v \in BOOLEAN :
       [base |-> b, desired |-> d, safety |-> n, verified |-> v] \in Trials
  /\ \A b, d \in Images, n \in Nat, t \in BOOLEAN, o \in {"program", "restore"} :
       [op |-> o, base |-> b, desired |-> d, safety |-> n, test |-> t] \in Snapshots
  /\ \A b, d \in Images, n \in Nat, t \in BOOLEAN, o \in Ops :
       [op |-> o, base |-> b, desired |-> d, safety |-> n, test |-> t] \in Jobs
BY DEF Trials, Snapshots, Jobs, Ops

LEMMA Fields ==
  /\ \A r \in Trials : r.base \in Images /\ r.desired \in Images /\ r.safety \in Nat
                       /\ r.verified \in BOOLEAN
  /\ \A r \in Snapshots : r.base \in Images /\ r.desired \in Images /\ r.safety \in Nat
                          /\ r.test \in BOOLEAN /\ r.op \in {"program", "restore"}
  /\ \A r \in Jobs : r.base \in Images /\ r.desired \in Images /\ r.safety \in Nat
                     /\ r.test \in BOOLEAN /\ r.op \in Ops
BY DEF Trials, Snapshots, Jobs, Ops

LEMMA RestIsJob == ASSUME NEW image \in Images PROVE Resting(image) \in Jobs
BY Records DEF Resting, Ops

LEMMA TypeInit == Init => TypeOK
<1> SUFFICES ASSUME Init PROVE TypeOK
    OBVIOUS
<1>1. eeprom \in Images /\ first \in Images /\ job \in Jobs
      BY RestIsJob, ProgrammingAssumption DEF Init
<1>2. sent \in 0 .. Packets /\ pc \in PCs
      BY ProgrammingAssumption DEF Init, PCs
<1>3. backups \in Seq(Images \cup {None}) /\ marker \in Seq(Snapshots)
      BY DEF Init
<1> QED BY <1>1, <1>2, <1>3 DEF Init, TypeOK

LEMMA Inner == TypeOK /\ Unresolved => Head(marker) \in Snapshots
BY DEF TypeOK, Unresolved

LEMMA TypeStep == TypeOK /\ [Next]_vars => TypeOK'
<1> SUFFICES ASSUME TypeOK, [Next]_vars PROVE TypeOK'
    OBVIOUS
<1> USE ProgrammingAssumption
<1>1. ASSUME NEW desired \in Images, Program(desired) PROVE TypeOK'
      BY <1>1, Records DEF Program, Plan, Go, TypeOK, PCs, Ops, durable, ghosts
<1>2. ASSUME NEW id \in DOMAIN backups, Restore(id) PROVE TypeOK'
  <2>1. backups[id] \in Images
        BY <1>2 DEF Restore, TypeOK
  <2> QED BY <1>2, <2>1, Records DEF Restore, Plan, Go, TypeOK, PCs, Ops, durable, ghosts
<1>3. CASE Chart
      BY <1>3, Records DEF Chart, Plan, Go, TypeOK, PCs, Ops, durable, ghosts
<1>4. CASE Save
  <2>1. job' \in Jobs
    <3>1. Len(backups) + 1 \in Nat
          BY DEF TypeOK
    <3>2. job' = [op |-> job.op, base |-> job.base, desired |-> job.desired,
                  safety |-> Len(backups) + 1, test |-> job.test]
          BY <1>4 DEF Save, TypeOK, Jobs
    <3> QED BY <3>1, <3>2, Fields, Records DEF TypeOK
  <2>2. backups' \in Seq(Images \cup {None})
        BY <1>4, Fields DEF Save, TypeOK
  <2> QED BY <1>4, <2>1, <2>2 DEF Save, Go, TypeOK, PCs, ghosts
<1>5. CASE Begin
  <2>1. marker' \in Seq(Snapshots)
    <3>1. [op |-> job.op, base |-> job.base, desired |-> job.desired,
           safety |-> job.safety, test |-> job.test] \in Snapshots
          BY <1>5, Fields, Records DEF Begin, TypeOK
    <3> QED BY <1>5, <3>1, ConcatProperties DEF Begin, Chain, TypeOK
  <2>2. tests' \in SUBSET (Images \X Images) /\ shown' \subseteq tests'
        BY <1>5, Fields DEF Begin, TypeOK
  <2> QED BY <1>5, <2>1, <2>2 DEF Begin, Go, TypeOK, PCs
<1>6. CASE Packet
  <2>1. eeprom' \in Images
    <3>1. sent + 1 \in Positions /\ job.desired \in Images /\ eeprom \in Images
          BY <1>6, Fields DEF Packet, TypeOK, Positions
    <3>2. [eeprom EXCEPT ![sent + 1] = job.desired[sent + 1]] \in Images
          BY <3>1 DEF Images
    <3> QED BY <1>6, <3>1, <3>2 DEF Packet
  <2> QED BY <1>6, <2>1 DEF Packet, TypeOK, durable
<1>7. CASE Verify
      BY <1>7 DEF Verify, Observe, Go, TypeOK, PCs, durable
<1>8. CASE RecordTrial
  <2>1. trial' \in Trials \cup {None}
    <3>1. [base |-> job.base, desired |-> job.desired, safety |-> job.safety,
           verified |-> TRUE] \in Trials
          BY Fields, Records DEF TypeOK
    <3>2. trial' \in {trial, [base |-> job.base, desired |-> job.desired,
                             safety |-> job.safety, verified |-> TRUE]}
          BY <1>8 DEF RecordTrial
    <3> QED BY <3>1, <3>2 DEF TypeOK
  <2> QED BY <1>8, <2>1 DEF RecordTrial, Go, TypeOK, PCs, ghosts
<1>9. CASE EndTrial
  <2>1. qualified' \in BOOLEAN
        BY <1>9, Fields DEF EndTrial, Waiting, Receipt, TypeOK
  <2> QED BY <1>9, <2>1 DEF EndTrial, Go, TypeOK, PCs, ghosts
<1>10. CASE ClearTrial
       BY <1>10 DEF ClearTrial, Go, TypeOK, PCs, ghosts
<1>11. CASE Resolve
       BY <1>11, RestIsJob DEF Resolve, Over, TypeOK, PCs, ghosts
<1>12. CASE Backed
       BY <1>12 DEF Backed, Observe, Go, TypeOK, PCs, durable
<1>13. CASE Reconstruct
  <2>1. trial' \in Trials \cup {None}
        BY <1>13, Fields, Records, Inner DEF Reconstruct, Interrupted, TypeOK
  <2> QED BY <1>13, <2>1 DEF Reconstruct, Go, TypeOK, PCs, ghosts
<1>14. CASE Reconcile
  <2>1. qualified' \in BOOLEAN
        BY <1>14, Fields DEF Reconcile, Restored, Waiting, Receipt, TypeOK
  <2> QED BY <1>14, <2>1 DEF Reconcile, Go, TypeOK, PCs, ghosts
<1>15. CASE Fail
       BY <1>15, RestIsJob DEF Fail, Over, TypeOK, PCs, durable, ghosts
<1>16. CASE Foreign
       BY <1>16, RestIsJob DEF Foreign, TypeOK, durable
<1>17. CASE Play \/ StopPlay
       BY <1>17 DEF Play, StopPlay, TypeOK, durable, ghosts
<1>18. CASE UNCHANGED vars
       BY <1>18 DEF vars, TypeOK, durable, ghosts
<1> QED BY <1>1, <1>2, <1>3, <1>4, <1>5, <1>6, <1>7, <1>8, <1>9, <1>10, <1>11, <1>12,
           <1>13, <1>14, <1>15, <1>16, <1>17, <1>18 DEF Next

-----------------------------------------------------------------------------
(* What the step says *)

\* the marker a write begins with: the new one, before all those it had
LEMMA Chained ==
  ASSUME TypeOK, Begin
  PROVE  /\ marker' \in Seq(Snapshots) /\ Len(marker') = Len(marker) + 1
         /\ marker'[1] = [op |-> job.op, base |-> job.base, desired |-> job.desired,
                          safety |-> job.safety, test |-> job.test]
         /\ \A i \in DOMAIN marker' : i # 1 =>
              i - 1 \in DOMAIN marker /\ marker'[i] = marker[i - 1]
         /\ marker' # << >>
<1> DEFINE new == [op |-> job.op, base |-> job.base, desired |-> job.desired,
                   safety |-> job.safety, test |-> job.test]
<1>1. new \in Snapshots
      BY Fields, Records DEF Begin, TypeOK
<1>2. marker' = <<new>> \o marker
      BY DEF Begin, Chain
<1> HIDE DEF new
<1>3. <<new>> \in Seq(Snapshots) /\ Len(<<new>>) = 1 /\ <<new>>[1] = new
      BY <1>1
<1>4. marker \in Seq(Snapshots)
      BY DEF TypeOK
<1>5. /\ marker' \in Seq(Snapshots) /\ Len(marker') = 1 + Len(marker)
      /\ \A i \in 1 .. 1 + Len(marker) :
           marker'[i] = IF i <= 1 THEN <<new>>[i] ELSE marker[i - 1]
      BY <1>2, <1>3, <1>4, ConcatProperties
<1>6. marker'[1] = new
      BY <1>3, <1>4, <1>5
<1>7. \A i \in DOMAIN marker' : i # 1 =>
        i - 1 \in DOMAIN marker /\ marker'[i] = marker[i - 1]
      BY <1>4, <1>5
<1>8. marker' # << >>
      BY <1>4, <1>5
<1> QED BY <1>4, <1>5, <1>6, <1>7, <1>8 DEF new

LEMMA SteppedInit == Init => Stepped
BY DEF Init, Stepped, UnseenIsMarked, PlayIsSettled

LEMMA SteppedStep == TypeOK /\ Stepped /\ [Next]_vars => Stepped'
<1> SUFFICES ASSUME TypeOK, Stepped, [Next]_vars PROVE Stepped'
    OBVIOUS
<1> USE DEF Stepped, UnseenIsMarked, PlayIsSettled, Unresolved, Go, durable, ghosts
<1>1. ASSUME NEW desired \in Images, Program(desired) PROVE Stepped'
      BY <1>1 DEF Program, Plan
<1>2. ASSUME NEW id \in DOMAIN backups, Restore(id) PROVE Stepped'
      BY <1>2 DEF Restore, Plan
<1>3. CASE Chart
      BY <1>3 DEF Chart, Plan
<1>4. CASE Save
  <2>1. job'.op = job.op /\ job'.base = job.base
        BY <1>4 DEF Save, TypeOK, Jobs
  <2> QED BY <1>4, <2>1 DEF Save
<1>5. CASE Begin
      BY <1>5, Chained DEF Begin
<1>6. CASE Packet
      BY <1>6 DEF Packet
<1>7. CASE Verify
      BY <1>7 DEF Verify, Observe
<1>8. CASE RecordTrial
      BY <1>8 DEF RecordTrial
<1>9. CASE EndTrial
      BY <1>9 DEF EndTrial
<1>10. CASE ClearTrial
       BY <1>10 DEF ClearTrial
<1>11. CASE Resolve
       BY <1>11 DEF Resolve, Over
<1>12. CASE Backed
       BY <1>12 DEF Backed, Observe
<1>13. CASE Reconstruct
       BY <1>13 DEF Reconstruct
<1>14. CASE Reconcile
       BY <1>14 DEF Reconcile
<1>15. CASE Fail
       BY <1>15 DEF Fail, Over
<1>16. CASE Foreign
       BY <1>16 DEF Foreign, Resting
<1>17. CASE Play \/ StopPlay
       BY <1>17 DEF Play, StopPlay, Settled
<1>18. CASE UNCHANGED vars
       BY <1>18 DEF vars
<1> QED BY <1>1, <1>2, <1>3, <1>4, <1>5, <1>6, <1>7, <1>8, <1>9, <1>10, <1>11, <1>12,
           <1>13, <1>14, <1>15, <1>16, <1>17, <1>18 DEF Next

-----------------------------------------------------------------------------
(* Every record names a backup of the chart it says *)

LEMMA BackupsInit == Init => Backups
BY DEF Init, Backups, RecordsStayValid, WayBackIsKept, Unresolved

\* a saved backup is never replaced
LEMMA BackupsGrow ==
  ASSUME TypeOK, Save, NEW id, NEW image, IsBackupOf(id, image)
  PROVE  IsBackupOf(id, image)'
BY DEF Save, TypeOK, IsBackupOf

LEMMA BackupsStep == TypeOK /\ Stepped /\ Backups /\ [Next]_vars => Backups'
<1> SUFFICES ASSUME TypeOK, Stepped, Backups, [Next]_vars PROVE Backups'
    OBVIOUS
<1> USE DEF Backups, RecordsStayValid, WayBackIsKept, IsBackupOf, Unresolved, Go
<1>1. ASSUME NEW desired \in Images, Program(desired) PROVE Backups'
      BY <1>1 DEF Program, durable, ghosts
<1>2. ASSUME NEW id \in DOMAIN backups, Restore(id) PROVE Backups'
      BY <1>2 DEF Restore, durable, ghosts
<1>3. CASE Chart
      BY <1>3 DEF Chart, durable, ghosts
<1>4. CASE Save
  <2>1. \A id, image : IsBackupOf(id, image) => IsBackupOf(id, image)'
        BY <1>4, BackupsGrow
  <2>2. RecordsStayValid'
        BY <1>4, <2>1 DEF Save, ghosts
  <2>3. WayBackIsKept'
        BY <1>4, <2>1 DEF Save, ghosts
  <2>4. job'.safety \in DOMAIN backups'
    <3>1. job'.safety = Len(backups) + 1
          BY <1>4 DEF Save, TypeOK, Jobs
    <3>2. Len(backups') = Len(backups) + 1 /\ DOMAIN backups' = 1 .. Len(backups')
          BY <1>4 DEF Save, TypeOK
    <3> QED BY <3>1, <3>2 DEF TypeOK
  <2> QED BY <1>4, <2>2, <2>3, <2>4 DEF Save
<1>5. CASE Begin
  <2>1. marker' \in Seq(Snapshots) /\ marker \in Seq(Snapshots)
        BY <1>5, Chained DEF TypeOK
  <2>2. IsBackupOf(job.safety, job.base)
        BY <1>5 DEF Begin, Reopened
  <2>3. RecordsStayValid'
        BY <1>5, <2>1, <2>2, Chained DEF Begin
  <2>4. WayBackIsKept'
    <3>1. CASE marker = << >>
          BY <1>5, <3>1, <2>1, <2>2, Chained DEF Begin, Stepped
    <3>2. CASE marker # << >>
          BY <1>5, <3>2, <2>1, Chained DEF Begin
    <3> QED BY <3>1, <3>2
  <2> QED BY <1>5, <2>2, <2>3, <2>4 DEF Begin
<1>6. CASE Packet
      BY <1>6 DEF Packet, durable
<1>7. CASE Verify
      BY <1>7 DEF Verify, Observe, durable
<1>8. CASE RecordTrial
      BY <1>8, Fields DEF RecordTrial, ghosts, TypeOK
<1>9. CASE EndTrial
      BY <1>9 DEF EndTrial, ghosts
<1>10. CASE ClearTrial
       BY <1>10 DEF ClearTrial, ghosts
<1>11. CASE Resolve
       BY <1>11 DEF Resolve, Over, ghosts
<1>12. CASE Backed
       BY <1>12 DEF Backed, Observe, durable
<1>13. CASE Reconstruct
       BY <1>13 DEF Reconstruct, Interrupted, ghosts, TypeOK
<1>14. CASE Reconcile
       BY <1>14 DEF Reconcile, ghosts
<1>15. CASE Fail
       BY <1>15 DEF Fail, Over, durable, ghosts
<1>16. CASE Foreign
       BY <1>16 DEF Foreign, durable
<1>17. CASE Play \/ StopPlay
       BY <1>17 DEF Play, StopPlay, durable, ghosts
<1>18. CASE UNCHANGED vars
       BY <1>18 DEF vars, durable, ghosts
<1> QED BY <1>1, <1>2, <1>3, <1>4, <1>5, <1>6, <1>7, <1>8, <1>9, <1>10, <1>11, <1>12,
           <1>13, <1>14, <1>15, <1>16, <1>17, <1>18 DEF Next

-----------------------------------------------------------------------------
(* What was read on the way to the receipt *)

LEMMA ReadInit == Init => Read
BY DEF Init, Read, WriterIsProved, Restored, Unresolved, Waiting

\* what a complete read of the chart adds: the trials it shows, the one it undoes
LEMMA Seen ==
  ASSUME TypeOK, NEW image, Observe(image)
  PROVE  /\ \A t \in tests : t[2] = image => t \in shown'
         /\ shown \subseteq shown' /\ tests' = tests
         /\ proved => proved'
         /\ \A r : Pair(r) \in shown /\ r.base = image => proved'
<1>1. \A r : Pair(r)[1] = r.base
      BY DEF Pair
<1> HIDE DEF Pair
<1> QED BY <1>1 DEF Observe, TypeOK

LEMMA ReadStep == TypeOK /\ Backups /\ Read /\ [Next]_vars => Read'
<1> SUFFICES ASSUME TypeOK, Backups, Read, [Next]_vars PROVE Read'
    OBVIOUS
<1> USE DEF Read, WriterIsProved, Waiting, Unresolved, Go
<1>0. Pair(job)[2] = job.desired
      BY DEF Pair
<1>1. ASSUME NEW desired \in Images, Program(desired) PROVE Read'
      BY <1>1 DEF Program, Plan, durable, ghosts
<1>2. ASSUME NEW id \in DOMAIN backups, Restore(id) PROVE Read'
  <2>1. Waiting => job'.desired = trial.base
        BY <1>2 DEF Restore, Plan, MayRestore, Backups, RecordsStayValid, IsBackupOf
  <2> QED BY <1>2, <2>1 DEF Restore, Plan, durable, ghosts
<1>3. CASE Chart
      BY <1>3 DEF Chart, Plan, durable, ghosts
<1>4. CASE Save
  <2>1. /\ job'.op = job.op /\ job'.base = job.base
        /\ job'.desired = job.desired /\ job'.test = job.test
        BY <1>4 DEF Save, TypeOK, Jobs
  <2> QED BY <1>4, <2>1 DEF Save, ghosts
<1>5. CASE Begin
  <2>1. tests \subseteq tests' /\ (job.test => Pair(job) \in tests')
        BY <1>5 DEF Begin, Pair
  <2>2. \A i \in DOMAIN marker' : marker'[i].test => Pair(marker'[i]) \in tests'
    <3> SUFFICES ASSUME NEW i \in DOMAIN marker', marker'[i].test
                 PROVE  Pair(marker'[i]) \in tests'
        OBVIOUS
    <3>1. CASE i = 1
      <4>1. marker'[1].test = job.test /\ Pair(marker'[1]) = Pair(job)
            BY <1>5, Chained DEF Pair
      <4> QED BY <3>1, <4>1, <2>1
    <3>2. CASE i # 1
          BY <1>5, <3>2, <2>1, Chained
    <3> QED BY <3>1, <3>2
  <2>3. WriterIsProved'
        BY <1>5 DEF Begin
  <2> QED BY <1>5, <2>1, <2>2, <2>3 DEF Begin
<1>6. CASE Packet
      BY <1>6 DEF Packet, durable
<1>7. CASE Verify
  <2>1. job.test => Pair(job) \in shown'
        BY <1>0, <1>7, Seen DEF Verify
  <2>2. job.op = "restore" /\ Waiting /\ trial.verified => proved'
        BY <1>7, Seen DEF Verify
  <2> QED BY <1>7, <2>1, <2>2, Seen DEF Verify, durable
<1>8. CASE RecordTrial
  <2>1. trial' # None /\ trial'.verified => Pair(trial') \in shown
        BY <1>8 DEF RecordTrial, Pair
  <2> QED BY <1>8, <2>1 DEF RecordTrial, ghosts
<1>9. CASE EndTrial
      BY <1>9 DEF EndTrial, Receipt, ghosts
<1>10. CASE ClearTrial
       BY <1>10 DEF ClearTrial, ghosts
<1>11. CASE Resolve
       BY <1>11 DEF Resolve, Over, Resting, ghosts
<1>12. CASE Backed
       BY <1>12, Seen DEF Backed, durable
<1>13. CASE Reconstruct
  <2>1. CASE ~Interrupted
        BY <1>13, <2>1 DEF Reconstruct, Restored, ghosts
  <2>2. CASE Interrupted
    <3>1. trial' = [base |-> Head(marker).base, desired |-> Head(marker).desired,
                    safety |-> Head(marker).safety,
                    verified |-> job.base = Head(marker).desired]
          BY <1>13, <2>2 DEF Reconstruct
    <3>2. 1 \in DOMAIN marker /\ Head(marker) = marker[1]
          BY <2>2 DEF Interrupted, TypeOK
    <3>3. Pair(marker[1]) \in tests /\ Pair(marker[1])[2] = marker[1].desired
          BY <2>2, <3>2 DEF Interrupted, Pair
    <3>4. trial'.verified => Pair(marker[1]) \in shown
      <4>1. trial'.verified => job.base = marker[1].desired
            BY <3>1, <3>2, Zenon
      <4> HIDE DEF Pair
      <4> QED BY <1>13, <4>1, <3>3 DEF Reconstruct
    <3>5. Pair(trial') = Pair(marker[1])
          BY <3>1, <3>2 DEF Pair
    <3>6. ~Restored'
          BY <1>13, <2>2 DEF Reconstruct, Restored, Interrupted
    <3> QED BY <1>13, <3>4, <3>5, <3>6 DEF Reconstruct, ghosts
  <2> QED BY <2>1, <2>2
<1>14. CASE Reconcile
       BY <1>14 DEF Reconcile, Receipt, Restored, ghosts
<1>15. CASE Fail
       BY <1>15 DEF Fail, Over, Resting, durable, ghosts
<1>16. CASE Foreign
       BY <1>16 DEF Foreign, Resting, Restored, durable
<1>17. CASE Play \/ StopPlay
       BY <1>17 DEF Play, StopPlay, Restored, durable, ghosts
<1>18. CASE UNCHANGED vars
       BY <1>18 DEF vars, Restored, durable, ghosts
<1> QED BY <1>1, <1>2, <1>3, <1>4, <1>5, <1>6, <1>7, <1>8, <1>9, <1>10, <1>11, <1>12,
           <1>13, <1>14, <1>15, <1>16, <1>17, <1>18 DEF Next

-----------------------------------------------------------------------------
(* The theorems *)

\* The invariant is inductive: a step preserves it, whatever step of whatever operation
\* it is, and wherever a crash falls.
THEOREM Inductive == Spec => []IInv
<1>1. Init => IInv
      BY TypeInit, SteppedInit, BackupsInit, ReadInit DEF IInv
<1>2. IInv /\ [Next]_vars => IInv'
      BY TypeStep, SteppedStep, BackupsStep, ReadStep DEF IInv
<1> QED BY <1>1, <1>2, PTL DEF Spec

\* The operation, the board and the four records are well formed.
THEOREM TypeCorrect == Spec => []TypeOK
<1>1. IInv => TypeOK
      BY DEF IInv
<1> QED BY <1>1, Inductive, PTL

\* A chart KSX wrote and has not read back is marked (write_pending before packet zero,
\* resolve only after the readback).
THEOREM WritesAreMarked == Spec => []UnseenIsMarked
<1>1. IInv => UnseenIsMarked
      BY DEF IInv, Stepped
<1> QED BY <1>1, Inductive, PTL

\* acquire_play_start_guard keeps sessions off a chart that nobody has read.
THEOREM PlayNeedsSettledChart == Spec => []PlayIsSettled
<1>1. IInv => PlayIsSettled
      BY DEF IInv, Stepped
<1> QED BY <1>1, Inductive, PTL

\* The chart before the first of a chain of failed writes stays restorable: the chain
\* of prior transactions ends with it, and backups are immutable.
THEOREM FirstChartIsKept == Spec => []WayBackIsKept
<1>1. IInv => WayBackIsKept
      BY DEF IInv, Backups
<1> QED BY <1>1, Inductive, PTL

\* Every record names a reopened backup of the very chart it says.
THEOREM RecordsAreLoadable == Spec => []RecordsStayValid
<1>1. IInv => RecordsStayValid
      BY DEF IInv, Backups
<1> QED BY <1>1, Inductive, PTL

\* The receipt is earned by a trial that was seen written and seen undone, also when
\* its record was rebuilt from the marker after a crash.
THEOREM ReceiptIsEarned == Spec => []WriterIsProved
<1>1. IInv => WriterIsProved
      BY DEF IInv, Read
<1> QED BY <1>1, Inductive, PTL
=============================================================================
