----------------------------- MODULE AuditRepair ----------------------------
(***************************************************************************)
(* AuditLog with the operator's repair of one malformed segment and the    *)
(* retention of its evidence: oa audit-repair and the prune_committed_     *)
(* repairs pass of oa prune.                                               *)
(*                                                                         *)
(* The operator reads audit-health, and runs audit-repair with the segment *)
(* and the fingerprint of the bytes seen (fence); after a refusal, a crash *)
(* or a failed append the exact command may be run again, at any time.     *)
(* repair works under both locks and leaves files behind at each step:     *)
(*   .corrupt/S.H.repair-original   backup                                 *)
(*   .repairs/S.H.json              receipt: prepared, replaced, committed *)
(*   .repair-prune/S.H.json         tombstone: authorized, backup_staged   *)
(*   .repair-prune/S.H.repair-original   staged                            *)
(* Between repair and commit_repair_receipt the command records its event  *)
(* under a deterministic key, like any other writer of the log.            *)
(***************************************************************************)
EXTENDS AuditLog

CONSTANTS
    Operator,       \* the writer that is the operator's command
    RepairKey       \* the key of its event, audit-repair:S:H

ASSUME RepairConstants == Operator \in Writer /\ RepairKey \in Keyed

VARIABLES
    fence,          \* segment and bytes named by the operator
    backup,         \* the preserved original
    receipt,        \* phase of the repair receipt
    tombstone,      \* phase of the retention tombstone
    staged,         \* whether the backup moved to .repair-prune
    op              \* program counter of the operator's command

evidence == <<backup, receipt, tombstone, staged>>
repairVars == <<fence, evidence, op>>
allVars == <<vars, repairVars>>

\* A segment: events.jsonl, degraded.jsonl, or (i + 1) the i-th rotated one.
EventsSegment == 0
SpoolSegment == 1
Rotated(segment) == segment - 1
Fence == [segment : Nat, original : File]
ASSUME NoFence == None \notin Fence
\* The phases of a tombstone on disk (_load_repair_retention).
RetentionPhase == {"authorized", "backup_staged"}
OpPc == {"idle", "repair", "receipt", "replace", "mark", "record", "recording",
         "commit", "retain"}

RepairInit ==
    /\ Init
    /\ fence = None
    /\ backup = "absent" /\ receipt = "none" /\ tombstone = "none" /\ staged = FALSE
    /\ op = "idle"

\* _validate_repair_backup, _validate_retention_backup
BackupValid == backup = "whole"

FileOf(segment) == CASE segment = EventsSegment -> active
                     [] segment = SpoolSegment -> degraded
                     [] OTHER -> rotated[Rotated(segment)]

\* _repair_candidate: the original without its malformed lines, terminated.
Candidate(file) ==
    [lines |-> Picked(file.lines, {i \in DOMAIN file.lines : file.lines[i].ok}), open |-> FALSE]

\* The bytes of file a are the first bytes of file b.
BytesPrefix(a, b) ==
    /\ IsPrefix(a.lines, b.lines)
    /\ a.lines = b.lines /\ a.lines # <<>> => ~b.open

\* _repair_target_state
TargetState ==
    LET file == FileOf(fence.segment)
        fixed == Candidate(fence.original)
    IN CASE file = None -> IF fence.segment = SpoolSegment THEN "consumed" ELSE "missing"
         [] file = fence.original -> "original"
         [] file = fixed -> "repaired"
         [] file # None /\ fence.segment = EventsSegment /\ BytesPrefix(fixed, file) /\ ~Damaged(file)
              -> "repaired"
         [] OTHER -> "drifted"
Proven == {"repaired", "consumed"}

-----------------------------------------------------------------------------
(* audit-health and audit-repair *)

OpGoto(label) == op' = label
TakeLocks ==
    /\ auditLock = None /\ degradedLock = None
    /\ auditLock' = Operator /\ degradedLock' = Operator
\* The command ends and its locks, if any, are released.
OpRelease == Release(Operator)
OpEnd == OpGoto("idle") /\ OpRelease

\* audit-health shows malformed lines; the operator settles on one segment.
Diagnose ==
    /\ op = "idle" /\ fence = None
    /\ \E s \in 0..(Len(rotated) + 1) :
           /\ FileOf(s) # None /\ Damaged(FileOf(s))
           /\ fence' = [segment |-> s, original |-> FileOf(s)]
    /\ UNCHANGED <<vars, evidence, op>>

\* The command starts, or is refused because a lock stays taken (no step).
RepairStart ==
    /\ op = "idle" /\ pc[Operator] = "idle" /\ fence # None /\ tombstone = "none"
    /\ TakeLocks
    /\ OpGoto("repair")
    /\ UNCHANGED <<files, pc, job, reported, spent, fence, evidence>>

\* mutant: a prepared receipt replaces its target whatever is in it by now
ResumeBlind ==
    /\ op = "repair" /\ receipt # "none"
    /\ OpGoto(IF receipt = "prepared" THEN "replace" ELSE "mark")
    /\ UNCHANGED <<vars, fence, evidence>>
\* A receipt is there: resume it. The target decides, the receipt's phase with it.
Resume ==
    /\ op = "repair" /\ receipt # "none"
    /\ LET state == TargetState
       IN IF BackupValid /\ state = "original" /\ receipt = "prepared"
          THEN OpGoto("replace") /\ UNCHANGED locks
          ELSE IF BackupValid /\ (\/ state = "repaired"
                                  \/ state = "consumed" /\ receipt # "prepared")
          THEN OpGoto("mark") /\ UNCHANGED locks
          ELSE OpEnd
    /\ UNCHANGED <<files, pc, job, reported, spent, fence, evidence>>

\* No receipt: the bytes must be the ones diagnosed. The backup is created
\* exclusively; one that is there already must hold these very bytes.
Backup ==
    /\ op = "repair" /\ receipt = "none"
    /\ IF FileOf(fence.segment) = fence.original /\ backup # "partial"
       THEN backup' = "whole" /\ OpGoto("receipt") /\ UNCHANGED locks
       ELSE backup' = backup /\ OpEnd
    /\ UNCHANGED <<files, pc, job, reported, spent, fence, receipt, tombstone, staged>>

PrepareReceipt ==
    /\ op = "receipt"
    /\ receipt' = "prepared"
    /\ OpGoto("replace")
    /\ UNCHANGED <<vars, fence, backup, tombstone, staged>>

\* The candidate replaces the segment in one rename.
SetTarget(file) ==
    /\ active' = IF fence.segment = EventsSegment THEN file ELSE active
    /\ degraded' = IF fence.segment = SpoolSegment THEN file ELSE degraded
    /\ rotated' = [i \in DOMAIN rotated |->
                      IF Rotated(fence.segment) = i THEN file ELSE rotated[i]]
ReplaceTarget ==
    /\ op = "replace"
    /\ SetTarget(Candidate(fence.original))
    /\ OpGoto("mark")
    /\ UNCHANGED <<corrupt, locks, pc, job, reported, spent, fence, evidence>>

MarkReplaced ==
    /\ op = "mark"
    /\ receipt' = IF receipt = "committed" THEN receipt ELSE "replaced"
    /\ OpGoto("record")
    /\ OpRelease
    /\ UNCHANGED <<files, pc, job, reported, spent, fence, backup, tombstone, staged>>

\* command_audit_repair records the event under its key, as any other call.
RecordRepair ==
    /\ op = "record"
    /\ Call(Operator, RepairKey)
    /\ OpGoto("recording")
    /\ UNCHANGED <<fence, evidence>>

\* Only a committed append lets the receipt be completed.
Recorded ==
    /\ op = "recording" /\ pc[Operator] = "idle"
    /\ OpGoto(IF job[Operator].answer THEN "commit" ELSE "idle")
    /\ UNCHANGED <<vars, fence, evidence>>

\* commit_repair_receipt, under both locks; one write.
CommitReceipt ==
    /\ op = "commit"
    /\ auditLock = None /\ degradedLock = None
    /\ receipt' = IF BackupValid /\ TargetState \in Proven /\ receipt = "replaced"
                  THEN "committed" ELSE receipt
    /\ OpGoto("idle")
    /\ UNCHANGED <<vars, fence, backup, tombstone, staged>>

\* The locks stay taken: the commit is refused, and left to a retry.
CommitRefused ==
    /\ op = "commit"
    /\ auditLock # None \/ degradedLock # None
    /\ OpGoto("idle")
    /\ UNCHANGED <<vars, fence, evidence>>

-----------------------------------------------------------------------------
(* prune_committed_repairs and _resume_repair_retention *)

\* mutant: a cleanup authorized before is resumed without looking at the log
PruneStartBlind ==
    /\ op = "idle" /\ pc[Operator] = "idle"
    /\ tombstone \in RetentionPhase \/ receipt = "committed"
    /\ TakeLocks
    /\ tombstone' = IF tombstone = "none" THEN "authorized" ELSE tombstone
    /\ OpGoto("retain")
    /\ UNCHANGED <<files, pc, job, reported, spent, fence, backup, receipt, staged>>
\* Old enough (at any time after the commit), the receipt is committed, the
\* backup whole, the key on a complete readable snapshot of the log (reading it
\* repairs a torn active tail) and the target proven: authorize the cleanup,
\* or resume the one authorized before.
PruneStart ==
    /\ op = "idle" /\ pc[Operator] = "idle" /\ fence # None
    /\ auditLock = None /\ degradedLock = None
    /\ LET evidenceOk == \A i \in 1..Len(rotated) : ~Damaged(rotated[i])
           log == IF evidenceOk THEN Repaired(Text(active)) ELSE Text(active)
           keys == Readable(log) \cup UNION {Readable(rotated[i]) : i \in 1..Len(rotated)}
           complete == evidenceOk /\ ~Damaged(log)
           due == \/ tombstone \in RetentionPhase
                  \/ tombstone # "removed" /\ receipt = "committed" /\ BackupValid
       IN /\ active' = IF active = None THEN None ELSE log
          /\ corrupt' = corrupt \cup (IF log = Text(active) THEN {} ELSE Quarantined(Text(active)))
          /\ IF complete /\ due /\ RepairKey \in keys /\ TargetState \in Proven
             THEN /\ TakeLocks
                  /\ tombstone' = IF tombstone = "none" THEN "authorized" ELSE tombstone
                  /\ OpGoto("retain")
             ELSE UNCHANGED <<locks, tombstone, op>>
    /\ UNCHANGED <<rotated, degraded, pc, job, reported, spent, fence, backup, receipt, staged>>

RetainReceipt ==
    /\ op = "retain" /\ tombstone = "authorized" /\ receipt = "committed"
    /\ BackupValid /\ ~staged
    /\ receipt' = "none"
    /\ UNCHANGED <<vars, fence, backup, tombstone, staged, op>>
\* mutant: the backup is staged while its receipt is still there
RetainStageFirst ==
    /\ op = "retain" /\ tombstone = "authorized"
    /\ BackupValid /\ ~staged
    /\ backup' = "absent" /\ staged' = TRUE
    /\ UNCHANGED <<vars, fence, receipt, tombstone, op>>
RetainStage ==
    /\ op = "retain" /\ tombstone = "authorized" /\ receipt = "none"
    /\ BackupValid /\ ~staged
    /\ backup' = "absent" /\ staged' = TRUE
    /\ UNCHANGED <<vars, fence, receipt, tombstone, op>>
RetainMark ==
    /\ op = "retain" /\ tombstone = "authorized" /\ staged
    /\ tombstone' = "backup_staged"
    /\ UNCHANGED <<vars, fence, backup, receipt, staged, op>>
RetainUnstage ==
    /\ op = "retain" /\ tombstone = "backup_staged" /\ staged
    /\ staged' = FALSE
    /\ UNCHANGED <<vars, fence, backup, receipt, tombstone, op>>
RetainDone ==
    /\ op = "retain" /\ tombstone = "backup_staged" /\ ~staged /\ receipt = "none"
    /\ tombstone' = "removed"
    /\ OpEnd
    /\ UNCHANGED <<files, pc, job, reported, spent, fence, backup, receipt, staged>>

-----------------------------------------------------------------------------
(* Faults and the next-state relation *)

\* The command dies; what it was writing may be there, in part or not at all.
OpCrash ==
    /\ Fault
    /\ op \notin {"idle", "recording"}
    /\ \/ backup' = backup
       \/ /\ op = "repair" /\ receipt = "none" /\ backup = "absent"
          /\ FileOf(fence.segment) = fence.original
          /\ backup' \in {"partial", "whole"}
    /\ OpGoto("idle")
    /\ pc' = [pc EXCEPT ![Operator] = "dead"]
    /\ UNCHANGED <<files, locks, job, reported, fence, receipt, tombstone, staged>>

OperatorStep ==
    \/ Diagnose \/ RepairStart \/ Resume \/ Backup \/ PrepareReceipt \/ ReplaceTarget
    \/ MarkReplaced \/ RecordRepair \/ Recorded \/ CommitReceipt \/ CommitRefused
    \/ PruneStart \/ RetainReceipt \/ RetainStage \/ RetainMark \/ RetainUnstage \/ RetainDone
    \/ OpCrash

LogStep ==
    /\ \/ \E w \in Writer, e \in Event \ {RepairKey} : (w = Operator => op = "idle") /\ Call(w, e)
       \/ \E w \in Writer : Proceed(w)
    /\ UNCHANGED repairVars

RepairNext == OperatorStep \/ LogStep

RepairSpec == RepairInit /\ [][RepairNext]_allVars

-----------------------------------------------------------------------------
(* Properties *)

RepairTypeOK ==
    /\ TypeOK
    /\ fence \in Fence \cup {None}
    /\ backup \in {"absent", "partial", "whole"}
    /\ receipt \in {"none", "prepared", "replaced", "committed"}
    /\ tombstone \in RetentionPhase \cup {"none", "removed"}
    /\ staged \in BOOLEAN
    /\ op \in OpPc

\* What a call reported stays readable, or is in evidence: repairs, races of a
\* repair with appends, rotation and replay, and retries drop no valid line. Its
\* malformed lines go only with a completed retention.
EvidenceKept ==
    \A e \in reported :
        \/ e \in Logged \cup Buried
        \/ /\ fence # None /\ e \in MalformedEvents(fence.original)
           /\ BackupValid \/ staged \/ tombstone \in {"backup_staged", "removed"}

\* Nothing that was made durable is removed before the log holds what replaces it:
\* the evidence of a repair goes only while the log has the repair event and the
\* segment still proves the repair, and a line leaves the spool only once the log
\* has it past an fsync.
RetiredProven ==
    [][/\ staged /\ ~staged' => TargetState \in Proven /\ RepairKey \in Logged
       /\ SpoolPromoted]_allVars
=============================================================================
