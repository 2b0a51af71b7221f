----------------------------- MODULE RepairHealth ----------------------------
(***************************************************************************)
(* oa audit-health over the log, its spool and the evidence of a repair.   *)
(*                                                                         *)
(* health takes no lock and writes nothing. What it reports is a function  *)
(* of the files, told here for a bus on which nothing else moves while it  *)
(* reads; the properties relate the report to what the commands that it    *)
(* sends the operator to would do, and to what the log has lost.           *)
(***************************************************************************)
EXTENDS AuditRepair

\* The segments health lists, and the spool, by their number in AuditRepair.
Inspected == {s \in 0..(Len(rotated) + 1) : FileOf(s) # None}
\* _inspect_jsonl: a malformed line, whichever; and a last line that is malformed,
\* has no newline, and is not in a rotated segment, whatever precedes it.
Malformed == {s \in Inspected : Damaged(FileOf(s))}
RepairableTail(s) ==
    /\ s \in {EventsSegment, SpoolSegment}
    /\ FileOf(s).open /\ ~Last(FileOf(s).lines).ok

KeyedAppendBlocked == Malformed # {}
BlockedReplay == degraded # None /\ KeyedAppendBlocked
\* The segments offered to audit-repair with their fingerprint and lines.
RepairCandidates == {s \in Malformed : ~RepairableTail(s)}
PendingCount == IF degraded = None \/ Damaged(degraded) THEN 0 ELSE Len(degraded.lines)

\* _read_only_logged_keys: None as soon as one line of one segment is malformed.
SnapshotComplete == Malformed \subseteq {SpoolSegment}

\* The receipts, backups and staged backups that an authorized cleanup passes through.
CleanupTopology ==
    IF tombstone = "authorized"
    THEN \/ backup = "whole" /\ ~staged
         \/ receipt = "none" /\ backup = "absent" /\ staged
    ELSE receipt = "none" /\ backup = "absent"

\* _inspect_repair_retention, why a pending cleanup would not be resumed.
RetentionReasons ==
    (IF SnapshotComplete THEN {} ELSE {"audit_snapshot_incomplete"}) \cup
    (IF SnapshotComplete /\ RepairKey \notin Logged THEN {"audit_key_missing"} ELSE {}) \cup
    (IF TargetState \in Proven THEN {} ELSE {"target_not_repaired"}) \cup
    (IF CleanupTopology THEN {} ELSE {"inconsistent_file_state"})
CleanupPending == tombstone \in {"authorized", "backup_staged"}

\* mutant: quarantined fragments are left out of the verdict
HealthUnquarantined ==
    IF KeyedAppendBlocked THEN "blocked"
    ELSE IF PendingCount > 0 \/ backup # "absent" \/ receipt \in {"prepared", "replaced"} \/ CleanupPending
         THEN "attention" ELSE "healthy"
\* The verdict: .corrupt holds the quarantined tails and the repair's backup.
Health ==
    IF KeyedAppendBlocked THEN "blocked"
    ELSE IF \/ PendingCount > 0
            \/ corrupt # {} \/ backup # "absent"
            \/ receipt \in {"prepared", "replaced"}
            \/ CleanupPending
         THEN "attention" ELSE "healthy"

-----------------------------------------------------------------------------
(* Properties *)

\* A committed receipt has its repair event in the log. Whatever step of a cleanup a
\* crash interrupts, the evidence left behind is consistent: a receipt on disk has its
\* whole backup ("a stop can leak evidence but cannot erase an unbound backup",
\* docs/PAO_TechSpec.md), and audit-health never finds a pending cleanup in a state
\* that the next prune would refuse ("inconsistent_file_state").
EvidenceConsistent ==
    /\ receipt = "committed" => RepairKey \in Logged \cup Buried
    /\ receipt # "none" => backup = "whole"
    /\ CleanupPending => CleanupTopology

\* A healthy report hides no loss: while no call is under way, each event that a
\* call reported is on a readable line of the log, unless a repair whose evidence
\* is by now retired dropped its line.
HealthyHidesNothing ==
    (Health = "healthy" /\ \A w \in Writer : pc[w] = "idle") =>
        reported \subseteq Logged \cup (IF tombstone = "removed" THEN MalformedEvents(fence.original) ELSE {})
==============================================================================
