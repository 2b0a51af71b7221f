----------------------------- MODULE PruneHealth -----------------------------
(***************************************************************************)
(* oa audit-health over the receipts, markers and releases of rotated      *)
(* pruning. health takes no lock and writes nothing; as in RepairHealth    *)
(* nothing else moves while it reads.                                      *)
(***************************************************************************)
EXTENDS AuditPrune

\* _inspect_rotated_prune_receipt, an authorized removal.
TargetState(s) ==
    IF segment[s] = None THEN "authorized_absent"
    ELSE IF segment[s] = receipt.out[s].content THEN "matching" ELSE "drifted"
TargetReasons(s) ==
    (IF TargetState(s) = "drifted" THEN {"segment_drifted"} ELSE {}) \cup
    (IF TargetState(s) # "authorized_absent" /\ receipt.phase = "applied"
     THEN {"applied_target_present"} ELSE {})

MarkersOf(s) == {m \in markers : Marks(m, receipt.run, s)}
\* mutant: the marker is looked for, its binding is not
ResolutionUnbound(s) ==
    IF MarkersOf(s) = {} THEN {"preservation_marker_missing"}
    ELSE IF ResolveKey(receipt.run, s, receipt.out[s].content) \notin LoggedKeys THEN {"resolution_audit_missing"}
    ELSE {}
\* The same, a resolved outcome and its marker.
ResolutionReasons(s) ==
    IF MarkersOf(s) = {} THEN {"preservation_marker_missing"}
    ELSE IF \E m \in MarkersOf(s) : ~Binds(m) \/ m.content # receipt.out[s].content
    THEN {"preservation_marker_invalid"}
    ELSE IF ResolveKey(receipt.run, s, receipt.out[s].content) \notin LoggedKeys
    THEN {"resolution_audit_missing"}
    ELSE {}

ReceiptReasons ==
    (UNION {TargetReasons(s) : s \in Removals(receipt.out)}) \cup
    (UNION {ResolutionReasons(s) : s \in Resolved(receipt)})
ReceiptStatus == IF ReceiptReasons = {} THEN "resumable" ELSE "blocked"

\* _inspect_preservation_release_group of one logged release key.
Released == {k \in LoggedKeys : k.kind = "release"}
ReleaseStatus(k) ==
    LET there == {m \in markers : m.run = k.run /\ m.seg = k.seg}
    IN IF there = {} THEN "completed"
       ELSE IF \A m \in there : ReleaseKey(m) = k /\ Releasable(m) THEN "resumable"
       ELSE "blocked"

\* The verdict; the log itself is always readable here.
Health ==
    IF pending # {} \/ receipt # None \/ markers # {} \/ \E k \in Released : ReleaseStatus(k) # "completed"
    THEN "attention" ELSE "healthy"

-----------------------------------------------------------------------------
(* Properties *)

\* audit-health and prune look at the files on their own, and agree: when no command
\* runs, a prepared run is called blocked only over a segment that a resumed run will
\* retain as drifted, and an applied run is called resumable exactly if the next prune
\* commits it, so a wedged run is never called resumable.
ReceiptDiagnosed ==
    (oa.pc = "idle" /\ receipt # None) =>
        /\ receipt.phase = "prepared" =>
               (ReceiptStatus = "blocked" <=>
                    \E s \in Removals(receipt.out) : segment[s] \notin {None, receipt.out[s].content})
        /\ receipt.phase = "applied" =>
               (ReceiptStatus = "resumable" <=>
                    /\ TopologyOk
                    /\ \A s \in Resolved(receipt) :
                           ResolveKey(receipt.run, s, receipt.out[s].content) \in LoggedKeys)
        /\ Wedged => ReceiptStatus = "blocked"
\* A healthy report leaves nothing unsettled: each run that removed a segment has
\* recorded its event, each marker that is gone was released.
HealthySettled ==
    (oa.pc = "idle" /\ Health = "healthy") =>
        /\ \A r \in past.removed : PruneKey(r[2]) \in past.logged
        /\ \A m \in past.markers : ReleaseKey(m) \in past.logged
\* What audit-health says of pruning is true.
HealthTruthful == ReceiptDiagnosed /\ HealthySettled
==============================================================================
