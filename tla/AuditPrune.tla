----------------------------- MODULE AuditPrune -----------------------------
(***************************************************************************)
(* Pruning the rotated segments of the audit log: oa prune (prune_rotated, *)
(* commit_rotated_prune_receipt), oa audit-prune-resolve and oa audit-     *)
(* preserve-release.                                                       *)
(*                                                                         *)
(* A prune run writes a receipt with its decisions (prepared), deletes     *)
(* what it listed, marks the receipt applied, records the pruned event     *)
(* under the run's key and removes the receipt. A crash anywhere leaves    *)
(* the receipt, and the next prune resumes it before anything else. A      *)
(* removed segment that comes back (a restored backup, a synchronised      *)
(* directory) stops the run until an operator resolves it: the segment is  *)
(* kept under a preservation marker, which only a release removes.         *)
(*                                                                         *)
(* The OA's commands run one at a time; each holds the audit locks while   *)
(* it reads and writes receipts, markers and segments, and drops them      *)
(* while it records an event. The log is taken as a set of keys per file:  *)
(* AuditLog shows how a key gets there, once.                              *)
(***************************************************************************)
EXTENDS Naturals, FiniteSetsExt

CONSTANTS
    Data,           \* keys of the events of other commands
    None,           \* absent
    MaxSegments,    \* bound: rotations
    MaxRuns,        \* bound: prune runs
    MaxOutside,     \* bound: segments restored or changed behind the program
    MaxFaults       \* bound: crashes and failed appends

ASSUME PruneConstants ==
    /\ None \notin Data
    /\ MaxSegments \in Nat /\ MaxRuns \in Nat /\ MaxOutside \in Nat /\ MaxFaults \in Nat

VARIABLES
    segment,        \* the rotated segments
    active,         \* the keys in events.jsonl
    pending,        \* the keys in degraded.jsonl
    receipt,        \* .rotated-prune/RUN.json
    markers,        \* .rotated-preserve/RUN.SEGMENT.json
    oa,             \* program counter and locals of the OA's command
    spent,          \* bounds: rotations, runs, outside changes, faults so far
    past            \* history: keys ever logged, removals, markers ever written

vars == <<segment, active, pending, receipt, markers, oa, spent, past>>

Seg == 1..MaxSegments
\* A key: of another command, or of a prune, resolution or release of this module.
Key == [kind : {"data", "prune", "resolve", "release"}, id : Data \cup {None},
        run : Nat, seg : Nat, version : Nat]
\* What a file holds: its keys; version tells apart bytes with the same keys.
Content == [keys : SUBSET Key, version : Nat]
\* A decision: remove with the bytes as witness, retain (protected or blocked),
\* or preserved by an operator, with the recreated bytes.
Outcome == [kind : {"none", "remove", "retain", "preserved"}, content : Content \cup {None}]
Receipt == [run : Nat, phase : {"prepared", "applied"}, out : [Seg -> Outcome]]
\* before stands for receipt_sha256_before: what tells two versions of one applied
\* receipt apart is which outcomes are resolved.
Marker == [run : Nat, seg : Seg, content : Content, before : SUBSET Seg]
OaPc == {"idle", "apply", "record_prune", "record_resolve", "commit_prune",
         "resolve_receipt", "resolve_prune", "record_release", "commit_release"}
Oa == [pc : OaPc, todo : SUBSET Seg, out : [Seg -> Outcome], marker : Marker \cup {None}]
Spent == [segments : Nat, runs : Nat, outside : Nat, faults : Nat]
Past == [logged : SUBSET Key, removed : SUBSET (Seg \X Nat \X Content), markers : SUBSET Marker]

\* An absent file is none that could be there.
ASSUME PruneAbsent == None \notin Content \cup Receipt \cup Marker

Undecided == [kind |-> "none", content |-> None]
OaIdle == [pc |-> "idle", todo |-> {}, out |-> [s \in Seg |-> Undecided], marker |-> None]

DataKey(d) == [kind |-> "data", id |-> d, run |-> 0, seg |-> 0, version |-> 0]
PruneKey(run) == [kind |-> "prune", id |-> None, run |-> run, seg |-> 0, version |-> 0]
ResolveKey(run, s, content) ==
    [kind |-> "resolve", id |-> None, run |-> run, seg |-> s, version |-> content.version]
ReleaseKey(m) ==
    [kind |-> "release", id |-> None, run |-> m.run, seg |-> m.seg, version |-> m.content.version]

Init ==
    /\ segment = [s \in Seg |-> None]
    /\ active = {} /\ pending = {}
    /\ receipt = None /\ markers = {}
    /\ oa = OaIdle
    /\ spent = [segments |-> 0, runs |-> 0, outside |-> 0, faults |-> 0]
    /\ past = [logged |-> {}, removed |-> {}, markers |-> {}]

Present == {s \in Seg : segment[s] # None}
\* _logged_keys: over the active and every rotated segment.
LoggedKeys == active \cup UNION {segment[s].keys : s \in Present}
Resolved(r) == {s \in Seg : r.out[s].kind = "preserved"}
Tally(field) == spent' = [spent EXCEPT ![field] = @ + 1]
Goto(label) == oa' = [oa EXCEPT !.pc = label]

-----------------------------------------------------------------------------
(* The log *)

\* The commands that hold the audit locks between two steps.
Locked == oa.pc \in {"apply", "resolve_receipt"}

\* record_once: the key and the whole backlog are logged, each once ...
Append(key) ==
    /\ active' = active \cup (({key} \cup pending) \ LoggedKeys)
    /\ pending' = {}
    /\ past' = [past EXCEPT !.logged = @ \cup {key} \cup pending]
\* ... or the append fails and the key waits in the spool.
AppendFails(key) ==
    /\ spent.faults < MaxFaults
    /\ Tally("faults")
    /\ pending' = pending \cup {key}

\* Another command records an event.
RecordData(d) ==
    /\ ~Locked
    /\ \/ Append(DataKey(d)) /\ UNCHANGED spent
       \/ AppendFails(DataKey(d)) /\ UNCHANGED <<active, past>>
    /\ UNCHANGED <<segment, receipt, markers, oa>>

\* A record finds the active segment full.
Rotate ==
    /\ ~Locked
    /\ active # {}
    /\ spent.segments < MaxSegments
    /\ Tally("segments")
    /\ segment' = [segment EXCEPT ![spent.segments + 1] = [keys |-> active, version |-> 0]]
    /\ active' = {}
    /\ UNCHANGED <<pending, receipt, markers, oa, past>>

\* A removed segment comes back, as it was or changed.
Restore(s) ==
    /\ ~Locked
    /\ segment[s] = None /\ s <= spent.segments
    /\ spent.outside < MaxOutside
    /\ Tally("outside")
    /\ \E was \in past.removed, change \in {0, 1} :
           /\ was[1] = s
           /\ segment' = [segment EXCEPT ![s] = [was[3] EXCEPT !.version = @ + change]]
    /\ UNCHANGED <<active, pending, receipt, markers, oa, past>>

Drift(s) ==
    /\ ~Locked
    /\ segment[s] # None
    /\ spent.outside < MaxOutside
    /\ Tally("outside")
    /\ segment' = [segment EXCEPT ![s].version = @ + 1]
    /\ UNCHANGED <<active, pending, receipt, markers, oa, past>>
-----------------------------------------------------------------------------
(* oa prune: prune_rotated *)

\* _validate_preserved_target of every marker (_rotated_preservation_targets).
Binds(m) == segment[m.seg] = m.content
Marks(m, run, s) == m.run = run /\ m.seg = s

\* mutant: the preservation markers are not looked at
DecisionUnmarked(s) ==
    IF segment[s].keys \cap pending # {}
    THEN [kind |-> "retain", content |-> None]
    ELSE [kind |-> "remove", content |-> segment[s]]
\* The decision on a candidate, under the snapshots taken with the locks held.
Decision(s) ==
    IF \/ \E m \in markers : ~Binds(m)
       \/ \E m \in markers : m.seg = s
       \/ segment[s].keys \cap pending # {}
    THEN [kind |-> "retain", content |-> None]
    ELSE [kind |-> "remove", content |-> segment[s]]

Removals(out) == {s \in Seg : out[s].kind = "remove"}

\* No run is pending: decide on the old enough segments (any of them may be) and
\* write the receipt before the first deletion.
PrunePrepare ==
    /\ oa.pc = "idle" /\ receipt = None
    /\ spent.runs < MaxRuns
    /\ Tally("runs")
    /\ \E candidates \in SUBSET Present :
           LET out == [s \in Seg |-> IF s \in candidates THEN Decision(s) ELSE Undecided]
           IN /\ receipt' = [run |-> spent.runs + 1, phase |-> "prepared", out |-> out]
              /\ oa' = [OaIdle EXCEPT !.pc = "apply", !.todo = Removals(out), !.out = out]
    /\ UNCHANGED <<segment, active, pending, markers, past>>

\* mutant: a resolved removal must be absent as well
TopologyAbsent ==
    \A s \in Removals(receipt.out) \cup Resolved(receipt) : segment[s] = None
\* _require_applied_rotated_prune_topology
TopologyOk ==
    /\ \A s \in Removals(receipt.out) : segment[s] = None
    /\ \A s \in Resolved(receipt) : \E m \in markers : Marks(m, receipt.run, s) /\ Binds(m)

\* A pending run is resumed before anything else: with its own decisions, or,
\* once applied, with nothing but its event left to record.
PruneResume ==
    /\ oa.pc = "idle" /\ receipt # None
    /\ IF receipt.phase = "prepared"
       THEN oa' = [OaIdle EXCEPT !.pc = "apply", !.todo = Removals(receipt.out), !.out = receipt.out]
       ELSE TopologyOk /\ Goto("record_prune")
    /\ UNCHANGED <<segment, active, pending, receipt, markers, spent, past>>

\* mutant: an unlink without a look at the witness
UnlinkNext ==
    /\ oa.pc = "apply" /\ oa.todo # {}
    /\ LET s == Min(oa.todo)
       IN /\ oa' = [oa EXCEPT !.todo = @ \ {s}]
          /\ segment' = [segment EXCEPT ![s] = None]
          /\ past' = IF segment[s] = None THEN past
                     ELSE [past EXCEPT !.removed = @ \cup {<<s, receipt.run, segment[s]>>}]
    /\ UNCHANGED <<active, pending, receipt, markers, spent>>
\* One authorized removal: absent is done, the witnessed bytes are unlinked (or
\* the unlink fails), anything else is retained as drifted.
ApplyNext ==
    /\ oa.pc = "apply" /\ oa.todo # {}
    /\ LET s == Min(oa.todo)
           kept == [oa EXCEPT !.todo = @ \ {s}, !.out[s] = [kind |-> "retain", content |-> None]]
           removed == [oa EXCEPT !.todo = @ \ {s}]
       IN \/ /\ segment[s] = None
             /\ oa' = removed
             /\ UNCHANGED <<segment, past, spent>>
          \/ /\ segment[s] = oa.out[s].content
             /\ \/ /\ oa' = removed
                   /\ segment' = [segment EXCEPT ![s] = None]
                   /\ past' = [past EXCEPT !.removed = @ \cup {<<s, receipt.run, segment[s]>>}]
                   /\ UNCHANGED spent
                \/ /\ spent.faults < MaxFaults /\ Tally("faults")
                   /\ oa' = kept
                   /\ UNCHANGED <<segment, past>>
          \/ /\ segment[s] \notin {None, oa.out[s].content}
             /\ oa' = kept
             /\ UNCHANGED <<segment, past, spent>>
    /\ UNCHANGED <<active, pending, receipt, markers>>

ApplyDone ==
    /\ oa.pc = "apply" /\ oa.todo = {}
    /\ receipt' = [receipt EXCEPT !.phase = "applied", !.out = oa.out]
    /\ oa' = [OaIdle EXCEPT !.pc = "record_prune"]
    /\ UNCHANGED <<segment, active, pending, markers, spent, past>>

\* command_prune and command_audit_prune_resolve record under the run's keys; a
\* failed append ends the command with the receipt in place.
Record(from, key, to) ==
    /\ oa.pc = from
    /\ \/ Append(key) /\ Goto(to) /\ UNCHANGED spent
       \/ AppendFails(key) /\ oa' = OaIdle /\ UNCHANGED <<active, past>>
    /\ UNCHANGED <<segment, receipt, markers>>

RecordPrune == Record("record_prune", PruneKey(receipt.run), "commit_prune")

\* commit_rotated_prune_receipt: the topology and the keys once more, then unlink.
CommitPrune ==
    /\ oa.pc = "commit_prune"
    /\ LET keys == {PruneKey(receipt.run)} \cup
                   {ResolveKey(receipt.run, s, receipt.out[s].content) : s \in Resolved(receipt)}
       IN receipt' = IF TopologyOk /\ keys \subseteq LoggedKeys THEN None ELSE receipt
    /\ oa' = OaIdle
    /\ UNCHANGED <<segment, active, pending, markers, spent, past>>

-----------------------------------------------------------------------------
(* oa audit-prune-resolve: resolve_rotated_prune *)

\* An authorized removal that is present again: the marker is written first, or
\* found from an interrupted attempt and then has to agree, the fingerprint of the
\* receipt that the attempt saw included.
ResolveMark(s) ==
    /\ oa.pc = "idle" /\ receipt # None
    /\ receipt.phase = "applied"
    /\ segment[s] # None /\ receipt.out[s].kind = "remove"
    /\ LET before == Resolved(receipt)
           marker == [run |-> receipt.run, seg |-> s, content |-> segment[s], before |-> before]
           there == {m \in markers : Marks(m, receipt.run, s)}
       IN /\ there \subseteq {marker}
          /\ markers' = markers \cup {marker}
          /\ past' = [past EXCEPT !.markers = @ \cup {marker}]
          /\ oa' = [OaIdle EXCEPT !.pc = "resolve_receipt", !.marker = marker]
    /\ UNCHANGED <<segment, active, pending, receipt, spent>>

ResolveReceipt ==
    /\ oa.pc = "resolve_receipt"
    /\ receipt' = [receipt EXCEPT !.out[oa.marker.seg] =
                       [kind |-> "preserved", content |-> oa.marker.content]]
    /\ Goto("resolve_prune")
    /\ UNCHANGED <<segment, active, pending, markers, spent, past>>

\* An exact retry of a resolution the receipt already has.
ResolveAgain(s) ==
    /\ oa.pc = "idle" /\ receipt # None
    /\ receipt.phase = "applied" /\ receipt.out[s].kind = "preserved"
    /\ \E m \in markers :
           /\ Marks(m, receipt.run, s) /\ Binds(m) /\ m.content = receipt.out[s].content
           /\ oa' = [OaIdle EXCEPT !.pc = "resolve_prune", !.marker = m]
    /\ UNCHANGED <<segment, active, pending, receipt, markers, spent, past>>

ResolveRecordPrune == Record("resolve_prune", PruneKey(receipt.run), "record_resolve")
ResolveRecord == Record("record_resolve",
                        ResolveKey(oa.marker.run, oa.marker.seg, oa.marker.content),
                        "commit_prune")

-----------------------------------------------------------------------------
(* oa audit-preserve-release *)

\* _inspect_rotated_preservations finds the marker protected: bound to its target,
\* both its keys on the log, and the only claim on the segment.
Releasable(m) ==
    /\ Binds(m)
    /\ {PruneKey(m.run), ResolveKey(m.run, m.seg, m.content)} \subseteq LoggedKeys
    /\ \A n \in markers : n.seg = m.seg => n = m

ReleasePrepare(m) ==
    /\ oa.pc = "idle"
    /\ m \in markers /\ Releasable(m)
    /\ oa' = [OaIdle EXCEPT !.pc = "record_release", !.marker = m]
    /\ UNCHANGED <<segment, active, pending, receipt, markers, spent, past>>

\* mutant: the marker goes although its release event was only spooled
RecordReleaseAnyhow ==
    /\ oa.pc = "record_release"
    /\ \/ Append(ReleaseKey(oa.marker)) /\ UNCHANGED spent
       \/ AppendFails(ReleaseKey(oa.marker)) /\ UNCHANGED <<active, past>>
    /\ markers' = markers \ {oa.marker}
    /\ oa' = OaIdle
    /\ UNCHANGED <<segment, receipt>>
RecordRelease == Record("record_release", ReleaseKey(oa.marker), "commit_release")

CommitRelease ==
    /\ oa.pc = "commit_release"
    /\ markers' = IF ReleaseKey(oa.marker) \in LoggedKeys /\ oa.marker \in markers /\ Releasable(oa.marker)
                  THEN markers \ {oa.marker} ELSE markers
    /\ oa' = OaIdle
    /\ UNCHANGED <<segment, active, pending, receipt, spent, past>>

-----------------------------------------------------------------------------
(* Faults and the next-state relation *)

\* The command dies between two of its writes; the locks it held go stale.
Crash ==
    /\ oa.pc # "idle"
    /\ spent.faults < MaxFaults
    /\ Tally("faults")
    /\ oa' = OaIdle
    /\ UNCHANGED <<segment, active, pending, receipt, markers, past>>

PruneStep == PrunePrepare \/ PruneResume \/ ApplyNext \/ ApplyDone \/ RecordPrune \/ CommitPrune
ResolveStep ==
    \/ \E s \in Seg : ResolveMark(s) \/ ResolveAgain(s)
    \/ ResolveReceipt \/ ResolveRecordPrune \/ ResolveRecord
ReleaseStep == RecordRelease \/ CommitRelease \/ \E m \in markers : ReleasePrepare(m)
Environment ==
    \/ Rotate \/ \E d \in Data : RecordData(d)
    \/ \E s \in Seg : Restore(s) \/ Drift(s)
    \/ Crash

Next == PruneStep \/ ResolveStep \/ ReleaseStep \/ Environment

Spec == Init /\ [][Next]_vars

\* The OA runs the commands to their end, and the operator follows the guidance of
\* audit-health: prune again while a run is pending, resolve a segment that came
\* back, retry a resolution that did not complete.
Work == \/ ApplyNext \/ ApplyDone \/ RecordPrune \/ CommitPrune
        \/ ResolveReceipt \/ ResolveRecordPrune \/ ResolveRecord
        \/ RecordRelease \/ CommitRelease
FairSpec == Spec /\ WF_vars(Work) /\ SF_vars(PruneResume)
                 /\ \A s \in Seg : SF_vars(ResolveMark(s) \/ ResolveAgain(s))

-----------------------------------------------------------------------------
(* Properties *)

TypeOK ==
    /\ segment \in [Seg -> Content \cup {None}]
    /\ active \subseteq Key /\ pending \subseteq Key
    /\ receipt \in Receipt \cup {None}
    /\ markers \subseteq Marker
    /\ oa \in Oa /\ spent \in Spent /\ past \in Past
    /\ oa.pc = "apply" => receipt # None /\ receipt.phase = "prepared"
    /\ oa.pc \in {"record_prune", "record_resolve", "commit_prune", "resolve_receipt",
                  "resolve_prune"} => receipt # None /\ receipt.phase = "applied"

\* No event is lost silently: a key once logged is in some file of the log, or was
\* in a segment that a run removed which is still pending or whose own event was
\* logged, whatever step a crash interrupted.
RemovalAccounted ==
    \A k \in past.logged \ LoggedKeys : \E r \in past.removed :
        /\ k \in r[3].keys
        /\ \/ receipt # None /\ receipt.run = r[2]
           \/ PruneKey(r[2]) \in past.logged

\* A marker disappears only after its release event was logged ("OA records
\* audit_preservation_released ... before marker deletion").
ReleaseAccounted == \A m \in past.markers \ markers : ReleaseKey(m) \in past.logged

\* Nothing leaves the log or its markers without a logged event that tells of it:
\* the two together.
KeysAccounted == RemovalAccounted /\ ReleaseAccounted

\* A preserved segment is never deleted while its marker stands, by this run or a
\* later one.
PreservedKept ==
    [][\A m \in markers : Binds(m) => segment'[m.seg] # None]_vars

\* A deleted segment is, to the byte, one the receipt listed when it was prepared,
\* although it may have drifted, or gone and come back, before the run was resumed.
DeletedAsWitnessed ==
    [][\A s \in Seg : segment[s] # None /\ segment'[s] = None =>
            /\ receipt # None /\ receipt.phase = "prepared"
            /\ receipt.out[s] = [kind |-> "remove", content |-> segment[s]]]_vars

\* What keeps a run from completing until someone puts the files right: a resolved
\* segment whose marker does not stand for its bytes (any more), or a marker that
\* was written against a version of the receipt that another resolution has since
\* replaced, so that no retry matches it.
Wedged ==
    /\ receipt # None
    /\ \E s \in Seg :
           \/ receipt.out[s].kind = "preserved" /\ ~\E m \in markers : Marks(m, receipt.run, s) /\ Binds(m)
           \/ receipt.out[s].kind = "remove" /\ \E m \in markers :
                  Marks(m, receipt.run, s) /\ (m.before # Resolved(receipt) \/ ~Binds(m))

\* A prune run, once its receipt is written, is completed or wedged: crashes, failed
\* appends and segments that come back do not, on their own, leave it pending for
\* ever.
RunCompletes == (receipt # None) ~> (receipt = None \/ Wedged)
=============================================================================
