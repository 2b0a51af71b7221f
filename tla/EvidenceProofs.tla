--------------------------- MODULE EvidenceProofs ---------------------------
(***************************************************************************)
(* What TaskEvidence promises of the evidence that OA's decisions rest on, *)
(* for any number of tasks, host processes, contents, retries and prunes.  *)
(***************************************************************************)
EXTENDS TaskEvidence, TLAPS

-----------------------------------------------------------------------------
(* The inductive invariant *)

Grounded(t) == <<t, HostContract[t]>> \in clean
\* The task a host command works on names its adapter; a probe has no task.
Contracted(h) == h.task # None => HostContract[h.task] = h.adapter

\* Past the contract check a host command runs under the task's contract, and what
\* it is about to accept has been seen to be clean.
HostSound ==
    \A p \in Proc :
        /\ host[p].pc \in {"inspect", "execute", "export"} => Contracted(host[p])
        /\ host[p].pc = "finish" /\ host[p].ok =>
              Contracted(host[p]) /\ <<host[p].task, host[p].adapter>> \in clean

\* complete has a task whose file it has found written, and the digest it submits.
LwarSound ==
    /\ lwar.pc # "idle" => lwar.task \in Task /\ lwar.attempt # 0 /\ file[lwar.task] # None
    /\ lwar.pc = "submit" => lwar.digest # None
    /\ lwar.cites => lwar.task \in Task /\ Grounded(lwar.task)

\* A grounded result is one, wherever it is.
ResultsSound ==
    \A t \in Task :
        /\ outgoing[t] # None /\ outgoing[t].status = "grounded" => Grounded(t)
        /\ entry[t].result # None /\ entry[t].result.status = "grounded" => Grounded(t)

\* A completed entry has its result, and an accepted one was grounded when accepted.
EntrySound ==
    \A t \in Task :
        /\ entry[t].status = "completed" => entry[t].result # None
        /\ entry[t].accepted => Grounded(t)

\* While prune runs nobody else writes the ledger: what it read still is what is
\* referenced, and what it is about to unlink is not.
PruneSound ==
    /\ prune.pc # "idle" => prune.referenced = ReferencedArtifacts
    /\ prune.pc = "unlink" => prune.doomed \in Content \ prune.referenced

Counted == \A t \in Task : task[t].attempt # 0

EvidenceInv ==
    /\ EvidenceTypeOK /\ Counted /\ HostGrounded /\ HostSound
    /\ LwarSound /\ ResultsSound /\ EntrySound /\ PruneSound /\ CompletedIntact

USE HostAssumption, EvidenceAssumption

-----------------------------------------------------------------------------
(* The verification of an execution accepts only a clean one *)

\* What verify_qwen_output rejects for no reason is what host-adapter.md asks for.
LEMMA QwenSound == \A v \in QwenVerdicts : v.ok => v.clean
<1>1. ASSUME NEW o \in QwenOutput, QwenReasons(o, 1) = {} PROVE QwenClean(o)
  <2>1. o.zero
    BY <1>1 DEF QwenReasons, Reason
  <2>2. o.records = "one"
    BY <1>1 DEF QwenReasons, RecordReasons, Reason, QwenOutput
  <2>3. o.success /\ o.counted
    BY <1>1, <2>2 DEF QwenReasons, Reason
  <2>4. o.usage \notin {"missing", "mismatch"} /\ o.tools \notin {"missing", "some"}
    BY <1>1, <2>2 DEF QwenReasons, Reason
  <2>5. o.requests <= 1
    BY <1>1, <2>2, <2>3 DEF QwenReasons, Reason, QwenOutput
  <2>6. o.totals # "different"
    BY <1>1, <2>2, <2>4 DEF QwenReasons, Reason
  <2>7. /\ o.usage \in {"missing", "mismatch", "exact"} /\ o.tools \in {"missing", "none", "some"}
        /\ o.requests \in 0..2
    BY DEF QwenOutput
  <2> QED  BY <2>1, <2>2, <2>3, <2>4, <2>5, <2>6, <2>7 DEF QwenClean
<1>2. ASSUME NEW v \in QwenVerdicts, v.ok PROVE v.clean
  <2>1. PICK o \in QwenOutput : v = [ok |-> QwenReasons(o, 1) = {}, clean |-> QwenClean(o)]
    BY Zenon DEF QwenVerdicts
  <2>2. v.ok = (QwenReasons(o, 1) = {}) /\ v.clean = QwenClean(o)
    BY <2>1, Zenon
  <2> QED  BY <1>1, <1>2, <2>2, Zenon
<1> QED  BY <1>2

\* A Kimi stream without a session is rejected, and so is any export but an exact one.
LEMMA KimiSound ==
    /\ \A s \in KimiStream : StreamReasons(s) = {} => s.session
    /\ \A x \in KimiExport : ExportReasons(x) = {} => x = "exact"
<1>1. ASSUME NEW s \in KimiStream, StreamReasons(s) = {} PROVE s.session
  BY <1>1 DEF StreamReasons
<1>2. ASSUME NEW x \in KimiExport, ExportReasons(x) = {} PROVE x = "exact"
  BY <1>2 DEF ExportReasons, Reason, KimiExport
<1> QED  BY <1>1, <1>2

-----------------------------------------------------------------------------
(* The host commands *)

HostInv == HostTypeOK /\ HostGrounded /\ HostSound

\* One record per process: what holds of every other process still does.
LEMMA HostMove ==
    ASSUME HostInv, NEW p \in Proc,
           NEW rec \in [pc : {"idle", "inspect", "execute", "export", "finish"},
                        task : Task \cup {None}, adapter : Adapter, live : BOOLEAN, ok : BOOLEAN],
           host' = [host EXCEPT ![p] = rec],
           clean \subseteq clean', clean' \subseteq (Task \cup {None}) \X Adapter,
           rec.pc \in {"inspect", "execute", "export"} => Contracted(rec),
           rec.pc = "finish" /\ rec.ok => Contracted(rec) /\ <<rec.task, rec.adapter>> \in clean'
    PROVE /\ HostSound'
          /\ host' \in [Proc -> [pc : {"idle", "inspect", "execute", "export", "finish"},
                                 task : Task \cup {None}, adapter : Adapter,
                                 live : BOOLEAN, ok : BOOLEAN]]
<1>1. ASSUME NEW q \in Proc
      PROVE  /\ host'[q].pc \in {"inspect", "execute", "export"} => Contracted(host'[q])
             /\ host'[q].pc = "finish" /\ host'[q].ok =>
                   Contracted(host'[q]) /\ <<host'[q].task, host'[q].adapter>> \in clean'
  <2>1. CASE q = p
    BY <2>1 DEF HostInv, HostTypeOK
  <2>2. CASE q # p
    <3>1. host'[q] = host[q]
      BY <2>2 DEF HostInv, HostTypeOK
    <3> QED  BY <3>1 DEF HostInv, HostSound
  <2> QED  BY <2>1, <2>2
<1> QED  BY <1>1 DEF HostSound, HostInv, HostTypeOK

HostRecord == [pc : {"idle", "inspect", "execute", "export", "finish"},
               task : Task \cup {None}, adapter : Adapter, live : BOOLEAN, ok : BOOLEAN]

LEMMA IdleHost == Idle \in HostRecord /\ Idle.pc = "idle"
  BY DEF Idle, HostRecord, Adapter

\* A step of one process that touches no output.
LEMMA QuietHost ==
    ASSUME HostInv, NEW p \in Proc, NEW rec \in HostRecord,
           host' = [host EXCEPT ![p] = rec], runs' \in 0..MaxRuns,
           UNCHANGED <<receipt, capability>>,
           clean \subseteq clean', clean' \subseteq (Task \cup {None}) \X Adapter,
           rec.pc \in {"inspect", "execute", "export"} => Contracted(rec),
           rec.pc = "finish" /\ rec.ok => Contracted(rec) /\ <<rec.task, rec.adapter>> \in clean'
    PROVE HostInv'
<1>1. HostSound' /\ HostTypeOK'
  BY HostMove DEF HostInv, HostTypeOK, HostRecord
<1>2. HostGrounded'
  BY DEF HostInv, HostGrounded
<1> QED  BY <1>1, <1>2 DEF HostInv

LEMMA RunTaskKeeps ==
    ASSUME HostInv, NEW p \in Proc, NEW t \in Task, NEW a \in Adapter, RunTask(p, t, a)
    PROVE HostInv' /\ clean' = clean
<1>1. PICK input \in {{}, {"input_invalid"}, {"prompt_empty"}, {"command_not_found"}} :
        host' = [host EXCEPT ![p] =
                    [pc |-> IF ContractReasons(t, a) \cup input = {} THEN "inspect" ELSE "finish",
                     task |-> t, adapter |-> a, live |-> TRUE, ok |-> FALSE]]
  BY DEF RunTask, Enter
<1> DEFINE rec == [pc |-> IF ContractReasons(t, a) \cup input = {} THEN "inspect" ELSE "finish",
                   task |-> t, adapter |-> a, live |-> TRUE, ok |-> FALSE]
<1>2. rec \in HostRecord /\ rec.task = t /\ rec.adapter = a /\ ~rec.ok
  BY DEF HostRecord
<1>3. rec.pc # "finish" => HostContract[t] = a
  BY DEF ContractReasons, Reason
<1>4. /\ runs' \in 0..MaxRuns /\ UNCHANGED <<receipt, capability, clean>>
      /\ clean \subseteq (Task \cup {None}) \X Adapter
  BY DEF RunTask, HostInv, HostTypeOK
<1> HIDE DEF rec
<1>5. host' = [host EXCEPT ![p] = rec]
  BY <1>1 DEF rec
<1> QED  BY <1>2, <1>3, <1>4, <1>5, QuietHost DEF Contracted

LEMMA ProbeKeeps ==
    ASSUME HostInv, NEW p \in Proc, NEW a \in Adapter, NEW live \in BOOLEAN, Probe(p, a, live)
    PROVE HostInv' /\ clean' = clean
<1>1. PICK found \in BOOLEAN :
        host' = [host EXCEPT ![p] = [pc |-> IF found THEN "inspect" ELSE "finish",
                                     task |-> None, adapter |-> a, live |-> live, ok |-> FALSE]]
  BY DEF Probe, Enter
<1> DEFINE rec == [pc |-> IF found THEN "inspect" ELSE "finish",
                   task |-> None, adapter |-> a, live |-> live, ok |-> FALSE]
<1>2. rec \in HostRecord /\ rec.task = None /\ ~rec.ok
  BY DEF HostRecord
<1>3. /\ runs' \in 0..MaxRuns /\ UNCHANGED <<receipt, capability, clean>>
      /\ clean \subseteq (Task \cup {None}) \X Adapter
  BY DEF Probe, HostInv, HostTypeOK
<1> HIDE DEF rec
<1>4. host' = [host EXCEPT ![p] = rec]
  BY <1>1 DEF rec
<1> QED  BY <1>2, <1>3, <1>4, QuietHost DEF Contracted

\* Goto moves a process on with its task, adapter and liveness.
LEMMA GotoKeeps ==
    ASSUME HostInv, NEW p \in Proc, NEW ok \in BOOLEAN,
           NEW to \in {"execute", "export", "finish"},
           Goto(p, to, ok), host[p].pc \in {"inspect", "execute", "export"},
           UNCHANGED <<receipt, capability, runs>>,
           clean \subseteq clean', clean' \subseteq (Task \cup {None}) \X Adapter,
           to = "finish" /\ ok => <<host[p].task, host[p].adapter>> \in clean'
    PROVE HostInv'
<1> DEFINE rec == [host[p] EXCEPT !.pc = to, !.ok = ok]
<1>1. host[p] \in HostRecord
  BY DEF HostInv, HostTypeOK, HostRecord
<1>2. /\ rec \in HostRecord /\ rec.pc = to
      /\ rec.task = host[p].task /\ rec.adapter = host[p].adapter
  BY <1>1 DEF HostRecord
<1>3. rec.ok = ok
  BY <1>1, Zenon DEF HostRecord
<1>4. host' = [host EXCEPT ![p] = rec]
  BY <1>1 DEF Goto, HostInv, HostTypeOK
<1>5. Contracted(host[p])
  BY DEF HostInv, HostSound
<1>6. Contracted(rec)
  BY <1>2, <1>5, Zenon DEF Contracted
<1>7. runs' \in 0..MaxRuns
  BY DEF HostInv, HostTypeOK
<1>8. rec.pc = "finish" /\ rec.ok => <<rec.task, rec.adapter>> \in clean'
  BY <1>2, <1>3, Zenon
<1> HIDE DEF rec
<1> QED  BY <1>2, <1>4, <1>6, <1>7, <1>8, QuietHost

LEMMA VerifiedGrows ==
    ASSUME HostInv, NEW p \in Proc, NEW ok, Verified(p, ok)
    PROVE /\ clean \subseteq clean' /\ clean' \subseteq (Task \cup {None}) \X Adapter
          /\ ok => <<host[p].task, host[p].adapter>> \in clean'
<1>1. host[p].task \in Task \cup {None} /\ host[p].adapter \in Adapter
      /\ clean \subseteq (Task \cup {None}) \X Adapter
  BY DEF HostInv, HostTypeOK
<1>2. CASE ok
  BY <1>1, <1>2 DEF Verified
<1>3. CASE ~ok
  BY <1>1, <1>3 DEF Verified
<1> QED  BY <1>2, <1>3

LEMMA HostStepKeeps ==
    ASSUME HostInv, NEW p \in Proc, HostStep(p)
    PROVE HostInv' /\ clean \subseteq clean'
<1>0. clean \subseteq (Task \cup {None}) \X Adapter
  BY DEF HostInv, HostTypeOK
<1>1. CASE Inspect(p)
  BY <1>0, <1>1, GotoKeeps DEF Inspect
<1>2. CASE ProcessFails(p)
  BY <1>0, <1>2, GotoKeeps DEF ProcessFails
<1>3. CASE ExecuteQwen(p)
  <2>1. PICK v \in QwenVerdicts : Goto(p, "finish", v.ok) /\ Verified(p, v.clean)
    BY <1>3 DEF ExecuteQwen
  <2>2. v.ok \in BOOLEAN
    <3>1. PICK o \in QwenOutput : v = [ok |-> QwenReasons(o, 1) = {}, clean |-> QwenClean(o)]
      BY Zenon DEF QwenVerdicts
    <3>2. v.ok = (QwenReasons(o, 1) = {})
      BY <3>1, Zenon
    <3> QED  BY <3>2
  <2>3. v.ok => <<host[p].task, host[p].adapter>> \in clean'
    BY <2>1, VerifiedGrows, QwenSound
  <2>4. clean \subseteq clean' /\ clean' \subseteq (Task \cup {None}) \X Adapter
    BY <2>1, VerifiedGrows
  <2>5. host[p].pc \in {"inspect", "execute", "export"} /\ UNCHANGED <<receipt, capability, runs>>
    BY <1>3 DEF ExecuteQwen
  <2> QED  BY <2>1, <2>2, <2>3, <2>4, <2>5, GotoKeeps
<1>4. CASE ExecuteKimi(p)
  <2>1. PICK s \in KimiStream :
          Goto(p, IF s.session THEN "export" ELSE "finish", StreamReasons(s) = {})
    BY <1>4 DEF ExecuteKimi
  <2>2. (IF s.session THEN "export" ELSE "finish") \in {"execute", "export", "finish"}
    OBVIOUS
  <2>3. (IF s.session THEN "export" ELSE "finish") = "finish" => StreamReasons(s) # {}
    BY KimiSound
  <2>4. /\ host[p].pc \in {"inspect", "execute", "export"}
        /\ UNCHANGED <<receipt, capability, runs, clean>>
    BY <1>4 DEF ExecuteKimi
  <2> HIDE DEF StreamReasons
  <2> QED  BY <1>0, <2>1, <2>2, <2>3, <2>4, GotoKeeps
<1>5. CASE ExportKimi(p)
  <2>1. PICK x \in KimiExport : /\ Goto(p, "finish", host[p].ok /\ ExportReasons(x) = {})
                                /\ Verified(p, host[p].ok /\ x = "exact")
    BY <1>5 DEF ExportKimi
  <2>2. host[p].ok /\ ExportReasons(x) = {} => host[p].ok /\ x = "exact"
    BY KimiSound
  <2>3. clean \subseteq clean' /\ clean' \subseteq (Task \cup {None}) \X Adapter
    BY <2>1, VerifiedGrows
  <2>4. host[p].ok /\ x = "exact" => <<host[p].task, host[p].adapter>> \in clean'
    BY <2>1, VerifiedGrows
  <2>5. host[p].pc \in {"inspect", "execute", "export"} /\ UNCHANGED <<receipt, capability, runs>>
    BY <1>5 DEF ExportKimi
  <2>6. (host[p].ok /\ ExportReasons(x) = {}) \in BOOLEAN
    OBVIOUS
  <2> QED  BY <2>1, <2>2, <2>3, <2>4, <2>5, <2>6, GotoKeeps
<1>6. CASE Finish(p)
  <2>1. host' = [host EXCEPT ![p] = Idle] /\ UNCHANGED <<runs, clean>>
    BY <1>6 DEF Finish, Leave
  <2>2. host[p].pc = "finish" /\ host[p].task \in Task \cup {None} /\ host[p].adapter \in Adapter
    BY <1>6 DEF Finish, HostInv, HostTypeOK
  <2>3. host[p].ok => Contracted(host[p]) /\ <<host[p].task, host[p].adapter>> \in clean
    BY <2>2 DEF HostInv, HostSound
  <2>4. HostSound' /\ host' \in [Proc -> HostRecord]
    BY <1>0, <2>1, HostMove, IdleHost DEF HostRecord
  <2>5. CASE host[p].task = None
    <3>1. PICK output \in BOOLEAN :
            capability' = IF ~output THEN capability
                          ELSE [capability EXCEPT ![host[p].adapter] =
                                  IF host[p].ok THEN "eligible" ELSE "ineligible"]
      BY <1>6, <2>5 DEF Finish
    <3>2. receipt' = receipt
      BY <1>6, <2>5 DEF Finish
    <3>3. \A a \in Adapter : capability'[a] = "eligible" => <<None, a>> \in clean
      BY <2>2, <2>3, <2>5, <3>1 DEF HostInv, HostTypeOK, HostGrounded
    <3>4. capability' \in [Adapter -> {"none", "eligible", "ineligible"}]
      BY <2>2, <3>1 DEF HostInv, HostTypeOK
    <3>5. HostGrounded'
      BY <2>1, <3>2, <3>3 DEF HostInv, HostGrounded
    <3> QED  BY <2>1, <2>4, <3>2, <3>4, <3>5 DEF HostInv, HostTypeOK, HostRecord
  <2>6. CASE host[p].task # None
    <3>1. /\ receipt' = [task |-> host[p].task, adapter |-> host[p].adapter, accepted |-> host[p].ok]
          /\ capability' = capability
      BY <1>6, <2>6 DEF Finish
    <3>2. host[p].ok \in BOOLEAN
      BY DEF HostInv, HostTypeOK
    <3>3. receipt'.task = host[p].task /\ receipt'.adapter = host[p].adapter
      BY <3>1
    <3>4. receipt'.accepted = host[p].ok
      BY <3>1, Zenon
    <3>5. receipt' \in [task : Task, adapter : Adapter, accepted : BOOLEAN] \cup {None}
      BY <2>2, <2>6, <3>1, <3>2
    <3>6. receipt'.accepted => /\ <<receipt'.task, receipt'.adapter>> \in clean
                               /\ HostContract[receipt'.task] = receipt'.adapter
      BY <2>3, <2>6, <3>3, <3>4, Zenon DEF Contracted
    <3>7. HostGrounded'
      BY <2>1, <3>1, <3>6 DEF HostInv, HostGrounded
    <3> QED  BY <2>1, <2>4, <3>1, <3>5, <3>7 DEF HostInv, HostTypeOK, HostRecord
  <2> QED  BY <2>1, <2>5, <2>6
<1>7. CASE HostDies(p)
  <2>1. host' = [host EXCEPT ![p] = Idle] /\ UNCHANGED <<receipt, capability, runs, clean>>
    BY <1>7 DEF HostDies, Leave
  <2>2. runs' \in 0..MaxRuns
    BY <2>1 DEF HostInv, HostTypeOK
  <2> QED  BY <1>0, <2>1, <2>2, IdleHost, QuietHost
<1> QED  BY <1>1, <1>2, <1>3, <1>4, <1>5, <1>6, <1>7 DEF HostStep

-----------------------------------------------------------------------------
(* The task and its evidence *)

LEMMA InitHolds == EvidenceInit => EvidenceInv
<1> SUFFICES ASSUME EvidenceInit PROVE EvidenceInv
  OBVIOUS
<1>1. HostTypeOK /\ HostGrounded /\ HostSound
  BY DEF EvidenceInit, HostInit, HostTypeOK, HostGrounded, HostSound, Idle, Adapter
<1>2. EvidenceTypeOK
  BY <1>1 DEF EvidenceInit, EvidenceTypeOK, NoComplete, NoPrune
<1>3. Counted /\ LwarSound /\ ResultsSound /\ EntrySound /\ PruneSound /\ CompletedIntact
  BY DEF EvidenceInit, Counted, LwarSound, ResultsSound, EntrySound, PruneSound, CompletedIntact,
         NoComplete, NoPrune
<1> QED  BY <1>1, <1>2, <1>3 DEF EvidenceInv

\* The steps of host commands.
LEMMA HostKeeps ==
    ASSUME EvidenceInv, UNCHANGED evidenceVars, HostInv', clean \subseteq clean'
    PROVE EvidenceInv'
<1>1. EvidenceTypeOK' /\ Counted'
  BY DEF EvidenceInv, EvidenceTypeOK, Counted, HostInv, evidenceVars
<1>2. \A t \in Task : Grounded(t) => Grounded(t)'
  BY DEF Grounded
<1>3. LwarSound' /\ ResultsSound' /\ EntrySound'
  BY <1>2 DEF EvidenceInv, LwarSound, ResultsSound, EntrySound, evidenceVars
<1>4. PruneSound' /\ CompletedIntact'
  BY DEF EvidenceInv, PruneSound, CompletedIntact, ReferencedArtifacts, evidenceVars
<1> QED  BY <1>1, <1>3, <1>4 DEF EvidenceInv, HostInv

\* The other steps leave the host commands and what they have verified alone.
LEMMA HostStays ==
    ASSUME EvidenceInv, UNCHANGED hostVars
    PROVE HostTypeOK' /\ HostGrounded' /\ HostSound' /\ \A t \in Task : Grounded(t)' <=> Grounded(t)
<1>1. HostTypeOK' /\ HostGrounded'
  BY DEF EvidenceInv, EvidenceTypeOK, HostTypeOK, HostGrounded, hostVars
<1>2. HostSound'
  BY DEF EvidenceInv, HostSound, hostVars
<1>3. \A t \in Task : Grounded(t)' <=> Grounded(t)
  BY DEF Grounded, hostVars
<1> QED  BY <1>1, <1>2, <1>3

\* The ledger and the store alone decide these.
LEMMA LedgerStays ==
    ASSUME EvidenceInv, UNCHANGED <<entry, prune, store, hostVars>>
    PROVE EntrySound' /\ PruneSound' /\ CompletedIntact'
<1>1. EntrySound'
  BY HostStays DEF EvidenceInv, EntrySound
<1> QED  BY <1>1 DEF EvidenceInv, PruneSound, CompletedIntact, ReferencedArtifacts

LEMMA ClaimKeeps == ASSUME EvidenceInv, NEW t \in Task, Claim(t) PROVE EvidenceInv'
<1>1. HostTypeOK' /\ HostGrounded' /\ HostSound'
  BY HostStays DEF Claim
<1>2. EvidenceTypeOK' /\ Counted'
  BY <1>1 DEF Claim, EvidenceInv, EvidenceTypeOK, Counted
<1>3. LwarSound' /\ ResultsSound'
  BY HostStays DEF Claim, EvidenceInv, LwarSound, ResultsSound
<1>4. EntrySound' /\ PruneSound' /\ CompletedIntact'
  BY LedgerStays DEF Claim
<1> QED  BY <1>1, <1>2, <1>3, <1>4 DEF EvidenceInv

LEMMA WriteFileKeeps ==
    ASSUME EvidenceInv, NEW t \in Task, NEW c \in Content, WriteFile(t, c) PROVE EvidenceInv'
<1>1. HostTypeOK' /\ HostGrounded' /\ HostSound'
  BY HostStays DEF WriteFile
<1>2. EvidenceTypeOK' /\ Counted'
  BY <1>1 DEF WriteFile, EvidenceInv, EvidenceTypeOK, Counted
<1>3. LwarSound' /\ ResultsSound'
  BY HostStays DEF WriteFile, EvidenceInv, EvidenceTypeOK, LwarSound, ResultsSound
<1>4. EntrySound' /\ PruneSound' /\ CompletedIntact'
  BY LedgerStays DEF WriteFile
<1> QED  BY <1>1, <1>2, <1>3, <1>4 DEF EvidenceInv

LEMMA CompleteStartKeeps ==
    ASSUME EvidenceInv, NEW t \in Task, CompleteStart(t) PROVE EvidenceInv'
<1>1. HostTypeOK' /\ HostGrounded' /\ HostSound'
  BY HostStays DEF CompleteStart
<1>2. CitesAccepted(t) \in BOOLEAN /\ (CitesAccepted(t) => Grounded(t))
  BY DEF CitesAccepted, Grounded, EvidenceInv, EvidenceTypeOK, HostTypeOK, HostGrounded
<1>3. EvidenceTypeOK' /\ Counted'
  BY <1>1, <1>2 DEF CompleteStart, EvidenceInv, EvidenceTypeOK, Counted
<1>4. /\ lwar'.task = t /\ lwar'.pc = "snapshot" /\ lwar'.attempt = task[t].attempt
      /\ (lwar'.cites => CitesAccepted(t))
  BY Zenon DEF CompleteStart
<1>5. LwarSound' /\ ResultsSound'
  BY <1>2, <1>4, HostStays DEF CompleteStart, EvidenceInv, Counted, LwarSound, ResultsSound
<1>6. EntrySound' /\ PruneSound' /\ CompletedIntact'
  BY LedgerStays DEF CompleteStart
<1> QED  BY <1>1, <1>3, <1>5, <1>6 DEF EvidenceInv

LEMMA SnapshotKeeps == ASSUME EvidenceInv, Snapshot PROVE EvidenceInv'
<1>1. HostTypeOK' /\ HostGrounded' /\ HostSound'
  BY HostStays DEF Snapshot
<1>2. lwar.task \in Task /\ file[lwar.task] \in Content
  BY DEF Snapshot, EvidenceInv, EvidenceTypeOK, LwarSound
<1>3. EvidenceTypeOK' /\ Counted'
  BY <1>1, <1>2 DEF Snapshot, EvidenceInv, EvidenceTypeOK, Counted
<1>4. LwarSound' /\ ResultsSound'
  BY <1>2, HostStays DEF Snapshot, EvidenceInv, EvidenceTypeOK, LwarSound, ResultsSound
<1>5. EntrySound' /\ PruneSound'
  BY HostStays DEF Snapshot, EvidenceInv, EntrySound, PruneSound, ReferencedArtifacts
<1>6. CompletedIntact'
  BY <1>2 DEF Snapshot, EvidenceInv, EvidenceTypeOK, CompletedIntact
<1> QED  BY <1>1, <1>3, <1>4, <1>5, <1>6 DEF EvidenceInv

\* What complete submits is grounded only when it cites an accepted receipt.
LEMMA SubmitKeeps == ASSUME EvidenceInv, Submit PROVE EvidenceInv'
<1>1. HostTypeOK' /\ HostGrounded' /\ HostSound'
  BY HostStays DEF Submit
<1>2. PICK status \in {"failed", IF lwar.cites THEN "grounded" ELSE "succeeded"} :
        outgoing' = [outgoing EXCEPT ![lwar.task] =
                       [attempt |-> lwar.attempt, digest |-> lwar.digest, status |-> status]]
  BY DEF Submit
<1> DEFINE r == [attempt |-> lwar.attempt, digest |-> lwar.digest, status |-> status]
<1>3. lwar.task \in Task /\ lwar.digest \in Content /\ lwar.attempt \in Nat \ {0}
  BY DEF Submit, EvidenceInv, EvidenceTypeOK, LwarSound
<1>4. r \in Result /\ (r.status = "grounded" => Grounded(lwar.task))
  BY <1>3 DEF Result, Status, EvidenceInv, LwarSound
<1> HIDE DEF r
<1>5. outgoing' = [outgoing EXCEPT ![lwar.task] = r]
  BY <1>2 DEF r
<1>6. EvidenceTypeOK' /\ Counted'
  BY <1>1, <1>3, <1>4, <1>5 DEF Submit, EvidenceInv, EvidenceTypeOK, Counted
<1>7. LwarSound'
  BY HostStays DEF Submit, EvidenceInv, EvidenceTypeOK, LwarSound
<1>8. ResultsSound'
  BY <1>3, <1>4, <1>5, HostStays DEF Submit, EvidenceInv, EvidenceTypeOK, ResultsSound
<1>9. EntrySound' /\ PruneSound' /\ CompletedIntact'
  BY LedgerStays DEF Submit
<1> QED  BY <1>1, <1>6, <1>7, <1>8, <1>9 DEF EvidenceInv

LEMMA ArchiveClaimKeeps == ASSUME EvidenceInv, ArchiveClaim PROVE EvidenceInv'
<1>1. HostTypeOK' /\ HostGrounded' /\ HostSound'
  BY HostStays DEF ArchiveClaim
<1>2. lwar.task \in Task
  BY DEF ArchiveClaim, EvidenceInv, LwarSound
<1>3. EvidenceTypeOK' /\ Counted'
  BY <1>1, <1>2 DEF ArchiveClaim, EvidenceInv, EvidenceTypeOK, Counted, NoComplete
<1>4. LwarSound' /\ ResultsSound'
  BY HostStays DEF ArchiveClaim, EvidenceInv, LwarSound, ResultsSound, NoComplete
<1>5. EntrySound' /\ PruneSound' /\ CompletedIntact'
  BY LedgerStays DEF ArchiveClaim
<1> QED  BY <1>1, <1>3, <1>4, <1>5 DEF EvidenceInv

LEMMA CompleteDiesKeeps == ASSUME EvidenceInv, CompleteDies PROVE EvidenceInv'
<1>1. HostTypeOK' /\ HostGrounded' /\ HostSound'
  BY HostStays DEF CompleteDies
<1>2. EvidenceTypeOK' /\ Counted'
  BY <1>1 DEF CompleteDies, EvidenceInv, EvidenceTypeOK, Counted, NoComplete
<1>3. LwarSound' /\ ResultsSound'
  BY HostStays DEF CompleteDies, EvidenceInv, LwarSound, ResultsSound, NoComplete
<1>4. EntrySound' /\ PruneSound' /\ CompletedIntact'
  BY LedgerStays DEF CompleteDies
<1> QED  BY <1>1, <1>2, <1>3, <1>4 DEF EvidenceInv

-----------------------------------------------------------------------------
(* OA's commands *)

EntryRecord == [status : {"none", "published", "requeued", "completed", "dead"},
                attempt : Nat, result : Result \cup {None}, accepted : BOOLEAN]

\* A command writes one entry: it is sound when what it is written from is.
LEMMA EntryMove ==
    ASSUME EvidenceInv, NEW t \in Task, NEW e \in EntryRecord,
           entry' = [entry EXCEPT ![t] = e],
           prune.pc = "idle", UNCHANGED <<hostVars, store, prune>>,
           e.status = "completed" => e.result # None,
           e.accepted => Grounded(t),
           e.result # None => /\ store[e.result.digest] # "absent"
                              /\ e.result.status = "grounded" => Grounded(t)
    PROVE /\ entry' \in [Task -> EntryRecord]
          /\ EntrySound' /\ PruneSound' /\ CompletedIntact'
          /\ \A u \in Task :
                entry'[u].result # None /\ entry'[u].result.status = "grounded" => Grounded(u)'
<1>1. entry \in [Task -> EntryRecord]
  BY DEF EvidenceInv, EvidenceTypeOK, EntryRecord
<1>2. entry' \in [Task -> EntryRecord]
  BY <1>1
<1>3. ASSUME NEW u \in Task
      PROVE  /\ entry'[u].status = "completed" => entry'[u].result # None
             /\ entry'[u].accepted => Grounded(u)'
             /\ entry'[u].result # None =>
                  /\ store[entry'[u].result.digest] # "absent"
                  /\ entry'[u].result.status = "grounded" => Grounded(u)'
  <2>1. CASE u = t
    <3>1. entry'[u] = e /\ (Grounded(u)' <=> Grounded(t))
      BY <1>1, <2>1, HostStays
    <3> QED  BY <3>1
  <2>2. CASE u # t
    <3>1. entry'[u] = entry[u] /\ (Grounded(u)' <=> Grounded(u))
      BY <1>1, <2>2, HostStays
    <3> QED  BY <3>1 DEF EvidenceInv, EntrySound, ResultsSound, CompletedIntact
  <2> QED  BY <2>1, <2>2
<1>4. EntrySound' /\ CompletedIntact'
  BY <1>3 DEF EntrySound, CompletedIntact
<1>5. PruneSound'
  BY DEF EvidenceInv, PruneSound
<1> QED  BY <1>2, <1>3, <1>4, <1>5

LEMMA EntryHas ==
    ASSUME EvidenceInv, NEW t \in Task
    PROVE /\ entry[t] \in EntryRecord
          /\ entry[t].status = "completed" => entry[t].result # None
          /\ entry[t].accepted => Grounded(t)
          /\ entry[t].result # None => /\ store[entry[t].result.digest] # "absent"
                                       /\ entry[t].result.status = "grounded" => Grounded(t)
  BY DEF EvidenceInv, EvidenceTypeOK, EntryRecord, EntrySound, ResultsSound, CompletedIntact

LEMMA SendKeeps == ASSUME EvidenceInv, NEW t \in Task, Send(t) PROVE EvidenceInv'
<1>1. HostTypeOK' /\ HostGrounded' /\ HostSound'
  BY HostStays DEF Send
<1> DEFINE e == [entry[t] EXCEPT !.status = "published"]
<1>2. e \in EntryRecord /\ e.status = "published" /\ e.result = entry[t].result
  BY EntryHas DEF EntryRecord
<1>3. e.accepted = entry[t].accepted
  BY EntryHas, Zenon DEF EntryRecord
<1>4. entry' = [entry EXCEPT ![t] = e]
  BY DEF Send
<1> HIDE DEF e
<1>5. /\ entry' \in [Task -> EntryRecord] /\ EntrySound' /\ PruneSound' /\ CompletedIntact'
      /\ \A u \in Task :
            entry'[u].result # None /\ entry'[u].result.status = "grounded" => Grounded(u)'
  <2>1. e.accepted => Grounded(t)
    BY <1>3, EntryHas, Zenon
  <2>2. prune.pc = "idle" /\ UNCHANGED <<hostVars, store, prune>>
    BY DEF Send
  <2> QED  BY <1>2, <1>4, <2>1, <2>2, EntryHas, EntryMove
<1>6. task' = [task EXCEPT ![t].at = "incoming"]
      /\ UNCHANGED <<hostVars, file, store, lwar, outgoing, prune, spent>>
  BY DEF Send
<1>7. EvidenceTypeOK' /\ Counted'
  BY <1>1, <1>5, <1>6 DEF EvidenceInv, EvidenceTypeOK, EntryRecord, Counted
<1>8. LwarSound' /\ ResultsSound'
  BY <1>5, <1>6, HostStays DEF EvidenceInv, LwarSound, ResultsSound
<1> QED  BY <1>1, <1>5, <1>7, <1>8 DEF EvidenceInv

\* collect records a result only while its snapshot is there, and prune is not.
LEMMA CollectKeeps == ASSUME EvidenceInv, NEW t \in Task, Collect(t) PROVE EvidenceInv'
<1> DEFINE r == outgoing[t]
           reject == \/ r.attempt # entry[t].attempt
                     \/ ~Provenance(t, r) \/ ~ArtifactVerified(r)
                     \/ entry[t].status = "completed" /\ entry[t].result # r
<1>1. HostTypeOK' /\ HostGrounded' /\ HostSound'
  BY HostStays DEF Collect
<1>2. r \in Result /\ r # None /\ (r.status = "grounded" => Grounded(t))
  BY DEF Collect, EvidenceInv, EvidenceTypeOK, ResultsSound
<1>3. prune.pc = "idle" /\ UNCHANGED <<hostVars, task, file, store, lwar, prune, spent>>
  BY DEF Collect
<1>4. \/ outgoing' = [outgoing EXCEPT ![t] = None]
      \/ outgoing' = outgoing
  BY DEF Collect
<1>5. CASE reject
  <2>1. entry' = entry
    BY <1>5 DEF Collect
  <2>2. EvidenceTypeOK' /\ Counted'
    BY <1>1, <1>3, <1>4, <2>1 DEF EvidenceInv, EvidenceTypeOK, Counted
  <2>3. LwarSound' /\ ResultsSound'
    BY <1>3, <1>4, <2>1, HostStays DEF EvidenceInv, EvidenceTypeOK, LwarSound, ResultsSound
  <2>4. EntrySound' /\ PruneSound' /\ CompletedIntact'
    BY <1>3, <2>1, LedgerStays
  <2> QED  BY <1>1, <2>2, <2>3, <2>4 DEF EvidenceInv
<1>6. CASE ~reject
  <2> DEFINE e == [entry[t] EXCEPT !.status = "completed", !.result = r]
  <2>1. entry' = [entry EXCEPT ![t] = e]
    BY <1>6 DEF Collect
  <2>2. store[r.digest] # "absent"
    BY <1>6 DEF ArtifactVerified
  <2> HIDE DEF r
  <2>3. e \in EntryRecord /\ e.status = "completed" /\ e.result = r
    BY <1>2, EntryHas DEF EntryRecord
  <2>4. e.accepted = entry[t].accepted
    BY EntryHas, Zenon DEF EntryRecord
  <2>5. e.accepted => Grounded(t)
    BY <2>4, EntryHas, Zenon
  <2> HIDE DEF e
  <2>6. /\ entry' \in [Task -> EntryRecord] /\ EntrySound' /\ PruneSound' /\ CompletedIntact'
        /\ \A u \in Task :
              entry'[u].result # None /\ entry'[u].result.status = "grounded" => Grounded(u)'
    BY <1>2, <1>3, <2>1, <2>2, <2>3, <2>5, EntryMove
  <2>7. EvidenceTypeOK' /\ Counted'
    BY <1>1, <1>3, <1>4, <2>6 DEF EvidenceInv, EvidenceTypeOK, EntryRecord, Counted
  <2>8. LwarSound' /\ ResultsSound'
    BY <1>3, <1>4, <2>6, HostStays DEF EvidenceInv, EvidenceTypeOK, LwarSound, ResultsSound
  <2> QED  BY <1>1, <2>6, <2>7, <2>8 DEF EvidenceInv
<1> QED  BY <1>5, <1>6

\* recover leaves the recorded result and its validation alone.
LEMMA RecoverKeeps == ASSUME EvidenceInv, NEW t \in Task, Recover(t) PROVE EvidenceInv'
<1> DEFINE attempt == task[t].attempt + 1
           buried == [entry[t] EXCEPT !.status = "dead"]
           requeued == [entry[t] EXCEPT !.status = "requeued", !.attempt = attempt]
<1>1. HostTypeOK' /\ HostGrounded' /\ HostSound'
  BY HostStays DEF Recover
<1>2. prune.pc = "idle" /\ UNCHANGED <<hostVars, file, store, lwar, outgoing, prune, spent>>
  BY DEF Recover
<1>3. PICK e \in {entry[t], buried, requeued} : entry' = [entry EXCEPT ![t] = e]
  <2>1. entry \in [Task -> EntryRecord]
    BY DEF EvidenceInv, EvidenceTypeOK, EntryRecord
  <2>2. \/ entry' = entry
        \/ entry' = [entry EXCEPT ![t].status = "dead"]
        \/ entry' = [entry EXCEPT ![t].status = "requeued", ![t].attempt = attempt]
    BY DEF Recover
  <2>3. CASE entry' = entry
    BY <2>1, <2>3
  <2>4. CASE entry' = [entry EXCEPT ![t].status = "dead"]
    BY <2>4
  <2>5. CASE entry' = [entry EXCEPT ![t].status = "requeued", ![t].attempt = attempt]
    BY <2>5
  <2> QED  BY <2>2, <2>3, <2>4, <2>5
<1>4. attempt \in Nat \ {0}
  BY DEF EvidenceInv, EvidenceTypeOK
<1>5. \/ task' = [task EXCEPT ![t].at = "gone"]
      \/ task' = [task EXCEPT ![t] = [at |-> "incoming", attempt |-> attempt]]
  BY DEF Recover
<1> HIDE DEF attempt
<1>6. /\ e \in EntryRecord /\ e.result = entry[t].result
      /\ (e.status = "completed" => entry[t].status = "completed")
  BY <1>3, <1>4, EntryHas DEF EntryRecord
<1>7. e.accepted = entry[t].accepted
  BY <1>3, EntryHas, Zenon DEF EntryRecord
<1>8. e.accepted => Grounded(t)
  BY <1>7, EntryHas, Zenon
<1>9. /\ entry' \in [Task -> EntryRecord] /\ EntrySound' /\ PruneSound' /\ CompletedIntact'
      /\ \A u \in Task :
            entry'[u].result # None /\ entry'[u].result.status = "grounded" => Grounded(u)'
  BY <1>2, <1>3, <1>6, <1>8, EntryHas, EntryMove
<1>10. EvidenceTypeOK' /\ Counted'
  <2> DEFINE Place == [at : {"unsent", "incoming", "claimed", "archived", "gone"}, attempt : Nat]
  <2>1. task \in [Task -> Place] /\ Counted
    BY DEF EvidenceInv, EvidenceTypeOK
  <2>2. CASE task' = [task EXCEPT ![t].at = "gone"]
    <3>1. task' \in [Task -> Place] /\ Counted'
      BY <2>1, <2>2 DEF Counted
    <3> QED  BY <1>1, <1>2, <1>9, <3>1 DEF EvidenceInv, EvidenceTypeOK, EntryRecord
  <2>3. CASE task' = [task EXCEPT ![t] = [at |-> "incoming", attempt |-> attempt]]
    <3>1. task' \in [Task -> Place] /\ Counted'
      BY <1>4, <2>1, <2>3 DEF Counted
    <3> QED  BY <1>1, <1>2, <1>9, <3>1 DEF EvidenceInv, EvidenceTypeOK, EntryRecord
  <2> QED  BY <1>5, <2>2, <2>3
<1>11. LwarSound' /\ ResultsSound'
  BY <1>2, <1>9, HostStays DEF EvidenceInv, LwarSound, ResultsSound
<1> QED  BY <1>1, <1>9, <1>10, <1>11 DEF EvidenceInv

LEMMA ValidateKeeps ==
    ASSUME EvidenceInv, NEW t \in Task, NEW accepted \in BOOLEAN, Validate(t, accepted)
    PROVE EvidenceInv'
<1> DEFINE e == [entry[t] EXCEPT !.accepted = accepted]
<1>1. HostTypeOK' /\ HostGrounded' /\ HostSound'
  BY HostStays DEF Validate
<1>2. /\ prune.pc = "idle" /\ entry' = [entry EXCEPT ![t] = e]
      /\ UNCHANGED <<hostVars, task, file, store, lwar, outgoing, prune, spent>>
  BY DEF Validate
<1>3. accepted => Grounded(t)
  BY DEF Validate, EvidenceInv, EntrySound, ResultsSound
<1>4. e \in EntryRecord /\ e.status = entry[t].status /\ e.result = entry[t].result
  BY EntryHas DEF EntryRecord
<1>5. e.accepted = accepted
  BY EntryHas, Zenon DEF EntryRecord
<1>6. e.accepted => Grounded(t)
  BY <1>3, <1>5, Zenon
<1> HIDE DEF e
<1>7. /\ entry' \in [Task -> EntryRecord] /\ EntrySound' /\ PruneSound' /\ CompletedIntact'
      /\ \A u \in Task :
            entry'[u].result # None /\ entry'[u].result.status = "grounded" => Grounded(u)'
  BY <1>2, <1>4, <1>6, EntryHas, EntryMove
<1>8. EvidenceTypeOK' /\ Counted'
  BY <1>1, <1>2, <1>7 DEF EvidenceInv, EvidenceTypeOK, EntryRecord, Counted
<1>9. LwarSound' /\ ResultsSound'
  BY <1>2, <1>7, HostStays DEF EvidenceInv, LwarSound, ResultsSound
<1> QED  BY <1>1, <1>7, <1>8, <1>9 DEF EvidenceInv

LEMMA PruneStartKeeps == ASSUME EvidenceInv, PruneStart PROVE EvidenceInv'
<1>1. HostTypeOK' /\ HostGrounded' /\ HostSound'
  BY HostStays DEF PruneStart
<1>2. PICK old \in SUBSET {t \in Task : task[t].at = "archived"} :
        task' = [t \in Task |-> IF t \in old THEN [task[t] EXCEPT !.at = "gone"] ELSE task[t]]
  BY DEF PruneStart
<1>3. ReferencedArtifacts \subseteq Content
  BY DEF ReferencedArtifacts, EvidenceInv, EvidenceTypeOK, Result
<1>4. \A t \in Task : task'[t].attempt = task[t].attempt
                      /\ task'[t] \in [at : {"unsent", "incoming", "claimed", "archived", "gone"},
                                       attempt : Nat]
  BY <1>2 DEF EvidenceInv, EvidenceTypeOK
<1>5. Counted' /\ task' \in [Task -> [at : {"unsent", "incoming", "claimed", "archived", "gone"},
                                     attempt : Nat]]
  BY <1>2, <1>4 DEF EvidenceInv, Counted
<1>8. EvidenceTypeOK'
  <2>1. spent' \in [completes : 0..MaxCompletes, prunes : 0..MaxPrunes]
    BY DEF PruneStart, EvidenceInv, EvidenceTypeOK
  <2>2. prune' \in [pc : {"idle", "stat", "unlink"}, referenced : SUBSET Content,
                   todo : SUBSET Content, doomed : Content \cup {None}]
    BY <1>3 DEF PruneStart
  <2> QED  BY <1>1, <1>5, <2>1, <2>2 DEF PruneStart, EvidenceInv, EvidenceTypeOK
<1>6. LwarSound' /\ ResultsSound' /\ EntrySound'
  BY HostStays DEF PruneStart, EvidenceInv, LwarSound, ResultsSound, EntrySound
<1>7. PruneSound' /\ CompletedIntact'
  BY DEF PruneStart, EvidenceInv, PruneSound, CompletedIntact, ReferencedArtifacts
<1> QED  BY <1>1, <1>5, <1>6, <1>7, <1>8 DEF EvidenceInv

\* What is listed and not referenced may go; what is referenced never becomes doomed.
LEMMA PruneStatKeeps ==
    ASSUME EvidenceInv, NEW c \in Content, PruneStat(c) PROVE EvidenceInv'
<1>1. HostTypeOK' /\ HostGrounded' /\ HostSound'
  BY HostStays DEF PruneStat
<1>2. EvidenceTypeOK' /\ Counted'
  BY <1>1 DEF PruneStat, EvidenceInv, EvidenceTypeOK, Counted
<1>3. LwarSound' /\ ResultsSound' /\ EntrySound'
  BY HostStays DEF PruneStat, EvidenceInv, LwarSound, ResultsSound, EntrySound
<1>4. PruneSound' /\ CompletedIntact'
  BY DEF PruneStat, EvidenceInv, EvidenceTypeOK, PruneSound, CompletedIntact, ReferencedArtifacts
<1> QED  BY <1>1, <1>2, <1>3, <1>4 DEF EvidenceInv

\* What is unlinked is no snapshot of a result.
LEMMA PruneUnlinkKeeps == ASSUME EvidenceInv, PruneUnlink PROVE EvidenceInv'
<1>1. HostTypeOK' /\ HostGrounded' /\ HostSound'
  BY HostStays DEF PruneUnlink
<1>2. EvidenceTypeOK' /\ Counted'
  BY <1>1 DEF PruneUnlink, EvidenceInv, EvidenceTypeOK, Counted
<1>3. LwarSound' /\ ResultsSound' /\ EntrySound'
  BY HostStays DEF PruneUnlink, EvidenceInv, LwarSound, ResultsSound, EntrySound
<1>4. PruneSound'
  BY DEF PruneUnlink, EvidenceInv, EvidenceTypeOK, PruneSound, ReferencedArtifacts
<1>5. ASSUME NEW t \in Task, entry[t].result # None PROVE store'[entry[t].result.digest] # "absent"
  <2>1. entry[t].result.digest \in prune.referenced /\ entry[t].result.digest \in Content
    BY <1>5 DEF PruneUnlink, EvidenceInv, EvidenceTypeOK, PruneSound, ReferencedArtifacts, Result
  <2>2. prune.doomed \in Content /\ prune.doomed # entry[t].result.digest
    BY <2>1 DEF PruneUnlink, EvidenceInv, PruneSound
  <2> QED  BY <1>5, <2>1, <2>2 DEF PruneUnlink, EvidenceInv, EvidenceTypeOK, CompletedIntact
<1>6. CompletedIntact'
  BY <1>5 DEF PruneUnlink, CompletedIntact
<1> QED  BY <1>1, <1>2, <1>3, <1>4, <1>6 DEF EvidenceInv

LEMMA PruneEndKeeps == ASSUME EvidenceInv, PruneEnd PROVE EvidenceInv'
<1>1. HostTypeOK' /\ HostGrounded' /\ HostSound'
  BY HostStays DEF PruneEnd
<1>2. EvidenceTypeOK' /\ Counted'
  BY <1>1 DEF PruneEnd, EvidenceInv, EvidenceTypeOK, Counted, NoPrune
<1>3. LwarSound' /\ ResultsSound' /\ EntrySound'
  BY HostStays DEF PruneEnd, EvidenceInv, LwarSound, ResultsSound, EntrySound
<1>4. PruneSound' /\ CompletedIntact'
  BY DEF PruneEnd, EvidenceInv, PruneSound, CompletedIntact, NoPrune
<1> QED  BY <1>1, <1>2, <1>3, <1>4 DEF EvidenceInv

LEMMA AgeKeeps == ASSUME EvidenceInv, NEW c \in Content, Age(c) PROVE EvidenceInv'
<1>1. HostTypeOK' /\ HostGrounded' /\ HostSound'
  BY HostStays DEF Age
<1>2. EvidenceTypeOK' /\ Counted'
  BY <1>1 DEF Age, EvidenceInv, EvidenceTypeOK, Counted
<1>3. LwarSound' /\ ResultsSound' /\ EntrySound'
  BY HostStays DEF Age, EvidenceInv, LwarSound, ResultsSound, EntrySound
<1>4. PruneSound' /\ CompletedIntact'
  BY DEF Age, EvidenceInv, EvidenceTypeOK, PruneSound, CompletedIntact, ReferencedArtifacts
<1> QED  BY <1>1, <1>2, <1>3, <1>4 DEF EvidenceInv

-----------------------------------------------------------------------------
(* The theorems *)

LEMMA LwarStepKeeps == ASSUME EvidenceInv, LwarStep PROVE EvidenceInv'
<1>0. HostInv
  BY DEF EvidenceInv, EvidenceTypeOK, HostInv
<1>1. CASE HostRuns
  BY <1>0, <1>1, HostStepKeeps, HostKeeps DEF HostRuns
<1>2. CASE ProbeHost
  BY <1>0, <1>2, ProbeKeeps, HostKeeps DEF ProbeHost
<1>3. ASSUME NEW t \in Task, Execute(t) PROVE EvidenceInv'
  BY <1>0, <1>3, RunTaskKeeps, HostKeeps DEF Execute
<1>4. ASSUME NEW t \in Task, Claim(t) \/ CompleteStart(t) PROVE EvidenceInv'
  BY <1>4, ClaimKeeps, CompleteStartKeeps
<1>5. ASSUME NEW t \in Task, NEW c \in Content, WriteFile(t, c) PROVE EvidenceInv'
  BY <1>5, WriteFileKeeps
<1>6. CASE Snapshot \/ Submit \/ ArchiveClaim \/ CompleteDies
  BY <1>6, SnapshotKeeps, SubmitKeeps, ArchiveClaimKeeps, CompleteDiesKeeps
<1> QED  BY <1>1, <1>2, <1>3, <1>4, <1>5, <1>6 DEF LwarStep

LEMMA OaStepKeeps == ASSUME EvidenceInv, OaStep PROVE EvidenceInv'
<1>1. ASSUME NEW t \in Task, Send(t) \/ Collect(t) \/ Recover(t) PROVE EvidenceInv'
  BY <1>1, SendKeeps, CollectKeeps, RecoverKeeps
<1>2. ASSUME NEW t \in Task, NEW accepted \in BOOLEAN, Validate(t, accepted) PROVE EvidenceInv'
  BY <1>2, ValidateKeeps
<1>3. CASE PruneStart \/ PruneUnlink \/ PruneEnd
  BY <1>3, PruneStartKeeps, PruneUnlinkKeeps, PruneEndKeeps
<1>4. ASSUME NEW c \in Content, PruneStat(c) PROVE EvidenceInv'
  BY <1>4, PruneStatKeeps
<1> QED  BY <1>1, <1>2, <1>3, <1>4 DEF OaStep

LEMMA StutterKeeps == ASSUME EvidenceInv, UNCHANGED allVars PROVE EvidenceInv'
<1>1. HostTypeOK' /\ HostGrounded' /\ HostSound'
  BY HostStays DEF allVars
<1>2. EvidenceTypeOK' /\ Counted'
  BY <1>1 DEF EvidenceInv, EvidenceTypeOK, Counted, allVars, evidenceVars
<1>3. LwarSound' /\ ResultsSound'
  BY HostStays DEF EvidenceInv, LwarSound, ResultsSound, allVars, evidenceVars
<1>4. EntrySound' /\ PruneSound' /\ CompletedIntact'
  BY LedgerStays DEF allVars, evidenceVars
<1> QED  BY <1>1, <1>2, <1>3, <1>4 DEF EvidenceInv

\* The invariant holds of every reachable state, whatever host command, complete,
\* collect, recover and prune do to each other.
THEOREM EvidenceInvariance == EvidenceSpec => []EvidenceInv
<1>1. EvidenceInv /\ [EvidenceNext]_allVars => EvidenceInv'
  <2> SUFFICES ASSUME EvidenceInv, [EvidenceNext]_allVars PROVE EvidenceInv'
    OBVIOUS
  <2> QED  BY LwarStepKeeps, OaStepKeeps, AgeKeeps, StutterKeeps DEF EvidenceNext
<1> QED  BY InitHolds, <1>1, PTL DEF EvidenceSpec

\* The snapshot of a result in the ledger is never lost to prune: nothing that
\* referenced_artifacts has not read is recorded before prune ends, and collect
\* records nothing whose snapshot is gone.
THEOREM SnapshotsStay == EvidenceSpec => []CompletedIntact
<1>1. EvidenceInv => CompletedIntact
  BY DEF EvidenceInv
<1> QED  BY EvidenceInvariance, <1>1, PTL

\* What OA accepts goes back to a clean execution of the same task under its own
\* contract, for any number of host commands that share the receipt path.
THEOREM AcceptanceIsGrounded == EvidenceSpec => []EvidenceStands
<1>1. EvidenceInv => EvidenceStands
  BY DEF EvidenceInv, EvidenceStands, EntrySound, DependencySatisfied, Grounded
<1> QED  BY EvidenceInvariance, <1>1, PTL
=============================================================================
