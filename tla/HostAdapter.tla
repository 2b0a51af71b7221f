---------------------------- MODULE HostAdapter ----------------------------
(***************************************************************************)
(* pao_runtime/host_adapter.py: the supervisor that runs a provider CLI    *)
(* under a host contract (no tool call, exact token telemetry, at most one *)
(* provider call) and writes a receipt, or a capability for a probe.  One  *)
(* receipt path and one capability path per adapter are shared by all      *)
(* processes, as an LWAR that re-runs the command after a lost tool call   *)
(* shares them.  A provider's output is abstracted to the features that    *)
(* the verification tells apart; the error texts and hashes are left out.  *)
(***************************************************************************)
EXTENDS Naturals, FiniteSets

CONSTANTS
    Task, Proc,
    None,
    HostContract,   \* the adapter named in each task's host_contract, or "drifted"
    MaxRuns         \* bound: host commands started

Adapter == {"qwen", "kimi"}

ASSUME HostAssumption ==
    /\ None \notin Task
    /\ HostContract \in [Task -> Adapter \cup {"drifted"}]
    /\ MaxRuns \in Nat

VARIABLES
    host,        \* what each host command is doing
    receipt,     \* the receipt file: None or what was last written there
    capability,  \* the capability file of each adapter
    runs,        \* host commands started
    clean        \* history: the verified executions, as <<task or None, adapter>>
hostVars == <<host, receipt, capability, runs, clean>>

Idle == [pc |-> "idle", task |-> None, adapter |-> "qwen", live |-> FALSE, ok |-> FALSE]

HostInit ==
    /\ host = [p \in Proc |-> Idle]
    /\ receipt = None
    /\ capability = [a \in Adapter |-> "none"]
    /\ runs = 0
    /\ clean = {}

HostTypeOK ==
    /\ host \in [Proc -> [pc : {"idle", "inspect", "execute", "export", "finish"},
                          task : Task \cup {None}, adapter : Adapter,
                          live : BOOLEAN, ok : BOOLEAN]]
    /\ receipt \in [task : Task, adapter : Adapter, accepted : BOOLEAN] \cup {None}
    /\ capability \in [Adapter -> {"none", "eligible", "ineligible"}]
    /\ runs \in 0..MaxRuns
    /\ clean \subseteq (Task \cup {None}) \X Adapter

-----------------------------------------------------------------------------
(* What a provider may return, and the reason codes that reject it *)

Reason(code, holds) == IF holds THEN {code} ELSE {}

\* One Qwen process output. requests counts provider calls when counted is TRUE.
QwenOutput ==
    [zero : BOOLEAN, records : {"malformed", "none", "one", "two"}, success : BOOLEAN,
     usage : {"missing", "mismatch", "exact"}, tools : {"missing", "none", "some"},
     counted : BOOLEAN, requests : 0..2, totals : {"absent", "equal", "different"}]

\* Without exactly one terminal record nothing else of the output is looked at.
RecordReasons(o) ==
    Reason("invalid_json_output", o.records = "malformed") \cup
    Reason("terminal_result_count_invalid", o.records \in {"none", "two"})

\* verify_qwen_output.
QwenReasons(o, limit) ==
    Reason("host_process_nonzero", ~o.zero) \cup
    IF o.records # "one" THEN RecordReasons(o)
    ELSE Reason("terminal_result_not_success", ~o.success) \cup
         Reason("exact_token_telemetry_missing", o.usage = "missing") \cup
         Reason("token_total_mismatch", o.usage = "mismatch") \cup
         Reason("tool_telemetry_missing", o.tools = "missing") \cup
         Reason("tool_call_observed", o.tools = "some") \cup
         Reason("provider_call_telemetry_missing", ~o.counted) \cup
         Reason("provider_call_limit_exceeded", o.counted /\ o.requests > limit) \cup
         Reason("provider_token_total_mismatch",
                o.usage # "missing" /\ o.totals = "different")

\* What references/host-adapter.md asks of a Qwen execution, for the history only:
\* no tool call, exact consistent tokens, at most one provider call, a clean end.
QwenClean(o) ==
    /\ o.zero /\ o.records = "one" /\ o.success
    /\ o.usage = "exact" /\ o.totals # "different"
    /\ o.tools = "none"
    /\ o.counted /\ o.requests \in {0, 1}

\* What the verification makes of the outputs, under max_provider_calls = 1.
QwenVerdicts == {[ok |-> QwenReasons(o, 1) = {}, clean |-> QwenClean(o)] : o \in QwenOutput}

\* The event stream of one Kimi process: the tool signals of roles, types and
\* content parts, the joined text, the session printed at the end.
KimiStream == [zero : BOOLEAN, tool : BOOLEAN, answer : BOOLEAN, session : BOOLEAN]
StreamReasons(s) ==
    Reason("host_process_nonzero", ~s.zero) \cup
    Reason("tool_call_observed", s.tool) \cup
    Reason("empty_answer", ~s.answer) \cup
    (IF s.session THEN {} ELSE {"session_id_missing", "exact_token_telemetry_missing"})

\* The export of the session's wire log: the latest non-empty token usage in it.
KimiExport == {"failed", "unreadable", "no_usage", "bad_component", "unclassified", "exact"}
ExportReasons(x) ==
    Reason("telemetry_export_failed", x \in {"failed", "unreadable"}) \cup
    Reason("exact_token_telemetry_missing", x \in {"no_usage", "bad_component"}) \cup
    Reason("unclassified_token_component", x = "unclassified")

-----------------------------------------------------------------------------
(* A host command, step by step *)

Enter(p, rec) == host' = [host EXCEPT ![p] = rec]
Goto(p, pc, ok) == host' = [host EXCEPT ![p].pc = pc, ![p].ok = ok]
Leave(p) == host' = [host EXCEPT ![p] = Idle]

\* _host_requirement: the task must name this adapter and exactly its policy.
ContractReasons(t, a) == Reason("host_contract_mismatch", HostContract[t] # a)

\* command_run up to the inspection; an unreadable or empty input, or a command
\* that does not resolve, may reject the run as well.
RunTask(p, t, a) ==
    /\ host[p].pc = "idle" /\ runs < MaxRuns
    /\ \E input \in {{}, {"input_invalid"}, {"prompt_empty"}, {"command_not_found"}} :
         LET reasons == ContractReasons(t, a) \cup input
         IN  Enter(p, [pc |-> IF reasons = {} THEN "inspect" ELSE "finish",
                       task |-> t, adapter |-> a, live |-> TRUE, ok |-> FALSE])
    /\ runs' = runs + 1
    /\ UNCHANGED <<receipt, capability, clean>>

\* command_probe: no task and no contract; the live execution only when asked.
Probe(p, a, live) ==
    /\ host[p].pc = "idle" /\ runs < MaxRuns
    /\ \E found \in BOOLEAN :
         Enter(p, [pc |-> IF found THEN "inspect" ELSE "finish",
                   task |-> None, adapter |-> a, live |-> live, ok |-> FALSE])
    /\ runs' = runs + 1
    /\ UNCHANGED <<receipt, capability, clean>>

\* _static_inspection: version, help and the required flags, each of which may fail.
Inspect(p) ==
    /\ host[p].pc = "inspect"
    /\ \E reasons \in SUBSET {"version_probe_failed", "help_probe_failed", "required_flags_missing"} :
         Goto(p, IF reasons = {} /\ host[p].live THEN "execute" ELSE "finish", FALSE)
    /\ UNCHANGED <<receipt, capability, runs, clean>>

\* The provider process times out or does not start, at any of its invocations.
ProcessFails(p) ==
    /\ host[p].pc \in {"inspect", "execute", "export"}
    /\ Goto(p, "finish", FALSE)
    /\ UNCHANGED <<receipt, capability, runs, clean>>

Verified(p, ok) == clean' = IF ok THEN clean \cup {<<host[p].task, host[p].adapter>>} ELSE clean

ExecuteQwen(p) ==
    /\ host[p].pc = "execute" /\ host[p].adapter = "qwen"
    /\ \E v \in QwenVerdicts : Goto(p, "finish", v.ok) /\ Verified(p, v.clean)
    /\ UNCHANGED <<receipt, capability, runs>>

\* The stream of an execution with a session is followed by the export of that
\* session, whatever the stream's own reasons.
ExecuteKimi(p) ==
    /\ host[p].pc = "execute" /\ host[p].adapter = "kimi"
    /\ \E s \in KimiStream :
         Goto(p, IF s.session THEN "export" ELSE "finish", StreamReasons(s) = {})
    /\ UNCHANGED <<receipt, capability, runs, clean>>

\* mutant: a failed export does not add to the reasons
ExportKimiIgnored(p) ==
    /\ host[p].pc = "export"
    /\ \E x \in KimiExport :
         /\ Goto(p, "finish", host[p].ok)
         /\ Verified(p, host[p].ok /\ x = "exact")
    /\ UNCHANGED <<receipt, capability, runs>>
ExportKimi(p) ==
    /\ host[p].pc = "export"
    /\ \E x \in KimiExport :
         /\ Goto(p, "finish", host[p].ok /\ ExportReasons(x) = {})
         /\ Verified(p, host[p].ok /\ x = "exact")
    /\ UNCHANGED <<receipt, capability, runs>>

\* The end of both commands: one atomic write; exit 0 when accepted, 4 otherwise.
Finish(p) ==
    /\ host[p].pc = "finish"
    /\ IF host[p].task = None
       THEN /\ \E output \in BOOLEAN :
                 capability' = IF ~output THEN capability
                               ELSE [capability EXCEPT ![host[p].adapter] =
                                       IF host[p].ok THEN "eligible" ELSE "ineligible"]
            /\ UNCHANGED receipt
       ELSE /\ receipt' = [task |-> host[p].task, adapter |-> host[p].adapter,
                           accepted |-> host[p].ok]
            /\ UNCHANGED capability
    /\ Leave(p)
    /\ UNCHANGED <<runs, clean>>

\* The command is killed, or dies of an exception it does not catch (a Kimi event
\* or wire message of an unexpected shape): no receipt is written, the old one stays.
HostDies(p) ==
    /\ host[p].pc # "idle"
    /\ Leave(p)
    /\ UNCHANGED <<receipt, capability, runs, clean>>

HostStep(p) ==
    \/ Inspect(p) \/ ProcessFails(p)
    \/ ExecuteQwen(p) \/ ExecuteKimi(p) \/ ExportKimi(p)
    \/ Finish(p) \/ HostDies(p)

\* An accepted receipt and an eligible capability stand for an execution that was
\* clean, under the contract of the task that the receipt names.
HostGrounded ==
    /\ receipt # None /\ receipt.accepted =>
         /\ <<receipt.task, receipt.adapter>> \in clean
         /\ HostContract[receipt.task] = receipt.adapter
    /\ \A a \in Adapter : capability[a] = "eligible" => <<None, a>> \in clean
=============================================================================
