------------------------- MODULE HeterogeneousPanel -------------------------
(***************************************************************************)
(* tools/run_heterogeneous_lwar_ab.py with a canary policy: on an empty    *)
(* bus every alias gets every task of a suite as an explicit shadow, the   *)
(* providers are called in rounds, and each result is graded and decided   *)
(* with the tokens the provider reported. It drives the commands of        *)
(* CanaryCircuit one at a time; the delivery, completion and collection of *)
(* a task are one step (they are TaskBus). A driver that raises or is      *)
(* killed leaves no experiment.json, and cannot run on that bus again.     *)
(***************************************************************************)
EXTENDS CanaryCircuit, Sequences

CONSTANTS
    AliasOrder,     \* the adapters: a sequence of all aliases
    PanelTask       \* the suite: for each alias the sequence of its tasks, one for each name

ASSUME PanelAssumption ==
    /\ AliasOrder \in Seq(Alias) /\ AliasOrder # <<>>
    /\ PanelTask \in [Alias -> Seq(Task)]
    /\ \A a, b \in Alias : PanelTask[a] # <<>> /\ Len(PanelTask[a]) = Len(PanelTask[b])

VARIABLES
    campaign,       \* the driver that runs: where it is, in which phase, round and job
    records,        \* the driver: what the provider of each executed task returned
    work,           \* mailboxes: the tasks published and not yet collected
    experiment      \* experiment.json exists

driver == <<campaign, records, work>>
panelVars == <<vars, driver, experiment>>

Off == [at |-> "off"]
At(phase, pc) == campaign.at = pc /\ campaign.phase = phase
Goto(pc) == campaign' = [campaign EXCEPT !.at = pc]
Abort == campaign' = Off
Enter(phase) == campaign' = [at |-> "publish", phase |-> phase, n |-> 1, k |-> 1]

-----------------------------------------------------------------------------
(* The providers *)

\* One call of run_provider_command: a timeout, an exit or a parse error has neither
\* an answer nor a usage, an empty answer may have a usage. A correct answer also
\* meets the constraints that verify_finite_json_answer reads from the prompt.
Call == {c \in [ok : BOOLEAN, verified : BOOLEAN, correct : BOOLEAN, usage : BOOLEAN] :
            /\ c.correct => c.ok /\ c.verified}
\* An exception of the runner itself.
Unavailable == [ok |-> FALSE, accepted |-> FALSE, reported |-> FALSE]
Codex(c) == [ok |-> c.ok, accepted |-> c.correct, reported |-> c.usage]
\* combine_provider_results: the answer of the second call; its tokens are reported
\* only if both calls report theirs.
Combined(first, second) ==
    [ok |-> second.ok /\ second.verified,
     accepted |-> second.correct, reported |-> first.usage /\ second.usage]
Opencode(first, second) ==
    IF ~first.ok \/ first.verified THEN Codex(first) ELSE Combined(first, second)
Provided(a) ==
    {Unavailable} \cup (IF a = Candidate THEN {Opencode(c, d) : c, d \in Call} ELSE {Codex(c) : c \in Call})
\* run_provider_with_retry: a second attempt after a failed one, all of whose tokens count.
Retried(a) ==
    {p \in Provided(a) : p.ok} \cup
    {[q EXCEPT !.reported = @ /\ p.reported] : p \in {p \in Provided(a) : ~p.ok}, q \in Provided(a)}
Outcome(p) == [accepted |-> p.accepted, reported |-> p.reported]

\* Runs the providers of all these tasks and keeps what they returned.
Execute(tasks, retried) ==
    LET provided(a) == {Outcome(p) : p \in IF retried THEN Retried(a) ELSE Provided(a)}
    IN \E outcome \in [tasks -> UNION {provided(a) : a \in Alias}] :
          /\ \A t \in tasks : outcome[t] \in provided(receipt[t].alias)
          /\ records' = [t \in Task |-> IF t \in tasks THEN outcome[t] ELSE records[t]]

\* complete, collect --archive and validate --record, with the tokens if they count.
CompleteAndValidate(t, tokens) ==
    /\ LET verdict == IF records[t].accepted THEN "accepted" ELSE "rejected"
       IN IF tokens THEN ValidateObserved(t, verdict) ELSE Validate(t, verdict)
    /\ work' = work \ {t}

-----------------------------------------------------------------------------
(* The panel *)

\* build_assignment: each alias starts the suite at another task.
Assignment(i) ==
    LET tasks == PanelTask[AliasOrder[i]]
    IN [n \in DOMAIN tasks |-> tasks[((n + i - 2) % Len(tasks)) + 1]]
Rounds == Len(PanelTask[AliasOrder[1]])

\* Publication goes through all tasks of one alias before those of the next.
Job == Assignment(campaign.k)[campaign.n]

PanelInit ==
    /\ Init
    /\ campaign = Off /\ records = [t \in Task |-> None] /\ work = {} /\ experiment = FALSE

\* The experiment root must be absent or empty; registration and activation of the
\* identities come first (they are Registry).
PanelStart ==
    /\ campaign = Off
    /\ \A t \in Task : receipt[t] = None
    /\ Enter("panel")
    /\ UNCHANGED <<vars, records, work, experiment>>

PanelPublish ==
    /\ At("panel", "publish")
    /\ \E eligible \in {e \in SUBSET Alias : AliasOrder[campaign.k] \in e} :
          Send(Job, [kind |-> "explicit", alias |-> AliasOrder[campaign.k]], eligible)
    /\ Goto("publishing")
    /\ UNCHANGED <<records, work, experiment>>

\* The commands a driver has started run to their end.
SendStep ==
    /\ campaign.at = "publishing"
    /\ \/ SendReceipt /\ UNCHANGED work
       \/ SendPublish /\ work' = work \cup {command.task}
    /\ UNCHANGED <<campaign, records, experiment>>
ValidateStep ==
    /\ campaign.at = "validating"
    /\ ValidateObserve \/ ValidateRefresh
    /\ UNCHANGED <<driver, experiment>>

\* A command that failed, or another alias or mode than was asked for, ends the driver.
PanelPublished ==
    /\ At("panel", "publishing") /\ command = Idle
    /\ campaign' =
         IF Job \notin sent \/ receipt[Job].alias # AliasOrder[campaign.k] \/ receipt[Job].mode # "shadow"
         THEN Off
         ELSE IF campaign.n < Rounds THEN [campaign EXCEPT !.at = "publish", !.n = @ + 1]
         ELSE IF campaign.k < Len(AliasOrder) THEN [campaign EXCEPT !.at = "publish", !.n = 1, !.k = @ + 1]
         ELSE [campaign EXCEPT !.at = "execute", !.n = 1, !.k = 1]
    /\ UNCHANGED <<vars, records, work, experiment>>

PanelExecute ==
    /\ At("panel", "execute")
    /\ Execute({Assignment(i)[campaign.n] : i \in DOMAIN AliasOrder}, TRUE)
    /\ Goto("complete")
    /\ UNCHANGED <<vars, work, experiment>>

PanelValidate ==
    /\ At("panel", "complete")
    /\ CompleteAndValidate(Job, records[Job].reported)
    /\ Goto("validating")
    /\ UNCHANGED <<records, experiment>>

PanelValidated ==
    /\ At("panel", "validating") /\ command = Idle
    /\ campaign' =
         IF campaign.k < Len(AliasOrder) THEN [campaign EXCEPT !.at = "complete", !.k = @ + 1]
         ELSE IF campaign.n < Rounds THEN [campaign EXCEPT !.at = "execute", !.n = @ + 1, !.k = 1]
         ELSE [campaign EXCEPT !.at = "report"]
    /\ UNCHANGED <<vars, records, work, experiment>>

\* The identities are shut down and experiment.json is written.
PanelReport ==
    /\ At("panel", "report")
    /\ experiment' = TRUE /\ Abort
    /\ UNCHANGED <<vars, records, work>>

\* A driver dies with the command it runs.
KillDriver ==
    /\ campaign # Off /\ Abort
    /\ Disturb /\ command' = Idle
    /\ UNCHANGED <<generation, routing, open, resets, fresh, records, work, experiment>>

PanelStep ==
    \/ PanelStart \/ PanelPublish \/ PanelPublished \/ PanelExecute
    \/ PanelValidate \/ PanelValidated \/ PanelReport
=============================================================================
