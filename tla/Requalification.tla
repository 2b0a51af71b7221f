--------------------------- MODULE Requalification --------------------------
(***************************************************************************)
(* tools/run_lwar4_reset_requalification.py: the campaign that decides     *)
(* whether the open circuit of a candidate may be reset, and then earns it *)
(* a production canary with fresh evidence. Its bus is the one that a      *)
(* panel has filled, and on which ordinary traffic has opened the circuit; *)
(* the circuit file is sealed by the preregistration.                      *)
(*                                                                         *)
(* A campaign that raises, or is killed together with the command it runs, *)
(* leaves no evidence file and may be started again.                       *)
(***************************************************************************)
EXTENDS HeterogeneousPanel

CONSTANTS
    Ordinary,       \* the tasks the OA sends on its own
    Pairs,          \* suite, recovery_pair: a sequence of <<incumbent's, candidate's>> tasks
    Shadows,        \* suite, post_reset_shadow: a sequence of tasks
    Canary,         \* suite, production_canary
    Fallback        \* suite, fallback_probe

VARIABLES
    sealed,         \* preregistration: the circuit file
    evidence        \* the evidence file: its verdict

allVars == <<panelVars, sealed, evidence>>

CampaignInit == PanelInit /\ sealed = None /\ evidence = None

\* The tasks of a batch, published one after the other and then executed together.
Batches(phase) ==
    CASE phase = "recovery" -> Pairs
      [] phase = "post_reset" -> [n \in DOMAIN Shadows |-> <<Shadows[n]>>]
      [] phase = "production" -> <<<<Canary>>>>
      [] phase = "fallback" -> <<<<Fallback>>>>
Batch == Batches(campaign.phase)[campaign.n]
BatchJob == Batch[campaign.k]
Underway(pc) == campaign.at = pc /\ campaign.phase # "panel"
PanelTasks == UNION {{PanelTask[a][n] : n \in DOMAIN PanelTask[a]} : a \in Alias}
PairTasks == UNION {{Pairs[n][1], Pairs[n][2]} : n \in DOMAIN Pairs}

\* No phase is empty (PHASE_COUNTS), and a task's id has in it the campaign, its alias
\* and its name, so that no two are the same.
ASSUME SuiteAssumption ==
    /\ Pairs \in Seq(Task \X Task) /\ Pairs # <<>> /\ Shadows \in Seq(Task) /\ Shadows # <<>>
    /\ Ordinary \subseteq Task /\ Canary \in Task /\ Fallback \in Task
    /\ \A m, n \in DOMAIN Pairs, j, k \in 1..2 : Pairs[m][j] = Pairs[n][k] => m = n /\ j = k
    /\ \A m, n \in DOMAIN Shadows : Shadows[m] = Shadows[n] => m = n
    /\ LET parts == <<Ordinary, PanelTasks, PairTasks, {Shadows[n] : n \in DOMAIN Shadows},
                     {Canary}, {Fallback}>>
       IN \A i, j \in 1..6 : i # j => parts[i] \cap parts[j] = {}

\* No record of a task, of its decision or of its observation, no seal and no verdict
\* is absent.
ASSUME CampaignAbsent ==
    /\ None \notin [accepted : BOOLEAN, reported : BOOLEAN] \cup [verdict : Verdict, epoch : Nat]
    /\ None \notin [accepted : BOOLEAN, epoch : Nat, bound : BOOLEAN]
    /\ None \notin (SUBSET Alias) \X [Alias -> Nat]
    /\ None \notin {"recovery_gate_failed_circuit_preserved_open",
                    "post_reset_requalification_failed_production_not_run",
                    "production_requalified_canary_accepted",
                    "production_canary_rejected_sticky_fallback_verified",
                    "production_canary_rejected_fallback_unproven"}

RequestOf ==
    CASE campaign.phase = "recovery" ->
            IF campaign.k = 1 THEN [kind |-> "explicit", alias |-> Incumbent]
                              ELSE [kind |-> "recovery", alias |-> Candidate]
      [] campaign.phase = "post_reset" -> [kind |-> "explicit", alias |-> Candidate]
      [] OTHER -> [kind |-> "production"]
\* Of a pair only the alias that is sent to was activated just before.
Activated == IF campaign.phase = "recovery"
             THEN {e \in SUBSET Alias : RequestOf.alias \in e} ELSE {Alias}

-----------------------------------------------------------------------------
(* Before the campaign *)

\* The OA sends tasks on its own and decides what they returned.
OrdinaryStep ==
    /\ campaign = Off /\ experiment /\ evidence = None
    /\ \/ \E t \in Ordinary : Send(t, [kind |-> "production"], Alias) /\ UNCHANGED work
       \/ SendReceipt /\ UNCHANGED work
       \/ SendPublish /\ work' = work \cup {command.task}
       \/ \E t \in Ordinary, verdict \in Verdict :
             /\ validation[t] = None
             /\ Validate(t, verdict) \/ ValidateObserved(t, verdict)
             /\ work' = work \ {t}
       \/ (ValidateObserve \/ ValidateRefresh) /\ UNCHANGED work
    /\ UNCHANGED <<campaign, records, experiment, sealed, evidence>>

\* build_preregistration binds the campaign to a bus whose circuit is open.
Preregister ==
    /\ campaign = Off /\ command = Idle
    /\ experiment /\ sealed = None
    /\ Candidate \in open
    /\ sealed' = <<open, resets>>
    /\ UNCHANGED <<panelVars, evidence>>

-----------------------------------------------------------------------------
(* The driver *)

\* The circuit file is the preregistered one, and nothing was reported before.
Start ==
    /\ campaign = Off /\ command = Idle
    /\ evidence = None
    /\ sealed = <<open, resets>>
    /\ Enter("recovery")
    /\ records' = [t \in Task |-> None]
    /\ UNCHANGED <<vars, work, experiment, sealed, evidence>>

Publish ==
    /\ Underway("publish")
    /\ \E eligible \in Activated : Send(BatchJob, RequestOf, eligible)
    /\ Goto("publishing")
    /\ UNCHANGED <<records, work, experiment, sealed, evidence>>

\* The task has a ledger entry already: the command fails.
PublishRefused ==
    /\ Underway("publish") /\ command = Idle
    /\ BatchJob \in sent
    /\ Abort
    /\ UNCHANGED <<vars, records, work, experiment, sealed, evidence>>

\* current_production_decision has just selected over the same evidence.
CommandStep ==
    /\ SendStep \/ ValidateStep
    /\ (campaign.at = "publishing" /\ campaign.phase = "production" /\ receipt'[Canary] # None) =>
           receipt'[Canary].mode = "live" /\ receipt'[Canary].alias = Candidate
    /\ UNCHANGED <<sealed, evidence>>

\* The command has returned: it failed, it chose an alias that was not asked for,
\* or the next task of the batch is published.
Published ==
    /\ Underway("publishing") /\ command = Idle
    /\ IF BatchJob \notin sent \/ (RequestOf.kind # "production" /\ receipt[BatchJob].alias # RequestOf.alias)
       THEN Abort
       ELSE IF campaign.k < Len(Batch) THEN campaign' = [campaign EXCEPT !.at = "publish", !.k = @ + 1]
       ELSE campaign' = [campaign EXCEPT !.at = "execute", !.k = 1]
    /\ UNCHANGED <<vars, records, work, experiment, sealed, evidence>>

\* claim_and_begin of each task, then all providers at once.
ExecuteBatch ==
    /\ Underway("execute")
    /\ Execute({Batch[k] : k \in DOMAIN Batch}, FALSE)
    /\ Goto("complete")
    /\ UNCHANGED <<vars, work, experiment, sealed, evidence>>

\* An ordinary task that nobody has executed yet may be delivered in its stead.
UnexpectedDelivery ==
    /\ Underway("execute")
    /\ \E t \in work \cap Ordinary, k \in DOMAIN Batch : receipt[t].alias = receipt[Batch[k]].alias
    /\ Abort
    /\ UNCHANGED <<vars, records, work, experiment, sealed, evidence>>

\* mutant: the tokens of both tasks of a pair are recorded
TokensOfAll == records[BatchJob].reported
\* The incumbent's recovery tasks are decided without their tokens.
RecordTokens == records[BatchJob].reported /\ ~(campaign.phase = "recovery" /\ campaign.k = 1)

ValidateBatch ==
    /\ Underway("complete")
    /\ CompleteAndValidate(BatchJob, RecordTokens)
    /\ Goto("validating")
    /\ UNCHANGED <<records, experiment, sealed, evidence>>

\* The next task of the batch, the next batch of the phase, or its end: the
\* post-reset shadows end with the first rejection.
Validated ==
    /\ Underway("validating") /\ command = Idle
    /\ campaign' =
         IF campaign.k < Len(Batch) THEN [campaign EXCEPT !.at = "complete", !.k = @ + 1]
         ELSE IF /\ campaign.n < Len(Batches(campaign.phase))
                 /\ campaign.phase = "post_reset" => records[BatchJob].accepted
         THEN [campaign EXCEPT !.at = "publish", !.n = @ + 1, !.k = 1]
         ELSE [campaign EXCEPT !.at = "gate"]
    /\ UNCHANGED <<vars, records, work, experiment, sealed, evidence>>

\* Both identities are shut down and the evidence written.
Conclude(verdict) ==
    /\ Abort /\ evidence' = verdict
    /\ UNCHANGED <<records, work, experiment, sealed>>

\* mutant: the incumbent's tasks are not asked for
RecoveryPassedAlone ==
    /\ \A n \in DOMAIN Pairs : records[Pairs[n][2]] = [accepted |-> TRUE, reported |-> TRUE]
    /\ <<open, resets>> = sealed /\ work = {}
\* Every task accepted, every token report there, the circuit file as it was.
RecoveryPassed ==
    /\ \A t \in PairTasks : records[t] = [accepted |-> TRUE, reported |-> TRUE]
    /\ <<open, resets>> = sealed /\ work = {}

\* Whether the audit is healthy is an input.
RecoveryFails ==
    /\ At("recovery", "gate")
    /\ Conclude("recovery_gate_failed_circuit_preserved_open")
    /\ UNCHANGED vars
RecoveryReset ==
    /\ At("recovery", "gate")
    /\ RecoveryPassed
    /\ ResetCircuit(Candidate)
    /\ Enter("post_reset")
    /\ UNCHANGED <<records, work, experiment, sealed, evidence>>

\* mutant: the ledger's verdicts are enough
PostResetAccepted == \A n \in DOMAIN Shadows : records[Shadows[n]] # None /\ records[Shadows[n]].accepted
PostResetPassed ==
    /\ \A n \in DOMAIN Shadows :
          LET t == Shadows[n] IN records[t] # None /\ records[t].accepted /\ observation[t] # None
    /\ Candidate \notin open

\* Either the gate or the production decision is against it.
PostResetFails ==
    /\ At("post_reset", "gate")
    /\ PostResetPassed => Select([kind |-> "production"], Alias) # {<<Candidate, "live">>}
    /\ Conclude("post_reset_requalification_failed_production_not_run")
    /\ UNCHANGED vars
Promote ==
    /\ At("post_reset", "gate")
    /\ PostResetPassed
    /\ <<Candidate, "live">> \in Select([kind |-> "production"], Alias)
    /\ Enter("production")
    /\ UNCHANGED <<vars, records, work, experiment, sealed, evidence>>

\* mutant: no probe follows a rejection
ProductionEndsUnprobed ==
    /\ At("production", "gate")
    /\ Conclude(IF records[Canary].accepted THEN "production_requalified_canary_accepted"
                ELSE "production_canary_rejected_fallback_unproven")
    /\ UNCHANGED vars
ProductionEnds ==
    /\ At("production", "gate")
    /\ IF receipt[Canary].alias # Candidate \/ receipt[Canary].mode # "live"
       THEN Abort /\ UNCHANGED <<records, work, experiment, sealed, evidence>>
       ELSE IF records[Canary].accepted THEN Conclude("production_requalified_canary_accepted")
       ELSE Enter("fallback") /\ UNCHANGED <<records, work, experiment, sealed, evidence>>
    /\ UNCHANGED vars
FallbackEnds ==
    /\ At("fallback", "gate")
    /\ Conclude(IF records[Fallback].accepted THEN "production_canary_rejected_sticky_fallback_verified"
                ELSE "production_canary_rejected_fallback_unproven")
    /\ UNCHANGED vars

CampaignNext ==
    \/ PanelStep /\ UNCHANGED <<sealed, evidence>>
    \/ OrdinaryStep \/ Preregister
    \/ Start \/ Publish \/ PublishRefused \/ CommandStep \/ Published
    \/ ExecuteBatch \/ UnexpectedDelivery \/ ValidateBatch \/ Validated
    \/ RecoveryFails \/ RecoveryReset \/ PostResetFails \/ Promote
    \/ ProductionEnds \/ FallbackEnds
    \/ KillDriver /\ UNCHANGED <<sealed, evidence>>

CampaignSpec == CampaignInit /\ [][CampaignNext]_allVars

-----------------------------------------------------------------------------
(* Properties *)

\* "Reset is allowed only when LWAR1 and LWAR4 both pass 12/12 paired tasks ... and the
\* open circuit bytes remain unchanged" (docs/LWAR4_RESET_REQUALIFICATION.md): at a
\* reset the ledger has accepted every paired task, the candidate's from a recovery
\* shadow that was observed, and no observation of the panel but those exists.
ResetGated ==
    [][resets'[Candidate] # resets[Candidate] =>
          /\ <<open, resets>> = sealed
          /\ \A t \in PairTasks : validation[t] # None /\ validation[t].verdict = "accepted"
          /\ {t \in PairTasks : observation[t] # None} = {Pairs[n][2] : n \in DOMAIN Pairs}
          /\ \A n \in DOMAIN Pairs : receipt[Pairs[n][2]].mode = "recovery_shadow"]_allVars

\* The production canary is published only while the circuit is closed and every
\* post-reset shadow was accepted, observed and decided after the reset; also in a
\* campaign that was started again after it was killed.
CanaryEarned ==
    [][(Canary \in sent' \ sent) =>
          /\ Candidate \notin open
          /\ \A n \in DOMAIN Shadows :
                Shadows[n] \in AcceptedOf(Evidence(Candidate))]_allVars

\* The verdict tells what became of the bus: which circuit it left, which tasks ran
\* and where.
VerdictTruthful ==
    /\ evidence = "recovery_gate_failed_circuit_preserved_open" =>
          /\ Candidate \in open /\ resets[Candidate] = 0
          /\ sent \subseteq Ordinary \cup PanelTasks \cup PairTasks
    /\ evidence = "post_reset_requalification_failed_production_not_run" =>
          resets[Candidate] = 1 /\ Canary \notin sent
    /\ evidence = "production_requalified_canary_accepted" =>
          /\ Candidate \notin open /\ Fallback \notin sent
          /\ receipt[Canary].alias = Candidate /\ validation[Canary].verdict = "accepted"
    /\ (evidence \notin {None, "production_requalified_canary_accepted"} /\ Canary \in sent) =>
          validation[Canary].verdict = "rejected" /\ Fallback \in sent
    /\ evidence \notin {None, "recovery_gate_failed_circuit_preserved_open"} => work = {}
=============================================================================
