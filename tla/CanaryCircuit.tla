---------------------------- MODULE CanaryCircuit ----------------------------
(***************************************************************************)
(* Canary routing: what oa send --canary-policy selects from the online    *)
(* evidence, the circuit that a rejected candidate opens, its reset, and   *)
(* the observations oa validate --record makes.                            *)
(*                                                                         *)
(* One task class and one policy. Every command here runs under the writer *)
(* mutex (OaWriter), so one at a time, and may be killed between two of its *)
(* writes. Times are compared with the time of a reset only, so a decision *)
(* carries the number of resets that preceded it. The Wilson bounds are    *)
(* abstracted: non-inferiority, and a decline over two windows that may    *)
(* show one, are either outcome. Route mode circuit_open is leader: the    *)
(* two differ in the reason a receipt gives. What a task does in between   *)
(* is TaskBus, and what is audited AuditLog.                               *)
(***************************************************************************)
EXTENDS Naturals, FiniteSets

CONSTANTS
    Alias,          \* the profiled LWAR aliases
    Incumbent,      \* the global quality leader of the calibration profile
    Candidate,      \* the cheapest alias of the class, as calibrated
    Task,           \* the tasks sent by canary routing
    MinAccepted,    \* policy: min_accepted_observations
    DriftWindow,    \* policy: drift_window
    MaxResets,      \* bound: resets of one circuit
    MaxFaults,      \* bound: kills of a command, replaced identities taken again
    None            \* absent

ASSUME CanaryConstants ==
    /\ Incumbent \in Alias /\ Candidate \in Alias /\ Incumbent # Candidate
    /\ MinAccepted \in Nat \ {0} /\ DriftWindow \in Nat \ {0}
    /\ MaxResets \in Nat /\ MaxFaults \in Nat
    /\ IsFiniteSet(Task) /\ None \notin Alias

VARIABLES
    generation,     \* registry: generation of each alias
    receipt,        \* routing/receipts/TASK.json
    sent,           \* the tasks with a ledger entry
    validation,     \* validation of the ledger entry of each task
    observation,    \* routing/observations/TASK.json
    open,           \* canary-circuits.json: aliases whose circuit is open
    resets,         \* canary-circuits.json: resets of each alias so far
    command,        \* the command that runs
    faults,         \* bound: those so far
    fresh           \* history: tasks decided since their alias was last reset or replaced

routing == <<receipt, sent, validation, observation>>
vars == <<generation, routing, open, resets, command, faults, fresh>>

\* An undecidable verdict replaces a decision like the others and opens nothing.
Verdict == {"accepted", "rejected"}
Mode == {"leader", "live", "shadow", "recovery_shadow"}
Request == [kind : {"production", "shadow"}] \cup [kind : {"explicit", "recovery"}, alias : Alias]
Idle == [pc |-> "idle"]
\* basis: what a decision was taken on, until it is published.
Basis == {<<>>} \cup (SUBSET Alias) \X (SUBSET Task) \X (SUBSET Alias) \X [Alias -> Nat]
ReceiptOf == [alias : Alias, mode : Mode, generation : Nat, basis : Basis]

ASSUME NoneIsNoReceipt == None \notin ReceiptOf

Init ==
    /\ generation = [a \in Alias |-> 1]
    /\ receipt = [t \in Task |-> None] /\ sent = {}
    /\ validation = [t \in Task |-> None] /\ observation = [t \in Task |-> None]
    /\ open = {} /\ resets = [a \in Alias |-> 0]
    /\ command = Idle /\ faults = 0 /\ fresh = {}

Disturb == faults < MaxFaults /\ faults' = faults + 1

-----------------------------------------------------------------------------
(* The evidence *)

Observed == {t \in Task : observation[t] # None}
AcceptedOf(S) == {t \in S : observation[t].accepted}
\* load_routing_observations raises for an observation whose ledger entry
\* holds another validation by now.
Readable == \A t \in Observed : observation[t].bound

CurrentGeneration(eligible) ==
    {t \in Observed : receipt[t].alias \in eligible /\ receipt[t].generation = generation[receipt[t].alias]}

PromotionAnyEpoch(rows) == {t \in rows : receipt[t].mode # "recovery_shadow"}

\* Neither a recovery shadow nor what was decided before the reset counts.
PromotionEpoch(rows) ==
    {t \in rows : /\ receipt[t].mode # "recovery_shadow"
                  /\ observation[t].epoch = resets[receipt[t].alias]}

CircuitRows(rows, a) ==
    {t \in PromotionEpoch(rows) : receipt[t].alias = a /\ receipt[t].mode \in {"shadow", "live"}}

CandidateRejected(rows, a) ==
    \E t \in CircuitRows(rows, a) :
        ~observation[t].accepted /\ (receipt[t].mode = "live" \/ resets[a] > 0)

\* Two full windows, of which the later can only be worse if some row was
\* accepted and some was not.
MayDrift(rows, a) ==
    LET counted == CircuitRows(rows, a)
    IN  Cardinality(counted) >= 2 * DriftWindow /\ AcceptedOf(counted) \notin {{}, counted}

RefreshRebuilds(rows) ==
    {{a \in Alias : CandidateRejected(rows, a)} \cup drifted :
        drifted \in SUBSET {a \in Alias : MayDrift(rows, a)}}

\* refresh_circuits: what is open stays open.
RefreshCircuits(rows) ==
    {open \cup {a \in Alias : CandidateRejected(rows, a)} \cup drifted :
        drifted \in SUBSET {a \in Alias : MayDrift(rows, a)}}

-----------------------------------------------------------------------------
(* oa send --auto --canary-policy *)

Leader(eligible) ==
    IF Incumbent \in eligible THEN Incumbent ELSE CHOOSE a \in eligible : TRUE

CandidateOf(eligible) ==
    IF Candidate \in eligible /\ Leader(eligible) # Candidate THEN Candidate ELSE None

ShadowTarget(request, eligible) ==
    CASE request.kind = "explicit" -> request.alias
      [] request.kind = "shadow" -> CandidateOf(eligible)
      [] OTHER -> None

BalancedReady(eligible) ==
    \A a \in eligible :
        Cardinality({t \in AcceptedOf(PromotionEpoch(CurrentGeneration(eligible))) :
                        receipt[t].alias = a}) >= MinAccepted

\* What select_confidence_canary refuses first: a named alias that is not eligible.
Admissible(request, eligible) ==
    request.kind \in {"explicit", "recovery"} => request.alias \in eligible

\* select_confidence_canary: the aliases and modes it may return.
Select(request, eligible) ==
    LET leader == Leader(eligible)
        candidate == CandidateOf(eligible)
        target == ShadowTarget(request, eligible)
    IN  CASE request.kind = "recovery" ->
                {<<request.alias, "recovery_shadow">> : a \in open \cap {request.alias}}
          [] target \in Alias \ open -> {<<target, "shadow">>}
          [] /\ request.kind # "recovery" /\ target = None
             /\ candidate \in Alias \ open /\ BalancedReady(eligible) ->
                {<<leader, "leader">>, <<candidate, "live">>}
          [] OTHER -> {<<leader, "leader">>}

SendUnrefreshed(t, request, eligible) ==
    /\ command = Idle
    /\ t \notin sent
    /\ Readable
    /\ Admissible(request, eligible)
    /\ command' = [pc |-> "select", task |-> t, request |-> request, eligible |-> eligible]
    /\ UNCHANGED <<generation, routing, open, resets, faults, fresh>>

\* The evidence is loaded, and the circuits refreshed over the rows of the
\* eligible identities; a recovery shadow leaves them as they are.
Send(t, request, eligible) ==
    /\ command = Idle
    /\ t \notin sent
    /\ Readable
    /\ Admissible(request, eligible)
    /\ IF request.kind = "recovery" THEN UNCHANGED open
       ELSE open' \in RefreshCircuits(CurrentGeneration(eligible))
    /\ command' = [pc |-> "select", task |-> t, request |-> request, eligible |-> eligible]
    /\ UNCHANGED <<generation, routing, resets, faults, fresh>>

Receipt(choice) ==
    [alias |-> choice[1], mode |-> choice[2], generation |-> generation[choice[1]],
     basis |-> <<command.eligible, CurrentGeneration(command.eligible), open, resets>>]

\* One receipt for a task: the retry of a send that was killed writes the same
\* or is refused, as is a recovery shadow of an alias whose circuit is closed.
SendReceipt ==
    /\ command.pc = "select"
    /\ LET t == command.task
           possible == {Receipt(choice) : choice \in Select(command.request, command.eligible)}
           made == IF receipt[t] = None THEN possible ELSE possible \cap {receipt[t]}
       IN  \/ \E r \in made : /\ receipt' = [receipt EXCEPT ![t] = r]
                              /\ command' = [pc |-> "publish", task |-> t]
           \/ /\ made = {} \/ made # possible
              /\ command' = Idle /\ UNCHANGED receipt
    /\ UNCHANGED <<generation, sent, validation, observation, open, resets, faults, fresh>>

SendPublish ==
    /\ command.pc = "publish"
    /\ sent' = sent \cup {command.task}
    /\ receipt' = [receipt EXCEPT ![command.task].basis = <<>>]
    /\ command' = Idle
    /\ UNCHANGED <<generation, validation, observation, open, resets, faults, fresh>>

-----------------------------------------------------------------------------
(* oa validate --record *)

RecordValidation(t, verdict) ==
    /\ validation' = [validation EXCEPT ![t] =
            [verdict |-> verdict, epoch |-> resets[receipt[t].alias]]]
    /\ fresh' = IF receipt[t].generation = generation[receipt[t].alias] THEN fresh \cup {t} ELSE fresh \ {t}
    /\ observation' = IF observation[t] = None THEN observation
                      ELSE [observation EXCEPT ![t].bound = FALSE]

\* Without --routing-reported-tokens a task may be decided again at any time.
Validate(t, verdict) ==
    /\ command = Idle
    /\ t \in sent
    /\ RecordValidation(t, verdict)
    /\ IF validation[t] = None THEN UNCHANGED faults ELSE Disturb
    /\ UNCHANGED <<generation, receipt, sent, open, resets, command>>

\* With it a recorded decision stands and only the same one is accepted.
ValidateObserved(t, verdict) ==
    /\ command = Idle
    /\ t \in sent
    /\ \/ validation[t] = None /\ RecordValidation(t, verdict)
       \/ /\ validation[t] # None
          /\ validation[t].verdict = verdict
          /\ UNCHANGED <<validation, fresh, observation>>
    /\ command' = [pc |-> "observe", task |-> t]
    /\ UNCHANGED <<generation, receipt, sent, open, resets, faults>>

\* make_routing_observation and write_routing_observation: one that differs
\* from the observation on disk is refused.
ValidateObserve ==
    /\ command.pc = "observe"
    /\ LET t == command.task
           decided == [accepted |-> validation[t].verdict = "accepted",
                       epoch |-> validation[t].epoch, bound |-> TRUE]
       IN  IF observation[t] \in {None, decided}
           THEN /\ observation' = [observation EXCEPT ![t] = decided]
                /\ command' = IF receipt[t].mode = "recovery_shadow" THEN Idle
                              ELSE [pc |-> "refresh", task |-> t]
           ELSE command' = Idle /\ UNCHANGED observation
    /\ UNCHANGED <<generation, receipt, sent, validation, open, resets, faults, fresh>>

\* Here the circuits are refreshed over the observations of every generation.
ValidateRefresh ==
    /\ command.pc = "refresh"
    /\ IF Readable THEN open' \in RefreshCircuits(Observed) ELSE UNCHANGED open
    /\ command' = Idle
    /\ UNCHANGED <<generation, routing, resets, faults, fresh>>

-----------------------------------------------------------------------------
(* oa routing-circuit-reset, registry changes, kills *)

OfAlias(a) == {t \in Task : receipt[t] # None /\ receipt[t].alias = a}

ResetCircuit(a) ==
    /\ command = Idle
    /\ a \in open /\ open' = open \ {a}
    /\ resets[a] < MaxResets
    /\ resets' = [resets EXCEPT ![a] = @ + 1]
    /\ fresh' = fresh \ OfAlias(a)
    /\ UNCHANGED <<generation, routing, command, faults>>

\* The slot is retired and reconciled with another registration.
Replace(a) ==
    /\ command = Idle
    /\ Disturb
    /\ generation' = [generation EXCEPT ![a] = @ + 1]
    /\ fresh' = fresh \ OfAlias(a)
    /\ UNCHANGED <<routing, open, resets, command>>

Kill ==
    /\ command # Idle /\ command' = Idle
    /\ Disturb
    /\ UNCHANGED <<generation, routing, open, resets, fresh>>

Next ==
    \/ \E t \in Task :
          \/ \E request \in Request, eligible \in (SUBSET Alias) \ {{}} : Send(t, request, eligible)
          \/ \E verdict \in Verdict : Validate(t, verdict) \/ ValidateObserved(t, verdict)
    \/ SendReceipt \/ SendPublish \/ ValidateObserve \/ ValidateRefresh
    \/ \E a \in Alias : ResetCircuit(a) \/ Replace(a)
    \/ Kill

Spec == Init /\ [][Next]_vars

-----------------------------------------------------------------------------
(* Properties *)

\* The records have the shape of their schemas. An observation exists for a task
\* with a receipt and a validation only, and at most one command runs.
TypeOK ==
    /\ generation \in [Alias -> 1..(MaxFaults + 1)]
    /\ \A t \in Task : receipt[t] = None \/ receipt[t] \in ReceiptOf
    /\ sent \in SUBSET {t \in Task : receipt[t] # None}
    /\ \A t \in Task : validation[t] = None \/ validation[t] \in [verdict : Verdict, epoch : 0..MaxResets]
    /\ \A t \in Observed :
          /\ observation[t] \in [accepted : BOOLEAN, epoch : 0..MaxResets, bound : BOOLEAN]
          /\ t \in sent /\ validation[t] # None
    /\ open \in SUBSET Alias /\ resets \in [Alias -> 0..MaxResets]
    /\ command.pc \in {"idle", "select", "publish", "observe", "refresh"}
    /\ faults \in 0..MaxFaults /\ fresh \in SUBSET Task

\* What counts for an alias: a task its current generation executed, decided
\* after the last reset, and not as a recovery shadow.
Evidence(a) == {t \in fresh \cap Observed : receipt[t].alias = a /\ receipt[t].mode # "recovery_shadow"}
Decided(mode) == {t \in Task : receipt'[t] # None /\ receipt[t] = None /\ receipt'[t].mode \in mode}

\* Live traffic is earned: a task is routed to the candidate only while every
\* eligible alias has min_accepted_observations results that were accepted
\* since its circuit was last reset and its identity last replaced.
LiveEarned ==
    [][\A t \in Decided({"live"}) : \A a \in command.eligible :
          Cardinality(AcceptedOf(Evidence(a))) >= MinAccepted]_vars

\* After a rejected live result the alias gets neither live nor shadow tasks
\* until an operator resets its circuit or another identity takes the slot, even
\* when the command that recorded the result was killed before it opened the circuit.
RejectedGetsNothing ==
    [][\A t \in Decided({"live", "shadow"}) :
          ~\E u \in Evidence(receipt'[t].alias) :
              receipt[u].mode = "live" /\ ~observation[u].accepted]_vars

\* An open circuit never closes by itself: not when the evidence that opened it
\* belongs to a replaced generation, nor through accepted recovery shadows.
OpenIsSticky == [][\A a \in open \ open' : resets'[a] = resets[a] + 1]_vars
=============================================================================
