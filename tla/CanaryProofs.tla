---------------------------- MODULE CanaryProofs -----------------------------
(***************************************************************************)
(* CanaryCircuit proved for every set of aliases and tasks, every policy   *)
(* and any number of resets, replaced identities and kills: live traffic   *)
(* is earned, a rejected live result cuts it off, an open circuit stays.   *)
(*                                                                         *)
(* Requalification proved for every suite, whatever the providers answer   *)
(* and however often a driver is killed: the reset is gated, the canary    *)
(* earned, the verdict truthful. A step of a campaign is a step of the     *)
(* circuit's commands, the end of one, or none of theirs, so that the      *)
(* circuit's invariant is inherited; what is added says where the driver   *)
(* is, and how what it keeps agrees with the ledger and the observations.  *)
(***************************************************************************)
EXTENDS Requalification, FiniteSetTheorems, TLAPS

-----------------------------------------------------------------------------
(* The circuit: its inductive invariant *)

Types ==
    /\ generation \in [Alias -> Nat] /\ resets \in [Alias -> Nat] /\ open \subseteq Alias
    /\ receipt = [t \in Task |-> receipt[t]]
    /\ validation = [t \in Task |-> validation[t]]
    /\ observation = [t \in Task |-> observation[t]]
    /\ sent \subseteq Task /\ fresh \subseteq Task

\* The receipt of t names an identity of its alias that is or was registered.
Named(t) ==
    receipt[t] \in ReceiptOf /\ receipt[t].generation <= generation[receipt[t].alias]
Current(t) == receipt[t].generation = generation[receipt[t].alias]

\* A decision or an observation of the present epoch and identity is of a fresh task.
DatedBy(t, epoch) ==
    /\ epoch \in Nat /\ epoch <= resets[receipt[t].alias]
    /\ epoch = resets[receipt[t].alias] /\ Current(t) => t \in fresh

SentNamed == \A t \in sent : Named(t)
DecidedSent == \A t \in Task : validation[t] # None => t \in sent /\ DatedBy(t, validation[t].epoch)
\* An observation that is still bound says what the ledger says.
ObservationOf == [accepted : BOOLEAN, epoch : Nat, bound : BOOLEAN]
Witnessed ==
    \A t \in Observed :
        /\ t \in sent /\ observation[t] \in ObservationOf
        /\ DatedBy(t, observation[t].epoch)
        /\ observation[t].bound => observation[t].epoch = validation[t].epoch
FreshCurrent ==
    \A t \in fresh : t \in sent /\ Current(t) /\ validation[t].epoch = resets[receipt[t].alias]

\* A send between its refresh and its receipt: nothing has moved since, so the circuit
\* of every alias with a rejected result is open.
Refreshed ==
    \A a \in Alias : CandidateRejected(CurrentGeneration(command.eligible), a) => a \in open
Selecting ==
    command.pc = "select" =>
        /\ command.task \in Task \ sent
        /\ command.request \in Request
        /\ command.eligible \subseteq Alias /\ command.eligible # {}
        /\ Admissible(command.request, command.eligible)
        /\ Readable
        /\ command.request.kind # "recovery" => Refreshed
Publishing == command.pc = "publish" => command.task \in Task \ sent /\ Named(command.task)
Observing ==
    command.pc = "observe" =>
        command.task \in sent /\ DatedBy(command.task, validation[command.task].epoch)

Evidenced == SentNamed /\ DecidedSent /\ Witnessed /\ FreshCurrent
CircuitInv == Types /\ Evidenced /\ Selecting /\ Publishing /\ Observing

LEMMA InvInit == Init => CircuitInv
BY DEF Init, CircuitInv, Types, Evidenced, SentNamed, DecidedSent, Witnessed, FreshCurrent,
       Selecting, Publishing, Observing, Observed, Idle

-----------------------------------------------------------------------------
(* What the choice can be *)

\* Whoever is chosen is eligible and profiled; a live choice is balanced, and neither
\* a live nor a shadow choice has an open circuit or comes from a recovery request.
LEMMA Chosen ==
    ASSUME NEW request \in Request, NEW eligible, eligible \subseteq Alias, eligible # {},
           Admissible(request, eligible), NEW choice \in Select(request, eligible)
    PROVE  /\ choice[1] \in Alias /\ choice[2] \in Mode
           /\ choice[2] = "live" => BalancedReady(eligible)
           /\ choice[2] \in {"live", "shadow"} =>
                 choice[1] \in eligible \ open /\ request.kind # "recovery"
           /\ choice[2] = "recovery_shadow" <=> request.kind = "recovery"
<1> DEFINE target == ShadowTarget(request, eligible)
           candidate == CandidateOf(eligible)
           leader == Leader(eligible)
<1>1. leader \in eligible
  BY CanaryConstants DEF Leader
<1>2. candidate \in eligible \cup {None}
  BY DEF CandidateOf
<1>3. /\ request.kind \in {"production", "shadow", "explicit", "recovery"}
      /\ request.kind \in {"explicit", "recovery"} => request.alias \in eligible
  BY DEF Request, Admissible
<1>4. target \in eligible \cup {None} /\ (request.kind = "recovery" => target = None)
  BY <1>2, <1>3 DEF ShadowTarget
<1>5. None \notin Alias
  BY CanaryConstants
<1>6. CASE request.kind = "recovery"
  <2>1. Select(request, eligible) =
          {<<request.alias, "recovery_shadow">> : a \in open \cap {request.alias}}
    BY <1>4, <1>5, <1>6 DEF Select
  <2>2. choice = <<request.alias, "recovery_shadow">>
    BY <2>1
  <2> QED
    BY <1>3, <1>6, <2>2 DEF Mode
<1>7. CASE request.kind # "recovery" /\ target \in Alias \ open
  <2>1. Select(request, eligible) = {<<target, "shadow">>}
    BY <1>5, <1>7 DEF Select
  <2>2. choice = <<target, "shadow">>
    BY <2>1
  <2> QED
    BY <1>4, <1>5, <1>7, <2>2 DEF Mode
<1>8. CASE request.kind # "recovery" /\ target \notin Alias \ open
  <2>1. CASE target = None /\ candidate \in Alias \ open /\ BalancedReady(eligible)
    <3>1. Select(request, eligible) = {<<leader, "leader">>, <<candidate, "live">>}
      BY <1>8, <2>1 DEF Select
    <3>2. choice \in {<<leader, "leader">>, <<candidate, "live">>}
      BY <3>1
    <3> QED
      BY <1>1, <1>2, <1>5, <1>8, <2>1, <3>2 DEF Mode
  <2>2. CASE ~(target = None /\ candidate \in Alias \ open /\ BalancedReady(eligible))
    <3>1. Select(request, eligible) = {<<leader, "leader">>}
      BY <1>8, <2>2 DEF Select
    <3>2. choice = <<leader, "leader">>
      BY <3>1
    <3> QED
      BY <1>1, <1>8, <3>2 DEF Mode
  <2> QED
    BY <2>1, <2>2
<1> QED
  BY <1>6, <1>7, <1>8

\* The receipt of a send that goes on is made of a choice, now or by the send before.
LEMMA ReceiptWritten ==
    ASSUME CircuitInv, SendReceipt, receipt' # receipt \/ command' # Idle
    PROVE  \E choice \in Select(command.request, command.eligible) :
             /\ receipt[command.task] \in {None, Receipt(choice)}
             /\ receipt' = [receipt EXCEPT ![command.task] = Receipt(choice)]
             /\ command' = [pc |-> "publish", task |-> command.task]
<1> DEFINE t == command.task
           possible == {Receipt(choice) : choice \in Select(command.request, command.eligible)}
           made == IF receipt[t] = None THEN possible ELSE possible \cap {receipt[t]}
<1>1. PICK r \in made : /\ receipt' = [receipt EXCEPT ![t] = r]
                        /\ command' = [pc |-> "publish", task |-> t]
  BY DEF SendReceipt
<1> QED
  BY <1>1

LEMMA ReceiptNamed ==
    ASSUME CircuitInv, command.pc = "select",
           NEW choice \in Select(command.request, command.eligible)
    PROVE  /\ Receipt(choice) \in ReceiptOf
           /\ Receipt(choice).alias = choice[1] /\ Receipt(choice).mode = choice[2]
           /\ Receipt(choice).generation = generation[choice[1]]
<1>1. choice[1] \in Alias /\ choice[2] \in Mode
  BY Chosen DEF CircuitInv, Selecting
<1>2. <<command.eligible, CurrentGeneration(command.eligible), open, resets>> \in Basis
  BY DEF CircuitInv, Selecting, Types, Basis, CurrentGeneration, Observed
<1> QED
  BY <1>1, <1>2 DEF Receipt, ReceiptOf, CircuitInv, Types

-----------------------------------------------------------------------------
(* Every step keeps the invariant *)

LEMMA SendKeeps ==
    ASSUME CircuitInv, NEW t \in Task, NEW request \in Request,
           NEW eligible \in (SUBSET Alias) \ {{}}, Send(t, request, eligible)
    PROVE  CircuitInv'
<1>1. UNCHANGED <<generation, receipt, sent, validation, observation, resets, fresh>>
  BY DEF Send, routing
<1>2. command' = [pc |-> "select", task |-> t, request |-> request, eligible |-> eligible]
  BY DEF Send
<1>3. /\ t \in Task \ sent /\ Readable /\ Admissible(request, eligible)
      /\ open' \subseteq Alias
      /\ request.kind # "recovery" =>
            \A a \in Alias : CandidateRejected(CurrentGeneration(eligible), a) => a \in open'
  BY DEF Send, RefreshCircuits, CircuitInv, Types
<1>4. Types'
  BY <1>1, <1>3 DEF CircuitInv, Types
<1>5. Evidenced'
  BY <1>1 DEF CircuitInv, Evidenced, SentNamed, DecidedSent, Witnessed, FreshCurrent, Named,
              Current, DatedBy, Observed
<1>6. Readable'
  BY <1>1, <1>3 DEF Readable, Observed
<1>7. /\ command'.pc = "select" /\ command'.task = t
      /\ command'.request = request /\ command'.eligible = eligible
  BY <1>2
<1>8. Selecting'
  <2>1. request.kind # "recovery" => Refreshed'
    BY <1>1, <1>3, <1>7 DEF Refreshed, CandidateRejected, CircuitRows, PromotionEpoch,
       CurrentGeneration, Observed
  <2>2. Admissible(command.request, command.eligible)'
    BY <1>3, <1>7 DEF Admissible
  <2> QED
    BY <1>1, <1>3, <1>6, <1>7, <2>1, <2>2 DEF Selecting
<1> QED
  BY <1>2, <1>4, <1>5, <1>8 DEF CircuitInv, Publishing, Observing

LEMMA SendReceiptKeeps == ASSUME CircuitInv, SendReceipt PROVE CircuitInv'
<1> DEFINE t == command.task
<1>1. /\ UNCHANGED <<generation, sent, validation, observation, open, resets, fresh>>
      /\ command.pc = "select" /\ t \in Task \ sent
  BY DEF SendReceipt, CircuitInv, Selecting
<1>2. CASE receipt' = receipt /\ command' = Idle
  BY <1>1, <1>2 DEF CircuitInv, Types, Evidenced, SentNamed, DecidedSent, Witnessed, FreshCurrent,
       Named, Current, DatedBy, Observed, Selecting, Publishing, Observing, Idle
<1>3. CASE receipt' # receipt \/ command' # Idle
  <2>1. PICK choice \in Select(command.request, command.eligible) :
             /\ receipt' = [receipt EXCEPT ![t] = Receipt(choice)]
             /\ command' = [pc |-> "publish", task |-> t]
    BY <1>3, ReceiptWritten
  <2>2. Receipt(choice) \in ReceiptOf /\ Receipt(choice).generation = generation[Receipt(choice).alias]
    BY <1>1, ReceiptNamed
  <2>3. generation[Receipt(choice).alias] \in Nat
    BY <2>2 DEF CircuitInv, Types, ReceiptOf
  <2>4. Named(t)'
    BY <1>1, <2>1, <2>2, <2>3 DEF Named, CircuitInv, Types
  <2>5. \A u \in Task \ {t} : receipt'[u] = receipt[u]
    BY <2>1 DEF CircuitInv, Types
  <2>6. Types'
    BY <1>1, <2>1 DEF CircuitInv, Types
  <2>7. Evidenced'
    BY <1>1, <2>5 DEF CircuitInv, Types, Evidenced, SentNamed, DecidedSent, Witnessed,
         FreshCurrent, Named, Current, DatedBy, Observed
  <2> QED
    BY <1>1, <2>1, <2>4, <2>6, <2>7 DEF CircuitInv, Selecting, Publishing, Observing
<1> QED
  BY <1>2, <1>3

LEMMA SendPublishKeeps == ASSUME CircuitInv, SendPublish PROVE CircuitInv'
<1> DEFINE t == command.task
<1>1. /\ UNCHANGED <<generation, validation, observation, open, resets, fresh>>
      /\ command' = Idle /\ sent' = sent \cup {t}
      /\ t \in Task \ sent /\ Named(t)
  BY DEF SendPublish, CircuitInv, Publishing
<1>2. receipt' = [u \in Task |-> IF u = t THEN [receipt[t] EXCEPT !.basis = <<>>] ELSE receipt[u]]
  BY <1>1 DEF SendPublish, CircuitInv, Types
<1>3. /\ receipt'[t] \in ReceiptOf
      /\ receipt'[t].alias = receipt[t].alias /\ receipt'[t].generation = receipt[t].generation
  BY <1>1, <1>2 DEF Named, ReceiptOf, Basis
<1>4. \A u \in Task : /\ receipt'[u].alias = receipt[u].alias
                      /\ receipt'[u].generation = receipt[u].generation
                      /\ receipt[u] \in ReceiptOf => receipt'[u] \in ReceiptOf
  BY <1>2, <1>3
<1>5. Types'
  BY <1>1, <1>2 DEF CircuitInv, Types
<1>7. \A u \in Task : \A e : /\ Named(u) => Named(u)'
                             /\ Current(u)' <=> Current(u)
                             /\ DatedBy(u, e)' <=> DatedBy(u, e)
  BY <1>1, <1>4 DEF Named, Current, DatedBy
<1>6. Evidenced'
  BY <1>1, <1>4, <1>7 DEF CircuitInv, Types, Evidenced, SentNamed, DecidedSent, Witnessed,
       FreshCurrent, Observed
<1> QED
  BY <1>1, <1>5, <1>6 DEF CircuitInv, Selecting, Publishing, Observing, Idle

\* ledger.record_validation, also over an earlier decision.
LEMMA RecordKeeps ==
    ASSUME CircuitInv, NEW t \in sent, NEW verdict \in Verdict, RecordValidation(t, verdict),
           UNCHANGED <<generation, receipt, sent, open, resets>>
    PROVE  Types' /\ Evidenced' /\ DatedBy(t, validation[t].epoch)'
<1> DEFINE epoch == resets[receipt[t].alias]
<1>1. t \in Task /\ Named(t) /\ epoch \in Nat
  BY DEF CircuitInv, Types, Evidenced, SentNamed, Named, ReceiptOf
<1>2. validation' = [u \in Task |-> IF u = t THEN [verdict |-> verdict, epoch |-> epoch]
                                    ELSE validation[u]]
  BY <1>1 DEF RecordValidation, CircuitInv, Types
<1>3. fresh' = IF Current(t) THEN fresh \cup {t} ELSE fresh \ {t}
  BY DEF RecordValidation, Current
<1>4. Types'
  <2>1. observation' = [u \in Task |-> observation'[u]]
    BY <1>1 DEF RecordValidation, CircuitInv, Types
  <2> QED
    BY <1>1, <1>2, <1>3, <2>1 DEF CircuitInv, Types
<1>5. \A u \in Task \ {t} : /\ observation'[u] = observation[u] /\ validation'[u] = validation[u]
                            /\ u \in fresh' <=> u \in fresh
  BY <1>1, <1>2, <1>3 DEF RecordValidation, CircuitInv, Types
<1>6. validation'[t].epoch = epoch
  BY <1>1, <1>2
<1>7. Current(t) => t \in fresh'
  BY <1>3
<1>8. DatedBy(t, epoch)'
  BY <1>1, <1>7 DEF DatedBy, Current
<1>11. \A u \in Task : \A e : /\ Named(u)' <=> Named(u)
                              /\ Current(u)' <=> Current(u)
                              /\ u # t => (DatedBy(u, e)' <=> DatedBy(u, e))
                              /\ DatedBy(t, e) => DatedBy(t, e)'
  BY <1>1, <1>5, <1>7 DEF Named, Current, DatedBy
<1>12. SentNamed' /\ DecidedSent'
  BY <1>1, <1>5, <1>6, <1>8, <1>11
     DEF CircuitInv, Types, Evidenced, SentNamed, DecidedSent
<1>13. FreshCurrent'
  BY <1>1, <1>3, <1>5, <1>6, <1>11 DEF CircuitInv, Types, Evidenced, FreshCurrent
<1>9. CASE observation[t] = None
  <2>1. observation' = observation
    BY <1>9 DEF RecordValidation
  <2>2. Observed' = Observed /\ t \notin Observed
    BY <1>9, <2>1 DEF Observed
  <2>3. Witnessed'
    BY <1>1, <1>5, <1>11, <2>1, <2>2 DEF CircuitInv, Evidenced, Witnessed, Observed
  <2> QED
    BY <1>4, <1>6, <1>8, <1>12, <1>13, <2>3 DEF Evidenced
<1>10. CASE observation[t] # None
  <2>1. t \in Observed
    BY <1>1, <1>10 DEF Observed
  <2>2. observation'[t] = [observation[t] EXCEPT !.bound = FALSE]
    BY <1>1, <1>10 DEF RecordValidation, CircuitInv, Types
  <2>3. /\ observation'[t] \in ObservationOf /\ ~observation'[t].bound
        /\ observation'[t].epoch = observation[t].epoch
    BY <2>1, <2>2 DEF CircuitInv, Evidenced, Witnessed, ObservationOf
  <2>4. DatedBy(t, observation[t].epoch)'
    BY <1>7, <2>1, <2>3 DEF CircuitInv, Evidenced, Witnessed, DatedBy, Current
  <2>5. \A u \in Observed' : u # t => u \in Observed
    BY <1>5 DEF Observed
  <2>6. Witnessed'
    BY <1>1, <1>5, <1>11, <2>3, <2>4, <2>5 DEF CircuitInv, Evidenced, Witnessed, Observed
  <2> QED
    BY <1>4, <1>6, <1>8, <1>12, <1>13, <2>6 DEF Evidenced
<1> QED
  BY <1>9, <1>10

LEMMA ValidateKeeps ==
    ASSUME CircuitInv, NEW t \in Task, NEW verdict \in Verdict,
           Validate(t, verdict) \/ ValidateObserved(t, verdict)
    PROVE  CircuitInv'
<1>1. t \in sent /\ UNCHANGED <<generation, receipt, sent, open, resets>>
  BY DEF Validate, ValidateObserved
<1>2. command'.pc \in {"idle", "observe"} /\ (command'.pc = "observe" => command'.task = t)
  BY DEF Validate, ValidateObserved, Idle
<1>3. CASE RecordValidation(t, verdict)
  BY <1>1, <1>2, <1>3, RecordKeeps DEF CircuitInv, Selecting, Publishing, Observing
<1>4. CASE ~RecordValidation(t, verdict)
  <2>1. validation[t] # None /\ UNCHANGED <<validation, fresh, observation>>
    BY <1>4 DEF Validate, ValidateObserved
  <2>2. Types' /\ Evidenced' /\ DatedBy(t, validation[t].epoch)'
    BY <1>1, <2>1 DEF CircuitInv, Types, Evidenced, SentNamed, DecidedSent, Witnessed,
       FreshCurrent, Named, Current, DatedBy, Observed
  <2> QED
    BY <1>1, <1>2, <2>2 DEF CircuitInv, Selecting, Publishing, Observing
<1> QED
  BY <1>3, <1>4

LEMMA ObserveKeeps == ASSUME CircuitInv, ValidateObserve PROVE CircuitInv'
<1> DEFINE t == command.task
           decided == [accepted |-> validation[t].verdict = "accepted",
                       epoch |-> validation[t].epoch, bound |-> TRUE]
<1>1. /\ UNCHANGED <<generation, receipt, sent, validation, open, resets, fresh>>
      /\ command'.pc \in {"idle", "refresh"}
      /\ t \in sent /\ DatedBy(t, validation[t].epoch)
      /\ \/ observation' = [observation EXCEPT ![t] = decided]
         \/ observation' = observation
  BY DEF ValidateObserve, CircuitInv, Observing, Idle
<1>2. t \in Task /\ decided \in ObservationOf
  BY <1>1 DEF CircuitInv, Types, DatedBy, ObservationOf
<1>3. Types' /\ SentNamed' /\ DecidedSent' /\ FreshCurrent'
  BY <1>1, <1>2 DEF CircuitInv, Types, Evidenced, SentNamed, DecidedSent, FreshCurrent,
     Named, Current, DatedBy
<1>4. Witnessed'
  <2>1. CASE observation' = observation
    BY <1>1, <2>1 DEF CircuitInv, Evidenced, Witnessed, Observed, DatedBy, Current
  <2>2. CASE observation' = [observation EXCEPT ![t] = decided]
    <3>1. observation'[t] = decided /\ \A u \in Task \ {t} : observation'[u] = observation[u]
      BY <1>2, <2>2 DEF CircuitInv, Types
    <3>2. \A u \in Observed' : u # t => u \in Observed
      BY <3>1 DEF Observed
    <3> QED
      BY <1>1, <1>2, <3>1, <3>2 DEF CircuitInv, Evidenced, Witnessed, Observed, DatedBy, Current
  <2> QED
    BY <1>1, <2>1, <2>2
<1> QED
  BY <1>1, <1>3, <1>4 DEF CircuitInv, Evidenced, Selecting, Publishing, Observing

LEMMA RefreshKeeps == ASSUME CircuitInv, ValidateRefresh PROVE CircuitInv'
<1>1. /\ UNCHANGED <<generation, receipt, sent, validation, observation, resets, fresh>>
      /\ command' = Idle /\ open' \subseteq Alias
  BY DEF ValidateRefresh, routing, RefreshCircuits, CircuitInv, Types
<1> QED
  BY <1>1 DEF CircuitInv, Types, Evidenced, SentNamed, DecidedSent, Witnessed, FreshCurrent,
     Named, Current, DatedBy, Observed, Selecting, Publishing, Observing, Idle

LEMMA ResetKeeps == ASSUME CircuitInv, NEW a \in Alias, ResetCircuit(a) PROVE CircuitInv'
<1>1. /\ UNCHANGED <<generation, receipt, sent, validation, observation, command>>
      /\ command = Idle /\ open' = open \ {a} /\ fresh' = fresh \ OfAlias(a)
  BY DEF ResetCircuit, routing
<1>2. resets' = [b \in Alias |-> IF b = a THEN resets[a] + 1 ELSE resets[b]]
  BY DEF ResetCircuit, CircuitInv, Types
<1>3. \A t \in sent : /\ receipt[t].alias \in Alias /\ receipt[t] # None
                      /\ t \in OfAlias(a) <=> receipt[t].alias = a
  BY NoneIsNoReceipt DEF CircuitInv, Types, Evidenced, SentNamed, Named, ReceiptOf, OfAlias
<1>4. \A b \in Alias : resets[b] \in Nat
  BY DEF CircuitInv, Types
<1>5. Types' /\ SentNamed'
  BY <1>1, <1>2 DEF CircuitInv, Types, Evidenced, SentNamed, Named
<1>6. ASSUME NEW t \in sent, NEW e, DatedBy(t, e) PROVE DatedBy(t, e)'
  <2>1. CASE receipt[t].alias = a
    BY <1>1, <1>2, <1>3, <1>4, <1>6, <2>1 DEF DatedBy, Current
  <2>2. CASE receipt[t].alias # a
    BY <1>1, <1>2, <1>3, <1>4, <1>6, <2>2 DEF DatedBy, Current
  <2> QED
    BY <2>1, <2>2
<1>7. DecidedSent' /\ Witnessed'
  BY <1>1, <1>6 DEF CircuitInv, Evidenced, DecidedSent, Witnessed, Observed
<1>8. FreshCurrent'
  BY <1>1, <1>2, <1>3 DEF CircuitInv, Evidenced, FreshCurrent, Current
<1> QED
  BY <1>1, <1>5, <1>7, <1>8 DEF CircuitInv, Evidenced, Selecting, Publishing, Observing, Idle

LEMMA ReplaceKeeps == ASSUME CircuitInv, NEW a \in Alias, Replace(a) PROVE CircuitInv'
<1>1. /\ UNCHANGED <<resets, open, receipt, sent, validation, observation, command>>
      /\ command = Idle /\ fresh' = fresh \ OfAlias(a)
  BY DEF Replace, routing
<1>2. generation' = [b \in Alias |-> IF b = a THEN generation[a] + 1 ELSE generation[b]]
  BY DEF Replace, CircuitInv, Types
<1>3. \A t \in sent : /\ receipt[t].alias \in Alias /\ receipt[t] # None
                      /\ receipt[t].generation \in Nat
                      /\ receipt[t].generation <= generation[receipt[t].alias]
                      /\ t \in OfAlias(a) <=> receipt[t].alias = a
  BY NoneIsNoReceipt DEF CircuitInv, Types, Evidenced, SentNamed, Named, ReceiptOf, OfAlias
<1>4. \A b \in Alias : generation[b] \in Nat
  BY DEF CircuitInv, Types
<1>5. Types'
  BY <1>1, <1>2, <1>4 DEF CircuitInv, Types
<1>6. SentNamed'
  <2>1. ASSUME NEW t \in sent PROVE receipt[t].generation <= generation'[receipt[t].alias]
    BY <1>2, <1>3, <1>4
  <2> QED
    BY <1>1, <2>1 DEF CircuitInv, Evidenced, SentNamed, Named
<1>7. ASSUME NEW t \in sent, NEW e, DatedBy(t, e) PROVE DatedBy(t, e)'
  <2>1. CASE receipt[t].alias = a
    BY <1>1, <1>2, <1>3, <1>4, <1>7, <2>1 DEF DatedBy, Current
  <2>2. CASE receipt[t].alias # a
    BY <1>1, <1>2, <1>3, <1>7, <2>2 DEF DatedBy, Current
  <2> QED
    BY <2>1, <2>2
<1>8. DecidedSent' /\ Witnessed'
  BY <1>1, <1>7 DEF CircuitInv, Evidenced, DecidedSent, Witnessed, Observed
<1>9. FreshCurrent'
  BY <1>1, <1>2, <1>3 DEF CircuitInv, Evidenced, FreshCurrent, Current
<1> QED
  BY <1>1, <1>5, <1>6, <1>8, <1>9
     DEF CircuitInv, Evidenced, Selecting, Publishing, Observing, Idle

\* Nothing happens, but for the end of the command.
Quiet == UNCHANGED <<generation, routing, open, resets, fresh>> /\ command' \in {Idle, command}
LEMMA QuietKeeps == ASSUME CircuitInv, Quiet PROVE CircuitInv'
<1>1. /\ UNCHANGED <<generation, receipt, sent, validation, observation, open, resets, fresh>>
      /\ command' = Idle \/ command' = command
  BY DEF Quiet, routing
<1> USE DEF CircuitInv, Types, Evidenced, SentNamed, DecidedSent, Witnessed, FreshCurrent,
     Named, Current, DatedBy, Observed
<1>2. Types' /\ Evidenced'
  BY <1>1
<1>3. CASE command' = Idle
  BY <1>2, <1>3 DEF Selecting, Publishing, Observing, Idle
<1>4. CASE command' = command
  <2>1. Refreshed => Refreshed'
    BY <1>1, <1>4 DEF Refreshed, CandidateRejected, CircuitRows, PromotionEpoch,
       CurrentGeneration
  <2>2. Readable => Readable'
    BY <1>1 DEF Readable
  <2> QED
    BY <1>1, <1>2, <1>4, <2>1, <2>2 DEF Selecting, Admissible, Publishing, Observing
<1> QED
  BY <1>1, <1>3, <1>4

LEMMA InvStep == CircuitInv /\ [Next]_vars => CircuitInv'
BY SendKeeps, SendReceiptKeeps, SendPublishKeeps, ValidateKeeps, ObserveKeeps, RefreshKeeps,
   ResetKeeps, ReplaceKeeps, QuietKeeps DEF Next, Kill, vars, Quiet

\* The inductive invariant of the module holds in every reachable state.
THEOREM Invariance == Spec => []CircuitInv
BY InvInit, InvStep, PTL DEF Spec

-----------------------------------------------------------------------------
(* The circuit: its properties *)

\* A task gets a receipt in one action only.
LEMMA DecidedBySend ==
    ASSUME CircuitInv, [Next]_vars, NEW t \in Task, receipt[t] = None, receipt'[t] # None
    PROVE  /\ SendReceipt /\ t = command.task /\ command.pc = "select"
           /\ \E choice \in Select(command.request, command.eligible) :
                 receipt'[t] = Receipt(choice)
<1>1. SendReceipt \/ SendPublish \/ receipt' = receipt
  BY DEF Next, Send, Validate, ValidateObserved, ValidateObserve, ValidateRefresh,
     ResetCircuit, Replace, Kill, routing, vars
<1>2. CASE SendPublish
  <2>1. command.task \in Task /\ receipt[command.task] # None
    BY <1>2, NoneIsNoReceipt DEF SendPublish, CircuitInv, Types, Publishing, Named
  <2>2. t # command.task
    BY <2>1
  <2>3. receipt'[t] = receipt[t]
    BY <1>2, <2>2 DEF SendPublish, CircuitInv, Types
  <2> QED
    BY <2>3
<1>3. CASE SendReceipt
  <2>1. PICK choice \in Select(command.request, command.eligible) :
             receipt' = [receipt EXCEPT ![command.task] = Receipt(choice)]
    BY <1>3, ReceiptWritten
  <2> QED
    BY <1>3, <2>1 DEF SendReceipt, CircuitInv, Types
<1> QED
  BY <1>1, <1>2, <1>3

\* What counts for the choice is evidence in the sense of the properties.
LEMMA CountedIsEvidence ==
    ASSUME CircuitInv, NEW eligible, NEW a,
           NEW t \in AcceptedOf(PromotionEpoch(CurrentGeneration(eligible))),
           receipt[t].alias = a
    PROVE  t \in AcceptedOf(Evidence(a))
BY DEF AcceptedOf, PromotionEpoch, CurrentGeneration, Evidence, CircuitInv, Evidenced,
   Witnessed, DatedBy, Current

\* Live traffic goes to the candidate only after enough accepted results of every
\* eligible alias since its circuit was last reset and its identity last replaced, for
\* any number of tasks, resets and replaced identities.
THEOREM LiveIsEarned == Spec => LiveEarned
<1>1. ASSUME CircuitInv, [Next]_vars, NEW t \in Decided({"live"}), NEW a \in command.eligible
      PROVE  Cardinality(AcceptedOf(Evidence(a))) >= MinAccepted
  <2>1. t \in Task /\ receipt'[t] # None /\ receipt[t] = None /\ receipt'[t].mode = "live"
    BY DEF Decided
  <2>2. PICK choice \in Select(command.request, command.eligible) : receipt'[t] = Receipt(choice)
    BY <1>1, <2>1, DecidedBySend
  <2>3. command.pc = "select"
    BY <1>1, <2>1, DecidedBySend
  <2>4. choice[2] = "live"
    BY <1>1, <2>1, <2>2, <2>3, ReceiptNamed
  <2>5. BalancedReady(command.eligible)
    BY <1>1, <2>3, <2>4, Chosen DEF CircuitInv, Selecting
  <2> DEFINE counted == {u \in AcceptedOf(PromotionEpoch(CurrentGeneration(command.eligible))) :
                            receipt[u].alias = a}
  <2>6. Cardinality(counted) >= MinAccepted
    BY <2>5 DEF BalancedReady
  <2>7. counted \subseteq AcceptedOf(Evidence(a))
    BY <1>1, CountedIsEvidence
  <2>8. IsFiniteSet(AcceptedOf(Evidence(a)))
    <3>1. AcceptedOf(Evidence(a)) \subseteq Task
      BY DEF AcceptedOf, Evidence, Observed
    <3> QED
      BY <3>1, CanaryConstants, FS_Subset
  <2>9. /\ IsFiniteSet(counted) /\ Cardinality(counted) \in Nat
        /\ Cardinality(AcceptedOf(Evidence(a))) \in Nat
        /\ Cardinality(counted) <= Cardinality(AcceptedOf(Evidence(a)))
    BY <2>7, <2>8, FS_Subset, FS_CardinalityType
  <2> HIDE DEF counted
  <2> QED
    BY <2>6, <2>9, CanaryConstants
<1>2. CircuitInv /\ [Next]_vars =>
        [\A t \in Decided({"live"}) : \A a \in command.eligible :
            Cardinality(AcceptedOf(Evidence(a))) >= MinAccepted]_vars
  BY <1>1
<1> QED
  BY <1>2, InvInit, InvStep, PTL DEF Spec, LiveEarned

\* After a rejected live result an alias gets neither live nor shadow tasks until its
\* circuit is reset or its identity replaced, also when the command that recorded the
\* result was killed, for any number of commands, kills and replaced identities.
THEOREM RejectedIsCutOff == Spec => RejectedGetsNothing
<1>1. ASSUME CircuitInv, [Next]_vars, NEW t \in Decided({"live", "shadow"}),
             NEW u \in Evidence(receipt'[t].alias),
             receipt[u].mode = "live", ~observation[u].accepted
      PROVE  FALSE
  <2> DEFINE a == receipt'[t].alias
  <2>1. /\ t \in Task /\ receipt'[t] # None /\ receipt[t] = None
        /\ receipt'[t].mode \in {"live", "shadow"}
    BY DEF Decided
  <2>2. PICK choice \in Select(command.request, command.eligible) : receipt'[t] = Receipt(choice)
    BY <1>1, <2>1, DecidedBySend
  <2>3. command.pc = "select"
    BY <1>1, <2>1, DecidedBySend
  <2>4. choice[2] \in {"live", "shadow"} /\ a = choice[1]
    BY <1>1, <2>1, <2>2, <2>3, ReceiptNamed
  <2>5. a \in command.eligible \ open /\ command.request.kind # "recovery" /\ a \in Alias
    BY <1>1, <2>3, <2>4, Chosen DEF CircuitInv, Selecting
  <2>6. Readable /\ Refreshed
    BY <1>1, <2>3, <2>5 DEF CircuitInv, Selecting
  <2>7. /\ u \in fresh /\ u \in Observed /\ receipt[u].alias = a
        /\ Current(u) /\ observation[u].epoch = resets[a]
    BY <1>1, <2>6 DEF Evidence, CircuitInv, Evidenced, FreshCurrent, Witnessed, Readable
  <2>8. u \in CircuitRows(CurrentGeneration(command.eligible), a)
    BY <1>1, <2>5, <2>7 DEF CircuitRows, PromotionEpoch, CurrentGeneration, Current
  <2>9. CandidateRejected(CurrentGeneration(command.eligible), a)
    BY <1>1, <2>8 DEF CandidateRejected
  <2> QED
    BY <2>5, <2>6, <2>9 DEF Refreshed
<1>2. CircuitInv /\ [Next]_vars =>
        [\A t \in Decided({"live", "shadow"}) :
            ~\E u \in Evidence(receipt'[t].alias) :
                receipt[u].mode = "live" /\ ~observation[u].accepted]_vars
  BY <1>1
<1> QED
  BY <1>2, InvInit, InvStep, PTL DEF Spec, RejectedGetsNothing

\* An open circuit closes by an operator's reset only, whatever becomes of the
\* evidence that opened it.
THEOREM OpenStays == Spec => OpenIsSticky
<1>1. ASSUME CircuitInv, [Next]_vars, NEW a \in open \ open'
      PROVE  resets'[a] = resets[a] + 1
  <2>1. PICK b \in Alias : ResetCircuit(b)
    BY <1>1 DEF Next, Send, SendReceipt, SendPublish, Validate, ValidateObserved,
       ValidateObserve, ValidateRefresh, RefreshCircuits, Replace, Kill, vars
  <2> QED
    BY <1>1, <2>1 DEF ResetCircuit, CircuitInv, Types
<1>2. CircuitInv /\ [Next]_vars => [\A a \in open \ open' : resets'[a] = resets[a] + 1]_vars
  BY <1>1
<1> QED
  BY <1>2, InvInit, InvStep, PTL DEF Spec, OpenIsSticky
-----------------------------------------------------------------------------
(* The campaign: its inductive invariant *)

IncumbentTasks == {Pairs[n][1] : n \in DOMAIN Pairs}
CandidateTasks == {Pairs[n][2] : n \in DOMAIN Pairs}
ShadowTasks == {Shadows[n] : n \in DOMAIN Shadows}
Trial == ShadowTasks \cup {Canary}
Running == campaign # Off
In(phases) == Running /\ campaign.phase \in phases
Proper == {"recovery", "post_reset", "production", "fallback"}
AfterReset == {"post_reset", "production", "fallback"}
OutcomeOf == [accepted : BOOLEAN, reported : BOOLEAN]

\* Where the driver can be, and the job it is at.
Jobs ==
    /\ campaign = Off \/ campaign \in [at : {"publish", "publishing", "execute", "complete",
                                             "validating", "gate", "report"},
                                       phase : Proper \cup {"panel"}, n : Nat, k : Nat]
    /\ In({"panel"}) => /\ campaign.k \in DOMAIN AliasOrder /\ campaign.n \in 1..Rounds
                        /\ campaign.at # "gate"
    /\ In(Proper) => /\ campaign.n \in DOMAIN Batches(campaign.phase)
                     /\ campaign.k \in DOMAIN Batch
                     /\ campaign.at = "execute" => campaign.k = 1
                     /\ campaign.at # "report"
    /\ records \in [Task -> OutcomeOf \cup {None}]

JobNow == IF campaign.phase = "panel" THEN Job ELSE BatchJob

\* The command that runs is the driver's, at its job, or one of the OA's own; what
\* it asks for, it asks for this job.
Commanded ==
    /\ command.pc \in {"idle", "select", "publish", "observe", "refresh"}
    /\ command.pc = "idle" => command = Idle
    /\ Running /\ command.pc \in {"select", "publish"} =>
           campaign.at = "publishing" /\ command.task = JobNow
    /\ Running /\ command.pc \in {"observe", "refresh"} =>
           campaign.at = "validating" /\ command.task = JobNow
    /\ ~Running /\ command.pc # "idle" => command.task \in Ordinary /\ experiment
    /\ command.pc = "select" =>
           (command.request.kind = "recovery") <=> (command.task \in CandidateTasks)
    /\ command.pc = "observe" => command.task \notin IncumbentTasks

\* Recovery shadows are the candidate's tasks of the pairs, the incumbent's are never
\* observed, and identities are not replaced.
Receipts ==
    /\ generation = [a \in Alias |-> 1]
    /\ \A t \in Task : receipt[t] # None =>
           /\ receipt[t].generation = 1
           /\ (receipt[t].mode = "recovery_shadow") <=> (t \in CandidateTasks)
    /\ command.pc = "publish" => receipt[command.task] # None
    /\ \A t \in IncumbentTasks : observation[t] = None

\* Panel, seal and reset come in this order, and once.
Sequenced ==
    /\ sealed # None => experiment /\ Candidate \in sealed[1] /\ sealed[2][Candidate] = 0
    /\ sealed = None => resets[Candidate] = 0
    /\ resets[Candidate] \in {0, 1}
    /\ experiment => sent # {}
    /\ In({"panel"}) => ~experiment /\ (campaign.at \in {"execute", "complete", "validating", "report"} => sent # {})
    /\ In(Proper) => sealed # None
    /\ evidence # None => ~Running /\ sealed # None
    /\ In({"recovery"}) => resets[Candidate] = 0 /\ Candidate \in open
    /\ In(AfterReset) => resets[Candidate] = 1
    /\ sent \subseteq Ordinary \cup PanelTasks \cup PairTasks \cup Trial \cup {Fallback}
    /\ resets[Candidate] = 0 => sent \cap (Trial \cup {Fallback}) = {}
    /\ In({"post_reset"}) => Canary \notin sent
    /\ In({"post_reset", "production"}) => Fallback \notin sent

\* The tasks of the batch that were executed and are still to be decided.
Awaiting(t) ==
    \E j \in DOMAIN Batch :
        /\ t = Batch[j]
        /\ \/ campaign.at = "complete" /\ j >= campaign.k
           \/ campaign.at = "validating" /\ j > campaign.k

\* What the driver keeps of a provider's answer is what the ledger has decided, and
\* what the answer's tokens are recorded for is observed.
Agreed(t) ==
    /\ validation[t] # None
    /\ validation[t].verdict = IF records[t].accepted THEN "accepted" ELSE "rejected"
Tallied ==
    In(Proper) =>
        /\ \A t \in Task : records[t] # None =>
               \/ Awaiting(t)
               \/ /\ Agreed(t)
                  /\ records[t].reported /\ t \notin IncumbentTasks =>
                        observation[t] # None \/ command = [pc |-> "observe", task |-> t]
        /\ campaign.at \in {"complete", "validating", "gate"} =>
               \A j \in DOMAIN Batch : records[Batch[j]] # None

\* What is still to be executed has no record.
Ahead ==
    /\ In({"recovery"}) => \A t \in Trial : records[t] = None
    /\ In({"post_reset"}) =>
           /\ records[Canary] = None
           /\ \A m \in DOMAIN Shadows :
                 m > campaign.n \/ (m = campaign.n /\ campaign.at \in {"publish", "publishing", "execute"})
                    => records[Shadows[m]] = None
    /\ In({"production"}) /\ campaign.at \in {"publish", "publishing", "execute"} => records[Canary] = None

\* The evidence after the reset: observations of the new epoch are of this campaign's
\* shadows and canary, made once, and say what the driver knows.
Renewed ==
    In({"post_reset", "production"}) =>
        /\ \A t \in Observed :
               observation[t].epoch = 1 /\ receipt[t].alias = Candidate => t \in Trial
        /\ \A t \in Trial :
               /\ validation[t] # None => records[t] # None /\ ~Awaiting(t) /\ t \in fresh
               /\ t \in Observed => /\ validation[t] # None
                                    /\ observation[t].accepted = (validation[t].verdict = "accepted")
        /\ \A t \in ShadowTasks : records[t] # None => receipt[t].alias = Candidate
        /\ In({"post_reset"}) /\ campaign.at = "execute" => receipt[BatchJob].alias = Candidate

Earned == \A n \in DOMAIN Shadows : Shadows[n] \in AcceptedOf(Evidence(Candidate))
\* In production the shadows were accepted, and the circuit is closed until the canary
\* is rejected; the probe follows a rejection.
Producing ==
    /\ In({"production"}) =>
           /\ Earned
           /\ records[Canary] = None \/ records[Canary].accepted => Candidate \notin open
    /\ In({"fallback"}) => validation[Canary] # None /\ validation[Canary].verdict = "rejected"

\* Nothing but the job is in a mailbox after the reset.
Emptied ==
    In(AfterReset) =>
        /\ work \subseteq {BatchJob}
        /\ campaign.at \in {"publish", "validating", "gate"} => work = {}

CampaignInv ==
    /\ CircuitInv
    /\ Jobs /\ Commanded /\ Receipts /\ Sequenced
    /\ Tallied /\ Ahead /\ Renewed /\ Producing /\ Emptied /\ VerdictTruthful

-----------------------------------------------------------------------------
(* Whose task a job is *)

\* The suite's parts have no task in common.
LEMMA Parts ==
    /\ PanelTasks \cap PairTasks = {} /\ PanelTasks \cap ShadowTasks = {}
    /\ PairTasks \cap ShadowTasks = {} /\ Ordinary \cap PanelTasks = {}
    /\ Ordinary \cap PairTasks = {} /\ Ordinary \cap ShadowTasks = {}
    /\ Canary \notin Ordinary \cup PanelTasks \cup PairTasks \cup ShadowTasks
    /\ Fallback \notin Ordinary \cup PanelTasks \cup PairTasks \cup ShadowTasks \cup {Canary}
    /\ IncumbentTasks \cap CandidateTasks = {} /\ PairTasks = IncumbentTasks \cup CandidateTasks
    /\ Ordinary \cup PanelTasks \cup PairTasks \cup ShadowTasks \cup {Canary, Fallback} \subseteq Task
<1> DEFINE parts == <<Ordinary, PanelTasks, PairTasks, ShadowTasks, {Canary}, {Fallback}>>
<1>1. \A i, j \in 1..6 : i # j => parts[i] \cap parts[j] = {}
  BY SuiteAssumption DEF ShadowTasks
<1>2. /\ parts[1] = Ordinary /\ parts[2] = PanelTasks /\ parts[3] = PairTasks
      /\ parts[4] = ShadowTasks /\ parts[5] = {Canary} /\ parts[6] = {Fallback}
  OBVIOUS
<1> HIDE DEF parts
<1>3. /\ PanelTasks \cap PairTasks = {} /\ PanelTasks \cap ShadowTasks = {}
      /\ PairTasks \cap ShadowTasks = {} /\ Ordinary \cap PanelTasks = {}
      /\ Ordinary \cap PairTasks = {} /\ Ordinary \cap ShadowTasks = {}
  <2>1. parts[2] \cap parts[3] = {} /\ parts[2] \cap parts[4] = {} /\ parts[3] \cap parts[4] = {}
    BY <1>1
  <2>2. parts[1] \cap parts[2] = {} /\ parts[1] \cap parts[3] = {} /\ parts[1] \cap parts[4] = {}
    BY <1>1
  <2> QED  BY <1>2, <2>1, <2>2
<1>4. Canary \notin Ordinary \cup PanelTasks \cup PairTasks \cup ShadowTasks
  <2>1. /\ parts[1] \cap parts[5] = {} /\ parts[2] \cap parts[5] = {} /\ parts[3] \cap parts[5] = {}
        /\ parts[4] \cap parts[5] = {}
    BY <1>1
  <2> QED  BY <1>2, <2>1
<1>5. Fallback \notin Ordinary \cup PanelTasks \cup PairTasks \cup ShadowTasks \cup {Canary}
  <2>1. /\ parts[1] \cap parts[6] = {} /\ parts[2] \cap parts[6] = {} /\ parts[3] \cap parts[6] = {}
        /\ parts[4] \cap parts[6] = {} /\ parts[5] \cap parts[6] = {}
    BY <1>1
  <2> QED  BY <1>2, <2>1
<1>6. IncumbentTasks \cap CandidateTasks = {}
  BY SuiteAssumption DEF IncumbentTasks, CandidateTasks
<1>7. PairTasks = IncumbentTasks \cup CandidateTasks
  BY DEF PairTasks, IncumbentTasks, CandidateTasks
<1>8. PairTasks \subseteq Task /\ ShadowTasks \subseteq Task
  BY SuiteAssumption DEF PairTasks, ShadowTasks
<1>9. PanelTasks \subseteq Task
  BY PanelAssumption DEF PanelTasks
<1> QED
  BY <1>3, <1>4, <1>5, <1>6, <1>7, <1>8, <1>9, SuiteAssumption

LEMMA PanelJob ==
    ASSUME Jobs, In({"panel"})
    PROVE  Job \in PanelTasks /\ JobNow = Job /\ AliasOrder[campaign.k] \in Alias
<1> DEFINE a == AliasOrder[campaign.k]
           tasks == PanelTask[a]
<1>1. a \in Alias /\ campaign.k \in Nat /\ campaign.k >= 1 /\ campaign.n \in 1..Rounds
  BY PanelAssumption DEF Jobs
<1>2. tasks \in Seq(Task) /\ Len(tasks) = Rounds /\ Rounds \in Nat \ {0}
  <2>1. AliasOrder[1] \in Alias
    BY PanelAssumption
  <2> QED  BY <1>1, <2>1, PanelAssumption DEF Rounds
<1> DEFINE i == ((campaign.n + campaign.k - 2) % Len(tasks)) + 1
<1>3. i \in DOMAIN tasks
  <2>1. ASSUME NEW x \in Nat, NEW d \in Nat \ {0} PROVE (x % d) \in 0..(d - 1)
    OBVIOUS
  <2>2. campaign.n + campaign.k - 2 \in Nat
    BY <1>1, <1>2
  <2>3. (campaign.n + campaign.k - 2) % Len(tasks) \in 0..(Len(tasks) - 1)
    BY <1>2, <2>1, <2>2
  <2>4. i \in 1..Rounds
    BY <1>2, <2>3
  <2> QED  BY <1>2, <2>4
<1>4. Job = tasks[i]
  BY <1>1, <1>2 DEF Job, Assignment
<1>5. tasks[i] \in PanelTasks
  BY <1>1, <1>3 DEF PanelTasks
<1> QED  BY <1>1, <1>4, <1>5 DEF JobNow, In

\* The batches of each phase.
LEMMA BatchOf ==
    ASSUME Jobs, In(Proper)
    PROVE  /\ Batch \in Seq(Task) /\ Batch # <<>> /\ BatchJob \in Task /\ JobNow = BatchJob
           /\ campaign.n \in 1..Len(Batches(campaign.phase)) /\ campaign.k \in 1..Len(Batch)
           /\ BatchJob = Batch[campaign.k]
           /\ campaign.phase = "recovery" =>
                 /\ campaign.n \in DOMAIN Pairs /\ Len(Batch) = 2
                 /\ Batch[1] = Pairs[campaign.n][1] /\ Batch[2] = Pairs[campaign.n][2]
                 /\ BatchJob \in IF campaign.k = 1 THEN IncumbentTasks ELSE CandidateTasks
           /\ campaign.phase = "post_reset" =>
                 campaign.n \in DOMAIN Shadows /\ Batch = <<Shadows[campaign.n]>> /\ BatchJob \in ShadowTasks
           /\ campaign.phase = "production" => Batch = <<Canary>> /\ BatchJob = Canary
           /\ campaign.phase = "fallback" => Batch = <<Fallback>> /\ BatchJob = Fallback
<1>0. /\ campaign.phase \in Proper /\ campaign.n \in DOMAIN Batches(campaign.phase)
      /\ campaign.k \in DOMAIN Batch
  BY DEF Jobs, In
<1>1. CASE campaign.phase = "recovery"
  <2>1. Batches(campaign.phase) = Pairs
    BY <1>1 DEF Batches
  <2>2. campaign.n \in DOMAIN Pairs /\ Batch = Pairs[campaign.n] /\ Batch \in Task \X Task
    BY <1>0, <2>1, SuiteAssumption DEF Batch
  <2>3. PICK a \in Task, b \in Task : Batch = <<a, b>>
    BY <2>2
  <2>4. Batch \in Seq(Task) /\ Len(Batch) = 2 /\ campaign.k \in 1..2 /\ BatchJob = Batch[campaign.k]
    BY <1>0, <2>3 DEF BatchJob
  <2>5. BatchJob \in IF campaign.k = 1 THEN IncumbentTasks ELSE CandidateTasks
    BY <2>2, <2>4 DEF IncumbentTasks, CandidateTasks
  <2>6. campaign.n \in 1..Len(Batches(campaign.phase))
    BY <2>1, <2>2, SuiteAssumption
  <2> QED  BY <1>1, <2>2, <2>3, <2>4, <2>5, <2>6 DEF JobNow
<1>2. CASE campaign.phase = "post_reset"
  <2>1. Batches(campaign.phase) = [n \in DOMAIN Shadows |-> <<Shadows[n]>>]
    BY <1>2 DEF Batches
  <2>2. campaign.n \in DOMAIN Shadows /\ Batch = <<Shadows[campaign.n]>> /\ Shadows[campaign.n] \in ShadowTasks
    BY <1>0, <2>1 DEF Batch, ShadowTasks
  <2>3. campaign.k = 1 /\ BatchJob = Shadows[campaign.n] /\ Shadows[campaign.n] \in Task
    BY <1>0, <2>2, SuiteAssumption DEF BatchJob
  <2>4. campaign.n \in 1..Len(Batches(campaign.phase))
    <3>1. \A n \in 1..Len(Shadows) : <<Shadows[n]>> \in Seq(Task)
      BY SuiteAssumption
    <3>2. DOMAIN Shadows = 1..Len(Shadows) /\ Len(Shadows) \in Nat
      BY SuiteAssumption
    <3>3. Len(Batches(campaign.phase)) = Len(Shadows)
      BY <2>1, <3>1, <3>2
    <3> QED  BY <2>2, <3>2, <3>3
  <2> QED  BY <1>2, <2>2, <2>3, <2>4 DEF JobNow
<1>3. CASE campaign.phase = "production"
  <2>1. Batches(campaign.phase) = <<<<Canary>>>>
    BY <1>3 DEF Batches
  <2>2. campaign.n = 1 /\ Batch = <<Canary>>
    BY <1>0, <2>1 DEF Batch
  <2>3. campaign.k = 1 /\ BatchJob = Canary /\ BatchJob = Batch[1] /\ Len(Batch) = 1
    BY <1>0, <2>2 DEF BatchJob
  <2>4. Len(Batches(campaign.phase)) = 1
    BY <2>1
  <2>5. Batch \in Seq(Task) /\ Batch # <<>>
    BY <2>2, SuiteAssumption
  <2>6. Canary \in Task /\ JobNow = BatchJob
    BY <1>3, SuiteAssumption DEF JobNow
  <2>7. campaign.n \in 1..Len(Batches(campaign.phase)) /\ campaign.k \in 1..Len(Batch)
    BY <2>2, <2>3, <2>4
  <2>8. BatchJob = Batch[campaign.k]
    BY <2>3
  <2> HIDE DEF Proper
  <2> QED  BY <1>3, <2>2, <2>3, <2>5, <2>6, <2>7, <2>8
<1>4. CASE campaign.phase = "fallback"
  <2>1. Batches(campaign.phase) = <<<<Fallback>>>>
    BY <1>4 DEF Batches
  <2>2. campaign.n = 1 /\ Batch = <<Fallback>>
    BY <1>0, <2>1 DEF Batch
  <2>3. campaign.k = 1 /\ BatchJob = Fallback /\ BatchJob = Batch[1] /\ Len(Batch) = 1
    BY <1>0, <2>2 DEF BatchJob
  <2>4. Len(Batches(campaign.phase)) = 1
    BY <2>1
  <2>5. Batch \in Seq(Task) /\ Batch # <<>>
    BY <2>2, SuiteAssumption
  <2>6. Fallback \in Task /\ JobNow = BatchJob
    BY <1>4, SuiteAssumption DEF JobNow
  <2>7. campaign.n \in 1..Len(Batches(campaign.phase)) /\ campaign.k \in 1..Len(Batch)
    BY <2>2, <2>3, <2>4
  <2>8. BatchJob = Batch[campaign.k]
    BY <2>3
  <2> HIDE DEF Proper
  <2> QED  BY <1>4, <2>2, <2>3, <2>5, <2>6, <2>7, <2>8
<1> QED  BY <1>0, <1>1, <1>2, <1>3, <1>4 DEF Proper

-----------------------------------------------------------------------------
(* What the conjuncts of the invariant have in common *)

LEMMA NoVerdict == evidence = None => VerdictTruthful
BY CampaignAbsent DEF VerdictTruthful

\* Outside of a campaign there is nothing to say of its progress.
LEMMA Outside ==
    ~In(Proper) => Tallied /\ Ahead /\ Renewed /\ Producing /\ Emptied
BY DEF In, Tallied, Ahead, Renewed, Producing, Emptied, Proper, AfterReset

LEMMA StopsOutside == campaign = Off => ~In(Proper)
BY DEF In, Running

\* A driver that runs has not concluded.
LEMMA Undecided == ASSUME CampaignInv, Running PROVE evidence = None
BY DEF CampaignInv, Sequenced

LEMMA NotRunning == ASSUME Jobs PROVE (campaign.at = "off") <=> ~Running
BY DEF Jobs, Running, Off

\* What is decided or observed was sent, and what was sent has a receipt.
LEMMA RowsOf ==
    ASSUME CircuitInv
    PROVE  /\ \A t \in Task : validation[t] # None => t \in sent
           /\ \A t \in Observed : t \in sent /\ observation[t] \in ObservationOf
           /\ \A t \in Observed : observation[t].epoch <= resets[receipt[t].alias]
           /\ \A t \in sent : t \in Task /\ receipt[t] # None /\ receipt[t].alias \in Alias
           /\ fresh \subseteq sent
<1>1. \A t \in sent : receipt[t] \in ReceiptOf
  BY DEF CircuitInv, Evidenced, SentNamed, Named
<1>2. \A t \in ReceiptOf : t # None /\ t.alias \in Alias
  BY NoneIsNoReceipt DEF ReceiptOf
<1> QED
  BY <1>1, <1>2 DEF CircuitInv, Types, Evidenced, DecidedSent, Witnessed, FreshCurrent, DatedBy

LEMMA CampaignInvInit == CampaignInit => CampaignInv
<1> SUFFICES ASSUME CampaignInit PROVE CampaignInv
  OBVIOUS
<1>1. Init /\ campaign = Off /\ experiment = FALSE /\ sealed = None /\ evidence = None
      /\ records = [t \in Task |-> None]
  BY DEF CampaignInit, PanelInit
<1>2. CircuitInv
  BY <1>1, InvInit
<1>3. Jobs
  BY <1>1 DEF Jobs, In, Running
<1>4. Commanded
  BY <1>1 DEF Commanded, Running, Init, Idle
<1>5. Receipts
  BY <1>1, Parts DEF Receipts, Init, Idle
<1>6. Sequenced
  BY <1>1, CanaryConstants DEF Sequenced, In, Running, Init
<1> QED
  BY <1>1, <1>2, <1>3, <1>4, <1>5, <1>6, Outside, StopsOutside, NoVerdict DEF CampaignInv

\* A driver ends: it raised, was killed with the command it ran, or has concluded.
LEMMA StopKeeps ==
    ASSUME CampaignInv, Running, Abort, Quiet, command' = Idle,
           UNCHANGED <<records, sealed>>,
           experiment' = experiment \/ (experiment' = TRUE /\ sent # {}),
           evidence' = evidence \/ (sealed # None /\ VerdictTruthful')
    PROVE  CampaignInv'
<1>1. campaign' = Off /\ Off.at = "off"
  BY DEF Abort, Off
<1>2. UNCHANGED <<generation, receipt, sent, validation, observation, open, resets, fresh>>
  BY DEF Quiet, routing
<1>3. CircuitInv'
  BY QuietKeeps DEF CampaignInv
<1>4. Jobs'
  BY <1>1 DEF Jobs, In, Running, CampaignInv
<1>5. Commanded'
  BY DEF Commanded, Idle
<1>6. Receipts'
  BY <1>2 DEF Receipts, Idle, CampaignInv
<1>7. Sequenced'
  BY <1>1, <1>2 DEF Sequenced, In, Running, CampaignInv
<1>8. VerdictTruthful'
  <2>1. (evidence = None)' => VerdictTruthful'
    BY NoVerdict, PTL
  <2> QED  BY <2>1, Undecided
<1>9. (campaign = Off)' => Tallied' /\ Ahead' /\ Renewed' /\ Producing' /\ Emptied'
  BY Outside, StopsOutside, PTL
<1> QED
  BY <1>1, <1>3, <1>4, <1>5, <1>6, <1>7, <1>8, <1>9 DEF CampaignInv

\* Outside of a campaign four conjuncts are left to show.
LEMMA Aside ==
    ASSUME campaign' = Off \/ In({"panel"})', (evidence = None)',
           CircuitInv', Jobs', Commanded', Receipts', Sequenced'
    PROVE  CampaignInv'
<1>1. (evidence = None)' => VerdictTruthful'
  BY NoVerdict, PTL
<1>2. In({"panel"}) => ~In(Proper)
  BY DEF In, Proper
<1>3. ~In(Proper)' => Tallied' /\ Ahead' /\ Renewed' /\ Producing' /\ Emptied'
  BY Outside, PTL
<1>4. ~In(Proper)'
  <2>1. (campaign = Off)' => ~In(Proper)'
    BY StopsOutside, PTL
  <2>2. In({"panel"})' => ~In(Proper)'
    BY DEF In, Proper
  <2> QED  BY <2>1, <2>2
<1> QED
  BY <1>1, <1>3, <1>4 DEF CampaignInv

\* The job's place among the jobs does not depend on the step the driver is at.
LEMMA SameJob ==
    ASSUME campaign'.phase = campaign.phase, campaign'.n = campaign.n, campaign'.k = campaign.k
    PROVE  Job' = Job /\ Batch' = Batch /\ BatchJob' = BatchJob /\ JobNow' = JobNow
           /\ Batches(campaign.phase)' = Batches(campaign.phase)
BY DEF Job, Assignment, Batch, BatchJob, Batches, JobNow

\* The driver goes on to another step of the same job.
LEMMA Moves ==
    ASSUME Jobs, Running, NEW pc, Goto(pc)
    PROVE  /\ campaign'.at = pc /\ campaign'.phase = campaign.phase
           /\ campaign'.n = campaign.n /\ campaign'.k = campaign.k
           /\ campaign.phase \in Proper \cup {"panel"}
           /\ pc # "off" => Running'
           /\ JobNow' = JobNow /\ Batch' = Batch /\ BatchJob' = BatchJob
           /\ \A phases : pc # "off" => (In(phases)' <=> In(phases))
<1>1. /\ campaign'.at = pc /\ campaign'.phase = campaign.phase
      /\ campaign'.n = campaign.n /\ campaign'.k = campaign.k
      /\ campaign.phase \in Proper \cup {"panel"}
  BY DEF Jobs, Running, Goto
<1>2. pc # "off" => Running'
  BY <1>1 DEF Running, Off
<1> QED
  BY <1>1, <1>2, SameJob DEF In

LEMMA MovesTyped ==
    ASSUME Jobs, Running, NEW pc, Goto(pc), records' \in [Task -> OutcomeOf \cup {None}],
           pc \in {"publish", "publishing", "complete", "validating"} \/ (pc = "execute" /\ campaign.k = 1)
    PROVE  Jobs'
<1>1. /\ campaign'.at = pc /\ campaign'.phase = campaign.phase
      /\ campaign'.n = campaign.n /\ campaign'.k = campaign.k
      /\ \A phases : In(phases)' <=> In(phases)
  BY Moves
<1>2. Batch' = Batch /\ Batches(campaign.phase)' = Batches(campaign.phase)
  BY <1>1, SameJob
<1>3. campaign' \in [at : {"publish", "publishing", "execute", "complete", "validating", "gate", "report"},
                     phase : Proper \cup {"panel"}, n : Nat, k : Nat]
  BY DEF Jobs, Running, Goto
<1> QED
  BY <1>1, <1>2, <1>3 DEF Jobs, Rounds

\* oa send, by whomever: only circuits open.
LEMMA SendMoves ==
    ASSUME CampaignInv, NEW t \in Task, NEW request \in Request,
           NEW eligible \in (SUBSET Alias) \ {{}}, Send(t, request, eligible)
    PROVE  /\ CircuitInv' /\ Receipts' /\ command = Idle /\ t \notin sent
           /\ command' = [pc |-> "select", task |-> t, request |-> request, eligible |-> eligible]
           /\ UNCHANGED <<generation, receipt, sent, validation, observation, resets, fresh>>
           /\ open \subseteq open'
<1>1. CircuitInv'
  BY SendKeeps DEF CampaignInv
<1>2. /\ command = Idle /\ t \notin sent
      /\ command' = [pc |-> "select", task |-> t, request |-> request, eligible |-> eligible]
      /\ UNCHANGED <<generation, receipt, sent, validation, observation, resets, fresh>>
  BY DEF Send, routing
<1>3. open \subseteq open'
  BY DEF Send, RefreshCircuits
<1>4. Receipts'
  BY <1>2 DEF Receipts, CampaignInv
<1> QED  BY <1>1, <1>2, <1>3, <1>4

\* The decision on a task: its ledger entry alone, and that its observation is bound.
LEMMA ValidateMoves ==
    ASSUME CampaignInv, NEW t \in Task, NEW verdict \in Verdict, NEW tokens \in BOOLEAN,
           IF tokens THEN ValidateObserved(t, verdict) ELSE Validate(t, verdict),
           tokens => t \notin IncumbentTasks
    PROVE  /\ CircuitInv' /\ Receipts' /\ command = Idle /\ t \in sent
           /\ command' = IF tokens THEN [pc |-> "observe", task |-> t] ELSE Idle
           /\ UNCHANGED <<generation, receipt, sent, open, resets>>
           /\ validation'[t] # None /\ validation'[t].verdict = verdict
           /\ \A u \in Task \ {t} : validation'[u] = validation[u] /\ (u \in fresh' <=> u \in fresh)
           /\ \A u \in Task : u # t => observation'[u] = observation[u]
           /\ \A u \in Task : observation'[u] = None <=> observation[u] = None
           /\ validation[t] = None => t \in fresh'
           /\ \A u \in Observed : observation'[u].accepted = observation[u].accepted
                                  /\ observation'[u].epoch = observation[u].epoch
<1>1. CircuitInv'
  BY ValidateKeeps DEF CampaignInv
<1>2. /\ command = Idle /\ t \in sent
      /\ command' = IF tokens THEN [pc |-> "observe", task |-> t] ELSE Idle
      /\ UNCHANGED <<generation, receipt, sent, open, resets>>
  BY DEF Validate, ValidateObserved, Idle
<1>3. /\ validation = [u \in Task |-> validation[u]] /\ observation = [u \in Task |-> observation[u]]
      /\ receipt[t].alias \in Alias /\ resets[receipt[t].alias] \in Nat /\ receipt[t] # None
      /\ \A u \in Observed : observation[u] \in ObservationOf
  BY <1>2, RowsOf DEF CampaignInv, CircuitInv, Types
<1> DEFINE Effects ==
           /\ validation'[t] # None /\ validation'[t].verdict = verdict
           /\ \A u \in Task \ {t} : validation'[u] = validation[u] /\ (u \in fresh' <=> u \in fresh)
           /\ \A u \in Task : u # t => observation'[u] = observation[u]
           /\ \A u \in Task : observation'[u] = None <=> observation[u] = None
           /\ validation[t] = None => t \in fresh'
           /\ \A u \in Observed : observation'[u].accepted = observation[u].accepted
                                  /\ observation'[u].epoch = observation[u].epoch
<1>4. Current(t)
  BY <1>2, <1>3 DEF CampaignInv, Receipts, Current
<1>5. ASSUME RecordValidation(t, verdict) PROVE Effects
  <2> DEFINE decision == [verdict |-> verdict, epoch |-> resets[receipt[t].alias]]
  <2>1. validation' = [validation EXCEPT ![t] = decision] /\ decision # None
    BY <1>3, <1>5, CampaignAbsent DEF RecordValidation
  <2>2. fresh' = fresh \cup {t}
    BY <1>4, <1>5 DEF RecordValidation, Current
  <2>3. CASE observation[t] = None
    BY <1>2, <1>3, <1>5, <2>1, <2>2, <2>3 DEF RecordValidation
  <2>4. CASE observation[t] # None
    <3>1. t \in Observed /\ observation' = [observation EXCEPT ![t].bound = FALSE]
      BY <1>2, <1>5, <2>4 DEF RecordValidation, Observed
    <3>2. observation[t] \in ObservationOf
      BY <1>3, <3>1
    <3>3. /\ observation'[t] \in ObservationOf /\ observation'[t].accepted = observation[t].accepted
          /\ observation'[t].epoch = observation[t].epoch
      BY <1>3, <3>1, <3>2 DEF ObservationOf
    <3>4. \A u \in Task : u # t => observation'[u] = observation[u]
      BY <1>3, <3>1
    <3>5. observation'[t] # None
      BY <3>3, CampaignAbsent DEF ObservationOf
    <3> QED  BY <1>2, <1>3, <2>1, <2>2, <2>4, <3>3, <3>4, <3>5 DEF Observed
  <2> QED  BY <2>3, <2>4
<1>6. ASSUME validation[t] # None, validation[t].verdict = verdict, UNCHANGED <<validation, fresh, observation>>
      PROVE  Effects
  BY <1>6
<1>7. Effects
  BY <1>5, <1>6 DEF Validate, ValidateObserved
<1>8. Receipts'
  <2>1. UNCHANGED <<generation, receipt>> /\ \A u \in Task : observation'[u] = None <=> observation[u] = None
    BY <1>2, <1>7
  <2>2. command'.pc # "publish"
    BY <1>2 DEF Idle
  <2> QED  BY <2>1, <2>2, Parts DEF Receipts, CampaignInv
<1> QED
  BY <1>1, <1>2, <1>7, <1>8

-----------------------------------------------------------------------------
(* The steps of the commands *)

LEMMA NoneAwaiting ==
    ASSUME Jobs, In(Proper),
           \/ campaign.at \notin {"complete", "validating"}
           \/ campaign.at # "complete" /\ campaign.phase # "recovery"
    PROVE  \A t : ~Awaiting(t)
<1>1. campaign.phase # "recovery" => Len(Batch) = 1
  BY BatchOf DEF In, Proper
<1>2. DOMAIN Batch = 1..Len(Batch) /\ campaign.k \in 1..Len(Batch)
  BY BatchOf
<1> QED  BY <1>1, <1>2 DEF Awaiting

LEMMA Phases ==
    /\ \A phases : In(phases) => Running
    /\ \A S, T : S \subseteq T => (In(S) => In(T))
BY DEF In

\* What a command does before its observation leaves what is known of the evidence.
LEMMA RowsKeep ==
    ASSUME CampaignInv, In(Proper), UNCHANGED <<validation, observation, resets, fresh, records>>,
           command.pc # "observe", campaign.at \in {"publish", "publishing", "validating"},
           campaign' = campaign \/ (campaign.at = "publish" /\ Goto("publishing")),
           \A t \in sent : receipt'[t].alias = receipt[t].alias /\ receipt'[t].mode = receipt[t].mode
    PROVE  /\ Tallied' /\ Ahead' /\ Renewed'
           /\ In({"production"}) => Earned'
           /\ In({"fallback"}) => (validation[Canary] # None /\ validation[Canary].verdict = "rejected")'
           /\ \A phases : In(phases)' <=> In(phases)
<1>1. /\ Jobs /\ Tallied /\ Ahead /\ Renewed /\ Producing /\ Commanded /\ Running /\ CircuitInv
  BY Phases DEF CampaignInv
<1>2. /\ campaign'.phase = campaign.phase /\ campaign'.n = campaign.n /\ campaign'.k = campaign.k
      /\ Batch' = Batch /\ BatchJob' = BatchJob
      /\ \A phases : In(phases)' <=> In(phases)
  <2>1. CASE campaign' = campaign
    BY <2>1, SameJob DEF In, Running
  <2>2. CASE Goto("publishing")
    BY <1>1, <2>2, Moves
  <2> QED  BY <2>1, <2>2
<1>3. campaign'.at = campaign.at \/ (campaign.at = "publish" /\ campaign'.at = "publishing")
  BY <1>1, Moves
<1>4. \A t : Awaiting(t)' <=> Awaiting(t)
  BY <1>2, <1>3 DEF Awaiting
<1>5. Observed' = Observed /\ \A t \in Task : Agreed(t)' <=> Agreed(t)
  BY DEF Observed, Agreed
<1>6. Tallied'
  <2>1. \A t : command # [pc |-> "observe", task |-> t]
    BY <1>1
  <2> QED  BY <1>1, <1>2, <1>3, <1>4, <1>5, <2>1 DEF Tallied
<1>7. Ahead'
  BY <1>1, <1>2, <1>3 DEF Ahead
<1>8. /\ In({"post_reset", "production"}) => \A t \in Task : records[t] # None => t \in sent
      /\ \A t \in Observed : t \in sent
  <2>1. In({"post_reset", "production"}) => \A t : ~Awaiting(t)
    BY <1>1, NoneAwaiting DEF In
  <2> QED  BY <1>1, <2>1, RowsOf DEF Tallied, Agreed
<1>9. Renewed'
  <2> SUFFICES ASSUME In({"post_reset", "production"}) PROVE Renewed'
    BY <1>2 DEF Renewed
  <2>1. campaign'.at # "execute"
    BY <1>3
  <2>2. Trial \subseteq Task /\ ShadowTasks \subseteq Task
    BY Parts DEF Trial
  <2>a. (\A t \in Task : records[t] # None => t \in sent) /\ (\A t \in Observed : t \in sent)
    BY <1>8
  <2>b. \A t \in sent : receipt'[t].alias = receipt[t].alias
    OBVIOUS
  <2>3. \A t \in Observed' :
           observation'[t].epoch = 1 /\ receipt'[t].alias = Candidate => t \in Trial
    BY <1>1, <1>5, <2>a, <2>b DEF Renewed
  <2>4. \A t \in Trial :
               /\ validation'[t] # None => records'[t] # None /\ ~Awaiting(t)' /\ t \in fresh'
               /\ t \in Observed' => /\ validation'[t] # None
                                     /\ observation'[t].accepted = (validation'[t].verdict = "accepted")
    BY <1>1, <1>4, <1>5 DEF Renewed
  <2>5. \A t \in ShadowTasks : records'[t] # None => receipt'[t].alias = Candidate
    BY <1>1, <2>a, <2>b, <2>2 DEF Renewed
  <2> QED  BY <2>1, <2>3, <2>4, <2>5 DEF Renewed
<1>10. In({"production"}) => Earned'
  <2> SUFFICES ASSUME In({"production"}), NEW n \in DOMAIN Shadows
               PROVE  (Shadows[n] \in AcceptedOf(Evidence(Candidate)))'
    BY DEF Earned
  <2>1. Shadows[n] \in AcceptedOf(Evidence(Candidate))
    BY <1>1 DEF Producing, Earned
  <2>2. Shadows[n] \in sent
    BY <2>1, <1>1, RowsOf DEF AcceptedOf, Evidence
  <2> QED  BY <1>5, <2>1, <2>2 DEF AcceptedOf, Evidence
<1>11. In({"fallback"}) => (validation[Canary] # None /\ validation[Canary].verdict = "rejected")'
  BY <1>1 DEF Producing
<1> QED  BY <1>2, <1>6, <1>7, <1>9, <1>10, <1>11

\* While the canary is not rejected, nothing observed since the reset opens the
\* candidate's circuit.
LEMMA StaysClosed ==
    ASSUME CampaignInv, In({"production"}), records[Canary] = None \/ records[Canary].accepted,
           NEW rows, rows \subseteq Observed, NEW now \in RefreshCircuits(rows)
    PROVE  Candidate \notin now
<1>1. Candidate \notin open /\ Earned /\ Jobs /\ Tallied /\ Renewed /\ resets[Candidate] = 1
  BY DEF CampaignInv, Producing, Sequenced, In, AfterReset
<1>2. \A t \in CircuitRows(rows, Candidate) :
         t \in Observed /\ t \in Trial /\ observation[t].accepted = TRUE
  <2> SUFFICES ASSUME NEW t \in CircuitRows(rows, Candidate)
               PROVE  t \in Observed /\ t \in Trial /\ observation[t].accepted = TRUE
    OBVIOUS
  <2>1. t \in Observed /\ t \in Task /\ receipt[t].alias = Candidate /\ observation[t].epoch = 1
    BY <1>1 DEF CircuitRows, PromotionEpoch, Observed
  <2>2. t \in Trial /\ observation[t].accepted \in BOOLEAN
    BY <1>1, <2>1, RowsOf DEF Renewed, In, CampaignInv, ObservationOf
  <2>3. CASE t \in ShadowTasks
    <3>1. PICK n \in DOMAIN Shadows : t = Shadows[n]
      BY <2>3 DEF ShadowTasks
    <3> QED  BY <1>1, <2>1, <2>2, <3>1 DEF Earned, AcceptedOf
  <2>4. CASE t = Canary
    <3>1. /\ validation[t] # None /\ observation[t].accepted = (validation[t].verdict = "accepted")
          /\ records[t] # None /\ ~Awaiting(t)
      BY <1>1, <2>1, <2>2 DEF Renewed, In
    <3>2. Agreed(t)
      BY <1>1, <2>1, <3>1 DEF Tallied, In, Proper
    <3> QED  BY <2>1, <2>2, <2>4, <3>1, <3>2 DEF Agreed
  <2> QED  BY <2>2, <2>1, <2>3, <2>4 DEF Trial
<1>3. ~CandidateRejected(rows, Candidate)
  BY <1>2 DEF CandidateRejected
<1>4. ~MayDrift(rows, Candidate)
  <2>1. AcceptedOf(CircuitRows(rows, Candidate)) = CircuitRows(rows, Candidate)
    BY <1>2 DEF AcceptedOf
  <2> QED  BY <2>1 DEF MayDrift
<1> QED  BY <1>1, <1>3, <1>4 DEF RefreshCircuits

\* With the verdict out, the driver has stopped; until then there is nothing to say of it.
LEMMA Together ==
    ASSUME (evidence = None)', CircuitInv', Jobs', Commanded', Receipts', Sequenced',
           In(Proper)' => Tallied' /\ Ahead' /\ Renewed' /\ Producing' /\ Emptied'
    PROVE  CampaignInv'
<1>1. (evidence = None)' => VerdictTruthful'
  BY NoVerdict, PTL
<1>2. ~In(Proper)' => Tallied' /\ Ahead' /\ Renewed' /\ Producing' /\ Emptied'
  BY Outside, PTL
<1> QED
  BY <1>1, <1>2 DEF CampaignInv

\* The driver waits for its command.
Waits == UNCHANGED <<campaign, records, experiment, sealed, evidence>> /\ evidence = None

LEMMA Waiting ==
    ASSUME CampaignInv, Waits
    PROVE  /\ Jobs' /\ JobNow' = JobNow /\ Batch' = Batch /\ BatchJob' = BatchJob
           /\ (Running' <=> Running) /\ \A phases : In(phases)' <=> In(phases)
<1>1. campaign' = campaign
  BY DEF Waits
<1>2. Batch' = Batch /\ Batches(campaign.phase)' = Batches(campaign.phase)
      /\ JobNow' = JobNow /\ BatchJob' = BatchJob
  BY <1>1, SameJob
<1> QED  BY <1>1, <1>2 DEF CampaignInv, Jobs, In, Running, Waits, Rounds

LEMMA SendReceiptStep ==
    ASSUME CampaignInv, SendReceipt, Waits, UNCHANGED work PROVE CampaignInv'
<1> DEFINE t == command.task
<1>1. /\ CircuitInv' /\ Jobs' /\ JobNow' = JobNow /\ (Running' <=> Running)
      /\ BatchJob' = BatchJob /\ \A phases : In(phases)' <=> In(phases)
  BY SendReceiptKeeps, Waiting DEF CampaignInv
<1>2. /\ command.pc = "select" /\ t \in Task \ sent
      /\ UNCHANGED <<generation, sent, validation, observation, open, resets, fresh>>
  BY DEF SendReceipt, CampaignInv, CircuitInv, Selecting
<1> DEFINE Steady == \A u \in sent : receipt'[u].alias = receipt[u].alias /\ receipt'[u].mode = receipt[u].mode
<1>4. Commanded' /\ Receipts' /\ Steady
  <2>1. CASE receipt' = receipt /\ command' = Idle
    BY <1>2, <2>1, Parts DEF Commanded, Receipts, CampaignInv, Idle
  <2>2. CASE receipt' # receipt \/ command' # Idle
    <3>1. PICK choice \in Select(command.request, command.eligible) :
             /\ receipt' = [receipt EXCEPT ![t] = Receipt(choice)]
             /\ command' = [pc |-> "publish", task |-> t]
      BY <2>2, ReceiptWritten DEF CampaignInv
    <3>2. /\ Receipt(choice).generation = generation[choice[1]] /\ choice[1] \in Alias
          /\ Receipt(choice).mode = "recovery_shadow" <=> command.request.kind = "recovery"
          /\ Receipt(choice) \in ReceiptOf
      BY <1>2, Chosen, ReceiptNamed DEF CampaignInv, CircuitInv, Selecting
    <3>3. receipt = [u \in Task |-> receipt[u]]
      BY DEF CampaignInv, CircuitInv, Types
    <3>4. /\ receipt'[t] = Receipt(choice) /\ Receipt(choice) # None
          /\ \A u \in Task : u # t => receipt'[u] = receipt[u]
      BY <1>2, <3>1, <3>2, <3>3, NoneIsNoReceipt
    <3>5. Receipts'
      BY <1>2, <3>1, <3>2, <3>4, Parts DEF Receipts, Commanded, CampaignInv
    <3>6. Commanded'
      BY <1>1, <1>2, <3>1 DEF Commanded, CampaignInv, Waits
    <3>7. Steady
      BY <1>2, <3>4, RowsOf DEF CampaignInv
    <3> QED  BY <3>5, <3>6, <3>7
  <2> QED  BY <2>1, <2>2
<1>5. Sequenced'
  BY <1>1, <1>2 DEF Sequenced, CampaignInv, Waits
<1>6. In(Proper) => Tallied' /\ Ahead' /\ Renewed' /\ Producing' /\ Emptied'
  <2> SUFFICES ASSUME In(Proper) PROVE Tallied' /\ Ahead' /\ Renewed' /\ Producing' /\ Emptied'
    OBVIOUS
  <2>1. campaign.at = "publishing" /\ command.pc # "observe"
    BY <1>2, Phases DEF CampaignInv, Commanded
  <2>2. /\ Tallied' /\ Ahead' /\ Renewed'
        /\ In({"production"}) => Earned'
        /\ In({"fallback"}) => (validation[Canary] # None /\ validation[Canary].verdict = "rejected")'
    BY <1>2, <1>4, <2>1, RowsKeep DEF Waits
  <2>3. Producing'
    BY <1>1, <1>2, <2>2 DEF Producing, CampaignInv, Waits
  <2>4. Emptied'
    BY <1>1 DEF Emptied, CampaignInv, Waits
  <2> QED  BY <2>2, <2>3, <2>4
<1> QED
  BY <1>1, <1>4, <1>5, <1>6, Together DEF Waits

LEMMA JobClass ==
    ASSUME Jobs, Running
    PROVE  /\ In({"panel"}) => JobNow \in PanelTasks
           /\ In({"recovery"}) => JobNow \in PairTasks
           /\ In({"post_reset"}) => JobNow \in ShadowTasks
           /\ In({"production"}) => JobNow = Canary
           /\ In({"fallback"}) => JobNow = Fallback
           /\ JobNow \in Task
           /\ In({"panel"}) \/ In({"recovery"}) \/ In({"post_reset"}) \/ In({"production"}) \/ In({"fallback"})
<1>1. campaign.phase \in Proper \cup {"panel"}
  BY DEF Jobs, Running
<1>2. In({"panel"}) => JobNow \in PanelTasks
  BY PanelJob
<1>3. In(Proper) =>
         /\ campaign.phase = "recovery" => JobNow \in PairTasks
         /\ campaign.phase = "post_reset" => JobNow \in ShadowTasks
         /\ campaign.phase = "production" => JobNow = Canary
         /\ campaign.phase = "fallback" => JobNow = Fallback
  BY BatchOf, Parts
<1>4. /\ In({"recovery"}) => JobNow \in PairTasks
      /\ In({"post_reset"}) => JobNow \in ShadowTasks
      /\ In({"production"}) => JobNow = Canary
      /\ In({"fallback"}) => JobNow = Fallback
  BY <1>3 DEF In, Proper
<1>5. In({"panel"}) \/ In({"recovery"}) \/ In({"post_reset"}) \/ In({"production"}) \/ In({"fallback"})
  BY <1>1 DEF In, Proper
<1>6. JobNow \in Task
  BY <1>2, <1>4, <1>5, Parts
<1> QED  BY <1>2, <1>4, <1>5, <1>6

LEMMA SendPublishStep ==
    ASSUME CampaignInv, SendPublish, Waits, work' = work \cup {command.task} PROVE CampaignInv'
<1> DEFINE t == command.task
<1>1. /\ CircuitInv' /\ Jobs' /\ JobNow' = JobNow /\ (Running' <=> Running)
      /\ BatchJob' = BatchJob /\ \A phases : In(phases)' <=> In(phases)
  BY SendPublishKeeps, Waiting DEF CampaignInv
<1>2. /\ command.pc = "publish" /\ t \in Task \ sent /\ receipt[t] \in ReceiptOf
      /\ UNCHANGED <<generation, validation, observation, open, resets, fresh>>
      /\ command' = Idle /\ sent' = sent \cup {t}
  BY DEF SendPublish, CampaignInv, CircuitInv, Publishing, Named
<1>3. receipt' = [u \in Task |-> IF u = t THEN [receipt[t] EXCEPT !.basis = <<>>] ELSE receipt[u]]
  BY <1>2 DEF SendPublish, CampaignInv, CircuitInv, Types
<1>4. /\ receipt[t] # None
      /\ receipt'[t].alias = receipt[t].alias /\ receipt'[t].generation = receipt[t].generation
      /\ receipt'[t].mode = receipt[t].mode
      /\ \A u \in Task : u # t => receipt'[u] = receipt[u]
  BY <1>2, <1>3, NoneIsNoReceipt DEF ReceiptOf
<1>5. Commanded'
  BY <1>2 DEF Commanded, Idle
<1>6. Receipts'
  BY <1>2, <1>4 DEF Receipts, CampaignInv, Idle
<1>7. \/ t = JobNow /\ campaign.at = "publishing" /\ Running
      \/ t \in Ordinary /\ ~Running
  BY <1>2 DEF CampaignInv, Commanded
<1>8. Sequenced'
  <2>1. t \in Ordinary \cup PanelTasks \cup PairTasks \/ In(AfterReset)
    BY <1>7, JobClass DEF CampaignInv, In, AfterReset
  <2>2. /\ t \in Ordinary \cup PanelTasks \cup PairTasks \cup Trial \cup {Fallback}
        /\ In({"post_reset"}) => t \in ShadowTasks
        /\ In({"production"}) => t = Canary
    BY <1>7, JobClass DEF CampaignInv, In, Trial
  <2>3. t \in Ordinary \cup PanelTasks \cup PairTasks => t \notin Trial \cup {Fallback}
    BY Parts DEF Trial
  <2>4. /\ In({"post_reset"}) => t # Canary
        /\ In({"post_reset", "production"}) => t # Fallback
    BY <2>2, Parts DEF In
  <2> QED  BY <1>1, <1>2, <2>1, <2>2, <2>3, <2>4 DEF Sequenced, CampaignInv, Waits
<1>9. In(Proper) => Tallied' /\ Ahead' /\ Renewed' /\ Producing' /\ Emptied'
  <2> SUFFICES ASSUME In(Proper) PROVE Tallied' /\ Ahead' /\ Renewed' /\ Producing' /\ Emptied'
    OBVIOUS
  <2>1. campaign.at = "publishing" /\ command.pc # "observe" /\ t = BatchJob
    BY <1>2, <1>7, BatchOf, Phases DEF CampaignInv
  <2>2. \A u \in sent : receipt'[u].alias = receipt[u].alias /\ receipt'[u].mode = receipt[u].mode
    BY <1>2, <1>4, RowsOf DEF CampaignInv
  <2>3. /\ Tallied' /\ Ahead' /\ Renewed'
        /\ In({"production"}) => Earned'
        /\ In({"fallback"}) => (validation[Canary] # None /\ validation[Canary].verdict = "rejected")'
    BY <1>2, <2>1, <2>2, RowsKeep DEF Waits
  <2>4. Producing'
    BY <1>1, <1>2, <2>3 DEF Producing, CampaignInv, Waits
  <2>5. Emptied'
    BY <1>1, <2>1 DEF Emptied, CampaignInv, Waits
  <2> QED  BY <2>3, <2>4, <2>5
<1> QED
  BY <1>1, <1>5, <1>6, <1>8, <1>9, Together DEF Waits

\* The batch's other tasks are other tasks.
LEMMA JobDecided ==
    ASSUME CampaignInv, In(Proper), campaign.at = "validating"
    PROVE  ~Awaiting(BatchJob) /\ records[BatchJob] # None /\ Agreed(BatchJob)
<1>1. Jobs /\ Tallied
  BY DEF CampaignInv
<1>2. BatchJob \in Task /\ campaign.k \in 1..Len(Batch) /\ BatchJob = Batch[campaign.k] /\ DOMAIN Batch = 1..Len(Batch)
  BY <1>1, BatchOf
<1>3. \A j \in DOMAIN Batch : Batch[j] = BatchJob => j = campaign.k
  <2>1. CASE campaign.phase = "recovery"
    <3>1. /\ campaign.n \in DOMAIN Pairs /\ Len(Batch) = 2
          /\ Batch[1] = Pairs[campaign.n][1] /\ Batch[2] = Pairs[campaign.n][2]
      BY <1>1, <2>1, BatchOf
    <3>2. Batch[1] # Batch[2]
      BY <3>1, SuiteAssumption
    <3> QED  BY <1>2, <3>1, <3>2
  <2>2. CASE campaign.phase # "recovery"
    <3>1. Len(Batch) = 1
      BY <1>1, <2>2, BatchOf DEF In, Proper
    <3> QED  BY <1>2, <3>1
  <2> QED  BY <2>1, <2>2
<1>4. ~Awaiting(BatchJob)
  BY <1>2, <1>3 DEF Awaiting
<1>5. records[BatchJob] # None
  BY <1>1, <1>2 DEF Tallied
<1> QED  BY <1>1, <1>2, <1>4, <1>5 DEF Tallied

LEMMA ObserveStep ==
    ASSUME CampaignInv, ValidateObserve, Waits, UNCHANGED work PROVE CampaignInv'
<1> DEFINE t == command.task
           decided == [accepted |-> validation[t].verdict = "accepted",
                       epoch |-> validation[t].epoch, bound |-> TRUE]
<1>1. /\ CircuitInv' /\ Jobs' /\ JobNow' = JobNow /\ (Running' <=> Running)
      /\ BatchJob' = BatchJob /\ Batch' = Batch /\ \A phases : In(phases)' <=> In(phases)
  BY ObserveKeeps, Waiting DEF CampaignInv
<1>2. /\ command.pc = "observe" /\ t \in Task /\ t \notin IncumbentTasks
      /\ UNCHANGED <<generation, receipt, sent, validation, open, resets, fresh>>
      /\ command' = Idle \/ command' = [pc |-> "refresh", task |-> t]
      /\ decided \in ObservationOf
  BY DEF ValidateObserve, CampaignInv, Commanded, CircuitInv, Types, Observing, DatedBy, ObservationOf
<1>3. decided # None
  BY <1>2, CampaignAbsent DEF ObservationOf
<1>4. /\ \A u \in Task : u # t => observation'[u] = observation[u]
      /\ observation'[t] # None
      /\ observation'[t] = decided \/ observation'[t] = observation[t]
  BY <1>2, <1>3 DEF ValidateObserve, CampaignInv, CircuitInv, Types
<1>5. Commanded'
  BY <1>1, <1>2 DEF Commanded, CampaignInv, Waits, Idle
<1>6. Receipts'
  BY <1>2, <1>4, Parts DEF Receipts, CampaignInv, Idle
<1>7. Sequenced'
  BY <1>1, <1>2 DEF Sequenced, CampaignInv, Waits
<1>8. In(Proper) => Tallied' /\ Ahead' /\ Renewed' /\ Producing' /\ Emptied'
  <2> SUFFICES ASSUME In(Proper) PROVE Tallied' /\ Ahead' /\ Renewed' /\ Producing' /\ Emptied'
    OBVIOUS
  <2>1. campaign.at = "validating" /\ t = BatchJob /\ Running
    BY <1>2, BatchOf, Phases DEF CampaignInv, Commanded
  <2>2. validation[t] # None
    BY <2>1, JobDecided DEF Agreed
  <2>3. \A u : Awaiting(u)' <=> Awaiting(u)
    BY <1>1 DEF Awaiting, Waits
  <2>4. Tallied'
    <3>1. \A u \in Task : Agreed(u)' <=> Agreed(u)
      BY <1>2 DEF Agreed, Waits
    <3>2. \A u \in Task : /\ observation[u] # None => observation'[u] # None
                          /\ command = [pc |-> "observe", task |-> u] => observation'[u] # None
      BY <1>4
    <3> QED  BY <1>1, <2>3, <3>1, <3>2 DEF Tallied, CampaignInv, Waits
  <2>5. Ahead'
    BY <1>1 DEF Ahead, CampaignInv, Waits
  <2>6. Renewed'
    <3> SUFFICES ASSUME In({"post_reset", "production"}) PROVE Renewed'
      BY <1>1 DEF Renewed
    <3>1. t \in Trial
      BY <2>1, BatchOf DEF CampaignInv, In, Trial
    <3>2. Trial \subseteq Task /\ Observed' = Observed \cup {t}
      BY <1>2, <1>4, Parts DEF Trial, Observed
    <3>3. \A u \in Observed' :
             observation'[u].epoch = 1 /\ receipt'[u].alias = Candidate => u \in Trial
      BY <1>2, <1>4, <3>1, <3>2 DEF Renewed, CampaignInv, Observed
    <3>4. \A u \in Trial :
               /\ validation'[u] # None => records'[u] # None /\ ~Awaiting(u)' /\ u \in fresh'
               /\ u \in Observed' => /\ validation'[u] # None
                                     /\ observation'[u].accepted = (validation'[u].verdict = "accepted")
      <4>1. observation'[t].accepted = (validation[t].verdict = "accepted")
        <5>1. CASE observation'[t] = decided
          BY <5>1
        <5>2. CASE observation'[t] = observation[t]
          <6>1. t \in Observed
            BY <1>2, <1>4, <5>2 DEF Observed
          <6> QED  BY <3>1, <5>2, <6>1 DEF Renewed, CampaignInv
        <5> QED  BY <1>4, <5>1, <5>2
      <4> QED  BY <1>2, <1>4, <2>2, <2>3, <3>2, <4>1 DEF Renewed, CampaignInv, Waits
    <3> QED  BY <1>1, <1>2, <2>1, <3>3, <3>4 DEF Renewed, CampaignInv, Waits
  <2>7. Producing'
    <3>1. In({"production"}) => Earned'
      <4> SUFFICES ASSUME In({"production"}), NEW n \in DOMAIN Shadows
                   PROVE  (Shadows[n] \in AcceptedOf(Evidence(Candidate)))'
        BY DEF Earned
      <4>1. Shadows[n] \in AcceptedOf(Evidence(Candidate))
        BY DEF CampaignInv, Producing, Earned
      <4>2. t = Canary /\ Shadows[n] \in ShadowTasks
        BY <2>1, BatchOf DEF CampaignInv, In, ShadowTasks
      <4>3. Shadows[n] # t /\ Shadows[n] \in Task
        BY <4>2, Parts
      <4> QED  BY <1>2, <1>4, <4>1, <4>3 DEF AcceptedOf, Evidence, Observed
    <3> QED  BY <1>1, <1>2, <3>1 DEF Producing, CampaignInv, Waits
  <2>8. Emptied'
    BY <1>1 DEF Emptied, CampaignInv, Waits
  <2> QED  BY <2>4, <2>5, <2>6, <2>7, <2>8
<1> QED
  BY <1>1, <1>5, <1>6, <1>7, <1>8, Together DEF Waits

LEMMA RefreshStep ==
    ASSUME CampaignInv, ValidateRefresh, Waits, UNCHANGED work PROVE CampaignInv'
<1>1. /\ CircuitInv' /\ Jobs' /\ JobNow' = JobNow /\ (Running' <=> Running)
      /\ BatchJob' = BatchJob /\ \A phases : In(phases)' <=> In(phases)
  BY RefreshKeeps, Waiting DEF CampaignInv
<1>2. /\ command.pc = "refresh" /\ command' = Idle
      /\ UNCHANGED <<generation, receipt, sent, validation, observation, resets, fresh>>
      /\ open' = open \/ open' \in RefreshCircuits(Observed)
  BY DEF ValidateRefresh, routing
<1>3. open \subseteq open'
  BY <1>2 DEF RefreshCircuits
<1>4. Commanded'
  BY <1>2 DEF Commanded, Idle
<1>5. Receipts'
  BY <1>2 DEF Receipts, CampaignInv, Idle
<1>6. Sequenced'
  BY <1>1, <1>2, <1>3 DEF Sequenced, CampaignInv, Waits
<1>7. In(Proper) => Tallied' /\ Ahead' /\ Renewed' /\ Producing' /\ Emptied'
  <2> SUFFICES ASSUME In(Proper) PROVE Tallied' /\ Ahead' /\ Renewed' /\ Producing' /\ Emptied'
    OBVIOUS
  <2>1. campaign.at = "validating" /\ command.pc # "observe"
    BY <1>2, Phases DEF CampaignInv, Commanded
  <2>2. /\ Tallied' /\ Ahead' /\ Renewed'
        /\ In({"production"}) => Earned'
        /\ In({"fallback"}) => (validation[Canary] # None /\ validation[Canary].verdict = "rejected")'
    BY <1>2, <2>1, RowsKeep DEF Waits
  <2>3. In({"production"}) /\ (records[Canary] = None \/ records[Canary].accepted) => Candidate \notin open'
    BY <1>2, StaysClosed DEF CampaignInv, Producing
  <2>4. Producing'
    BY <1>1, <2>2, <2>3 DEF Producing, Waits
  <2>5. Emptied'
    BY <1>1 DEF Emptied, CampaignInv, Waits
  <2> QED  BY <2>2, <2>4, <2>5
<1> QED
  BY <1>1, <1>4, <1>5, <1>6, <1>7, Together DEF Waits

-----------------------------------------------------------------------------
(* Before the campaign *)

LEMMA OutcomeTyped ==
    ASSUME Jobs, NEW tasks, NEW retried, Execute(tasks, retried)
    PROVE  /\ records' \in [Task -> OutcomeOf \cup {None}]
           /\ \A t \in Task \cap tasks : records'[t] \in OutcomeOf /\ records'[t] # None
           /\ \A t \in Task \ tasks : records'[t] = records[t]
<1> DEFINE Answer == [ok : BOOLEAN, accepted : BOOLEAN, reported : BOOLEAN]
<1>1. \A c \in Call : c.ok \in BOOLEAN /\ c.verified \in BOOLEAN /\ c.correct \in BOOLEAN /\ c.usage \in BOOLEAN
  BY DEF Call
<1>2. \A c \in Call : Codex(c) \in Answer
  BY <1>1 DEF Codex
<1>3. \A c, d \in Call : Combined(c, d) \in Answer
  BY <1>1 DEF Combined
<1>4. \A c, d \in Call : Opencode(c, d) \in Answer
  BY <1>2, <1>3 DEF Opencode
<1>5. \A a : Provided(a) \subseteq Answer
  <2>1. Unavailable \in Answer
    BY DEF Unavailable
  <2>2. {Opencode(c, d) : c, d \in Call} \subseteq Answer
    <3> HIDE DEF Answer
    <3> QED  BY <1>4
  <2>3. {Codex(c) : c \in Call} \subseteq Answer
    BY <1>2
  <2> HIDE DEF Answer
  <2> QED  BY <2>1, <2>2, <2>3 DEF Provided
<1>6. ASSUME NEW p \in Answer, NEW q \in Answer
      PROVE  [q EXCEPT !.reported = @ /\ p.reported] \in Answer
  OBVIOUS
<1>7. \A a : Retried(a) \subseteq Answer
  BY <1>5, <1>6 DEF Retried
<1>8. \A p \in Answer : Outcome(p) \in OutcomeOf
  BY DEF Outcome, OutcomeOf
<1> DEFINE provided(a) == {Outcome(p) : p \in IF retried THEN Retried(a) ELSE Provided(a)}
<1>9. \A a : provided(a) \subseteq OutcomeOf
  BY <1>5, <1>7, <1>8
<1>10. PICK outcome \in [tasks -> UNION {provided(a) : a \in Alias}] :
          /\ \A t \in tasks : outcome[t] \in provided(receipt[t].alias)
          /\ records' = [t \in Task |-> IF t \in tasks THEN outcome[t] ELSE records[t]]
  BY DEF Execute
<1>11. \A t \in tasks : outcome[t] \in OutcomeOf
  BY <1>9, <1>10
<1>12. \A x \in OutcomeOf : x # None
  BY CampaignAbsent DEF OutcomeOf
<1> QED
  BY <1>10, <1>11, <1>12 DEF Jobs

LEMMA CommandIdle ==
    ASSUME CampaignInv, Running, campaign.at \notin {"publishing", "validating"}
    PROVE  command = Idle
BY DEF CampaignInv, Commanded

\* A step of the driver alone, between two commands.
LEMMA DriverMoves ==
    ASSUME CampaignInv, UNCHANGED vars, command = Idle
    PROVE  /\ CircuitInv' /\ Commanded' /\ Receipts' /\ Quiet /\ command' = Idle
           /\ UNCHANGED <<generation, receipt, sent, validation, observation, open, resets, fresh>>
<1>1. Quiet /\ command' = Idle
      /\ UNCHANGED <<generation, receipt, sent, validation, observation, open, resets, fresh>>
  BY DEF vars, routing, Quiet
<1>2. CircuitInv'
  BY <1>1, QuietKeeps DEF CampaignInv
<1>3. Commanded'
  BY <1>1 DEF Commanded, Idle
<1>4. Receipts'
  BY <1>1 DEF Receipts, CampaignInv, Idle
<1> QED  BY <1>1, <1>2, <1>3, <1>4

LEMMA OrdinaryOutside ==
    ASSUME CampaignInv, campaign = Off, Waits, CircuitInv', Commanded', Receipts',
           UNCHANGED <<sent, resets>>
    PROVE  CampaignInv'
<1>1. Jobs' /\ \A phases : ~In(phases)' /\ ~In(phases)
  BY Waiting DEF In, Running
<1>2. Sequenced'
  BY <1>1 DEF Sequenced, CampaignInv, Waits, Running
<1> QED  BY <1>1, <1>2, Aside DEF Waits

LEMMA OrdinarySteps == ASSUME CampaignInv, OrdinaryStep PROVE CampaignInv'
<1>1. Waits /\ campaign = Off /\ experiment /\ ~Running
  BY DEF OrdinaryStep, Waits, Running
<1>2. Alias \in (SUBSET Alias) \ {{}} /\ [kind |-> "production"] \in Request
  BY CanaryConstants DEF Request
<1>3. ASSUME NEW t \in Ordinary, Send(t, [kind |-> "production"], Alias) PROVE CampaignInv'
  <2>1. t \in Task /\ t \notin CandidateTasks
    BY Parts
  <2>2. /\ CircuitInv' /\ Receipts' /\ UNCHANGED <<sent, resets>>
        /\ command' = [pc |-> "select", task |-> t, request |-> [kind |-> "production"], eligible |-> Alias]
    BY <1>2, <1>3, <2>1, SendMoves
  <2>3. Commanded'
    BY <1>1, <2>1, <2>2 DEF Commanded, Running, Waits
  <2> QED  BY <1>1, <2>2, <2>3, OrdinaryOutside
<1>4. ASSUME NEW t \in Ordinary, NEW verdict \in Verdict,
             Validate(t, verdict) \/ ValidateObserved(t, verdict)
      PROVE  CampaignInv'
  <2>1. t \in Task /\ t \notin IncumbentTasks
    BY Parts
  <2>2. \E tokens \in BOOLEAN : IF tokens THEN ValidateObserved(t, verdict) ELSE Validate(t, verdict)
    BY <1>4
  <2>3. PICK tokens \in BOOLEAN : IF tokens THEN ValidateObserved(t, verdict) ELSE Validate(t, verdict)
    BY <2>2
  <2>4. /\ CircuitInv' /\ Receipts' /\ UNCHANGED <<sent, resets>>
        /\ command' = IF tokens THEN [pc |-> "observe", task |-> t] ELSE Idle
    BY <2>1, <2>3, ValidateMoves
  <2>5. Commanded'
    BY <1>1, <1>4, <2>1, <2>4 DEF Commanded, Running, Waits, Idle
  <2> QED  BY <1>1, <2>4, <2>5, OrdinaryOutside
<1> QED
  BY <1>1, <1>3, <1>4, SendReceiptStep, SendPublishStep, ObserveStep, RefreshStep DEF OrdinaryStep

LEMMA PreregisterStep == ASSUME CampaignInv, Preregister PROVE CampaignInv'
<1>1. /\ campaign = Off /\ campaign' = campaign /\ command = Idle /\ UNCHANGED vars
      /\ sealed = None /\ sealed' = <<open, resets>> /\ experiment' = experiment /\ experiment
      /\ Candidate \in open /\ evidence' = evidence /\ records' = records
  BY DEF Preregister, panelVars, driver
<1>2. evidence = None
  BY <1>1 DEF CampaignInv, Sequenced
<1>3. /\ CircuitInv' /\ Commanded' /\ Receipts'
      /\ UNCHANGED <<generation, receipt, sent, validation, observation, open, resets, fresh>>
  BY <1>1, DriverMoves
<1>4. Jobs' /\ ~Running' /\ \A phases : ~In(phases)'
  BY <1>1 DEF Jobs, In, Running, CampaignInv
<1>5. Sequenced'
  BY <1>1, <1>2, <1>3, <1>4 DEF Sequenced, CampaignInv
<1> QED  BY <1>1, <1>2, <1>3, <1>4, <1>5, Aside

LEMMA PanelSizes ==
    /\ Rounds \in Nat \ {0} /\ DOMAIN AliasOrder = 1..Len(AliasOrder) /\ Len(AliasOrder) \in Nat \ {0}
<1>1. AliasOrder[1] \in Alias
  BY PanelAssumption
<1>2. PanelTask[AliasOrder[1]] \in Seq(Task) /\ PanelTask[AliasOrder[1]] # <<>>
  BY <1>1, PanelAssumption
<1> QED  BY <1>2, PanelAssumption DEF Rounds

\* The places the driver goes to.
Place(pc, n, k) == [at |-> pc, phase |-> campaign.phase, n |-> n, k |-> k]
LEMMA Places ==
    ASSUME Jobs, Running, NEW pc
    PROVE  /\ campaign = Place(campaign.at, campaign.n, campaign.k)
           /\ campaign.n \in Nat /\ campaign.k \in Nat
           /\ campaign.phase \in Proper \cup {"panel"}
           /\ [campaign EXCEPT !.at = pc] = Place(pc, campaign.n, campaign.k)
           /\ [campaign EXCEPT !.at = pc, !.k = 1] = Place(pc, campaign.n, 1)
           /\ [campaign EXCEPT !.at = pc, !.k = @ + 1] = Place(pc, campaign.n, campaign.k + 1)
           /\ [campaign EXCEPT !.at = pc, !.n = @ + 1] = Place(pc, campaign.n + 1, campaign.k)
           /\ [campaign EXCEPT !.at = pc, !.n = @ + 1, !.k = 1] = Place(pc, campaign.n + 1, 1)
           /\ [campaign EXCEPT !.at = pc, !.n = 1, !.k = @ + 1] = Place(pc, 1, campaign.k + 1)
           /\ [campaign EXCEPT !.at = pc, !.n = 1, !.k = 1] = Place(pc, 1, 1)
<1>1. campaign \in [at : {"publish", "publishing", "execute", "complete", "validating", "gate", "report"},
                    phase : Proper \cup {"panel"}, n : Nat, k : Nat]
  BY DEF Jobs, Running
<1> HIDE DEF Proper
<1>2. /\ campaign = Place(campaign.at, campaign.n, campaign.k)
      /\ campaign.n \in Nat /\ campaign.k \in Nat /\ campaign.phase \in Proper \cup {"panel"}
  BY <1>1 DEF Place
<1> DEFINE fields == {"at", "phase", "n", "k"}
           place(n, k) == [x \in fields |->
               IF x = "at" THEN pc ELSE IF x = "n" THEN n ELSE IF x = "k" THEN k ELSE campaign[x]]
<1>a. \A n, k : place(n, k) = Place(pc, n, k)
  BY DEF Place
<1>b. campaign = [x \in fields |-> campaign[x]]
  BY <1>1
<1>3. [campaign EXCEPT !.at = pc] = Place(pc, campaign.n, campaign.k)
  <2>1. [campaign EXCEPT !.at = pc] = place(campaign.n, campaign.k)
    BY <1>b
  <2> QED  BY <1>a, <2>1
<1>4. [campaign EXCEPT !.at = pc, !.k = 1] = Place(pc, campaign.n, 1)
  <2>1. [campaign EXCEPT !.at = pc, !.k = 1] = place(campaign.n, 1)
    BY <1>b
  <2> QED  BY <1>a, <2>1
<1>5. [campaign EXCEPT !.at = pc, !.k = @ + 1] = Place(pc, campaign.n, campaign.k + 1)
  <2>1. [campaign EXCEPT !.at = pc, !.k = @ + 1] = place(campaign.n, campaign.k + 1)
    BY <1>b
  <2> QED  BY <1>a, <2>1
<1>6. [campaign EXCEPT !.at = pc, !.n = @ + 1] = Place(pc, campaign.n + 1, campaign.k)
  <2>1. [campaign EXCEPT !.at = pc, !.n = @ + 1] = place(campaign.n + 1, campaign.k)
    BY <1>b
  <2> QED  BY <1>a, <2>1
<1>7. [campaign EXCEPT !.at = pc, !.n = @ + 1, !.k = 1] = Place(pc, campaign.n + 1, 1)
  <2>1. [campaign EXCEPT !.at = pc, !.n = @ + 1, !.k = 1] = place(campaign.n + 1, 1)
    BY <1>b
  <2> QED  BY <1>a, <2>1
<1>8. [campaign EXCEPT !.at = pc, !.n = 1, !.k = @ + 1] = Place(pc, 1, campaign.k + 1)
  <2>1. [campaign EXCEPT !.at = pc, !.n = 1, !.k = @ + 1] = place(1, campaign.k + 1)
    BY <1>b
  <2> QED  BY <1>a, <2>1
<1>9. [campaign EXCEPT !.at = pc, !.n = 1, !.k = 1] = Place(pc, 1, 1)
  <2>1. [campaign EXCEPT !.at = pc, !.n = 1, !.k = 1] = place(1, 1)
    BY <1>b
  <2> QED  BY <1>a, <2>1
<1> HIDE DEF Place
<1> QED  BY <1>2, <1>3, <1>4, <1>5, <1>6, <1>7, <1>8, <1>9

\* A panel runs before anything is sealed.
LEMMA InPanel ==
    ASSUME CampaignInv, In({"panel"})
    PROVE  Running /\ ~experiment /\ sealed = None /\ evidence = None /\ resets[Candidate] = 0
BY Phases DEF CampaignInv, Sequenced

LEMMA PanelGoes ==
    ASSUME CampaignInv, sealed = None, evidence = None, ~experiment,
           UNCHANGED <<experiment, sealed, evidence>>,
           In({"panel"})', Jobs', CircuitInv', Commanded', Receipts', UNCHANGED <<sent, resets>>,
           campaign'.at \in {"execute", "complete", "validating", "report"} => sent # {}
    PROVE  CampaignInv'
<1>1. Running' /\ ~In(Proper)' /\ ~In(AfterReset)' /\ ~In({"recovery"})' /\ ~In({"post_reset"})'
      /\ ~In({"post_reset", "production"})'
  BY DEF In, Proper, AfterReset
<1>2. Sequenced'
  BY <1>1 DEF Sequenced, CampaignInv
<1> QED  BY <1>2, Aside

LEMMA PanelStartStep == ASSUME CampaignInv, PanelStart, UNCHANGED <<sealed, evidence>> PROVE CampaignInv'
<1>1. /\ campaign = Off /\ ~Running /\ UNCHANGED <<vars, records, work, experiment>>
      /\ campaign' = [at |-> "publish", phase |-> "panel", n |-> 1, k |-> 1]
  BY DEF PanelStart, Enter, Running
<1>2. sent = {}
  BY RowsOf DEF PanelStart, CampaignInv
<1>3. ~experiment /\ sealed = None /\ evidence = None
  BY <1>2 DEF CampaignInv, Sequenced
<1>4. command = Idle
  BY <1>1, <1>3 DEF CampaignInv, Commanded
<1>5. CircuitInv' /\ Commanded' /\ Receipts' /\ UNCHANGED <<sent, resets>>
  BY <1>1, <1>4, DriverMoves
<1>6. In({"panel"})' /\ ~In(Proper)'
  BY <1>1 DEF In, Running, Off, Proper
<1>7. Jobs'
  <2>1. 1 \in DOMAIN AliasOrder /\ 1 \in 1..Rounds /\ Rounds' = Rounds
    BY PanelSizes DEF Rounds
  <2> QED  BY <1>1, <1>6, <2>1 DEF Jobs, CampaignInv
<1> QED  BY <1>1, <1>3, <1>5, <1>6, <1>7, PanelGoes

LEMMA PanelPublishStep == ASSUME CampaignInv, PanelPublish, UNCHANGED <<sealed, evidence>> PROVE CampaignInv'
<1>1. In({"panel"}) /\ Running
  BY DEF PanelPublish, At, In, Running, Off
<1>2. Job \in PanelTasks /\ JobNow = Job /\ AliasOrder[campaign.k] \in Alias /\ Job \in Task
      /\ Job \notin CandidateTasks
  BY <1>1, PanelJob, Parts DEF CampaignInv
<1> DEFINE request == [kind |-> "explicit", alias |-> AliasOrder[campaign.k]]
<1>3. PICK eligible \in {e \in SUBSET Alias : AliasOrder[campaign.k] \in e} : Send(Job, request, eligible)
  BY DEF PanelPublish
<1>4. request \in Request /\ eligible \in (SUBSET Alias) \ {{}}
  BY <1>2, <1>3 DEF Request
<1>5. /\ CircuitInv' /\ Receipts' /\ UNCHANGED <<sent, resets>>
      /\ command' = [pc |-> "select", task |-> Job, request |-> request, eligible |-> eligible]
  BY <1>2, <1>3, <1>4, SendMoves
<1>6. Goto("publishing") /\ UNCHANGED <<records, experiment>>
  BY DEF PanelPublish
<1>7. campaign'.at = "publishing" /\ Running' /\ In({"panel"})' /\ JobNow' = JobNow
  BY <1>1, <1>6, Moves DEF CampaignInv
<1>8. Jobs'
  BY <1>1, <1>6, MovesTyped DEF CampaignInv, Jobs
<1>9. Commanded'
  BY <1>2, <1>5, <1>7 DEF Commanded
<1> QED  BY <1>1, <1>5, <1>6, <1>7, <1>8, <1>9, InPanel, PanelGoes

\* The panel's next job.
LEMMA PanelJobs ==
    ASSUME NEW pc \in {"publish", "publishing", "execute", "complete", "validating", "report"},
           NEW n \in 1..Rounds, NEW k \in DOMAIN AliasOrder,
           campaign' = [at |-> pc, phase |-> "panel", n |-> n, k |-> k],
           Jobs, UNCHANGED records
    PROVE  Jobs' /\ In({"panel"})'
<1>1. In({"panel"})' /\ ~In(Proper)'
  BY DEF In, Running, Off, Proper
<1>2. n \in Nat /\ k \in Nat
  BY PanelSizes
<1> QED  BY <1>1, <1>2 DEF Jobs, Rounds

LEMMA PanelRecord ==
    ASSUME Jobs, In({"panel"})
    PROVE  campaign.phase = "panel" /\ campaign.n \in 1..Rounds /\ campaign.k \in 1..Len(AliasOrder)
BY PanelSizes DEF Jobs, In, Running

LEMMA PanelPublishedStep == ASSUME CampaignInv, PanelPublished, UNCHANGED <<sealed, evidence>> PROVE CampaignInv'
<1>1. In({"panel"}) /\ Running /\ command = Idle /\ UNCHANGED <<vars, records, work, experiment>>
  BY DEF PanelPublished, At, In, Running, Off
<1>2. CircuitInv' /\ Commanded' /\ Receipts' /\ UNCHANGED <<sent, resets>> /\ Quiet /\ command' = Idle
  BY <1>1, DriverMoves
<1>3. CASE campaign' = Off
  BY <1>1, <1>2, <1>3, StopKeeps DEF Abort
<1>4. CASE campaign' # Off
  <2>1. Job \in sent
    BY <1>4 DEF PanelPublished
  <2>2. \/ campaign.n < Rounds /\ campaign' = [campaign EXCEPT !.at = "publish", !.n = @ + 1]
        \/ campaign.k < Len(AliasOrder) /\ campaign' = [campaign EXCEPT !.at = "publish", !.n = 1, !.k = @ + 1]
        \/ campaign' = [campaign EXCEPT !.at = "execute", !.n = 1, !.k = 1]
    BY <1>4 DEF PanelPublished
  <2>3. \E pc \in {"publish", "execute"}, n \in 1..Rounds, k \in DOMAIN AliasOrder :
           campaign' = [at |-> pc, phase |-> "panel", n |-> n, k |-> k]
    <3>1. campaign.phase = "panel" /\ campaign.n \in 1..Rounds /\ campaign.k \in 1..Len(AliasOrder)
      BY <1>1, PanelRecord DEF CampaignInv
    <3>2. \/ campaign.n < Rounds /\ campaign' = Place("publish", campaign.n + 1, campaign.k)
          \/ campaign.k < Len(AliasOrder) /\ campaign' = Place("publish", 1, campaign.k + 1)
          \/ campaign' = Place("execute", 1, 1)
      BY <1>1, <2>2, Places DEF CampaignInv
    <3>3. \E pc \in {"publish", "execute"}, n \in 1..Rounds, k \in DOMAIN AliasOrder : campaign' = Place(pc, n, k)
      <4>1. CASE campaign.n < Rounds /\ campaign' = Place("publish", campaign.n + 1, campaign.k)
        <5>1. campaign.n + 1 \in 1..Rounds /\ campaign.k \in DOMAIN AliasOrder
          BY <3>1, <4>1, PanelSizes
        <5> QED  BY <4>1, <5>1
      <4>2. CASE campaign.k < Len(AliasOrder) /\ campaign' = Place("publish", 1, campaign.k + 1)
        <5>1. 1 \in 1..Rounds /\ campaign.k + 1 \in DOMAIN AliasOrder
          BY <3>1, <4>2, PanelSizes
        <5> QED  BY <4>2, <5>1
      <4>3. CASE campaign' = Place("execute", 1, 1)
        <5>1. 1 \in 1..Rounds /\ 1 \in DOMAIN AliasOrder
          BY PanelSizes
        <5> QED  BY <4>3, <5>1
      <4> QED  BY <3>2, <4>1, <4>2, <4>3
    <3> QED  BY <3>1, <3>3 DEF Place
  <2>4. Jobs' /\ In({"panel"})'
    BY <1>1, <2>3, PanelJobs DEF CampaignInv
  <2> QED  BY <1>1, <1>2, <2>1, <2>4, InPanel, PanelGoes
<1> QED  BY <1>3, <1>4

LEMMA PanelExecuteStep == ASSUME CampaignInv, PanelExecute, UNCHANGED <<sealed, evidence>> PROVE CampaignInv'
<1>1. /\ In({"panel"}) /\ Running /\ campaign.at = "execute"
      /\ UNCHANGED <<vars, experiment>> /\ Goto("complete")
  BY DEF PanelExecute, At, In, Running, Off
<1>2. command = Idle
  BY <1>1, CommandIdle
<1>3. CircuitInv' /\ Commanded' /\ Receipts' /\ UNCHANGED <<sent, resets>>
  BY <1>1, <1>2, DriverMoves
<1>4. records' \in [Task -> OutcomeOf \cup {None}]
  BY OutcomeTyped DEF PanelExecute, CampaignInv
<1>5. campaign'.at = "complete" /\ In({"panel"})'
  BY <1>1, Moves DEF CampaignInv
<1>6. Jobs' /\ sent # {}
  BY <1>1, <1>4, MovesTyped DEF CampaignInv, Sequenced
<1> QED  BY <1>1, <1>3, <1>5, <1>6, InPanel, PanelGoes

LEMMA PanelValidateStep == ASSUME CampaignInv, PanelValidate, UNCHANGED <<sealed, evidence>> PROVE CampaignInv'
<1>1. /\ In({"panel"}) /\ Running /\ campaign.at = "complete"
      /\ UNCHANGED <<records, experiment>> /\ Goto("validating")
  BY DEF PanelValidate, At, In, Running, Off
<1>2. Job \in Task /\ Job = JobNow /\ Job \notin IncumbentTasks
  BY <1>1, PanelJob, Parts DEF CampaignInv
<1>3. PICK verdict \in Verdict, tokens \in BOOLEAN :
         IF tokens THEN ValidateObserved(Job, verdict) ELSE Validate(Job, verdict)
  <2> DEFINE verdict == IF records[Job].accepted THEN "accepted" ELSE "rejected"
  <2>1. verdict \in Verdict
    BY DEF Verdict
  <2>2. ValidateObserved(Job, verdict) \/ Validate(Job, verdict)
    BY DEF PanelValidate, CompleteAndValidate
  <2> HIDE DEF verdict
  <2>3. \E tokens \in BOOLEAN : IF tokens THEN ValidateObserved(Job, verdict) ELSE Validate(Job, verdict)
    BY <2>2
  <2> QED  BY <2>1, <2>3
<1>4. /\ CircuitInv' /\ Receipts' /\ Job \in sent /\ UNCHANGED <<sent, resets>>
      /\ command' = IF tokens THEN [pc |-> "observe", task |-> Job] ELSE Idle
  BY <1>2, <1>3, ValidateMoves
<1>5. campaign'.at = "validating" /\ In({"panel"})' /\ Running' /\ JobNow' = JobNow
  BY <1>1, Moves DEF CampaignInv
<1>6. Jobs'
  BY <1>1, MovesTyped DEF CampaignInv, Jobs
<1>7. Commanded'
  BY <1>2, <1>4, <1>5 DEF Commanded, Idle
<1> QED  BY <1>1, <1>4, <1>5, <1>6, <1>7, InPanel, PanelGoes

LEMMA PanelValidatedStep == ASSUME CampaignInv, PanelValidated, UNCHANGED <<sealed, evidence>> PROVE CampaignInv'
<1>1. /\ In({"panel"}) /\ Running /\ command = Idle /\ campaign.at = "validating"
      /\ UNCHANGED <<vars, records, work, experiment>>
  BY DEF PanelValidated, At, In, Running, Off
<1>2. CircuitInv' /\ Commanded' /\ Receipts' /\ UNCHANGED <<sent, resets>>
  BY <1>1, DriverMoves
<1>3. \E pc \in {"complete", "execute", "report"}, n \in 1..Rounds, k \in DOMAIN AliasOrder :
         campaign' = [at |-> pc, phase |-> "panel", n |-> n, k |-> k]
  <2>1. campaign.phase = "panel" /\ campaign.n \in 1..Rounds /\ campaign.k \in 1..Len(AliasOrder)
    BY <1>1, PanelRecord DEF CampaignInv
  <2>2. \/ campaign.k < Len(AliasOrder) /\ campaign' = Place("complete", campaign.n, campaign.k + 1)
        \/ campaign.n < Rounds /\ campaign' = Place("execute", campaign.n + 1, 1)
        \/ campaign' = Place("report", campaign.n, campaign.k)
    BY <1>1, Places DEF PanelValidated, CampaignInv
  <2>3. \E pc \in {"complete", "execute", "report"}, n \in 1..Rounds, k \in DOMAIN AliasOrder : campaign' = Place(pc, n, k)
    <3>1. CASE campaign.k < Len(AliasOrder) /\ campaign' = Place("complete", campaign.n, campaign.k + 1)
      <4>1. campaign.k + 1 \in DOMAIN AliasOrder
        BY <2>1, <3>1, PanelSizes
      <4> QED  BY <2>1, <3>1, <4>1
    <3>2. CASE campaign.n < Rounds /\ campaign' = Place("execute", campaign.n + 1, 1)
      <4>1. campaign.n + 1 \in 1..Rounds /\ 1 \in DOMAIN AliasOrder
        BY <2>1, <3>2, PanelSizes
      <4> QED  BY <3>2, <4>1
    <3>3. CASE campaign' = Place("report", campaign.n, campaign.k)
      <4>1. campaign.k \in DOMAIN AliasOrder
        BY <2>1, PanelSizes
      <4> QED  BY <2>1, <3>3, <4>1
    <3> QED  BY <2>2, <3>1, <3>2, <3>3
  <2> QED  BY <2>1, <2>3 DEF Place
<1>4. Jobs' /\ In({"panel"})'
  BY <1>1, <1>3, PanelJobs DEF CampaignInv
<1>5. sent # {}
  BY <1>1 DEF CampaignInv, Sequenced
<1> QED  BY <1>1, <1>2, <1>4, <1>5, InPanel, PanelGoes

LEMMA PanelReportStep == ASSUME CampaignInv, PanelReport, UNCHANGED <<sealed, evidence>> PROVE CampaignInv'
<1>1. /\ In({"panel"}) /\ Running /\ campaign.at = "report"
      /\ UNCHANGED <<vars, records>> /\ experiment' = TRUE /\ Abort
  BY DEF PanelReport, At, In, Running, Off
<1>2. command = Idle /\ sent # {}
  BY <1>1, CommandIdle DEF CampaignInv, Sequenced
<1>3. Quiet /\ command' = Idle
  BY <1>1, <1>2, DriverMoves
<1> QED  BY <1>1, <1>2, <1>3, StopKeeps

LEMMA PanelSteps == ASSUME CampaignInv, PanelStep, UNCHANGED <<sealed, evidence>> PROVE CampaignInv'
BY PanelStartStep, PanelPublishStep, PanelPublishedStep, PanelExecuteStep, PanelValidateStep,
   PanelValidatedStep, PanelReportStep DEF PanelStep

-----------------------------------------------------------------------------
(* The driver *)

LEMMA Underways ==
    ASSUME CampaignInv, NEW pc, Underway(pc), pc # "off"
    PROVE  In(Proper) /\ Running /\ campaign.at = pc /\ evidence = None
<1>1. Running /\ campaign.at = pc
  BY DEF Underway, Running, Off
<1> QED  BY <1>1, Undecided DEF Underway, CampaignInv, Jobs, In, Running

LEMMA Gates ==
    ASSUME CampaignInv, NEW p \in Proper, At(p, "gate")
    PROVE  /\ In(Proper) /\ In({p}) /\ Running /\ evidence = None /\ command = Idle
           /\ campaign.at = "gate" /\ campaign.phase = p /\ \A t : ~Awaiting(t)
           /\ \A j \in DOMAIN Batch : records[Batch[j]] # None
<1>1. In(Proper) /\ In({p}) /\ Running /\ campaign.at = "gate"
  BY DEF At, In, Running, Off
<1>2. evidence = None /\ command = Idle
  BY <1>1, Undecided, CommandIdle
<1>3. \A t : ~Awaiting(t)
  BY <1>1 DEF Awaiting
<1> QED  BY <1>1, <1>2, <1>3 DEF At, CampaignInv, Tallied

\* The first job of a phase, or another.
LEMMA PlaceTyped ==
    ASSUME NEW pc \in {"publish", "publishing", "execute", "complete", "validating", "gate"},
           NEW p \in Proper, NEW n \in DOMAIN Batches(p), NEW k \in DOMAIN Batches(p)[n],
           pc = "execute" => k = 1, n \in Nat, k \in Nat,
           campaign' = [at |-> pc, phase |-> p, n |-> n, k |-> k],
           records' \in [Task -> OutcomeOf \cup {None}]
    PROVE  /\ Jobs' /\ Running' /\ \A phases : In(phases)' <=> p \in phases
           /\ campaign'.at = pc /\ campaign'.phase = p /\ campaign'.n = n /\ campaign'.k = k
           /\ Batch' = Batches(p)[n] /\ BatchJob' = Batches(p)[n][k]
<1>1. campaign'.at = pc /\ campaign'.phase = p /\ campaign'.n = n /\ campaign'.k = k
  OBVIOUS
<1>2. Running' /\ \A phases : In(phases)' <=> p \in phases
  BY <1>1 DEF In, Running, Off
<1>3. Batch' = Batches(p)[n] /\ BatchJob' = Batches(p)[n][k] /\ Batches(campaign.phase)' = Batches(p)
  BY <1>1 DEF Batch, BatchJob, Batches
<1>4. ~In({"panel"})'
  BY <1>2 DEF Proper
<1> QED  BY <1>1, <1>2, <1>3, <1>4 DEF Jobs

LEMMA FirstJob ==
    ASSUME NEW p \in Proper
    PROVE  1 \in DOMAIN Batches(p) /\ 1 \in DOMAIN Batches(p)[1]
<1>1. CASE p = "recovery"
  <2>1. Pairs[1] \in Task \X Task /\ 1 \in DOMAIN Pairs
    BY SuiteAssumption
  <2>2. Batches(p) = Pairs
    BY <1>1 DEF Batches
  <2>3. PICK a \in Task, b \in Task : Pairs[1] = <<a, b>>
    BY <2>1
  <2> QED  BY <2>1, <2>2, <2>3
<1>2. CASE p = "post_reset"
  <2>1. 1 \in DOMAIN Shadows
    BY SuiteAssumption
  <2> QED  BY <1>2, <2>1 DEF Batches
<1>3. CASE p = "production"
  BY <1>3 DEF Batches
<1>4. CASE p = "fallback"
  BY <1>4 DEF Batches
<1> QED  BY <1>1, <1>2, <1>3, <1>4 DEF Proper

\* Between two steps that decide, what the driver keeps still agrees with the ledger.
LEMMA Tallying ==
    ASSUME CampaignInv, In(Proper), UNCHANGED <<validation, observation, records>>,
           command = Idle, \A t : ~Awaiting(t), campaign'.at \in {"publish", "execute"}
    PROVE  Tallied'
<1>1. \A t \in Task : records[t] # None =>
         /\ Agreed(t)
         /\ records[t].reported /\ t \notin IncumbentTasks => observation[t] # None
  BY DEF CampaignInv, Tallied, Idle
<1>2. \A t \in Task : Agreed(t)' <=> Agreed(t)
  BY DEF Agreed
<1> QED  BY <1>1, <1>2 DEF Tallied

LEMMA Renewing ==
    ASSUME CampaignInv, In({"post_reset", "production"}),
           UNCHANGED <<receipt, validation, observation, fresh, records>>,
           \A t : ~Awaiting(t)', campaign'.at # "execute"
    PROVE  Renewed'
<1>1. Observed' = Observed
  BY DEF Observed
<1> QED  BY <1>1 DEF CampaignInv, Renewed

LEMMA StartStep == ASSUME CampaignInv, Start PROVE CampaignInv'
<1>1. /\ campaign = Off /\ ~Running /\ command = Idle /\ evidence = None
      /\ sealed = <<open, resets>> /\ records' = [t \in Task |-> None]
      /\ campaign' = [at |-> "publish", phase |-> "recovery", n |-> 1, k |-> 1]
      /\ UNCHANGED <<vars, work, experiment, sealed, evidence>>
  BY DEF Start, Enter, Running
<1>2. /\ CircuitInv' /\ Commanded' /\ Receipts'
      /\ UNCHANGED <<generation, receipt, sent, validation, observation, open, resets, fresh>>
  BY <1>1, DriverMoves
<1>3. /\ Jobs' /\ Running' /\ \A phases : In(phases)' <=> "recovery" \in phases
      /\ campaign'.at = "publish"
  BY <1>1, FirstJob, PlaceTyped DEF Proper
<1>4. sealed # None
  BY <1>1, CampaignAbsent DEF CampaignInv, CircuitInv, Types
<1>5. sealed[1] = open /\ sealed[2] = resets
  BY <1>1
<1>6. Sequenced'
  BY <1>1, <1>2, <1>3, <1>4, <1>5 DEF Sequenced, CampaignInv, AfterReset
<1>7. Tallied' /\ Ahead' /\ Renewed' /\ Producing' /\ Emptied'
  <2>1. ~In(AfterReset)' /\ ~In({"post_reset"})' /\ ~In({"production"})' /\ ~In({"fallback"})'
        /\ ~In({"post_reset", "production"})'
    BY <1>3 DEF AfterReset
  <2>2. Tallied'
    BY <1>1, <1>3 DEF Tallied
  <2>3. Ahead'
    BY <1>1, <2>1, Parts DEF Ahead, Trial
  <2> QED  BY <2>1, <2>2, <2>3 DEF Renewed, Producing, Emptied
<1> QED  BY <1>1, <1>2, <1>3, <1>6, <1>7, Together

LEMMA PublishStep == ASSUME CampaignInv, Publish PROVE CampaignInv'
<1>1. /\ In(Proper) /\ Running /\ campaign.at = "publish" /\ evidence = None
      /\ Goto("publishing") /\ UNCHANGED <<records, work, experiment, sealed, evidence>>
  BY Underways DEF Publish
<1>2. BatchJob \in Task /\ JobNow = BatchJob /\ BatchJob = Batch[campaign.k]
  BY <1>1, BatchOf DEF CampaignInv
<1>3. PICK eligible \in Activated : Send(BatchJob, RequestOf, eligible)
  BY DEF Publish
<1>4. /\ RequestOf \in Request /\ eligible \in (SUBSET Alias) \ {{}}
      /\ RequestOf.kind = "recovery" <=> BatchJob \in CandidateTasks
      /\ campaign.phase # "recovery" => RequestOf.kind # "recovery"
  <2>1. CASE campaign.phase = "recovery" /\ campaign.k = 1
    <3>1. RequestOf = [kind |-> "explicit", alias |-> Incumbent]
      BY <2>1 DEF RequestOf
    <3>2. BatchJob \in IncumbentTasks
      BY <1>1, <2>1, BatchOf DEF CampaignInv
    <3> QED  BY <1>3, <2>1, <3>1, <3>2, CanaryConstants, Parts DEF Activated, Request
  <2>2. CASE campaign.phase = "recovery" /\ campaign.k # 1
    <3>1. RequestOf = [kind |-> "recovery", alias |-> Candidate]
      BY <2>2 DEF RequestOf
    <3>2. BatchJob \in CandidateTasks
      BY <1>1, <2>2, BatchOf DEF CampaignInv
    <3> QED  BY <1>3, <2>2, <3>1, <3>2, CanaryConstants, Parts DEF Activated, Request
  <2>3. CASE campaign.phase # "recovery"
    <3>1. RequestOf \in {[kind |-> "explicit", alias |-> Candidate], [kind |-> "production"]}
      BY <2>3 DEF RequestOf
    <3>2. RequestOf \in Request /\ RequestOf.kind # "recovery"
      BY <3>1, CanaryConstants DEF Request
    <3>3. BatchJob \notin CandidateTasks
      BY <1>1, <2>3, BatchOf, Parts DEF CampaignInv, In, Proper
    <3>4. eligible = Alias
      BY <1>3, <2>3 DEF Activated
    <3> QED  BY <2>3, <3>2, <3>3, <3>4, CanaryConstants
  <2> QED  BY <2>1, <2>2, <2>3
<1>5. /\ CircuitInv' /\ Receipts' /\ command = Idle
      /\ command' = [pc |-> "select", task |-> BatchJob, request |-> RequestOf, eligible |-> eligible]
      /\ UNCHANGED <<generation, receipt, sent, validation, observation, resets, fresh>>
      /\ open \subseteq open'
  BY <1>2, <1>3, <1>4, SendMoves
<1>6. /\ Running' /\ campaign'.at = "publishing" /\ JobNow' = JobNow /\ BatchJob' = BatchJob
      /\ \A phases : In(phases)' <=> In(phases)
  BY <1>1, Moves DEF CampaignInv
<1>7. Jobs'
  BY <1>1, MovesTyped DEF CampaignInv, Jobs
<1>8. Commanded'
  BY <1>2, <1>4, <1>5, <1>6 DEF Commanded
<1>9. Sequenced'
  BY <1>1, <1>5, <1>6 DEF Sequenced, CampaignInv
<1>10. /\ Tallied' /\ Ahead' /\ Renewed'
       /\ In({"production"}) => Earned'
       /\ In({"fallback"}) => (validation[Canary] # None /\ validation[Canary].verdict = "rejected")'
  BY <1>1, <1>5, RowsKeep DEF Idle
<1>11. Producing'
  <2>1. In({"production"}) /\ (records[Canary] = None \/ records[Canary].accepted) => Candidate \notin open'
    <3> SUFFICES ASSUME In({"production"}), records[Canary] = None \/ records[Canary].accepted
                 PROVE  Candidate \notin open'
      OBVIOUS
    <3>1. open' \in RefreshCircuits(CurrentGeneration(eligible))
      BY <1>3, <1>4 DEF Send, In
    <3>2. CurrentGeneration(eligible) \subseteq Observed
      BY DEF CurrentGeneration
    <3> QED  BY <3>1, <3>2, StaysClosed
  <2> QED  BY <1>1, <1>6, <1>10, <2>1 DEF Producing
<1>12. Emptied'
  BY <1>1, <1>6 DEF Emptied, CampaignInv
<1> QED  BY <1>1, <1>5, <1>7, <1>8, <1>9, <1>10, <1>11, <1>12, Together

LEMMA PublishRefusedStep == ASSUME CampaignInv, PublishRefused PROVE CampaignInv'
<1>1. Running /\ Abort /\ command = Idle /\ UNCHANGED <<vars, records, experiment, sealed, evidence>>
  BY Underways DEF PublishRefused
<1> QED  BY <1>1, DriverMoves, StopKeeps

LEMMA UnexpectedDeliveryStep == ASSUME CampaignInv, UnexpectedDelivery PROVE CampaignInv'
<1>1. Running /\ campaign.at = "execute" /\ Abort /\ UNCHANGED <<vars, records, experiment, sealed, evidence>>
  BY Underways DEF UnexpectedDelivery
<1> QED  BY <1>1, CommandIdle, DriverMoves, StopKeeps

LEMMA KillDriverStep == ASSUME CampaignInv, KillDriver, UNCHANGED <<sealed, evidence>> PROVE CampaignInv'
BY StopKeeps DEF KillDriver, Quiet, Running

LEMMA LenTyped == ASSUME Jobs, In(Proper) PROVE Len(Batches(campaign.phase)) \in Nat
<1>1. CASE campaign.phase = "recovery"
  BY <1>1, SuiteAssumption DEF Batches
<1>2. CASE campaign.phase = "post_reset"
  <2>1. Batches(campaign.phase) = [m \in DOMAIN Shadows |-> <<Shadows[m]>>]
    BY <1>2 DEF Batches
  <2>2. DOMAIN Shadows = 1..Len(Shadows) /\ Len(Shadows) \in Nat
    BY SuiteAssumption
  <2>3. \A m \in 1..Len(Shadows) : <<Shadows[m]>> \in Seq(Task)
    BY SuiteAssumption
  <2> QED  BY <2>1, <2>2, <2>3
<1>3. CASE campaign.phase = "production" \/ campaign.phase = "fallback"
  <2>1. Batches(campaign.phase) = <<<<Canary>>>> \/ Batches(campaign.phase) = <<<<Fallback>>>>
    BY <1>3 DEF Batches
  <2> QED  BY <2>1
<1> QED  BY <1>1, <1>2, <1>3 DEF In, Proper

LEMMA NotLess == ~(1 < 1)
OBVIOUS

LEMMA BatchesTyped ==
    ASSUME Jobs, In(Proper)
    PROVE  /\ campaign.phase \in Proper
           /\ campaign.n \in DOMAIN Batches(campaign.phase) /\ Batch = Batches(campaign.phase)[campaign.n]
           /\ \A n \in Nat : n >= 1 /\ n <= Len(Batches(campaign.phase)) =>
                 n \in DOMAIN Batches(campaign.phase) /\ 1 \in DOMAIN Batches(campaign.phase)[n]
<1> DEFINE all == Batches(campaign.phase)
<1>1. campaign.phase \in Proper /\ campaign.n \in DOMAIN all /\ Batch = all[campaign.n]
  BY DEF Jobs, In, Batch
<1>2. ASSUME campaign.phase = "recovery", NEW n \in Nat, n >= 1, n <= Len(all)
      PROVE  n \in DOMAIN all /\ 1 \in DOMAIN all[n]
  <2>1. all = Pairs
    BY <1>2 DEF Batches
  <2>2. n \in DOMAIN Pairs /\ Pairs[n] \in Task \X Task
    BY <1>2, <2>1, SuiteAssumption
  <2>3. PICK a \in Task, b \in Task : Pairs[n] = <<a, b>>
    BY <2>2
  <2> QED  BY <2>1, <2>2, <2>3
<1>3. ASSUME campaign.phase = "post_reset", NEW n \in Nat, n >= 1, n <= Len(all)
      PROVE  n \in DOMAIN all /\ 1 \in DOMAIN all[n]
  <2>1. all = [m \in DOMAIN Shadows |-> <<Shadows[m]>>]
    BY <1>3 DEF Batches
  <2>2. DOMAIN Shadows = 1..Len(Shadows) /\ Len(Shadows) \in Nat
    BY SuiteAssumption
  <2>3. \A m \in 1..Len(Shadows) : <<Shadows[m]>> \in Seq(Task)
    BY SuiteAssumption
  <2>4. Len(all) = Len(Shadows)
    BY <2>1, <2>2, <2>3
  <2> QED  BY <1>3, <2>1, <2>2, <2>4
<1>4. ASSUME campaign.phase \in {"production", "fallback"}, NEW n \in Nat, n >= 1, n <= Len(all)
      PROVE  n \in DOMAIN all /\ 1 \in DOMAIN all[n]
  <2>1. all = <<<<Canary>>>> \/ all = <<<<Fallback>>>>
    BY <1>4 DEF Batches
  <2> QED  BY <1>4, <2>1
<1> HIDE DEF all
<1>5. \A n \in Nat : n >= 1 /\ n <= Len(all) => n \in DOMAIN all /\ 1 \in DOMAIN all[n]
  BY <1>1, <1>2, <1>3, <1>4 DEF Proper
<1> QED  BY <1>1, <1>5 DEF all

\* Another place in the same phase.
LEMMA PlaceGoes ==
    ASSUME CampaignInv, In(Proper), UNCHANGED records,
           NEW pc \in {"publish", "publishing", "execute", "complete", "validating", "gate"},
           NEW n \in Nat, NEW k \in Nat, campaign' = Place(pc, n, k),
           n \in DOMAIN Batches(campaign.phase), k \in DOMAIN Batches(campaign.phase)[n],
           pc = "execute" => k = 1
    PROVE  /\ Jobs' /\ Running' /\ \A phases : In(phases)' <=> In(phases)
           /\ campaign'.at = pc /\ campaign'.n = n /\ campaign'.k = k
           /\ Batch' = Batches(campaign.phase)[n] /\ BatchJob' = Batches(campaign.phase)[n][k]
<1>1. campaign.phase \in Proper /\ Running /\ Jobs
  BY BatchesTyped DEF CampaignInv, In
<1>2. records' \in [Task -> OutcomeOf \cup {None}]
  BY <1>1 DEF Jobs
<1>3. campaign' = [at |-> pc, phase |-> campaign.phase, n |-> n, k |-> k]
  BY DEF Place
<1>4. /\ Jobs' /\ Running' /\ \A phases : In(phases)' <=> campaign.phase \in phases
      /\ campaign'.at = pc /\ campaign'.n = n /\ campaign'.k = k
      /\ Batch' = Batches(campaign.phase)[n] /\ BatchJob' = Batches(campaign.phase)[n][k]
  BY <1>1, <1>2, <1>3, PlaceTyped
<1> QED  BY <1>1, <1>4 DEF In

LEMMA OneOfBatch ==
    ASSUME CampaignInv, In(Proper)
    PROVE  /\ In(AfterReset) => campaign.phase # "recovery" /\ Len(Batch) = 1 /\ campaign.k = 1
           /\ In({"post_reset", "production"}) => In(AfterReset)
           /\ campaign.k \in Nat /\ campaign.n \in Nat /\ Len(Batch) \in Nat
           /\ campaign.k >= 1 /\ campaign.k <= Len(Batch) /\ DOMAIN Batch = 1..Len(Batch)
<1>1. campaign.k \in 1..Len(Batch) /\ DOMAIN Batch = 1..Len(Batch) /\ Len(Batch) \in Nat
  <2>1. Batch \in Seq(Task) /\ campaign.k \in 1..Len(Batch)
    BY BatchOf DEF CampaignInv
  <2> QED  BY <2>1
<1>2. campaign.n \in Nat
  BY Places, Phases DEF CampaignInv
<1>3. In(AfterReset) => campaign.phase # "recovery" /\ Len(Batch) = 1
  BY BatchOf DEF CampaignInv, In, AfterReset
<1>4. In({"post_reset", "production"}) => In(AfterReset)
  BY Phases DEF AfterReset
<1> QED  BY <1>1, <1>2, <1>3, <1>4

LEMMA PublishedStep == ASSUME CampaignInv, Published PROVE CampaignInv'
<1>1. /\ In(Proper) /\ Running /\ campaign.at = "publishing" /\ evidence = None /\ command = Idle
      /\ UNCHANGED <<vars, records, work, experiment, sealed, evidence>>
  BY Underways DEF Published
<1>2. /\ CircuitInv' /\ Commanded' /\ Receipts' /\ Quiet /\ command' = Idle
      /\ UNCHANGED <<generation, receipt, sent, validation, observation, open, resets, fresh>>
  BY <1>1, DriverMoves
<1>3. CASE Abort
  BY <1>1, <1>2, <1>3, StopKeeps
<1>4. CASE ~Abort
  <2>1. /\ RequestOf.kind # "production" => receipt[BatchJob].alias = RequestOf.alias
        /\ \/ campaign.k < Len(Batch) /\ campaign' = [campaign EXCEPT !.at = "publish", !.k = @ + 1]
           \/ campaign' = [campaign EXCEPT !.at = "execute", !.k = 1]
    BY <1>4 DEF Published
  <2>2. /\ campaign.k \in Nat /\ campaign.n \in Nat /\ Len(Batch) \in Nat
        /\ campaign.k >= 1 /\ campaign.k <= Len(Batch) /\ DOMAIN Batch = 1..Len(Batch)
        /\ In(AfterReset) => campaign.phase # "recovery" /\ Len(Batch) = 1 /\ campaign.k = 1
        /\ In({"post_reset", "production"}) => In(AfterReset)
        /\ campaign.n \in DOMAIN Batches(campaign.phase) /\ Batch = Batches(campaign.phase)[campaign.n]
    BY <1>1, OneOfBatch, BatchesTyped DEF CampaignInv
  <2>3. \/ campaign.k < Len(Batch) /\ campaign' = Place("publish", campaign.n, campaign.k + 1)
        \/ campaign' = Place("execute", campaign.n, 1)
    BY <1>1, <2>1, Places DEF CampaignInv
  <2>4. /\ Jobs' /\ Running' /\ \A phases : In(phases)' <=> In(phases)
        /\ campaign'.n = campaign.n /\ Batch' = Batch
        /\ \/ campaign'.at = "publish" /\ ~In(AfterReset)
           \/ campaign'.at = "execute" /\ (In(AfterReset) => BatchJob' = BatchJob)
    <3>1. CASE campaign.k < Len(Batch) /\ campaign' = Place("publish", campaign.n, campaign.k + 1)
      <4>1. campaign.k + 1 \in DOMAIN Batch /\ campaign.k + 1 \in Nat
        BY <2>2, <3>1
      <4>2. ~In(AfterReset)
        <5>1. ~(Len(Batch) = 1 /\ campaign.k = 1)
          BY <3>1, NotLess
        <5> QED  BY <2>2, <5>1
      <4> QED  BY <1>1, <2>2, <3>1, <4>1, <4>2, PlaceGoes
    <3>2. CASE campaign' = Place("execute", campaign.n, 1)
      <4>1. 1 \in DOMAIN Batch
        BY <2>2
      <4>2. /\ Jobs' /\ Running' /\ \A phases : In(phases)' <=> In(phases)
            /\ campaign'.n = campaign.n /\ Batch' = Batch
            /\ campaign'.at = "execute" /\ BatchJob' = Batch[1]
        BY <1>1, <2>2, <3>2, <4>1, PlaceGoes
      <4>3. In(AfterReset) => BatchJob = Batch[1]
        BY <2>2 DEF BatchJob
      <4> QED  BY <4>2, <4>3
    <3> QED  BY <2>3, <3>1, <3>2
  <2>5. (\A t : ~Awaiting(t)) /\ (\A t : ~Awaiting(t)')
    BY <1>1, <2>4 DEF Awaiting
  <2>6. Sequenced'
    BY <1>1, <1>2, <2>4, Phases DEF Sequenced, CampaignInv
  <2>7. Tallied'
    BY <1>1, <1>2, <2>4, <2>5, Tallying
  <2>8. Ahead'
    BY <1>1, <2>4 DEF Ahead, CampaignInv
  <2>9. Renewed'
    <3> SUFFICES ASSUME In({"post_reset", "production"}) PROVE Renewed'
      BY <2>4 DEF Renewed
    <3>1. Observed' = Observed
      BY <1>2 DEF Observed
    <3>2. In({"post_reset"}) => receipt'[BatchJob'].alias = Candidate
      <4>1. campaign.phase = "post_reset" => RequestOf = [kind |-> "explicit", alias |-> Candidate]
        BY DEF RequestOf
      <4>2. In({"post_reset"}) => receipt[BatchJob].alias = Candidate
        BY <2>1, <4>1 DEF In
      <4>3. BatchJob' = BatchJob
        BY <2>2, <2>4
      <4> QED  BY <1>2, <4>2, <4>3
    <3> QED  BY <1>1, <1>2, <2>4, <2>5, <3>1, <3>2 DEF Renewed, CampaignInv
  <2>10. Producing'
    <3>1. Earned' <=> Earned
      BY <1>2 DEF Earned, AcceptedOf, Evidence, Observed
    <3> QED  BY <1>1, <1>2, <2>4, <3>1 DEF Producing, CampaignInv
  <2>11. Emptied'
    BY <1>1, <2>4 DEF Emptied, CampaignInv
  <2> QED  BY <1>1, <1>2, <2>4, <2>6, <2>7, <2>8, <2>9, <2>10, <2>11, Together
<1> QED  BY <1>3, <1>4

LEMMA ValidatedStep == ASSUME CampaignInv, Validated PROVE CampaignInv'
<1>1. /\ In(Proper) /\ Running /\ campaign.at = "validating" /\ evidence = None /\ command = Idle
      /\ UNCHANGED <<vars, records, work, experiment, sealed, evidence>>
  BY Underways DEF Validated
<1>2. /\ CircuitInv' /\ Commanded' /\ Receipts' /\ Quiet /\ command' = Idle
      /\ UNCHANGED <<generation, receipt, sent, validation, observation, open, resets, fresh>>
  BY <1>1, DriverMoves
<1>3. /\ campaign.k \in Nat /\ campaign.n \in Nat /\ Len(Batch) \in Nat
      /\ campaign.k >= 1 /\ campaign.k <= Len(Batch) /\ DOMAIN Batch = 1..Len(Batch)
      /\ In(AfterReset) => campaign.phase # "recovery" /\ Len(Batch) = 1 /\ campaign.k = 1
      /\ In({"post_reset", "production"}) => In(AfterReset)
      /\ campaign.n \in DOMAIN Batches(campaign.phase) /\ Batch = Batches(campaign.phase)[campaign.n]
  BY <1>1, OneOfBatch, BatchesTyped DEF CampaignInv
<1>4. \/ campaign.k < Len(Batch) /\ campaign' = Place("complete", campaign.n, campaign.k + 1)
      \/ /\ campaign.k = Len(Batch) /\ campaign.n < Len(Batches(campaign.phase))
         /\ campaign' = Place("publish", campaign.n + 1, 1)
      \/ campaign.k = Len(Batch) /\ campaign' = Place("gate", campaign.n, campaign.k)
  <2>1. \/ campaign.k < Len(Batch) /\ campaign' = [campaign EXCEPT !.at = "complete", !.k = @ + 1]
        \/ /\ ~(campaign.k < Len(Batch)) /\ campaign.n < Len(Batches(campaign.phase))
           /\ campaign' = [campaign EXCEPT !.at = "publish", !.n = @ + 1, !.k = 1]
        \/ ~(campaign.k < Len(Batch)) /\ campaign' = [campaign EXCEPT !.at = "gate"]
    BY DEF Validated
  <2>2. ~(campaign.k < Len(Batch)) => campaign.k = Len(Batch)
    BY <1>3
  <2> QED  BY <1>1, <2>1, <2>2, Places DEF CampaignInv
<1>5. /\ Jobs' /\ Running' /\ \A phases : In(phases)' <=> In(phases)
      /\ \/ /\ campaign'.at = "complete" /\ ~In(AfterReset)
            /\ campaign'.n = campaign.n /\ campaign'.k = campaign.k + 1 /\ Batch' = Batch
         \/ /\ campaign'.at = "publish" /\ campaign'.n = campaign.n + 1
            /\ campaign.k = Len(Batch)
         \/ /\ campaign'.at = "gate" /\ campaign'.n = campaign.n /\ Batch' = Batch
            /\ campaign.k = Len(Batch)
  <2>1. CASE campaign.k < Len(Batch) /\ campaign' = Place("complete", campaign.n, campaign.k + 1)
    <3>1. campaign.k + 1 \in DOMAIN Batch /\ campaign.k + 1 \in Nat
      BY <1>3, <2>1
    <3>2. ~In(AfterReset)
      <4>1. ~(Len(Batch) = 1 /\ campaign.k = 1)
        BY <2>1, NotLess
      <4> QED  BY <1>3, <4>1
    <3> QED  BY <1>1, <1>3, <2>1, <3>1, <3>2, PlaceGoes
  <2>2. CASE /\ campaign.k = Len(Batch) /\ campaign.n < Len(Batches(campaign.phase))
             /\ campaign' = Place("publish", campaign.n + 1, 1)
    <3>1. campaign.n \in 1..Len(Batches(campaign.phase)) /\ campaign.n + 1 \in Nat
      BY <1>1, <1>3, BatchOf DEF CampaignInv
    <3>2. campaign.n + 1 >= 1 /\ campaign.n + 1 <= Len(Batches(campaign.phase))
      <4>1. PICK len : len = Len(Batches(campaign.phase))
        OBVIOUS
      <4>2. len \in Nat
        BY <1>1, <4>1, LenTyped DEF CampaignInv
      <4> QED  BY <2>2, <3>1, <4>1, <4>2
    <3>3. /\ campaign.n + 1 \in DOMAIN Batches(campaign.phase)
          /\ 1 \in DOMAIN Batches(campaign.phase)[campaign.n + 1]
      BY <1>1, <3>1, <3>2, BatchesTyped DEF CampaignInv
    <3> QED  BY <1>1, <2>2, <3>1, <3>3, PlaceGoes
  <2>3. CASE campaign.k = Len(Batch) /\ campaign' = Place("gate", campaign.n, campaign.k)
    <3>1. campaign.k \in DOMAIN Batch
      BY <1>3
    <3> QED  BY <1>1, <1>3, <2>3, <3>1, PlaceGoes
  <2> QED  BY <1>4, <2>1, <2>2, <2>3
<1>6. \A t : Awaiting(t)' <=> Awaiting(t)
  BY <1>1, <1>3, <1>5 DEF Awaiting
<1>7. Sequenced'
  BY <1>1, <1>2, <1>5, Phases DEF Sequenced, CampaignInv
<1>8. Tallied'
  <2>1. \A t \in Task : Agreed(t)' <=> Agreed(t)
    BY <1>1, <1>2 DEF Agreed
  <2>2. campaign'.at \in {"complete", "validating", "gate"} =>
           \A j \in DOMAIN Batch' : records[Batch'[j]] # None
    BY <1>1, <1>5 DEF Tallied, CampaignInv
  <2> QED  BY <1>1, <1>2, <1>5, <1>6, <2>1, <2>2 DEF Tallied, CampaignInv
<1>9. Ahead'
  <2>1. In({"production"}) => campaign'.at # "publish"
    <3>1. In({"production"}) => Len(Batches(campaign.phase)) = 1 /\ campaign.n = 1
      BY <1>3 DEF In, Batches
    <3>2. campaign'.at = "publish" => campaign.n < Len(Batches(campaign.phase))
      BY <1>4 DEF Place
    <3>3. In({"production"}) => ~(campaign.n < Len(Batches(campaign.phase)))
      BY <3>1, NotLess
    <3> QED  BY <3>2, <3>3
  <2>2. \A m \in DOMAIN Shadows : m \in Nat
    BY SuiteAssumption
  <2>3. \A m \in DOMAIN Shadows :
           m > campaign'.n \/ (m = campaign'.n /\ campaign'.at \in {"publish", "publishing", "execute"})
              => m > campaign.n
    BY <1>3, <1>5, <2>2
  <2> QED  BY <1>1, <1>5, <2>1, <2>3 DEF Ahead, CampaignInv
<1>10. Renewed'
  <2> SUFFICES ASSUME In({"post_reset", "production"}) PROVE Renewed'
    BY <1>5 DEF Renewed
  <2>1. \A t : ~Awaiting(t)'
    BY <1>1, <1>3, <1>6, NoneAwaiting DEF CampaignInv
  <2> QED  BY <1>1, <1>2, <1>5, <2>1, Renewing
<1>11. Producing'
  <2>1. Earned' <=> Earned
    BY <1>2 DEF Earned, AcceptedOf, Evidence, Observed
  <2> QED  BY <1>1, <1>2, <1>5, <2>1 DEF Producing, CampaignInv
<1>12. Emptied'
  BY <1>1, <1>5 DEF Emptied, CampaignInv
<1> QED  BY <1>1, <1>2, <1>5, <1>7, <1>8, <1>9, <1>10, <1>11, <1>12, Together

LEMMA ExecuteBatchStep == ASSUME CampaignInv, ExecuteBatch PROVE CampaignInv'
<1> DEFINE tasks == {Batch[k] : k \in DOMAIN Batch}
<1>1. /\ In(Proper) /\ Running /\ campaign.at = "execute" /\ evidence = None
      /\ Goto("complete") /\ UNCHANGED <<vars, work, experiment, sealed, evidence>>
      /\ Execute(tasks, FALSE)
  BY Underways DEF ExecuteBatch
<1>2. /\ CircuitInv' /\ Commanded' /\ Receipts' /\ command' = Idle /\ command = Idle
      /\ UNCHANGED <<generation, receipt, sent, validation, observation, open, resets, fresh>>
  BY <1>1, CommandIdle, DriverMoves
<1>3. /\ records' \in [Task -> OutcomeOf \cup {None}]
      /\ \A t \in Task \cap tasks : records'[t] # None
      /\ \A t \in Task \ tasks : records'[t] = records[t]
  BY <1>1, OutcomeTyped DEF CampaignInv
<1>4. /\ campaign'.at = "complete" /\ campaign'.n = campaign.n /\ campaign'.k = campaign.k
      /\ Running' /\ Batch' = Batch /\ BatchJob' = BatchJob
      /\ \A phases : In(phases)' <=> In(phases)
  BY <1>1, Moves DEF CampaignInv
<1>5. Jobs'
  BY <1>1, <1>3, MovesTyped DEF CampaignInv
<1>6. campaign.k = 1 /\ Batch \in Seq(Task) /\ BatchJob \in Task /\ DOMAIN Batch = 1..Len(Batch)
  BY <1>1, BatchOf, OneOfBatch DEF CampaignInv, Jobs
<1>7. \A t : Awaiting(t)' <=> t \in tasks
  <2>1. \A j \in DOMAIN Batch : j >= 1
    BY <1>6
  <2> QED  BY <1>4, <1>6, <2>1 DEF Awaiting
<1>8. tasks \subseteq Task /\ (In({"post_reset", "production"}) => tasks = {BatchJob})
  <2>1. tasks \subseteq Task
    BY <1>6
  <2>2. In({"post_reset", "production"}) => Len(Batch) = 1 /\ BatchJob = Batch[1]
    BY <1>1, <1>6, OneOfBatch DEF BatchJob
  <2> QED  BY <1>6, <2>1, <2>2
<1>9. Sequenced'
  BY <1>1, <1>2, <1>4, Phases DEF Sequenced, CampaignInv
<1>10. Tallied'
  <2>1. \A t : ~Awaiting(t)
    BY <1>1 DEF Awaiting
  <2>2. \A t \in Task \ tasks : Agreed(t)' <=> Agreed(t)
    BY <1>2, <1>3 DEF Agreed
  <2>3. \A j \in DOMAIN Batch : records'[Batch[j]] # None
    BY <1>3, <1>8
  <2> QED  BY <1>1, <1>2, <1>3, <1>4, <1>7, <2>1, <2>2, <2>3 DEF Tallied, CampaignInv
<1>11. Ahead'
  <2>1. In({"recovery"}) => tasks \subseteq PairTasks
    <3> SUFFICES ASSUME In({"recovery"}) PROVE tasks \subseteq PairTasks
      OBVIOUS
    <3>1. /\ campaign.n \in DOMAIN Pairs /\ Len(Batch) = 2
          /\ Batch[1] = Pairs[campaign.n][1] /\ Batch[2] = Pairs[campaign.n][2]
      BY <1>1, BatchOf DEF CampaignInv, In
    <3>2. \A j \in DOMAIN Batch : Batch[j] = Batch[1] \/ Batch[j] = Batch[2]
      BY <1>6, <3>1
    <3>3. Batch[1] \in PairTasks /\ Batch[2] \in PairTasks
      BY <3>1 DEF PairTasks
    <3> QED  BY <3>2, <3>3
  <2>2. In({"recovery"}) => \A t \in Trial : records'[t] = None
    BY <1>1, <1>3, <2>1, Parts DEF Ahead, Trial, CampaignInv
  <2>3. In({"post_reset"}) =>
          /\ records'[Canary] = None
          /\ \A m \in DOMAIN Shadows : m > campaign.n => records'[Shadows[m]] = None
    <3> SUFFICES ASSUME In({"post_reset"})
                 PROVE  /\ records'[Canary] = None
                        /\ \A m \in DOMAIN Shadows : m > campaign.n => records'[Shadows[m]] = None
      OBVIOUS
    <3>1. campaign.n \in DOMAIN Shadows /\ BatchJob = Shadows[campaign.n] /\ campaign.n \in Nat
      <4>1. campaign.n \in DOMAIN Shadows /\ Batch = <<Shadows[campaign.n]>>
        BY <1>1, BatchOf DEF CampaignInv, In
      <4> QED  BY <1>1, <1>6, <4>1, OneOfBatch DEF BatchJob
    <3>2. In({"post_reset", "production"}) /\ tasks = {BatchJob}
      BY <1>8, Phases
    <3>3. \A m \in DOMAIN Shadows : m > campaign.n => Shadows[m] \in Task \ tasks
      <4>1. \A m \in DOMAIN Shadows : m \in Nat /\ Shadows[m] \in Task
        BY SuiteAssumption
      <4>2. ASSUME NEW m \in DOMAIN Shadows, m > campaign.n PROVE m # campaign.n
        BY <3>1, <4>1, <4>2
      <4> QED  BY <3>1, <3>2, <4>1, <4>2, SuiteAssumption
    <3>4. Canary \in Task \ tasks
      <4>1. BatchJob \in ShadowTasks
        BY <3>1 DEF ShadowTasks
      <4> QED  BY <3>2, <4>1, Parts
    <3> QED  BY <1>3, <3>3, <3>4 DEF Ahead, CampaignInv
  <2>4. campaign'.at = "complete" /\ campaign'.n = campaign.n
    BY <1>4
  <2> QED  BY <1>4, <2>2, <2>3, <2>4 DEF Ahead
<1>12. Renewed'
  <2> SUFFICES ASSUME In({"post_reset", "production"}) PROVE Renewed'
    BY <1>4 DEF Renewed
  <2>1. Observed' = Observed /\ tasks = {BatchJob} /\ Trial \subseteq Task /\ ShadowTasks \subseteq Trial
    BY <1>2, <1>8, Parts DEF Observed, Trial
  <2>2. records[BatchJob] = None
    <3>1. CASE In({"production"})
      <4>1. BatchJob = Canary
        BY <1>1, <3>1, BatchOf DEF CampaignInv, In
      <4> QED  BY <1>1, <3>1, <4>1 DEF Ahead, CampaignInv
    <3>2. CASE In({"post_reset"})
      <4>1. campaign.n \in DOMAIN Shadows /\ Batch = <<Shadows[campaign.n]>>
        BY <1>1, <3>2, BatchOf DEF CampaignInv, In
      <4>2. BatchJob = Shadows[campaign.n]
        BY <1>6, <4>1 DEF BatchJob
      <4> QED  BY <1>1, <3>2, <4>1, <4>2 DEF Ahead, CampaignInv
    <3> QED  BY <3>1, <3>2 DEF In
  <2>3. BatchJob \in Trial => validation[BatchJob] = None
    BY <2>2 DEF Renewed, CampaignInv
  <2>4. \A t \in Trial :
               /\ validation'[t] # None => records'[t] # None /\ ~Awaiting(t)' /\ t \in fresh'
               /\ t \in Observed' => /\ validation'[t] # None
                                     /\ observation'[t].accepted = (validation'[t].verdict = "accepted")
    BY <1>2, <1>3, <1>7, <2>1, <2>3 DEF Renewed, CampaignInv
  <2>5. \A t \in ShadowTasks : records'[t] # None => receipt'[t].alias = Candidate
    <3>1. BatchJob \in ShadowTasks => receipt[BatchJob].alias = Candidate
      <4>1. BatchJob \in ShadowTasks => ~In({"production"})
        BY <1>1, BatchOf, Parts DEF CampaignInv, In
      <4> QED  BY <1>1, <4>1 DEF Renewed, CampaignInv, In
    <3> QED  BY <1>2, <1>3, <2>1, <3>1 DEF Renewed, CampaignInv
  <2>6. \A t \in Observed' :
               observation'[t].epoch = 1 /\ receipt'[t].alias = Candidate => t \in Trial
    BY <1>2, <2>1 DEF Renewed, CampaignInv
  <2> QED  BY <1>4, <2>4, <2>5, <2>6 DEF Renewed
<1>13. Producing'
  <2>1. Earned' <=> Earned
    BY <1>2 DEF Earned, AcceptedOf, Evidence, Observed
  <2>2. In({"production"}) => Candidate \notin open
    BY <1>1 DEF Producing, Ahead, CampaignInv
  <2> QED  BY <1>2, <1>4, <2>1, <2>2 DEF Producing, CampaignInv
<1>14. Emptied'
  BY <1>1, <1>4 DEF Emptied, CampaignInv
<1> QED  BY <1>1, <1>2, <1>5, <1>9, <1>10, <1>11, <1>12, <1>13, <1>14, Together

LEMMA ValidateBatchStep == ASSUME CampaignInv, ValidateBatch PROVE CampaignInv'
<1> DEFINE t == BatchJob
           verdict == IF records[t].accepted THEN "accepted" ELSE "rejected"
<1>1. /\ In(Proper) /\ Running /\ campaign.at = "complete" /\ evidence = None
      /\ Goto("validating") /\ UNCHANGED <<records, experiment, sealed, evidence>>
      /\ IF RecordTokens THEN ValidateObserved(t, verdict) ELSE Validate(t, verdict)
      /\ work' = work \ {t}
  BY Underways DEF ValidateBatch, CompleteAndValidate
<1>2. /\ t \in Task /\ JobNow = t /\ t = Batch[campaign.k] /\ campaign.k \in DOMAIN Batch
      /\ DOMAIN Batch = 1..Len(Batch) /\ campaign.k \in Nat
  BY <1>1, BatchOf, OneOfBatch DEF CampaignInv, Jobs
<1>3. records[t] \in OutcomeOf /\ records[t].reported \in BOOLEAN /\ verdict \in Verdict
  <2>1. records[t] # None /\ records[t] \in OutcomeOf \cup {None}
    BY <1>1, <1>2 DEF Tallied, Jobs, CampaignInv
  <2> QED  BY <2>1 DEF OutcomeOf, Verdict
<1>4. /\ RecordTokens \in BOOLEAN
      /\ RecordTokens => t \notin IncumbentTasks
      /\ records[t].reported /\ t \notin IncumbentTasks => RecordTokens
  <2>1. campaign.phase = "recovery" => t \in IF campaign.k = 1 THEN IncumbentTasks ELSE CandidateTasks
    BY <1>1, BatchOf DEF CampaignInv
  <2>2. campaign.phase # "recovery" => t \notin IncumbentTasks
    BY <1>1, BatchOf, Parts DEF CampaignInv, In, Proper
  <2> QED  BY <1>3, <2>1, <2>2, Parts DEF RecordTokens
<1> HIDE DEF verdict
<1>5. /\ CircuitInv' /\ Receipts' /\ command = Idle /\ t \in sent
      /\ command' = IF RecordTokens THEN [pc |-> "observe", task |-> t] ELSE Idle
      /\ UNCHANGED <<generation, receipt, sent, open, resets>>
      /\ validation'[t] # None /\ validation'[t].verdict = verdict
      /\ \A u \in Task \ {t} : validation'[u] = validation[u] /\ (u \in fresh' <=> u \in fresh)
      /\ \A u \in Task : u # t => observation'[u] = observation[u]
      /\ \A u \in Task : observation'[u] = None <=> observation[u] = None
      /\ validation[t] = None => t \in fresh'
      /\ \A u \in Observed : observation'[u].accepted = observation[u].accepted
                             /\ observation'[u].epoch = observation[u].epoch
  BY <1>1, <1>2, <1>3, <1>4, ValidateMoves
<1>6. /\ campaign'.at = "validating" /\ campaign'.n = campaign.n /\ campaign'.k = campaign.k
      /\ Running' /\ Batch' = Batch /\ BatchJob' = BatchJob /\ JobNow' = JobNow
      /\ \A phases : In(phases)' <=> In(phases)
  BY <1>1, Moves DEF CampaignInv
<1>7. Jobs'
  BY <1>1, MovesTyped DEF CampaignInv, Jobs
<1>8. Commanded'
  BY <1>2, <1>4, <1>5, <1>6 DEF Commanded, Idle
<1>9. Sequenced'
  BY <1>1, <1>5, <1>6, Phases DEF Sequenced, CampaignInv
<1>10. \A u : u # t => (Awaiting(u)' <=> Awaiting(u))
  <2>1. \A j \in DOMAIN Batch : j >= campaign.k /\ j # campaign.k => j > campaign.k
    BY <1>2
  <2>2. \A j \in DOMAIN Batch : j > campaign.k => j >= campaign.k
    BY <1>2
  <2> QED  BY <1>1, <1>2, <1>6, <2>1, <2>2 DEF Awaiting
<1>11. Tallied'
  <2>1. Agreed(t)'
    BY <1>1, <1>5, <1>6 DEF Agreed, verdict
  <2>2. records[t].reported /\ t \notin IncumbentTasks => command' = [pc |-> "observe", task |-> t]
    BY <1>4, <1>5
  <2>3. \A u \in Task \ {t} : Agreed(u)' <=> Agreed(u)
    BY <1>1, <1>5 DEF Agreed
  <2>4. \A u \in Task : u # t /\ records[u] # None =>
           \/ Awaiting(u)'
           \/ Agreed(u)' /\ (records[u].reported /\ u \notin IncumbentTasks => observation'[u] # None)
    BY <1>1, <1>5, <1>10, <2>3 DEF Tallied, CampaignInv, Idle
  <2>5. \A j \in DOMAIN Batch : records[Batch[j]] # None
    BY <1>1 DEF Tallied, CampaignInv
  <2> QED  BY <1>1, <1>6, <2>1, <2>2, <2>4, <2>5 DEF Tallied
<1>12. Ahead'
  BY <1>1, <1>6 DEF Ahead, CampaignInv
<1>13. Renewed'
  <2> SUFFICES ASSUME In({"post_reset", "production"}) PROVE Renewed'
    BY <1>6 DEF Renewed
  <2>1. t \in Trial /\ Trial \subseteq Task /\ ShadowTasks \subseteq Task
    BY <1>1, BatchOf, Parts DEF CampaignInv, In, Trial
  <2>2. Awaiting(t)
    <3>1. campaign.k >= campaign.k
      BY <1>2
    <3> QED  BY <1>1, <1>2, <3>1 DEF Awaiting
  <2>3. validation[t] = None /\ t \notin Observed
    BY <2>1, <2>2 DEF Renewed, CampaignInv
  <2>4. Observed' = Observed
    BY <1>5 DEF Observed
  <2>5. \A u : u = t => ~Awaiting(u)'
    <3>1. Len(Batch) = 1 /\ campaign.k = 1
      BY <1>1, OneOfBatch
    <3>2. \A j \in DOMAIN Batch : ~(j > campaign.k)
      BY <1>2, <3>1
    <3>3. \A u : ~Awaiting(u)'
      BY <1>6, <3>2 DEF Awaiting
    <3> QED  BY <3>3
  <2>6. records[t] # None
    BY <1>3, CampaignAbsent DEF OutcomeOf
  <2>7. \A u \in Observed' :
               observation'[u].epoch = 1 /\ receipt'[u].alias = Candidate => u \in Trial
    BY <1>5, <2>4 DEF Renewed, CampaignInv
  <2>8. \A u \in Trial : validation'[u] # None => records'[u] # None /\ ~Awaiting(u)' /\ u \in fresh'
    <3>1. records'[t] # None /\ t \in fresh'
      BY <1>1, <1>5, <2>3, <2>6
    <3>2. \A u \in Trial : validation[u] # None => records[u] # None /\ ~Awaiting(u) /\ u \in fresh
      BY DEF Renewed, CampaignInv
    <3>3. ASSUME NEW u \in Trial, u # t, validation'[u] # None
          PROVE  records'[u] # None /\ ~Awaiting(u)' /\ u \in fresh'
      <4>1. u \in Task \ {t} /\ validation[u] # None /\ (u \in fresh' <=> u \in fresh) /\ records' = records
        BY <1>1, <1>5, <2>1, <3>3
      <4>2. ~Awaiting(u)'
        BY <1>10, <3>2, <3>3, <4>1
      <4> QED  BY <3>2, <4>1, <4>2
    <3> QED  BY <2>5, <3>1, <3>3
  <2>9. \A u \in Trial : u \in Observed' =>
               /\ validation'[u] # None
               /\ observation'[u].accepted = (validation'[u].verdict = "accepted")
    BY <1>5, <2>1, <2>3, <2>4 DEF Renewed, CampaignInv
  <2>10. \A u \in ShadowTasks : records'[u] # None => receipt'[u].alias = Candidate
    BY <1>1, <1>5 DEF Renewed, CampaignInv
  <2>11. campaign'.at # "execute"
    BY <1>6
  <2> QED  BY <2>7, <2>8, <2>9, <2>10, <2>11 DEF Renewed
<1>14. Producing'
  <2>1. In({"production"}) => Earned'
    <3> SUFFICES ASSUME In({"production"}), NEW n \in DOMAIN Shadows
                 PROVE  (Shadows[n] \in AcceptedOf(Evidence(Candidate)))'
      BY DEF Earned
    <3>1. Shadows[n] \in AcceptedOf(Evidence(Candidate))
      BY DEF CampaignInv, Producing, Earned
    <3>2. t = Canary /\ Shadows[n] \in ShadowTasks
      BY <1>1, BatchOf DEF CampaignInv, In, ShadowTasks
    <3>3. Shadows[n] # t /\ Shadows[n] \in Task
      BY <3>2, Parts
    <3> QED  BY <1>5, <3>1, <3>3 DEF AcceptedOf, Evidence, Observed
  <2>2. In({"fallback"}) => Canary # t /\ Canary \in Task
    BY <1>1, BatchOf, Parts DEF CampaignInv, In
  <2> QED  BY <1>1, <1>5, <1>6, <2>1, <2>2 DEF Producing, CampaignInv
<1>15. Emptied'
  BY <1>1, <1>6 DEF Emptied, CampaignInv
<1> QED  BY <1>1, <1>5, <1>7, <1>8, <1>9, <1>11, <1>12, <1>13, <1>14, <1>15, Together

\* At a gate every executed task is decided as its provider's answer was graded, and
\* observed if its tokens were reported.
LEMMA GateTallied ==
    ASSUME CampaignInv, NEW p \in Proper, At(p, "gate")
    PROVE  \A t \in Task : records[t] # None =>
              /\ validation[t] # None /\ t \in sent
              /\ validation[t].verdict = IF records[t].accepted THEN "accepted" ELSE "rejected"
              /\ records[t].reported /\ t \notin IncumbentTasks => observation[t] # None
<1>1. In(Proper) /\ Tallied /\ command = Idle /\ \A t : ~Awaiting(t)
  BY Gates DEF CampaignInv
<1>2. \A t \in Task : records[t] # None =>
         Agreed(t) /\ (records[t].reported /\ t \notin IncumbentTasks => observation[t] # None)
  BY <1>1 DEF Tallied, Idle
<1>3. \A t \in Task : validation[t] # None => t \in sent
  BY RowsOf DEF CampaignInv
<1> QED  BY <1>2, <1>3 DEF Agreed

LEMMA RecoveryFailsStep == ASSUME CampaignInv, RecoveryFails PROVE CampaignInv'
<1>1. /\ In({"recovery"}) /\ Running /\ evidence = None /\ command = Idle
      /\ Abort /\ evidence' = "recovery_gate_failed_circuit_preserved_open"
      /\ UNCHANGED <<vars, records, work, experiment, sealed>>
  BY Gates DEF RecoveryFails, Conclude, Proper
<1>2. /\ Quiet /\ command' = Idle
      /\ UNCHANGED <<generation, receipt, sent, validation, observation, open, resets, fresh>>
  BY <1>1, DriverMoves
<1>3. /\ Candidate \in open /\ resets[Candidate] = 0 /\ sealed # None
      /\ sent \subseteq Ordinary \cup PanelTasks \cup PairTasks /\ Canary \notin sent
  <2>1. /\ Candidate \in open /\ resets[Candidate] = 0 /\ sealed # None
        /\ sent \subseteq Ordinary \cup PanelTasks \cup PairTasks \cup Trial \cup {Fallback}
        /\ sent \cap (Trial \cup {Fallback}) = {}
    BY <1>1, Phases DEF CampaignInv, Sequenced, Proper
  <2>2. Canary \in Trial
    BY DEF Trial
  <2> QED  BY <2>1, <2>2
<1>4. VerdictTruthful'
  BY <1>1, <1>2, <1>3, CampaignAbsent DEF VerdictTruthful
<1> QED  BY <1>1, <1>2, <1>3, <1>4, StopKeeps

LEMMA RecoveryResetStep == ASSUME CampaignInv, RecoveryReset PROVE CampaignInv'
<1>1. /\ In(Proper) /\ In({"recovery"}) /\ Running /\ evidence = None /\ command = Idle
      /\ \A t : ~Awaiting(t)
      /\ RecoveryPassed /\ ResetCircuit(Candidate)
      /\ campaign' = [at |-> "publish", phase |-> "post_reset", n |-> 1, k |-> 1]
      /\ UNCHANGED <<records, work, experiment, sealed, evidence>>
  BY Gates DEF RecoveryReset, Enter, Proper
<1>2. CircuitInv'
  BY <1>1, ResetKeeps, CanaryConstants DEF CampaignInv
<1>3. UNCHANGED <<generation, receipt, sent, validation, observation, command>>
  BY <1>1 DEF ResetCircuit, routing
<1>4. /\ resets[Candidate] = 0 /\ resets'[Candidate] = 1 /\ sealed # None /\ work = {}
      /\ sent \cap (Trial \cup {Fallback}) = {} /\ \A t \in Trial : records[t] = None
  <2>1. /\ resets[Candidate] = 0 /\ sealed # None /\ work = {}
        /\ sent \cap (Trial \cup {Fallback}) = {} /\ \A t \in Trial : records[t] = None
    BY <1>1 DEF CampaignInv, Sequenced, Ahead, RecoveryPassed
  <2>2. resets'[Candidate] = 0 + 1
    BY <1>1, <2>1, CanaryConstants DEF ResetCircuit, CampaignInv, CircuitInv, Types
  <2> QED  BY <2>1, <2>2
<1>5. /\ Jobs' /\ Running' /\ \A phases : In(phases)' <=> "post_reset" \in phases
      /\ campaign'.at = "publish"
  <2>1. records' \in [Task -> OutcomeOf \cup {None}]
    BY <1>1 DEF CampaignInv, Jobs
  <2> QED  BY <1>1, <2>1, FirstJob, PlaceTyped DEF Proper
<1>6. Commanded' /\ Receipts'
  BY <1>1, <1>3 DEF Commanded, Receipts, CampaignInv, Idle
<1>7. Sequenced'
  <2>1. Canary \in Trial
    BY DEF Trial
  <2> QED  BY <1>1, <1>3, <1>4, <1>5, <2>1 DEF Sequenced, CampaignInv
<1>8. Tallied'
  BY <1>1, <1>3, <1>5, Tallying
<1>9. Ahead'
  <2>1. ShadowTasks \subseteq Trial /\ Canary \in Trial /\ \A m \in DOMAIN Shadows : Shadows[m] \in ShadowTasks
    BY DEF Trial, ShadowTasks
  <2> QED  BY <1>1, <1>4, <1>5, <2>1 DEF Ahead
<1>10. Renewed'
  <2>1. ASSUME NEW t \in Observed', observation'[t].epoch = 1, receipt'[t].alias = Candidate PROVE FALSE
    <3>1. t \in Observed /\ observation[t].epoch = 1 /\ receipt[t].alias = Candidate
      BY <1>3, <2>1 DEF Observed
    <3> QED  BY <1>4, <3>1, RowsOf DEF CampaignInv
  <2>2. \A t \in Trial : t \notin Observed' /\ validation'[t] = None
    <3>1. \A t \in Trial : t \notin sent /\ t \in Task
      BY <1>4, Parts DEF Trial
    <3> QED  BY <1>3, <3>1, RowsOf DEF CampaignInv, Observed
  <2>3. \A t \in ShadowTasks : records'[t] = None
    BY <1>1, <1>4 DEF Trial
  <2> QED  BY <1>5, <2>1, <2>2, <2>3 DEF Renewed
<1>11. Producing' /\ Emptied'
  BY <1>1, <1>4, <1>5 DEF Producing, Emptied
<1> QED  BY <1>1, <1>2, <1>5, <1>6, <1>7, <1>8, <1>9, <1>10, <1>11, Together

LEMMA PostResetFailsStep == ASSUME CampaignInv, PostResetFails PROVE CampaignInv'
<1>1. /\ In({"post_reset"}) /\ Running /\ campaign.at = "gate" /\ evidence = None /\ command = Idle
      /\ Abort /\ evidence' = "post_reset_requalification_failed_production_not_run"
      /\ UNCHANGED <<vars, records, work, experiment, sealed>>
  BY Gates DEF PostResetFails, Conclude, Proper
<1>2. /\ Quiet /\ command' = Idle
      /\ UNCHANGED <<generation, receipt, sent, validation, observation, open, resets, fresh>>
  BY <1>1, DriverMoves
<1>3. resets[Candidate] = 1 /\ sealed # None /\ Canary \notin sent /\ work = {}
  BY <1>1, Phases DEF CampaignInv, Sequenced, Emptied, Proper, AfterReset
<1>4. VerdictTruthful'
  BY <1>1, <1>2, <1>3, CampaignAbsent DEF VerdictTruthful
<1> QED  BY <1>1, <1>2, <1>3, <1>4, StopKeeps

LEMMA PromoteStep == ASSUME CampaignInv, Promote PROVE CampaignInv'
<1>1. /\ In(Proper) /\ In({"post_reset"}) /\ Running /\ evidence = None /\ command = Idle
      /\ At("post_reset", "gate") /\ campaign.at = "gate"
      /\ \A t : ~Awaiting(t)
      /\ PostResetPassed
      /\ campaign' = [at |-> "publish", phase |-> "production", n |-> 1, k |-> 1]
      /\ UNCHANGED <<vars, records, work, experiment, sealed, evidence>>
  BY Gates DEF Promote, Enter, Proper
<1>2. /\ CircuitInv' /\ Commanded' /\ Receipts'
      /\ UNCHANGED <<generation, receipt, sent, validation, observation, open, resets, fresh>>
  BY <1>1, DriverMoves
<1>3. /\ Jobs' /\ Running' /\ \A phases : In(phases)' <=> "production" \in phases
      /\ campaign'.at = "publish"
  <2>1. records' \in [Task -> OutcomeOf \cup {None}]
    BY <1>1 DEF CampaignInv, Jobs
  <2> QED  BY <1>1, <2>1, FirstJob, PlaceTyped DEF Proper
<1>4. In(AfterReset) /\ In({"post_reset", "production"})
  BY <1>1, Phases DEF AfterReset
<1>5. Sequenced'
  BY <1>1, <1>2, <1>3, <1>4 DEF Sequenced, CampaignInv
<1>6. Tallied'
  BY <1>1, <1>2, <1>3, Tallying
<1>7. Ahead'
  BY <1>1, <1>3 DEF Ahead, CampaignInv
<1>8. Renewed'
  <2>1. \A t : ~Awaiting(t)'
    BY <1>3 DEF Awaiting
  <2> QED  BY <1>1, <1>2, <1>3, <1>4, <2>1, Renewing
<1>9. Earned
  <2> SUFFICES ASSUME NEW n \in DOMAIN Shadows PROVE Shadows[n] \in AcceptedOf(Evidence(Candidate))
    BY DEF Earned
  <2> DEFINE t == Shadows[n]
  <2>1. t \in ShadowTasks /\ t \in Trial /\ t \in Task /\ t \notin CandidateTasks
    BY Parts DEF ShadowTasks, Trial
  <2>2. records[t] # None /\ records[t].accepted /\ observation[t] # None
    BY <1>1 DEF PostResetPassed
  <2>3. t \in Observed /\ t \in sent /\ receipt[t] # None
    BY <2>1, <2>2, RowsOf DEF CampaignInv, Observed
  <2>4. validation[t] # None /\ validation[t].verdict = "accepted"
    BY <1>1, <2>1, <2>2, GateTallied DEF Proper
  <2>5. t \in fresh /\ receipt[t].alias = Candidate
        /\ observation[t].accepted = (validation[t].verdict = "accepted")
    BY <1>4, <2>1, <2>2, <2>3, <2>4 DEF Renewed, CampaignInv
  <2>6. receipt[t].mode # "recovery_shadow"
    BY <2>1, <2>3 DEF Receipts, CampaignInv
  <2> QED  BY <2>3, <2>4, <2>5, <2>6 DEF AcceptedOf, Evidence
<1>10. Producing'
  <2>1. Earned' <=> Earned
    BY <1>2 DEF Earned, AcceptedOf, Evidence, Observed
  <2>2. Candidate \notin open
    BY <1>1 DEF PostResetPassed
  <2> QED  BY <1>2, <1>3, <1>9, <2>1, <2>2 DEF Producing
<1>11. Emptied'
  BY <1>1, <1>3, <1>4 DEF Emptied, CampaignInv
<1> QED  BY <1>1, <1>2, <1>3, <1>5, <1>6, <1>7, <1>8, <1>10, <1>11, Together

LEMMA ProductionEndsStep == ASSUME CampaignInv, ProductionEnds PROVE CampaignInv'
<1>1. /\ In(Proper) /\ In({"production"}) /\ Running /\ evidence = None /\ command = Idle
      /\ At("production", "gate") /\ campaign.at = "gate"
      /\ \A t : ~Awaiting(t)
      /\ \A j \in DOMAIN Batch : records[Batch[j]] # None
      /\ UNCHANGED vars
  BY Gates DEF ProductionEnds, Proper
<1>2. /\ CircuitInv' /\ Commanded' /\ Receipts' /\ Quiet /\ command' = Idle
      /\ UNCHANGED <<generation, receipt, sent, validation, observation, open, resets, fresh>>
  BY <1>1, DriverMoves
<1>3. In(AfterReset) /\ In({"post_reset", "production"})
  BY <1>1, Phases DEF AfterReset
<1>4. records[Canary] # None /\ Canary \in Task
  <2>1. Batch = <<Canary>>
    BY <1>1, BatchOf DEF CampaignInv, In
  <2> QED  BY <1>1, <2>1, Parts
<1>5. /\ validation[Canary] # None /\ sealed # None /\ work = {} /\ Fallback \notin sent
      /\ validation[Canary].verdict = IF records[Canary].accepted THEN "accepted" ELSE "rejected"
      /\ records[Canary].accepted => Candidate \notin open
  BY <1>1, <1>3, <1>4, GateTallied DEF Proper, Sequenced, Emptied, Producing, CampaignInv
<1>6. CASE Abort /\ UNCHANGED <<records, work, experiment, sealed, evidence>>
  BY <1>1, <1>2, <1>6, StopKeeps
<1>7. CASE /\ receipt[Canary].alias = Candidate /\ records[Canary].accepted
           /\ Conclude("production_requalified_canary_accepted")
  <2>1. /\ Abort /\ evidence' = "production_requalified_canary_accepted"
        /\ UNCHANGED <<records, work, experiment, sealed>>
    BY <1>7 DEF Conclude
  <2>2. VerdictTruthful'
    BY <1>2, <1>5, <1>7, <2>1, CampaignAbsent DEF VerdictTruthful
  <2> QED  BY <1>1, <1>2, <1>5, <2>1, <2>2, StopKeeps
<1>8. CASE /\ ~records[Canary].accepted /\ Enter("fallback")
           /\ UNCHANGED <<records, work, experiment, sealed, evidence>>
  <2>1. /\ Jobs' /\ Running' /\ \A phases : In(phases)' <=> "fallback" \in phases
        /\ campaign'.at = "publish"
    <3>1. records' \in [Task -> OutcomeOf \cup {None}]
      BY <1>8 DEF CampaignInv, Jobs
    <3>2. campaign' = [at |-> "publish", phase |-> "fallback", n |-> 1, k |-> 1]
      BY <1>8 DEF Enter
    <3> QED  BY <3>1, <3>2, FirstJob, PlaceTyped DEF Proper
  <2>2. Sequenced'
    BY <1>1, <1>2, <1>3, <1>8, <2>1 DEF Sequenced, CampaignInv
  <2>3. Tallied'
    BY <1>1, <1>2, <1>8, <2>1, Tallying
  <2>4. Ahead' /\ Renewed'
    BY <2>1 DEF Ahead, Renewed
  <2>5. Producing'
    BY <1>2, <1>5, <1>8, <2>1 DEF Producing
  <2>6. Emptied'
    BY <1>5, <1>8 DEF Emptied
  <2> QED  BY <1>1, <1>2, <1>8, <2>1, <2>2, <2>3, <2>4, <2>5, <2>6, Together
<1> QED  BY <1>6, <1>7, <1>8 DEF ProductionEnds

LEMMA FallbackEndsStep == ASSUME CampaignInv, FallbackEnds PROVE CampaignInv'
<1>1. /\ In(Proper) /\ In({"fallback"}) /\ Running /\ evidence = None /\ command = Idle
      /\ At("fallback", "gate") /\ campaign.at = "gate"
      /\ \A j \in DOMAIN Batch : records[Batch[j]] # None
      /\ UNCHANGED <<vars, records, work, experiment, sealed>> /\ Abort
      /\ evidence' \in {"production_canary_rejected_sticky_fallback_verified",
                        "production_canary_rejected_fallback_unproven"}
  BY Gates DEF FallbackEnds, Conclude, Proper
<1>2. /\ Quiet /\ command' = Idle
      /\ UNCHANGED <<generation, receipt, sent, validation, observation, open, resets, fresh>>
  BY <1>1, DriverMoves
<1>3. records[Fallback] # None /\ Fallback \in Task
  <2>1. Batch = <<Fallback>>
    BY <1>1, BatchOf DEF CampaignInv, In
  <2> QED  BY <1>1, <2>1, Parts
<1>4. Fallback \in sent
  BY <1>1, <1>3, GateTallied DEF Proper
<1>5. validation[Canary].verdict = "rejected" /\ sealed # None /\ work = {}
  BY <1>1, Phases DEF Producing, Sequenced, Emptied, CampaignInv, AfterReset
<1>6. VerdictTruthful'
  BY <1>1, <1>2, <1>4, <1>5, CampaignAbsent DEF VerdictTruthful
<1> QED  BY <1>1, <1>2, <1>5, <1>6, StopKeeps

LEMMA CommandSteps == ASSUME CampaignInv, CommandStep PROVE CampaignInv'
<1>1. Running /\ UNCHANGED <<campaign, records, experiment, sealed, evidence>>
  BY DEF CommandStep, SendStep, ValidateStep, driver, Running, Off
<1>2. Waits
  BY <1>1, Undecided DEF Waits
<1>3. CASE SendStep
  BY <1>2, <1>3, SendReceiptStep, SendPublishStep DEF SendStep
<1>4. CASE ValidateStep
  BY <1>2, <1>4, ObserveStep, RefreshStep DEF ValidateStep, driver
<1> QED  BY <1>3, <1>4 DEF CommandStep

LEMMA NothingHappens == ASSUME CampaignInv, UNCHANGED allVars PROVE CampaignInv'
<1>1. /\ UNCHANGED <<generation, receipt, sent, validation, observation, open, resets, command, fresh>>
      /\ UNCHANGED <<campaign, records, work, experiment, sealed, evidence>> /\ Quiet
  BY DEF allVars, panelVars, vars, routing, driver, Quiet
<1>2. CircuitInv'
  BY <1>1, QuietKeeps DEF CampaignInv
<1>3. /\ Batch' = Batch /\ BatchJob' = BatchJob /\ JobNow' = JobNow
      /\ Batches(campaign.phase)' = Batches(campaign.phase)
      /\ \A phases : In(phases)' <=> In(phases)
  BY <1>1, SameJob DEF In, Running
<1>4. /\ \A t : Awaiting(t)' <=> Awaiting(t)
      /\ \A t : Agreed(t)' <=> Agreed(t)
      /\ Observed' = Observed
  BY <1>1, <1>3 DEF Awaiting, Agreed, Observed
<1>5. Jobs' /\ Commanded'
  BY <1>1, <1>3 DEF CampaignInv, Jobs, Commanded, Running, Rounds
<1>6. Receipts' /\ Sequenced'
  BY <1>1, <1>3 DEF CampaignInv, Receipts, Sequenced, Running
<1>7. Tallied' /\ Ahead' /\ Renewed'
  BY <1>1, <1>3, <1>4 DEF CampaignInv, Tallied, Ahead, Renewed
<1>8. Earned' <=> Earned
  BY <1>1 DEF Earned, AcceptedOf, Evidence, Observed
<1>9. Producing' /\ Emptied' /\ VerdictTruthful'
  BY <1>1, <1>3, <1>8 DEF CampaignInv, Producing, Emptied, VerdictTruthful
<1> QED  BY <1>2, <1>5, <1>6, <1>7, <1>9 DEF CampaignInv

LEMMA CampaignInvStep == CampaignInv /\ [CampaignNext]_allVars => CampaignInv'
BY PanelSteps, OrdinarySteps, PreregisterStep, StartStep, PublishStep, PublishRefusedStep,
   CommandSteps, PublishedStep, ExecuteBatchStep, UnexpectedDeliveryStep, ValidateBatchStep,
   ValidatedStep, RecoveryFailsStep, RecoveryResetStep, PostResetFailsStep, PromoteStep,
   ProductionEndsStep, FallbackEndsStep, KillDriverStep, NothingHappens DEF CampaignNext

\* The inductive invariant of the campaigns holds in every reachable state.
THEOREM CampaignInvariance == CampaignSpec => []CampaignInv
BY CampaignInvInit, CampaignInvStep, PTL DEF CampaignSpec

\* The verdict that a campaign writes tells what became of the bus, however often it was
\* killed and started again, for every suite and whatever the providers answered.
THEOREM VerdictsAreTruthful == CampaignSpec => []VerdictTruthful
<1>1. CampaignInv => VerdictTruthful
  BY DEF CampaignInv
<1> QED  BY <1>1, CampaignInvariance, PTL

-----------------------------------------------------------------------------
(* The campaign: its action properties *)

\* The circuit is reset, and a task is sent, in one action only.
LEMMA MovedBy ==
    ASSUME CampaignInv, [CampaignNext]_allVars
    PROVE  /\ resets' # resets => RecoveryReset
           /\ sent' # sent => SendPublish
<1> DEFINE Still == UNCHANGED <<sent, resets>>
<1>1. ASSUME UNCHANGED vars PROVE Still
  BY <1>1 DEF vars, routing
<1>2. ASSUME NEW t, NEW request, NEW eligible, Send(t, request, eligible) PROVE Still
  BY <1>2 DEF Send, routing
<1>3. ASSUME NEW t, NEW verdict, Validate(t, verdict) \/ ValidateObserved(t, verdict) PROVE Still
  BY <1>3 DEF Validate, ValidateObserved
<1>4. ASSUME NEW t, NEW tokens, CompleteAndValidate(t, tokens) PROVE Still
  BY <1>3, <1>4 DEF CompleteAndValidate
<1>5. SendReceipt \/ ValidateObserve \/ ValidateRefresh => Still
  BY DEF SendReceipt, ValidateObserve, ValidateRefresh, routing
<1>6. SendPublish => resets' = resets
  BY DEF SendPublish
<1>7. PanelStep => Still
  BY <1>1, <1>2, <1>4 DEF PanelStep, PanelStart, PanelPublish, PanelPublished, PanelExecute,
     PanelValidate, PanelValidated, PanelReport
<1>8. OrdinaryStep => Still \/ SendPublish
  BY <1>2, <1>3, <1>5 DEF OrdinaryStep
<1>9. CommandStep => Still \/ SendPublish
  BY <1>5 DEF CommandStep, SendStep, ValidateStep
<1>10. Publish \/ ValidateBatch => Still
  BY <1>2, <1>4 DEF Publish, ValidateBatch
<1>11. Preregister \/ Start \/ PublishRefused \/ Published \/ ExecuteBatch \/ UnexpectedDelivery
       \/ Validated \/ RecoveryFails \/ PostResetFails \/ Promote \/ ProductionEnds \/ FallbackEnds => Still
  BY <1>1 DEF Preregister, Start, PublishRefused, Published, ExecuteBatch, UnexpectedDelivery,
     Validated, RecoveryFails, PostResetFails, Promote, ProductionEnds, FallbackEnds, panelVars
<1>12. KillDriver => Still
  BY DEF KillDriver, routing
<1>13. RecoveryReset => sent' = sent
  BY DEF RecoveryReset, ResetCircuit, routing
<1>14. UNCHANGED allVars => Still
  BY <1>1 DEF allVars, panelVars
<1> HIDE DEF Still
<1>15. Still \/ SendPublish \/ RecoveryReset
  BY <1>7, <1>8, <1>9, <1>10, <1>11, <1>12, <1>14 DEF CampaignNext
<1> QED  BY <1>6, <1>13, <1>15 DEF Still

\* "Reset is allowed only when LWAR1 and LWAR4 both pass 12/12 paired tasks": at a reset
\* the ledger has accepted every task of every pair, the candidate's as observed recovery
\* shadows, for any number of pairs and whatever was killed and started again before.
THEOREM ResetsAreGated == CampaignSpec => ResetGated
<1> DEFINE Gated ==
         resets'[Candidate] # resets[Candidate] =>
             /\ <<open, resets>> = sealed
             /\ \A t \in PairTasks : validation[t] # None /\ validation[t].verdict = "accepted"
             /\ {t \in PairTasks : observation[t] # None} = {Pairs[n][2] : n \in DOMAIN Pairs}
             /\ \A n \in DOMAIN Pairs : receipt[Pairs[n][2]].mode = "recovery_shadow"
<1>1. CampaignInv /\ [CampaignNext]_allVars => Gated
  <2> SUFFICES ASSUME CampaignInv, RecoveryReset PROVE Gated
    BY MovedBy
  <2>1. RecoveryPassed /\ At("recovery", "gate")
    BY DEF RecoveryReset
  <2>2. ASSUME NEW t \in PairTasks
        PROVE  /\ validation[t] # None /\ validation[t].verdict = "accepted" /\ t \in sent
               /\ t \notin IncumbentTasks => observation[t] # None
    <3>1. records[t] = [accepted |-> TRUE, reported |-> TRUE] /\ t \in Task
      BY <2>1, Parts DEF RecoveryPassed
    <3>2. records[t] # None /\ records[t].accepted = TRUE /\ records[t].reported = TRUE
      <4>1. [accepted |-> TRUE, reported |-> TRUE] \in OutcomeOf
        BY DEF OutcomeOf
      <4>2. None \notin OutcomeOf
        BY CampaignAbsent DEF OutcomeOf
      <4>3. records[t] # None
        BY <3>1, <4>1, <4>2
      <4>4. records[t].accepted = TRUE /\ records[t].reported = TRUE
        BY <3>1
      <4> QED  BY <4>3, <4>4
    <3> QED  BY <2>1, <3>1, <3>2, GateTallied DEF Proper
  <2>3. \A t \in IncumbentTasks : observation[t] = None
    BY DEF CampaignInv, Receipts
  <2>4. {t \in PairTasks : observation[t] # None} = CandidateTasks
    BY <2>2, <2>3, Parts
  <2>5. \A t \in CandidateTasks : receipt[t].mode = "recovery_shadow"
    <3>1. \A t \in CandidateTasks : t \in Task /\ receipt[t] # None
      BY <2>2, Parts, RowsOf DEF CampaignInv
    <3> QED  BY <3>1 DEF CampaignInv, Receipts
  <2>6. \A n \in DOMAIN Pairs : Pairs[n][2] \in CandidateTasks
    BY DEF CandidateTasks
  <2>7. <<open, resets>> = sealed
    BY <2>1 DEF RecoveryPassed
  <2> QED  BY <2>2, <2>4, <2>5, <2>6, <2>7 DEF CandidateTasks
<1>2. CampaignInv /\ [CampaignNext]_allVars => [Gated]_allVars
  BY <1>1
<1> QED  BY <1>2, CampaignInvInit, CampaignInvStep, PTL DEF CampaignSpec, ResetGated

\* The production canary is published only while the circuit is closed and every
\* post-reset shadow was accepted, observed and decided after the reset, for every suite
\* and also in a campaign that was started again after it was killed.
THEOREM CanariesAreEarned == CampaignSpec => CanaryEarned
<1> DEFINE Earn ==
         (Canary \in sent' \ sent) =>
             /\ Candidate \notin open
             /\ \A n \in DOMAIN Shadows : Shadows[n] \in AcceptedOf(Evidence(Candidate))
<1>1. CampaignInv /\ [CampaignNext]_allVars => Earn
  <2> SUFFICES ASSUME CampaignInv, SendPublish, Canary \in sent' \ sent
               PROVE  /\ Candidate \notin open
                      /\ \A n \in DOMAIN Shadows : Shadows[n] \in AcceptedOf(Evidence(Candidate))
    BY MovedBy
  <2>1. command.pc = "publish" /\ command.task = Canary
    BY DEF SendPublish
  <2>2. Running /\ campaign.at = "publishing" /\ JobNow = Canary
    BY <2>1, Parts DEF CampaignInv, Commanded
  <2>3. In({"production"})
    BY <2>2, JobClass, Parts DEF CampaignInv
  <2>4. records[Canary] = None
    BY <2>2, <2>3 DEF CampaignInv, Ahead
  <2> QED  BY <2>3, <2>4 DEF CampaignInv, Producing, Earned
<1>2. CampaignInv /\ [CampaignNext]_allVars => [Earn]_allVars
  BY <1>1
<1> QED  BY <1>2, CampaignInvInit, CampaignInvStep, PTL DEF CampaignSpec, CanaryEarned
=============================================================================
