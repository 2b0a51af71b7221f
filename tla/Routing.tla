------------------------------ MODULE Routing ------------------------------
(***************************************************************************)
(* oa send --auto: which LWAR a task goes to (routing.py,                  *)
(* predictive_routing.py) and how the decision is bound to what is         *)
(* published (command_send): a receipt on disk first, then the ledger      *)
(* entry, then the mailbox, with a crash between any two and a retry       *)
(* under other heartbeats or with a newer calibration profile.             *)
(* Rates and means are compared as the fractions they are.                 *)
(***************************************************************************)
EXTENDS Naturals, FiniteSets, FiniteSetsExt

CONSTANTS
    Lwar,             \* the numbers n of LWARn
    Task,             \* calibration tasks and the tasks to send
    ToSend,           \* bound: the tasks that are sent here
    ClassOf,          \* task class of each task
    Nil,
    Tokens,           \* reported token counts of an observation
    MinObservations,  \* policy: min_observations
    QualityDrop,      \* policy: max_quality_drop, in percent
    MaxObservations,  \* bound: observations in the profile
    MaxSends          \* bound: sends started

ASSUME RoutingAssumption ==
    /\ Lwar \subseteq Nat \ {0} /\ Tokens \subseteq Nat
    /\ DOMAIN ClassOf = Task /\ ToSend \subseteq Task
    /\ MinObservations \in Nat \ {0} /\ QualityDrop \in 0..100
    /\ MaxObservations \in Nat /\ MaxSends \in Nat
    /\ Nil \notin Lwar

VARIABLES
    profile,   \* the calibration profile: a set of observations
    receipt,   \* var/routing/receipts: per task, Nil or the decision
    entry,     \* the ledger: per task, Nil or the LWAR and whether published
    mailbox,   \* per task, the LWAR in whose mailbox it is, or Nil
    send,      \* the running send
    sends      \* sends started
routingVars == <<profile, receipt, entry, mailbox, send, sends>>

Observation == [task : Task, lwar : Lwar, accepted : BOOLEAN, tokens : Tokens]
NoSend == [pc |-> "idle", task |-> Nil, lwar |-> Nil, predictive |-> FALSE]

-----------------------------------------------------------------------------
(* routing.py: who is eligible, and the least loaded of them *)

\* What auto routing reads of one LWAR: its slot and the heartbeat file. match: the
\* heartbeat is of the slot's identity.
Condition == [on : BOOLEAN, capable : BOOLEAN, match : BOOLEAN, stale : BOOLEAN,
              status : {"starting", "watching", "running", "draining"}, backlog : 0..1]
\* heartbeat_matches_slot, not heartbeat_stale
Fresh(c) == c.match /\ ~c.stale
ScoreRunning == 10
RoutableStatus == {"watching", "running"}

\* classify_lwar_runtime, as oa status shows it. late: older than the startup deadline.
RuntimeStatus(c, late) ==
    CASE ~c.match -> "registered_not_started"
      [] c.match /\ c.status = "starting" ->
            IF late THEN "registered_not_started" ELSE "starting"
      [] OTHER -> IF c.stale THEN "stale"
                  ELSE IF c.status \in RoutableStatus THEN "active" ELSE "inactive"

\* oa status: what it shows of every registered LWAR.
StatusReport(cs, late) == [l \in Lwar |-> RuntimeStatus(cs[l], l \in late)]

Eligible(cs) ==
    {l \in Lwar : /\ cs[l].on /\ cs[l].capable
                  /\ Fresh(cs[l]) /\ cs[l].status \in RoutableStatus}
\* An eligible LWAR is never stale: the stale penalty of load_score does not arise.
LoadScore(c) == c.backlog + (IF c.status = "running" THEN ScoreRunning ELSE 0)
AutoRoute(cs) ==
    CHOOSE l \in Eligible(cs) : \A m \in Eligible(cs) :
        \/ LoadScore(cs[l]) < LoadScore(cs[m])
        \/ LoadScore(cs[l]) = LoadScore(cs[m]) /\ l <= m

\* What a send can find: the eligible LWARs and the least loaded.
View == {[eligible |-> Eligible(cs), first |-> AutoRoute(cs)] :
            cs \in {ds \in [Lwar -> Condition] : Eligible(ds) # {}}}

-----------------------------------------------------------------------------
(* predictive_routing.py: the decision on the calibration profile *)

TokensOf(o) == o.tokens
\* _aggregate: the buckets of the LWARs in E that the observations mention.
Aggregate(observations, E) ==
    [l \in {o.lwar : o \in observations} \cap E |->
        LET mine == {o \in observations : o.lwar = l} IN
        [n |-> Cardinality(mine),
         accepted |-> Cardinality({o \in mine : o.accepted}),
         tokens |-> MapThenSumSet(TokensOf, mine)]]

RateAbove(a, b) == a.accepted * b.n > b.accepted * a.n
MeanBelow(a, b) == a.tokens * b.n < b.tokens * a.n
MeanEqual(a, b) == a.tokens * b.n = b.tokens * a.n

\* _quality_rank: acceptance, then support, then cost, then the number.
RanksBefore(stats, l, m) ==
    LET a == stats[l]
        b == stats[m]
    IN  \/ RateAbove(a, b)
        \/ /\ ~RateAbove(b, a)
           /\ \/ a.n > b.n
              \/ a.n = b.n /\ (MeanBelow(a, b) \/ (MeanEqual(a, b) /\ l < m))
Leader(stats) ==
    CHOOSE l \in DOMAIN stats : \A m \in DOMAIN stats \ {l} : RanksBefore(stats, l, m)

\* The class statistics within max_quality_drop of the best rate.
Qualified(stats) ==
    {l \in DOMAIN stats : \A m \in DOMAIN stats :
        100 * (stats[m].accepted * stats[l].n)
            <= 100 * (stats[l].accepted * stats[m].n) + QualityDrop * stats[m].n * stats[l].n}
Cheapest(stats, S) ==
    CHOOSE l \in S : \A m \in S \ {l} :
        MeanBelow(stats[l], stats[m]) \/ (MeanEqual(stats[l], stats[m]) /\ l < m)

\* mutant: the support of an LWAR without observations of the class is not asked for
SelectUnsupported(p, class, E) ==
    LET global == Aggregate(p, E)
        stats == Aggregate({o \in p : ClassOf[o.task] = class}, E)
    IN  IF DOMAIN global = {} THEN [lwar |-> Nil, reason |-> "no_calibration_evidence"]
        ELSE IF \A o \in p : ClassOf[o.task] # class
        THEN [lwar |-> Leader(global), reason |-> "unknown_class"]
        ELSE IF DOMAIN stats = {} \/ \E l \in DOMAIN stats : stats[l].n < MinObservations
        THEN [lwar |-> Leader(global), reason |-> "insufficient_support"]
        ELSE [lwar |-> Cheapest(stats, Qualified(stats)), reason |-> "class_quality"]
\* select_predictive_lwar: a class decision needs the minimum support of every
\* eligible LWAR the profile knows; otherwise the global quality leader.
Select(p, class, E) ==
    LET global == Aggregate(p, E)
        stats == Aggregate({o \in p : ClassOf[o.task] = class}, E)
        supported == {l \in DOMAIN stats : stats[l].n >= MinObservations}
    IN  IF DOMAIN global = {} THEN [lwar |-> Nil, reason |-> "no_calibration_evidence"]
        ELSE IF \A o \in p : ClassOf[o.task] # class
        THEN [lwar |-> Leader(global), reason |-> "unknown_class"]
        ELSE IF supported # DOMAIN global
        THEN [lwar |-> Leader(global), reason |-> "insufficient_support"]
        ELSE [lwar |-> Cheapest(stats, Qualified(stats)), reason |-> "class_quality"]

-----------------------------------------------------------------------------
(* command_send, step by step *)

RoutingInit ==
    /\ profile = {}
    /\ receipt = [t \in Task |-> Nil]
    /\ entry = [t \in Task |-> Nil]
    /\ mailbox = [t \in Task |-> Nil]
    /\ send = NoSend
    /\ sends = 0

\* compile_routing_profile: one observation per task and LWAR. A send reads the profile
\* with its decision only, so a profile compiled during its later steps is one compiled
\* after it.
Calibrate(o) ==
    /\ send.pc = "idle"
    /\ Cardinality(profile) < MaxObservations
    /\ \A q \in profile : q.task # o.task \/ q.lwar # o.lwar
    /\ profile' = profile \cup {o}
    /\ UNCHANGED <<receipt, entry, mailbox, send, sends>>

\* The receipt of a decision. The profile only grows here: its size stands for its hash.
Decision(t, view) ==
    LET chosen == Select(profile, ClassOf[t], view.eligible)
    IN  [lwar |-> IF chosen.lwar = Nil THEN view.first ELSE chosen.lwar,
         reason |-> chosen.reason, eligible |-> view.eligible,
         profile |-> Cardinality(profile)]

\* mutant: an existing receipt is returned without a look at what it says
ReplayAllowedAny(t, r) == TRUE
\* write_routing_receipt: a receipt may be replayed, never contradicted.
ReplayAllowed(t, r) == receipt[t] \in {Nil, r}

Sendable(t) ==
    /\ send.pc = "idle" /\ sends < MaxSends
    /\ mailbox[t] = Nil /\ entry[t] = Nil

\* A predictive send up to its receipt; a held-out task may not be in the profile.
SendPredictive(t) ==
    /\ Sendable(t)
    /\ \A o \in profile : o.task # t
    /\ \E view \in View :
         LET r == Decision(t, view) IN
         /\ ReplayAllowed(t, r)
         /\ receipt' = [receipt EXCEPT ![t] = IF @ = Nil THEN r ELSE @]
         /\ send' = [pc |-> "record", task |-> t, lwar |-> r.lwar, predictive |-> TRUE]
    /\ sends' = sends + 1
    /\ UNCHANGED <<profile, entry, mailbox>>

\* A send by load alone, or to an LWAR the operator names: no receipt is looked at.
SendPlain(t) ==
    /\ Sendable(t)
    /\ \E l \in Lwar \cup {view.first : view \in View} :
         send' = [pc |-> "record", task |-> t, lwar |-> l, predictive |-> FALSE]
    /\ sends' = sends + 1
    /\ UNCHANGED <<profile, receipt, entry, mailbox>>

\* ledger.record_publishing, then transport.publish_task, then the transition.
RecordPublishing ==
    /\ send.pc = "record"
    /\ entry' = [entry EXCEPT ![send.task] =
        [lwar |-> send.lwar, status |-> "publishing", predictive |-> send.predictive]]
    /\ send' = [send EXCEPT !.pc = "publish"]
    /\ UNCHANGED <<profile, receipt, mailbox, sends>>
Publish ==
    /\ send.pc = "publish"
    /\ mailbox' = [mailbox EXCEPT ![send.task] = send.lwar]
    /\ send' = [send EXCEPT !.pc = "settle"]
    /\ UNCHANGED <<profile, receipt, entry, sends>>
Settle ==
    /\ send.pc = "settle"
    /\ entry' = [entry EXCEPT ![send.task].status = "published"]
    /\ send' = NoSend
    /\ UNCHANGED <<profile, receipt, mailbox, sends>>

SendDies ==
    /\ send.pc # "idle"
    /\ send' = NoSend
    /\ UNCHANGED <<profile, receipt, entry, mailbox, sends>>

\* oa recover repairs an interrupted publication from the contract in the ledger.
RepairPublication(t) ==
    /\ send.pc = "idle"
    /\ entry[t] # Nil /\ entry[t].status = "publishing"
    /\ mailbox' = [mailbox EXCEPT ![t] = entry[t].lwar]
    /\ entry' = [entry EXCEPT ![t].status = "published"]
    /\ UNCHANGED <<profile, receipt, send, sends>>

RoutingNext ==
    \/ \E o \in Observation : Calibrate(o)
    \/ \E t \in ToSend : SendPredictive(t) \/ SendPlain(t) \/ RepairPublication(t)
    \/ RecordPublishing \/ Publish \/ Settle \/ SendDies

RoutingSpec == RoutingInit /\ [][RoutingNext]_routingVars

-----------------------------------------------------------------------------
(* Properties *)

RoutingTypeOK ==
    /\ profile \subseteq Observation
    /\ receipt \in [Task -> [lwar : Lwar, reason : STRING, eligible : SUBSET Lwar,
                             profile : 0..MaxObservations] \cup {Nil}]
    /\ entry \in [Task -> [lwar : Lwar, status : {"publishing", "published"},
                           predictive : BOOLEAN] \cup {Nil}]
    /\ mailbox \in [Task -> Lwar \cup {Nil}]
    /\ send \in [pc : {"idle", "record", "publish", "settle"}, task : Task \cup {Nil},
                 lwar : Lwar \cup {Nil}, predictive : BOOLEAN]
    /\ sends \in 0..MaxSends

\* A task sent predictively reaches the LWAR its receipt names: a send that died
\* after its receipt and is repeated under other heartbeats or with a newer profile
\* is refused rather than sent elsewhere ("conflicting routing receipt exists"), and
\* the repair of an interrupted publication follows the ledger.
RoutedAsReceipted ==
    \A t \in Task : mailbox[t] # Nil /\ entry[t].predictive =>
        mailbox[t] = receipt[t].lwar

\* Whatever the profile and the eligible LWARs: a choice by class is of an LWAR that
\* no calibrated eligible LWAR beats by more than the quality drop, on enough evidence
\* of every one of them, and each cheaper one is beaten by more than that; a fallback
\* choice has the best acceptance of all of them.
QualityHeld ==
    \A E \in (SUBSET Lwar) \ {{}}, class \in {ClassOf[t] : t \in Task} :
        LET chosen == Select(profile, class, E)
            Of(l) == {o \in profile : o.lwar = l}
            InClass(l) == {o \in Of(l) : ClassOf[o.task] = class}
            Good(S) == Cardinality({o \in S : o.accepted})
            Size(S) == Cardinality(S)
            Cost(S) == MapThenSumSet(TokensOf, S)
            Rivals == {l \in E : Of(l) # {}}
        IN  /\ chosen.lwar = Nil <=> Rivals = {}
            /\ chosen.lwar # Nil => chosen.lwar \in Rivals
            /\ chosen.reason = "class_quality" => \A m \in Rivals :
                 /\ Size(InClass(m)) >= MinObservations
                 /\ 100 * (Good(InClass(m)) * Size(InClass(chosen.lwar)))
                      <= 100 * (Good(InClass(chosen.lwar)) * Size(InClass(m)))
                         + QualityDrop * Size(InClass(m)) * Size(InClass(chosen.lwar))
                 /\ \/ Cost(InClass(m)) * Size(InClass(chosen.lwar))
                         >= Cost(InClass(chosen.lwar)) * Size(InClass(m))
                    \/ \E best \in Rivals :
                         100 * (Good(InClass(best)) * Size(InClass(m)))
                           > 100 * (Good(InClass(m)) * Size(InClass(best)))
                             + QualityDrop * Size(InClass(m)) * Size(InClass(best))
            /\ chosen.reason \in {"unknown_class", "insufficient_support"} => \A m \in Rivals :
                 Good(Of(m)) * Size(Of(chosen.lwar)) <= Good(Of(chosen.lwar)) * Size(Of(m))
=============================================================================
