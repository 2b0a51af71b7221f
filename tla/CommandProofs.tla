---------------------------- MODULE CommandProofs ----------------------------
(***************************************************************************)
(* The OA's commands proved, from both ends of an oa send. What lets a     *)
(* command write: the command mutex and the writer lease, for every number *)
(* of terminals, OA identities, kills and takeovers. What oa send --auto   *)
(* decides and publishes, for every set of LWARs, tasks and observations:  *)
(* what oa status calls active is what auto routing takes, the choice by   *)
(* calibration keeps its promise, and a predictive send ends where its     *)
(* receipt says.                                                           *)
(***************************************************************************)
EXTENDS OaWriter, Routing, FiniteSetTheorems, TLAPS

-----------------------------------------------------------------------------
(* OaWriter: the command mutex and the writer lease *)

CommandState == [at : At, oa : Oa \cup {None}, lost : BOOLEAN]
Types ==
    /\ lock \in LockFile \cup {None}
    /\ lpc \in [Process -> LockPc]
    /\ looked \in [Process -> {"gone", "empty", "written"}]
    /\ robbed \subseteq Process
    /\ cmd \in [Process -> CommandState]

\* Who has created a lock file and was not robbed of it still owns the path.
OwnersOwn ==
    \A p \in Process \ robbed : lpc[p] \in {"write", "held", "unlink"} => Owns(p)
\* A look at a file with a pid is a look at the file that is there, of a dead process:
\* the next unlink, whoever does it, ends what was looked at.
LooksHold ==
    \A p \in Process :
        /\ lock = None => looked[p] = "gone"
        /\ looked[p] = "written" => lock.written /\ ~lock.alive
OwnershipInv == Types /\ OwnersOwn /\ LooksHold

LEMMA InvInit == Init => OwnershipInv
BY DEF Init, LockInit, OwnershipInv, CommandState, Types, OwnersOwn, LooksHold, Idle, At, LockPc

\* The steps of a FileLock keep who owns what.
LEMMA LockInvStep ==
    ASSUME OwnershipInv, NEW p \in Process,
           LockStep(p) \/ Release(p) \/ LockKill(p) \/ Age
    PROVE  /\ lock' \in LockFile \cup {None}
           /\ lpc' \in [Process -> LockPc]
           /\ looked' \in [Process -> {"gone", "empty", "written"}]
           /\ robbed' \subseteq Process
           /\ OwnersOwn' /\ LooksHold'
<1> USE DEF OwnershipInv, Types, OwnersOwn, LooksHold, Owns, LockFile, LockPc
<1>1. CASE Create(p)
  <2>0. lock' = [owner |-> p, written |-> FALSE, alive |-> TRUE, old |-> FALSE]
    BY <1>1 DEF Create
  <2>1. lock' \in LockFile /\ lock'.owner = p /\ lock'.alive
    BY <2>0
  <2>3. lock' # None
    BY <2>1, LockConstants
  <2>2. lpc' = [lpc EXCEPT ![p] = "write"] /\ UNCHANGED <<looked, robbed>> /\ lock = None
    BY <1>1 DEF Create
  <2> QED
    BY <2>1, <2>2, <2>3
<1>2. CASE WriteToken(p)
  <2>1. /\ lpc[p] = "write" /\ UNCHANGED <<looked, robbed>>
        /\ lpc' = [lpc EXCEPT ![p] = "held"]
    BY <1>2 DEF WriteToken
  <2>2. CASE ~Owns(p)
    BY <1>2, <2>1, <2>2 DEF WriteToken
  <2>3. CASE Owns(p)
    <3>1. /\ lock' \in LockFile /\ lock'.written
          /\ lock'.owner = lock.owner /\ lock'.alive = lock.alive
      BY <1>2, <2>3 DEF WriteToken
    <3>2. lock' # None
      BY <3>1, LockConstants
    <3> QED
      BY <2>1, <2>3, <3>1, <3>2
  <2> QED
    BY <2>2, <2>3
<1>3. CASE LookStale(p)
  BY <1>3 DEF LookStale, Stale
<1>4. CASE TimeOut(p)
  BY <1>4 DEF TimeOut
<1>5. CASE Break(p)
  BY <1>5 DEF Break, Unlinked
<1>6. CASE ReleaseUnlink(p)
  BY <1>6 DEF ReleaseUnlink, Unlinked
<1>7. CASE Release(p)
  BY <1>7 DEF Release
<1>8. CASE LockKill(p)
  <2>1. /\ lpc' = [lpc EXCEPT ![p] = "out"] /\ robbed' = robbed \ {p}
        /\ UNCHANGED looked
    BY <1>8 DEF LockKill
  <2>2. CASE ~Owns(p)
    BY <1>8, <2>1, <2>2 DEF LockKill
  <2>3. CASE Owns(p)
    <3>1. /\ lock' \in LockFile /\ ~lock'.alive
          /\ lock'.owner = lock.owner /\ lock'.written = lock.written
      BY <1>8, <2>3 DEF LockKill
    <3>2. lock' # None
      BY <3>1, LockConstants
    <3> QED
      BY <2>1, <2>3, <3>1, <3>2
  <2> QED
    BY <2>2, <2>3
<1>9. CASE Age
  <2>1. /\ lock' \in LockFile /\ lock'.owner = lock.owner /\ lock'.alive = lock.alive
        /\ lock'.written = lock.written /\ lock # None /\ UNCHANGED <<lpc, looked, robbed>>
    BY <1>9 DEF Age
  <2>2. lock' # None
    BY <2>1, LockConstants
  <2> QED
    BY <2>1, <2>2
<1> QED
  BY <1>1, <1>2, <1>3, <1>4, <1>5, <1>6, <1>7, <1>8, <1>9 DEF LockStep

\* A command starts, is over, or moves on in one field.
LEMMA CommandTypes ==
    ASSUME cmd \in [Process -> CommandState], [Next]_vars
    PROVE  cmd' \in [Process -> CommandState]
<1> DEFINE Moved(p) == \/ cmd' = cmd
                       \/ \E c \in CommandState : cmd' = [cmd EXCEPT ![p] = c]
<1>1. ASSUME NEW p \in Process, Moved(p) PROVE cmd' \in [Process -> CommandState]
  BY <1>1
<1>2. Idle \in CommandState
  BY DEF Idle, CommandState, At
<1>3. ASSUME NEW p \in Process, NEW label \in At, Goto(p, label) PROVE Moved(p)
  <2>1. [cmd[p] EXCEPT !.at = label] \in CommandState
    BY DEF CommandState
  <2> QED
    BY <1>3, <2>1 DEF Goto
<1>4. ASSUME NEW p \in Process, Start(p) PROVE Moved(p)
  <2>1. PICK oa \in Oa : cmd' = [cmd EXCEPT ![p] = [at |-> "mutex", oa |-> oa, lost |-> FALSE]]
    BY <1>4 DEF Start
  <2>2. [at |-> "mutex", oa |-> oa, lost |-> FALSE] \in CommandState
    BY DEF CommandState, At
  <2> QED
    BY <2>1, <2>2
<1>5. ASSUME NEW p \in Process, Enter(p) \/ Handle(p) PROVE Moved(p)
  BY <1>3, <1>5 DEF Enter, Handle, CheckAgain, At
<1>6. ASSUME NEW p \in Process, Finish(p) PROVE Moved(p)
  BY <1>3, <1>6 DEF Finish, At
<1>7. ASSUME NEW p \in Process, Leave(p) \/ Mutex(p) \/ Kill(p) PROVE Moved(p)
  BY <1>2, <1>7 DEF Leave, Mutex, Kill, Ended
<1>8. ASSUME NEW p \in Process, Renew(p) PROVE Moved(p)
  <2>1. [cmd[p] EXCEPT !.lost = TRUE] \in CommandState
    BY DEF CommandState
  <2>2. \/ cmd' = cmd
        \/ cmd' = [cmd EXCEPT ![p] = [cmd[p] EXCEPT !.lost = TRUE]]
    BY <1>8 DEF Renew
  <2> QED
    BY <2>1, <2>2
<1>9. CASE Expire \/ Grow \/ UNCHANGED vars
  BY <1>9 DEF Expire, Grow, vars, writerVars
<1> HIDE DEF Moved
<1> QED
  BY <1>1, <1>4, <1>5, <1>6, <1>7, <1>8, <1>9 DEF Next, Command

LEMMA InvStep == OwnershipInv /\ [Next]_vars => OwnershipInv'
<1> SUFFICES ASSUME OwnershipInv, [Next]_vars PROVE OwnershipInv'
  OBVIOUS
<1>1. cmd' \in [Process -> CommandState]
  BY CommandTypes DEF OwnershipInv, Types
<1>2. ASSUME NEW p \in Process, Start(p) PROVE OwnershipInv'
  BY <1>1, <1>2 DEF Start, OwnershipInv, Types, OwnersOwn, LooksHold, Owns, LockPc
<1>3. ASSUME NEW p \in Process, LockStep(p) \/ Release(p) \/ LockKill(p) \/ Age PROVE OwnershipInv'
  BY <1>1, <1>3, LockInvStep DEF OwnershipInv, Types
<1>4. CASE UNCHANGED lockVars
  BY <1>1, <1>4 DEF lockVars, OwnershipInv, Types, OwnersOwn, LooksHold, Owns
<1>5. ASSUME NEW p \in Process, Command(p) \/ Renew(p) \/ Kill(p) PROVE OwnershipInv'
  BY <1>3, <1>4, <1>5 DEF Command, Enter, Handle, CheckAgain, Finish, Leave, Mutex, Renew, Kill
<1>6. CASE Grow
  <2>1. CASE Process = {}
    BY <1>1, <1>6, <2>1 DEF Grow, Age, OwnershipInv, Types, OwnersOwn, LooksHold, LockFile
  <2>2. CASE \E p \in Process : TRUE
    BY <1>3, <1>6, <2>2 DEF Grow
  <2> QED
    BY <2>1, <2>2
<1>7. CASE Expire \/ UNCHANGED vars
  BY <1>4, <1>7 DEF Expire, vars
<1> QED
  BY <1>2, <1>5, <1>6, <1>7 DEF Next

\* Two processes that hold the mutex and were not robbed would own the same file.
LEMMA InvExclusive == OwnershipInv => Exclusive
<1> SUFFICES ASSUME OwnershipInv PROVE Exclusive
  OBVIOUS
<1>1. IsFiniteSet(Process)
  BY LockConstants
<1>2. \A p, q \in Holders \ robbed : p = q
  BY DEF OwnershipInv, OwnersOwn, Owns, Holders
<1>3. CASE Holders \ robbed = {}
  BY <1>3, FS_EmptySet DEF Exclusive
<1>4. CASE Holders \ robbed # {}
  <2>1. PICK p : Holders \ robbed = {p}
    BY <1>2, <1>4
  <2> QED
    BY <2>1, FS_Singleton DEF Exclusive
<1> QED
  BY <1>3, <1>4

\* Two commands hold the mutex together only when the lock file of one was unlinked
\* by a process that had looked at an earlier file or at one without a pid; for any
\* number of terminals, kills and late releases.
THEOREM MutexIsExclusive == Spec => []Exclusive
BY InvInit, InvStep, InvExclusive, PTL DEF Spec

\* A command sets out to write only while its own identity has the unexpired lease,
\* for any number of identities that take it over.
THEOREM WritersOwn == Spec => WritesAsOwner
<1>1. ASSUME OwnershipInv, [Next]_vars, NEW p \in Process,
             cmd[p].at # "mutating", cmd'[p].at = "mutating"
      PROVE  valid' /\ lease' = cmd[p].oa
  <2> USE DEF OwnershipInv, Types, CommandState, Goto, Ended, Idle
  <2>1. ASSUME NEW q \in Process, Start(q) \/ Finish(q) \/ Leave(q) \/ Mutex(q)
                                  \/ Kill(q) \/ Renew(q) \/ Enter(q)
        PROVE  FALSE
    BY <1>1, <2>1 DEF Start, Finish, Leave, Mutex, Kill, Renew, Enter, CheckAgain
  <2>2. ASSUME NEW q \in Process, Handle(q) PROVE valid' /\ lease' = cmd[p].oa
    <3>1. q = p /\ Grants(cmd[q].oa) /\ Ensure(cmd[q].oa)
      BY <1>1, <2>2 DEF Handle, CheckAgain
    <3> QED
      BY <3>1 DEF Ensure
  <2>3. CASE Expire \/ Grow \/ UNCHANGED vars
    BY <1>1, <2>3 DEF Expire, Grow, vars, writerVars
  <2> QED
    BY <1>1, <2>1, <2>2, <2>3 DEF Next, Command
<1>2. OwnershipInv /\ [Next]_vars =>
        [\A p \in Process : cmd[p].at # "mutating" /\ cmd'[p].at = "mutating" =>
            valid' /\ lease' = cmd[p].oa]_vars
  BY <1>1
<1> QED
  BY <1>2, InvInit, InvStep, PTL DEF Spec, WritesAsOwner

-----------------------------------------------------------------------------
(* Routing: who is active, and where a predictive send ends *)

\* RuntimeStatus is total over what a slot and its heartbeat can hold, and says
\* "active" of nothing that is stale, of another identity or still starting.
LEMMA ActiveIsFresh ==
    ASSUME NEW c \in Condition, NEW late \in BOOLEAN
    PROVE  RuntimeStatus(c, late) = "active" <=> Fresh(c) /\ c.status \in RoutableStatus
<1>1. c.match \in BOOLEAN /\ c.stale \in BOOLEAN
  BY DEF Condition
<1>2. CASE ~c.match
  BY <1>2 DEF RuntimeStatus, Fresh
<1>3. CASE c.match /\ c.status = "starting"
  BY <1>3 DEF RuntimeStatus, RoutableStatus
<1>4. CASE c.match /\ c.status # "starting"
  BY <1>1, <1>4 DEF RuntimeStatus, Fresh
<1> QED
  BY <1>1, <1>2, <1>3, <1>4

\* An LWAR is eligible for auto routing exactly when it is on, has the required
\* capabilities and oa status shows it active: classify_lwar_runtime and
\* eligible_lwars decide the same in two pieces of code.
THEOREM EligibleIsActive ==
    ASSUME NEW cs \in [Lwar -> Condition], NEW late \in SUBSET Lwar
    PROVE  Eligible(cs) =
             {l \in Lwar : /\ cs[l].on /\ cs[l].capable
                           /\ StatusReport(cs, late)[l] = "active"}
<1>1. ASSUME NEW l \in Lwar
      PROVE  StatusReport(cs, late)[l] = "active" <=>
                Fresh(cs[l]) /\ cs[l].status \in RoutableStatus
  <2>1. cs[l] \in Condition /\ (l \in late) \in BOOLEAN
    OBVIOUS
  <2>2. StatusReport(cs, late)[l] = RuntimeStatus(cs[l], l \in late)
    BY DEF StatusReport
  <2> QED
    BY <2>1, <2>2, ActiveIsFresh
<1> QED
  BY <1>1 DEF Eligible

-----------------------------------------------------------------------------
(* The inductive invariant behind RoutedAsReceipted *)

IsEntry(e) == e = [lwar |-> e.lwar, status |-> e.status, predictive |-> e.predictive]
\* What the ledger says of a task, next to its receipt.
Bound(t) == entry[t].predictive => entry[t].lwar = receipt[t].lwar

\* A send that has its receipt: nothing is published yet, or the ledger names the
\* LWAR it is about to publish to.
SendBound ==
    /\ send = [pc |-> send.pc, task |-> send.task, lwar |-> send.lwar,
               predictive |-> send.predictive]
    /\ send.pc # "idle" => send.task \in Task
    /\ send.pc = "record" =>
         /\ mailbox[send.task] = Nil
         /\ send.predictive => send.lwar = receipt[send.task].lwar
    /\ send.pc \in {"publish", "settle"} =>
         /\ IsEntry(entry[send.task]) /\ Bound(send.task)
         /\ entry[send.task].lwar = send.lwar
LedgerBound ==
    \A t \in Task : entry[t] # Nil => IsEntry(entry[t]) /\ Bound(t)
MailboxBound ==
    \A t \in Task : mailbox[t] # Nil => entry[t].lwar = mailbox[t] /\ Bound(t)
RoutingInv ==
    /\ receipt = [t \in Task |-> receipt[t]]
    /\ entry = [t \in Task |-> entry[t]]
    /\ mailbox = [t \in Task |-> mailbox[t]]
    /\ SendBound /\ LedgerBound /\ MailboxBound

LEMMA RoutingInvInit == RoutingInit => RoutingInv
BY DEF RoutingInit, RoutingInv, SendBound, LedgerBound, MailboxBound, NoSend

LEMMA RoutingInvRouted == RoutingInv => RoutedAsReceipted
BY DEF RoutingInv, MailboxBound, Bound, RoutedAsReceipted

LEMMA RoutingInvStep == RoutingAssumption /\ RoutingInv /\ [RoutingNext]_routingVars => RoutingInv'
<1> SUFFICES ASSUME RoutingAssumption, RoutingInv, [RoutingNext]_routingVars
             PROVE  RoutingInv'
  OBVIOUS
<1> USE DEF RoutingInv, SendBound, LedgerBound, MailboxBound, Bound, IsEntry
<1>0. ToSend \subseteq Task
  BY DEF RoutingAssumption
<1>1. ASSUME NEW o \in Observation, Calibrate(o) PROVE RoutingInv'
  BY <1>1 DEF Calibrate
<1>2. ASSUME NEW t \in ToSend, SendPredictive(t) PROVE RoutingInv'
  <2>1. t \in Task /\ send.pc = "idle" /\ mailbox[t] = Nil /\ entry[t] = Nil
    BY <1>0, <1>2 DEF SendPredictive, Sendable
  <2>2. UNCHANGED <<entry, mailbox>>
    BY <1>2 DEF SendPredictive
  <2>3. PICK view \in View :
           LET r == Decision(t, view) IN
           /\ ReplayAllowed(t, r)
           /\ receipt' = [receipt EXCEPT ![t] = IF @ = Nil THEN r ELSE @]
           /\ send' = [pc |-> "record", task |-> t, lwar |-> r.lwar, predictive |-> TRUE]
    BY <1>2 DEF SendPredictive
  <2> DEFINE r == Decision(t, view)
  <2>4. /\ receipt' = [u \in Task |-> IF u = t THEN r ELSE receipt[u]]
        /\ send' = [pc |-> "record", task |-> t, lwar |-> r.lwar, predictive |-> TRUE]
    BY <2>1, <2>3 DEF ReplayAllowed
  <2> HIDE DEF r
  <2> QED
    BY <2>1, <2>2, <2>4
<1>3. ASSUME NEW t \in ToSend, SendPlain(t) PROVE RoutingInv'
  BY <1>0, <1>3 DEF SendPlain, Sendable
<1>4. ASSUME NEW t \in ToSend, RepairPublication(t) PROVE RoutingInv'
  <2>1. t \in Task /\ send.pc = "idle" /\ entry[t] # Nil
    BY <1>0, <1>4 DEF RepairPublication
  <2>2. UNCHANGED <<receipt, send>>
    BY <1>4 DEF RepairPublication
  <2>3. mailbox' = [u \in Task |-> IF u = t THEN entry[t].lwar ELSE mailbox[u]]
    BY <2>1, <1>4 DEF RepairPublication
  <2>4. entry' = [u \in Task |-> IF u = t THEN [entry[t] EXCEPT !.status = "published"]
                                 ELSE entry[u]]
    BY <2>1, <1>4 DEF RepairPublication
  <2>5. IsEntry(entry'[t]) /\ entry'[t].lwar = entry[t].lwar
                           /\ entry'[t].predictive = entry[t].predictive
    BY <2>1, <2>4
  <2> QED
    BY <2>1, <2>2, <2>3, <2>4, <2>5
<1>5. CASE RecordPublishing
  <2>1. send.pc = "record" /\ send.task \in Task
    BY <1>5 DEF RecordPublishing
  <2>2. UNCHANGED <<receipt, mailbox>>
    BY <1>5 DEF RecordPublishing
  <2>3. entry' = [u \in Task |-> IF u = send.task
                    THEN [lwar |-> send.lwar, status |-> "publishing",
                          predictive |-> send.predictive]
                    ELSE entry[u]]
    BY <2>1, <1>5 DEF RecordPublishing
  <2> QED
    BY <2>1, <2>2, <2>3, <1>5 DEF RecordPublishing
<1>6. CASE Publish
  <2>1. send.pc = "publish" /\ send.task \in Task
    BY <1>6 DEF Publish
  <2>2. UNCHANGED <<receipt, entry>>
    BY <1>6 DEF Publish
  <2>3. mailbox' = [u \in Task |-> IF u = send.task THEN send.lwar ELSE mailbox[u]]
    BY <2>1, <1>6 DEF Publish
  <2>4. send' = [pc |-> "settle", task |-> send.task, lwar |-> send.lwar,
                 predictive |-> send.predictive]
    BY <1>6 DEF Publish
  <2> QED
    BY <2>1, <2>2, <2>3, <2>4
<1>7. CASE Settle
  <2>1. send.pc = "settle" /\ send.task \in Task
    BY <1>7 DEF Settle
  <2>2. UNCHANGED <<receipt, mailbox>> /\ send' = NoSend
    BY <1>7 DEF Settle
  <2>3. entry' = [u \in Task |-> IF u = send.task
                    THEN [entry[u] EXCEPT !.status = "published"] ELSE entry[u]]
    BY <2>1, <1>7 DEF Settle
  <2>4. LET e == entry'[send.task] IN
        IsEntry(e) /\ e.lwar = entry[send.task].lwar
                   /\ e.predictive = entry[send.task].predictive
    BY <2>1, <2>3
  <2> QED
    BY <2>1, <2>2, <2>3, <2>4 DEF NoSend
<1>8. CASE SendDies
  BY <1>8 DEF SendDies, NoSend
<1>9. CASE UNCHANGED routingVars
  BY <1>9 DEF routingVars
<1> QED
  BY <1>1, <1>2, <1>3, <1>4, <1>5, <1>6, <1>7, <1>8, <1>9 DEF RoutingNext

\* A task sent predictively is in the mailbox of the LWAR its receipt names, for
\* every set of LWARs and tasks, every profile and any number of sends, crashes and
\* retries.
THEOREM Routed == RoutingSpec => []RoutedAsReceipted
<1>1. RoutingAssumption
  BY RoutingAssumption
<1>2. RoutingInit => RoutingInv
  BY RoutingInvInit
<1>3. RoutingInv /\ [RoutingNext]_routingVars => RoutingInv'
  BY <1>1, RoutingInvStep
<1>4. RoutingInv => RoutedAsReceipted
  BY RoutingInvRouted
<1> QED
  BY <1>2, <1>3, <1>4, PTL DEF RoutingSpec

-----------------------------------------------------------------------------
(* Sums over finite sets, and the first element of a finite order *)

\* Among finitely many sets, one is minimal.
LEMMA MinimalSubset ==
    ASSUME NEW S, IsFiniteSet(S), NEW B \in SUBSET SUBSET S, B # {}
    PROVE  \E s \in B : \A t \in B : t \subseteq s => t = s
<1>1. IsWellFoundedOn(StrictSubsetOrdering(S), SUBSET S)
  BY FS_StrictSubsetOrderingWellFounded, FS_FiniteSubsetsOfFinite
<1>2. PICK s \in B : \A t \in B : ~(<<t, s>> \in StrictSubsetOrdering(S))
  BY <1>1, WFMin
<1>3. ASSUME NEW t \in B, t \subseteq s PROVE t = s
  BY <1>2, <1>3 DEF StrictSubsetOrdering
<1> QED
  BY <1>3

\* The equation MapThenSumSet solves on the subsets of S.
Picked(s) == CHOOSE x \in s : TRUE
Sums(g, S) ==
    g = [s \in SUBSET S |-> IF s = {} THEN 0 ELSE TokensOf(Picked(s)) + g[s \ {Picked(s)}]]

LEMMA SumsAt ==
    ASSUME NEW g, NEW S, Sums(g, S), NEW s \in SUBSET S
    PROVE  g[s] = IF s = {} THEN 0 ELSE TokensOf(Picked(s)) + g[s \ {Picked(s)}]
<1> DEFINE F(u) == IF u = {} THEN 0 ELSE TokensOf(Picked(u)) + g[u \ {Picked(u)}]
<1>1. g = [u \in SUBSET S |-> F(u)]
  BY DEF Sums
<1> HIDE DEF F
<1>2. g[s] = F(s)
  BY <1>1
<1> QED
  BY <1>2 DEF F

\* MapThenSumSet is the value any such solution gives the whole set.
LEMMA SumIsSums ==
    ASSUME NEW S
    PROVE  MapThenSumSet(TokensOf, S) = (CHOOSE g : Sums(g, S))[S]
BY DEF MapThenSumSet, MapThenFoldSet, Sums, Picked

\* What the picked element of a subset leaves is a smaller subset.
LEMMA PickedLeaves ==
    ASSUME NEW S, NEW s \in SUBSET S, s # {}
    PROVE  /\ Picked(s) \in s /\ s \ {Picked(s)} \in SUBSET S
           /\ s \ {Picked(s)} \subseteq s /\ s \ {Picked(s)} # s
<1>1. Picked(s) \in s
  BY DEF Picked
<1> QED
  BY <1>1

\* Where every summand is a number, so is every sum.
LEMMA SumsAreNumbers ==
    ASSUME NEW S, IsFiniteSet(S), \A o \in S : TokensOf(o) \in Nat, NEW g, Sums(g, S)
    PROVE  \A s \in SUBSET S : g[s] \in Nat
<1> DEFINE B == {s \in SUBSET S : g[s] \notin Nat}
<1>1. SUFFICES ASSUME B # {} PROVE FALSE
  OBVIOUS
<1>2. PICK s \in B : \A t \in B : t \subseteq s => t = s
  <2>1. B \in SUBSET SUBSET S
    OBVIOUS
  <2> HIDE DEF B
  <2> QED
    BY <1>1, <2>1, MinimalSubset
<1>3. CASE s = {}
  <2>1. s \in SUBSET S
    OBVIOUS
  <2>2. g[s] = 0
    BY <1>3, <2>1, SumsAt
  <2> QED
    BY <2>2
<1>4. CASE s # {}
  <2>1. g[s \ {Picked(s)}] \in Nat
    BY <1>2, <1>4, PickedLeaves
  <2>2. TokensOf(Picked(s)) \in Nat
    BY <1>4, PickedLeaves
  <2>3. g[s] = TokensOf(Picked(s)) + g[s \ {Picked(s)}]
    BY <1>4, SumsAt
  <2>4. g[s] \in Nat
    BY <2>1, <2>2, <2>3
  <2> QED
    BY <2>4
<1> QED
  BY <1>3, <1>4

\* Two solutions on sets that share a subset agree on it.
LEMMA SumsAgree ==
    ASSUME NEW S, NEW T, IsFiniteSet(S), NEW g, NEW h, Sums(g, S), Sums(h, T),
           NEW s \in SUBSET (S \cap T)
    PROVE  g[s] = h[s]
<1> DEFINE B == {u \in SUBSET (S \cap T) : g[u] # h[u]}
<1>1. SUFFICES ASSUME B # {} PROVE FALSE
  OBVIOUS
<1>2. B \in SUBSET SUBSET S
  OBVIOUS
<1>3. PICK u \in B : \A t \in B : t \subseteq u => t = u
  <2> HIDE DEF B
  <2> QED
    BY <1>1, <1>2, MinimalSubset
<1>4. CASE u = {}
  BY <1>4, SumsAt
<1>5. CASE u # {}
  <2>1. g[u \ {Picked(u)}] = h[u \ {Picked(u)}]
    BY <1>3, <1>5, PickedLeaves
  <2>2. u \in SUBSET S /\ u \in SUBSET T
    OBVIOUS
  <2>3. /\ g[u] = TokensOf(Picked(u)) + g[u \ {Picked(u)}]
        /\ h[u] = TokensOf(Picked(u)) + h[u \ {Picked(u)}]
    BY <1>5, <2>2, SumsAt
  <2> QED
    BY <2>1, <2>3
<1> QED
  BY <1>4, <1>5

\* The equation has a solution on every finite set: the sums of the smaller subsets fit
\* together into one for the set.
LEMMA SumsExist ==
    ASSUME NEW S, IsFiniteSet(S)
    PROVE  \E g : Sums(g, S)
<1> DEFINE B == {s \in SUBSET S : ~\E g : Sums(g, s)}
<1>1. SUFFICES ASSUME B # {} PROVE FALSE
  OBVIOUS
<1>2. PICK s \in B : \A t \in B : t \subseteq s => t = s
  <2>1. B \in SUBSET SUBSET S
    OBVIOUS
  <2> HIDE DEF B
  <2> QED
    BY <1>1, <2>1, MinimalSubset
<1> DEFINE G(t) == CHOOSE g : Sums(g, t)
<1>3. ASSUME NEW t \in SUBSET s, t # s PROVE Sums(G(t), t)
  <2>1. \E g : Sums(g, t)
    BY <1>2, <1>3
  <2> QED
    BY <2>1
<1> HIDE DEF G
<1> DEFINE Rest(t) == t \ {Picked(t)}
           F(t) == IF t = {} THEN 0 ELSE TokensOf(Picked(t)) + G(Rest(t))[Rest(t)]
           g == [t \in SUBSET s |-> F(t)]
<1>4. ASSUME NEW t \in SUBSET s, t # {}
      PROVE  g[Rest(t)] = G(Rest(t))[Rest(t)]
  <2>1. Rest(t) \in SUBSET s /\ Rest(t) # s /\ Picked(t) \in t
    BY <1>4, PickedLeaves
  <2>2. CASE Rest(t) = {}
    <3>1. Sums(G(Rest(t)), Rest(t))
      BY <1>3, <2>1
    <3>2. G(Rest(t))[Rest(t)] = 0
      BY <2>2, <3>1, SumsAt
    <3> QED
      BY <2>1, <2>2, <3>2
  <2>3. CASE Rest(t) # {}
    <3> DEFINE u == Rest(t)
    <3> HIDE DEF Rest
    <3>1. g[u] = TokensOf(Picked(u)) + G(Rest(u))[Rest(u)]
      BY <2>1, <2>3
    <3>2. Rest(u) \in SUBSET u /\ Rest(u) # s /\ Rest(u) \in SUBSET s /\ u \in SUBSET s
      BY <2>1, <2>3, PickedLeaves DEF Rest
    <3>3. Sums(G(u), u) /\ Sums(G(Rest(u)), Rest(u))
      BY <1>3, <2>1, <3>2
    <3>4. G(u)[u] = TokensOf(Picked(u)) + G(u)[Rest(u)]
      BY <2>3, <3>3, SumsAt DEF Rest
    <3>5. IsFiniteSet(u)
      BY <3>2, FS_Subset
    <3>6. G(u)[Rest(u)] = G(Rest(u))[Rest(u)]
      <4>1. Rest(u) \in SUBSET (u \cap Rest(u))
        BY <3>2
      <4> HIDE DEF u
      <4> QED
        BY <3>3, <3>5, <4>1, SumsAgree
    <3> QED
      BY <3>1, <3>4, <3>6
  <2> QED
    BY <2>2, <2>3
<1>5. Sums(g, s)
  <2>1. ASSUME NEW t \in SUBSET s
        PROVE  F(t) = IF t = {} THEN 0 ELSE TokensOf(Picked(t)) + g[Rest(t)]
    BY <1>4
  <2> HIDE DEF F
  <2>2. g = [t \in SUBSET s |-> IF t = {} THEN 0 ELSE TokensOf(Picked(t)) + g[Rest(t)]]
    BY <2>1
  <2> HIDE DEF g
  <2> QED
    BY <2>2 DEF Sums
<1> QED
  BY <1>2, <1>5

\* The tokens of finitely many observations add up to a number.
TokenSum(S) == MapThenSumSet(TokensOf, S)
LEMMA CostIsANumber ==
    ASSUME NEW S, IsFiniteSet(S), \A o \in S : TokensOf(o) \in Nat
    PROVE  TokenSum(S) \in Nat
<1> DEFINE g == CHOOSE h : Sums(h, S)
<1>1. Sums(g, S)
  BY SumsExist
<1> HIDE DEF g
<1>2. g[S] \in Nat
  BY <1>1, SumsAreNumbers
<1> QED
  BY <1>2, SumIsSums DEF g, TokenSum

\* A strict total order on a finite set has a first element: the one with the fewest
\* elements before it.
LEMMA FirstOfOrder ==
    ASSUME NEW S, IsFiniteSet(S), S # {}, NEW R,
           \A x \in S : <<x, x>> \notin R,
           \A x, y \in S : x # y => <<x, y>> \in R \/ <<y, x>> \in R,
           \A x, y, z \in S : <<x, y>> \in R /\ <<y, z>> \in R => <<x, z>> \in R
    PROVE  \E x \in S : \A y \in S \ {x} : <<x, y>> \in R
<1> DEFINE F == [x \in S |-> {y \in S : <<y, x>> \in R}]
           B == {F[x] : x \in S}
<1>0. F \in [S -> SUBSET S]
  OBVIOUS
<1>1. PICK x \in S : \A y \in S : F[y] \subseteq F[x] => F[y] = F[x]
  <2> HIDE DEF F
  <2>1. B \in SUBSET SUBSET S /\ B # {}
    BY <1>0
  <2>2. PICK s \in B : \A t \in B : t \subseteq s => t = s
    <3> HIDE DEF B
    <3> QED
      BY <2>1, MinimalSubset
  <2>3. PICK x \in S : s = F[x]
    OBVIOUS
  <2>4. \A y \in S : F[y] \in B
    OBVIOUS
  <2> HIDE DEF B
  <2> QED
    BY <2>2, <2>3, <2>4
<1>2. ASSUME NEW y \in S \ {x}, <<x, y>> \notin R PROVE FALSE
  <2>1. <<y, x>> \in R
    BY <1>2
  <2>2. F[y] \subseteq F[x]
    BY <2>1
  <2>3. y \in F[x] /\ y \notin F[y]
    BY <2>1
  <2> HIDE DEF F
  <2> QED
    BY <1>1, <2>2, <2>3
<1> QED
  BY <1>2

-----------------------------------------------------------------------------
(* Fractions compared by their cross products *)

\* Multiplication is monotonic, strictly so by a positive factor.
LEMMA TimesGrows ==
    ASSUME NEW x \in Nat, NEW y \in Nat, NEW z \in Nat, x <= y
    PROVE  x * z <= y * z
<1>1. PICK d \in Nat : y = x + d
  <2>1. y - x \in Nat /\ y = x + (y - x)
    OBVIOUS
  <2> QED
    BY <2>1
<1>2. y * z = x * z + d * z /\ d * z \in Nat /\ x * z \in Nat
  BY <1>1
<1> QED
  BY <1>2
LEMMA TimesGrowsStrictly ==
    ASSUME NEW x \in Nat, NEW y \in Nat, NEW z \in Nat \ {0}, x < y
    PROVE  x * z < y * z
<1>1. (x + 1) * z <= y * z
  BY TimesGrows
<1>2. (x + 1) * z = x * z + z /\ x * z \in Nat /\ y * z \in Nat
  OBVIOUS
<1> QED
  BY <1>1, <1>2

\* a/n is at most b/m and b/m at most c/k, so a/n is at most c/k.
LEMMA CrossTransitive ==
    ASSUME NEW a \in Nat, NEW n \in Nat \ {0}, NEW b \in Nat, NEW m \in Nat \ {0},
           NEW c \in Nat, NEW k \in Nat \ {0}, a * m <= b * n, b * k <= c * m
    PROVE  a * k <= c * n
<1>1. /\ a * m \in Nat /\ b * n \in Nat /\ b * k \in Nat
      /\ c * m \in Nat /\ a * k \in Nat /\ c * n \in Nat
  OBVIOUS
<1>2. (a * m) * k <= (b * n) * k
  BY <1>1, TimesGrows
<1>3. (b * k) * n <= (c * m) * n
  BY <1>1, TimesGrows
<1>4. (a * m) * k = (a * k) * m /\ (b * n) * k = (b * k) * n /\ (c * m) * n = (c * n) * m
  OBVIOUS
<1>5. (a * k) * m <= (c * n) * m
  <2> DEFINE u == (a * k) * m
             v == (b * k) * n
             w == (c * n) * m
  <2>1. u <= v /\ v <= w
    BY <1>2, <1>3, <1>4
  <2>2. u \in Nat /\ v \in Nat /\ w \in Nat
    BY <1>1
  <2> HIDE DEF u, v, w
  <2>3. u <= w
    BY <2>1, <2>2
  <2> QED
    BY <2>3 DEF u, w
<1>6. ASSUME c * n < a * k PROVE FALSE
  <2>1. (c * n) * m < (a * k) * m
    BY <1>1, <1>6, TimesGrowsStrictly
  <2>2. (c * n) * m \in Nat /\ (a * k) * m \in Nat
    BY <1>1
  <2> QED
    BY <1>5, <2>1, <2>2
<1> QED
  BY <1>1, <1>6

-----------------------------------------------------------------------------
(* The choices of predictive routing exist *)

\* The statistics of LWARs that have observations.
Counted(stats) ==
    /\ DOMAIN stats \subseteq Lwar
    /\ \A l \in DOMAIN stats :
         /\ stats[l].n \in Nat \ {0}
         /\ stats[l].accepted \in Nat
         /\ stats[l].tokens \in Nat

\* Costs in a row: the lower mean first, the lower number when they are equal.
CheaperThan(stats, l, m) ==
    MeanBelow(stats[l], stats[m]) \/ (MeanEqual(stats[l], stats[m]) /\ l < m)

\* Mean cost, then number, is a strict total order.
LEMMA MeansOrdered ==
    ASSUME RoutingAssumption, NEW stats, Counted(stats), NEW l \in DOMAIN stats,
           NEW m \in DOMAIN stats, NEW k \in DOMAIN stats
    PROVE  /\ ~CheaperThan(stats, l, l)
           /\ l # m => CheaperThan(stats, l, m) \/ CheaperThan(stats, m, l)
           /\ CheaperThan(stats, l, m) /\ CheaperThan(stats, m, k) => CheaperThan(stats, l, k)
<1> DEFINE Le(x, y) == stats[x].tokens * stats[y].n <= stats[y].tokens * stats[x].n
<1>1. ASSUME NEW x \in DOMAIN stats, NEW y \in DOMAIN stats
      PROVE  /\ x \in Nat /\ y \in Nat
             /\ MeanBelow(stats[x], stats[y]) <=> ~Le(y, x)
             /\ MeanEqual(stats[x], stats[y]) <=> Le(x, y) /\ Le(y, x)
             /\ Le(x, y) \/ Le(y, x)
  <2>0. x \in Nat /\ y \in Nat
    BY DEF Counted, RoutingAssumption
  <2>1. stats[x].tokens * stats[y].n \in Nat /\ stats[y].tokens * stats[x].n \in Nat
    BY DEF Counted
  <2> QED
    BY <2>0, <2>1 DEF MeanBelow, MeanEqual
<1>2. ASSUME NEW x \in DOMAIN stats, NEW y \in DOMAIN stats, NEW z \in DOMAIN stats,
             Le(x, y), Le(y, z)
      PROVE  Le(x, z)
  BY <1>2, CrossTransitive DEF Counted
<1> HIDE DEF Le
<1>3. ASSUME NEW x \in DOMAIN stats, NEW y \in DOMAIN stats
      PROVE  CheaperThan(stats, x, y) <=> ~Le(y, x) \/ (Le(x, y) /\ Le(y, x) /\ x < y)
  BY <1>1 DEF CheaperThan
<1>4. ~CheaperThan(stats, l, l)
  BY <1>1, <1>3
<1>5. l # m => CheaperThan(stats, l, m) \/ CheaperThan(stats, m, l)
  BY <1>1, <1>3
<1>6. CheaperThan(stats, l, m) /\ CheaperThan(stats, m, k) => CheaperThan(stats, l, k)
  BY <1>1, <1>2, <1>3
<1> QED
  BY <1>4, <1>5, <1>6

\* So is the quality rank: acceptance, support, mean cost, number.
LEMMA RanksOrdered ==
    ASSUME RoutingAssumption, NEW stats, Counted(stats), NEW l \in DOMAIN stats,
           NEW m \in DOMAIN stats, NEW k \in DOMAIN stats
    PROVE  /\ ~RanksBefore(stats, l, l)
           /\ l # m => RanksBefore(stats, l, m) \/ RanksBefore(stats, m, l)
           /\ RanksBefore(stats, l, m) /\ RanksBefore(stats, m, k) => RanksBefore(stats, l, k)
<1> DEFINE Le(x, y) == stats[x].accepted * stats[y].n <= stats[y].accepted * stats[x].n
           C(x, y) == CheaperThan(stats, x, y)
           N(x) == stats[x].n
<1>1. ASSUME NEW x \in DOMAIN stats, NEW y \in DOMAIN stats
      PROVE  /\ N(x) \in Nat /\ N(y) \in Nat
             /\ RateAbove(stats[x], stats[y]) <=> ~Le(x, y)
             /\ Le(x, y) \/ Le(y, x)
  <2>1. /\ stats[x].accepted * stats[y].n \in Nat /\ stats[y].accepted * stats[x].n \in Nat
        /\ N(x) \in Nat /\ N(y) \in Nat
    BY DEF Counted
  <2> QED
    BY <2>1 DEF RateAbove
<1>2. ASSUME NEW x \in DOMAIN stats, NEW y \in DOMAIN stats, NEW z \in DOMAIN stats,
             Le(x, y), Le(y, z)
      PROVE  Le(x, z)
  BY <1>2, CrossTransitive DEF Counted
<1> HIDE DEF Le
<1>3. ASSUME NEW x \in DOMAIN stats, NEW y \in DOMAIN stats
      PROVE  RanksBefore(stats, x, y) <=>
                \/ ~Le(x, y)
                \/ Le(y, x) /\ (N(x) > N(y) \/ (N(x) = N(y) /\ C(x, y)))
  BY <1>1 DEF RanksBefore, CheaperThan
<1>4. /\ ~C(l, l)
      /\ l # m => C(l, m) \/ C(m, l)
      /\ C(l, m) /\ C(m, k) => C(l, k)
  BY MeansOrdered
<1> HIDE DEF C, N
<1>5. ~RanksBefore(stats, l, l)
  BY <1>1, <1>3, <1>4
<1>6. l # m => RanksBefore(stats, l, m) \/ RanksBefore(stats, m, l)
  BY <1>1, <1>3, <1>4
<1>7. RanksBefore(stats, l, m) /\ RanksBefore(stats, m, k) => RanksBefore(stats, l, k)
  BY <1>1, <1>2, <1>3, <1>4
<1> QED
  BY <1>5, <1>6, <1>7

\* The leader is one of the LWARs and ranks before every other.
LEMMA LeaderLeads ==
    ASSUME RoutingAssumption, NEW stats, Counted(stats), IsFiniteSet(DOMAIN stats),
           DOMAIN stats # {}
    PROVE  /\ Leader(stats) \in DOMAIN stats
           /\ \A m \in DOMAIN stats \ {Leader(stats)} : RanksBefore(stats, Leader(stats), m)
<1> DEFINE D == DOMAIN stats
           R == {p \in D \X D : RanksBefore(stats, p[1], p[2])}
<1>1. \A x, y \in D : <<x, y>> \in R <=> RanksBefore(stats, x, y)
  OBVIOUS
<1>2. \A x \in D : <<x, x>> \notin R
  BY <1>1, RanksOrdered
<1>3. \A x, y \in D : x # y => <<x, y>> \in R \/ <<y, x>> \in R
  BY <1>1, RanksOrdered
<1>4. \A x, y, z \in D : <<x, y>> \in R /\ <<y, z>> \in R => <<x, z>> \in R
  BY <1>1, RanksOrdered
<1> HIDE DEF R
<1>5. PICK l \in D : \A m \in D \ {l} : <<l, m>> \in R
  <2> HIDE DEF D
  <2> QED
    BY <1>2, <1>3, <1>4, FirstOfOrder DEF D
<1>6. \A m \in D \ {l} : RanksBefore(stats, l, m)
  BY <1>1, <1>5
<1> QED
  BY <1>6 DEF Leader

\* So is the cheapest of any of them.
LEMMA CheapestIsCheap ==
    ASSUME RoutingAssumption, NEW stats, Counted(stats), IsFiniteSet(DOMAIN stats),
           NEW S \in SUBSET DOMAIN stats, S # {}
    PROVE  /\ Cheapest(stats, S) \in S
           /\ \A m \in S \ {Cheapest(stats, S)} : CheaperThan(stats, Cheapest(stats, S), m)
<1> DEFINE R == {p \in S \X S : CheaperThan(stats, p[1], p[2])}
<1>0. IsFiniteSet(S)
  BY FS_Subset
<1>1. \A x, y \in S : <<x, y>> \in R <=> CheaperThan(stats, x, y)
  OBVIOUS
<1>2. \A x \in S : <<x, x>> \notin R
  BY <1>1, MeansOrdered
<1>3. \A x, y \in S : x # y => <<x, y>> \in R \/ <<y, x>> \in R
  BY <1>1, MeansOrdered
<1>4. \A x, y, z \in S : <<x, y>> \in R /\ <<y, z>> \in R => <<x, z>> \in R
  BY <1>1, MeansOrdered
<1> HIDE DEF R
<1>5. PICK l \in S : \A m \in S \ {l} : <<l, m>> \in R
  <2>1. \E l \in S : \A m \in S \ {l} : <<l, m>> \in R
    BY ONLY <1>0, <1>2, <1>3, <1>4, S # {}, FirstOfOrder
  <2> QED
    BY <2>1
<1>6. \A m \in S \ {l} : CheaperThan(stats, l, m)
  BY <1>1, <1>5
<1> QED
  BY <1>6 DEF Cheapest, CheaperThan

\* The leader has the best acceptance.
LEMMA LeaderIsBest ==
    ASSUME RoutingAssumption, NEW stats, Counted(stats), IsFiniteSet(DOMAIN stats),
           DOMAIN stats # {}
    PROVE  \A m \in DOMAIN stats :
             stats[m].accepted * stats[Leader(stats)].n
               <= stats[Leader(stats)].accepted * stats[m].n
<1> DEFINE l == Leader(stats)
<1>1. l \in DOMAIN stats /\ \A m \in DOMAIN stats \ {l} : RanksBefore(stats, l, m)
  BY LeaderLeads
<1> HIDE DEF l
<1>2. ASSUME NEW m \in DOMAIN stats
      PROVE  stats[m].accepted * stats[l].n <= stats[l].accepted * stats[m].n
  <2>1. stats[m].accepted * stats[l].n \in Nat /\ stats[l].accepted * stats[m].n \in Nat
    BY <1>1 DEF Counted
  <2>2. CASE m = l
    BY <2>1, <2>2
  <2>3. CASE m # l
    BY <1>1, <2>1, <2>3 DEF RanksBefore, RateAbove
  <2> QED
    BY <2>2, <2>3
<1> QED
  BY <1>2 DEF l

\* The best acceptance is always within the quality drop of itself.
LEMMA SomeQualify ==
    ASSUME RoutingAssumption, NEW stats, Counted(stats), IsFiniteSet(DOMAIN stats),
           DOMAIN stats # {}
    PROVE  Leader(stats) \in Qualified(stats)
<1> DEFINE l == Leader(stats)
<1>0. l \in DOMAIN stats
  BY LeaderLeads
<1>1. \A m \in DOMAIN stats :
         stats[m].accepted * stats[l].n <= stats[l].accepted * stats[m].n
  BY LeaderIsBest
<1> HIDE DEF l
<1>2. ASSUME NEW m \in DOMAIN stats
      PROVE  100 * (stats[m].accepted * stats[l].n)
               <= 100 * (stats[l].accepted * stats[m].n) + QualityDrop * stats[m].n * stats[l].n
  <2>1. stats[m].accepted * stats[l].n \in Nat /\ stats[l].accepted * stats[m].n \in Nat
    BY <1>0 DEF Counted
  <2>2. QualityDrop * stats[m].n * stats[l].n \in Nat
    <3>1. QualityDrop \in Nat /\ stats[m].n \in Nat /\ stats[l].n \in Nat
      BY <1>0 DEF Counted, RoutingAssumption
    <3> QED
      BY <3>1
  <2>3. stats[m].accepted * stats[l].n <= stats[l].accepted * stats[m].n
    BY <1>1
  <2> DEFINE u == stats[m].accepted * stats[l].n
             v == stats[l].accepted * stats[m].n
             w == QualityDrop * stats[m].n * stats[l].n
  <2>4. u \in Nat /\ v \in Nat /\ w \in Nat /\ u <= v
    BY <2>1, <2>2, <2>3
  <2> HIDE DEF u, v, w
  <2>5. 100 * u <= 100 * v + w
    BY <2>4
  <2> QED
    BY <2>5 DEF u, v, w
<1> QED
  BY <1>0, <1>2 DEF Qualified, l

-----------------------------------------------------------------------------
(* What predictive routing promises of its choice *)

\* A bucket counts the observations of its LWAR, the accepted ones and their tokens.
AcceptedIn(S) == Cardinality({o \in S : o.accepted})

LEMMA AggregateFields ==
    ASSUME NEW p, NEW E, NEW l \in DOMAIN Aggregate(p, E), NEW mine, mine = {o \in p : o.lwar = l}
    PROVE  /\ l \in E /\ \E o \in p : o.lwar = l
           /\ Aggregate(p, E)[l].n = Cardinality(mine)
           /\ Aggregate(p, E)[l].accepted = AcceptedIn(mine)
           /\ Aggregate(p, E)[l].tokens = TokenSum(mine)
<1> DEFINE D == {o.lwar : o \in p} \cap E
           Mine(k) == {o \in p : o.lwar = k}
           Bucket(k) == [n |-> Cardinality(Mine(k)), accepted |-> AcceptedIn(Mine(k)),
                         tokens |-> TokenSum(Mine(k))]
<1>1. Aggregate(p, E) = [k \in D |-> Bucket(k)]
  BY DEF Aggregate, AcceptedIn, TokenSum
<1>2. l \in D
  <2> HIDE DEF D, Bucket
  <2> QED
    BY <1>1
<1>3. Aggregate(p, E)[l] = Bucket(l)
  <2> HIDE DEF D, Bucket
  <2> QED
    BY <1>1, <1>2
<1>4. Mine(l) = mine
  OBVIOUS
<1>5. l \in E /\ \E o \in p : o.lwar = l
  BY <1>2
<1> HIDE DEF Mine
<1>6. Bucket(l) = [n |-> Cardinality(mine), accepted |-> AcceptedIn(mine),
                   tokens |-> TokenSum(mine)]
  BY <1>4
<1> HIDE DEF Bucket
<1> QED
  BY <1>3, <1>5, <1>6

\* There is a bucket for every eligible LWAR that some observation mentions.
LEMMA AggregateDomain ==
    ASSUME NEW p, NEW E
    PROVE  \A l : l \in DOMAIN Aggregate(p, E) <=> l \in E /\ \E o \in p : o.lwar = l
<1>1. DOMAIN Aggregate(p, E) = {o.lwar : o \in p} \cap E
  BY DEF Aggregate
<1> QED
  BY <1>1

\* The buckets of a finite profile are statistics in the sense above.
LEMMA AggregateCounts ==
    ASSUME RoutingAssumption, NEW p \in SUBSET Observation, IsFiniteSet(p),
           NEW E \in SUBSET Lwar
    PROVE  IsFiniteSet(DOMAIN Aggregate(p, E)) /\ Counted(Aggregate(p, E))
<1> DEFINE A == Aggregate(p, E)
<1>1. DOMAIN A \subseteq {o.lwar : o \in p} /\ DOMAIN A \subseteq Lwar
  <2>1. \A l : l \in DOMAIN A => l \in E /\ \E o \in p : o.lwar = l
    BY AggregateDomain
  <2> HIDE DEF A
  <2> QED
    BY <2>1
<1>2. IsFiniteSet(DOMAIN A)
  <2> DEFINE T == {o.lwar : o \in p}
             f == [o \in p |-> o.lwar]
  <2>1. f \in Surjection(p, T)
    BY DEF Surjection
  <2>2. IsFiniteSet(T)
    <3> HIDE DEF T, f
    <3> QED
      BY <2>1, FS_Surjection
  <2>3. DOMAIN A \in SUBSET T
    BY <1>1
  <2> HIDE DEF T, A
  <2> QED
    BY <2>2, <2>3, FS_Subset
<1>3. ASSUME NEW l \in DOMAIN A
      PROVE  A[l].n \in Nat \ {0} /\ A[l].accepted \in Nat /\ A[l].tokens \in Nat
  <2> DEFINE mine == {o \in p : o.lwar = l}
             good == {o \in mine : o.accepted}
  <2>1. IsFiniteSet(mine) /\ IsFiniteSet(good)
    BY FS_Subset
  <2>2. A[l].n = Cardinality(mine) /\ A[l].accepted = AcceptedIn(mine) /\ A[l].tokens = TokenSum(mine)
    <3> HIDE DEF good
    <3> QED
      BY AggregateFields
  <2>3. mine # {}
    BY AggregateDomain
  <2>4. \A o \in mine : TokensOf(o) \in Nat
    BY DEF TokensOf, Observation, RoutingAssumption
  <2>5. AcceptedIn(mine) = Cardinality(good)
    BY DEF AcceptedIn
  <2> HIDE DEF mine, good, A
  <2>6. Cardinality(mine) \in Nat \ {0} /\ Cardinality(good) \in Nat
    BY <2>1, <2>3, FS_CardinalityType, FS_EmptySet
  <2>7. TokenSum(mine) \in Nat
    BY <2>1, <2>4, CostIsANumber
  <2> QED
    BY <2>2, <2>5, <2>6, <2>7
<1> QED
  BY <1>1, <1>2, <1>3 DEF Counted

\* Another qualified LWAR is not cheaper than the cheapest one.
LEMMA CheapestCosts ==
    ASSUME RoutingAssumption, NEW stats, Counted(stats), NEW l \in DOMAIN stats,
           NEW m \in DOMAIN stats, m = l \/ CheaperThan(stats, l, m)
    PROVE  stats[m].tokens * stats[l].n >= stats[l].tokens * stats[m].n
<1>1. stats[m].tokens * stats[l].n \in Nat /\ stats[l].tokens * stats[m].n \in Nat
  BY DEF Counted
<1> QED
  BY <1>1 DEF CheaperThan, MeanBelow, MeanEqual

ProfileInv == profile \subseteq Observation /\ IsFiniteSet(profile)

\* The profile grows by single observations.
LEMMA ProfileInvStep == ProfileInv /\ [RoutingNext]_routingVars => ProfileInv'
<1> SUFFICES ASSUME ProfileInv, [RoutingNext]_routingVars PROVE ProfileInv'
  OBVIOUS
<1>1. ASSUME NEW o \in Observation, Calibrate(o) PROVE ProfileInv'
  <2>1. profile' = profile \cup {o}
    BY <1>1 DEF Calibrate
  <2> QED
    BY <2>1, FS_AddElement DEF ProfileInv
<1>2. CASE UNCHANGED profile
  BY <1>2 DEF ProfileInv
<1>3. ASSUME NEW t \in ToSend, SendPredictive(t) \/ SendPlain(t) \/ RepairPublication(t)
      PROVE  UNCHANGED profile
  BY <1>3 DEF SendPredictive, SendPlain, RepairPublication
<1>4. ASSUME RecordPublishing \/ Publish \/ Settle \/ SendDies PROVE UNCHANGED profile
  BY <1>4 DEF RecordPublishing, Publish, Settle, SendDies
<1>5. ASSUME UNCHANGED routingVars PROVE UNCHANGED profile
  BY <1>5 DEF routingVars
<1> QED
  BY <1>1, <1>2, <1>3, <1>4, <1>5 DEF RoutingNext

\* The reason a choice gives says which of its branches was taken.
OfClass(p, class) == {o \in p : ClassOf[o.task] = class}
Made(chosen, global, stats) ==
    /\ DOMAIN global = {} => chosen.lwar = Nil /\ chosen.reason = "no_calibration_evidence"
    /\ DOMAIN global # {} =>
         \/ /\ chosen.reason \in {"unknown_class", "insufficient_support"}
            /\ chosen.lwar = Leader(global)
         \/ /\ chosen.reason = "class_quality"
            /\ chosen.lwar = Cheapest(stats, Qualified(stats))
            /\ \A l \in DOMAIN global : l \in DOMAIN stats /\ stats[l].n >= MinObservations

LEMMA ChoiceMade ==
    ASSUME NEW p, NEW class, NEW E
    PROVE  Made(Select(p, class, E), Aggregate(p, E), Aggregate(OfClass(p, class), E))
<1> DEFINE chosen == Select(p, class, E)
           global == Aggregate(p, E)
           stats == Aggregate(OfClass(p, class), E)
           supported == {l \in DOMAIN stats : stats[l].n >= MinObservations}
           unknown == \A o \in p : ClassOf[o.task] # class
<1>1. chosen =
        IF DOMAIN global = {} THEN [lwar |-> Nil, reason |-> "no_calibration_evidence"]
        ELSE IF unknown
        THEN [lwar |-> Leader(global), reason |-> "unknown_class"]
        ELSE IF supported # DOMAIN global
        THEN [lwar |-> Leader(global), reason |-> "insufficient_support"]
        ELSE [lwar |-> Cheapest(stats, Qualified(stats)), reason |-> "class_quality"]
  BY DEF Select, OfClass
<1>2. supported = DOMAIN global =>
        \A l \in DOMAIN global : l \in DOMAIN stats /\ stats[l].n >= MinObservations
  OBVIOUS
<1> HIDE DEF chosen, global, stats, supported, unknown
<1>3. Made(chosen, global, stats)
  <2>1. CASE DOMAIN global = {}
    BY <1>1, <2>1 DEF Made
  <2>2. CASE DOMAIN global # {} /\ unknown
    BY <1>1, <2>2 DEF Made
  <2>3. CASE DOMAIN global # {} /\ ~unknown /\ supported # DOMAIN global
    BY <1>1, <2>3 DEF Made
  <2>4. CASE DOMAIN global # {} /\ ~unknown /\ supported = DOMAIN global
    BY <1>1, <1>2, <2>4 DEF Made
  <2> QED
    BY <2>1, <2>2, <2>3, <2>4
<1> QED
  BY <1>3 DEF chosen, global, stats

\* QualityHeld by the branch of the choice: nothing calibrated, the leader, or the
\* cheapest of the class.
LEMMA QualityOfProfile == RoutingAssumption /\ ProfileInv => QualityHeld
<1> SUFFICES ASSUME RoutingAssumption, ProfileInv,
                    NEW E \in (SUBSET Lwar) \ {{}}, NEW class \in {ClassOf[t] : t \in Task}
             PROVE  LET chosen == Select(profile, class, E)
            Of(l) == {o \in profile : o.lwar = l}
            InClass(l) == {o \in Of(l) : ClassOf[o.task] = class}
            Good(S) == Cardinality({o \in S : o.accepted})
            Size(S) == Cardinality(S)
            Cost(S) == MapThenSumSet(TokensOf, S)
            Rivals == {l \in E : Of(l) # {}}
        IN  /\ chosen.lwar = Nil <=> Rivals = {}
            /\ chosen.lwar # Nil => chosen.lwar \in Rivals
            /\ chosen.reason = "class_quality" => \A m \in Rivals :
                 /\ Size(InClass(m)) >= MinObservations
                 /\ 100 * (Good(InClass(m)) * Size(InClass(chosen.lwar)))
                      <= 100 * (Good(InClass(chosen.lwar)) * Size(InClass(m)))
                         + QualityDrop * Size(InClass(m)) * Size(InClass(chosen.lwar))
                 /\ \/ Cost(InClass(m)) * Size(InClass(chosen.lwar))
                         >= Cost(InClass(chosen.lwar)) * Size(InClass(m))
                    \/ \E best \in Rivals :
                         100 * (Good(InClass(best)) * Size(InClass(m)))
                           > 100 * (Good(InClass(m)) * Size(InClass(best)))
                             + QualityDrop * Size(InClass(m)) * Size(InClass(best))
            /\ chosen.reason \in {"unknown_class", "insufficient_support"} => \A m \in Rivals :
                 Good(Of(m)) * Size(Of(chosen.lwar)) <= Good(Of(chosen.lwar)) * Size(Of(m))
  BY DEF QualityHeld
<1> DEFINE chosen == Select(profile, class, E)
           Of(l) == {o \in profile : o.lwar = l}
           InClass(l) == {o \in Of(l) : ClassOf[o.task] = class}
           Good(S) == AcceptedIn(S)
           Size(S) == Cardinality(S)
           Cost(S) == TokenSum(S)
           Rivals == {l \in E : Of(l) # {}}
           known == OfClass(profile, class)
           global == Aggregate(profile, E)
           stats == Aggregate(known, E)
<1>1. /\ DOMAIN global = Rivals /\ IsFiniteSet(DOMAIN global) /\ Counted(global)
      /\ \A l \in Rivals : global[l].n = Size(Of(l)) /\ global[l].accepted = Good(Of(l))
  <2>1. profile \in SUBSET Observation /\ IsFiniteSet(profile) /\ E \in SUBSET Lwar
    BY DEF ProfileInv
  <2>2. \A l : l \in Rivals <=> l \in E /\ \E o \in profile : o.lwar = l
    OBVIOUS
  <2>3. DOMAIN global = Rivals
    <3> HIDE DEF Rivals
    <3> QED
      BY <2>2, AggregateDomain
  <2>4. IsFiniteSet(DOMAIN global) /\ Counted(global)
    BY <2>1, AggregateCounts
  <2>5. ASSUME NEW l \in DOMAIN global
        PROVE  global[l].n = Size(Of(l)) /\ global[l].accepted = Good(Of(l))
    BY AggregateFields
  <2> HIDE DEF global, Rivals, Of, Good, Size
  <2> QED
    BY <2>3, <2>4, <2>5
<1>2. /\ DOMAIN stats \subseteq Rivals /\ IsFiniteSet(DOMAIN stats) /\ Counted(stats)
      /\ \A l \in DOMAIN stats : /\ stats[l].n = Size(InClass(l))
                                 /\ stats[l].accepted = Good(InClass(l))
                                 /\ stats[l].tokens = Cost(InClass(l))
  <2>1. known \in SUBSET Observation /\ IsFiniteSet(known) /\ E \in SUBSET Lwar
    BY FS_Subset DEF ProfileInv, OfClass
  <2>2. DOMAIN stats \subseteq Rivals
    <3>1. \A l : l \in DOMAIN stats => l \in E /\ \E o \in known : o.lwar = l
      BY AggregateDomain
    <3> HIDE DEF stats
    <3> QED
      BY <3>1 DEF OfClass
  <2>3. IsFiniteSet(DOMAIN stats) /\ Counted(stats)
    <3> HIDE DEF known
    <3> QED
      BY <2>1, AggregateCounts
  <2>4. ASSUME NEW l \in DOMAIN stats
        PROVE  /\ stats[l].n = Size(InClass(l))
               /\ stats[l].accepted = Good(InClass(l))
               /\ stats[l].tokens = Cost(InClass(l))
    <3>1. InClass(l) = {o \in known : o.lwar = l}
      BY DEF OfClass
    <3> HIDE DEF known, InClass
    <3> QED
      BY <3>1, AggregateFields
  <2> HIDE DEF stats, Rivals, InClass, Good, Size, Cost
  <2> QED
    BY <2>2, <2>3, <2>4
<1>3. /\ Rivals = {} => chosen.lwar = Nil /\ chosen.reason = "no_calibration_evidence"
      /\ Rivals # {} =>
           \/ /\ chosen.reason \in {"unknown_class", "insufficient_support"}
              /\ chosen.lwar = Leader(global)
           \/ /\ chosen.reason = "class_quality"
              /\ chosen.lwar = Cheapest(stats, Qualified(stats))
              /\ \A l \in Rivals : l \in DOMAIN stats /\ stats[l].n >= MinObservations
  <2>1. DOMAIN global = Rivals
    BY <1>1
  <2>2. Made(chosen, global, stats)
    BY ChoiceMade
  <2> HIDE DEF Rivals, stats, known, global, chosen
  <2> QED
    BY <2>1, <2>2 DEF Made
<1>4. Nil \notin Rivals
  BY DEF RoutingAssumption
<1> HIDE DEF Rivals, Of, InClass, Good, Size, Cost, known, global, stats, chosen
<1>5. CASE Rivals = {}
  BY <1>3, <1>5 DEF Rivals, Of, InClass, Good, Size, Cost, AcceptedIn, TokenSum, chosen
<1>6. CASE Rivals # {} /\ chosen.reason \in {"unknown_class", "insufficient_support"}
                       /\ chosen.lwar = Leader(global)
  <2>1. chosen.lwar \in Rivals
    BY <1>1, <1>6, LeaderLeads
  <2>2. ASSUME NEW m \in Rivals
        PROVE  Good(Of(m)) * Size(Of(chosen.lwar)) <= Good(Of(chosen.lwar)) * Size(Of(m))
    <3>1. global[m].accepted * global[chosen.lwar].n <= global[chosen.lwar].accepted * global[m].n
      BY <1>1, <1>6, LeaderIsBest
    <3> QED
      BY <1>1, <2>1, <3>1
  <2>3. chosen.lwar # Nil /\ chosen.reason # "class_quality"
    BY <1>4, <1>6, <2>1
  <2> QED
    BY <1>6, <2>1, <2>2, <2>3 DEF Rivals, Of, InClass, Good, Size, Cost, AcceptedIn, TokenSum, chosen
<1>7. CASE Rivals # {} /\ chosen.reason = "class_quality"
                       /\ chosen.lwar = Cheapest(stats, Qualified(stats))
                       /\ \A l \in Rivals : l \in DOMAIN stats /\ stats[l].n >= MinObservations
  <2>1. DOMAIN stats = Rivals /\ \A l \in Rivals : stats[l].n >= MinObservations
    BY <1>2, <1>7
  <2> DEFINE Q == Qualified(stats)
             c == chosen.lwar
  <2>2. Q \in SUBSET DOMAIN stats /\ Q # {}
    BY <1>2, <1>7, <2>1, SomeQualify DEF Qualified
  <2>3. c \in Q /\ \A m \in Q \ {c} : CheaperThan(stats, c, m)
    <3> HIDE DEF Q
    <3> QED
      BY <1>2, <1>7, <2>2, CheapestIsCheap DEF Q
  <2>4. c \in Rivals /\ c # Nil
    BY <1>4, <2>1, <2>2, <2>3
  <2>5. ASSUME NEW m \in Rivals
        PROVE  /\ stats[m].n >= MinObservations
               /\ 100 * (stats[m].accepted * stats[c].n)
                    <= 100 * (stats[c].accepted * stats[m].n)
                       + QualityDrop * stats[m].n * stats[c].n
               /\ \/ stats[m].tokens * stats[c].n >= stats[c].tokens * stats[m].n
                  \/ \E best \in Rivals :
                       ~(100 * (stats[best].accepted * stats[m].n)
                          <= 100 * (stats[m].accepted * stats[best].n)
                             + QualityDrop * stats[best].n * stats[m].n)
    <3>1. 100 * (stats[m].accepted * stats[c].n)
            <= 100 * (stats[c].accepted * stats[m].n) + QualityDrop * stats[m].n * stats[c].n
      BY <2>1, <2>3 DEF Qualified
    <3>2. CASE m \in Q
      <4>1. m = c \/ CheaperThan(stats, c, m)
        BY <2>3, <3>2
      <4>2. stats[m].tokens * stats[c].n >= stats[c].tokens * stats[m].n
        BY <1>2, <2>1, <2>4, <4>1, CheapestCosts
      <4> QED
        BY <2>1, <3>1, <4>2
    <3>3. CASE m \notin Q
      BY <2>1, <3>1, <3>3 DEF Qualified
    <3> QED
      BY <3>2, <3>3
  <2> HIDE DEF Q
  <2>6. ASSUME NEW m \in Rivals
        PROVE  /\ Size(InClass(m)) >= MinObservations
               /\ 100 * (Good(InClass(m)) * Size(InClass(c)))
                    <= 100 * (Good(InClass(c)) * Size(InClass(m)))
                       + QualityDrop * Size(InClass(m)) * Size(InClass(c))
               /\ \/ Cost(InClass(m)) * Size(InClass(c))
                       >= Cost(InClass(c)) * Size(InClass(m))
                  \/ \E best \in Rivals :
                       ~(100 * (Good(InClass(best)) * Size(InClass(m)))
                          <= 100 * (Good(InClass(m)) * Size(InClass(best)))
                             + QualityDrop * Size(InClass(best)) * Size(InClass(m)))
    BY <1>2, <2>1, <2>4, <2>5
  <2> HIDE DEF c
  <2>7. ASSUME NEW m \in Rivals, NEW best \in Rivals,
               ~(100 * (Good(InClass(best)) * Size(InClass(m)))
                   <= 100 * (Good(InClass(m)) * Size(InClass(best)))
                      + QualityDrop * Size(InClass(best)) * Size(InClass(m)))
        PROVE  100 * (Good(InClass(best)) * Size(InClass(m)))
                 > 100 * (Good(InClass(m)) * Size(InClass(best)))
                   + QualityDrop * Size(InClass(m)) * Size(InClass(best))
    <3> DEFINE gb == Good(InClass(best))
               gm == Good(InClass(m))
               nb == Size(InClass(best))
               nm == Size(InClass(m))
    <3>1. gb \in Nat /\ gm \in Nat /\ nb \in Nat /\ nm \in Nat /\ QualityDrop \in Nat
      BY <1>2, <2>1 DEF Counted, RoutingAssumption
    <3>2. ~(100 * (gb * nm) <= 100 * (gm * nb) + QualityDrop * nb * nm)
      BY <2>7
    <3> HIDE DEF gb, gm, nb, nm
    <3>3. QualityDrop * nb * nm = QualityDrop * nm * nb
      BY <3>1
    <3>4. gb * nm \in Nat /\ gm * nb \in Nat /\ QualityDrop * nm * nb \in Nat
      BY <3>1
    <3>5. 100 * (gb * nm) > 100 * (gm * nb) + QualityDrop * nm * nb
      BY <3>2, <3>3, <3>4
    <3> QED
      BY <3>5 DEF gb, gm, nb, nm
  <2>8. ASSUME NEW m \in Rivals
        PROVE  \/ Cost(InClass(m)) * Size(InClass(c))
                    >= Cost(InClass(c)) * Size(InClass(m))
               \/ \E best \in Rivals :
                    100 * (Good(InClass(best)) * Size(InClass(m)))
                      > 100 * (Good(InClass(m)) * Size(InClass(best)))
                        + QualityDrop * Size(InClass(m)) * Size(InClass(best))
    <3>1. CASE Cost(InClass(m)) * Size(InClass(c)) >= Cost(InClass(c)) * Size(InClass(m))
      BY <3>1
    <3>2. CASE \E best \in Rivals :
                 ~(100 * (Good(InClass(best)) * Size(InClass(m)))
                    <= 100 * (Good(InClass(m)) * Size(InClass(best)))
                       + QualityDrop * Size(InClass(best)) * Size(InClass(m)))
      BY <2>7, <3>2
    <3> QED
      BY <2>6, <3>1, <3>2
  <2>9. chosen.reason \notin {"unknown_class", "insufficient_support"}
    BY <1>7
  <2> QED
    BY <1>7, <2>4, <2>6, <2>8, <2>9 DEF c, Rivals, Of, InClass, Good, Size, Cost, AcceptedIn, TokenSum, chosen
<1> QED
  BY <1>3, <1>5, <1>6, <1>7

\* A choice by class is of an LWAR that no calibrated eligible LWAR beats by more than
\* the quality drop, on the minimum support of every one of them, and no cheaper one
\* was passed over that does not lose by more than that; a fallback choice has the best
\* acceptance of all: for every finite profile, every set of eligible LWARs, every
\* quality drop and every minimum support. The choices it speaks of exist: the order of
\* the fractions is total.
THEOREM QualityIsHeld == RoutingSpec => []QualityHeld
<1>1. RoutingAssumption
  BY RoutingAssumption
<1>2. RoutingInit => ProfileInv
  BY FS_EmptySet DEF RoutingInit, ProfileInv
<1>3. ProfileInv => QualityHeld
  BY <1>1, QualityOfProfile
<1> QED
  BY <1>2, <1>3, ProfileInvStep, PTL DEF RoutingSpec
=============================================================================
