---------------------------- MODULE TaskBusProofs ----------------------------
(***************************************************************************)
(* TaskBus is right, and implements TaskLife, for any number of sessions,  *)
(* attempts and claims. Three inductive invariants, each on top of the     *)
(* one before: Inv (types, the OA's program counter, epochs and grants),   *)
(* LifeInv (what the mapping to TaskLife relies on) and WorkInv (which     *)
(* copies of the task, of which attempts, can coexist).                    *)
(***************************************************************************)
EXTENDS TaskBusLife, TLAPS

USE DEF taskFiles, resultFiles, sessionVars, history

-----------------------------------------------------------------------------
(* Types *)

LEMMA ProceedType == ASSUME NEW label \in OaPc, Proceed(label) PROVE oa' \in Oa
  BY DEF Proceed, OaIdle, OaPc, IncomingPass, LeasePass, OrphanPass, DeadPass, FreshTask, Oa, TaskFile

LEMMA GotoType == ASSUME oa \in Oa, NEW label \in OaPc, Goto(label) PROVE oa' \in Oa
  BY DEF Goto, Oa

LEMMA MarkType == ASSUME ledger \in Ledger, NEW status \in Status, Mark(status)
                  PROVE ledger' \in Ledger
  BY DEF Mark, Ledger

LEMMA MarkAttemptType ==
  ASSUME ledger \in Ledger, NEW status \in Status, NEW n \in Nat, MarkAttempt(status, n)
  PROVE  ledger' \in Ledger
  BY DEF MarkAttempt, Ledger

LEMMA YoungType == ASSUME NEW file \in TaskFile PROVE Young(file) \in TaskFile
  BY DEF Young, TaskFile

\* Where the OA's steps lead: the types of what they write.
OaTypes == /\ incoming \in TaskFile \cup {None} /\ claimed \in TaskFile \cup {None}
           /\ dead \in TaskFile \cup {None} /\ archivedTask \in TaskFile \cup {None}
           /\ lease \in Lease \cup {None}
           /\ execution \in Grant \cup {None}
           /\ outgoing \in Result \cup {None} /\ archivedResult \in Result \cup {None}
           /\ ledger \in Ledger
           /\ oa \in Oa

LEMMA SendTypes == TypeOK /\ Send => OaTypes'
<1> SUFFICES ASSUME TypeOK, Send PROVE OaTypes'
  OBVIOUS
<1> USE DEF TypeOK, OaTypes
<1>1. CASE SendRecord
  BY <1>1, GotoType, MarkAttemptType DEF SendRecord, OaPc, Status
<1>2. CASE PublishTask
  <2>1. FreshTask \in TaskFile /\ {"send_mark", "outbox_mark"} \subseteq OaPc
    BY DEF FreshTask, TaskFile, OaPc
  <2>2. PICK label \in {"send_mark", "outbox_mark"} : Goto(label)
    BY <1>2 DEF PublishTask
  <2> QED
    BY <1>2, <2>1, <2>2, GotoType DEF PublishTask
<1>3. CASE MarkPublished
  <2>1. "published" \in Status /\ {"idle", "incoming"} \subseteq OaPc
    BY DEF Status, OaPc
  <2>2. PICK label \in {"idle", "incoming"} : Proceed(label)
    BY <1>3 DEF MarkPublished
  <2>3. ledger' \in Ledger
    BY <1>3, <2>1, MarkType DEF MarkPublished
  <2> QED
    BY <1>3, <2>1, <2>2, <2>3, ProceedType DEF MarkPublished
<1> QED
  BY <1>1, <1>2, <1>3 DEF Send

LEMMA OutboxTypes == TypeOK /\ Outbox => OaTypes'
<1> SUFFICES ASSUME TypeOK, Outbox PROVE OaTypes'
  OBVIOUS
<1> USE DEF TypeOK, OaTypes
<1>1. CASE RecoverBegin
  BY <1>1, ProceedType, MarkType DEF RecoverBegin, OaPc, Status
<1>2. CASE OutboxResult
  BY <1>2, ProceedType, GotoType, MarkType DEF OutboxResult, OaPc, Status
<1>3. CASE RequeuePending
  <2>1. /\ {"requeued"} \subseteq Status
        /\ {"incoming", "requeue_write", "dead_write", "requeue_result"} \subseteq OaPc
    BY DEF Status, OaPc
  <2>2. UNCHANGED <<taskFiles, lease, execution, resultFiles>>
    BY <1>3 DEF RequeuePending
  <2>3. CASE /\ incoming # None
             /\ oa' = [oa EXCEPT !.pc = "requeue_write", !.ret = "incoming",
                                 !.task = [Young(incoming) EXCEPT !.attempt = ledger.attempt]]
             /\ UNCHANGED ledger
    <3>1. [Young(incoming) EXCEPT !.attempt = ledger.attempt] \in TaskFile
      BY <2>3 DEF Young, TaskFile, Ledger
    <3> QED
      BY <2>1, <2>2, <2>3, <3>1 DEF Oa
  <2>4. CASE Mark("requeued") /\ Proceed("incoming")
    BY <2>1, <2>2, <2>4, ProceedType, MarkType
  <2>5. CASE claimed # None /\ MarkAttempt("requeued", claimed.attempt) /\ Proceed("incoming")
    <3>1. claimed.attempt \in Nat
      BY <2>5 DEF TaskFile
    <3> QED
      BY <2>1, <2>2, <2>5, <3>1, ProceedType, MarkAttemptType
  <2>6. CASE /\ oa' = [oa EXCEPT !.pc = "dead_write", !.ret = "incoming"]
             /\ UNCHANGED ledger
    BY <2>1, <2>2, <2>6 DEF Oa
  <2>7. CASE Goto("requeue_result") /\ UNCHANGED ledger
    BY <2>1, <2>2, <2>7, GotoType
  <2> QED
    BY <1>3, <2>3, <2>4, <2>5, <2>6, <2>7 DEF RequeuePending
<1>4. CASE RequeueResult
  BY <1>4, ProceedType, MarkType DEF RequeueResult, OaPc, Status
<1> QED
  BY <1>1, <1>2, <1>3, <1>4 DEF Outbox

LEMMA SweepTypes == TypeOK /\ Sweep => OaTypes'
<1> SUFFICES ASSUME TypeOK, Sweep PROVE OaTypes'
  OBVIOUS
<1> USE DEF TypeOK, OaTypes
<1>1. CASE IncomingSweep
  <2>1. CASE Proceed("leases")
    BY <1>1, <2>1, ProceedType DEF IncomingSweep, OaPc
  <2>2. CASE /\ incoming # None
             /\ oa' = [oa EXCEPT !.pc = "bury_move", !.ret = "leases",
                                 !.from = "incoming", !.task = Young(incoming)]
    <3>1. Young(incoming) \in TaskFile /\ {"bury_move", "leases"} \subseteq OaPc
      BY <2>2, YoungType DEF OaPc
    <3> QED
      BY <1>1, <2>2, <3>1 DEF IncomingSweep, Oa
  <2> QED
    BY <1>1, <2>1, <2>2 DEF IncomingSweep
<1>2. CASE LeaseSweep
  BY <1>2, ProceedType DEF LeaseSweep, OaPc
<1>3. CASE LeaseResult
  <2>1. claimed # None => Young(claimed) \in TaskFile
    BY YoungType
  <2>2. {"recover_one", "lease_unlink"} \subseteq OaPc
    BY DEF OaPc
  <2> QED
    BY <1>3, <2>1, <2>2 DEF LeaseResult, Oa
<1>4. CASE LeaseUnlink
  BY <1>4, ProceedType DEF LeaseUnlink, OaPc
<1>5. CASE OrphanSweep
  <2>1. claimed # None => Young(claimed) \in TaskFile
    BY YoungType
  <2>2. {"recover_one", "dead"} \subseteq OaPc
    BY DEF OaPc
  <2> QED
    BY <1>5, <2>1, <2>2 DEF OrphanSweep, Oa
<1>6. CASE DeadReconcile
  BY <1>6, ProceedType, MarkType DEF DeadReconcile, OaPc, Status
<1> QED
  BY <1>1, <1>2, <1>3, <1>4, <1>5, <1>6 DEF Sweep

LEMMA RecoveryAttemptType == TypeOK => RecoveryAttempt \in Nat
  BY DEF TypeOK, RecoveryAttempt, Larger, Oa, Ledger, TaskFile

LEMMA RequeueTypes == TypeOK /\ Requeue => OaTypes'
<1> SUFFICES ASSUME TypeOK, Requeue PROVE OaTypes'
  OBVIOUS
<1> USE DEF TypeOK, OaTypes
<1>0. oa.ret \in OaPc /\ oa.task \in TaskFile /\ oa.task.attempt \in Nat
  BY DEF Oa, TaskFile
<1>1. CASE RecoverOne
  <2>1. \A n \in Nat : [oa.task EXCEPT !.attempt = n] \in TaskFile
    BY <1>0 DEF TaskFile
  <2>2. RecoveryAttempt \in Nat
    BY RecoveryAttemptType
  <2>3. UNCHANGED <<taskFiles, lease, execution, resultFiles>>
    BY <1>1 DEF RecoverOne
  <2>4. CASE Goto("claimed_unlink") /\ UNCHANGED ledger
    BY <2>3, <2>4, GotoType DEF OaPc
  <2>5. CASE /\ MarkAttempt("dead_lettering", RecoveryAttempt)
             /\ oa' = [oa EXCEPT !.pc = "bury_move", !.from = "claimed",
                                 !.task.attempt = RecoveryAttempt]
    <3>1. ledger' \in Ledger
      BY <2>2, <2>5, MarkAttemptType DEF Status
    <3>2. oa' \in Oa
      <4> DEFINE task == [oa.task EXCEPT !.attempt = RecoveryAttempt]
      <4>1. oa' = [oa EXCEPT !.pc = "bury_move", !.from = "claimed", !.task = task]
        BY <2>5 DEF Oa
      <4>2. task \in TaskFile /\ "bury_move" \in OaPc
        BY <2>1, <2>2 DEF OaPc
      <4> HIDE DEF task
      <4> QED
        BY <4>1, <4>2 DEF Oa
    <3> QED
      BY <2>3, <3>1, <3>2
  <2>6. CASE /\ MarkAttempt("requeueing", RecoveryAttempt)
             /\ oa' = [oa EXCEPT !.pc = "requeue_move", !.task.attempt = RecoveryAttempt]
    <3>1. ledger' \in Ledger
      BY <2>2, <2>6, MarkAttemptType DEF Status
    <3>2. oa' \in Oa
      BY <1>0, <2>1, <2>2, <2>6 DEF Oa, OaPc
    <3> QED
      BY <2>3, <3>1, <3>2
  <2> QED
    BY <1>1, <2>4, <2>5, <2>6 DEF RecoverOne
<1>2. CASE ClaimedUnlink
  BY <1>0, <1>2, ProceedType DEF ClaimedUnlink
<1>3. CASE RequeueMove
  BY <1>0, <1>3, ProceedType, GotoType DEF RequeueMove, OaPc
<1>4. CASE RequeueDropGrant
  BY <1>4, GotoType DEF RequeueDropGrant, OaPc
<1>5. CASE RequeueWrite
  BY <1>0, <1>5, GotoType DEF RequeueWrite, OaPc
<1>6. CASE RequeueMark
  BY <1>0, <1>6, ProceedType, MarkAttemptType DEF RequeueMark, Status
<1> QED
  BY <1>1, <1>2, <1>3, <1>4, <1>5, <1>6 DEF Requeue

LEMMA BuryTypes == TypeOK /\ Bury => OaTypes'
<1> SUFFICES ASSUME TypeOK, Bury PROVE OaTypes'
  OBVIOUS
<1> USE DEF TypeOK, OaTypes
<1>0. oa.ret \in OaPc /\ oa.task \in TaskFile /\ oa.task.attempt \in Nat
  BY DEF Oa, TaskFile
<1>1. CASE BuryMove
  <2>1. dead' \in TaskFile \cup {None}
    BY <1>1, YoungType DEF BuryMove
  <2>2. PICK label \in OaPc : Goto(label) \/ Proceed(label)
    BY <1>0, <1>1 DEF BuryMove, OaPc
  <2>3. oa' \in Oa
    BY <2>2, GotoType, ProceedType
  <2> QED
    BY <1>1, <2>1, <2>3 DEF BuryMove
<1>2. CASE BuryDropGrant
  BY <1>2, GotoType DEF BuryDropGrant, OaPc
<1>3. CASE BuryWrite
  BY <1>0, <1>3, GotoType DEF BuryWrite, OaPc
<1>4. CASE BuryMark
  BY <1>0, <1>4, ProceedType, MarkType, MarkAttemptType DEF BuryMark, Status
<1> QED
  BY <1>1, <1>2, <1>3, <1>4 DEF Bury

\* dead --requeue writes to the dead letter it has found; see DeadHeld.
LEMMA ReviveTypes ==
  TypeOK /\ (oa.pc \in {"dead_write", "dead_move"} => dead # None) /\ Revive => OaTypes'
<1> SUFFICES ASSUME TypeOK, oa.pc \in {"dead_write", "dead_move"} => dead # None, Revive
             PROVE  OaTypes'
  OBVIOUS
<1> USE DEF TypeOK, OaTypes
<1>1. CASE DeadRequeue
  <2>1. PICK n \in Nat : MarkAttempt("requeueing", n)
    BY <1>1 DEF DeadRequeue, Larger, TaskFile, Ledger
  <2>2. ledger' \in Ledger
    BY <2>1, MarkAttemptType DEF Status
  <2>3. oa' \in Oa
    BY <1>1 DEF DeadRequeue, OaIdle, Oa, OaPc, FreshTask, TaskFile
  <2> QED
    BY <1>1, <2>2, <2>3 DEF DeadRequeue
<1>2. CASE DeadWrite
  <2>1. dead' \in TaskFile
    BY <1>2 DEF DeadWrite, TaskFile, Ledger
  <2> QED
    BY <1>2, <2>1, GotoType DEF DeadWrite, OaPc
<1>3. CASE DeadMove
  <2>1. dead \in TaskFile
    BY <1>3 DEF DeadMove
  <2>2. oa' \in Oa
    BY <1>3, <2>1 DEF DeadMove, Oa, OaPc
  <2> QED
    BY <1>3, <2>1, <2>2 DEF DeadMove
<1> QED
  BY <1>1, <1>2, <1>3 DEF Revive

LEMMA InspectType ==
  ASSUME TypeOK, NEW where \in {"outgoing", "archive"}, Inspect(where) PROVE oa' \in Oa
<1>1. CASE Inspected(where) = None
  BY <1>1, ProceedType DEF Inspect, NextPass, OaPc
<1>2. CASE Inspected(where) # None
  <2>1. Inspected(where) \in Result
    BY <1>2 DEF Inspected, TypeOK
  <2>2. PICK label \in {"collect_list", "collect_quarantine"},
             listed \in SUBSET {"claimed", "archive"} :
          oa' = [OaIdle EXCEPT !.where = where, !.res = Inspected(where),
                               !.listed = listed, !.pc = label]
    BY <1>2 DEF Inspect
  <2>3. label \in OaPc /\ OaIdle \in Oa
    BY DEF OaPc, OaIdle, Oa, FreshTask, TaskFile
  <2> QED
    BY <2>1, <2>2, <2>3 DEF Oa
<1> QED
  BY <1>1, <1>2

LEMMA NextPassType == ASSUME NEW where, NextPass(where) PROVE oa' \in Oa
  BY ProceedType DEF NextPass, OaPc

LEMMA CompleteType ==
  ASSUME TypeOK, NEW where \in {"outgoing", "archive"}, Complete(where)
  PROVE  ledger' \in Ledger
  BY DEF TypeOK, Complete, Ledger, Oa, Status

LEMMA CollectTypes == TypeOK /\ Collect => OaTypes'
<1> SUFFICES ASSUME TypeOK, Collect PROVE OaTypes'
  OBVIOUS
<1> USE DEF TypeOK, OaTypes
<1>1. CASE CollectBegin
  BY <1>1, InspectType DEF CollectBegin
<1>2. CASE CollectArchivePass
  BY <1>2, InspectType DEF CollectArchivePass
<1>3. CASE CollectList
  <2>1. PICK listed \in SUBSET {"claimed", "archive"} :
          oa' = [oa EXCEPT !.pc = "collect_judge", !.listed = listed]
    <3> DEFINE found == oa.listed \cup IF archivedTask # None THEN {"archive"} ELSE {}
    <3>1. found \in SUBSET {"claimed", "archive"}
      BY DEF Oa
    <3>2. oa' = [oa EXCEPT !.pc = "collect_judge", !.listed = found]
      BY <1>3 DEF CollectList
    <3> QED
      BY <3>1, <3>2
  <2>2. oa' \in Oa
    BY <2>1 DEF Oa, OaPc
  <2> QED
    BY <1>3, <2>2 DEF CollectList
<1>4. CASE CollectOutgoing
  <2>1. ledger' \in Ledger
    BY <1>4, CompleteType DEF CollectOutgoing
  <2>2. oa' \in Oa
    BY <1>4, GotoType, NextPassType DEF CollectOutgoing, OaPc
  <2> QED
    BY <1>4, <2>1, <2>2 DEF CollectOutgoing
<1>5. CASE CollectArchived
  <2>1. [ledger EXCEPT !.file = "archive"] \in Ledger
    BY DEF Ledger
  <2>2. ledger' \in Ledger
    BY <1>5, <2>1, CompleteType DEF CollectArchived
  <2>3. oa' \in Oa
    BY <1>5, GotoType, NextPassType DEF CollectArchived, OaPc
  <2> QED
    BY <1>5, <2>2, <2>3 DEF CollectArchived
<1>6. CASE CollectQuarantine
  BY <1>6, NextPassType DEF CollectQuarantine
<1>7. CASE CollectArchive
  BY <1>7, GotoType DEF CollectArchive, OaPc
<1>8. CASE CollectFile
  <2>1. ledger' \in Ledger
    BY <1>8 DEF CollectFile, Ledger
  <2> QED
    BY <1>8, <2>1, NextPassType DEF CollectFile
<1> QED
  BY <1>1, <1>2, <1>3, <1>4, <1>5, <1>6, <1>7, <1>8 DEF Collect

\* The counters, and the histories TypeOK bounds.
HistoryTypes == /\ fresh \in Fresh
                /\ issued \subseteq Nat \X Nat
                /\ granted \subseteq Grant
                /\ submitted \subseteq Result

SessionTypes == /\ invocation \in Nat
                /\ pc \in [Session -> SessionPc]
                /\ mine \in [Session -> Held]

LEMMA RevivedType == ASSUME NEW f \in Fresh PROVE [f EXCEPT !.revived = TRUE] \in Fresh
  BY Zenon DEF Fresh

LEMMA ClaimDrawnType ==
  ASSUME NEW f \in Fresh, NEW n \in Nat, NEW torn \in BOOLEAN
  PROVE  [f EXCEPT !.claim = n, !.torn = torn] \in Fresh
  BY Zenon DEF Fresh

LEMMA DrawnType ==
  ASSUME NEW f \in Fresh
  PROVE  /\ f.claim \in Nat /\ f.exec \in Nat /\ f.sub \in Nat
         /\ \A n \in Nat : [f EXCEPT !.exec = n] \in Fresh /\ [f EXCEPT !.sub = n] \in Fresh
  BY Zenon DEF Fresh

\* A step of the OA leaves the sessions, and all but one flag of the history, alone.
LEMMA OaLeaves == OaStep => /\ UNCHANGED <<pc, mine, invocation, issued, granted, submitted>>
                            /\ UNCHANGED fresh \/ fresh' = [fresh EXCEPT !.revived = TRUE]
  BY DEF OaStep, Send, SendRecord, PublishTask, MarkPublished, Outbox, RecoverBegin,
         OutboxResult, RequeuePending, RequeueResult, Sweep, IncomingSweep, LeaseSweep,
         LeaseResult, LeaseUnlink, OrphanSweep, DeadReconcile, Requeue, RecoverOne,
         ClaimedUnlink, RequeueMove, RequeueDropGrant, RequeueWrite, RequeueMark, Bury,
         BuryMove, BuryDropGrant, BuryWrite, BuryMark, Revive, DeadRequeue, DeadWrite,
         DeadMove, Collect, CollectBegin, CollectArchivePass, CollectList, CollectOutgoing,
         CollectArchived, CollectQuarantine, CollectArchive, CollectFile, OaCrash

LEMMA OaStepTypes ==
  TypeOK /\ (oa.pc \in {"dead_write", "dead_move"} => dead # None) /\ OaStep => TypeOK'
<1> SUFFICES ASSUME TypeOK, oa.pc \in {"dead_write", "dead_move"} => dead # None, OaStep
             PROVE  TypeOK'
  OBVIOUS
<1>1. CASE OaCrash
  <2>1. OaIdle \in Oa
    BY DEF OaIdle, Oa, OaPc, FreshTask, TaskFile
  <2> QED
    BY <1>1, <2>1 DEF OaCrash, TypeOK
<1>2. OaTypes'
  BY <1>1, SendTypes, OutboxTypes, SweepTypes, RequeueTypes, BuryTypes, ReviveTypes,
     CollectTypes DEF OaStep, TypeOK, OaTypes
<1>3. SessionTypes'
  BY OaLeaves DEF TypeOK, SessionTypes
<1>4. HistoryTypes'
  BY OaLeaves, RevivedType DEF TypeOK, HistoryTypes
<1> QED
  BY <1>2, <1>3, <1>4 DEF TypeOK, OaTypes, SessionTypes, HistoryTypes

\* What a session's step does to its own locals.
LEMMA StepType ==
  ASSUME TypeOK, NEW s \in Session, NEW from, NEW to \in SessionPc, Step(s, from, to)
  PROVE  pc' \in [Session -> SessionPc]
  BY DEF TypeOK, Step

LEMMA NothingType == Nothing \in Held
  BY DEF Nothing, Held, FreshTask, TaskFile

LEMMA ForgetType ==
  ASSUME TypeOK, NEW s \in Session, Forget(s)
  PROVE  pc' \in [Session -> SessionPc] /\ mine' \in [Session -> Held]
  BY NothingType DEF TypeOK, Forget, SessionPc

LEMMA WatchTypes == ASSUME TypeOK, NEW s \in Session, Watch(s) PROVE TypeOK'
<1> USE DEF TypeOK
<1>0. mine[s] \in Held /\ mine[s].task \in TaskFile
  BY DEF Held
<1>1. CASE StartInvocation(s)
  <2>1. [Nothing EXCEPT !.inv = invocation + 1] \in Held
    BY NothingType DEF Held
  <2> QED
    BY <1>1, <2>1, StepType DEF StartInvocation, SessionPc
<1>2. CASE ResumeClaim(s)
  <2>1. Young(claimed) \in TaskFile
    BY <1>2, YoungType DEF ResumeClaim, Resumable
  <2>2. mine' \in [Session -> Held]
    BY <1>2, <2>1 DEF ResumeClaim, Held
  <2> QED
    BY <1>2, <2>2, StepType DEF ResumeClaim, SessionPc
<1>3. CASE ClaimLoad(s)
  <2>1. Young(incoming) \in TaskFile
    BY <1>3, YoungType DEF ClaimLoad
  <2>2. mine' \in [Session -> Held]
    BY <1>3, <2>1 DEF ClaimLoad, Held
  <2> QED
    BY <1>3, <2>2, StepType DEF ClaimLoad, SessionPc
<1>4. CASE ClaimMove(s)
  BY <1>4, StepType DEF ClaimMove, SessionPc
<1>5. CASE ClaimLost(s)
  BY <1>5, StepType DEF ClaimLost, SessionPc
<1>6. CASE Stamp(s)
  <2> DEFINE stamped == [mine[s].task EXCEPT !.token = fresh.claim + 1, !.aged = FALSE]
  <2>0. fresh.claim + 1 \in Nat
    BY DrawnType
  <2>1. stamped \in TaskFile /\ claimed' = stamped
    <3>1. stamped \in TaskFile
      BY <1>0, <2>0, Zenon DEF TaskFile
    <3> QED
      BY <1>6, <3>1 DEF Stamp
  <2>2. mine' = [mine EXCEPT ![s].task = stamped]
    BY <1>6, <2>1 DEF Stamp
  <2> HIDE DEF stamped
  <2>3. mine' \in [Session -> Held]
    BY <2>1, <2>2 DEF Held
  <2>4. pc' \in [Session -> SessionPc]
    BY <1>6, StepType DEF Stamp, SessionPc
  <2>5. issued' \subseteq Nat \X Nat
    <3>1. mine[s].task.attempt \in Nat
      BY <1>0 DEF TaskFile
    <3> QED
      BY <1>6, <2>0, <3>1 DEF Stamp
  <2>6. fresh' \in Fresh
    <3> DEFINE torn == fresh.torn \/ claimed = None \/ Young(claimed) # mine[s].task
    <3>1. torn \in BOOLEAN
      OBVIOUS
    <3>2. fresh' = [fresh EXCEPT !.claim = fresh.claim + 1, !.torn = torn]
      BY <1>6 DEF Stamp
    <3> HIDE DEF torn
    <3> QED
      BY <2>0, <3>1, <3>2, ClaimDrawnType
  <2> QED
    BY <1>6, <2>1, <2>3, <2>4, <2>5, <2>6 DEF Stamp
<1>7. CASE WriteLease(s)
  <2>1. lease' \in Lease
    BY <1>0, <1>7 DEF WriteLease, Lease, TaskFile
  <2> QED
    BY <1>7, <2>1, StepType DEF WriteLease, SessionPc
<1>8. CASE Deliver(s)
  BY <1>8, StepType DEF Deliver, SessionPc
<1>9. CASE DeliverSuperseded(s)
  BY <1>9, ForgetType DEF DeliverSuperseded
<1> QED
  BY <1>1, <1>2, <1>3, <1>4, <1>5, <1>6, <1>7, <1>8, <1>9 DEF Watch

LEMMA ExecuteTypes == ASSUME TypeOK, NEW s \in Session, Execute(s) PROVE TypeOK'
<1> USE DEF TypeOK
<1>0. mine[s] \in Held /\ mine[s].task \in TaskFile
  BY DEF Held
<1>1. CASE BeginCheck(s)
  BY <1>1, StepType DEF BeginCheck, SessionPc
<1>2. CASE BeginGrant(s)
  <2>1. fresh.exec + 1 \in Nat \ {0}
    BY DrawnType
  <2>2. execution' \in Grant
    BY <1>0, <1>2, <2>1 DEF BeginGrant, NextExecution, Grant, TaskFile, Held
  <2>3. mine' \in [Session -> Held]
    BY <1>2, <2>1 DEF BeginGrant, NextExecution, Held
  <2>4. pc' \in [Session -> SessionPc]
    BY <1>2, StepType DEF BeginGrant, SessionPc
  <2>5. granted' \subseteq Grant
    BY <1>2, <2>2 DEF BeginGrant
  <2>6. fresh' \in Fresh
    BY <1>2, <2>1, DrawnType DEF BeginGrant
  <2> QED
    BY <1>2, <2>2, <2>3, <2>4, <2>5, <2>6 DEF BeginGrant
<1>3. CASE BeginRecovered(s)
  <2>1. execution.exec \in Nat
    BY <1>3 DEF BeginRecovered, OwnGrant, Grant
  <2>2. mine' \in [Session -> Held]
    BY <1>3, <2>1 DEF BeginRecovered, Held
  <2> QED
    BY <1>3, <2>2, StepType DEF BeginRecovered, SessionPc
<1>4. CASE BeginCrash(s)
  BY <1>4 DEF BeginCrash, SessionPc, Held
<1>5. CASE BeginFenced(s)
  BY <1>5, ForgetType DEF BeginFenced
<1>6. CASE ExecuteUnfenced(s)
  BY <1>6, StepType DEF ExecuteUnfenced, SessionPc
<1>7. CASE CompleteCheck(s)
  <2>1. Young(claimed) \in TaskFile
    BY <1>7, YoungType DEF CompleteCheck, HoldsClaim
  <2>2. mine' \in [Session -> Held]
    BY <1>7, <2>1 DEF CompleteCheck, Held
  <2> QED
    BY <1>7, <2>2, StepType DEF CompleteCheck, SessionPc
<1>8. CASE CompleteFenced(s)
  BY <1>8, ForgetType DEF CompleteFenced
<1> QED
  BY <1>1, <1>2, <1>3, <1>4, <1>5, <1>6, <1>7, <1>8 DEF Execute

LEMMA SubmitTypes == ASSUME TypeOK, NEW s \in Session, Submit(s) PROVE TypeOK'
<1> USE DEF TypeOK
<1>1. CASE SubmitPublish(s)
  <2>0. fresh.sub + 1 \in Nat
    BY DrawnType
  <2>1. outgoing' \in Result
    BY <1>1, <2>0 DEF SubmitPublish, Result, Held, TaskFile
  <2>2. submitted' \subseteq Result
    BY <1>1, <2>1 DEF SubmitPublish
  <2>3. fresh' \in Fresh
    BY <1>1, <2>0, DrawnType DEF SubmitPublish
  <2> QED
    BY <1>1, <2>1, <2>2, <2>3, StepType DEF SubmitPublish, SessionPc
<1>2. CASE SubmitDropGrant(s)
  BY <1>2, StepType DEF SubmitDropGrant, SessionPc
<1>3. CASE SubmitDropLease(s)
  BY <1>3, StepType DEF SubmitDropLease, SessionPc
<1>4. CASE SubmitArchive(s)
  BY <1>4, ForgetType, YoungType DEF SubmitArchive
<1> QED
  BY <1>1, <1>2, <1>3, <1>4 DEF Submit

LEMMA SessionStepTypes == ASSUME TypeOK, NEW s \in Session, SessionStep(s) PROVE TypeOK'
<1>1. CASE CompleteCrash(s)
  BY <1>1 DEF CompleteCrash, TypeOK, SessionPc
<1>2. CASE SessionCrash(s)
  BY <1>2, ForgetType DEF SessionCrash, TypeOK
<1> QED
  BY <1>1, <1>2, WatchTypes, ExecuteTypes, SubmitTypes DEF SessionStep

LEMMA TimeTypes == TypeOK /\ Time => TypeOK'
<1> SUFFICES ASSUME TypeOK, Time PROVE TypeOK'
  OBVIOUS
<1> USE DEF TypeOK
<1>1. CASE LeaseExpires
  BY <1>1 DEF LeaseExpires, Lease
<1>2. CASE IncomingAges
  BY <1>2 DEF IncomingAges, TaskFile
<1>3. CASE ClaimedAges
  BY <1>3 DEF ClaimedAges, TaskFile
<1> QED
  BY <1>1, <1>2, <1>3 DEF Time

-----------------------------------------------------------------------------
(* The OA: what a command in progress relies on *)

\* Where a pass goes on after recover_one, requeue_claimed or dead_letter.
Returns == oa.ret \in {"idle", "incoming", "leases", "lease_unlink", "dead"}

\* The dead letter a command has seen is there until that command moves it, and
\* dead --requeue moves it under a ledger entry that is not dead any more.
DeadHeld ==
    /\ oa.pc \in {"bury_grant", "bury_write", "bury_mark", "dead_write", "dead_move"} => dead # None
    /\ oa.pc \in {"requeue_pending", "requeue_result", "dead_write", "dead_move"} =>
          ledger.status = "requeueing"
    /\ DeadLetterKept

\* The result collect is judging has passed the attempt fence.
AttemptHeld ==
    /\ oa.pc \in {"collect_list", "collect_judge"} =>
          oa.res # None /\ oa.res.attempt = ledger.attempt
    /\ CompletedCurrent

OaInv == Returns /\ DeadHeld /\ AttemptHeld

LEMMA GotoEffect ==
  ASSUME oa \in Oa, NEW label, Goto(label)
  PROVE  oa'.pc = label /\ oa'.ret = oa.ret /\ oa'.res = oa.res
  BY DEF Goto, Oa

\* Control points that carry no obligation.
Free == {"idle", "incoming", "leases", "lease_unlink", "orphans", "dead", "outbox_result",
         "collect_archive_pass"}

LEMMA ProceedEffect ==
  ASSUME NEW label \in Free, Proceed(label) PROVE oa'.pc \in Free /\ oa'.ret = "idle"
  BY DEF Proceed, Free, OaIdle, IncomingPass, LeasePass, OrphanPass, DeadPass

LEMMA MarkEffect ==
  ASSUME ledger \in Ledger, NEW status, Mark(status)
  PROVE  /\ ledger'.status = status /\ ledger'.attempt = ledger.attempt
         /\ ledger'.result = ledger.result
  BY DEF Mark, Ledger

LEMMA MarkAttemptEffect ==
  ASSUME ledger \in Ledger, NEW status, NEW n, MarkAttempt(status, n)
  PROVE  ledger'.status = status /\ ledger'.attempt = n
  BY DEF MarkAttempt, Ledger

\* At a free point nothing but the two invariants has to hold; the ledger may have
\* been marked with any status but the two they are about.
LEMMA FreeHolds ==
  ASSUME OaInv, dead' = dead, oa'.pc \in Free, Returns',
         UNCHANGED ledger \/ ledger'.status \notin {"dead", "completed"}
  PROVE  OaInv'
  BY DEF OaInv, DeadHeld, AttemptHeld, DeadLetterKept, CompletedCurrent, Free

LEMMA SendHolds == TypeOK /\ OaInv /\ Send => OaInv'
<1> SUFFICES ASSUME TypeOK, OaInv, Send PROVE OaInv'
  OBVIOUS
<1>0. oa \in Oa /\ ledger \in Ledger
  BY DEF TypeOK
<1>1. CASE SendRecord
  BY <1>0, <1>1, GotoEffect, MarkAttemptEffect
  DEF SendRecord, OaInv, Returns, DeadHeld, AttemptHeld, DeadLetterKept, CompletedCurrent
<1>2. CASE PublishTask
  BY <1>0, <1>2, GotoEffect
  DEF PublishTask, OaInv, Returns, DeadHeld, AttemptHeld, DeadLetterKept, CompletedCurrent
<1>3. CASE MarkPublished
  <2>1. PICK label \in Free : Proceed(label)
    BY <1>3 DEF MarkPublished, Free
  <2> QED
    BY <1>0, <1>3, <2>1, ProceedEffect, MarkEffect, FreeHolds DEF MarkPublished, Returns
<1> QED
  BY <1>1, <1>2, <1>3 DEF Send

LEMMA OutboxHolds == TypeOK /\ OaInv /\ Outbox => OaInv'
<1> SUFFICES ASSUME TypeOK, OaInv, Outbox PROVE OaInv'
  OBVIOUS
<1>0. oa \in Oa /\ ledger \in Ledger
  BY DEF TypeOK
<1>1. CASE RecoverBegin
  <2>0. dead' = dead
    BY <1>1 DEF RecoverBegin
  <2>1. CASE \E label \in Free : Proceed(label) /\ (UNCHANGED ledger \/ Mark("published"))
    BY <1>0, <2>0, <2>1, ProceedEffect, MarkEffect, FreeHolds DEF Returns
  <2>2. CASE /\ ledger.status = "requeueing"
             /\ Proceed("requeue_pending") /\ UNCHANGED ledger
    <3>1. oa'.pc = "requeue_pending" /\ oa'.ret = "idle"
      BY <2>2 DEF Proceed, OaIdle
    <3> QED
      BY <2>0, <2>2, <3>1 DEF OaInv, Returns, DeadHeld, AttemptHeld, DeadLetterKept,
         CompletedCurrent
  <2> QED
    BY <1>1, <2>1, <2>2 DEF RecoverBegin, Free
<1>2. CASE OutboxResult
  <2>1. CASE Goto("outbox_publish") /\ UNCHANGED ledger
    BY <1>0, <1>2, <2>1, GotoEffect DEF OutboxResult, OaInv, Returns, DeadHeld, AttemptHeld,
       DeadLetterKept, CompletedCurrent
  <2>2. CASE Proceed("incoming") /\ (UNCHANGED ledger \/ Mark("failed"))
    BY <1>0, <1>2, <2>2, ProceedEffect, MarkEffect, FreeHolds DEF OutboxResult, Returns, Free
  <2> QED
    BY <1>2, <2>1, <2>2 DEF OutboxResult
<1>3. CASE RequeuePending
  <2>0. dead' = dead /\ ledger.status = "requeueing"
    BY <1>3 DEF RequeuePending, OaInv, DeadHeld
  <2>1. CASE oa'.pc = "requeue_write" /\ oa'.ret = "incoming" /\ UNCHANGED ledger
    BY <2>0, <2>1 DEF OaInv, Returns, DeadHeld, AttemptHeld, DeadLetterKept, CompletedCurrent
  <2>2. CASE /\ Proceed("incoming")
             /\ Mark("requeued") \/ MarkAttempt("requeued", claimed.attempt)
    BY <1>0, <2>0, <2>2, ProceedEffect, MarkEffect, MarkAttemptEffect, FreeHolds
    DEF Returns, Free
  <2>3. CASE /\ dead # None /\ oa'.pc = "dead_write" /\ oa'.ret = "incoming"
             /\ UNCHANGED ledger
    BY <2>0, <2>3 DEF OaInv, Returns, DeadHeld, AttemptHeld, DeadLetterKept, CompletedCurrent
  <2>4. CASE Goto("requeue_result") /\ UNCHANGED ledger
    BY <1>0, <2>0, <2>4, GotoEffect DEF OaInv, Returns, DeadHeld, AttemptHeld,
       DeadLetterKept, CompletedCurrent
  <2>5. \/ /\ oa' = [oa EXCEPT !.pc = "requeue_write", !.ret = "incoming",
                               !.task = [Young(incoming) EXCEPT !.attempt = ledger.attempt]]
           /\ UNCHANGED ledger
        \/ /\ Proceed("incoming")
           /\ Mark("requeued") \/ MarkAttempt("requeued", claimed.attempt)
        \/ /\ dead # None /\ oa' = [oa EXCEPT !.pc = "dead_write", !.ret = "incoming"]
           /\ UNCHANGED ledger
        \/ Goto("requeue_result") /\ UNCHANGED ledger
    BY <1>3 DEF RequeuePending
  <2>6. ASSUME NEW task, oa' = [oa EXCEPT !.pc = "requeue_write", !.ret = "incoming", !.task = task]
        PROVE  oa'.pc = "requeue_write" /\ oa'.ret = "incoming"
    BY <1>0, <2>6 DEF Oa
  <2>7. ASSUME oa' = [oa EXCEPT !.pc = "dead_write", !.ret = "incoming"]
        PROVE  oa'.pc = "dead_write" /\ oa'.ret = "incoming"
    BY <1>0, <2>7 DEF Oa
  <2> QED
    BY <2>1, <2>2, <2>3, <2>4, <2>5, <2>6, <2>7
<1>4. CASE RequeueResult
  BY <1>0, <1>4, ProceedEffect, MarkEffect, FreeHolds DEF RequeueResult, Returns, Free
<1> QED
  BY <1>1, <1>2, <1>3, <1>4 DEF Outbox

LEMMA SweepHolds == TypeOK /\ OaInv /\ Sweep => OaInv'
<1> SUFFICES ASSUME TypeOK, OaInv, Sweep PROVE OaInv'
  OBVIOUS
<1>0. oa \in Oa /\ ledger \in Ledger
  BY DEF TypeOK
<1>1. CASE IncomingSweep
  <2>1. CASE Proceed("leases")
    BY <1>1, <2>1, ProceedEffect, FreeHolds DEF IncomingSweep, Returns, Free
  <2>2. CASE oa'.pc = "bury_move" /\ oa'.ret = "leases"
    BY <1>1, <2>2 DEF IncomingSweep, OaInv, Returns, DeadHeld, AttemptHeld, DeadLetterKept,
       CompletedCurrent
  <2> QED
    BY <1>0, <1>1, <2>1, <2>2 DEF IncomingSweep, Oa
<1>2. CASE LeaseSweep
  <2>1. CASE Proceed("orphans")
    BY <1>2, <2>1, ProceedEffect, FreeHolds DEF LeaseSweep, Returns, Free
  <2>2. CASE Proceed("lease_result")
    BY <1>2, <2>2 DEF LeaseSweep, Proceed, OaIdle, OaInv, Returns, DeadHeld, AttemptHeld,
       DeadLetterKept, CompletedCurrent
  <2> QED
    BY <1>2, <2>1, <2>2 DEF LeaseSweep
<1>3. CASE LeaseResult
  <2>1. oa'.pc \in {"recover_one", "lease_unlink"} /\ oa'.ret \in {oa.ret, "lease_unlink"}
    BY <1>0, <1>3 DEF LeaseResult, Oa
  <2> QED
    BY <1>3, <2>1 DEF LeaseResult, OaInv, Returns, DeadHeld, AttemptHeld, DeadLetterKept,
       CompletedCurrent
<1>4. CASE LeaseUnlink
  BY <1>4, ProceedEffect, FreeHolds DEF LeaseUnlink, Returns, Free
<1>5. CASE OrphanSweep
  <2>1. oa'.pc \in {"recover_one", "dead"} /\ oa'.ret \in {oa.ret, "dead"}
    BY <1>0, <1>5 DEF OrphanSweep, Oa
  <2> QED
    BY <1>5, <2>1 DEF OrphanSweep, OaInv, Returns, DeadHeld, AttemptHeld, DeadLetterKept,
       CompletedCurrent
<1>6. CASE DeadReconcile
  <2>1. oa'.pc \in Free /\ Returns' /\ dead' = dead
    BY <1>6, ProceedEffect DEF DeadReconcile, Returns, Free
  <2>2. CASE UNCHANGED ledger
    BY <2>1, <2>2, FreeHolds
  <2>3. CASE dead # None /\ Mark("dead")
    BY <1>0, <2>1, <2>3, MarkEffect
    DEF OaInv, DeadHeld, AttemptHeld, DeadLetterKept, CompletedCurrent, Free
  <2> QED
    BY <1>6, <2>2, <2>3 DEF DeadReconcile
<1> QED
  BY <1>1, <1>2, <1>3, <1>4, <1>5, <1>6 DEF Sweep

LEMMA RequeueHolds == TypeOK /\ OaInv /\ Requeue => OaInv'
<1> SUFFICES ASSUME TypeOK, OaInv, Requeue PROVE OaInv'
  OBVIOUS
<1>0. oa \in Oa /\ ledger \in Ledger /\ oa.ret \in Free /\ RecoveryAttempt \in Nat
  BY RecoveryAttemptType DEF TypeOK, OaInv, Returns, Free
<1>1. CASE RecoverOne
  <2>1. oa'.pc \in {"claimed_unlink", "bury_move", "requeue_move"} /\ oa'.ret = oa.ret
    BY <1>0, <1>1 DEF RecoverOne, Goto, Oa
  <2>2. \/ UNCHANGED ledger
        \/ \E status \in {"dead_lettering", "requeueing"} : MarkAttempt(status, RecoveryAttempt)
    BY <1>1 DEF RecoverOne
  <2>3. UNCHANGED ledger \/ ledger'.status \notin {"dead", "completed"}
    BY <1>0, <2>2, MarkAttemptEffect
  <2> QED
    BY <1>1, <2>1, <2>3 DEF RecoverOne, OaInv, Returns, DeadHeld, AttemptHeld,
       DeadLetterKept, CompletedCurrent
<1>2. CASE ClaimedUnlink
  BY <1>0, <1>2, ProceedEffect, FreeHolds DEF ClaimedUnlink, Returns
<1>3. CASE RequeueMove
  <2>1. CASE Goto("requeue_grant")
    BY <1>0, <1>3, <2>1, GotoEffect DEF RequeueMove, OaInv, Returns, DeadHeld, AttemptHeld,
       DeadLetterKept, CompletedCurrent
  <2>2. CASE Proceed(oa.ret)
    BY <1>0, <1>3, <2>2, ProceedEffect, FreeHolds DEF RequeueMove, Returns
  <2> QED
    BY <1>3, <2>1, <2>2 DEF RequeueMove
<1>4. CASE RequeueDropGrant
  BY <1>0, <1>4, GotoEffect DEF RequeueDropGrant, OaInv, Returns, DeadHeld, AttemptHeld,
     DeadLetterKept, CompletedCurrent
<1>5. CASE RequeueWrite
  BY <1>0, <1>5, GotoEffect DEF RequeueWrite, OaInv, Returns, DeadHeld, AttemptHeld,
     DeadLetterKept, CompletedCurrent
<1>6. CASE RequeueMark
  BY <1>0, <1>6, ProceedEffect, MarkAttemptEffect, FreeHolds DEF RequeueMark, Returns
<1> QED
  BY <1>1, <1>2, <1>3, <1>4, <1>5, <1>6 DEF Requeue

LEMMA BuryHolds == TypeOK /\ OaInv /\ Bury => OaInv'
<1> SUFFICES ASSUME TypeOK, OaInv, Bury PROVE OaInv'
  OBVIOUS
<1>0. oa \in Oa /\ ledger \in Ledger /\ oa.ret \in Free /\ oa.task \in TaskFile
  BY DEF TypeOK, OaInv, Returns, Free, Oa
<1>1. CASE BuryMove
  <2>1. CASE Goto("bury_grant") /\ dead' \in {Young(incoming), Young(claimed)} /\ dead' # None
    BY <1>0, <1>1, <2>1, GotoEffect DEF BuryMove, OaInv, Returns, DeadHeld, AttemptHeld,
       DeadLetterKept, CompletedCurrent
  <2>2. CASE Proceed(oa.ret) /\ UNCHANGED dead
    BY <1>0, <1>1, <2>2, ProceedEffect, FreeHolds DEF BuryMove, Returns
  <2>3. incoming # None => Young(incoming) # None
    BY YoungType, NoneOK DEF TypeOK
  <2>4. claimed # None => Young(claimed) # None
    BY YoungType, NoneOK DEF TypeOK
  <2> QED
    BY <1>1, <2>1, <2>2, <2>3, <2>4 DEF BuryMove
<1>2. CASE BuryDropGrant
  BY <1>0, <1>2, GotoEffect DEF BuryDropGrant, OaInv, Returns, DeadHeld, AttemptHeld,
     DeadLetterKept, CompletedCurrent
<1>3. CASE BuryWrite
  <2>1. dead' # None
    BY <1>0, <1>3, NoneOK DEF BuryWrite
  <2> QED
    BY <1>0, <1>3, <2>1, GotoEffect DEF BuryWrite, OaInv, Returns, DeadHeld, AttemptHeld,
       DeadLetterKept, CompletedCurrent
<1>4. CASE BuryMark
  <2>1. dead # None /\ dead' = dead
    BY <1>4 DEF BuryMark, OaInv, DeadHeld
  <2>2. oa'.pc \in Free /\ oa'.ret = "idle"
    BY <1>0, <1>4, ProceedEffect DEF BuryMark
  <2>3. ledger'.status = "dead"
    BY <1>0, <1>4, MarkEffect, MarkAttemptEffect DEF BuryMark
  <2> QED
    BY <2>1, <2>2, <2>3 DEF OaInv, Returns, DeadHeld, AttemptHeld, DeadLetterKept,
       CompletedCurrent, Free
<1> QED
  BY <1>1, <1>2, <1>3, <1>4 DEF Bury

LEMMA ReviveHolds == TypeOK /\ OaInv /\ Revive => OaInv'
<1> SUFFICES ASSUME TypeOK, OaInv, Revive PROVE OaInv'
  OBVIOUS
<1>0. oa \in Oa /\ ledger \in Ledger
  BY DEF TypeOK
<1>1. CASE DeadRequeue
  <2>1. PICK n : MarkAttempt("requeueing", n)
    BY <1>1 DEF DeadRequeue
  <2>2. ledger'.status = "requeueing"
    BY <1>0, <2>1, MarkAttemptEffect
  <2>3. oa'.pc = "dead_write" /\ oa'.ret = "idle"
    BY <1>1 DEF DeadRequeue, OaIdle
  <2> QED
    BY <1>1, <2>2, <2>3 DEF DeadRequeue, OaInv, Returns, DeadHeld, AttemptHeld,
       DeadLetterKept, CompletedCurrent
<1>2. CASE DeadWrite
  <2>1. dead \in TaskFile /\ ledger.attempt \in Nat /\ ledger.status = "requeueing"
    BY <1>0, <1>2 DEF DeadWrite, TypeOK, OaInv, DeadHeld, Ledger
  <2>2. dead' \in TaskFile
    BY <1>2, <2>1 DEF DeadWrite, TaskFile
  <2>3. dead' # None
    BY <2>2, NoneOK
  <2> QED
    BY <1>0, <1>2, <2>1, <2>3, GotoEffect DEF DeadWrite, OaInv, Returns, DeadHeld,
       AttemptHeld, DeadLetterKept, CompletedCurrent
<1>3. CASE DeadMove
  <2>1. ledger.status = "requeueing"
    BY <1>3 DEF DeadMove, OaInv, DeadHeld
  <2>2. oa'.pc = "requeue_mark" /\ oa'.ret = oa.ret
    BY <1>0, <1>3 DEF DeadMove, Oa
  <2> QED
    BY <1>3, <2>1, <2>2 DEF DeadMove, OaInv, Returns, DeadHeld, AttemptHeld,
       DeadLetterKept, CompletedCurrent
<1> QED
  BY <1>1, <1>2, <1>3 DEF Revive

\* inspect_result lets a result through only if it is of the ledger's attempt.
LEMMA InspectHolds ==
  ASSUME TypeOK, OaInv, NEW where, Inspect(where), UNCHANGED <<ledger, dead>> PROVE OaInv'
<1>1. CASE Inspected(where) = None
  <2>1. PICK label \in Free : Proceed(label)
    BY <1>1 DEF Inspect, NextPass, Free
  <2> QED
    BY <2>1, ProceedEffect, FreeHolds DEF Returns
<1>2. CASE Inspected(where) # None
  <2>1. PICK label, listed :
          /\ oa' = [OaIdle EXCEPT !.where = where, !.res = Inspected(where),
                                  !.listed = listed, !.pc = label]
          /\ label = IF OfCurrentAttempt(Inspected(where))
                     THEN "collect_list" ELSE "collect_quarantine"
    BY <1>2 DEF Inspect
  <2>2. oa'.pc = label /\ oa'.ret = "idle" /\ oa'.res = Inspected(where)
    BY <2>1 DEF OaIdle
  <2> QED
    BY <1>2, <2>1, <2>2 DEF OfCurrentAttempt, OaInv, Returns, DeadHeld, AttemptHeld,
       DeadLetterKept, CompletedCurrent
<1> QED
  BY <1>1, <1>2

LEMMA NextPassEffect == ASSUME NEW where, NextPass(where) PROVE oa'.pc \in Free /\ Returns'
<1>1. PICK label \in Free : Proceed(label)
  BY DEF NextPass, Free
<1> QED
  BY <1>1, ProceedEffect DEF Returns

LEMMA CompleteEffect ==
  ASSUME TypeOK, NEW where, Complete(where)
  PROVE  ledger'.status = "completed" /\ ledger'.result = oa.res /\ ledger'.attempt = ledger.attempt
  BY DEF TypeOK, Complete, Ledger

LEMMA CollectHolds == TypeOK /\ OaInv /\ Collect => OaInv'
<1> SUFFICES ASSUME TypeOK, OaInv, Collect PROVE OaInv'
  OBVIOUS
<1>0. oa \in Oa /\ ledger \in Ledger
  BY DEF TypeOK
<1> USE DEF OaInv, Returns, DeadHeld, AttemptHeld, DeadLetterKept, CompletedCurrent
<1>1. CASE CollectBegin
  BY <1>1, InspectHolds DEF CollectBegin
<1>2. CASE CollectArchivePass
  BY <1>2, InspectHolds DEF CollectArchivePass
<1>3. CASE CollectList
  <2>1. oa'.pc = "collect_judge" /\ oa'.ret = oa.ret /\ oa'.res = oa.res
    BY <1>0, <1>3 DEF CollectList, Oa
  <2> QED
    BY <1>3, <2>1 DEF CollectList
<1>4. CASE CollectOutgoing
  <2>1. oa'.pc \in Free \cup {"collect_quarantine", "collect_archive"} /\ Returns'
    BY <1>0, <1>4, GotoEffect, NextPassEffect DEF CollectOutgoing
  <2>2. UNCHANGED ledger \/ Complete("outgoing")
    BY <1>4 DEF CollectOutgoing
  <2> QED
    BY <1>4, <2>1, <2>2, CompleteEffect DEF CollectOutgoing, Free
<1>5. CASE CollectArchived
  <2>1. oa'.pc \in Free \cup {"collect_quarantine"} /\ Returns'
    BY <1>0, <1>5, GotoEffect, NextPassEffect DEF CollectArchived
  <2>2. \/ UNCHANGED ledger
        \/ Complete("archive")
        \/ ledger' = [ledger EXCEPT !.file = "archive"]
    BY <1>5 DEF CollectArchived
  <2>3. \/ UNCHANGED <<ledger.status, ledger.attempt, ledger.result>>
        \/ /\ ledger'.status = "completed" /\ ledger'.result = oa.res
           /\ ledger'.attempt = ledger.attempt
    BY <1>0, <2>2, CompleteEffect DEF Ledger
  <2> QED
    BY <1>5, <2>1, <2>3 DEF CollectArchived, Free
<1>6. CASE CollectQuarantine
  BY <1>6, NextPassEffect, FreeHolds DEF CollectQuarantine
<1>7. CASE CollectArchive
  BY <1>0, <1>7, GotoEffect DEF CollectArchive
<1>8. CASE CollectFile
  <2>1. UNCHANGED <<ledger.status, ledger.attempt, ledger.result>>
    BY <1>0, <1>8 DEF CollectFile, Ledger
  <2> QED
    BY <1>8, <2>1, NextPassEffect DEF CollectFile, Free
<1> QED
  BY <1>1, <1>2, <1>3, <1>4, <1>5, <1>6, <1>7, <1>8 DEF Collect

LEMMA OaStepHolds == TypeOK /\ OaInv /\ OaStep => OaInv'
<1>1. TypeOK /\ OaInv /\ OaCrash => OaInv'
  BY DEF OaCrash, OaIdle, OaInv, Returns, DeadHeld, AttemptHeld, DeadLetterKept,
     CompletedCurrent
<1> QED
  BY <1>1, SendHolds, OutboxHolds, SweepHolds, RequeueHolds, BuryHolds, ReviveHolds,
     CollectHolds DEF OaStep

\* What the OA relies on is the OA's: sessions and time leave it alone.
LEMMA OthersLeave ==
  ASSUME (\E s \in Session : SessionStep(s)) \/ Time
  PROVE  UNCHANGED <<dead, ledger>> /\ UNCHANGED oa
  BY DEF SessionStep, Watch, StartInvocation, ResumeClaim, ClaimLoad, ClaimMove, ClaimLost,
         Stamp, WriteLease, Deliver, DeliverSuperseded, Execute, BeginCheck, BeginGrant,
         BeginRecovered, BeginCrash, BeginFenced, ExecuteUnfenced, CompleteCheck,
         CompleteFenced, Submit, SubmitPublish, SubmitDropGrant, SubmitDropLease,
         SubmitArchive, CompleteCrash, SessionCrash, Time, LeaseExpires, IncomingAges,
         ClaimedAges

-----------------------------------------------------------------------------
(* The sessions: who holds a grant *)

\* Every watcher run has an invocation epoch of its own.
EpochHeld ==
    /\ \A s \in Session : /\ mine[s].inv <= invocation
                          /\ pc[s] # "idle" => mine[s].inv # 0
                          /\ pc[s] = "granting" => mine[s].inv = invocation
    /\ \A s, t \in Session : mine[s].inv # 0 /\ mine[s].inv = mine[t].inv => s = t

\* An execution token stands for one grant, which was written for one watcher run.
GrantHeld ==
    /\ \A s \in Session : mine[s].exec # 0 =>
          /\ mine[s].inv # 0
          /\ \E g \in granted : g.exec = mine[s].exec /\ g.inv = mine[s].inv
    /\ execution # None => execution \in granted
    /\ \A g \in granted : g.exec <= fresh.exec
    /\ \A g, h \in granted : g.exec = h.exec => g = h

\* A session that neither starts a watcher run nor is granted anything keeps its
\* epoch and its token, or forgets both.
Keeps(s) ==
    /\ UNCHANGED <<invocation, granted>>
    /\ execution' \in {execution, None}
    /\ fresh'.exec = fresh.exec
    /\ \A t \in Session \ {s} : mine'[t] = mine[t] /\ pc'[t] = pc[t]
    /\ mine'[s].inv = mine[s].inv \/ (mine'[s].inv = 0 /\ pc'[s] = "idle")
    /\ mine'[s].exec = 0 \/ (mine'[s].exec = mine[s].exec /\ mine'[s].inv = mine[s].inv)
    /\ pc'[s] # "idle" => pc[s] # "idle" /\ mine'[s].inv = mine[s].inv
    /\ pc'[s] = "granting" => mine'[s].inv = invocation

LEMMA KeepsHolds ==
  ASSUME TypeOK, EpochHeld, GrantHeld, NEW s \in Session, Keeps(s)
  PROVE  EpochHeld' /\ GrantHeld'
<1>0. \A t \in Session : mine[t].inv \in Nat
  BY DEF TypeOK, Held
<1>1. EpochHeld'
  <2>1. /\ mine'[s].inv \in {mine[s].inv, 0} /\ invocation' = invocation
        /\ pc'[s] # "idle" => pc[s] # "idle" /\ mine'[s].inv = mine[s].inv
        /\ pc'[s] = "granting" => mine'[s].inv = invocation
        /\ \A t \in Session \ {s} : mine'[t] = mine[t] /\ pc'[t] = pc[t]
    BY DEF Keeps
  <2>2. \A t \in Session : /\ mine'[t].inv <= invocation'
                           /\ pc'[t] # "idle" => mine'[t].inv # 0
                           /\ pc'[t] = "granting" => mine'[t].inv = invocation'
    BY <1>0, <2>1 DEF EpochHeld, TypeOK
  <2>3. \A t, u \in Session : mine'[t].inv # 0 /\ mine'[t].inv = mine'[u].inv => t = u
    BY <2>1 DEF EpochHeld
  <2> QED
    BY <2>2, <2>3 DEF EpochHeld
<1>2. GrantHeld'
  BY DEF Keeps, GrantHeld
<1> QED
  BY <1>1, <1>2

LEMMA ForgetKeeps ==
  ASSUME TypeOK, NEW s \in Session, Forget(s),
         UNCHANGED <<invocation, granted>>, execution' \in {execution, None}, fresh'.exec = fresh.exec
  PROVE  Keeps(s)
  BY DEF TypeOK, Forget, Nothing, Keeps

\* A step to a point that is not begin's, of a session that has started.
LEMMA StepKeeps ==
  ASSUME TypeOK, NEW s \in Session, NEW from, NEW to, Step(s, from, to),
         from # "idle", to # "granting",
         mine' = mine \/ \E file : mine' = [mine EXCEPT ![s].task = file],
         UNCHANGED <<invocation, granted>>, execution' \in {execution, None}, fresh'.exec = fresh.exec
  PROVE  Keeps(s)
<1>1. \A t \in Session : mine'[t].inv = mine[t].inv /\ mine'[t].exec = mine[t].exec
  BY DEF TypeOK, Held
<1>2. \A t \in Session \ {s} : mine'[t] = mine[t] /\ pc'[t] = pc[t]
  BY DEF TypeOK, Step
<1>3. pc[s] = from /\ pc'[s] = to
  BY DEF TypeOK, Step
<1> QED
  BY <1>1, <1>2, <1>3 DEF Keeps

LEMMA WatchKeeps ==
  ASSUME TypeOK, NEW s \in Session, Watch(s), ~StartInvocation(s) PROVE Keeps(s)
<1>1. CASE ResumeClaim(s) \/ ClaimLoad(s) \/ ClaimMove(s) \/ ClaimLost(s) \/ WriteLease(s) \/ Deliver(s)
  BY <1>1, StepKeeps DEF ResumeClaim, ClaimLoad, ClaimMove, ClaimLost, WriteLease, Deliver
<1>2. CASE Stamp(s)
  <2>1. fresh'.exec = fresh.exec
    BY <1>2, Zenon DEF Stamp, TypeOK, Fresh
  <2>2. mine' = [mine EXCEPT ![s].task = claimed'] /\ Step(s, "moved", "stamped")
    BY <1>2 DEF Stamp
  <2>3. UNCHANGED <<invocation, granted, execution>>
    BY <1>2 DEF Stamp
  <2> QED
    BY <2>1, <2>2, <2>3, StepKeeps
<1>3. CASE DeliverSuperseded(s)
  BY <1>3, ForgetKeeps DEF DeliverSuperseded
<1> QED
  BY <1>1, <1>2, <1>3 DEF Watch

LEMMA ExecuteKeeps ==
  ASSUME TypeOK, NEW s \in Session, Execute(s), ~BeginGrant(s), ~BeginRecovered(s)
  PROVE  Keeps(s)
<1>1. CASE BeginCheck(s)
  BY <1>1 DEF BeginCheck, Step, TypeOK, Keeps
<1>2. CASE BeginCrash(s)
  BY <1>2 DEF BeginCrash, TypeOK, Held, Keeps
<1>3. CASE BeginFenced(s) \/ CompleteFenced(s)
  BY <1>3, ForgetKeeps DEF BeginFenced, CompleteFenced
<1>4. CASE ExecuteUnfenced(s) \/ CompleteCheck(s)
  BY <1>4, StepKeeps DEF ExecuteUnfenced, CompleteCheck
<1> QED
  BY <1>1, <1>2, <1>3, <1>4 DEF Execute

LEMMA SubmitKeeps == ASSUME TypeOK, NEW s \in Session, Submit(s) PROVE Keeps(s)
<1>1. CASE SubmitPublish(s)
  <2>1. fresh'.exec = fresh.exec
    BY <1>1, Zenon DEF SubmitPublish, TypeOK, Fresh
  <2> QED
    BY <1>1, <2>1, StepKeeps DEF SubmitPublish
<1>2. CASE SubmitDropGrant(s) \/ SubmitDropLease(s)
  BY <1>2, StepKeeps DEF SubmitDropGrant, SubmitDropLease
<1>3. CASE SubmitArchive(s)
  BY <1>3, ForgetKeeps DEF SubmitArchive
<1> QED
  BY <1>1, <1>2, <1>3 DEF Submit

\* A new watcher run takes an epoch nobody has; begin's lock keeps it out while a
\* grant is decided.
LEMMA StartHolds ==
  ASSUME TypeOK, EpochHeld, GrantHeld, NEW s \in Session, StartInvocation(s)
  PROVE  EpochHeld' /\ GrantHeld'
<1> USE DEF StartInvocation
<1>0. invocation \in Nat /\ \A t \in Session : mine[t].inv \in Nat
  BY DEF TypeOK, Held
<1>1. /\ mine'[s].inv = invocation + 1 /\ mine'[s].exec = 0 /\ pc'[s] = "watching"
      /\ \A t \in Session \ {s} : mine'[t] = mine[t] /\ pc'[t] = pc[t]
  BY DEF TypeOK, Step, Nothing
<1>2. \A t \in Session : pc'[t] # "granting"
  BY <1>1 DEF LocksFree
<1>3. EpochHeld'
  BY <1>0, <1>1, <1>2 DEF EpochHeld
<1>4. GrantHeld'
  BY <1>1 DEF GrantHeld
<1> QED
  BY <1>3, <1>4

\* The first begin of a claim draws a token nobody has.
LEMMA GrantHolds ==
  ASSUME TypeOK, EpochHeld, GrantHeld, NEW s \in Session, BeginGrant(s)
  PROVE  EpochHeld' /\ GrantHeld'
<1> USE DEF BeginGrant
<1> DEFINE new == [token |-> mine[s].task.token, inv |-> mine[s].inv, exec |-> NextExecution]
<1>0. /\ fresh.exec \in Nat /\ fresh'.exec = fresh.exec + 1 /\ NextExecution = fresh.exec + 1
      /\ \A g \in granted : g.exec \in Nat
  <2>1. fresh.exec \in Nat
    BY DrawnType DEF TypeOK
  <2>2. fresh'.exec = fresh.exec + 1
    BY Zenon DEF TypeOK, Fresh
  <2> QED
    BY <2>1, <2>2 DEF TypeOK, Grant, NextExecution
<1>1. pc[s] = "granting" /\ pc'[s] = "executing" /\ mine[s].inv # 0
  BY DEF TypeOK, Step, EpochHeld
<1>2. /\ mine'[s].inv = mine[s].inv /\ mine'[s].exec = fresh.exec + 1
      /\ \A t \in Session \ {s} : mine'[t] = mine[t] /\ pc'[t] = pc[t]
  BY <1>0 DEF TypeOK, Step, Held
<1>3. /\ execution' = new /\ granted' = granted \cup {new}
      /\ new.exec = fresh.exec + 1 /\ new.inv = mine[s].inv
  BY <1>0
<1> HIDE DEF new
<1>4. EpochHeld'
  BY <1>1, <1>2 DEF EpochHeld
<1>5. \A t \in Session : mine'[t].exec # 0 =>
         mine'[t].inv # 0 /\ \E g \in granted' : g.exec = mine'[t].exec /\ g.inv = mine'[t].inv
  BY <1>1, <1>2, <1>3 DEF GrantHeld
<1>6. \A g \in granted' : g.exec <= fresh'.exec
  BY <1>0, <1>3 DEF GrantHeld
<1>7. \A g, h \in granted' : g.exec = h.exec => g = h
  BY <1>0, <1>3 DEF GrantHeld
<1> QED
  BY <1>3, <1>4, <1>5, <1>6, <1>7 DEF GrantHeld

\* A repeated begin is answered with the grant of its own watcher run.
LEMMA RecoveredHolds ==
  ASSUME TypeOK, EpochHeld, GrantHeld, NEW s \in Session, BeginRecovered(s)
  PROVE  EpochHeld' /\ GrantHeld'
<1> USE DEF BeginRecovered
<1>1. pc[s] = "granting" /\ pc'[s] = "executing" /\ mine[s].inv # 0
  BY DEF TypeOK, Step, EpochHeld
<1>2. /\ mine'[s].inv = mine[s].inv /\ mine'[s].exec = execution.exec
      /\ \A t \in Session \ {s} : mine'[t] = mine[t] /\ pc'[t] = pc[t]
  BY DEF TypeOK, Step, Held
<1>3. execution \in granted /\ execution.inv = mine[s].inv
  BY DEF OwnGrant, GrantHeld
<1>4. EpochHeld'
  BY <1>1, <1>2 DEF EpochHeld
<1>5. GrantHeld'
  BY <1>1, <1>2, <1>3 DEF GrantHeld
<1> QED
  BY <1>4, <1>5

LEMMA SessionStepHolds ==
  ASSUME TypeOK, EpochHeld, GrantHeld, NEW s \in Session, SessionStep(s)
  PROVE  EpochHeld' /\ GrantHeld'
<1>1. CASE CompleteCrash(s)
  BY <1>1, KeepsHolds DEF CompleteCrash, TypeOK, Keeps
<1>2. CASE SessionCrash(s)
  BY <1>2, ForgetKeeps, KeepsHolds DEF SessionCrash
<1> QED
  BY <1>1, <1>2, StartHolds, GrantHolds, RecoveredHolds, WatchKeeps, ExecuteKeeps, SubmitKeeps,
     KeepsHolds DEF SessionStep

\* The OA draws no token and hands out no grant; recovery may take one away.
LEMMA OaDropsGrant == OaStep => execution' \in {execution, None}
  BY DEF OaStep, Send, SendRecord, PublishTask, MarkPublished, Outbox, RecoverBegin,
         OutboxResult, RequeuePending, RequeueResult, Sweep, IncomingSweep, LeaseSweep,
         LeaseResult, LeaseUnlink, OrphanSweep, DeadReconcile, Requeue, RecoverOne,
         ClaimedUnlink, RequeueMove, RequeueDropGrant, RequeueWrite, RequeueMark, Bury,
         BuryMove, BuryDropGrant, BuryWrite, BuryMark, Revive, DeadRequeue, DeadWrite,
         DeadMove, Collect, CollectBegin, CollectArchivePass, CollectList, CollectOutgoing,
         CollectArchived, CollectQuarantine, CollectArchive, CollectFile, OaCrash

LEMMA RestHolds ==
  ASSUME TypeOK, EpochHeld, GrantHeld, OaStep \/ Time PROVE EpochHeld' /\ GrantHeld'
<1>1. UNCHANGED <<pc, mine, invocation, granted>> /\ execution' \in {execution, None}
  BY OaLeaves, OaDropsGrant DEF Time, LeaseExpires, IncomingAges, ClaimedAges
<1>2. fresh'.exec = fresh.exec
  <2>1. UNCHANGED fresh \/ fresh' = [fresh EXCEPT !.revived = TRUE]
    BY OaLeaves DEF Time, LeaseExpires, IncomingAges, ClaimedAges
  <2>2. fresh \in Fresh
    BY DEF TypeOK
  <2> QED
    BY <2>1, <2>2, Zenon DEF Fresh
<1>3. EpochHeld'
  BY <1>1 DEF EpochHeld
<1>4. GrantHeld'
  BY <1>1, <1>2 DEF GrantHeld
<1> QED
  BY <1>3, <1>4

-----------------------------------------------------------------------------
(* The theorems *)

Inv == TypeOK /\ OaInv /\ EpochHeld /\ GrantHeld

LEMMA InitHolds == Init => Inv
<1> SUFFICES ASSUME Init PROVE Inv
  OBVIOUS
<1>1. TypeOK
  <2>1. fresh \in Fresh
    BY DEF Init, Fresh
  <2>2. ledger \in Ledger
    BY DEF Init, NoLedger, Ledger, Status
  <2>3. oa \in Oa
    BY DEF Init, OaIdle, Oa, OaPc, FreshTask, TaskFile
  <2>4. pc \in [Session -> SessionPc] /\ mine \in [Session -> Held]
    BY NothingType DEF Init, SessionPc
  <2> QED
    BY <2>1, <2>2, <2>3, <2>4 DEF Init, TypeOK
<1>2. OaInv
  BY DEF Init, NoLedger, OaIdle, OaInv, Returns, DeadHeld, AttemptHeld, DeadLetterKept,
     CompletedCurrent
<1>3. EpochHeld /\ GrantHeld
  BY DEF Init, Nothing, EpochHeld, GrantHeld
<1> QED
  BY <1>1, <1>2, <1>3 DEF Inv

LEMMA NextHolds == Inv /\ [Next]_vars => Inv'
<1> SUFFICES ASSUME Inv, [Next]_vars PROVE Inv'
  OBVIOUS
<1> USE DEF Inv
<1>1. CASE OaStep
  <2>1. TypeOK'
    BY <1>1, OaStepTypes DEF OaInv, DeadHeld
  <2> QED
    BY <1>1, <2>1, OaStepHolds, RestHolds
<1>2. ASSUME NEW s \in Session, SessionStep(s) PROVE Inv'
  <2>1. OaInv'
    BY <1>2, OthersLeave DEF OaInv, Returns, DeadHeld, AttemptHeld, DeadLetterKept,
       CompletedCurrent
  <2> QED
    BY <1>2, <2>1, SessionStepTypes, SessionStepHolds
<1>3. CASE Time
  <2>1. OaInv'
    BY <1>3, OthersLeave DEF OaInv, Returns, DeadHeld, AttemptHeld, DeadLetterKept,
       CompletedCurrent
  <2> QED
    BY <1>3, <2>1, TimeTypes, RestHolds
<1>4. CASE UNCHANGED vars
  BY <1>4 DEF vars, TypeOK, OaInv, Returns, DeadHeld, AttemptHeld, DeadLetterKept,
     CompletedCurrent, EpochHeld, GrantHeld
<1> QED
  BY <1>1, <1>2, <1>3, <1>4 DEF Next

\* The invariant the other theorems follow from.
THEOREM Invariance == Spec => []Inv
  BY InitHolds, NextHolds, PTL DEF Spec

\* Every file of the bus and every local of a command or a session has its type.
THEOREM BusTypes == Spec => []TypeOK
<1>1. Inv => TypeOK
  BY DEF Inv
<1> QED
  BY <1>1, Invariance, PTL

\* dead_letter, dead --requeue and their repairs, crashing anywhere: a task the
\* ledger calls dead has its dead letter.
THEOREM DeadLettersAreKept == Spec => []DeadLetterKept
<1>1. Inv => DeadLetterKept
  BY DEF Inv, OaInv, DeadHeld
<1> QED
  BY <1>1, Invariance, PTL

\* collect's attempt fence: a completed task was completed by a result of the
\* attempt its ledger entry names.
THEOREM CompletionIsCurrent == Spec => []CompletedCurrent
<1>1. Inv => CompletedCurrent
  BY DEF Inv, OaInv, AttemptHeld
<1> QED
  BY <1>1, Invariance, PTL

\* begin_execution and verify_execution: of any number of sessions at work on the
\* task, complete accepts one.
THEOREM ExecutionIsExclusive == Spec => []ExclusiveExecution
<1>1. Inv => ExclusiveExecution
  BY DEF Inv, EpochHeld, GrantHeld, ExclusiveExecution, Verified
<1> QED
  BY <1>1, Invariance, PTL

\* begin's lock: no watcher run starts between its check of the invocation epoch
\* and its write of the grant.
THEOREM GrantsAreCurrent == Spec => GrantIsCurrent
<1>1. Inv /\ [Next]_vars => [execution' \notin {None, execution} => execution'.inv = invocation']_vars
  <2> SUFFICES ASSUME Inv, Next, execution' \notin {None, execution}
               PROVE  execution'.inv = invocation'
    BY DEF vars
  <2>1. PICK s \in Session : SessionStep(s)
    BY OaDropsGrant DEF Next, Time, LeaseExpires, IncomingAges, ClaimedAges
  <2>2. BeginGrant(s)
    BY <2>1, WatchKeeps, ExecuteKeeps, SubmitKeeps
    DEF Inv, Keeps, SessionStep, StartInvocation, BeginRecovered, CompleteCrash, SessionCrash
  <2> QED
    BY <2>2 DEF BeginGrant, Step, Inv, EpochHeld
<1> QED
  BY <1>1, Invariance, PTL DEF Spec, GrantIsCurrent

-----------------------------------------------------------------------------
(***************************************************************************)
(* The refinement: TaskBus implements TaskLife.                            *)
(***************************************************************************)

-----------------------------------------------------------------------------
(* What the mapping relies on *)

\* Before the task is sent there is nothing on the bus and nobody at work on it.
Unsent ==
    ledger.status = "none" =>
        /\ \A file \in {incoming, claimed, dead, archivedTask, lease, outgoing, archivedResult} :
               file = None
        /\ oa.pc = "idle"
        /\ \A s \in Session : pc[s] \in {"idle", "watching"}

\* What the status is while a command is under way: the transitional one it has
\* recorded before it touched a file.
Underway ==
    /\ oa.pc \in {"send_publish", "send_mark", "outbox_result", "outbox_publish", "outbox_mark"} =>
          ledger.status \in {"publishing", "published"}
    /\ oa.pc \in {"requeue_move", "requeue_grant", "requeue_write", "requeue_mark"} =>
          ledger.status = "requeueing"
    /\ oa.pc \in {"bury_move", "bury_grant", "bury_write", "bury_mark"} /\ oa.from = "claimed" =>
          ledger.status = "dead_lettering"
    /\ ledger.status = "completed" => ledger.file # None

LifeInv == Inv /\ Unsent /\ Underway

Open == {"publishing", "published", "requeueing", "requeued", "dead_lettering"}

\* How the OA writes the ledger.
LEMMA MarkWrites ==
  ASSUME ledger \in Ledger, NEW status, Mark(status)
  PROVE  /\ ledger'.status = status /\ ledger'.attempt = ledger.attempt
         /\ ledger'.result = ledger.result /\ ledger'.file = ledger.file
  BY DEF Mark, Ledger

LEMMA MarkAttemptWrites ==
  ASSUME ledger \in Ledger, NEW status, NEW n, MarkAttempt(status, n)
  PROVE  /\ ledger'.status = status /\ ledger'.attempt = n
         /\ ledger'.result = ledger.result /\ ledger'.file = ledger.file
  BY DEF MarkAttempt, Ledger

LEMMA FileWrites ==
  ASSUME ledger \in Ledger, NEW where, ledger' = [ledger EXCEPT !.file = where]
  PROVE  /\ UNCHANGED <<ledger.status, ledger.attempt, ledger.result>>
         /\ ledger'.file = where
  BY DEF Ledger

\* Steps of the bus a reader of the ledger does not see.
LEMMA Unseen ==
  ASSUME UNCHANGED <<ledger.attempt, ledger.result>>, (dead' = None) <=> (dead = None),
         \/ ledger'.status = ledger.status
         \/ ledger.status \in Open /\ ledger'.status \in Open
  PROVE  [Life!Next]_Life!life
  BY DEF Life!life, LedgerPhase, Open

-----------------------------------------------------------------------------
(* The initial state, and the task that is not sent *)

LEMMA LifeInitHolds == Init => LifeInv /\ Life!Init
<1>1. Init => Unsent /\ Underway /\ Life!Init
  BY DEF Init, NoLedger, OaIdle, Unsent, Underway, Life!Init, LedgerPhase
<1> QED
  BY <1>1, InitHolds DEF LifeInv

\* Nothing but send changes anything while the task is not sent.
LEMMA UnsentOa ==
  ASSUME Unsent, ledger.status = "none", OaStep, ~SendRecord
  PROVE  UNCHANGED <<taskFiles, lease, resultFiles, ledger>> /\ oa'.pc = "idle"
<1>1. oa.pc = "idle" /\ dead = None /\ Pending = FALSE /\ lease = None /\ outgoing = None
      /\ archivedResult = None
  BY DEF Unsent, Pending
<1>2. ASSUME NEW label \in {"idle", "incoming"}, Proceed(label),
             UNCHANGED <<taskFiles, lease, resultFiles, ledger>>
      PROVE  oa'.pc = "idle"
  BY <1>1, <1>2 DEF Proceed, OaIdle, IncomingPass, LeasePass, OrphanPass, DeadPass, Pending
<1>3. CASE RecoverBegin
  BY <1>1, <1>2, <1>3 DEF RecoverBegin
<1>4. CASE CollectBegin
  BY <1>1, <1>2, <1>4 DEF CollectBegin, Inspect, Inspected, NextPass
<1>5. ~Sweep /\ ~Requeue /\ ~Bury /\ ~Revive /\ ~OaCrash
  BY <1>1 DEF Sweep, IncomingSweep, LeaseSweep, LeaseResult, LeaseUnlink, OrphanSweep,
     DeadReconcile, Requeue, RecoverOne, ClaimedUnlink, RequeueMove, RequeueDropGrant,
     RequeueWrite, RequeueMark, Bury, BuryMove, BuryDropGrant, BuryWrite, BuryMark,
     Revive, DeadRequeue, DeadWrite, DeadMove, OaCrash
<1> QED
  BY <1>1, <1>3, <1>4, <1>5 DEF OaStep, Send, PublishTask, MarkPublished, Outbox, OutboxResult,
     RequeuePending, RequeueResult, Collect, CollectArchivePass, CollectList, CollectOutgoing,
     CollectArchived, CollectQuarantine, CollectArchive, CollectFile

LEMMA UnsentOthers ==
  ASSUME Unsent, ledger.status = "none", TypeOK, (\E s \in Session : SessionStep(s)) \/ Time
  PROVE  /\ UNCHANGED <<taskFiles, lease, resultFiles, ledger, oa>>
         /\ \A s \in Session : pc'[s] \in {"idle", "watching"}
<1>1. /\ incoming = None /\ claimed = None /\ lease = None /\ outgoing = None
      /\ pc \in [Session -> {"idle", "watching"}]
  BY DEF Unsent, TypeOK
<1>2. ASSUME NEW s \in Session, SessionStep(s) PROVE StartInvocation(s) \/ SessionCrash(s)
  BY <1>1, <1>2 DEF SessionStep, Watch, ResumeClaim, Resumable, ClaimLoad, ClaimMove, ClaimLost,
     Stamp, WriteLease, Deliver, DeliverSuperseded, Execute, BeginCheck, BeginGrant,
     BeginRecovered, BeginCrash, BeginFenced, ExecuteUnfenced, CompleteCheck, CompleteFenced,
     Submit, SubmitPublish, SubmitDropGrant, SubmitDropLease, SubmitArchive, CompleteCrash, Step
<1>3. CASE Time
  BY <1>1, <1>3 DEF Time, LeaseExpires, IncomingAges, ClaimedAges
<1>4. ASSUME NEW s \in Session, StartInvocation(s) \/ SessionCrash(s)
      PROVE  /\ UNCHANGED <<taskFiles, lease, resultFiles, ledger, oa>>
             /\ \A t \in Session : pc'[t] \in {"idle", "watching"}
  BY <1>1, <1>4 DEF StartInvocation, Step, SessionCrash, Forget
<1> QED
  BY <1>2, <1>3, <1>4

\* Once sent, always sent.
LEMMA StaysSent == ASSUME TypeOK, OaInv, OaStep, ledger.status # "none" PROVE ledger'.status # "none"
<1>0. ledger \in Ledger
  BY DEF TypeOK
<1>1. \/ UNCHANGED ledger
      \/ \E status \in Status \ {"none"} : Mark(status)
      \/ \E status \in Status \ {"none"}, n \in {1, claimed.attempt, RecoveryAttempt, oa.task.attempt,
                                                Larger(dead.attempt, ledger.attempt) + 1} :
             MarkAttempt(status, n)
      \/ \E where : Complete(where)
      \/ \E where : ledger' = [ledger EXCEPT !.file = where]
  <2>1. CASE Send
    BY <2>1 DEF Send, SendRecord, PublishTask, MarkPublished, Status
  <2>2. CASE Outbox
    BY <2>2 DEF Outbox, RecoverBegin, OutboxResult, RequeuePending, RequeueResult, Status
  <2>3. CASE Sweep
    BY <2>3 DEF Sweep, IncomingSweep, LeaseSweep, LeaseResult, LeaseUnlink, OrphanSweep,
       DeadReconcile, Status
  <2>4. CASE Requeue
    BY <2>4 DEF Requeue, RecoverOne, ClaimedUnlink, RequeueMove, RequeueDropGrant,
       RequeueWrite, RequeueMark, Status
  <2>5. CASE Bury
    BY <2>5 DEF Bury, BuryMove, BuryDropGrant, BuryWrite, BuryMark, Status
  <2>6. CASE Revive
    BY <2>6 DEF Revive, DeadRequeue, DeadWrite, DeadMove, Status
  <2>7. CASE Collect
    BY <2>7 DEF Collect, CollectBegin, CollectArchivePass, CollectList, CollectOutgoing,
       CollectArchived, CollectQuarantine, CollectArchive, CollectFile
  <2>8. CASE OaCrash
    BY <2>8 DEF OaCrash
  <2> QED
    BY <2>1, <2>2, <2>3, <2>4, <2>5, <2>6, <2>7, <2>8 DEF OaStep
<1> QED
  BY <1>0, <1>1, MarkWrites, MarkAttemptWrites, CompleteEffect, FileWrites

LEMMA UnsentHolds == LifeInv /\ [Next]_vars => Unsent'
<1> SUFFICES ASSUME LifeInv, [Next]_vars, ledger'.status = "none" PROVE Unsent'
  BY DEF Unsent
<1>0. TypeOK /\ OaInv /\ Unsent
  BY DEF LifeInv, Inv
<1>1. CASE OaStep
  <2>1. ledger.status = "none"
    BY <1>0, <1>1, StaysSent
  <2>2. ~SendRecord
    BY <1>0, MarkAttemptWrites DEF SendRecord, TypeOK
  <2>3. UNCHANGED pc
    BY <1>1, OaLeaves
  <2> QED
    BY <1>0, <1>1, <2>1, <2>2, <2>3, UnsentOa DEF Unsent
<1>2. CASE (\E s \in Session : SessionStep(s)) \/ Time
  BY <1>0, <1>2, OthersLeave, UnsentOthers DEF Unsent
<1>3. CASE UNCHANGED vars
  BY <1>0, <1>3 DEF vars, Unsent
<1> QED
  BY <1>1, <1>2, <1>3 DEF Next

-----------------------------------------------------------------------------
(* The steps of the OA *)

LEMMA SendLives == ASSUME LifeInv, Send PROVE Underway' /\ [Life!Next]_Life!life
<1>0. oa \in Oa /\ ledger \in Ledger /\ Underway
  BY DEF LifeInv, Inv, TypeOK
<1>1. CASE SendRecord
  <2>1. /\ ledger.status = "none" /\ ledger'.status = "publishing" /\ ledger'.attempt = 1
        /\ ledger'.result = ledger.result /\ dead' = dead /\ oa'.pc = "send_publish"
    BY <1>0, <1>1, MarkAttemptWrites, GotoEffect DEF SendRecord
  <2>2. Life!Publish
    BY <2>1 DEF Life!Publish, LedgerPhase
  <2> QED
    BY <2>1, <2>2 DEF Underway, Life!Next
<1>2. CASE PublishTask
  <2>1. UNCHANGED <<ledger, dead>> /\ oa'.pc \in {"send_mark", "outbox_mark"}
    BY <1>0, <1>2, GotoEffect DEF PublishTask
  <2> QED
    BY <1>0, <1>2, <2>1, Unseen DEF Underway, PublishTask
<1>3. CASE MarkPublished
  <2>1. /\ ledger.status \in {"publishing", "published"} /\ ledger'.status = "published"
        /\ UNCHANGED <<ledger.attempt, ledger.result, dead>>
    BY <1>0, <1>3, MarkWrites DEF MarkPublished, Underway
  <2>2. oa'.pc \in Free
    BY <1>3, ProceedEffect DEF MarkPublished, Free
  <2> QED
    BY <2>1, <2>2, Unseen DEF Underway, Open, Free
<1> QED
  BY <1>1, <1>2, <1>3 DEF Send

\* Control points of which Underway says nothing.
Quiet == {"idle", "incoming", "leases", "lease_unlink", "orphans", "dead", "collect_archive_pass",
          "lease_result", "recover_one", "claimed_unlink", "requeue_pending", "requeue_result",
          "dead_write", "dead_move", "collect_list", "collect_judge", "collect_quarantine",
          "collect_archive", "collect_file"}

LEMMA ProceedQuiet ==
  ASSUME NEW label \in {"idle", "incoming", "leases", "lease_unlink", "orphans", "dead", "collect_archive_pass"},
         Proceed(label)
  PROVE  oa'.pc \in Quiet
  BY DEF Proceed, Quiet, OaIdle, IncomingPass, LeasePass, OrphanPass, DeadPass

LEMMA QuietHolds ==
  ASSUME Underway, oa'.pc \in Quiet, UNCHANGED ledger \/ ledger'.status # "completed"
  PROVE  Underway'
  BY DEF Underway, Quiet

\* The dead letter of a task stays one, or becomes one.
LEMMA Letter ==
  ASSUME TypeOK, dead' \in TaskFile, UNCHANGED ledger PROVE [Life!Next]_Life!life
<1>1. dead' # None
  BY NoneOK
<1>2. UNCHANGED <<LedgerPhase, ledger.attempt, ledger.result>>
  BY DEF LedgerPhase
<1> QED
  BY <1>1, <1>2 DEF Life!Next, Life!WriteLetter

LEMMA OutboxLives == ASSUME LifeInv, Outbox PROVE Underway' /\ [Life!Next]_Life!life
<1>0. oa \in Oa /\ ledger \in Ledger /\ Underway /\ TypeOK /\ DeadHeld
  BY DEF LifeInv, Inv, TypeOK, OaInv
<1>1. CASE RecoverBegin
  <2>1. CASE Mark("published") /\ Proceed("incoming") /\ ledger.status \in {"publishing", "published"}
    BY <1>0, <1>1, <2>1, MarkWrites, ProceedQuiet, QuietHolds, Unseen DEF RecoverBegin, Open
  <2>2. CASE UNCHANGED ledger /\ Proceed("outbox_result") /\ ledger.status \in {"publishing", "published"}
    <3>1. oa'.pc = "outbox_result"
      BY <2>2 DEF Proceed, OaIdle
    <3> QED
      BY <1>0, <1>1, <2>2, <3>1, Unseen DEF RecoverBegin, Underway
  <2>3. CASE UNCHANGED ledger /\ (Proceed("incoming") \/ Proceed("requeue_pending"))
    <3>1. oa'.pc \in Quiet
      BY <2>3, ProceedQuiet DEF Proceed, OaIdle, Quiet
    <3> QED
      BY <1>0, <1>1, <2>3, <3>1, QuietHolds, Unseen DEF RecoverBegin
  <2> QED
    BY <1>1, <2>1, <2>2, <2>3 DEF RecoverBegin
<1>2. CASE OutboxResult
  <2>0. dead' = dead /\ ledger.status \in {"publishing", "published"}
    BY <1>0, <1>2 DEF OutboxResult, Underway
  <2>1. CASE UNCHANGED ledger /\ (Proceed("incoming") \/ Goto("outbox_publish"))
    <3>1. oa'.pc \in Quiet \cup {"outbox_publish"}
      BY <1>0, <2>1, ProceedQuiet, GotoEffect
    <3> QED
      BY <1>0, <2>0, <2>1, <3>1, Unseen DEF Underway, Quiet
  <2>2. CASE Mark("failed") /\ Proceed("incoming")
    <3>1. Life!GiveUp
      BY <1>0, <2>0, <2>2, MarkWrites DEF Life!GiveUp, LedgerPhase
    <3> QED
      BY <1>0, <2>2, <3>1, MarkWrites, ProceedQuiet, QuietHolds DEF Life!Next
  <2> QED
    BY <1>2, <2>1, <2>2 DEF OutboxResult
<1>3. CASE RequeuePending
  <2>0. dead' = dead /\ ledger.status = "requeueing"
    BY <1>0, <1>3 DEF RequeuePending, DeadHeld
  <2>1. CASE UNCHANGED ledger
    <3>1. oa'.pc \in {"requeue_write", "dead_write", "requeue_result"} \/ Proceed("incoming")
      BY <1>0, <1>3, <2>1, GotoEffect DEF RequeuePending, Oa
    <3>2. oa'.pc \in Quiet \cup {"requeue_write"}
      BY <3>1, ProceedQuiet DEF Quiet
    <3> QED
      BY <1>0, <2>0, <2>1, <3>2, Unseen DEF Underway, Quiet
  <2>2. CASE Mark("requeued") /\ Proceed("incoming")
    BY <1>0, <2>0, <2>2, MarkWrites, ProceedQuiet, QuietHolds, Unseen DEF Open
  <2>3. CASE MarkAttempt("requeued", claimed.attempt) /\ Proceed("incoming") /\ claimed # None
    <3>1. claimed.attempt \in Nat
      BY <1>0, <2>3 DEF TypeOK, TaskFile
    <3>2. Life!Retry
      BY <1>0, <2>0, <2>3, <3>1, MarkAttemptWrites DEF Life!Retry, Life!Settled, LedgerPhase
    <3> QED
      BY <1>0, <2>3, <3>2, MarkAttemptWrites, ProceedQuiet, QuietHolds DEF Life!Next
  <2> QED
    BY <1>3, <2>1, <2>2, <2>3 DEF RequeuePending
<1>4. CASE RequeueResult
  <2>0. dead' = dead /\ ledger.status = "requeueing" /\ oa'.pc \in Quiet
    BY <1>0, <1>4, ProceedQuiet DEF RequeueResult, DeadHeld
  <2>1. CASE UNCHANGED ledger
    BY <1>0, <2>0, <2>1, QuietHolds, Unseen
  <2>2. CASE Mark("failed")
    <3>1. Life!GiveUp
      BY <1>0, <2>0, <2>2, MarkWrites DEF Life!GiveUp, LedgerPhase
    <3> QED
      BY <1>0, <2>0, <2>2, <3>1, MarkWrites, QuietHolds DEF Life!Next
  <2> QED
    BY <1>4, <2>1, <2>2 DEF RequeueResult
<1> QED
  BY <1>1, <1>2, <1>3, <1>4 DEF Outbox

LEMMA SweepLives == ASSUME LifeInv, Sweep PROVE Underway' /\ [Life!Next]_Life!life
<1>0. oa \in Oa /\ ledger \in Ledger /\ Underway /\ TypeOK /\ Unsent
  BY DEF LifeInv, Inv, TypeOK
<1>1. CASE IncomingSweep
  <2>1. UNCHANGED <<ledger, dead>>
    BY <1>1 DEF IncomingSweep
  <2>2. oa'.pc \in Quiet \/ (oa'.pc = "bury_move" /\ oa'.from = "incoming")
    BY <1>0, <1>1, ProceedQuiet DEF IncomingSweep, Oa
  <2> QED
    BY <1>0, <2>1, <2>2, Unseen DEF Underway, Quiet
<1>2. CASE LeaseSweep \/ LeaseResult \/ LeaseUnlink \/ OrphanSweep
  <2>1. UNCHANGED <<ledger, dead>>
    BY <1>2 DEF LeaseSweep, LeaseResult, LeaseUnlink, OrphanSweep
  <2>2. CASE LeaseSweep
    <3>1. oa'.pc \in {"lease_result"} \cup Quiet
      BY <2>2, ProceedQuiet DEF LeaseSweep, Proceed, OaIdle
    <3> QED
      BY <1>0, <2>1, <3>1, QuietHolds, Unseen DEF Quiet
  <2>3. CASE LeaseUnlink
    BY <1>0, <2>1, <2>3, ProceedQuiet, QuietHolds, Unseen DEF LeaseUnlink
  <2>4. CASE LeaseResult \/ OrphanSweep
    <3>1. oa'.pc \in {"recover_one", "lease_unlink", "dead"}
      BY <1>0, <2>4 DEF LeaseResult, OrphanSweep, Oa
    <3> QED
      BY <1>0, <2>1, <3>1, QuietHolds, Unseen DEF Quiet
  <2> QED
    BY <1>2, <2>2, <2>3, <2>4
<1>3. CASE DeadReconcile
  <2>1. dead' = dead /\ oa'.pc \in Quiet
    BY <1>3, ProceedQuiet DEF DeadReconcile
  <2>2. CASE UNCHANGED ledger
    BY <1>0, <2>1, <2>2, QuietHolds, Unseen
  <2>3. CASE dead # None /\ ledger.status \notin {"dead", "completed", "failed"} /\ Mark("dead")
    <3>1. ledger.status # "none" /\ ledger.attempt \in Nat
      BY <1>0, <2>3 DEF Unsent, Ledger
    <3>2. Life!Bury
      BY <1>0, <2>1, <2>3, <3>1, MarkWrites DEF Life!Bury, Life!Settled, LedgerPhase
    <3> QED
      BY <1>0, <2>1, <2>3, <3>2, MarkWrites, QuietHolds DEF Life!Next
  <2> QED
    BY <1>3, <2>2, <2>3 DEF DeadReconcile
<1> QED
  BY <1>1, <1>2, <1>3 DEF Sweep

\* A recovery attempt is a later one, unless it repeats a requeueing.
LEMMA RecoveryIsLater ==
  ASSUME TypeOK, ledger.status # "requeueing" PROVE RecoveryAttempt > ledger.attempt
  BY DEF TypeOK, Oa, TaskFile, Ledger, RecoveryAttempt, Larger

LEMMA RequeueLives == ASSUME LifeInv, Requeue PROVE Underway' /\ [Life!Next]_Life!life
<1>0. /\ oa \in Oa /\ ledger \in Ledger /\ Underway /\ TypeOK /\ Unsent
      /\ oa.ret \in {"idle", "incoming", "leases", "lease_unlink", "dead"}
      /\ RecoveryAttempt \in Nat
  BY RecoveryAttemptType DEF LifeInv, Inv, TypeOK, OaInv, Returns
<1>1. CASE RecoverOne
  <2>0. dead' = dead /\ ledger.status # "none"
    BY <1>0, <1>1 DEF RecoverOne, Unsent
  <2>1. CASE UNCHANGED ledger /\ Goto("claimed_unlink")
    BY <1>0, <2>0, <2>1, GotoEffect, QuietHolds, Unseen DEF Quiet
  <2>2. CASE \E status \in {"dead_lettering", "requeueing"} : MarkAttempt(status, RecoveryAttempt)
    <3>1. /\ ledger'.status \in {"dead_lettering", "requeueing"} /\ ledger'.attempt = RecoveryAttempt
          /\ ledger'.result = ledger.result
      BY <1>0, <2>2, MarkAttemptWrites
    <3>2. \/ oa'.pc = "bury_move" /\ ledger'.status = "dead_lettering"
          \/ oa'.pc = "requeue_move" /\ ledger'.status = "requeueing"
          \/ oa'.pc = "claimed_unlink"
      BY <1>0, <1>1, MarkAttemptWrites DEF RecoverOne, Goto, Oa
    <3>3. Life!Retry
      BY <1>0, <2>0, <3>1, RecoveryIsLater DEF Life!Retry, Life!Settled, LedgerPhase
    <3> QED
      BY <3>1, <3>2, <3>3 DEF Underway, Life!Next
  <2> QED
    BY <1>1, <2>1, <2>2 DEF RecoverOne
<1>2. CASE ClaimedUnlink
  BY <1>0, <1>2, ProceedQuiet, QuietHolds, Unseen DEF ClaimedUnlink
<1>3. CASE RequeueMove \/ RequeueDropGrant \/ RequeueWrite
  <2>1. UNCHANGED <<ledger, dead>> /\ ledger.status = "requeueing"
    BY <1>0, <1>3 DEF RequeueMove, RequeueDropGrant, RequeueWrite, Underway
  <2>2. oa'.pc \in Quiet \cup {"requeue_grant", "requeue_write", "requeue_mark"}
    BY <1>0, <1>3, GotoEffect, ProceedQuiet DEF RequeueMove, RequeueDropGrant, RequeueWrite
  <2> QED
    BY <1>0, <2>1, <2>2, Unseen DEF Underway, Quiet
<1>4. CASE RequeueMark
  <2>1. /\ ledger.status = "requeueing" /\ ledger'.status = "requeued" /\ dead' = dead
        /\ ledger'.attempt = oa.task.attempt /\ ledger'.result = ledger.result
        /\ oa'.pc \in Quiet /\ oa.task.attempt \in Nat
    BY <1>0, <1>4, MarkAttemptWrites, ProceedQuiet DEF RequeueMark, Underway, Oa, TaskFile
  <2>2. Life!Retry
    BY <2>1 DEF Life!Retry, Life!Settled, LedgerPhase
  <2> QED
    BY <1>0, <2>1, <2>2, QuietHolds DEF Life!Next
<1> QED
  BY <1>1, <1>2, <1>3, <1>4 DEF Requeue

LEMMA BuryLives == ASSUME LifeInv, Bury PROVE Underway' /\ [Life!Next]_Life!life
<1>0. /\ oa \in Oa /\ ledger \in Ledger /\ Underway /\ TypeOK /\ Unsent /\ DeadHeld
      /\ oa.ret \in {"idle", "incoming", "leases", "lease_unlink", "dead"}
  BY DEF LifeInv, Inv, TypeOK, OaInv, Returns
<1>1. CASE BuryMove
  <2>1. CASE dead' = Young(incoming) /\ incoming # None /\ Goto("bury_grant")
    <3>1. dead' \in TaskFile /\ UNCHANGED ledger
      BY <1>0, <1>1, <2>1, YoungType DEF BuryMove, TypeOK
    <3>2. oa'.pc = "bury_grant" /\ oa'.from = oa.from
      BY <1>0, <2>1 DEF Goto, Oa
    <3> QED
      BY <1>0, <1>1, <3>1, <3>2, Letter DEF Underway, BuryMove
  <2>2. CASE dead' = Young(claimed) /\ claimed # None /\ Goto("bury_grant")
    <3>1. dead' \in TaskFile /\ UNCHANGED ledger
      BY <1>0, <1>1, <2>2, YoungType DEF BuryMove, TypeOK
    <3>2. oa'.pc = "bury_grant" /\ oa'.from = oa.from
      BY <1>0, <2>2 DEF Goto, Oa
    <3> QED
      BY <1>0, <1>1, <3>1, <3>2, Letter DEF Underway, BuryMove
  <2>3. CASE dead' = dead /\ Proceed(oa.ret)
    BY <1>0, <1>1, <2>3, ProceedQuiet, QuietHolds, Unseen DEF BuryMove
  <2> QED
    BY <1>1, <2>1, <2>2, <2>3 DEF BuryMove
<1>2. CASE BuryDropGrant
  <2>1. oa'.pc = "bury_write" /\ oa'.from = oa.from /\ UNCHANGED <<ledger, dead>>
    BY <1>0, <1>2 DEF BuryDropGrant, Goto, Oa
  <2> QED
    BY <1>0, <1>2, <2>1, Unseen DEF Underway, BuryDropGrant
<1>3. CASE BuryWrite
  <2>1. oa'.pc = "bury_mark" /\ oa'.from = oa.from /\ UNCHANGED ledger /\ dead' \in TaskFile
    BY <1>0, <1>3 DEF BuryWrite, Goto, Oa
  <2> QED
    BY <1>0, <1>3, <2>1, Letter DEF Underway, BuryWrite
<1>4. CASE BuryMark
  <2>0. dead' = dead /\ dead # None /\ ledger.status # "none" /\ oa'.pc \in Quiet
    BY <1>0, <1>4, ProceedQuiet DEF BuryMark, DeadHeld, Unsent
  <2>1. /\ ledger'.status = "dead" /\ ledger'.result = ledger.result /\ ledger'.attempt \in Nat
        /\ ledger'.attempt = ledger.attempt \/ ledger.status = "dead_lettering"
    BY <1>0, <1>4, MarkWrites, MarkAttemptWrites DEF BuryMark, Underway, Oa, TaskFile, Ledger
  <2>2. Life!Bury
    BY <2>0, <2>1 DEF Life!Bury, Life!Settled, LedgerPhase
  <2> QED
    BY <1>0, <2>0, <2>1, <2>2, QuietHolds DEF Life!Next
<1> QED
  BY <1>1, <1>2, <1>3, <1>4 DEF Bury

LEMMA ReviveLives == ASSUME LifeInv, Revive PROVE Underway' /\ [Life!Next]_Life!life
<1>0. oa \in Oa /\ ledger \in Ledger /\ Underway /\ TypeOK /\ Unsent /\ DeadHeld
  BY DEF LifeInv, Inv, TypeOK, OaInv
<1>1. CASE DeadRequeue
  <2> DEFINE n == Larger(dead.attempt, ledger.attempt) + 1
  <2>1. dead' = dead /\ dead \in TaskFile /\ ledger.status # "none" /\ oa'.pc = "dead_write"
    BY <1>0, <1>1 DEF DeadRequeue, Unsent, TypeOK, OaIdle
  <2>2. n \in Nat /\ n > ledger.attempt
    BY <1>0, <2>1 DEF TaskFile, Ledger, Larger
  <2>3. MarkAttempt("requeueing", n)
    BY <1>1 DEF DeadRequeue
  <2> HIDE DEF n
  <2>4. ledger'.status = "requeueing" /\ ledger'.attempt = n /\ ledger'.result = ledger.result
    BY <1>0, <2>3, MarkAttemptWrites
  <2>5. Life!Retry
    BY <2>1, <2>2, <2>4 DEF Life!Retry, LedgerPhase
  <2> QED
    BY <1>0, <2>1, <2>4, <2>5, QuietHolds DEF Life!Next, Quiet
<1>2. CASE DeadWrite
  <2>1. dead' \in TaskFile /\ UNCHANGED ledger /\ oa'.pc = "dead_move"
    BY <1>0, <1>2, GotoEffect DEF DeadWrite, DeadHeld, TypeOK, TaskFile, Ledger
  <2> QED
    BY <1>0, <2>1, Letter, QuietHolds DEF Quiet
<1>3. CASE DeadMove
  <2>1. dead' = None /\ UNCHANGED ledger /\ ledger.status = "requeueing" /\ oa'.pc = "requeue_mark"
    BY <1>0, <1>3 DEF DeadMove, DeadHeld, Oa
  <2>2. Life!TakeLetter
    BY <2>1 DEF Life!TakeLetter, LedgerPhase
  <2> QED
    BY <1>0, <2>1, <2>2 DEF Underway, Life!Next
<1> QED
  BY <1>1, <1>2, <1>3 DEF Revive

LEMMA NextPassQuiet == ASSUME NEW where, NextPass(where) PROVE oa'.pc \in Quiet
  BY ProceedQuiet DEF NextPass

LEMMA InspectQuiet == ASSUME NEW where, Inspect(where) PROVE oa'.pc \in Quiet
<1>1. CASE NextPass(where)
  BY <1>1, NextPassQuiet
<1>2. CASE ~NextPass(where)
  BY <1>2 DEF Inspect, OaIdle, Quiet
<1> QED
  BY <1>1, <1>2

\* Reporting a result: collect_judge has checked its attempt against the ledger's.
LEMMA Reports ==
  ASSUME LifeInv, oa.pc = "collect_judge", dead' = dead, ledger.status # "completed",
         NEW where \in {"outgoing", "archive"}, Complete(where), oa'.pc \in Quiet
  PROVE  Underway' /\ [Life!Next]_Life!life
<1>1. /\ ledger \in Ledger /\ Underway /\ ledger.status # "none"
      /\ oa.res # None /\ oa.res.attempt = ledger.attempt
  BY DEF LifeInv, Inv, TypeOK, OaInv, AttemptHeld, Unsent
<1>2. /\ ledger'.status = "completed" /\ ledger'.result = oa.res
      /\ ledger'.attempt = ledger.attempt /\ ledger'.file = where
  BY <1>1 DEF Complete, Ledger
<1>3. Life!Report
  BY <1>1, <1>2 DEF Life!Report, LedgerPhase
<1>4. Underway'
  BY <1>1, <1>2, NoneOK DEF Underway, Quiet
<1> QED
  BY <1>3, <1>4 DEF Life!Next

\* The ledger is told where the reported result is now.
LEMMA Files ==
  ASSUME LifeInv, dead' = dead, ledger' = [ledger EXCEPT !.file = "archive"], oa'.pc \in Quiet
  PROVE  Underway' /\ [Life!Next]_Life!life
<1>1. ledger \in Ledger /\ Underway
  BY DEF LifeInv, Inv, TypeOK
<1>2. UNCHANGED <<ledger.status, ledger.attempt, ledger.result>> /\ ledger'.file = "archive"
  BY <1>1, FileWrites
<1> QED
  BY <1>1, <1>2, NoneOK, Unseen DEF Underway, Quiet

LEMMA CollectLives == ASSUME LifeInv, Collect PROVE Underway' /\ [Life!Next]_Life!life
<1>0. oa \in Oa /\ ledger \in Ledger /\ Underway
  BY DEF LifeInv, Inv, TypeOK
<1>1. ASSUME UNCHANGED <<ledger, dead>>, oa'.pc \in Quiet
      PROVE  Underway' /\ [Life!Next]_Life!life
  BY <1>0, <1>1, QuietHolds, Unseen
<1>2. CASE CollectBegin \/ CollectArchivePass
  BY <1>1, <1>2, InspectQuiet DEF CollectBegin, CollectArchivePass
<1>3. CASE CollectList \/ CollectArchive
  <2>1. oa'.pc \in {"collect_judge", "collect_file"} /\ UNCHANGED <<ledger, dead>>
    BY <1>0, <1>3, GotoEffect DEF CollectList, CollectArchive, Oa
  <2> QED
    BY <1>1, <2>1 DEF Quiet
<1>4. CASE CollectOutgoing
  <2>1. oa'.pc \in Quiet /\ dead' = dead /\ oa.pc = "collect_judge"
    <3>1. \/ Goto("collect_quarantine") \/ Goto("collect_archive") \/ NextPass(oa.where)
      BY <1>4 DEF CollectOutgoing
    <3>2. oa'.pc \in Quiet
      BY <1>0, <3>1, GotoEffect, NextPassQuiet DEF Quiet
    <3> QED
      BY <1>4, <3>2 DEF CollectOutgoing
  <2>2. CASE UNCHANGED ledger
    BY <1>1, <2>1, <2>2
  <2>3. CASE ~AlreadyCompleted /\ Complete("outgoing")
    <3>1. ledger.status # "completed"
      BY <1>0, <2>3 DEF AlreadyCompleted, Underway
    <3> QED
      BY <2>1, <2>3, <3>1, Reports
  <2> QED
    BY <1>4, <2>2, <2>3 DEF CollectOutgoing
<1>5. CASE CollectArchived
  <2>1. oa'.pc \in Quiet /\ dead' = dead /\ oa.pc = "collect_judge"
    <3>1. Goto("collect_quarantine") \/ NextPass(oa.where)
      BY <1>5 DEF CollectArchived
    <3>2. oa'.pc \in Quiet
      BY <1>0, <3>1, GotoEffect, NextPassQuiet DEF Quiet
    <3> QED
      BY <1>5, <3>2 DEF CollectArchived
  <2>2. CASE UNCHANGED ledger
    BY <1>1, <2>1, <2>2
  <2>3. CASE ledger' = [ledger EXCEPT !.file = "archive"]
    BY <2>1, <2>3, Files
  <2>4. CASE ledger.status # "completed" /\ Complete("archive")
    BY <2>1, <2>4, Reports
  <2> QED
    BY <1>5, <2>2, <2>3, <2>4 DEF CollectArchived
<1>6. CASE CollectQuarantine
  BY <1>1, <1>6, NextPassQuiet DEF CollectQuarantine
<1>7. CASE CollectFile
  BY <1>7, NextPassQuiet, Files DEF CollectFile
<1> QED
  BY <1>2, <1>3, <1>4, <1>5, <1>6, <1>7 DEF Collect

-----------------------------------------------------------------------------
(* The theorem *)

LEMMA LifeNextHolds == LifeInv /\ [Next]_vars => LifeInv' /\ [Life!Next]_Life!life
<1> SUFFICES ASSUME LifeInv, [Next]_vars PROVE LifeInv' /\ [Life!Next]_Life!life
  OBVIOUS
<1>0. Inv' /\ Unsent'
  BY NextHolds, UnsentHolds DEF LifeInv
<1>1. CASE OaStep
  <2>1. CASE OaCrash
    <3>1. oa'.pc = "idle" /\ UNCHANGED <<ledger, dead>>
      BY <2>1 DEF OaCrash, OaIdle
    <3> QED
      BY <1>0, <3>1, QuietHolds, Unseen DEF LifeInv, Quiet
  <2> QED
    BY <1>0, <1>1, <2>1, SendLives, OutboxLives, SweepLives, RequeueLives, BuryLives,
       ReviveLives, CollectLives DEF OaStep, LifeInv
<1>2. CASE UNCHANGED <<ledger, dead, oa>>
  BY <1>0, <1>2, Unseen DEF LifeInv, Underway
<1> QED
  BY <1>1, <1>2, OthersLeave DEF Next, vars

\* Refinement: read through its ledger entry and its dead letter, every behaviour of
\* the bus is a life TaskLife allows, whoever crashes, is superseded or comes late.
THEOREM BusImplementsLife == Spec => ImplementsLife
<1>1. Spec => []LifeInv
  <2>1. Init => LifeInv
    BY LifeInitHolds
  <2>2. LifeInv /\ [Next]_vars => LifeInv'
    BY LifeNextHolds
  <2> QED
    BY <2>1, <2>2, PTL DEF Spec
<1>2. LifeInv /\ [Next]_vars => [Life!Next]_Life!life
  BY LifeNextHolds
<1>3. Init => Life!Init
  BY LifeInitHolds
<1> QED
  BY <1>1, <1>2, <1>3, PTL DEF Spec, ImplementsLife, Life!Spec

-----------------------------------------------------------------------------
(***************************************************************************)
(* The work itself: the task is never lost, its attempts are recorded      *)
(* before they are claimable, its retry budget is kept and a reported      *)
(* result stands.                                                          *)
(***************************************************************************)

-----------------------------------------------------------------------------
(* The inductive invariant *)

\* The ledger has recorded the attempt a command is about to put on the bus.
Recorded ==
    /\ ledger.status = "none" => ledger.result = None
    /\ ledger.status \in {"publishing", "published"} => ledger.attempt = 1
    /\ oa.pc \in {"requeue_move", "requeue_grant", "requeue_write", "requeue_mark"} =>
          oa.task.attempt = ledger.attempt
    /\ oa.pc \in {"bury_move", "bury_grant", "bury_write", "bury_mark"} /\ oa.from = "claimed" =>
          oa.task.attempt = ledger.attempt
    /\ oa.pc = "dead_move" => dead.attempt = ledger.attempt

\* The copies of the task are of ever later attempts on their way archive/tasks/,
\* claimed/, incoming/, ledger, and the recorded result is of none later than any
\* copy still to be executed.
Ordered ==
    ~fresh.torn =>
        /\ WriteAhead
        /\ archivedTask # None =>
               /\ archivedTask.attempt <= ledger.attempt
               /\ \A file \in {incoming, claimed} : file # None => archivedTask.attempt <= file.attempt
        /\ claimed # None /\ incoming # None => claimed.attempt <= incoming.attempt
        /\ ledger.result # None =>
               /\ ledger.result.attempt <= ledger.attempt
               /\ \A file \in {incoming, claimed} : file # None => ledger.result.attempt <= file.attempt

\* Until an operator revives the task, what is claimable, claimed or held by a
\* session is within the budget, and so is what recovery has recorded to requeue.
Budget == Larger(1, MaxRetries)
Affordable ==
    ~fresh.revived =>
        /\ ledger.status = "requeueing" => ledger.attempt <= Budget
        /\ \A file \in {incoming, claimed} : file # None => file.attempt <= Budget
        /\ \A s \in Session : mine[s].task.attempt <= Budget
        /\ RetryBudget

\* A copy of the task, or a result of it. What is there once stays somewhere.
Somewhere ==
    \/ \E file \in {incoming, claimed, dead, archivedTask} : file # None
    \/ submitted # {}
Kept ==
    /\ oa.pc \in {"send_mark", "outbox_mark", "recover_one"} => Somewhere
    /\ oa.pc = "claimed_unlink" => submitted # {}
    /\ outgoing # None => submitted # {}
    /\ Custody

WorkHeld == Recorded /\ Ordered /\ Affordable /\ Kept
WorkInv == LifeInv /\ WorkHeld

-----------------------------------------------------------------------------
(* Steps that move no copy of the task *)

\* The control points at which a command has recorded something it has not done yet.
Busy == {"send_mark", "outbox_mark", "recover_one", "claimed_unlink", "requeue_move",
         "requeue_grant", "requeue_write", "requeue_mark", "bury_move", "bury_grant",
         "bury_write", "bury_mark", "dead_move"}

LEMMA ProceedRests ==
  ASSUME NEW label, label \notin Busy, Proceed(label) PROVE oa'.pc \notin Busy
  BY DEF Proceed, Busy, OaIdle, IncomingPass, LeasePass, OrphanPass, DeadPass

LEMMA NextPassRests == ASSUME NEW where, NextPass(where) PROVE oa'.pc \notin Busy
  BY ProceedRests DEF NextPass, Busy

LEMMA InspectRests == ASSUME NEW where, Inspect(where) PROVE oa'.pc \notin Busy
<1>1. CASE Inspected(where) = None
  BY <1>1, NextPassRests DEF Inspect
<1>2. CASE Inspected(where) # None
  BY <1>2 DEF Inspect, OaIdle, Busy
<1> QED
  BY <1>1, <1>2

\* What every step of the OA but dead --requeue leaves alone.
LeavesWork == UNCHANGED <<mine, issued, submitted, fresh>>

LEMMA OaLeavesWork == OaStep /\ ~DeadRequeue => LeavesWork
  BY OaLeaves DEF OaStep, Send, SendRecord, PublishTask, MarkPublished, Outbox, RecoverBegin,
         OutboxResult, RequeuePending, RequeueResult, Sweep, IncomingSweep, LeaseSweep,
         LeaseResult, LeaseUnlink, OrphanSweep, DeadReconcile, Requeue, RecoverOne,
         ClaimedUnlink, RequeueMove, RequeueDropGrant, RequeueWrite, RequeueMark, Bury,
         BuryMove, BuryDropGrant, BuryWrite, BuryMark, Revive, DeadWrite,
         DeadMove, Collect, CollectBegin, CollectArchivePass, CollectList, CollectOutgoing,
         CollectArchived, CollectQuarantine, CollectArchive, CollectFile, OaCrash, LeavesWork

\* The parts of the invariant that do not look at the command in progress.
LEMMA FilesStay ==
  ASSUME WorkHeld, LeavesWork, UNCHANGED <<incoming, claimed, archivedTask>>,
         ledger'.attempt = ledger.attempt, ledger'.result = ledger.result
  PROVE  /\ Ordered'
         /\ (ledger'.status = "requeueing" => ledger.status = "requeueing") => Affordable'
<1>1. Ordered'
  BY DEF WorkHeld, LeavesWork, Ordered, WriteAhead
<1>2. (ledger'.status = "requeueing" => ledger.status = "requeueing") => Affordable'
  BY DEF WorkHeld, LeavesWork, Affordable, RetryBudget, Budget
<1> QED
  BY <1>1, <1>2

\* A command that comes to rest, with the status it leaves in the ledger.
LEMMA RestKeeps ==
  ASSUME WorkHeld, LeavesWork, UNCHANGED taskFiles, outgoing' \in {outgoing, None},
         oa'.pc \notin Busy,
         ledger'.attempt = ledger.attempt, ledger'.result = ledger.result,
         \/ ledger'.status = ledger.status
         \/ ledger'.status = "failed"
         \/ ledger'.status = "published" /\ ledger.status \in {"publishing", "published"} /\ Somewhere
         \/ ledger'.status \in {"requeued", "dead"} /\ Somewhere
  PROVE  WorkHeld'
<1>1. Recorded'
  BY DEF WorkHeld, Recorded, Busy
<1>2. Ordered' /\ Affordable'
  BY FilesStay
<1>3. Kept'
  BY DEF WorkHeld, LeavesWork, Kept, Custody, Somewhere, Busy
<1> QED
  BY <1>1, <1>2, <1>3 DEF WorkHeld

\* A later attempt in the ledger is later than every copy.
LEMMA LedgerGrows ==
  ASSUME TypeOK, Ordered, UNCHANGED <<incoming, claimed, archivedTask>>, ledger'.result = ledger.result,
         ledger'.attempt \in Nat, ledger'.attempt >= ledger.attempt, fresh'.torn = fresh.torn
  PROVE  Ordered'
<1>1. /\ ledger.attempt \in Nat
      /\ \A file \in {incoming, claimed, archivedTask} : file # None => file.attempt \in Nat
      /\ ledger.result # None => ledger.result.attempt \in Nat
  BY DEF TypeOK, TaskFile, Ledger, Result
<1> QED
  BY <1>1 DEF Ordered, WriteAhead

-----------------------------------------------------------------------------
(* The steps of the OA *)

\* What the lemmas of this part start from.
Facts == /\ TypeOK /\ oa \in Oa /\ ledger \in Ledger /\ Unsent /\ Underway /\ DeadHeld /\ AttemptHeld
         /\ WorkHeld
         /\ oa.ret \in {"idle", "incoming", "leases", "lease_unlink", "dead"}

LEMMA FactsHold == WorkInv => Facts
  BY DEF WorkInv, LifeInv, Inv, OaInv, Returns, TypeOK, Facts

LEMMA SendWorks == ASSUME Facts, LeavesWork, Send PROVE WorkHeld'
<1> USE DEF Facts
<1>1. CASE SendRecord
  <2>1. /\ ledger.status = "none" /\ ledger'.status = "publishing" /\ ledger'.attempt = 1
        /\ ledger'.result = ledger.result /\ oa'.pc = "send_publish"
        /\ UNCHANGED <<taskFiles, outgoing>>
    BY <1>1, MarkAttemptWrites, GotoEffect DEF SendRecord
  <2>2. incoming = None /\ claimed = None /\ archivedTask = None
    BY <2>1 DEF Unsent
  <2>3. ledger.result = None
    BY <2>1 DEF WorkHeld, Recorded
  <2> QED
    BY <2>1, <2>2, <2>3 DEF WorkHeld, LeavesWork, Recorded, Ordered, WriteAhead, Affordable, Budget,
       RetryBudget, Kept, Custody, Somewhere
<1>2. CASE PublishTask
  <2>0. FreshTask \in TaskFile
    BY DEF FreshTask, TaskFile
  <2>1. /\ incoming' = FreshTask /\ FreshTask # None /\ UNCHANGED <<claimed, dead, archivedTask, outgoing, ledger>>
        /\ oa'.pc \in {"send_mark", "outbox_mark"}
    BY <1>2, <2>0, NoneOK, GotoEffect DEF PublishTask
  <2>2. ledger.status \in {"publishing", "published"} /\ ledger.attempt = 1
    BY <1>2 DEF PublishTask, Underway, WorkHeld, Recorded
  <2>3. Recorded'
    BY <2>1, <2>2 DEF Recorded
  <2>4. Ordered'
    BY <2>1, <2>2 DEF WorkHeld, LeavesWork, Ordered, WriteAhead, FreshTask
  <2>5. Affordable'
    BY <2>1, <2>2, ConstantsOK DEF WorkHeld, LeavesWork, Affordable, RetryBudget, Budget, Larger, FreshTask
  <2>6. Kept'
    BY <2>1 DEF WorkHeld, LeavesWork, Kept, Custody, Somewhere
  <2> QED
    BY <2>3, <2>4, <2>5, <2>6 DEF WorkHeld
<1>3. CASE MarkPublished
  <2>1. oa'.pc \notin Busy
    BY <1>3, ProceedRests DEF MarkPublished, Busy
  <2>2. /\ ledger.status \in {"publishing", "published"} /\ ledger'.status = "published"
        /\ ledger'.attempt = ledger.attempt /\ ledger'.result = ledger.result
    BY <1>3, MarkWrites DEF MarkPublished, Underway
  <2>3. Somewhere
    BY <1>3 DEF MarkPublished, WorkHeld, Kept
  <2> QED
    BY <1>3, <2>1, <2>2, <2>3, RestKeeps DEF MarkPublished
<1> QED
  BY <1>1, <1>2, <1>3 DEF Send

LEMMA OutboxWorks == ASSUME Facts, LeavesWork, Outbox PROVE WorkHeld'
<1> USE DEF Facts
<1>1. CASE RecoverBegin
  <2>1. oa'.pc \notin Busy
    BY <1>1, ProceedRests DEF RecoverBegin, Busy
  <2>2. UNCHANGED ledger \/ (Mark("published") /\ ledger.status \in {"publishing", "published"} /\ Somewhere)
    BY <1>1 DEF RecoverBegin, Pending, Somewhere
  <2> QED
    BY <1>1, <2>1, <2>2, MarkWrites, RestKeeps DEF RecoverBegin
<1>2. CASE OutboxResult
  <2>1. oa'.pc \notin Busy
    BY <1>2, ProceedRests, GotoEffect DEF OutboxResult, Busy
  <2> QED
    BY <1>2, <2>1, MarkWrites, RestKeeps DEF OutboxResult
<1>3. CASE RequeuePending
  <2>0. ledger.status = "requeueing" /\ UNCHANGED <<taskFiles, outgoing>> /\ Somewhere
    BY <1>3 DEF RequeuePending, DeadHeld, WorkHeld, Kept, Custody, Somewhere
  <2>1. CASE /\ oa' = [oa EXCEPT !.pc = "requeue_write", !.ret = "incoming",
                                 !.task = [Young(incoming) EXCEPT !.attempt = ledger.attempt]]
             /\ incoming # None
             /\ UNCHANGED ledger
    <3>1. oa'.pc = "requeue_write" /\ oa'.task.attempt = ledger.attempt
      <4>1. Young(incoming) \in TaskFile
        BY <2>1, YoungType DEF TypeOK
      <4> QED
        BY <2>1, <4>1 DEF Oa, TaskFile
    <3>2. Recorded' /\ Kept'
      BY <2>0, <2>1, <3>1 DEF LeavesWork, WorkHeld, Recorded, Kept, Custody, Somewhere
    <3> QED
      BY <2>0, <2>1, <3>2, FilesStay DEF WorkHeld
  <2>2. CASE Mark("requeued") /\ Proceed("incoming")
    BY <2>0, <2>2, ProceedRests, MarkWrites, RestKeeps DEF Busy
  <2>3. CASE /\ incoming = None /\ claimed # None
             /\ MarkAttempt("requeued", claimed.attempt) /\ Proceed("incoming")
    <3>1. /\ ledger'.status = "requeued" /\ ledger'.attempt = claimed.attempt
          /\ ledger'.result = ledger.result /\ oa'.pc \notin Busy
      BY <2>3, MarkAttemptWrites, ProceedRests DEF Busy
    <3>2. claimed.attempt \in Nat
      BY <2>3 DEF TypeOK, TaskFile
    <3>3. Recorded' /\ Kept'
      BY <2>0, <3>1 DEF LeavesWork, WorkHeld, Recorded, Kept, Custody, Somewhere, Busy
    <3>4. Ordered'
      BY <2>0, <2>3, <3>1, <3>2 DEF LeavesWork, WorkHeld, Ordered, WriteAhead
    <3>5. Affordable'
      BY <2>0, <3>1 DEF LeavesWork, WorkHeld, Affordable, Budget, RetryBudget
    <3> QED
      BY <3>3, <3>4, <3>5 DEF WorkHeld
  <2>4. CASE UNCHANGED ledger /\ oa'.pc \notin Busy
    BY <2>0, <2>4, RestKeeps
  <2>5. CASE oa' = [oa EXCEPT !.pc = "dead_write", !.ret = "incoming"] /\ UNCHANGED ledger
    BY <2>4, <2>5 DEF Oa, Busy
  <2>6. CASE Goto("requeue_result") /\ UNCHANGED ledger
    BY <2>4, <2>6, GotoEffect DEF Busy
  <2> QED
    BY <1>3, <2>1, <2>2, <2>3, <2>5, <2>6 DEF RequeuePending
<1>4. CASE RequeueResult
  <2>1. oa'.pc \notin Busy
    BY <1>4, ProceedRests DEF RequeueResult, Busy
  <2> QED
    BY <1>4, <2>1, MarkWrites, RestKeeps DEF RequeueResult
<1> QED
  BY <1>1, <1>2, <1>3, <1>4 DEF Outbox

LEMMA SweepWorks == ASSUME Facts, LeavesWork, Sweep PROVE WorkHeld'
<1> USE DEF Facts
<1>0. ASSUME UNCHANGED <<taskFiles, outgoing, ledger>>, oa'.pc \in {"bury_move", "recover_one"},
             oa'.pc = "bury_move" => oa'.from = "incoming", Somewhere
      PROVE  WorkHeld'
  <2>1. Recorded' /\ Kept'
    BY <1>0 DEF LeavesWork, WorkHeld, Recorded, Kept, Custody, Somewhere
  <2> QED
    BY <1>0, <2>1, FilesStay DEF WorkHeld
<1>1. CASE IncomingSweep
  <2>1. CASE Proceed("leases")
    BY <1>1, <2>1, ProceedRests, RestKeeps DEF IncomingSweep, Busy
  <2>2. CASE /\ oa' = [oa EXCEPT !.pc = "bury_move", !.ret = "leases",
                                 !.from = "incoming", !.task = Young(incoming)]
             /\ incoming # None
    BY <1>0, <1>1, <2>2 DEF IncomingSweep, Oa, Somewhere
  <2> QED
    BY <1>1, <2>1, <2>2 DEF IncomingSweep
<1>2. CASE LeaseSweep
  BY <1>2, ProceedRests, RestKeeps DEF LeaseSweep, Busy
<1>3. CASE LeaseResult
  BY <1>0, <1>3, RestKeeps DEF LeaseResult, Oa, Somewhere, Busy
<1>4. CASE LeaseUnlink
  BY <1>4, ProceedRests, RestKeeps DEF LeaseUnlink, Busy
<1>5. CASE OrphanSweep
  BY <1>0, <1>5, RestKeeps DEF OrphanSweep, Oa, Somewhere, Busy
<1>6. CASE DeadReconcile
  <2>1. oa'.pc \notin Busy
    BY <1>6, ProceedRests DEF DeadReconcile, Busy
  <2> QED
    BY <1>6, <2>1, MarkWrites, RestKeeps DEF DeadReconcile, Somewhere
<1> QED
  BY <1>1, <1>2, <1>3, <1>4, <1>5, <1>6 DEF Sweep

LEMMA RequeueWorks == ASSUME Facts, LeavesWork, Requeue PROVE WorkHeld'
<1> USE DEF Facts
<1>1. CASE RecoverOne
  <2>0. /\ UNCHANGED <<taskFiles, outgoing>> /\ Somewhere
        /\ RecoveryAttempt \in Nat /\ RecoveryAttempt >= ledger.attempt
    <3>1. oa.task.attempt \in Nat /\ ledger.attempt \in Nat
      BY DEF Oa, TaskFile, Ledger
    <3>2. RecoveryAttempt \in Nat /\ RecoveryAttempt >= ledger.attempt
      BY <3>1 DEF RecoveryAttempt, Larger
    <3> QED
      BY <1>1, <3>2 DEF RecoverOne, WorkHeld, Kept
  <2>1. CASE outgoing # None /\ Goto("claimed_unlink") /\ UNCHANGED ledger
    <3>1. Recorded' /\ Kept'
      BY <2>0, <2>1, GotoEffect DEF LeavesWork, WorkHeld, Recorded, Kept, Custody, Somewhere
    <3> QED
      BY <2>0, <2>1, <3>1, FilesStay DEF WorkHeld
  <2>2. CASE /\ OverBudget(RecoveryAttempt)
             /\ MarkAttempt("dead_lettering", RecoveryAttempt)
             /\ oa' = [oa EXCEPT !.pc = "bury_move", !.from = "claimed", !.task.attempt = RecoveryAttempt]
    <3>1. oa'.pc = "bury_move" /\ oa'.task.attempt = RecoveryAttempt
      BY <2>2 DEF Oa, TaskFile
    <3>2. ledger'.status = "dead_lettering" /\ ledger'.attempt = RecoveryAttempt /\ ledger'.result = ledger.result
      BY <2>2, MarkAttemptWrites
    <3>3. Recorded' /\ Kept'
      BY <2>0, <3>1, <3>2 DEF LeavesWork, WorkHeld, Recorded, Kept, Custody, Somewhere
    <3>4. Affordable'
      BY <2>0, <3>2 DEF LeavesWork, WorkHeld, Affordable, Budget, RetryBudget
    <3> QED
      BY <2>0, <3>2, <3>3, <3>4, LedgerGrows DEF WorkHeld, LeavesWork
  <2>3. CASE /\ ~OverBudget(RecoveryAttempt)
             /\ MarkAttempt("requeueing", RecoveryAttempt)
             /\ oa' = [oa EXCEPT !.pc = "requeue_move", !.task.attempt = RecoveryAttempt]
    <3>1. oa'.pc = "requeue_move" /\ oa'.task.attempt = RecoveryAttempt
      BY <2>3 DEF Oa, TaskFile
    <3>2. ledger'.status = "requeueing" /\ ledger'.attempt = RecoveryAttempt /\ ledger'.result = ledger.result
      BY <2>3, MarkAttemptWrites
    <3>3. Recorded' /\ Kept'
      BY <2>0, <3>1, <3>2 DEF LeavesWork, WorkHeld, Recorded, Kept, Custody, Somewhere
    <3>4. RecoveryAttempt <= Budget
      BY <2>0, <2>3, ConstantsOK DEF OverBudget, Budget, Larger
    <3>5. Affordable'
      BY <2>0, <3>2, <3>4 DEF LeavesWork, WorkHeld, Affordable, Budget, RetryBudget
    <3> QED
      BY <2>0, <3>2, <3>3, <3>5, LedgerGrows DEF WorkHeld, LeavesWork
  <2> QED
    BY <1>1, <2>1, <2>2, <2>3 DEF RecoverOne
<1>2. CASE ClaimedUnlink
  <2>1. /\ claimed' = None /\ UNCHANGED <<incoming, dead, archivedTask, outgoing, ledger>>
        /\ submitted # {} /\ oa'.pc \notin Busy
    BY <1>2, ProceedRests DEF ClaimedUnlink, WorkHeld, Kept, Busy
  <2>2. Recorded' /\ Kept'
    BY <2>1 DEF LeavesWork, WorkHeld, Recorded, Kept, Custody, Busy
  <2>3. Ordered'
    BY <2>1 DEF LeavesWork, WorkHeld, Ordered, WriteAhead
  <2>4. Affordable'
    BY <2>1 DEF LeavesWork, WorkHeld, Affordable, Budget, RetryBudget
  <2> QED
    BY <2>2, <2>3, <2>4 DEF WorkHeld
<1>3. CASE RequeueMove
  <2>1. CASE UNCHANGED <<incoming, claimed>> /\ Proceed(oa.ret)
    BY <1>3, <2>1, ProceedRests, RestKeeps DEF RequeueMove, Busy
  <2>2. CASE incoming = None /\ claimed # None /\ incoming' = claimed /\ claimed' = None /\ Goto("requeue_grant")
    <3>1. oa'.pc = "requeue_grant" /\ oa'.task = oa.task
      BY <2>2 DEF Goto, Oa
    <3>2. UNCHANGED <<dead, archivedTask, outgoing, ledger>> /\ oa.pc = "requeue_move"
      BY <1>3 DEF RequeueMove
    <3>3. Recorded'
      BY <3>1, <3>2 DEF WorkHeld, Recorded
    <3>4. Kept'
      BY <2>2, <3>1, <3>2 DEF LeavesWork, WorkHeld, Kept, Custody, Somewhere
    <3>5. Ordered'
      BY <2>2, <3>2 DEF LeavesWork, WorkHeld, Ordered, WriteAhead
    <3>6. Affordable'
      BY <2>2, <3>2 DEF LeavesWork, WorkHeld, Affordable, Budget, RetryBudget
    <3> QED
      BY <3>3, <3>4, <3>5, <3>6 DEF WorkHeld
  <2> QED
    BY <1>3, <2>1, <2>2 DEF RequeueMove
<1>4. CASE RequeueDropGrant
  <2>1. oa'.pc = "requeue_write" /\ oa'.task = oa.task
    BY <1>4 DEF RequeueDropGrant, Goto, Oa
  <2>2. Recorded' /\ Kept'
    BY <1>4, <2>1 DEF RequeueDropGrant, LeavesWork, WorkHeld, Recorded, Kept, Custody, Somewhere
  <2> QED
    BY <1>4, <2>2, FilesStay DEF RequeueDropGrant, WorkHeld
<1>5. CASE RequeueWrite
  <2>1. oa'.pc = "requeue_mark" /\ oa'.task = oa.task
    BY <1>5 DEF RequeueWrite, Goto, Oa
  <2>2. /\ incoming' = oa.task /\ oa.task # None /\ oa.task.attempt = ledger.attempt
        /\ UNCHANGED <<claimed, dead, archivedTask, outgoing, ledger>> /\ ledger.status = "requeueing"
    BY <1>5, NoneOK DEF RequeueWrite, WorkHeld, Recorded, Underway, Oa
  <2>3. Recorded'
    BY <2>1, <2>2 DEF Recorded
  <2>4. Kept'
    BY <2>1, <2>2 DEF LeavesWork, WorkHeld, Kept, Custody, Somewhere
  <2>5. Ordered'
    BY <2>2 DEF LeavesWork, WorkHeld, Ordered, WriteAhead, Ledger
  <2>6. Affordable'
    BY <2>2 DEF LeavesWork, WorkHeld, Affordable, Budget, RetryBudget
  <2> QED
    BY <2>3, <2>4, <2>5, <2>6 DEF WorkHeld
<1>6. CASE RequeueMark
  <2>1. ledger.status = "requeueing" /\ oa.task.attempt = ledger.attempt /\ Somewhere /\ oa'.pc \notin Busy
    BY <1>6, ProceedRests DEF RequeueMark, WorkHeld, Recorded, Underway, Kept, Custody, Somewhere, Busy
  <2> QED
    BY <1>6, <2>1, MarkAttemptWrites, RestKeeps DEF RequeueMark
<1> QED
  BY <1>1, <1>2, <1>3, <1>4, <1>5, <1>6 DEF Requeue

LEMMA BuryWorks == ASSUME Facts, LeavesWork, Bury PROVE WorkHeld'
<1> USE DEF Facts
<1>1. CASE BuryMove
  <2>0. UNCHANGED <<archivedTask, outgoing, ledger>> /\ oa.pc = "bury_move"
    BY <1>1 DEF BuryMove
  <2>1. CASE Proceed(oa.ret) /\ UNCHANGED <<incoming, claimed, dead>>
    BY <2>0, <2>1, ProceedRests, RestKeeps DEF Busy
  <2>2. ASSUME Goto("bury_grant"), dead' # None,
               \/ incoming' = None /\ claimed' = claimed
               \/ claimed' = None /\ incoming' = incoming
        PROVE  WorkHeld'
    <3>1. oa'.pc = "bury_grant" /\ oa'.task = oa.task /\ oa'.from = oa.from
      BY <2>2 DEF Goto, Oa
    <3>2. Recorded'
      BY <2>0, <3>1 DEF WorkHeld, Recorded
    <3>3. Kept'
      BY <2>0, <2>2, <3>1 DEF LeavesWork, WorkHeld, Kept, Custody, Somewhere
    <3>4. Ordered'
      BY <2>0, <2>2 DEF LeavesWork, WorkHeld, Ordered, WriteAhead
    <3>5. Affordable'
      BY <2>0, <2>2 DEF LeavesWork, WorkHeld, Affordable, Budget, RetryBudget
    <3> QED
      BY <3>2, <3>3, <3>4, <3>5 DEF WorkHeld
  <2>3. CASE incoming # None /\ dead' = Young(incoming) /\ incoming' = None /\ UNCHANGED claimed /\ Goto("bury_grant")
    <3>1. dead' # None
      BY <2>3, YoungType, NoneOK DEF TypeOK
    <3> QED
      BY <2>2, <2>3, <3>1
  <2>4. CASE claimed # None /\ dead' = Young(claimed) /\ claimed' = None /\ UNCHANGED incoming /\ Goto("bury_grant")
    <3>1. dead' # None
      BY <2>4, YoungType, NoneOK DEF TypeOK
    <3> QED
      BY <2>2, <2>4, <3>1
  <2> QED
    BY <1>1, <2>1, <2>3, <2>4 DEF BuryMove
<1>2. CASE BuryDropGrant
  <2>1. oa'.pc = "bury_write" /\ oa'.task = oa.task /\ oa'.from = oa.from
    BY <1>2 DEF BuryDropGrant, Goto, Oa
  <2>2. Recorded' /\ Kept'
    BY <1>2, <2>1 DEF BuryDropGrant, LeavesWork, WorkHeld, Recorded, Kept, Custody, Somewhere
  <2> QED
    BY <1>2, <2>2, FilesStay DEF BuryDropGrant, WorkHeld
<1>3. CASE BuryWrite
  <2>1. oa'.pc = "bury_mark" /\ oa'.task = oa.task /\ oa'.from = oa.from /\ dead' # None
    BY <1>3, NoneOK DEF BuryWrite, Goto, Oa
  <2>2. Recorded' /\ Kept'
    BY <1>3, <2>1 DEF BuryWrite, LeavesWork, WorkHeld, Recorded, Kept, Custody, Somewhere
  <2> QED
    BY <1>3, <2>2, FilesStay DEF BuryWrite, WorkHeld
<1>4. CASE BuryMark
  <2>1. dead # None /\ oa'.pc \notin Busy
    BY <1>4, ProceedRests DEF BuryMark, DeadHeld, Busy
  <2>2. ledger'.status = "dead" /\ ledger'.attempt = ledger.attempt /\ ledger'.result = ledger.result
    <3>1. CASE oa.from = "incoming"
      BY <1>4, <3>1, MarkWrites DEF BuryMark
    <3>2. CASE oa.from = "claimed"
      BY <1>4, <3>2, MarkAttemptWrites DEF BuryMark, WorkHeld, Recorded
    <3> QED
      BY <3>1, <3>2 DEF Oa
  <2> QED
    BY <1>4, <2>1, <2>2, RestKeeps DEF BuryMark, Somewhere
<1> QED
  BY <1>1, <1>2, <1>3, <1>4 DEF Bury

\* dead --requeue takes the next attempt, and the operator's decision lifts the budget.
LEMMA ReviveWorks == ASSUME Facts, OaStep, Revive PROVE WorkHeld'
<1> USE DEF Facts
<1>1. CASE DeadRequeue
  <2> DEFINE n == Larger(dead.attempt, ledger.attempt) + 1
  <2>1. dead \in TaskFile /\ dead # None /\ oa'.pc = "dead_write"
    BY <1>1 DEF DeadRequeue, TypeOK, OaIdle
  <2>2. n \in Nat /\ n >= ledger.attempt
    BY <2>1 DEF TaskFile, Ledger, Larger
  <2>3. MarkAttempt("requeueing", n)
    BY <1>1 DEF DeadRequeue
  <2> HIDE DEF n
  <2>4. ledger'.status = "requeueing" /\ ledger'.attempt = n /\ ledger'.result = ledger.result
    BY <2>3, MarkAttemptWrites
  <2>5. fresh'.torn = fresh.torn /\ fresh'.revived
    BY <1>1, Zenon DEF DeadRequeue, TypeOK, Fresh
  <2>6. UNCHANGED <<taskFiles, outgoing, submitted>>
    BY <1>1 DEF DeadRequeue
  <2>7. Recorded' /\ Kept'
    BY <2>1, <2>4, <2>6 DEF WorkHeld, Recorded, Kept, Custody, Somewhere
  <2>8. Affordable'
    BY <2>5 DEF Affordable
  <2> QED
    BY <2>2, <2>4, <2>5, <2>6, <2>7, <2>8, LedgerGrows DEF WorkHeld
<1>2. CASE DeadWrite
  <2>1. dead # None /\ dead' \in TaskFile /\ dead'.attempt = ledger.attempt /\ oa'.pc = "dead_move"
    BY <1>2, GotoEffect DEF DeadWrite, DeadHeld, TypeOK, TaskFile, Ledger
  <2>2. LeavesWork
    BY <1>2, OaLeavesWork DEF DeadWrite, DeadRequeue
  <2>3. UNCHANGED <<incoming, claimed, archivedTask, outgoing, ledger>> /\ dead' # None
    BY <1>2, <2>1, NoneOK DEF DeadWrite
  <2>4. Recorded' /\ Kept'
    BY <2>1, <2>2, <2>3 DEF LeavesWork, WorkHeld, Recorded, Kept, Custody, Somewhere
  <2> QED
    BY <2>2, <2>3, <2>4, FilesStay DEF WorkHeld
<1>3. CASE DeadMove
  <2>1. /\ dead # None /\ dead.attempt = ledger.attempt /\ ledger.status = "requeueing"
        /\ incoming' = dead /\ UNCHANGED <<claimed, archivedTask, outgoing, ledger>>
    BY <1>3 DEF DeadMove, DeadHeld, WorkHeld, Recorded
  <2>2. oa'.pc = "requeue_mark" /\ oa'.task = dead
    BY <1>3 DEF DeadMove, Oa
  <2>3. LeavesWork
    BY <1>3, OaLeavesWork DEF DeadMove, DeadRequeue
  <2>4. Recorded'
    BY <2>1, <2>2 DEF Recorded
  <2>5. Kept'
    BY <2>1, <2>2, <2>3 DEF LeavesWork, WorkHeld, Kept, Custody, Somewhere
  <2>6. Ordered'
    BY <2>1, <2>3 DEF LeavesWork, WorkHeld, Ordered, WriteAhead, Ledger
  <2>7. Affordable'
    BY <2>1, <2>3 DEF LeavesWork, WorkHeld, Affordable, Budget, RetryBudget
  <2> QED
    BY <2>4, <2>5, <2>6, <2>7 DEF WorkHeld
<1> QED
  BY <1>1, <1>2, <1>3 DEF Revive

LEMMA CollectWorks == ASSUME Facts, LeavesWork, Collect PROVE WorkHeld'
<1> USE DEF Facts
<1>1. CASE CollectBegin \/ CollectArchivePass
  BY <1>1, InspectRests, RestKeeps DEF CollectBegin, CollectArchivePass
<1>2. CASE CollectList \/ CollectArchive
  <2>1. oa'.pc \notin Busy
    <3>1. CASE CollectList
      <4>1. PICK listed : oa' = [oa EXCEPT !.pc = "collect_judge", !.listed = listed]
        BY <3>1 DEF CollectList
      <4> QED
        BY <4>1 DEF Oa, Busy
    <3>2. CASE CollectArchive
      BY <3>2, GotoEffect DEF CollectArchive, Busy
    <3> QED
      BY <1>2, <3>1, <3>2
  <2> QED
    BY <1>2, <2>1, RestKeeps DEF CollectList, CollectArchive
<1>3. CASE CollectQuarantine
  BY <1>3, NextPassRests, RestKeeps DEF CollectQuarantine
<1>4. CASE CollectFile
  BY <1>4, NextPassRests, FileWrites, RestKeeps DEF CollectFile
<1>5. ASSUME NEW where, Complete(where), Provenance, oa.pc = "collect_judge",
             UNCHANGED <<taskFiles, outgoing>>, oa'.pc \notin Busy
      PROVE  WorkHeld'
  <2>1. ledger'.status = "completed" /\ ledger'.attempt = ledger.attempt /\ ledger'.result = oa.res
    BY <1>5 DEF Complete, Ledger
  <2>2. oa.res # None /\ oa.res.attempt = ledger.attempt
    BY <1>5 DEF AttemptHeld
  <2>3. \E file \in {claimed, archivedTask} : file # None /\ file.attempt = ledger.attempt
    BY <1>5, <2>2 DEF Provenance, Proves
  <2>4. Recorded'
    BY <1>5, <2>1 DEF Recorded, Busy
  <2>5. Kept'
    BY <1>5, <2>1, <2>3 DEF LeavesWork, WorkHeld, Kept, Custody, Somewhere, Busy
  <2>6. Affordable'
    BY <1>5, <2>1 DEF LeavesWork, WorkHeld, Affordable, Budget, RetryBudget
  <2>7. Ordered'
    BY <1>5, <2>1, <2>2, <2>3 DEF LeavesWork, WorkHeld, Ordered, WriteAhead, Ledger
  <2> QED
    BY <2>4, <2>5, <2>6, <2>7 DEF WorkHeld
<1>6. CASE CollectOutgoing
  <2>1. oa'.pc \notin Busy
    BY <1>6, GotoEffect, NextPassRests DEF CollectOutgoing, Busy
  <2> QED
    BY <1>5, <1>6, <2>1, RestKeeps DEF CollectOutgoing
<1>7. CASE CollectArchived
  <2>1. oa'.pc \notin Busy
    BY <1>7, GotoEffect, NextPassRests DEF CollectArchived, Busy
  <2>2. CASE UNCHANGED ledger \/ ledger' = [ledger EXCEPT !.file = "archive"]
    BY <1>7, <2>1, <2>2, FileWrites, RestKeeps DEF CollectArchived
  <2> QED
    BY <1>5, <1>7, <2>1, <2>2 DEF CollectArchived
<1> QED
  BY <1>1, <1>2, <1>3, <1>4, <1>6, <1>7 DEF Collect

LEMMA OaWorks == ASSUME Facts, OaStep PROVE WorkHeld'
<1>1. CASE Revive
  BY <1>1, ReviveWorks
<1>2. CASE ~Revive
  <2>1. LeavesWork
    BY <1>2, OaLeavesWork DEF Revive
  <2>2. CASE OaCrash
    BY <2>1, <2>2, RestKeeps DEF Facts, OaCrash, OaIdle, Busy
  <2> QED
    BY <1>2, <2>1, <2>2, SendWorks, OutboxWorks, SweepWorks, RequeueWorks, BuryWorks, CollectWorks
    DEF OaStep
<1> QED
  BY <1>1, <1>2

-----------------------------------------------------------------------------
(* The sessions and the time *)

\* A step of a session or of time that leaves the files and the history alone; it may
\* bring a session another copy of the task.
Copied(s) ==
    /\ UNCHANGED <<taskFiles, outgoing, ledger, oa, issued, submitted>>
    /\ fresh'.torn = fresh.torn /\ fresh'.revived = fresh.revived
    /\ \A t \in Session \ {s} : mine'[t] = mine[t]
    /\ \/ mine'[s].task.attempt \in {1, mine[s].task.attempt}
       \/ \E file \in {incoming, claimed} : file # None /\ mine'[s].task.attempt = file.attempt

LEMMA CopiedWorks ==
  ASSUME WorkHeld, NEW s \in Session, Copied(s) PROVE WorkHeld'
<1>1. Recorded' /\ Kept'
  BY DEF Copied, WorkHeld, Recorded, Kept, Custody, Somewhere
<1>2. Ordered'
  BY DEF Copied, WorkHeld, Ordered, WriteAhead
<1>3. Affordable'
  <2>1. 1 <= Budget
    BY ConstantsOK DEF Budget, Larger
  <2> QED
    BY <2>1 DEF Copied, WorkHeld, Affordable, RetryBudget, Budget
<1> QED
  BY <1>1, <1>2, <1>3 DEF WorkHeld

LEMMA YoungAttempt == ASSUME NEW file \in TaskFile PROVE Young(file).attempt = file.attempt
  BY DEF Young, TaskFile

LEMMA TaskCopied ==
  ASSUME TypeOK, NEW s \in Session, NEW file \in {incoming, claimed}, file # None,
         mine' = [mine EXCEPT ![s].task = Young(file)],
         UNCHANGED <<taskFiles, outgoing, ledger, oa, history>>
  PROVE  Copied(s)
<1>1. mine'[s].task.attempt = file.attempt
  BY YoungAttempt DEF TypeOK, Held
<1>2. \A t \in Session \ {s} : mine'[t] = mine[t]
  BY DEF TypeOK
<1> QED
  BY <1>1, <1>2 DEF Copied

LEMMA TaskForgotten ==
  ASSUME TypeOK, NEW s \in Session, Forget(s) PROVE /\ mine'[s].task.attempt = 1
                                                    /\ \A t \in Session \ {s} : mine'[t] = mine[t]
  BY DEF TypeOK, Forget, Nothing, FreshTask

\* What moves the copies: the claimer's rename and its stamp, and the archiving of the
\* claim by complete.
LEMMA MoveWorks == ASSUME TypeOK, WorkHeld, NEW s \in Session, ClaimMove(s) PROVE WorkHeld'
<1>1. /\ incoming # None /\ claimed' = incoming /\ incoming' = None
      /\ UNCHANGED <<dead, archivedTask, outgoing, ledger, oa, mine, history>>
  BY DEF ClaimMove
<1>2. Recorded' /\ Kept'
  BY <1>1 DEF WorkHeld, Recorded, Kept, Custody, Somewhere
<1>3. Ordered'
  BY <1>1 DEF WorkHeld, Ordered, WriteAhead
<1>4. Affordable'
  BY <1>1 DEF WorkHeld, Affordable, RetryBudget, Budget
<1> QED
  BY <1>2, <1>3, <1>4 DEF WorkHeld

LEMMA StampWorks == ASSUME TypeOK, WorkHeld, NEW s \in Session, Stamp(s) PROVE WorkHeld'
<1>1. /\ claimed' \in TaskFile /\ claimed'.attempt = mine[s].task.attempt
      /\ issued' = issued \cup {<<fresh.claim + 1, mine[s].task.attempt>>}
      /\ UNCHANGED <<incoming, dead, archivedTask, outgoing, ledger, oa, submitted>>
  <2>1. mine[s].task \in TaskFile /\ fresh.claim + 1 \in Nat
    BY DEF TypeOK, Held, Fresh
  <2>2. claimed' = [mine[s].task EXCEPT !.token = fresh.claim + 1, !.aged = FALSE]
    BY DEF Stamp
  <2>3. claimed' \in TaskFile /\ claimed'.attempt = mine[s].task.attempt
    BY <2>1, <2>2 DEF TaskFile
  <2> QED
    BY <2>3 DEF Stamp
<1>2. /\ mine'[s].task.attempt = mine[s].task.attempt
      /\ \A t \in Session \ {s} : mine'[t] = mine[t]
  BY <1>1 DEF Stamp, TypeOK, Held
<1>3. claimed' # None
  BY <1>1, NoneOK
<1>4. Recorded' /\ Kept'
  BY <1>1, <1>3 DEF WorkHeld, Recorded, Kept, Custody, Somewhere
<1>5. ~fresh'.torn => ~fresh.torn /\ claimed # None /\ claimed.attempt = mine[s].task.attempt
  <2>1. fresh'.torn = (fresh.torn \/ claimed = None \/ Young(claimed) # mine[s].task)
    BY Zenon DEF Stamp, TypeOK, Fresh
  <2>2. claimed # None => Young(claimed).attempt = claimed.attempt
    BY YoungAttempt DEF TypeOK
  <2> QED
    BY <2>1, <2>2
<1>6. Ordered'
  BY <1>1, <1>3, <1>5 DEF WorkHeld, Ordered, WriteAhead
<1>7. Affordable'
  <2>1. fresh'.revived = fresh.revived
    BY Zenon DEF Stamp, TypeOK, Fresh
  <2>2. SUFFICES ASSUME ~fresh.revived
                 PROVE  /\ ledger'.status = "requeueing" => ledger'.attempt <= Budget
                        /\ \A file \in {incoming', claimed'} : file # None => file.attempt <= Budget
                        /\ \A t \in Session : mine'[t].task.attempt <= Budget
                        /\ \A claim \in issued' : claim[2] <= Budget
    BY <2>1 DEF Affordable, RetryBudget, Budget
  <2>3. mine[s].task.attempt <= Budget /\ \A claim \in issued : claim[2] <= Budget
    BY <2>2 DEF WorkHeld, Affordable, RetryBudget, Budget
  <2> QED
    BY <1>1, <1>2, <2>2, <2>3 DEF WorkHeld, Affordable
<1> QED
  BY <1>4, <1>6, <1>7 DEF WorkHeld

LEMMA ArchiveWorks == ASSUME TypeOK, WorkHeld, NEW s \in Session, SubmitArchive(s) PROVE WorkHeld'
<1>1. /\ mine'[s].task.attempt = 1
      /\ \A t \in Session \ {s} : mine'[t] = mine[t]
      /\ UNCHANGED <<incoming, dead, outgoing, ledger, oa, history>>
  BY TaskForgotten DEF SubmitArchive
<1>2. CASE claimed = None
  <2>1. Copied(s)
    BY <1>1, <1>2 DEF SubmitArchive, Copied
  <2> QED
    BY <2>1, CopiedWorks
<1>3. CASE claimed # None
  <2>1. /\ archivedTask' # None /\ archivedTask'.attempt = claimed.attempt /\ claimed' = None
    <3>1. claimed \in TaskFile
      BY <1>3 DEF TypeOK
    <3> QED
      BY <1>3, <3>1, YoungType, YoungAttempt, NoneOK DEF SubmitArchive
  <2>2. Recorded' /\ Kept'
    BY <1>1, <2>1 DEF WorkHeld, Recorded, Kept, Custody, Somewhere
  <2>3. Ordered'
    BY <1>1, <1>3, <2>1 DEF WorkHeld, Ordered, WriteAhead
  <2>4. Affordable'
    <3>1. 1 <= Budget
      BY ConstantsOK DEF Budget, Larger
    <3> QED
      BY <1>1, <2>1, <3>1 DEF WorkHeld, Affordable, RetryBudget, Budget
  <2> QED
    BY <2>2, <2>3, <2>4 DEF WorkHeld
<1> QED
  BY <1>2, <1>3

LEMMA PublishWorks == ASSUME TypeOK, WorkHeld, NEW s \in Session, SubmitPublish(s) PROVE WorkHeld'
<1>1. /\ submitted' # {} /\ UNCHANGED <<taskFiles, ledger, oa, mine, issued>>
  BY DEF SubmitPublish
<1>2. fresh'.torn = fresh.torn /\ fresh'.revived = fresh.revived
  BY Zenon DEF SubmitPublish, TypeOK, Fresh
<1>3. Recorded' /\ Kept'
  BY <1>1 DEF WorkHeld, Recorded, Kept, Custody, Somewhere
<1>4. Ordered' /\ Affordable'
  BY <1>1, <1>2 DEF WorkHeld, Ordered, WriteAhead, Affordable, RetryBudget, Budget
<1> QED
  BY <1>3, <1>4 DEF WorkHeld

LEMMA SessionWorks == ASSUME TypeOK, WorkHeld, NEW s \in Session, SessionStep(s) PROVE WorkHeld'
<1>1. CASE ResumeClaim(s) \/ ClaimLoad(s) \/ CompleteCheck(s)
  BY <1>1, TaskCopied, CopiedWorks DEF ResumeClaim, Resumable, ClaimLoad, CompleteCheck, HoldsClaim
<1>2. CASE StartInvocation(s)
  <2>1. mine'[s].task.attempt = 1 /\ \A t \in Session \ {s} : mine'[t] = mine[t]
    BY <1>2 DEF StartInvocation, TypeOK, Nothing, FreshTask
  <2>2. Copied(s)
    BY <1>2, <2>1 DEF StartInvocation, Copied
  <2> QED
    BY <2>2, CopiedWorks
<1>3. CASE DeliverSuperseded(s) \/ BeginFenced(s) \/ CompleteFenced(s) \/ SessionCrash(s)
  <2>1. Forget(s) /\ UNCHANGED <<taskFiles, outgoing, ledger, oa, history>>
    BY <1>3 DEF DeliverSuperseded, BeginFenced, CompleteFenced, SessionCrash
  <2>2. Copied(s)
    BY <2>1, TaskForgotten DEF Copied
  <2> QED
    BY <2>2, CopiedWorks
<1>4. CASE BeginGrant(s) \/ BeginRecovered(s) \/ BeginCrash(s)
  <2>1. PICK n : mine' = [mine EXCEPT ![s].exec = n]
    BY <1>4 DEF BeginGrant, BeginRecovered, BeginCrash
  <2>2. mine'[s].task = mine[s].task /\ \A t \in Session \ {s} : mine'[t] = mine[t]
    BY <2>1 DEF TypeOK, Held
  <2>3. UNCHANGED <<taskFiles, outgoing, ledger, oa, issued, submitted>>
    BY <1>4 DEF BeginGrant, BeginRecovered, BeginCrash
  <2>4. fresh'.torn = fresh.torn /\ fresh'.revived = fresh.revived
    BY <1>4, Zenon DEF BeginGrant, BeginRecovered, BeginCrash, TypeOK, Fresh
  <2>5. Copied(s)
    BY <2>2, <2>3, <2>4 DEF Copied
  <2> QED
    BY <2>5, CopiedWorks
<1>5. CASE \/ ClaimLost(s) \/ WriteLease(s) \/ Deliver(s) \/ BeginCheck(s) \/ ExecuteUnfenced(s)
           \/ SubmitDropGrant(s) \/ SubmitDropLease(s) \/ CompleteCrash(s)
  <2>1. Copied(s)
    BY <1>5 DEF ClaimLost, WriteLease, Deliver, BeginCheck, ExecuteUnfenced, SubmitDropGrant,
       SubmitDropLease, CompleteCrash, Copied
  <2> QED
    BY <2>1, CopiedWorks
<1> QED
  BY <1>1, <1>2, <1>3, <1>4, <1>5, MoveWorks, StampWorks, ArchiveWorks, PublishWorks
  DEF SessionStep, Watch, Execute, Submit

\* A file that ages is the same file.
LEMMA TimeWorks == ASSUME TypeOK, WorkHeld, Time PROVE WorkHeld'
<1>1. /\ UNCHANGED <<dead, archivedTask, outgoing, ledger, oa, mine, history>>
      /\ incoming' = None <=> incoming = None
      /\ claimed' = None <=> claimed = None
      /\ incoming # None => incoming'.attempt = incoming.attempt
      /\ claimed # None => claimed'.attempt = claimed.attempt
  <2>1. \A file \in TaskFile : /\ [file EXCEPT !.aged = TRUE] \in TaskFile
                               /\ [file EXCEPT !.aged = TRUE].attempt = file.attempt
    BY DEF TaskFile
  <2>2. CASE LeaseExpires
    BY <2>2 DEF LeaseExpires
  <2>3. CASE IncomingAges
    BY <2>1, <2>3, NoneOK DEF IncomingAges, TypeOK
  <2>4. CASE ClaimedAges
    BY <2>1, <2>4, NoneOK DEF ClaimedAges, TypeOK
  <2> QED
    BY <2>2, <2>3, <2>4 DEF Time
<1>2. Recorded' /\ Kept'
  BY <1>1 DEF WorkHeld, Recorded, Kept, Custody, Somewhere
<1>3. Ordered'
  BY <1>1 DEF WorkHeld, Ordered, WriteAhead
<1>4. Affordable'
  BY <1>1 DEF WorkHeld, Affordable, RetryBudget, Budget
<1> QED
  BY <1>2, <1>3, <1>4 DEF WorkHeld

-----------------------------------------------------------------------------
(* The theorems *)

LEMMA WorkInit == Init => WorkInv
<1>1. Init => WorkHeld
  <2> SUFFICES ASSUME Init PROVE WorkHeld
    OBVIOUS
  <2>1. 1 <= Budget
    BY ConstantsOK DEF Budget, Larger
  <2>2. Recorded /\ Kept
    BY DEF Init, NoLedger, OaIdle, Recorded, Kept, Custody, Somewhere
  <2>3. Ordered
    BY DEF Init, NoLedger, Ordered, WriteAhead
  <2>4. Affordable
    BY <2>1 DEF Init, NoLedger, Nothing, FreshTask, Affordable, RetryBudget, Budget
  <2> QED
    BY <2>2, <2>3, <2>4 DEF WorkHeld
<1> QED
  BY <1>1, LifeInitHolds DEF WorkInv

LEMMA WorkNext == WorkInv /\ [Next]_vars => WorkInv'
<1> SUFFICES ASSUME WorkInv, [Next]_vars PROVE WorkInv'
  OBVIOUS
<1>0. Facts
  BY FactsHold
<1>1. LifeInv'
  BY LifeNextHolds DEF WorkInv
<1>2. CASE OaStep
  BY <1>0, <1>1, <1>2, OaWorks DEF WorkInv
<1>3. CASE (\E s \in Session : SessionStep(s)) \/ Time
  BY <1>0, <1>1, <1>3, SessionWorks, TimeWorks DEF WorkInv, Facts
<1>4. CASE UNCHANGED vars
  <2>1. WorkHeld'
    BY <1>4 DEF vars, WorkInv, WorkHeld, Recorded, Ordered, WriteAhead, Affordable, RetryBudget, Budget,
       Kept, Custody, Somewhere
  <2> QED
    BY <1>1, <2>1 DEF WorkInv
<1> QED
  BY <1>2, <1>3, <1>4 DEF Next

\* The invariant the theorems below follow from.
THEOREM WorkInvariance == Spec => []WorkInv
  BY WorkInit, WorkNext, PTL DEF Spec

\* Once published, a task is never lost: renames, rewrites, crashes and overlapping
\* recoveries leave a copy of it, or a result of it, on the bus.
THEOREM TasksAreKept == Spec => []Custody
<1>1. WorkInv => Custody
  BY DEF WorkInv, WorkHeld, Kept
<1> QED
  BY <1>1, WorkInvariance, PTL

\* recover and dead --requeue write the ledger before the file: no claimable or
\* claimed copy carries an attempt the ledger has not recorded.
THEOREM AttemptsAreRecorded == Spec => []WriteAhead
<1>1. WorkInv => WriteAhead
  BY DEF WorkInv, WorkHeld, Ordered, WriteAhead
<1> QED
  BY <1>1, WorkInvariance, PTL

\* Whichever sweep or repair requeues the task, no claim is stamped with an attempt
\* beyond max_retries before an operator revives the task.
THEOREM BudgetIsKept == Spec => []RetryBudget
<1>1. WorkInv => RetryBudget
  BY DEF WorkInv, WorkHeld, Affordable, RetryBudget
<1> QED
  BY <1>1, WorkInvariance, PTL

\* Where collect records a result, the task is not completed any more, and an
\* earlier result was of an attempt no later than the one the ledger is at.
LEMMA Recording ==
  ASSUME WorkInv, Next, ledger.result \notin {None, ledger'.result}
  PROVE  /\ ledger.status # "completed"
         /\ ~fresh.torn => ledger'.result.attempt >= ledger.result.attempt
<1>0. Facts
  BY FactsHold
<1>1. OaStep
  BY OthersLeave DEF Next
<1>2. \E where : Complete(where) /\ oa.pc = "collect_judge" /\ ledger.status # "completed"
  <2> USE <1>0, MarkWrites, MarkAttemptWrites, FileWrites DEF Facts
  <2>1. CASE Send
    BY <2>1 DEF Send, SendRecord, PublishTask, MarkPublished
  <2>2. CASE Outbox
    BY <2>2 DEF Outbox, RecoverBegin, OutboxResult, RequeuePending, RequeueResult
  <2>3. CASE Sweep
    BY <2>3 DEF Sweep, IncomingSweep, LeaseSweep, LeaseResult, LeaseUnlink, OrphanSweep, DeadReconcile
  <2>4. CASE Requeue
    BY <2>4 DEF Requeue, RecoverOne, ClaimedUnlink, RequeueMove, RequeueDropGrant, RequeueWrite, RequeueMark
  <2>5. CASE Bury
    BY <2>5 DEF Bury, BuryMove, BuryDropGrant, BuryWrite, BuryMark
  <2>6. CASE Revive
    BY <2>6 DEF Revive, DeadRequeue, DeadWrite, DeadMove
  <2>7. CASE Collect
    BY <2>7 DEF Collect, CollectBegin, CollectArchivePass, CollectList, CollectOutgoing,
       CollectArchived, CollectQuarantine, CollectArchive, CollectFile, AlreadyCompleted, Underway
  <2>8. CASE OaCrash
    BY <2>8 DEF OaCrash
  <2> QED
    BY <1>1, <2>1, <2>2, <2>3, <2>4, <2>5, <2>6, <2>7, <2>8 DEF OaStep
<1>3. ledger'.result = oa.res
  BY <1>0, <1>2, CompleteEffect DEF Facts
<1>4. oa.res.attempt = ledger.attempt
  BY <1>0, <1>2 DEF Facts, AttemptHeld
<1>5. ~fresh.torn => ledger.result.attempt <= ledger.attempt
  BY <1>0 DEF Facts, WorkHeld, Ordered
<1>6. ledger.result.attempt \in Nat /\ ledger.attempt \in Nat
  BY <1>0 DEF Facts, Ledger, Result
<1> QED
  BY <1>2, <1>3, <1>4, <1>5, <1>6

\* What collect reported stands while the task is completed; what completes a
\* reopened task is no earlier attempt.
THEOREM ReportsStand == Spec => ReportedStands
<1>1. WorkInv /\ [Next]_vars =>
        [ledger.result \notin {None, ledger'.result}
            => /\ ledger.status # "completed"
               /\ ~fresh.torn => ledger'.result.attempt >= ledger.result.attempt]_ledger
  BY Recording DEF vars
<1> QED
  BY <1>1, WorkInvariance, PTL DEF Spec, ReportedStands

=============================================================================
