------------------------------ MODULE TaskBus ------------------------------
(***************************************************************************)
(* One task on the file bus of one LWAR.                                   *)
(*                                                                         *)
(* WHO: the OA (one writer; its commands send, recover, collect and dead   *)
(* --requeue run one at a time) and the LWAR's sessions (a session runs a  *)
(* watcher process, is handed the task, begins it, executes it and submits *)
(* its result; an abandoned session keeps running beside its successor).   *)
(*                                                                         *)
(* A step is one file operation (create-or-replace, rename, unlink) with   *)
(* the reads and the ledger write next to it: only the OA touches the      *)
(* ledger, so a ledger write commutes with every step of a session.        *)
(* Whatever happens between two file operations of one process is an       *)
(* interleaving of this model, a crash included.                           *)
(*                                                                         *)
(* Every file the bus keeps for a task carries the task id in its name, so *)
(* tasks do not share files and one task is enough; identity changes of    *)
(* the LWAR are the business of Registry.                                  *)
(***************************************************************************)
EXTENDS Naturals

CONSTANTS
    Session,        \* watcher runs of this LWAR, each with the agent it serves
    Legacy,         \* the sessions whose adapter completes without begin
    None,           \* absent file, absent value
    MaxRetries,     \* the task's retry budget
    MaxAttempt,     \* bound: no attempt number above it is issued
    MaxClaims,      \* bound: claim tokens issued
    MaxInvocations, \* bound: watcher runs started
    MaxGrants,      \* bound: execution tokens issued
    MaxSubmits      \* bound: results written

ASSUME ConstantsOK ==
    /\ Legacy \subseteq Session
    /\ MaxRetries \in Nat
    /\ MaxAttempt \in Nat
    /\ MaxClaims \in Nat
    /\ MaxInvocations \in Nat
    /\ MaxGrants \in Nat
    /\ MaxSubmits \in Nat

VARIABLES
    incoming,       \* incoming/PPP_task.json
    claimed,        \* claimed/PPP_task.json
    dead,           \* dead/PPP_task.json
    archivedTask,   \* archive/tasks/PPP_task.json
    lease,          \* leases/task.json
    execution,      \* executions/task.json, the begin grant
    outgoing,       \* outgoing/task.result.json
    archivedResult, \* archive/results/task.result.json
    ledger,         \* var/tasks/<workflow>/task.json
    invocation,     \* epoch in invocation.json, the current watcher run
    oa,             \* program counter and locals of the running OA command
    pc,             \* program counter of each session
    mine,           \* what each session holds: [task, inv, exec]
    fresh,          \* the last claim, execution and submission number drawn; history:
                    \* whether the operator ever ran dead --requeue (revived) and
                    \* whether a claimer ever stamped another file than the one it
                    \* had loaded (torn)
    issued,         \* history: the <<claim token, attempt>> pairs stamped
    granted,        \* history: the begin grants written
    submitted       \* history: the results written

taskFiles == <<incoming, claimed, dead, archivedTask>>
resultFiles == <<outgoing, archivedResult>>
sessionVars == <<pc, mine, invocation>>
history == <<fresh, issued, granted, submitted>>
vars == <<taskFiles, lease, execution, resultFiles, ledger, oa, sessionVars, history>>

\* The bus copies of the task: the attempt, the claim token of its last claim
\* (0: never claimed; execution_id is stamped with it) and whether the file is
\* older than the grace of orphaned_claims.
TaskFile == [attempt : Nat, token : Nat, aged : BOOLEAN]
Lease == [token : Nat, expired : BOOLEAN]
Grant == [token : Nat, inv : Nat, exec : Nat \ {0}]
\* sub tells two submissions apart (submitted_at, summary, evidence ...).
Result == [attempt : Nat, token : Nat, exec : Nat, sub : Nat]
Status == {"none", "publishing", "published", "requeueing", "requeued",
           "dead_lettering", "dead", "failed", "completed"}
Ledger == [status : Status, attempt : Nat, result : Result \cup {None},
           file : {None, "outgoing", "archive"}]

OaPc == {"idle", "send_publish", "send_mark", "outbox_result", "outbox_publish",
         "outbox_mark", "requeue_pending", "requeue_result", "incoming", "leases",
         "lease_result", "lease_unlink", "orphans", "dead", "recover_one",
         "claimed_unlink", "requeue_move", "requeue_grant", "requeue_write",
         "requeue_mark", "bury_move", "bury_grant", "bury_write", "bury_mark",
         "dead_write", "dead_move", "collect_archive_pass", "collect_list",
         "collect_judge", "collect_quarantine", "collect_archive", "collect_file"}
Oa == [pc : OaPc, ret : OaPc, task : TaskFile, from : {"incoming", "claimed"},
       res : Result \cup {None}, where : {"outgoing", "archive"},
       listed : SUBSET {"claimed", "archive"}]
SessionPc == {"idle", "watching", "loaded", "moved", "stamped", "holding", "delivered",
              "granting", "executing", "submitting", "published", "ungranted", "unleased"}
Held == [task : TaskFile, inv : Nat, exec : Nat]
Fresh == [claim : Nat, exec : Nat, sub : Nat, revived : BOOLEAN, torn : BOOLEAN]

ASSUME NoneOK == None \notin TaskFile \cup Lease \cup Grant \cup Result \cup {"outgoing", "archive"}

FreshTask == [attempt |-> 1, token |-> 0, aged |-> FALSE]
NoLedger == [status |-> "none", attempt |-> 0, result |-> None, file |-> None]
OaIdle == [pc |-> "idle", ret |-> "idle", task |-> FreshTask, from |-> "claimed",
           res |-> None, where |-> "outgoing", listed |-> {}]
Nothing == [task |-> FreshTask, inv |-> 0, exec |-> 0]

Larger(a, b) == IF a > b THEN a ELSE b
Young(file) == [file EXCEPT !.aged = FALSE]
Pending == incoming # None \/ claimed # None

Init ==
    /\ incoming = None /\ claimed = None /\ dead = None /\ archivedTask = None
    /\ lease = None /\ execution = None
    /\ outgoing = None /\ archivedResult = None
    /\ ledger = NoLedger
    /\ invocation = 0
    /\ oa = OaIdle
    /\ pc = [s \in Session |-> "idle"]
    /\ mine = [s \in Session |-> Nothing]
    /\ fresh = [claim |-> 0, exec |-> 0, sub |-> 0, revived |-> FALSE, torn |-> FALSE]
    /\ issued = {} /\ granted = {} /\ submitted = {}

-----------------------------------------------------------------------------
(* OA: send *)

Goto(label) == oa' = [oa EXCEPT !.pc = label]

\* The passes of recover, in order. Only the OA fills incoming/ and dead/ and
\* nothing ages while it runs (see Time), so a pass that cannot find anything
\* is passed over at once.
DeadPass == IF dead # None THEN "dead" ELSE "idle"
OrphanPass == IF \E file \in {incoming, claimed} : file # None /\ file.aged
              THEN "orphans" ELSE DeadPass
LeasePass == IF lease # None /\ lease.expired THEN "leases" ELSE OrphanPass
IncomingPass == IF incoming # None /\ incoming.aged THEN "incoming" ELSE LeasePass

\* To the next pass of a command, with its locals forgotten.
Proceed(label) ==
    oa' = [OaIdle EXCEPT !.pc = CASE label = "incoming" -> IncomingPass
                                  [] label = "leases" -> LeasePass
                                  [] label = "orphans" -> OrphanPass
                                  [] label = "dead" -> DeadPass
                                  [] OTHER -> label]

Mark(status) == ledger' = [ledger EXCEPT !.status = status]
MarkStatusOnly(status, n) == Mark(status)   \* mutant: the attempt is not recorded
MarkAttempt(status, n) == ledger' = [ledger EXCEPT !.status = status, !.attempt = n]

\* command_send: the ledger records the outbox entry before the task is claimable.
SendRecord ==
    /\ oa.pc = "idle"
    /\ ~Pending
    /\ ledger.status = "none"
    /\ MarkAttempt("publishing", 1)
    /\ Goto("send_publish")
    /\ UNCHANGED <<taskFiles, lease, execution, resultFiles, sessionVars, history>>

\* publish_task, from send and from the outbox repair of recover.
PublishTask ==
    /\ oa.pc \in {"send_publish", "outbox_publish"}
    /\ incoming' = FreshTask
    /\ Goto(IF oa.pc = "send_publish" THEN "send_mark" ELSE "outbox_mark")
    /\ UNCHANGED <<claimed, dead, archivedTask, lease, execution, resultFiles,
                   ledger, sessionVars, history>>

MarkPublished ==
    /\ oa.pc \in {"send_mark", "outbox_mark"}
    /\ Mark("published")
    /\ Proceed(IF oa.pc = "send_mark" THEN "idle" ELSE "incoming")
    /\ UNCHANGED <<taskFiles, lease, execution, resultFiles, sessionVars, history>>

-----------------------------------------------------------------------------
(* OA: recover, first pass: transitional ledger states are outbox markers *)

RecoverBegin ==
    /\ oa.pc = "idle"
    /\ \/ /\ ledger.status \in {"publishing", "published"}
          /\ IF Pending THEN Mark("published") /\ Proceed("incoming")
                        ELSE UNCHANGED ledger /\ Proceed("outbox_result")
       \/ /\ ledger.status = "requeueing"
          /\ Proceed("requeue_pending") /\ UNCHANGED ledger
       \/ /\ ledger.status \notin {"publishing", "published", "requeueing"}
          /\ Proceed("incoming") /\ UNCHANGED ledger
    /\ UNCHANGED <<taskFiles, lease, execution, resultFiles, sessionVars, history>>

\* The slot's state and identity are read from the registry: an input here.
OutboxResult ==
    /\ oa.pc = "outbox_result"
    /\ \/ outgoing # None /\ Proceed("incoming") /\ UNCHANGED ledger
       \/ outgoing = None /\ Goto("outbox_publish") /\ UNCHANGED ledger
       \/ outgoing = None /\ Mark("failed") /\ Proceed("incoming")
    /\ UNCHANGED <<taskFiles, lease, execution, resultFiles, sessionVars, history>>

\* find_pending_task looks in incoming/ first, then in claimed/.
RequeuePending ==
    /\ oa.pc = "requeue_pending"
    /\ \/ /\ incoming # None
          /\ incoming.attempt # ledger.attempt
          /\ oa' = [oa EXCEPT !.pc = "requeue_write", !.ret = "incoming",
                              !.task = [Young(incoming) EXCEPT !.attempt = ledger.attempt]]
          /\ UNCHANGED ledger
       \/ /\ incoming # None
          /\ incoming.attempt = ledger.attempt
          /\ Mark("requeued") /\ Proceed("incoming")
       \/ /\ incoming = None /\ claimed # None
          /\ MarkAttempt("requeued", claimed.attempt) /\ Proceed("incoming")
       \/ /\ ~Pending /\ dead # None
          /\ oa' = [oa EXCEPT !.pc = "dead_write", !.ret = "incoming"]
          /\ UNCHANGED ledger
       \/ /\ ~Pending /\ dead = None
          /\ Goto("requeue_result")
          /\ UNCHANGED ledger
    /\ UNCHANGED <<taskFiles, lease, execution, resultFiles, sessionVars, history>>

RequeueResult ==
    /\ oa.pc = "requeue_result"
    /\ IF outgoing = None THEN Mark("failed") ELSE UNCHANGED ledger
    /\ Proceed("incoming")
    /\ UNCHANGED <<taskFiles, lease, execution, resultFiles, sessionVars, history>>

-----------------------------------------------------------------------------
(* OA: recover, sweeps *)

\* expired_incoming. The delivery timeout is any positive number of seconds:
\* a file older than the grace may or may not be past it.
IncomingSweep ==
    /\ oa.pc = "incoming"
    /\ \/ /\ incoming # None /\ incoming.aged /\ outgoing = None
          /\ oa' = [oa EXCEPT !.pc = "bury_move", !.ret = "leases",
                              !.from = "incoming", !.task = Young(incoming)]
       \/ Proceed("leases")
    /\ UNCHANGED <<taskFiles, lease, execution, resultFiles, ledger, sessionVars, history>>

LeaseSweep ==
    /\ oa.pc = "leases"
    /\ Proceed(IF lease # None /\ lease.expired THEN "lease_result" ELSE "orphans")
    /\ UNCHANGED <<taskFiles, lease, execution, resultFiles, ledger, sessionVars, history>>

\* result_exists, then claimed_task_for_lease.
LeaseResult ==
    /\ oa.pc = "lease_result"
    /\ oa' = IF outgoing = None /\ claimed # None
             THEN [oa EXCEPT !.pc = "recover_one", !.ret = "lease_unlink", !.task = Young(claimed)]
             ELSE [oa EXCEPT !.pc = "lease_unlink"]
    /\ UNCHANGED <<taskFiles, lease, execution, resultFiles, ledger, sessionVars, history>>

LeaseUnlink ==
    /\ oa.pc = "lease_unlink"
    /\ lease' = None
    /\ Proceed("orphans")
    /\ UNCHANGED <<taskFiles, execution, resultFiles, ledger, sessionVars, history>>

OrphanSweep ==
    /\ oa.pc = "orphans"
    /\ oa' = IF claimed # None /\ claimed.aged /\ lease = None
             THEN [oa EXCEPT !.pc = "recover_one", !.ret = "dead", !.task = Young(claimed)]
             ELSE [oa EXCEPT !.pc = "dead"]
    /\ UNCHANGED <<taskFiles, lease, execution, resultFiles, ledger, sessionVars, history>>

\* A crash between dead_letter and the ledger transition is repaired here.
DeadReconcile ==
    /\ oa.pc = "dead"
    /\ IF dead # None /\ ledger.status \notin {"dead", "completed", "failed"}
       THEN Mark("dead") ELSE UNCHANGED ledger
    /\ Proceed("idle")
    /\ UNCHANGED <<taskFiles, lease, execution, resultFiles, sessionVars, history>>

-----------------------------------------------------------------------------
(* OA: recover_one, requeue_claimed and dead_letter *)

\* A retried requeueing keeps its attempt; anything else takes the next one.
RecoveryAttempt ==
    IF ledger.status = "requeueing" /\ ledger.attempt > oa.task.attempt
    THEN ledger.attempt
    ELSE Larger(oa.task.attempt, ledger.attempt) + 1

OverBudgetLate(n) == n > MaxRetries + 1     \* mutant: one retry too many
OverBudget(n) == n > MaxRetries

RecoverOne ==
    /\ oa.pc = "recover_one"
    /\ \/ /\ outgoing # None
          /\ Goto("claimed_unlink")
          /\ UNCHANGED ledger
       \/ /\ outgoing = None
          /\ OverBudget(RecoveryAttempt)
          /\ RecoveryAttempt <= MaxAttempt
          /\ MarkAttempt("dead_lettering", RecoveryAttempt)
          /\ oa' = [oa EXCEPT !.pc = "bury_move", !.from = "claimed",
                              !.task.attempt = RecoveryAttempt]
       \/ /\ outgoing = None
          /\ ~OverBudget(RecoveryAttempt)
          /\ RecoveryAttempt <= MaxAttempt
          /\ MarkAttempt("requeueing", RecoveryAttempt)
          /\ oa' = [oa EXCEPT !.pc = "requeue_move", !.task.attempt = RecoveryAttempt]
    /\ UNCHANGED <<taskFiles, lease, execution, resultFiles, sessionVars, history>>

ClaimedUnlink ==
    /\ oa.pc = "claimed_unlink"
    /\ claimed' = None
    /\ Proceed(oa.ret)
    /\ UNCHANGED <<incoming, dead, archivedTask, lease, execution, resultFiles,
                   ledger, sessionVars, history>>

\* Mutant: the claim is unlinked first and written to incoming/ afterwards.
RequeueUnlink ==
    /\ oa.pc = "requeue_move"
    /\ claimed' = None
    /\ Goto("requeue_grant")
    /\ UNCHANGED <<incoming, dead, archivedTask, lease, execution, resultFiles,
                   ledger, sessionVars, history>>

\* requeue_claimed: rename first, rewrite the attempt afterwards.
RequeueMove ==
    /\ oa.pc = "requeue_move"
    /\ IF incoming = None /\ claimed # None
       THEN incoming' = claimed /\ claimed' = None /\ Goto("requeue_grant")
       ELSE UNCHANGED <<incoming, claimed>> /\ Proceed(oa.ret)
    /\ UNCHANGED <<dead, archivedTask, lease, execution, resultFiles, ledger,
                   sessionVars, history>>

RequeueDropGrant ==
    /\ oa.pc = "requeue_grant"
    /\ execution' = None
    /\ Goto("requeue_write")
    /\ UNCHANGED <<taskFiles, lease, resultFiles, ledger, sessionVars, history>>

RequeueWrite ==
    /\ oa.pc = "requeue_write"
    /\ incoming' = oa.task
    /\ Goto("requeue_mark")
    /\ UNCHANGED <<claimed, dead, archivedTask, lease, execution, resultFiles,
                   ledger, sessionVars, history>>

RequeueMark ==
    /\ oa.pc = "requeue_mark"
    /\ MarkAttempt("requeued", oa.task.attempt)
    /\ Proceed(oa.ret)
    /\ UNCHANGED <<taskFiles, lease, execution, resultFiles, sessionVars, history>>

\* dead_letter of an expired incoming file or of a claim with no budget left.
BuryMove ==
    /\ oa.pc = "bury_move"
    /\ \/ /\ oa.from = "incoming" /\ incoming # None
          /\ dead' = Young(incoming) /\ incoming' = None
          /\ Goto("bury_grant") /\ UNCHANGED claimed
       \/ /\ oa.from = "claimed" /\ claimed # None
          /\ dead' = Young(claimed) /\ claimed' = None
          /\ Goto("bury_grant") /\ UNCHANGED incoming
       \/ /\ IF oa.from = "incoming" THEN incoming = None ELSE claimed = None
          /\ Proceed(oa.ret) /\ UNCHANGED <<incoming, claimed, dead>>
    /\ UNCHANGED <<archivedTask, lease, execution, resultFiles, ledger, sessionVars, history>>

BuryDropGrant ==
    /\ oa.pc = "bury_grant"
    /\ execution' = None
    /\ Goto("bury_write")
    /\ UNCHANGED <<taskFiles, lease, resultFiles, ledger, sessionVars, history>>

BuryWrite ==
    /\ oa.pc = "bury_write"
    /\ dead' = oa.task
    /\ Goto("bury_mark")
    /\ UNCHANGED <<incoming, claimed, archivedTask, lease, execution, resultFiles,
                   ledger, sessionVars, history>>

\* A delivery timeout leaves the ledger's attempt alone.
BuryMark ==
    /\ oa.pc = "bury_mark"
    /\ IF oa.from = "incoming" THEN Mark("dead") ELSE MarkAttempt("dead", oa.task.attempt)
    /\ Proceed(oa.ret)
    /\ UNCHANGED <<taskFiles, lease, execution, resultFiles, sessionVars, history>>

-----------------------------------------------------------------------------
(* OA: dead --requeue, and the repair of one that was interrupted *)

\* Mutant: the file is moved before the ledger is marked.
DeadRequeueUnmarked ==
    /\ oa.pc = "idle"
    /\ dead # None
    /\ oa' = [OaIdle EXCEPT !.pc = "dead_move"]
    /\ fresh' = [fresh EXCEPT !.revived = TRUE]
    /\ UNCHANGED <<taskFiles, lease, execution, resultFiles, ledger, sessionVars,
                   issued, granted, submitted>>

DeadRequeue ==
    /\ oa.pc = "idle"
    /\ dead # None
    /\ LET n == Larger(dead.attempt, ledger.attempt) + 1
       IN n <= MaxAttempt /\ MarkAttempt("requeueing", n)
    /\ oa' = [OaIdle EXCEPT !.pc = "dead_write"]
    /\ fresh' = [fresh EXCEPT !.revived = TRUE]
    /\ UNCHANGED <<taskFiles, lease, execution, resultFiles, sessionVars,
                   issued, granted, submitted>>

DeadWrite ==
    /\ oa.pc = "dead_write"
    /\ dead' = [dead EXCEPT !.attempt = ledger.attempt]
    /\ Goto("dead_move")
    /\ UNCHANGED <<incoming, claimed, archivedTask, lease, execution, resultFiles,
                   ledger, sessionVars, history>>

DeadMove ==
    /\ oa.pc = "dead_move"
    /\ incoming' = dead /\ dead' = None
    /\ oa' = [oa EXCEPT !.pc = "requeue_mark", !.task = dead]
    /\ UNCHANGED <<claimed, archivedTask, lease, execution, resultFiles, ledger,
                   sessionVars, history>>

-----------------------------------------------------------------------------
(* OA: collect *)

\* The result a pass of collect looks at: first outgoing/, then archive/results/.
Inspected(where) == IF where = "outgoing" THEN outgoing ELSE archivedResult

\* inspect_result up to the attempt fence; the listing of claimed/ that
\* provenance_task starts with is taken in the same step.
NextPass(where) == Proceed(IF where = "outgoing" /\ archivedResult # None
                           THEN "collect_archive_pass" ELSE "idle")
NotFromTheFuture(result) == result.attempt <= ledger.attempt   \* mutant: fences one way
OfCurrentAttempt(result) == result.attempt = ledger.attempt
Inspect(where) ==
    IF Inspected(where) = None
    THEN NextPass(where)
    ELSE oa' = [OaIdle EXCEPT !.where = where, !.res = Inspected(where),
                              !.listed = IF claimed # None THEN {"claimed"} ELSE {},
                              !.pc = IF OfCurrentAttempt(Inspected(where))
                                     THEN "collect_list" ELSE "collect_quarantine"]

CollectBegin ==
    /\ oa.pc = "idle"
    /\ Inspect("outgoing")
    /\ UNCHANGED <<taskFiles, lease, execution, resultFiles, ledger, sessionVars, history>>

CollectArchivePass ==
    /\ oa.pc = "collect_archive_pass"
    /\ Inspect("archive")
    /\ UNCHANGED <<taskFiles, lease, execution, resultFiles, ledger, sessionVars, history>>

CollectList ==
    /\ oa.pc = "collect_list"
    /\ oa' = [oa EXCEPT !.pc = "collect_judge",
                        !.listed = @ \cup IF archivedTask # None THEN {"archive"} ELSE {}]
    /\ UNCHANGED <<taskFiles, lease, execution, resultFiles, ledger, sessionVars, history>>

\* A listed file that has been renamed away since reads as absent.
Proves(file) == file # None /\ file.token = oa.res.token /\ file.attempt = oa.res.attempt
Provenance == \/ "claimed" \in oa.listed /\ Proves(claimed)
              \/ "archive" \in oa.listed /\ Proves(archivedTask)

Complete(where) == ledger' = [ledger EXCEPT !.status = "completed", !.result = oa.res,
                                            !.file = where]
CompletedAndFiled == ledger.status = "completed" /\ ledger.file = "archive"   \* mutant
AlreadyCompleted == ledger.status = "completed" /\ ledger.file # None

\* The verdict on a result of outgoing/ and, below, of archive/results/.
CollectOutgoing ==
    /\ oa.pc = "collect_judge" /\ oa.where = "outgoing"
    /\ \/ /\ ~Provenance \/ (AlreadyCompleted /\ <<ledger.result, ledger.file>> # <<oa.res, "outgoing">>)
          /\ Goto("collect_quarantine")
          /\ UNCHANGED ledger
       \/ /\ Provenance
          /\ AlreadyCompleted => ledger.result = oa.res /\ ledger.file = "outgoing"
          /\ IF AlreadyCompleted THEN UNCHANGED ledger ELSE Complete("outgoing")
          /\ Goto("collect_archive") \/ NextPass(oa.where)   \* with or without --archive
    /\ UNCHANGED <<taskFiles, lease, execution, resultFiles, sessionVars, history>>

CollectArchived ==
    /\ oa.pc = "collect_judge" /\ oa.where = "archive"
    /\ \/ ~Provenance /\ Goto("collect_quarantine") /\ UNCHANGED ledger
       \/ /\ Provenance
          /\ IF ledger.status = "completed"
             THEN ledger' = [ledger EXCEPT !.file = "archive"]
             ELSE Complete("archive")
          /\ NextPass(oa.where)
    /\ UNCHANGED <<taskFiles, lease, execution, resultFiles, sessionVars, history>>

\* quarantine_result renames whatever the path holds by now.
CollectQuarantine ==
    /\ oa.pc = "collect_quarantine"
    /\ IF oa.where = "outgoing"
       THEN outgoing' = None /\ UNCHANGED archivedResult
       ELSE archivedResult' = None /\ UNCHANGED outgoing
    /\ NextPass(oa.where)
    /\ UNCHANGED <<taskFiles, lease, execution, ledger, sessionVars, history>>

CollectArchive ==
    /\ oa.pc = "collect_archive"
    /\ archivedResult' = outgoing /\ outgoing' = None
    /\ Goto("collect_file")
    /\ UNCHANGED <<taskFiles, lease, execution, ledger, sessionVars, history>>

CollectFile ==
    /\ oa.pc = "collect_file"
    /\ ledger' = [ledger EXCEPT !.file = "archive"]
    /\ NextPass(oa.where)
    /\ UNCHANGED <<taskFiles, lease, execution, resultFiles, sessionVars, history>>

OaCrash ==
    /\ oa.pc # "idle"
    /\ oa' = OaIdle
    /\ UNCHANGED <<taskFiles, lease, execution, resultFiles, ledger, sessionVars, history>>

-----------------------------------------------------------------------------
(* Sessions: watch and claim *)

\* begin_execution holds the invocation and the execution lock while it decides.
NoLocks == TRUE   \* mutant: the locks are not taken
LocksFree == \A s \in Session : pc[s] # "granting"

Step(s, from, to) == pc[s] = from /\ pc' = [pc EXCEPT ![s] = to]
Forget(s) == pc' = [pc EXCEPT ![s] = "idle"] /\ mine' = [mine EXCEPT ![s] = Nothing]

\* start_invocation supersedes the previous watcher run.
StartInvocation(s) ==
    /\ invocation < MaxInvocations
    /\ LocksFree
    /\ Step(s, "idle", "watching")
    /\ invocation' = invocation + 1
    /\ mine' = [mine EXCEPT ![s] = [Nothing EXCEPT !.inv = invocation + 1]]
    /\ UNCHANGED <<taskFiles, lease, execution, resultFiles, ledger, oa, history>>

Resumable == /\ lease # None /\ ~lease.expired
             /\ claimed # None /\ claimed.token = lease.token
             /\ outgoing = None

\* resumable_claim: redeliver the claim whose delivery may have been lost.
ResumeClaim(s) ==
    /\ Step(s, "watching", "holding")
    /\ Resumable
    /\ mine' = [mine EXCEPT ![s].task = Young(claimed)]
    /\ UNCHANGED <<taskFiles, lease, execution, resultFiles, ledger, oa, invocation, history>>

\* claim_task: load, rename, stamp, lease. The slot being `on` is an input.
ClaimLoad(s) ==
    /\ Step(s, "watching", "loaded")
    /\ ~Resumable
    /\ incoming # None
    /\ mine' = [mine EXCEPT ![s].task = Young(incoming)]
    /\ UNCHANGED <<taskFiles, lease, execution, resultFiles, ledger, oa, invocation, history>>

\* The rename keeps the file's modification time.
ClaimMove(s) ==
    /\ incoming # None
    /\ Step(s, "loaded", "moved")
    /\ claimed' = incoming /\ incoming' = None
    /\ UNCHANGED <<dead, archivedTask, lease, execution, resultFiles, ledger, oa,
                   mine, invocation, history>>

ClaimLost(s) ==
    /\ incoming = None
    /\ Step(s, "loaded", "watching")
    /\ UNCHANGED <<taskFiles, lease, execution, resultFiles, ledger, oa, mine,
                   invocation, history>>

\* The stamped file is written from the copy loaded before the rename.
Stamp(s) ==
    /\ fresh.claim < MaxClaims
    /\ Step(s, "moved", "stamped")
    /\ fresh' = [fresh EXCEPT !.claim = @ + 1,
                              !.torn = @ \/ claimed = None \/ Young(claimed) # mine[s].task]
    /\ claimed' = [mine[s].task EXCEPT !.token = fresh.claim + 1, !.aged = FALSE]
    /\ mine' = [mine EXCEPT ![s].task = claimed']
    /\ issued' = issued \cup {<<fresh.claim + 1, mine[s].task.attempt>>}
    /\ UNCHANGED <<incoming, dead, archivedTask, lease, execution, resultFiles,
                   ledger, oa, invocation, granted, submitted>>

WriteLease(s) ==
    /\ Step(s, "stamped", "holding")
    /\ lease' = [token |-> mine[s].task.token, expired |-> FALSE]
    /\ UNCHANGED <<taskFiles, execution, resultFiles, ledger, oa, mine, invocation, history>>

\* deliver_task under invocation_delivery_guard; a superseded run exits 40.
Deliver(s) ==
    /\ LocksFree
    /\ mine[s].inv = invocation
    /\ Step(s, "holding", "delivered")
    /\ UNCHANGED <<taskFiles, lease, execution, resultFiles, ledger, oa, mine,
                   invocation, history>>

DeliverSuperseded(s) ==
    /\ LocksFree
    /\ pc[s] = "holding"
    /\ mine[s].inv # invocation
    /\ Forget(s)
    /\ UNCHANGED <<taskFiles, lease, execution, resultFiles, ledger, oa, invocation, history>>

-----------------------------------------------------------------------------
(* Sessions: begin, execute, complete *)

HoldsClaim(s) == claimed # None /\ claimed.token = mine[s].task.token
GrantOfClaim(s) == execution # None /\ execution.token = mine[s].task.token   \* mutant
OwnGrant(s) == /\ execution # None
               /\ execution.token = mine[s].task.token
               /\ execution.inv = mine[s].inv

\* begin_execution up to find_claimed_task: the locks are held from here on.
BeginCheck(s) ==
    /\ LocksFree
    /\ mine[s].inv = invocation /\ HoldsClaim(s)
    /\ Step(s, "delivered", "granting")
    /\ UNCHANGED <<taskFiles, lease, execution, resultFiles, ledger, oa, mine,
                   invocation, history>>

LastExecution == fresh.exec   \* mutant: no token, where the first one is due
NextExecution == fresh.exec + 1

BeginGrant(s) ==
    /\ execution = None
    /\ fresh.exec < MaxGrants
    /\ Step(s, "granting", "executing")
    /\ fresh' = [fresh EXCEPT !.exec = @ + 1]
    /\ execution' = [token |-> mine[s].task.token, inv |-> mine[s].inv,
                     exec |-> NextExecution]
    /\ granted' = granted \cup {execution'}
    /\ mine' = [mine EXCEPT ![s].exec = NextExecution]
    /\ UNCHANGED <<taskFiles, lease, resultFiles, ledger, oa, invocation,
                   issued, submitted>>

\* The same invocation asks again: its grant is returned.
BeginRecovered(s) ==
    /\ OwnGrant(s)
    /\ Step(s, "granting", "executing")
    /\ mine' = [mine EXCEPT ![s].exec = execution.exec]
    /\ UNCHANGED <<taskFiles, lease, execution, resultFiles, ledger, oa, invocation, history>>

BeginFenced(s) ==
    /\ \/ /\ pc[s] = "delivered" /\ LocksFree
          /\ mine[s].inv # invocation \/ ~HoldsClaim(s)
       \/ /\ pc[s] = "granting"
          /\ execution # None /\ ~OwnGrant(s)
    /\ Forget(s)
    /\ UNCHANGED <<taskFiles, lease, execution, resultFiles, ledger, oa, invocation, history>>

\* The begin process dies before its grant or before its answer; the agent, who
\* knows of no execution token then, can call begin again.
BeginCrash(s) ==
    /\ pc[s] = "granting" \/ (pc[s] = "executing" /\ mine[s].exec # 0)
    /\ pc' = [pc EXCEPT ![s] = "delivered"]
    /\ mine' = [mine EXCEPT ![s].exec = 0]
    /\ UNCHANGED <<taskFiles, lease, execution, resultFiles, ledger, oa, invocation, history>>

\* A pre-fence adapter executes on delivery.
ExecuteUnfenced(s) ==
    /\ s \in Legacy
    /\ Step(s, "delivered", "executing")
    /\ UNCHANGED <<taskFiles, lease, execution, resultFiles, ledger, oa, mine,
                   invocation, history>>

\* verify_execution; without a token only while no grant exists.
Verified(s) == IF mine[s].exec = 0
               THEN execution = None
               ELSE /\ execution # None
                    /\ execution.token = mine[s].task.token
                    /\ execution.exec = mine[s].exec

\* command_complete reads the claimed file; attempt and token are echoed from it.
CompleteCheck(s) ==
    /\ LocksFree
    /\ HoldsClaim(s) /\ Verified(s)
    /\ Step(s, "executing", "submitting")
    /\ mine' = [mine EXCEPT ![s].task = Young(claimed)]
    /\ UNCHANGED <<taskFiles, lease, execution, resultFiles, ledger, oa, invocation, history>>

CompleteFenced(s) ==
    /\ LocksFree
    /\ pc[s] = "executing"
    /\ ~(HoldsClaim(s) /\ Verified(s))
    /\ Forget(s)
    /\ UNCHANGED <<taskFiles, lease, execution, resultFiles, ledger, oa, invocation, history>>

\* submit_result: publish, drop the grant, drop the lease, archive the claim.
SubmitPublish(s) ==
    /\ fresh.sub < MaxSubmits
    /\ Step(s, "submitting", "published")
    /\ fresh' = [fresh EXCEPT !.sub = @ + 1]
    /\ outgoing' = [attempt |-> mine[s].task.attempt, token |-> mine[s].task.token,
                    exec |-> mine[s].exec, sub |-> fresh.sub + 1]
    /\ submitted' = submitted \cup {outgoing'}
    /\ UNCHANGED <<taskFiles, lease, execution, archivedResult, ledger, oa, mine,
                   invocation, issued, granted>>

SubmitDropGrant(s) ==
    /\ Step(s, "published", "ungranted")
    /\ execution' = None
    /\ UNCHANGED <<taskFiles, lease, resultFiles, ledger, oa, mine, invocation, history>>

SubmitDropLease(s) ==
    /\ Step(s, "ungranted", "unleased")
    /\ lease' = None
    /\ UNCHANGED <<taskFiles, execution, resultFiles, ledger, oa, mine, invocation, history>>

\* The rename takes whatever file bears the claim's name; if there is none the
\* submission was superseded. The session is done either way.
SubmitArchive(s) ==
    /\ pc[s] = "unleased"
    /\ IF claimed # None
       THEN archivedTask' = Young(claimed) /\ claimed' = None
       ELSE UNCHANGED <<archivedTask, claimed>>
    /\ Forget(s)
    /\ UNCHANGED <<incoming, dead, lease, execution, resultFiles, ledger, oa,
                   invocation, history>>

\* The complete process dies; its agent can call complete again.
CompleteCrash(s) ==
    /\ pc[s] \in {"submitting", "published", "ungranted", "unleased"}
    /\ pc' = [pc EXCEPT ![s] = "executing"]
    /\ UNCHANGED <<taskFiles, lease, execution, resultFiles, ledger, oa, mine,
                   invocation, history>>

\* The session is gone with all it knew: host timeout, lost output, kill.
SessionCrash(s) ==
    /\ pc[s] # "idle"
    /\ Forget(s)
    /\ UNCHANGED <<taskFiles, lease, execution, resultFiles, ledger, oa, invocation, history>>

-----------------------------------------------------------------------------
(* Time. recover judges every age and every lease against the moment it     *)
(* started, so time may as well stand still while a command runs.           *)

LeaseExpires ==
    /\ oa.pc = "idle"
    /\ lease # None
    /\ lease' = [lease EXCEPT !.expired = TRUE]
    /\ UNCHANGED <<taskFiles, execution, resultFiles, ledger, oa, sessionVars, history>>

IncomingAges ==
    /\ oa.pc = "idle"
    /\ incoming # None
    /\ incoming' = [incoming EXCEPT !.aged = TRUE]
    /\ UNCHANGED <<claimed, dead, archivedTask, lease, execution, resultFiles,
                   ledger, oa, sessionVars, history>>

\* A live claimer takes far less than the grace from its rename to its lease.
ClaimedAges ==
    /\ oa.pc = "idle"
    /\ claimed # None
    /\ \A s \in Session : pc[s] \notin {"moved", "stamped"}
    /\ claimed' = [claimed EXCEPT !.aged = TRUE]
    /\ UNCHANGED <<incoming, dead, archivedTask, lease, execution, resultFiles,
                   ledger, oa, sessionVars, history>>

-----------------------------------------------------------------------------
Send == SendRecord \/ PublishTask \/ MarkPublished
Outbox == RecoverBegin \/ OutboxResult \/ RequeuePending \/ RequeueResult
Sweep == IncomingSweep \/ LeaseSweep \/ LeaseResult \/ LeaseUnlink \/ OrphanSweep \/ DeadReconcile
Requeue == RecoverOne \/ ClaimedUnlink \/ RequeueMove \/ RequeueDropGrant \/ RequeueWrite \/ RequeueMark
Bury == BuryMove \/ BuryDropGrant \/ BuryWrite \/ BuryMark
Revive == DeadRequeue \/ DeadWrite \/ DeadMove
Collect == \/ CollectBegin \/ CollectArchivePass \/ CollectList \/ CollectOutgoing
           \/ CollectArchived \/ CollectQuarantine \/ CollectArchive \/ CollectFile
OaStep == Send \/ Outbox \/ Sweep \/ Requeue \/ Bury \/ Revive \/ Collect \/ OaCrash

Watch(s) == \/ StartInvocation(s) \/ ResumeClaim(s) \/ ClaimLoad(s) \/ ClaimMove(s) \/ ClaimLost(s)
            \/ Stamp(s) \/ WriteLease(s) \/ Deliver(s) \/ DeliverSuperseded(s)
Execute(s) == \/ BeginCheck(s) \/ BeginGrant(s) \/ BeginRecovered(s) \/ BeginCrash(s)
              \/ BeginFenced(s) \/ ExecuteUnfenced(s) \/ CompleteCheck(s) \/ CompleteFenced(s)
Submit(s) == SubmitPublish(s) \/ SubmitDropGrant(s) \/ SubmitDropLease(s) \/ SubmitArchive(s)
SessionStep(s) == Watch(s) \/ Execute(s) \/ Submit(s) \/ CompleteCrash(s) \/ SessionCrash(s)

Time == LeaseExpires \/ IncomingAges \/ ClaimedAges

Next == OaStep \/ (\E s \in Session : SessionStep(s)) \/ Time

Spec == Init /\ [][Next]_vars

-----------------------------------------------------------------------------
(* Properties *)

\* Every file and every local variable has the shape the code reads it with.
TypeOK ==
    /\ incoming \in TaskFile \cup {None} /\ claimed \in TaskFile \cup {None}
    /\ dead \in TaskFile \cup {None} /\ archivedTask \in TaskFile \cup {None}
    /\ lease \in Lease \cup {None}
    /\ execution \in Grant \cup {None}
    /\ outgoing \in Result \cup {None} /\ archivedResult \in Result \cup {None}
    /\ ledger \in Ledger
    /\ oa \in Oa
    /\ invocation \in Nat
    /\ pc \in [Session -> SessionPc]
    /\ mine \in [Session -> Held]
    /\ fresh \in Fresh
    /\ issued \subseteq Nat \X Nat
    /\ granted \subseteq Grant
    /\ submitted \subseteq Result

\* Once published, the task never vanishes: through every rename, rewrite, crash
\* and overlapping recovery some copy of it, or a result of it, is on the bus.
\* (failed is the verdict on a task the outbox could not publish.)
Custody == ledger.status \notin {"none", "publishing", "failed"} =>
              \/ \E file \in {incoming, claimed, dead, archivedTask} : file # None
              \/ submitted # {}

\* Automatic recovery keeps to the retry budget: until an operator revives the
\* task, no claim is ever stamped with an attempt beyond max_retries, whichever
\* of the outbox repair, the lease sweep and the orphan sweep requeued it.
RetryBudget == ~fresh.revived => \A claim \in issued : claim[2] <= Larger(1, MaxRetries)

\* A task the ledger calls dead can be revived: its dead letter is there, also
\* after a crash anywhere in dead_letter, dead --requeue or their repair.
DeadLetterKept == ledger.status = "dead" => dead # None

\* Record before act: no claimable or claimed copy of the task carries an
\* attempt the ledger has not recorded, so the attempt fence of collect can
\* never reject the newest work as stale.
WriteAhead == ~fresh.torn => \A file \in {incoming, claimed} : file # None => file.attempt <= ledger.attempt

\* A completed task is completed by a result of its current attempt, whatever
\* stale result files recovery left in outgoing/ and archive/results/.
CompletedCurrent == ledger.status = "completed" =>
                       ledger.result # None /\ ledger.result.attempt = ledger.attempt

\* A result the OA has recorded gives way to no other while its task stays
\* completed, whatever recovery, a retried complete or an abandoned session submits
\* late; nor, when a reopened task is completed again, to one of an earlier attempt,
\* unless a claimer resumed its stamp after its claim was gone (see the README).
ReportedStands == [][ledger.result \notin {None, ledger'.result}
                        => /\ ledger.status # "completed"
                           /\ ~fresh.torn => ledger'.result.attempt >= ledger.result.attempt]_ledger

\* Of all the sessions that believe they are executing the task, complete would
\* accept one at most: begin hands no grant to two watcher runs.
ExclusiveExecution ==
    \A s, t \in Session :
        (/\ pc[s] = "executing" /\ mine[s].exec # 0 /\ Verified(s)
         /\ pc[t] = "executing" /\ mine[t].exec # 0 /\ Verified(t)) => s = t

\* A grant is written for the current watcher run alone: a successor cannot slip
\* in between begin's check of the invocation epoch and its write of the grant.
GrantIsCurrent == [][execution' \notin {None, execution} => execution'.inv = invocation']_vars

(* What a document says and the code does not keep; see the README. *)

\* collect-validate.md: "The attempt fence is strict: ... `recover` and `dead
\* --requeue` bump the attempt, so a late result from a superseded claim is
\* rejected": what the ledger accepted was issued at the attempt it answers for,
\* that is, some claim with the result's token was stamped with its attempt.
AcceptedIssued == ledger.result # None =>
                     <<ledger.result.token, ledger.result.attempt>> \in issued
=============================================================================
