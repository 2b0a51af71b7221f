------------------------------ MODULE OaWriter ------------------------------
(***************************************************************************)
(* Who may write for the OA: the writer lease (var/oa/writer_lease.json)    *)
(* fences OA identities, the command mutex (.command.lock, a FileLock)      *)
(* serializes the commands, of one identity too, and a thread renews the    *)
(* lease while a command runs.                                              *)
(*                                                                         *)
(* A process is a terminal in which commands of any OA are started one      *)
(* after the other. ensure_oa_writer reads and writes the lease under a     *)
(* lock of its own: one step. The lease expires at any time: nobody renewed *)
(* it, or the machine or the thread that should have was suspended.         *)
(***************************************************************************)
EXTENDS FileLock

CONSTANTS Oa        \* values of PAO_OA_ID

VARIABLES
    lease,          \* writer_lease.json
    valid,          \* expires_at is in the future
    cmd             \* the command of each process: where it is, its OA identity,
                    \* and whether renewal_errors is not empty

writerVars == <<lease, valid, cmd>>
vars == <<lockVars, writerVars>>

At == {"idle", "mutex", "handler", "mutating", "leaving"}
Idle == [at |-> "idle", oa |-> None, lost |-> FALSE]

Init ==
    /\ LockInit
    /\ lease = None /\ valid = FALSE
    /\ cmd = [p \in Process |-> Idle]

\* ensure_oa_writer: refused under another identity's unexpired lease.
Grants(oa) == valid => lease = oa
Ensure(oa) == lease' = oa /\ valid' = TRUE
Goto(p, label) == cmd' = [cmd EXCEPT ![p].at = label]
Ended(p) == cmd' = [cmd EXCEPT ![p] = Idle]

\* renewable_oa_writer: a first check before waiting for the mutex.
Start(p) ==
    /\ cmd[p] = Idle /\ lpc[p] = "out"
    /\ \E oa \in Oa :
           /\ Grants(oa) /\ Ensure(oa)
           /\ cmd' = [cmd EXCEPT ![p] = [at |-> "mutex", oa |-> oa, lost |-> FALSE]]
    /\ lpc' = [lpc EXCEPT ![p] = "wait"]
    /\ UNCHANGED <<lock, looked, robbed, kills>>

\* mutant: the lease is not checked again after the wait
CheckAgainNot(p, from, to) ==
    /\ cmd[p].at = from /\ lpc[p] = "held"
    /\ Goto(p, to)
    /\ UNCHANGED <<lease, valid, lockVars>>
\* The mutex is held: the lease is checked again, and by the handler once more.
CheckAgain(p, from, to) ==
    /\ cmd[p].at = from /\ lpc[p] = "held"
    /\ IF Grants(cmd[p].oa)
       THEN Ensure(cmd[p].oa) /\ Goto(p, to)
       ELSE UNCHANGED <<lease, valid>> /\ Goto(p, "leaving")
    /\ UNCHANGED lockVars
Enter(p) == CheckAgain(p, "mutex", "handler")
Handle(p) == CheckAgain(p, "handler", "mutating")

\* The renewal thread: a refusal is kept for the end of the command, and ends it.
Renew(p) ==
    /\ cmd[p].at \in {"handler", "mutating"} /\ ~cmd[p].lost
    /\ IF Grants(cmd[p].oa)
       THEN Ensure(cmd[p].oa) /\ UNCHANGED cmd
       ELSE cmd' = [cmd EXCEPT ![p].lost = TRUE] /\ UNCHANGED <<lease, valid>>
    /\ UNCHANGED lockVars

Finish(p) ==
    /\ cmd[p].at = "mutating"
    /\ Goto(p, "leaving")
    /\ UNCHANGED <<lease, valid, lockVars>>

Leave(p) ==
    /\ cmd[p].at = "leaving"
    /\ Release(p)
    /\ Ended(p)
    /\ UNCHANGED <<lease, valid>>

\* A step of the lock; a wait that times out ends the command.
Mutex(p) ==
    /\ LockStep(p)
    /\ IF lpc'[p] = "out" THEN Ended(p) ELSE UNCHANGED cmd
    /\ UNCHANGED <<lease, valid>>

Kill(p) ==
    /\ LockKill(p)
    /\ Ended(p)
    /\ UNCHANGED <<lease, valid>>

Expire ==
    /\ valid
    /\ valid' = FALSE
    /\ UNCHANGED <<lease, cmd, lockVars>>

Grow == Age /\ UNCHANGED writerVars

Command(p) == Enter(p) \/ Handle(p) \/ Finish(p) \/ Leave(p) \/ Mutex(p)

Next ==
    \/ \E p \in Process : Start(p) \/ Command(p) \/ Renew(p) \/ Kill(p)
    \/ Expire \/ Grow

Spec == Init /\ [][Next]_vars

\* Time passes, commands go on to their end, and every terminal starts another one;
\* nothing is assumed of renewals, expiry or kills.
FairSpec == Spec /\ WF_vars(Grow) /\ \A p \in Process : WF_vars(Start(p) \/ Command(p))

-----------------------------------------------------------------------------
(* Properties *)

TypeOK ==
    /\ LockTypeOK
    /\ lease \in Oa \cup {None} /\ valid \in BOOLEAN
    /\ cmd \in [Process -> [at : At, oa : Oa \cup {None}, lost : BOOLEAN]]
    /\ valid => lease # None
    /\ \A p \in Process : cmd[p].at \in {"handler", "mutating", "leaving"} => lpc[p] = "held"

\* Two commands hold the mutex together only when the lock file of one of them was
\* unlinked by a process that had looked at an earlier file or at one without a pid:
\* kills, slow holders, takeovers and late releases do not do it.
Exclusive == Cardinality(Holders \ robbed) <= 1

\* A command sets out to write only while its own identity has the unexpired lease,
\* however long it waited for the mutex and whoever took the lease meanwhile.
WritesAsOwner ==
    [][\A p \in Process : cmd[p].at # "mutating" /\ cmd'[p].at = "mutating" =>
            valid' /\ lease' = cmd[p].oa]_vars

\* A killed holder does not keep the mutex for ever ("the orphaned lock becomes
\* reclaimable after the 30-second stale threshold").
OrphanReclaimed == (lock # None /\ ~lock.alive) ~> (lock = None \/ lock.alive)
=============================================================================
