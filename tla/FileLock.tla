------------------------------ MODULE FileLock ------------------------------
(***************************************************************************)
(* common.py's FileLock: a lock file created with O_EXCL, then written with *)
(* the holder's pid and token; a contender breaks a lock that is old and    *)
(* whose pid is not alive; a holder removes on exit what it still owns.     *)
(* Looking at a lock file and unlinking its path are two steps.             *)
(*                                                                         *)
(* A process that is killed comes back under its own name with another pid: *)
(* a lock it left behind has alive = FALSE.                                 *)
(***************************************************************************)
EXTENDS Naturals, FiniteSets

CONSTANTS
    Process,        \* the processes that take the lock
    None,           \* no lock file
    MaxKills        \* bound: processes killed

\* old: st_mtime is more than stale_s ago.
LockFile == [owner : Process, written : BOOLEAN, alive : BOOLEAN, old : BOOLEAN]

ASSUME LockConstants ==
    /\ MaxKills \in Nat /\ IsFiniteSet(Process)
    /\ None \notin LockFile

VARIABLES
    lock,           \* the lock file
    lpc,            \* where each process is in __enter__ and __exit__
    looked,         \* the file a process looked at: as it was, or gone since
    robbed,         \* processes whose lock file another one removed after its
                    \* look at something else, or at a file without a pid yet
    kills           \* bound: processes killed so far

lockVars == <<lock, lpc, looked, robbed, kills>>

LockPc == {"out", "wait", "break", "write", "held", "unlink"}

LockInit ==
    /\ lock = None
    /\ lpc = [p \in Process |-> "out"]
    /\ looked = [p \in Process |-> "gone"]
    /\ robbed = {}
    /\ kills = 0

Owns(p) == lock # None /\ lock.owner = p /\ lock.alive
Holders == {p \in Process : lpc[p] = "held"}
Unlinked == lock' = None /\ looked' = [p \in Process |-> "gone"]

\* os.open(O_CREAT | O_EXCL)
Create(p) ==
    /\ lpc[p] = "wait" /\ lock = None
    /\ lock' = [owner |-> p, written |-> FALSE, alive |-> TRUE, old |-> FALSE]
    /\ lpc' = [lpc EXCEPT ![p] = "write"]
    /\ UNCHANGED <<looked, robbed, kills>>

\* The pid and the token, into the created file, be it unlinked by now.
WriteToken(p) ==
    /\ lpc[p] = "write"
    /\ lock' = IF Owns(p) THEN [lock EXCEPT !.written = TRUE, !.old = FALSE] ELSE lock
    /\ lpc' = [lpc EXCEPT ![p] = "held"]
    /\ UNCHANGED <<looked, robbed, kills>>

\* mutant: an old lock is stale whoever holds it
StaleByAge == lock # None /\ lock.old
\* A file without a pid reads as pid -1, which is not alive.
Stale == lock # None /\ lock.old /\ ~(lock.written /\ lock.alive)

LookStale(p) ==
    /\ lpc[p] = "wait" /\ Stale
    /\ lpc' = [lpc EXCEPT ![p] = "break"]
    /\ looked' = [looked EXCEPT ![p] = IF lock.written THEN "written" ELSE "empty"]
    /\ UNCHANGED <<lock, robbed, kills>>

\* The deadline passes, after at least one look.
TimeOut(p) ==
    /\ lpc[p] = "wait" /\ lock # None /\ ~Stale
    /\ lpc' = [lpc EXCEPT ![p] = "out"]
    /\ UNCHANGED <<lock, looked, robbed, kills>>

\* mutant: the stale lock is waited for, not removed
BreakNot(p) ==
    /\ lpc[p] = "break"
    /\ lpc' = [lpc EXCEPT ![p] = "wait"]
    /\ UNCHANGED <<lock, looked, robbed, kills>>
\* unlink(missing_ok): whatever file has the path now.
Break(p) ==
    /\ lpc[p] = "break"
    /\ Unlinked
    /\ robbed' = IF lock # None /\ lock.alive /\ looked[p] # "written"
                 THEN robbed \cup {lock.owner} ELSE robbed
    /\ lpc' = [lpc EXCEPT ![p] = "wait"]
    /\ UNCHANGED kills

\* __exit__: a holder that finds another token, or no file, leaves it at that.
Release(p) ==
    /\ lpc[p] = "held"
    /\ IF Owns(p) /\ lock.written
       THEN lpc' = [lpc EXCEPT ![p] = "unlink"] /\ UNCHANGED robbed
       ELSE lpc' = [lpc EXCEPT ![p] = "out"] /\ robbed' = robbed \ {p}
    /\ UNCHANGED <<lock, looked, kills>>

ReleaseUnlink(p) ==
    /\ lpc[p] = "unlink"
    /\ Unlinked
    /\ robbed' = (IF lock # None /\ lock.alive THEN robbed \cup {lock.owner} ELSE robbed) \ {p}
    /\ lpc' = [lpc EXCEPT ![p] = "out"]
    /\ UNCHANGED kills

LockStep(p) ==
    \/ Create(p) \/ WriteToken(p) \/ LookStale(p) \/ TimeOut(p) \/ Break(p)
    \/ ReleaseUnlink(p)

\* The process dies; its lock file stays.
LockKill(p) ==
    /\ lpc[p] # "out"
    /\ kills < MaxKills /\ kills' = kills + 1
    /\ lpc' = [lpc EXCEPT ![p] = "out"]
    /\ lock' = IF Owns(p) THEN [lock EXCEPT !.alive = FALSE] ELSE lock
    /\ robbed' = robbed \ {p}
    /\ UNCHANGED looked

\* stale_s passes: the holder is slow, was suspended, or is dead.
Age ==
    /\ lock # None /\ ~lock.old
    /\ lock' = [lock EXCEPT !.old = TRUE]
    /\ UNCHANGED <<lpc, looked, robbed, kills>>

LockTypeOK ==
    /\ lock \in LockFile \cup {None}
    /\ lpc \in [Process -> LockPc]
    /\ looked \in [Process -> {"gone", "empty", "written"}]
    /\ robbed \subseteq Process
    /\ kills \in 0..MaxKills
    /\ \A p \in Process : lpc[p] = "out" => p \notin robbed

=============================================================================
