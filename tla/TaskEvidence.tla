---------------------------- MODULE TaskEvidence ----------------------------
(***************************************************************************)
(* What a task leaves behind and who relies on it: the host receipt an     *)
(* LWAR cites (HostAdapter), the artifact its result snapshots in          *)
(* var/artifacts, OA's collection and validation decision, the dependents  *)
(* that are sent on that decision, and oa prune, which deletes old         *)
(* snapshots.  The bus is reduced to where the task file is and with which *)
(* attempt (TaskBus has its tokens, leases and half-done moves); each OA   *)
(* command but prune is one step, because OaWriter's mutex makes it one    *)
(* for other OA commands and it touches the LWAR's files once.  prune and  *)
(* complete are taken step by step: no lock is shared between them.        *)
(* Contents stand for their sha256: equal contents have equal digests.     *)
(***************************************************************************)
EXTENDS HostAdapter

CONSTANTS
    Content,     \* what the artifact file of a task may hold
    Exposing,    \* contents that name the runtime (identity terms)
    MaxRetries,  \* max_retries of each task: its attempts
    MaxCompletes, MaxPrunes   \* bounds: complete and prune commands started

ASSUME EvidenceAssumption ==
    /\ None \notin Content
    /\ Exposing \subseteq Content
    /\ MaxRetries \in [Task -> Nat \ {0}]
    /\ MaxCompletes \in Nat /\ MaxPrunes \in Nat

VARIABLES
    task,      \* per task: where its file is and its attempt
    file,      \* per task: content of the artifact file in its cwd
    store,     \* var/artifacts: each digest absent, young or old
    lwar,      \* the LWAR command complete
    outgoing,  \* per task: the submitted result, or None
    entry,     \* the task ledger
    prune,     \* the command oa prune
    spent      \* complete and prune commands started
evidenceVars == <<task, file, store, lwar, outgoing, entry, prune, spent>>
allVars == <<hostVars, evidenceVars>>

\* A result's status, "grounded" when it succeeded and cites an accepted receipt.
Status == {"failed", "succeeded", "grounded"}
Result == [attempt : Nat \ {0}, digest : Content, status : Status]
NoComplete == [pc |-> "idle", task |-> None, attempt |-> 0, digest |-> None,
               cites |-> FALSE]
NoPrune == [pc |-> "idle", referenced |-> {}, todo |-> {}, doomed |-> None]

EvidenceInit ==
    /\ HostInit
    /\ task = [t \in Task |-> [at |-> "unsent", attempt |-> 1]]
    /\ file = [t \in Task |-> None]
    /\ store = [c \in Content |-> "absent"]
    /\ lwar = NoComplete
    /\ outgoing = [t \in Task |-> None]
    /\ entry = [t \in Task |-> [status |-> "none", attempt |-> 1, result |-> None,
                                accepted |-> FALSE]]
    /\ prune = NoPrune
    /\ spent = [completes |-> 0, prunes |-> 0]

-----------------------------------------------------------------------------
(* The LWAR: claim, execution through a host adapter, complete *)

Claim(t) ==
    /\ task[t].at = "incoming"
    /\ task' = [task EXCEPT ![t].at = "claimed"]
    /\ UNCHANGED <<hostVars, file, store, lwar, outgoing, entry, prune, spent>>

\* The executor of a claimed task runs a host command on it, or a probe.
Execute(t) ==
    /\ task[t].at = "claimed"
    /\ \E p \in Proc, a \in Adapter : RunTask(p, t, a)
    /\ UNCHANGED evidenceVars
ProbeHost ==
    /\ \E p \in Proc, a \in Adapter, live \in BOOLEAN : Probe(p, a, live)
    /\ UNCHANGED evidenceVars
HostRuns == (\E p \in Proc : HostStep(p)) /\ UNCHANGED evidenceVars

\* The workspace is written while the task is claimed, by what executes it.
WriteFile(t, c) ==
    /\ task[t].at = "claimed" /\ file[t] # c
    /\ file' = [file EXCEPT ![t] = c]
    /\ UNCHANGED <<hostVars, task, store, lwar, outgoing, entry, prune, spent>>

\* Whether the receipt that the result can cite (its blind-safe part,
\* references/host-adapter.md) is one of this task and accepted.
CitesAccepted(t) == receipt # None /\ receipt.task = t /\ receipt.accepted

\* command_complete up to the first look at the artifact: there is a claim, the
\* declared file exists and does not expose the runtime.
CompleteStart(t) ==
    /\ lwar.pc = "idle" /\ task[t].at = "claimed" /\ spent.completes < MaxCompletes
    /\ file[t] \notin Exposing \cup {None}
    /\ lwar' = [pc |-> "snapshot", task |-> t, attempt |-> task[t].attempt,
                digest |-> None, cites |-> CitesAccepted(t)]
    /\ spent' = [spent EXCEPT !.completes = @ + 1]
    /\ UNCHANGED <<hostVars, task, file, store, outgoing, entry, prune>>

\* snapshot_artifact: read again, hashed and renamed onto its digest: a fresh file
\* even where the digest was already stored.
Snapshot ==
    /\ lwar.pc = "snapshot"
    /\ store' = [store EXCEPT ![file[lwar.task]] = "young"]
    /\ lwar' = [lwar EXCEPT !.pc = "submit", !.digest = file[lwar.task]]
    /\ UNCHANGED <<hostVars, task, file, outgoing, entry, prune, spent>>

\* submit_result, first the outgoing file; the claim is not looked at again.
Submit ==
    /\ lwar.pc = "submit"
    /\ \E status \in {"failed", IF lwar.cites THEN "grounded" ELSE "succeeded"} :
         outgoing' = [outgoing EXCEPT ![lwar.task] =
             [attempt |-> lwar.attempt, digest |-> lwar.digest,
              status |-> status]]
    /\ lwar' = [lwar EXCEPT !.pc = "archive"]
    /\ UNCHANGED <<hostVars, task, file, store, entry, prune, spent>>

\* ... then the claim to the archive, unless recovery took it meanwhile.
ArchiveClaim ==
    /\ lwar.pc = "archive"
    /\ task' = IF task[lwar.task] = [at |-> "claimed", attempt |-> lwar.attempt]
               THEN [task EXCEPT ![lwar.task].at = "archived"] ELSE task
    /\ lwar' = NoComplete
    /\ UNCHANGED <<hostVars, file, store, outgoing, entry, prune, spent>>

\* complete is killed, or refuses: nothing is undone.
CompleteDies ==
    /\ lwar.pc # "idle"
    /\ lwar' = NoComplete
    /\ UNCHANGED <<hostVars, task, file, store, outgoing, entry, prune, spent>>

-----------------------------------------------------------------------------
(* OA commands; none starts while prune runs *)

Send(t) ==
    /\ prune.pc = "idle" /\ entry[t].status = "none"
    /\ task' = [task EXCEPT ![t].at = "incoming"]
    /\ entry' = [entry EXCEPT ![t].status = "published"]
    /\ UNCHANGED <<hostVars, file, store, lwar, outgoing, prune, spent>>

Provenance(t, r) ==
    /\ task[t].at \in {"claimed", "archived"}
    /\ task[t].attempt = r.attempt
\* artifact_verification: the snapshot is there (and has the recorded digest).
ArtifactVerified(r) == store[r.digest] # "absent"

\* command_collect on one outgoing result: fenced by attempt, provenance and
\* artifacts, a second result of a completed task refused; quarantined or recorded.
\* The entry keeps whatever validation it had.
Collect(t) ==
    LET r == outgoing[t] IN
    /\ prune.pc = "idle" /\ r # None
    /\ IF \/ r.attempt # entry[t].attempt
          \/ ~Provenance(t, r) \/ ~ArtifactVerified(r)
          \/ entry[t].status = "completed" /\ entry[t].result # r
       THEN /\ outgoing' = [outgoing EXCEPT ![t] = None]
            /\ UNCHANGED entry
       ELSE /\ entry' = [entry EXCEPT ![t].status = "completed", ![t].result = r]
            /\ \E archive \in BOOLEAN :
                 outgoing' = IF archive THEN [outgoing EXCEPT ![t] = None] ELSE outgoing
    /\ UNCHANGED <<hostVars, task, file, store, lwar, prune, spent>>

\* recover_one on a claim whose lease is gone: a claim with a result is unlinked,
\* another is requeued under the next attempt, or dead-lettered past the budget.
\* The status of the ledger entry is not looked at.
Recover(t) ==
    /\ prune.pc = "idle" /\ task[t].at = "claimed"
    /\ IF outgoing[t] # None
       THEN /\ task' = [task EXCEPT ![t].at = "gone"]
            /\ UNCHANGED entry
       ELSE LET attempt == task[t].attempt + 1 IN
            IF attempt > MaxRetries[t]
            THEN /\ task' = [task EXCEPT ![t].at = "gone"]
                 /\ entry' = [entry EXCEPT ![t].status = "dead"]
            ELSE /\ task' = [task EXCEPT ![t] = [at |-> "incoming", attempt |-> attempt]]
                 /\ entry' = [entry EXCEPT ![t].status = "requeued", ![t].attempt = attempt]
    /\ UNCHANGED <<hostVars, file, store, lwar, outgoing, prune, spent>>

\* command_validate --record: an acceptance needs the mechanical checks to pass; OA
\* accepts only what cites an accepted receipt (host-adapter.md).  A later decision
\* replaces an earlier one.
Validate(t, accepted) ==
    LET r == entry[t].result IN
    /\ prune.pc = "idle" /\ entry[t].status = "completed"
    /\ accepted => r.status = "grounded" /\ ArtifactVerified(r)
    /\ entry' = [entry EXCEPT ![t].accepted = accepted]
    /\ UNCHANGED <<hostVars, task, file, store, lwar, outgoing, prune, spent>>

\* _check_dependencies: a task that depends on t may be sent.
DependencySatisfied(t) ==
    /\ entry[t].status = "completed"
    /\ entry[t].result.status # "failed"
    /\ entry[t].accepted

\* mutant: only completed entries keep their snapshots
ReferencedCompleted ==
    {entry[t].result.digest : t \in {u \in Task : entry[u].status = "completed"}}
\* referenced_artifacts: the snapshots of every result in the ledger, whatever the
\* entry's status.
ReferencedArtifacts ==
    {entry[t].result.digest : t \in {u \in Task : entry[u].result # None}}

\* command_prune: old archived task files go; then the references are read once and
\* the store is listed.
PruneStart ==
    /\ prune.pc = "idle" /\ spent.prunes < MaxPrunes
    /\ spent' = [spent EXCEPT !.prunes = @ + 1]
    /\ \E old \in SUBSET {t \in Task : task[t].at = "archived"} :
         task' = [t \in Task |-> IF t \in old THEN [task[t] EXCEPT !.at = "gone"] ELSE task[t]]
    /\ prune' = [pc |-> "stat", referenced |-> ReferencedArtifacts,
                 todo |-> {c \in Content : store[c] # "absent"}, doomed |-> None]
    /\ UNCHANGED <<hostVars, file, store, lwar, outgoing, entry>>
\* One listed snapshot: kept when referenced or young, else about to be unlinked.
PruneStat(c) ==
    /\ prune.pc = "stat" /\ c \in prune.todo
    /\ prune' = IF c \notin prune.referenced /\ store[c] = "old"
                THEN [prune EXCEPT !.todo = @ \ {c}, !.pc = "unlink", !.doomed = c]
                ELSE [prune EXCEPT !.todo = @ \ {c}]
    /\ UNCHANGED <<hostVars, task, file, store, lwar, outgoing, entry, spent>>
\* Whatever is at the path by now is removed.
PruneUnlink ==
    /\ prune.pc = "unlink"
    /\ store' = [store EXCEPT ![prune.doomed] = "absent"]
    /\ prune' = [prune EXCEPT !.pc = "stat", !.doomed = None]
    /\ UNCHANGED <<hostVars, task, file, lwar, outgoing, entry, spent>>
\* prune ends, or is killed.
PruneEnd ==
    /\ prune.pc # "idle"
    /\ prune' = NoPrune
    /\ UNCHANGED <<hostVars, task, file, store, lwar, outgoing, entry, spent>>

\* --older-than-days pass.
Age(c) ==
    /\ store[c] = "young"
    /\ store' = [store EXCEPT ![c] = "old"]
    /\ UNCHANGED <<hostVars, task, file, lwar, outgoing, entry, prune, spent>>

-----------------------------------------------------------------------------
LwarStep ==
    \/ HostRuns \/ ProbeHost
    \/ \E t \in Task : Claim(t) \/ Execute(t) \/ CompleteStart(t)
    \/ \E t \in Task, c \in Content : WriteFile(t, c)
    \/ Snapshot \/ Submit \/ ArchiveClaim \/ CompleteDies
OaStep ==
    \/ \E t \in Task : Send(t) \/ Collect(t) \/ Recover(t)
    \/ \E t \in Task, accepted \in BOOLEAN : Validate(t, accepted)
    \/ PruneStart \/ PruneUnlink \/ PruneEnd
    \/ \E c \in Content : PruneStat(c)
EvidenceNext == LwarStep \/ OaStep \/ \E c \in Content : Age(c)

EvidenceSpec == EvidenceInit /\ [][EvidenceNext]_allVars

-----------------------------------------------------------------------------
(* Properties *)

EvidenceTypeOK ==
    /\ HostTypeOK
    /\ task \in [Task -> [at : {"unsent", "incoming", "claimed", "archived", "gone"},
                          attempt : Nat]]
    /\ file \in [Task -> Content \cup {None}]
    /\ store \in [Content -> {"absent", "young", "old"}]
    /\ lwar \in [pc : {"idle", "snapshot", "submit", "archive"}, task : Task \cup {None},
                 attempt : Nat, digest : Content \cup {None},
                 cites : BOOLEAN]
    /\ outgoing \in [Task -> Result \cup {None}]
    /\ entry \in [Task -> [status : {"none", "published", "requeued", "completed", "dead"},
                           attempt : Nat, result : Result \cup {None},
                           accepted : BOOLEAN]]
    /\ prune \in [pc : {"idle", "stat", "unlink"}, referenced : SUBSET Content,
                  todo : SUBSET Content, doomed : Content \cup {None}]
    /\ spent \in [completes : 0..MaxCompletes, prunes : 0..MaxPrunes]

\* The snapshot of a result in the ledger is never lost, also while its task is
\* executed again, while other tasks store the same bytes and across prunes that
\* were interrupted: prune deletes "unreferenced artifact snapshots" only
\* (references/recover-maintain.md), and collect refuses a result whose snapshot a
\* prune that raced its submission took away.
CompletedIntact ==
    \A t \in Task : entry[t].result # None => store[entry[t].result.digest] # "absent"

\* What OA accepted, and what a dependent may be sent on, goes back to an execution of
\* that very task that was clean and under its own contract, whichever retry, earlier
\* task's receipt or killed host command came between ("Only an accepted receipt may
\* feed calibration or routing evidence", references/host-adapter.md).
EvidenceStands ==
    /\ HostGrounded
    /\ \A t \in Task :
         DependencySatisfied(t) \/ entry[t].accepted => <<t, HostContract[t]>> \in clean
=============================================================================
