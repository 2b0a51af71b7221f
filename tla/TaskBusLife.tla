---------------------------- MODULE TaskBusLife -----------------------------
(***************************************************************************)
(* TaskBus implements TaskLife: a task's life is read off its ledger entry *)
(* and its dead letter.                                                    *)
(***************************************************************************)
EXTENDS TaskBus

\* The transitional statuses are for recover; to a reader the task is open.
LedgerPhase ==
    CASE ledger.status = "none" -> "new"
      [] ledger.status \in {"dead", "failed", "completed"} -> ledger.status
      [] OTHER -> "open"

Life == INSTANCE TaskLife WITH
            phase <- LedgerPhase, attempt <- ledger.attempt,
            outcome <- ledger.result, letter <- (dead # None)

\* Whatever files are renamed, commands killed or sessions abandoned, the ledger
\* tells a legal life: it reports only results of the attempt in force, reopens a
\* settled task under a later attempt alone, and calls a task dead only while its
\* dead letter is there.
ImplementsLife == Life!Spec
=============================================================================
