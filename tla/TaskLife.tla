------------------------------ MODULE TaskLife ------------------------------
(***************************************************************************)
(* What the OA is promised of one task, whatever happens on the bus: the   *)
(* life of a task as its ledger entry tells it. No files, no claims, no    *)
(* sessions, no crashes; TaskBusLife shows that the bus implements it.     *)
(***************************************************************************)
EXTENDS Naturals

CONSTANT None           \* no outcome yet

VARIABLES
    phase,              \* how far the task is
    attempt,            \* the attempt in force
    outcome,            \* the result reported last, or None
    letter              \* there is a dead letter to revive the task from

life == <<phase, attempt, outcome, letter>>

Settled == {"dead", "failed", "completed"}
Phase == {"new", "open"} \cup Settled

Init == phase = "new" /\ attempt = 0 /\ outcome = None /\ letter = FALSE

\* The task is sent.
Publish ==
    /\ phase = "new" /\ phase' = "open"
    /\ attempt' = 1
    /\ UNCHANGED <<outcome, letter>>

\* Recovery takes up another attempt: a later one, unless the task is open and
\* the attempt it announced was never handed out.
Retry ==
    /\ phase # "new" /\ phase' = "open"
    /\ attempt' \in Nat
    /\ phase \in Settled => attempt' > attempt
    /\ UNCHANGED <<outcome, letter>>

\* A result is reported: of the attempt in force, and once.
Report ==
    /\ phase \notin {"new", "completed"} /\ phase' = "completed"
    /\ outcome' # None
    /\ outcome'.attempt = attempt
    /\ UNCHANGED <<attempt, letter>>

\* A letter is written before the task is declared dead, and taken back only
\* after the task is open again.
WriteLetter == letter' = TRUE /\ UNCHANGED <<phase, attempt, outcome>>
TakeLetter == phase = "open" /\ letter' = FALSE /\ UNCHANGED <<phase, attempt, outcome>>

Bury ==
    /\ letter
    /\ phase # "new" /\ phase' = "dead"
    /\ attempt' \in Nat
    /\ phase \in Settled => attempt' = attempt
    /\ UNCHANGED <<outcome, letter>>

\* The task turns out undeliverable.
GiveUp ==
    /\ phase = "open" /\ phase' = "failed"
    /\ UNCHANGED <<attempt, outcome, letter>>

Next == Publish \/ Retry \/ Report \/ WriteLetter \/ TakeLetter \/ Bury \/ GiveUp

Spec == Init /\ [][Next]_life
=============================================================================
