----------------------------- MODULE WatchCancel ----------------------------
(***************************************************************************)
(* Control messages and cancellation: oa control, the watcher's delivery   *)
(* of controls (claim_control, the delivery guard, ack_control), the       *)
(* tombstone a cancel leaves, and what claim_task and resumable_claim do   *)
(* with a tombstoned task.                                                 *)
(*                                                                         *)
(* One mailbox and one task, which every cancel names. A watcher is a      *)
(* process of the ADP loop; a newer one supersedes the older, which goes   *)
(* on until it finds out at the delivery guard. The task's ledger and      *)
(* results are TaskBus; here a recovered claim is published again and a     *)
(* result ends the task.                                                   *)
(***************************************************************************)
EXTENDS Naturals

CONSTANTS
    Control,        \* the cancel messages
    Watcher,        \* the watcher processes
    None,           \* absent
    MaxAttempt,     \* bound: attempts of the task
    MaxFaults       \* bound: kills, orphaned watchers, failed acknowledgements

ASSUME CancelConstants ==
    /\ MaxAttempt \in Nat \ {0} /\ MaxFaults \in Nat
    /\ None \notin Control \cup Watcher \cup Nat

VARIABLES
    message,        \* where the file of each control message is
    stale,          \* controls addressed to an earlier identity of the slot
    tombstone,      \* cancelled/TASK.json exists
    incoming,       \* attempt of the task file in incoming/, or None
    claimed,        \* attempt of the task file in claimed/, or None
    lease,          \* attempt the lease is for, or None
    expired,        \* the lease is past expires_at
    outgoing,       \* the result in outgoing/: its attempt, or None
    sent,           \* the task has been published
    current,        \* invocation.json: the current watcher
    watcher,        \* program counter and locals of the watchers
    oa,             \* program counter of the OA's prune
    faults,         \* bound: faults so far
    told,           \* history: controls emitted to the agent
    given,          \* history: attempts delivered to the agent
    doomed,         \* history: attempts that lay in incoming/ under the tombstone
    overtaken       \* history: a live watcher's claim was recovered

files == <<message, stale, tombstone, incoming, claimed, lease, expired, outgoing>>
vars == <<files, sent, current, watcher, oa, faults, told, given, doomed, overtaken>>
history == <<told, given, doomed, overtaken>>

Attempt == 1..MaxAttempt
Place == {"none", "control", "claimed", "archive", "failed"}
WatcherPc == {"off", "poll", "message", "emit", "ack", "moved", "lease", "deliver",
              "cancel_publish", "cancel_lease", "cancel_archive", "cancel_unlink"}
Off == [pc |-> "off", control |-> None, attempt |-> None]

Init ==
    /\ message = [c \in Control |-> "none"] /\ stale = {}
    /\ tombstone = FALSE
    /\ incoming = None /\ claimed = None /\ lease = None /\ expired = FALSE /\ outgoing = None
    /\ sent = FALSE /\ current = None /\ watcher = [w \in Watcher |-> Off]
    /\ oa = "idle" /\ faults = 0
    /\ told = {} /\ given = {} /\ doomed = {} /\ overtaken = FALSE

At(w, label) == watcher[w].pc = label
Goto(w, label) == watcher' = [watcher EXCEPT ![w].pc = label]
Fault == faults < MaxFaults /\ faults' = faults + 1
\* Only the holder of .invocation.lock runs between the guard and its release.
Guarded == {w \in Watcher : watcher[w].pc \in {"emit", "ack"}}
\* An attempt is doomed from the moment both it and the tombstone are there.
Doom == doomed' = IF tombstone' /\ incoming' # None THEN doomed \cup {incoming'} ELSE doomed

-----------------------------------------------------------------------------
(* The OA *)

PublishTask ==
    /\ oa = "idle"
    /\ ~sent /\ sent' = TRUE
    /\ incoming' = 1
    /\ UNCHANGED <<message, stale, tombstone, claimed, lease, expired, outgoing>>
    /\ Doom
    /\ UNCHANGED <<current, watcher, oa, faults, told, given, overtaken>>

\* command_control: for the identity in the slot, which may be replaced any time.
SendControl(c) ==
    /\ oa = "idle"
    /\ message[c] = "none"
    /\ message' = [message EXCEPT ![c] = "control"]
    /\ stale' \in {stale, stale \cup {c}}
    /\ UNCHANGED <<tombstone, incoming, claimed, lease, expired, outgoing>>
    /\ UNCHANGED <<sent, current, watcher, oa, faults, history>>

Expire ==
    /\ lease # None /\ ~expired
    /\ expired' = TRUE
    /\ UNCHANGED <<message, stale, tombstone, incoming, claimed, lease, outgoing>>
    /\ UNCHANGED <<sent, current, watcher, oa, faults, history>>

\* Watchers between the claim and its lease, or its archive.
Claiming == {w \in Watcher : watcher[w].pc \in {"moved", "lease", "cancel_publish", "cancel_lease",
                                               "cancel_archive"}}

\* recover: a claim with an expired lease, or without one for long enough, is
\* published again with the next attempt; a result that is waiting retires it.
Recover ==
    /\ oa = "idle"
    /\ claimed # None
    /\ lease = None \/ expired
    /\ lease' = None /\ expired' = FALSE
    /\ claimed' = None
    /\ \/ outgoing # None /\ UNCHANGED incoming
       \/ outgoing = None /\ incoming = None /\ claimed < MaxAttempt /\ incoming' = claimed + 1
    /\ overtaken' = (overtaken \/ Claiming # {})
    /\ UNCHANGED <<message, stale, tombstone, outgoing>>
    /\ Doom
    /\ UNCHANGED <<sent, current, watcher, oa, faults, told, given>>

Collect ==
    /\ oa = "idle"
    /\ outgoing # None
    /\ outgoing' = None
    /\ UNCHANGED <<message, stale, tombstone, incoming, claimed, lease, expired>>
    /\ UNCHANGED <<sent, current, watcher, oa, faults, history>>

\* prune of an old tombstone: task_pending looks into incoming/, then claimed/.
\* mutant: the other way round
PruneClaimedFirst ==
    /\ oa = "idle" /\ tombstone /\ claimed = None
    /\ oa' = "prune"
    /\ UNCHANGED <<files, sent, current, watcher, faults, history>>
PruneLook ==
    /\ oa = "idle" /\ tombstone /\ incoming = None
    /\ oa' = "prune"
    /\ UNCHANGED <<files, sent, current, watcher, faults, history>>
PruneUnlink ==
    /\ oa = "prune"
    /\ tombstone' = IF claimed = None THEN FALSE ELSE tombstone
    /\ oa' = "idle"
    /\ UNCHANGED <<message, stale, incoming, claimed, lease, expired, outgoing>>
    /\ UNCHANGED <<sent, current, watcher, faults, history>>

-----------------------------------------------------------------------------
(* The watcher: controls *)

\* The agent's loop enters the watcher again; entering it while another one runs is
\* the host's fault. start_invocation waits for the delivery guard.
Enter(w) ==
    /\ At(w, "off") /\ Guarded = {}
    /\ IF \A v \in Watcher : At(v, "off") THEN UNCHANGED faults ELSE Fault
    /\ current' = w
    /\ Goto(w, "poll")
    /\ UNCHANGED <<files, sent, oa, history>>

InPlace(place) == {c \in Control : message[c] = place}
\* mutant: what is in control_claimed/ is not looked at again
NewOnly == InPlace("control")
\* claim_control: redelivery of what is already claimed comes first.
Candidates == IF InPlace("claimed") # {} THEN InPlace("claimed") ELSE InPlace("control")

ClaimControl(w) ==
    /\ At(w, "poll")
    /\ \E c \in Candidates :
           IF c \in stale
           THEN message' = [message EXCEPT ![c] = "failed"] /\ UNCHANGED watcher
           ELSE /\ message' = [message EXCEPT ![c] = "claimed"]
                /\ watcher' = [watcher EXCEPT ![w].pc = "message", ![w].control = c]
    /\ UNCHANGED <<stale, tombstone, incoming, claimed, lease, expired, outgoing>>
    /\ UNCHANGED <<sent, current, oa, faults, history>>

\* mutant: acknowledged before the event is out
GuardMessageAcks(w) ==
    /\ At(w, "message") /\ Guarded = {}
    /\ IF current = w
       THEN /\ tombstone' = TRUE /\ Goto(w, "emit")
            /\ message' = [message EXCEPT ![watcher[w].control] = "archive"]
       ELSE watcher' = [watcher EXCEPT ![w] = Off] /\ UNCHANGED <<tombstone, message>>
    /\ UNCHANGED <<stale, incoming, claimed, lease, expired, outgoing>>
    /\ Doom
    /\ UNCHANGED <<sent, current, oa, faults, told, given, overtaken>>
\* invocation_delivery_guard; then the tombstone, before the event.
GuardMessage(w) ==
    /\ At(w, "message") /\ Guarded = {}
    /\ IF current = w
       THEN tombstone' = TRUE /\ Goto(w, "emit")
       ELSE watcher' = [watcher EXCEPT ![w] = Off] /\ UNCHANGED tombstone
    /\ UNCHANGED <<message, stale, incoming, claimed, lease, expired, outgoing>>
    /\ Doom
    /\ UNCHANGED <<sent, current, oa, faults, told, given, overtaken>>

Emit(w) ==
    /\ At(w, "emit")
    /\ told' = told \cup {watcher[w].control}
    /\ Goto(w, "ack")
    /\ UNCHANGED <<files, sent, current, oa, faults, given, doomed, overtaken>>

\* ack_control: a failed one leaves the message for the next slice.
Ack(w) ==
    /\ At(w, "ack")
    /\ LET c == watcher[w].control
       IN \/ /\ message' = [message EXCEPT ![c] = IF @ = "claimed" THEN "archive" ELSE @]
             /\ UNCHANGED faults
          \/ Fault /\ UNCHANGED message
    /\ watcher' = [watcher EXCEPT ![w] = Off]
    /\ UNCHANGED <<stale, tombstone, incoming, claimed, lease, expired, outgoing>>
    /\ UNCHANGED <<sent, current, oa, history>>

-----------------------------------------------------------------------------
(* The watcher: the task *)

\* resumable_claim: this identity's still leased claim is delivered again.
Resumable == lease # None /\ ~expired /\ claimed = lease /\ outgoing = None

Resume(w) ==
    /\ At(w, "poll") /\ Candidates = {}
    /\ Resumable
    /\ watcher' = [watcher EXCEPT ![w].pc = "deliver", ![w].attempt = claimed]
    /\ UNCHANGED <<files, sent, current, oa, faults, history>>

\* claim_task: the rename, the stamp, and only then a look for the tombstone.
ClaimTask(w) ==
    /\ At(w, "poll") /\ Candidates = {} /\ ~Resumable
    /\ incoming # None
    /\ watcher' = [watcher EXCEPT ![w].pc = "moved", ![w].attempt = incoming]
    /\ claimed' = incoming /\ incoming' = None
    /\ UNCHANGED <<message, stale, tombstone, lease, expired, outgoing>>
    /\ UNCHANGED <<sent, current, oa, faults, history>>

\* Nothing to do until the slice ends.
Idle(w) ==
    /\ At(w, "poll") /\ Candidates = {} /\ ~Resumable /\ incoming = None
    /\ watcher' = [watcher EXCEPT ![w] = Off]
    /\ UNCHANGED <<files, sent, current, oa, faults, history>>

CheckTombstone(w) ==
    /\ At(w, "moved")
    /\ claimed' = watcher[w].attempt
    /\ Goto(w, IF tombstone THEN "cancel_publish" ELSE "lease")
    /\ UNCHANGED <<message, stale, tombstone, incoming, lease, expired, outgoing>>
    /\ UNCHANGED <<sent, current, oa, faults, history>>

WriteLease(w) ==
    /\ At(w, "lease")
    /\ lease' = watcher[w].attempt /\ expired' = FALSE
    /\ Goto(w, "deliver")
    /\ UNCHANGED <<message, stale, tombstone, incoming, claimed, outgoing>>
    /\ UNCHANGED <<sent, current, oa, faults, history>>

Deliver(w) ==
    /\ At(w, "deliver") /\ Guarded = {}
    /\ given' = IF current = w THEN given \cup {watcher[w].attempt} ELSE given
    /\ watcher' = [watcher EXCEPT ![w] = Off]
    /\ UNCHANGED <<files, sent, current, oa, faults, told, doomed, overtaken>>

\* _auto_cancel: submit_result with the cancelled result, then the tombstone goes.
CancelPublish(w) ==
    /\ At(w, "cancel_publish")
    /\ outgoing' = watcher[w].attempt
    /\ Goto(w, "cancel_lease")
    /\ UNCHANGED <<message, stale, tombstone, incoming, claimed, lease, expired>>
    /\ UNCHANGED <<sent, current, oa, faults, history>>

CancelLease(w) ==
    /\ At(w, "cancel_lease")
    /\ lease' = None /\ expired' = FALSE
    /\ Goto(w, "cancel_archive")
    /\ UNCHANGED <<message, stale, tombstone, incoming, claimed, outgoing>>
    /\ UNCHANGED <<sent, current, oa, faults, history>>

\* The archive move; a claim that was recovered meanwhile raises, and the tombstone
\* stays. The watcher polls on.
CancelArchive(w) ==
    /\ At(w, "cancel_archive")
    /\ claimed' = None
    /\ watcher' = [watcher EXCEPT ![w].pc = IF claimed = None THEN "poll" ELSE "cancel_unlink",
                                  ![w].attempt = IF claimed = None THEN None ELSE @]
    /\ UNCHANGED <<message, stale, tombstone, incoming, lease, expired, outgoing>>
    /\ UNCHANGED <<sent, current, oa, faults, history>>

CancelUnlink(w) ==
    /\ At(w, "cancel_unlink")
    /\ tombstone' = FALSE
    /\ watcher' = [watcher EXCEPT ![w].pc = "poll", ![w].attempt = None]
    /\ UNCHANGED <<message, stale, incoming, claimed, lease, expired, outgoing>>
    /\ UNCHANGED <<sent, current, oa, faults, history>>

\* The host ends the watcher's process; a lock it held goes stale.
Kill(w) ==
    /\ ~At(w, "off")
    /\ Fault
    /\ watcher' = [watcher EXCEPT ![w] = Off]
    /\ UNCHANGED <<files, sent, current, oa, history>>

\* The agent's complete, in one step: TaskBus has its steps.
Submit(a) ==
    /\ a \in given
    /\ claimed = a
    /\ outgoing' = a /\ lease' = None /\ expired' = FALSE /\ claimed' = None
    /\ UNCHANGED <<message, stale, tombstone, incoming>>
    /\ UNCHANGED <<sent, current, watcher, oa, faults, history>>

-----------------------------------------------------------------------------
Watch(w) ==
    \/ ClaimControl(w) \/ GuardMessage(w) \/ Emit(w) \/ Ack(w)
    \/ Resume(w) \/ ClaimTask(w) \/ Idle(w) \/ CheckTombstone(w) \/ WriteLease(w) \/ Deliver(w)
    \/ CancelPublish(w) \/ CancelLease(w) \/ CancelArchive(w) \/ CancelUnlink(w)

Next ==
    \/ PublishTask \/ Recover \/ Collect \/ PruneLook \/ PruneUnlink
    \/ \E c \in Control : SendControl(c)
    \/ \E w \in Watcher : Enter(w) \/ Watch(w) \/ Kill(w)
    \/ Expire \/ \E a \in Attempt : Submit(a)

Spec == Init /\ [][Next]_vars

\* A watcher that runs goes on, and the agent's loop enters the watcher again
\* whenever none runs.
FairSpec == Spec /\ \A w \in Watcher : WF_vars(Watch(w) \/ Enter(w))

-----------------------------------------------------------------------------
(* Properties *)

TypeOK ==
    /\ message \in [Control -> Place] /\ stale \subseteq Control
    /\ tombstone \in BOOLEAN /\ expired \in BOOLEAN /\ overtaken \in BOOLEAN
    /\ {incoming, claimed, lease, outgoing} \subseteq Attempt \cup {None}
    /\ current \in Watcher \cup {None}
    /\ watcher \in [Watcher -> [pc : WatcherPc, control : Control \cup {None},
                                attempt : Attempt \cup {None}]]
    /\ sent \in BOOLEAN /\ oa \in {"idle", "prune"} /\ faults \in 0..MaxFaults
    /\ told \subseteq Control /\ given \subseteq Attempt /\ doomed \subseteq Attempt
    /\ \A w \in Watcher :
           /\ watcher[w].control # None <=> watcher[w].pc \in {"message", "emit", "ack"}
           /\ watcher[w].attempt = None <=> watcher[w].pc \in {"off", "poll", "message", "emit", "ack"}

\* A control leaves the mailbox only after its event reached the agent, whatever was
\* killed, superseded or not acknowledged on the way.
ArchivedTold == \A c \in Control : message[c] = "archive" => c \in told

\* A task that was cancelled while it waited is never handed to the agent, under
\* either order of cancel and publication, unless recovery took the claim away from
\* a watcher still at work on it ("auto-cancels the task deterministically whenever
\* it is claimed").
CancelHolds == overtaken \/ given \cap doomed = {}

\* Every control for the current identity reaches the agent.
ControlReaches ==
    \A c \in Control : (message[c] = "control" /\ c \notin stale) ~> (c \in told)
=============================================================================
