------------------------------ MODULE Registry ------------------------------
(***************************************************************************)
(* Identities of the LWARs: who occupies which slot, under which           *)
(* generation, and what fences a generation that has left.                 *)
(*                                                                         *)
(* The registry is two files, lwar_registry.json and tombstones.json. A    *)
(* mutation holds the registry lock and writes one of them or both, one    *)
(* after the other, and the OA may die between any two file writes. LWARs  *)
(* ask for a slot, or for a change of their slot's state, with request     *)
(* files; reconcile answers each request with a response file and archives *)
(* the request. Retiring a stale LWAR (recover --retire-stale) and         *)
(* reclaiming a slot that never started (recover --reap-startup) are       *)
(* commands of the operator.                                               *)
(*                                                                         *)
(* A step is one file write with the reads before it: the registry lock    *)
(* keeps every other writer of the two files out (FileLock is about the    *)
(* lock itself).                                                           *)
(***************************************************************************)
EXTENDS Naturals

CONSTANTS
    Slot,          \* the numbers n of LWARn
    Instance,      \* instance ids
    None,          \* absent entry, absent value
    MaxRegistrations, \* bound: registration requests written
    MaxLifecycles, \* bound: lifecycle requests written
    MaxGeneration  \* bound: no generation above it is allocated

ASSUME ConstantsOK ==
    /\ Slot \subseteq Nat \ {0}
    /\ MaxRegistrations \in Nat
    /\ MaxLifecycles \in Nat
    /\ MaxGeneration \in Nat

VARIABLES
    slots,         \* lwar_registry.json: the occupant of each slot
    tombs,         \* tombstones.json: the last occupant of each slot that was left
    heartbeat,     \* mailbox/LWARn/heartbeat.json
    registrations, \* control/registration/requests
    lifecycles,    \* control/lifecycle/requests
    replies,       \* control/registration/responses
    answered,      \* control/lifecycle/responses: ids of the requests answered
    drawn,         \* the last ids drawn for the two kinds of requests
    oa,            \* program counter and locals of the running OA command
    assigned       \* history: the identities ever given out

vars == <<slots, tombs, heartbeat, registrations, lifecycles, replies, answered,
          drawn, oa, assigned>>

State == {"on", "draining", "off"}
Occupant == [inst : Instance, gen : Nat, state : State]
\* blocked: reusable_after still lies ahead.
Tombstone == [inst : Instance, gen : Nat, blocked : BOOLEAN]
\* idle stands for every status a stale LWAR may be retired in; a busy LWAR keeps
\* its slot just as one with a fresh heartbeat does.
Heartbeat == [inst : Instance, gen : Nat, status : {"starting", "idle"}]
Registration == [id : Nat, inst : Instance, wanted : Slot \cup {None}]
Lifecycle == [id : Nat, lwar : Slot, inst : Instance, gen : Nat,
              state : State \cup {"deregistered"}]
Identity == [lwar : Slot, inst : Instance, gen : Nat]
\* An accepted reply carries an identity, a rejected one does not.
Reply == [id : Nat, identity : Identity \cup {None}]
Request == Registration \cup Lifecycle

ASSUME NoneOK == None \notin Slot \cup Occupant \cup Tombstone \cup Request \cup Identity

\* ALLOWED_TRANSITIONS
Allowed(from, to) == \/ from = "on" /\ to \in {"draining", "off"}
                     \/ from = "draining" /\ to \in {"on", "off"}
                     \/ from = "off" /\ to \in {"on", "deregistered"}

OaIdle == [pc |-> "idle", ret |-> "idle", req |-> None, lwar |-> None,
           identity |-> None]

Init ==
    /\ slots = [l \in Slot |-> None]
    /\ tombs = [l \in Slot |-> None]
    /\ heartbeat = [l \in Slot |-> None]
    /\ registrations = {} /\ lifecycles = {}
    /\ replies = {} /\ answered = {}
    /\ drawn = [registration |-> 0, lifecycle |-> 0]
    /\ oa = OaIdle
    /\ assigned = {}

Holds(l, id) == /\ slots[l] # None
                /\ slots[l].inst = id.inst /\ slots[l].gen = id.gen

-----------------------------------------------------------------------------
(* LWARs *)

\* command_register. An instance id may be given again, so one instance may have
\* several requests.
Register ==
    /\ drawn.registration < MaxRegistrations
    /\ drawn' = [drawn EXCEPT !.registration = @ + 1]
    /\ \E i \in Instance, wanted \in Slot \cup {None} :
          registrations' = registrations \cup
              {[id |-> drawn.registration + 1, inst |-> i, wanted |-> wanted]}
    /\ UNCHANGED <<slots, tombs, heartbeat, lifecycles, replies, answered, oa, assigned>>

\* command_response: the first adoption of an identity marks it as starting.
Adopt ==
    /\ \E reply \in replies :
          LET id == reply.identity IN
          /\ id # None
          /\ ~ /\ heartbeat[id.lwar] # None
               /\ heartbeat[id.lwar].inst = id.inst /\ heartbeat[id.lwar].gen = id.gen
          /\ heartbeat' = [heartbeat EXCEPT ![id.lwar] =
                [inst |-> id.inst, gen |-> id.gen, status |-> "starting"]]
    /\ UNCHANGED <<slots, tombs, registrations, lifecycles, replies, answered, drawn,
                   oa, assigned>>

\* A watcher reports. It has verified its identity against the registry some time
\* before it writes: the slot may have changed hands in between.
Beat ==
    /\ \E reply \in replies :
          LET id == reply.identity IN
          /\ id # None
          /\ heartbeat' = [heartbeat EXCEPT ![id.lwar] =
                [inst |-> id.inst, gen |-> id.gen, status |-> "idle"]]
    /\ UNCHANGED <<slots, tombs, registrations, lifecycles, replies, answered, drawn,
                   oa, assigned>>

\* command_state and command_retire. What they read of the registry is advice: it
\* may be outdated when the request is written, and an unreadable registry lets
\* any request through. The OA decides.
RequestState ==
    /\ drawn.lifecycle < MaxLifecycles
    /\ drawn' = [drawn EXCEPT !.lifecycle = @ + 1]
    /\ \E reply \in replies, to \in State \cup {"deregistered"} :
          LET id == reply.identity IN
          /\ id # None
          /\ lifecycles' = lifecycles \cup
                {[id |-> drawn.lifecycle + 1, lwar |-> id.lwar, inst |-> id.inst, gen |-> id.gen,
                  state |-> to]}
    /\ UNCHANGED <<slots, tombs, heartbeat, registrations, replies, answered, oa, assigned>>

-----------------------------------------------------------------------------
(* OA: reconcile, the registrations. A pass answers every request it lists,   *)
(* registrations first; requests arrive while it runs and a crash can end it  *)
(* after any of them, so the pass is taken here request by request.           *)

Goto(label) == oa' = [oa EXCEPT !.pc = label]

\* The request taken next, and where the pass goes with it.
Take(r, label) == oa' = [OaIdle EXCEPT !.pc = label, !.req = r]

Answered(r) == \E reply \in replies : reply.id = r.id

RegistrationAnswered ==
    /\ oa.pc = "idle"
    /\ \E r \in registrations : Answered(r) /\ Take(r, "reg_archive")
    /\ UNCHANGED <<slots, tombs, heartbeat, registrations, lifecycles, replies, answered,
                   drawn, assigned>>

Blocked(l) == tombs[l] # None /\ tombs[l].blocked
Available(l) == slots[l] = None /\ ~Blocked(l)
\* _lowest_available, or the number asked for.
Candidate(r, l) == IF r.wanted # None
                   THEN l = r.wanted
                   ELSE Available(l) /\ \A m \in Slot : Available(m) => l <= m
Occupies(i, l) == slots[l] # None /\ slots[l].inst = i

Unplaced(i) == \A l \in Slot : ~Occupies(i, l)

\* The request was stamped by another runtime version than the OA's: an input.
RegistrationMismatched ==
    /\ oa.pc = "idle"
    /\ \E r \in registrations : ~Answered(r) /\ Take(r, "reg_response")
    /\ UNCHANGED <<slots, tombs, heartbeat, registrations, lifecycles, replies, answered,
                   drawn, assigned>>

\* The slot asked for is in use or tombstoned.
RegistrationRefused ==
    /\ oa.pc = "idle"
    /\ \E r \in registrations :
          /\ ~Answered(r)
          /\ Unplaced(r.inst)
          /\ r.wanted # None /\ ~Available(r.wanted)
          /\ Take(r, "reg_response")
    /\ UNCHANGED <<slots, tombs, heartbeat, registrations, lifecycles, replies, answered,
                   drawn, assigned>>

FirstGeneration(l) == 1   \* mutant: the tombstone is not looked at
NextGeneration(l) == IF tombs[l] = None THEN 1 ELSE tombs[l].gen + 1

RecountedGeneration(l) == NextGeneration(l)   \* mutant: allocated anew
OccupantGeneration(l) == slots[l].gen

\* The registry was written before and the response was not: no second slot.
RegistrationReplayed ==
    /\ oa.pc = "idle"
    /\ \E r \in registrations, l \in Slot :
          /\ ~Answered(r)
          /\ Occupies(r.inst, l)
          /\ oa' = [OaIdle EXCEPT !.pc = "reg_response", !.req = r,
                                  !.identity = [lwar |-> l, inst |-> r.inst,
                                                gen |-> OccupantGeneration(l)]]
    /\ UNCHANGED <<slots, tombs, heartbeat, registrations, lifecycles, replies, answered,
                   drawn, assigned>>

RegistrationAllocated ==
    /\ oa.pc = "idle"
    /\ \E r \in registrations, l \in Slot :
          LET id == [lwar |-> l, inst |-> r.inst, gen |-> NextGeneration(l)] IN
          /\ ~Answered(r)
          /\ Unplaced(r.inst)
          /\ Candidate(r, l) /\ Available(l)
          /\ id.gen <= MaxGeneration
          /\ slots' = [slots EXCEPT ![l] = [inst |-> id.inst, gen |-> id.gen, state |-> "on"]]
          /\ assigned' = assigned \cup {id}
          /\ oa' = [OaIdle EXCEPT !.pc = "pop_tombstone", !.req = r,
                                  !.lwar = l, !.identity = id]
    /\ UNCHANGED <<tombs, heartbeat, registrations, lifecycles, replies, answered, drawn>>

PopTombstone ==
    /\ oa.pc = "pop_tombstone"
    /\ tombs' = [tombs EXCEPT ![oa.lwar] = None]
    /\ Goto("reg_response")
    /\ UNCHANGED <<slots, heartbeat, registrations, lifecycles, replies, answered, drawn,
                   assigned>>

RegistrationResponse ==
    /\ oa.pc = "reg_response"
    /\ replies' = replies \cup {[id |-> oa.req.id, identity |-> oa.identity]}
    /\ Goto("reg_archive")
    /\ UNCHANGED <<slots, tombs, heartbeat, registrations, lifecycles, answered, drawn,
                   assigned>>

RegistrationArchive ==
    /\ oa.pc = "reg_archive"
    /\ registrations' = registrations \ {oa.req}
    /\ oa' = OaIdle
    /\ UNCHANGED <<slots, tombs, heartbeat, lifecycles, replies, answered, drawn, assigned>>

-----------------------------------------------------------------------------
(* OA: reconcile, the lifecycle requests *)

LifecycleAnswered ==
    /\ oa.pc = "idle"
    /\ \E r \in lifecycles : r.id \in answered /\ Take(r, "life_archive")
    /\ UNCHANGED <<slots, tombs, heartbeat, registrations, lifecycles, replies, answered,
                   drawn, assigned>>

\* What a request comes to: a change of state, a deregistration, or nothing
\* (a rejection, or the replay of what has been applied already).
Changes(r) == /\ r.id \notin answered
              /\ Holds(r.lwar, r)
              /\ r.state # slots[r.lwar].state
              /\ Allowed(slots[r.lwar].state, r.state)

LifecycleUnchanged ==
    /\ oa.pc = "idle"
    /\ \E r \in lifecycles : r.id \notin answered /\ ~Changes(r) /\ Take(r, "life_response")
    /\ UNCHANGED <<slots, tombs, heartbeat, registrations, lifecycles, replies, answered,
                   drawn, assigned>>

LifecycleTransition ==
    /\ oa.pc = "idle"
    /\ \E r \in lifecycles :
          /\ Changes(r) /\ r.state # "deregistered"
          /\ slots' = [slots EXCEPT ![r.lwar].state = r.state]
          /\ Take(r, "life_response")
    /\ UNCHANGED <<tombs, heartbeat, registrations, lifecycles, replies, answered, drawn,
                   assigned>>

\* The tombstone that fences the occupant of l.
Bury(l) == tombs' = [tombs EXCEPT ![l] = [inst |-> slots[l].inst, gen |-> slots[l].gen,
                                          blocked |-> TRUE]]
Vacate(l) == slots' = [slots EXCEPT ![l] = None]

\* Mutant: only the registry is written.
DeregisterUnfenced ==
    /\ oa.pc = "idle"
    /\ \E r \in lifecycles :
          /\ Changes(r) /\ r.state = "deregistered"
          /\ Vacate(r.lwar)
          /\ Take(r, "life_response")
    /\ UNCHANGED <<tombs, heartbeat, registrations, lifecycles, replies, answered, drawn,
                   assigned>>

\* Tombstone first: a crash leaves an occupied slot, never an unfenced free one.
Deregister ==
    /\ oa.pc = "idle"
    /\ \E r \in lifecycles :
          /\ Changes(r) /\ r.state = "deregistered"
          /\ Bury(r.lwar)
          /\ oa' = [OaIdle EXCEPT !.pc = "write_registry", !.ret = "life_response",
                                  !.req = r, !.lwar = r.lwar]
    /\ UNCHANGED <<slots, heartbeat, registrations, lifecycles, replies, answered, drawn,
                   assigned>>

WriteRegistry ==
    /\ oa.pc = "write_registry"
    /\ Vacate(oa.lwar)
    /\ Goto(oa.ret)
    /\ UNCHANGED <<tombs, heartbeat, registrations, lifecycles, replies, answered, drawn,
                   assigned>>

LifecycleResponse ==
    /\ oa.pc = "life_response"
    /\ answered' = answered \cup {oa.req.id}
    /\ Goto("life_archive")
    /\ UNCHANGED <<slots, tombs, heartbeat, registrations, lifecycles, replies, drawn,
                   assigned>>

LifecycleArchive ==
    /\ oa.pc = "life_archive"
    /\ lifecycles' = lifecycles \ {oa.req}
    /\ oa' = OaIdle
    /\ UNCHANGED <<slots, tombs, heartbeat, registrations, replies, answered, drawn, assigned>>

-----------------------------------------------------------------------------
(* OA: recover --retire-stale and recover --reap-startup *)

\* The command names an identity; the slot, the heartbeat and the mailbox are
\* examined under the lock. That the mailbox is idle, and that the heartbeat is
\* stale and the one the operator saw, are inputs: when they fail nothing is written.
Reclaim(status) ==
    /\ oa.pc = "idle"
    /\ \E id \in assigned :
          /\ Holds(id.lwar, id)
          /\ heartbeat[id.lwar] # None
          /\ heartbeat[id.lwar].inst = id.inst /\ heartbeat[id.lwar].gen = id.gen
          /\ heartbeat[id.lwar].status = status
          /\ Bury(id.lwar)
          /\ oa' = [OaIdle EXCEPT !.pc = "write_registry", !.lwar = id.lwar]
    /\ UNCHANGED <<slots, heartbeat, registrations, lifecycles, replies, answered, drawn,
                   assigned>>

RetireStale == Reclaim("idle")
ReapStartup == Reclaim("starting")

OaCrash ==
    /\ oa.pc # "idle"
    /\ oa' = OaIdle
    /\ UNCHANGED <<slots, tombs, heartbeat, registrations, lifecycles, replies, answered,
                   drawn, assigned>>

-----------------------------------------------------------------------------
(* Time *)

TombstoneExpires ==
    /\ \E l \in Slot : Blocked(l) /\ tombs' = [tombs EXCEPT ![l].blocked = FALSE]
    /\ UNCHANGED <<slots, heartbeat, registrations, lifecycles, replies, answered, drawn,
                   oa, assigned>>

-----------------------------------------------------------------------------
Lwar == Register \/ Adopt \/ Beat \/ RequestState
Registering == \/ RegistrationAnswered \/ RegistrationMismatched \/ RegistrationRefused
               \/ RegistrationReplayed \/ RegistrationAllocated \/ PopTombstone
               \/ RegistrationResponse \/ RegistrationArchive
Cycling == \/ LifecycleAnswered \/ LifecycleUnchanged
           \/ LifecycleTransition \/ Deregister \/ WriteRegistry \/ LifecycleResponse
           \/ LifecycleArchive
Next == \/ Lwar \/ Registering \/ Cycling \/ RetireStale \/ ReapStartup \/ OaCrash
        \/ TombstoneExpires

Spec == Init /\ [][Next]_vars

-----------------------------------------------------------------------------
(* Properties *)

OaPc == {"idle", "pop_tombstone", "reg_response", "reg_archive",
         "write_registry", "life_response", "life_archive"}

\* Every file and every local variable has the shape the code reads it with.
TypeOK ==
    /\ slots \in [Slot -> Occupant \cup {None}]
    /\ tombs \in [Slot -> Tombstone \cup {None}]
    /\ heartbeat \in [Slot -> Heartbeat \cup {None}]
    /\ registrations \subseteq Registration
    /\ lifecycles \subseteq Lifecycle
    /\ replies \subseteq Reply
    /\ answered \subseteq Nat
    /\ drawn \in [registration : Nat, lifecycle : Nat]
    /\ oa \in [pc : OaPc, ret : OaPc, req : Request \cup {None},
               lwar : Slot \cup {None}, identity : Identity \cup {None}]
    /\ assigned \subseteq Identity

\* A slot that was ever occupied is never free without a tombstone of its newest
\* generation: a crash between the two file writes of any mutation cannot expose
\* an unfenced free slot.
FreeSlotFenced ==
    \A l \in Slot : slots[l] = None =>
        \A id \in assigned : id.lwar = l => tombs[l] # None /\ id.gen <= tombs[l].gen

\* One instance occupies one slot at most, however often its registration is
\* repeated or replayed after a crash.
OneSlotPerInstance ==
    \A l, m \in Slot : slots[l] # None /\ slots[m] # None /\ slots[l].inst = slots[m].inst
                          => l = m

\* Whoever takes a slot gets a generation no former occupant of it ever had, so
\* tasks, leases, heartbeats and results of a former occupant cannot pass for
\* those of the new one.
GenerationGrows ==
    [][\A l \in Slot : slots[l] = None /\ slots'[l] # None =>
          \A id \in assigned : id.lwar = l => id.gen < slots'[l].gen]_vars

\* An LWAR is never told of an identity that was not given to its instance, also
\* when the response is reconstructed after a crash.
RepliesTruthful == \A reply \in replies : reply.identity # None => reply.identity \in assigned

\* No two instances are ever told the same slot and generation.
IdentityUnique == \A a, b \in assigned : a.lwar = b.lwar /\ a.gen = b.gen => a = b
=============================================================================
