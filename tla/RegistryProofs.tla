--------------------------- MODULE RegistryProofs ---------------------------
(***************************************************************************)
(* Registry is right for any number of slots, instances and requests.      *)
(*                                                                         *)
(* The argument: while a slot is occupied its occupant has the newest      *)
(* generation ever given out for it (Newest), and between the two writes   *)
(* of a deregistration the tombstone already carries that generation       *)
(* (Underway). So a slot that becomes free is fenced, and the generation   *)
(* allocated from the tombstone is new.                                    *)
(***************************************************************************)
EXTENDS Registry, TLAPS

\* The identity the registry file records for slot l.
OccupantId(l) == [lwar |-> l, inst |-> slots[l].inst, gen |-> slots[l].gen]

\* The occupant of a slot holds an identity that was given out, the newest one.
Newest == \A l \in Slot : slots[l] # None =>
             /\ OccupantId(l) \in assigned
             /\ \A id \in assigned : id.lwar = l => id.gen <= slots[l].gen

\* What a command in progress relies on.
Underway ==
    /\ oa.pc \in {"pop_tombstone", "write_registry"} => oa.lwar \in Slot /\ slots[oa.lwar] # None
    /\ oa.pc = "write_registry" =>
          /\ tombs[oa.lwar] # None /\ tombs[oa.lwar].gen = slots[oa.lwar].gen
          /\ oa.ret = "idle" \/ (oa.ret = "life_response" /\ oa.req \in Lifecycle)
    /\ oa.pc \in {"pop_tombstone", "reg_response"} => oa.req \in Registration
    /\ oa.pc = "life_response" => oa.req \in Lifecycle
    /\ oa.identity # None => oa.identity \in assigned

Fenced == OneSlotPerInstance /\ FreeSlotFenced /\ Newest /\ IdentityUnique

Inv == TypeOK /\ Fenced /\ Underway /\ RepliesTruthful

USE DEF Identity, Reply, Occupant, Tombstone, Request, Registration, Lifecycle

-----------------------------------------------------------------------------
LEMMA Initially == Init => Inv
  BY ConstantsOK, NoneOK
  DEF Init, Inv, TypeOK, Fenced, OneSlotPerInstance, FreeSlotFenced, Newest, IdentityUnique,
      Underway, RepliesTruthful, OaIdle, OaPc

\* Steps that touch neither of the registry's two files keep what is said of them.
LEMMA FencedKept == Fenced /\ UNCHANGED <<slots, tombs, assigned>> => Fenced'
  BY DEF Fenced, OneSlotPerInstance, FreeSlotFenced, Newest, IdentityUnique, OccupantId

\* Every step of an LWAR leaves the two files and the running command alone.
LEMMA LwarStep == Inv /\ Lwar => Inv'
<1> SUFFICES ASSUME Inv, Lwar PROVE Inv'
  OBVIOUS
<1>1. UNCHANGED <<slots, tombs, assigned, oa, replies>>
  BY DEF Lwar, Register, Adopt, Beat, RequestState
<1>2. Fenced' /\ Underway' /\ RepliesTruthful'
  BY <1>1, FencedKept DEF Inv, Underway, RepliesTruthful
<1>3. TypeOK'
  <2>1. CASE Register
    BY <2>1 DEF Inv, TypeOK, Register
  <2>2. CASE Adopt
    BY <2>2 DEF Inv, TypeOK, Adopt, Heartbeat
  <2>3. CASE Beat
    BY <2>3 DEF Inv, TypeOK, Beat, Heartbeat
  <2>4. CASE RequestState
    BY <2>4 DEF Inv, TypeOK, RequestState
  <2> QED
    BY <2>1, <2>2, <2>3, <2>4 DEF Lwar
<1> QED
  BY <1>2, <1>3 DEF Inv

\* A newly allocated generation exceeds every one given out for the slot before.
LEMMA NextIsNew ==
  ASSUME Inv, NEW l \in Slot, slots[l] = None
  PROVE  /\ NextGeneration(l) \in Nat
         /\ \A id \in assigned : id.lwar = l => id.gen < NextGeneration(l)
<1>1. CASE tombs[l] = None
  BY <1>1 DEF Inv, TypeOK, Fenced, FreeSlotFenced, NextGeneration
<1>2. CASE tombs[l] # None
  <2>1. tombs[l].gen \in Nat
    BY <1>2 DEF Inv, TypeOK
  <2>2. \A id \in assigned : id.gen \in Nat /\ (id.lwar = l => id.gen <= tombs[l].gen)
    BY DEF Inv, TypeOK, Fenced, FreeSlotFenced
  <2> QED
    BY <1>2, <2>1, <2>2 DEF NextGeneration
<1> QED
  BY <1>1, <1>2

LEMMA AllocationStep == Inv /\ RegistrationAllocated => Inv'
<1> SUFFICES ASSUME Inv, RegistrationAllocated PROVE Inv'
  OBVIOUS
<1>1. PICK r \in registrations, l \in Slot :
        LET id == [lwar |-> l, inst |-> r.inst, gen |-> NextGeneration(l)] IN
        /\ Unplaced(r.inst)
        /\ slots[l] = None
        /\ slots' = [slots EXCEPT ![l] = [inst |-> id.inst, gen |-> id.gen, state |-> "on"]]
        /\ assigned' = assigned \cup {id}
        /\ oa' = [OaIdle EXCEPT !.pc = "pop_tombstone", !.req = r,
                                !.lwar = l, !.identity = id]
  BY DEF RegistrationAllocated, Available
<1> DEFINE g == NextGeneration(l)
           id == [lwar |-> l, inst |-> r.inst, gen |-> g]
           occupant == [inst |-> r.inst, gen |-> g, state |-> "on"]
<1>2. UNCHANGED <<tombs, heartbeat, registrations, lifecycles, replies, answered, drawn>>
  BY DEF RegistrationAllocated
<1>3. g \in Nat /\ \A a \in assigned : a.lwar = l => a.gen < g
  BY <1>1, NextIsNew
<1>4. r \in Registration /\ id \in Identity /\ occupant \in Occupant
  BY <1>3 DEF Inv, TypeOK, State
<1>5. /\ slots' = [slots EXCEPT ![l] = occupant]
      /\ assigned' = assigned \cup {id}
      /\ oa' = [OaIdle EXCEPT !.pc = "pop_tombstone", !.req = r, !.lwar = l, !.identity = id]
  BY <1>1
<1> HIDE DEF g, id, occupant
<1>6. TypeOK'
  BY <1>2, <1>4, <1>5 DEF Inv, TypeOK, OaIdle, OaPc
<1>7. Fenced'
  <2> USE <1>2, <1>3, <1>4, <1>5 DEF Inv, TypeOK, Fenced
  <2>1. /\ slots'[l] = occupant /\ slots'[l] # None
        /\ \A m \in Slot \ {l} : slots'[m] = slots[m]
    BY NoneOK
  <2>2. occupant.inst = r.inst /\ occupant.gen = g /\ id.lwar = l /\ id.inst = r.inst /\ id.gen = g
    BY DEF id, occupant
  <2>3. OneSlotPerInstance'
    BY <1>1, <2>1, <2>2 DEF OneSlotPerInstance, Unplaced, Occupies
  <2>4. FreeSlotFenced'
    BY <2>1, <2>2 DEF FreeSlotFenced
  <2>5. Newest'
    <3>1. OccupantId(l)' = id
      BY <2>1, <2>2 DEF OccupantId, id
    <3>2. \A m \in Slot \ {l} : OccupantId(m)' = OccupantId(m)
      BY <2>1 DEF OccupantId
    <3>3. \A a \in assigned' : a.lwar = l => a.gen <= g
      BY <2>2
    <3> QED
      BY <2>1, <2>2, <3>1, <3>2, <3>3 DEF Newest
  <2>6. IdentityUnique'
    BY <2>2 DEF IdentityUnique
  <2> QED
    BY <2>3, <2>4, <2>5, <2>6
<1>8. Underway'
  BY <1>4, <1>5, NoneOK DEF Inv, TypeOK, Underway, OaIdle
<1>9. RepliesTruthful'
  BY <1>2, <1>5 DEF Inv, RepliesTruthful
<1> QED
  BY <1>6, <1>7, <1>8, <1>9 DEF Inv

\* The steps of reconcile that read the two files at most.
Answering == \/ RegistrationAnswered \/ RegistrationMismatched \/ RegistrationRefused
             \/ RegistrationReplayed \/ RegistrationResponse \/ RegistrationArchive
             \/ LifecycleAnswered \/ LifecycleUnchanged \/ LifecycleResponse \/ LifecycleArchive

LEMMA AnsweringStep == Inv /\ Answering => Inv'
<1> SUFFICES ASSUME Inv, Answering PROVE Inv'
  OBVIOUS
<1> USE DEF Inv
<1>1. UNCHANGED <<slots, tombs, assigned, heartbeat, drawn>>
  BY DEF Answering, RegistrationAnswered, RegistrationMismatched, RegistrationRefused,
         RegistrationReplayed, RegistrationResponse, RegistrationArchive,
         LifecycleAnswered, LifecycleUnchanged, LifecycleResponse, LifecycleArchive
<1>2. Fenced'
  BY <1>1, FencedKept
<1>3. CASE \/ RegistrationAnswered \/ RegistrationMismatched \/ RegistrationRefused
  <2>1. PICK r \in registrations, label \in {"reg_archive", "reg_response"} : Take(r, label)
    BY <1>3 DEF RegistrationAnswered, RegistrationMismatched, RegistrationRefused
  <2>2. UNCHANGED <<registrations, lifecycles, replies, answered>>
    BY <1>3 DEF RegistrationAnswered, RegistrationMismatched, RegistrationRefused
  <2> QED
    BY <1>1, <1>2, <2>1, <2>2, NoneOK
    DEF Take, TypeOK, OaIdle, OaPc, Underway, RepliesTruthful
<1>4. CASE RegistrationReplayed
  <2>1. PICK r \in registrations, l \in Slot :
          /\ Occupies(r.inst, l)
          /\ oa' = [OaIdle EXCEPT !.pc = "reg_response", !.req = r,
                                  !.identity = [lwar |-> l, inst |-> r.inst,
                                                gen |-> OccupantGeneration(l)]]
    BY <1>4 DEF RegistrationReplayed
  <2>2. UNCHANGED <<registrations, lifecycles, replies, answered>>
    BY <1>4 DEF RegistrationReplayed
  <2>3. [lwar |-> l, inst |-> r.inst, gen |-> OccupantGeneration(l)] \in assigned
    BY <2>1 DEF Occupies, OccupantGeneration, OccupantId, Fenced, Newest
  <2> QED
    BY <1>1, <1>2, <2>1, <2>2, <2>3 DEF TypeOK, OaIdle, OaPc, Underway, RepliesTruthful
<1>5. CASE RegistrationResponse
  <2>1. oa.req \in Registration /\ oa.identity \in Identity \cup {None}
    BY <1>5 DEF RegistrationResponse, Underway, TypeOK
  <2> QED
    BY <1>1, <1>2, <1>5, <2>1
    DEF RegistrationResponse, Goto, TypeOK, OaPc, Underway, RepliesTruthful
<1>6. CASE RegistrationArchive
  BY <1>1, <1>2, <1>6 DEF RegistrationArchive, TypeOK, OaIdle, OaPc, Underway, RepliesTruthful
<1>7. CASE LifecycleAnswered \/ LifecycleUnchanged
  <2>1. PICK r \in lifecycles, label \in {"life_archive", "life_response"} : Take(r, label)
    BY <1>7 DEF LifecycleAnswered, LifecycleUnchanged
  <2>2. UNCHANGED <<registrations, lifecycles, replies, answered>>
    BY <1>7 DEF LifecycleAnswered, LifecycleUnchanged
  <2> QED
    BY <1>1, <1>2, <2>1, <2>2 DEF Take, TypeOK, OaIdle, OaPc, Underway, RepliesTruthful
<1>8. CASE LifecycleResponse
  <2>1. oa.req.id \in Nat
    BY <1>8 DEF LifecycleResponse, Underway
  <2> QED
    BY <1>1, <1>2, <1>8, <2>1
    DEF LifecycleResponse, Goto, TypeOK, OaPc, Underway, RepliesTruthful
<1>9. CASE LifecycleArchive
  BY <1>1, <1>2, <1>9 DEF LifecycleArchive, TypeOK, OaIdle, OaPc, Underway, RepliesTruthful
<1> QED
  BY <1>3, <1>4, <1>5, <1>6, <1>7, <1>8, <1>9 DEF Answering

LEMMA PopStep == Inv /\ PopTombstone => Inv'
<1> SUFFICES ASSUME Inv, PopTombstone PROVE Inv'
  OBVIOUS
<1> USE DEF Inv, PopTombstone
<1>1. oa.lwar \in Slot /\ slots[oa.lwar] # None
  BY DEF Underway
<1>2. Fenced'
  BY <1>1 DEF TypeOK, Fenced, OneSlotPerInstance, FreeSlotFenced, Newest, IdentityUnique, OccupantId
<1>3. TypeOK' /\ Underway' /\ RepliesTruthful'
  BY <1>1 DEF Goto, TypeOK, OaPc, Underway, RepliesTruthful
<1> QED
  BY <1>2, <1>3

LEMMA TransitionStep == Inv /\ LifecycleTransition => Inv'
<1> SUFFICES ASSUME Inv, LifecycleTransition PROVE Inv'
  OBVIOUS
<1> USE DEF Inv
<1>1. PICK r \in lifecycles : /\ Changes(r) /\ r.state # "deregistered"
                              /\ slots' = [slots EXCEPT ![r.lwar].state = r.state]
                              /\ Take(r, "life_response")
  BY DEF LifecycleTransition
<1>2. UNCHANGED <<tombs, heartbeat, registrations, lifecycles, replies, answered, drawn,
                  assigned>>
  BY DEF LifecycleTransition
<1>3. r \in Lifecycle /\ r.lwar \in Slot /\ slots[r.lwar] \in Occupant
  BY <1>1 DEF Changes, Holds, TypeOK
<1> DEFINE occupant == [slots[r.lwar] EXCEPT !.state = r.state]
<1>4. /\ occupant \in Occupant /\ occupant # None
      /\ occupant.inst = slots[r.lwar].inst /\ occupant.gen = slots[r.lwar].gen
  BY <1>1, <1>3, NoneOK DEF State
<1>5. slots' = [slots EXCEPT ![r.lwar] = occupant]
  BY <1>1
<1> HIDE DEF occupant
<1>6. \A l \in Slot : /\ slots'[l] = None <=> slots[l] = None
                      /\ slots[l] # None => /\ slots'[l].inst = slots[l].inst
                                            /\ slots'[l].gen = slots[l].gen
  BY <1>3, <1>4, <1>5, NoneOK DEF TypeOK
<1>7. Fenced'
  BY <1>2, <1>6
  DEF Fenced, OneSlotPerInstance, FreeSlotFenced, Newest, IdentityUnique, OccupantId
<1>8. TypeOK'
  <2>1. slots' \in [Slot -> Occupant \cup {None}]
    BY <1>3, <1>4, <1>5 DEF TypeOK
  <2>2. oa' = [OaIdle EXCEPT !.pc = "life_response", !.req = r]
    BY <1>1 DEF Take
  <2> QED
    BY <1>2, <1>3, <2>1, <2>2 DEF TypeOK, OaIdle, OaPc
<1>9. Underway' /\ RepliesTruthful'
  BY <1>1, <1>2, <1>3 DEF Take, OaIdle, Underway, RepliesTruthful
<1> QED
  BY <1>7, <1>8, <1>9

\* The first write of a deregistration or a reclaim: the tombstone.
LEMMA BuryStep ==
  ASSUME Inv, NEW l \in Slot, slots[l] # None, Bury(l),
         NEW req \in Lifecycle \cup {None}, NEW ret,
         ret = "idle" \/ (ret = "life_response" /\ req \in Lifecycle),
         oa' = [pc |-> "write_registry", ret |-> ret, req |-> req, lwar |-> l,
                identity |-> None],
         UNCHANGED <<slots, heartbeat, registrations, lifecycles, replies, answered, drawn,
                     assigned>>
  PROVE  Inv'
<1> USE DEF Inv
<1> DEFINE tomb == [inst |-> slots[l].inst, gen |-> slots[l].gen, blocked |-> TRUE]
<1>1. slots[l] \in Occupant
  BY DEF TypeOK
<1>2. tomb \in Tombstone /\ tomb # None /\ tomb.gen = slots[l].gen
  <2>1. tomb \in Tombstone
    BY <1>1
  <2> QED
    BY <2>1, NoneOK
<1>3. tombs' = [tombs EXCEPT ![l] = tomb]
  BY DEF Bury
<1> HIDE DEF tomb
<1>4. tombs'[l] = tomb /\ \A m \in Slot \ {l} : tombs'[m] = tombs[m]
  BY <1>3 DEF TypeOK
<1>5. Fenced'
  BY <1>4 DEF Fenced, OneSlotPerInstance, FreeSlotFenced, Newest, IdentityUnique, OccupantId
<1>6. TypeOK'
  BY <1>2, <1>3 DEF TypeOK, OaPc
<1>7. Underway' /\ RepliesTruthful'
  BY <1>2, <1>4 DEF Underway, RepliesTruthful
<1> QED
  BY <1>5, <1>6, <1>7

LEMMA DeregisterStep == Inv /\ Deregister => Inv'
<1> SUFFICES ASSUME Inv, Deregister PROVE Inv'
  OBVIOUS
<1>1. PICK r \in lifecycles : /\ Changes(r) /\ Bury(r.lwar)
                              /\ oa' = [OaIdle EXCEPT !.pc = "write_registry",
                                                      !.ret = "life_response",
                                                      !.req = r, !.lwar = r.lwar]
  BY DEF Deregister
<1>2. r \in Lifecycle /\ r.lwar \in Slot /\ slots[r.lwar] # None
  BY <1>1 DEF Inv, TypeOK, Changes, Holds
<1>3. oa' = [pc |-> "write_registry", ret |-> "life_response", req |-> r,
             lwar |-> r.lwar, identity |-> None]
  BY <1>1, <1>2 DEF OaIdle
<1> QED
  BY <1>1, <1>2, <1>3, BuryStep DEF Deregister

LEMMA ReclaimStep == ASSUME Inv, NEW status, Reclaim(status) PROVE Inv'
<1>1. PICK id \in assigned : /\ Holds(id.lwar, id) /\ Bury(id.lwar)
                             /\ oa' = [OaIdle EXCEPT !.pc = "write_registry",
                                                     !.lwar = id.lwar]
  BY DEF Reclaim
<1>2. id.lwar \in Slot /\ slots[id.lwar] # None
  BY <1>1 DEF Inv, TypeOK, Holds
<1>3. oa' = [pc |-> "write_registry", ret |-> "idle", req |-> None, lwar |-> id.lwar,
             identity |-> None]
  BY <1>1 DEF OaIdle
<1>4. UNCHANGED <<slots, heartbeat, registrations, lifecycles, replies, answered, drawn,
                  assigned>>
  BY DEF Reclaim
<1>5. Bury(id.lwar)
  BY <1>1
<1> QED
  BY <1>2, <1>3, <1>4, <1>5, BuryStep

\* The second write: the slot is free, and its tombstone fences it.
LEMMA VacateStep == Inv /\ WriteRegistry => Inv'
<1> SUFFICES ASSUME Inv, WriteRegistry PROVE Inv'
  OBVIOUS
<1> USE DEF Inv, WriteRegistry
<1>1. /\ oa.lwar \in Slot /\ slots[oa.lwar] # None
      /\ tombs[oa.lwar] # None /\ tombs[oa.lwar].gen = slots[oa.lwar].gen
  BY DEF Underway
<1>2. /\ slots'[oa.lwar] = None
      /\ \A m \in Slot \ {oa.lwar} : slots'[m] = slots[m]
  BY <1>1 DEF Vacate, TypeOK
<1>3. Fenced'
  <2>1. FreeSlotFenced'
    BY <1>1, <1>2 DEF Fenced, FreeSlotFenced, Newest
  <2>2. OneSlotPerInstance'
    BY <1>1, <1>2 DEF Fenced, OneSlotPerInstance
  <2>3. Newest'
    BY <1>1, <1>2 DEF Fenced, Newest, OccupantId
  <2>4. IdentityUnique'
    BY DEF Fenced, IdentityUnique
  <2> QED
    BY <2>1, <2>2, <2>3, <2>4 DEF Fenced
<1>4. TypeOK'
  BY <1>1 DEF Vacate, Goto, TypeOK, OaPc
<1>5. Underway' /\ RepliesTruthful'
  BY DEF Goto, Underway, RepliesTruthful, TypeOK
<1> QED
  BY <1>3, <1>4, <1>5

LEMMA CrashStep == Inv /\ OaCrash => Inv'
<1> SUFFICES ASSUME Inv, OaCrash PROVE Inv'
  OBVIOUS
<1> USE DEF Inv, OaCrash
<1>1. Fenced'
  BY FencedKept
<1>2. TypeOK' /\ Underway' /\ RepliesTruthful'
  BY DEF TypeOK, OaIdle, OaPc, Underway, RepliesTruthful
<1> QED
  BY <1>1, <1>2

\* Time unblocks a tombstone; the generation it fences stays.
LEMMA ExpiryStep == Inv /\ TombstoneExpires => Inv'
<1> SUFFICES ASSUME Inv, TombstoneExpires PROVE Inv'
  OBVIOUS
<1> USE DEF Inv
<1>1. PICK l \in Slot : Blocked(l) /\ tombs' = [tombs EXCEPT ![l].blocked = FALSE]
  BY DEF TombstoneExpires
<1>2. UNCHANGED <<slots, heartbeat, registrations, lifecycles, replies, answered, drawn,
                  oa, assigned>>
  BY DEF TombstoneExpires
<1> DEFINE tomb == [tombs[l] EXCEPT !.blocked = FALSE]
<1>3. tombs[l] \in Tombstone
  BY <1>1 DEF TypeOK, Blocked
<1>4. tomb \in Tombstone /\ tomb # None /\ tomb.gen = tombs[l].gen
  BY <1>3, NoneOK
<1>5. tombs' = [tombs EXCEPT ![l] = tomb]
  BY <1>1
<1> HIDE DEF tomb
<1>6. \A m \in Slot : /\ tombs[m] # None => tombs'[m] # None /\ tombs'[m].gen = tombs[m].gen
  BY <1>4, <1>5 DEF TypeOK
<1>7. TypeOK'
  BY <1>2, <1>4, <1>5 DEF TypeOK
<1>8. Fenced'
  BY <1>2, <1>6
  DEF Fenced, OneSlotPerInstance, FreeSlotFenced, Newest, IdentityUnique, OccupantId
<1>9. Underway' /\ RepliesTruthful'
  BY <1>2, <1>6 DEF Underway, RepliesTruthful
<1> QED
  BY <1>7, <1>8, <1>9

LEMMA Inductive == Inv /\ [Next]_vars => Inv'
<1> SUFFICES ASSUME Inv, [Next]_vars PROVE Inv'
  OBVIOUS
<1>1. CASE UNCHANGED vars
  BY <1>1 DEF vars, Inv, TypeOK, Fenced, OneSlotPerInstance, FreeSlotFenced, Newest,
              IdentityUnique, OccupantId, Underway, RepliesTruthful
<1>2. CASE Lwar
  BY <1>2, LwarStep
<1>3. CASE Answering
  BY <1>3, AnsweringStep
<1>4. CASE RegistrationAllocated \/ PopTombstone
  BY <1>4, AllocationStep, PopStep
<1>5. CASE LifecycleTransition
  BY <1>5, TransitionStep
<1>6. CASE Deregister \/ WriteRegistry
  BY <1>6, DeregisterStep, VacateStep
<1>7. CASE RetireStale \/ ReapStartup
  BY <1>7, ReclaimStep DEF RetireStale, ReapStartup
<1>8. CASE OaCrash \/ TombstoneExpires
  BY <1>8, CrashStep, ExpiryStep
<1> QED
  BY <1>1, <1>2, <1>3, <1>4, <1>5, <1>6, <1>7, <1>8
  DEF Next, Registering, Cycling, Answering

-----------------------------------------------------------------------------
\* The inductive invariant: the type of every file, the fencing of free slots, and
\* the local state of a command between the two file writes of a mutation.
THEOREM Invariance == Spec => []Inv
  BY Initially, Inductive, PTL DEF Spec

\* Every file and every local variable of the registry's writers has its shape.
THEOREM RegistryTypes == Spec => []TypeOK
<1>1. Inv => TypeOK
  BY DEF Inv
<1> QED
  BY <1>1, Invariance, PTL

\* A slot that was ever occupied is never free without a tombstone of its newest
\* generation, wherever the OA crashes between the two file writes of reconcile,
\* retire_stale or reap_startup.
THEOREM FreeSlotsAreFenced == Spec => []FreeSlotFenced
<1>1. Inv => FreeSlotFenced
  BY DEF Inv, Fenced
<1> QED
  BY <1>1, Invariance, PTL

\* process_registration gives one instance one slot at most, whatever is replayed.
THEOREM InstancesHoldOneSlot == Spec => []OneSlotPerInstance
<1>1. Inv => OneSlotPerInstance
  BY DEF Inv, Fenced
<1> QED
  BY <1>1, Invariance, PTL

\* No slot and generation is ever given to two instances.
THEOREM IdentitiesAreUnique == Spec => []IdentityUnique
<1>1. Inv => IdentityUnique
  BY DEF Inv, Fenced
<1> QED
  BY <1>1, Invariance, PTL

\* An LWAR is only ever told of an identity that process_registration gave out.
THEOREM RepliesAreTruthful == Spec => []RepliesTruthful
<1>1. Inv => RepliesTruthful
  BY DEF Inv
<1> QED
  BY <1>1, Invariance, PTL

\* Whoever takes a slot gets a generation none of its former occupants had.
THEOREM GenerationsGrow == Spec => GenerationGrows
<1> DEFINE Grows == \A l \in Slot : slots[l] = None /\ slots'[l] # None =>
                       \A id \in assigned : id.lwar = l => id.gen < slots'[l].gen
<1>1. Inv /\ [Next]_vars => [Grows]_vars
  <2> SUFFICES ASSUME Inv, Next PROVE Grows
    OBVIOUS
  <2>1. CASE RegistrationAllocated
    <3>1. PICK r \in registrations, m \in Slot :
            /\ slots[m] = None
            /\ slots' = [slots EXCEPT ![m] = [inst |-> r.inst, gen |-> NextGeneration(m),
                                              state |-> "on"]]
      BY <2>1 DEF RegistrationAllocated, Available
    <3>2. \A id \in assigned : id.lwar = m => id.gen < NextGeneration(m)
      BY <3>1, NextIsNew
    <3> QED
      BY <3>1, <3>2 DEF Inv, TypeOK
  <2>2. CASE LifecycleTransition
    <3>1. PICK r \in lifecycles : Holds(r.lwar, r)
                                 /\ slots' = [slots EXCEPT ![r.lwar].state = r.state]
      BY <2>2 DEF LifecycleTransition, Changes
    <3>2. \A l \in Slot : slots[l] = None => slots'[l] = None
      BY <3>1 DEF Holds, Inv, TypeOK
    <3> QED
      BY <3>2
  <2>3. CASE WriteRegistry
    BY <2>3 DEF WriteRegistry, Vacate, Inv, TypeOK
  <2>4. CASE ~(RegistrationAllocated \/ LifecycleTransition \/ WriteRegistry)
    <3>1. UNCHANGED slots
      BY <2>4 DEF Next, Lwar, Register, Adopt, Beat, RequestState, Registering,
         RegistrationAnswered, RegistrationMismatched, RegistrationRefused,
         RegistrationReplayed, PopTombstone, RegistrationResponse, RegistrationArchive,
         Cycling, LifecycleAnswered, LifecycleUnchanged, Deregister, LifecycleResponse,
         LifecycleArchive, RetireStale, ReapStartup, Reclaim, OaCrash, TombstoneExpires
    <3> QED
      BY <3>1
  <2> QED
    BY <2>1, <2>2, <2>3, <2>4
<1>2. GenerationGrows <=> [][Grows]_vars
  BY DEF GenerationGrows
<1> QED
  BY <1>1, <1>2, Invariance, PTL DEF Spec
=============================================================================
