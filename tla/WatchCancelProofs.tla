-------------------------- MODULE WatchCancelProofs -------------------------
(***************************************************************************)
(* WatchCancel is right for any number of watchers, cancels and attempts.  *)
(***************************************************************************)
EXTENDS WatchCancel, TLAPS

-----------------------------------------------------------------------------
(* The inductive invariant *)

\* Whoever acknowledges has emitted: between the two the watcher stands at ack.
AckTold == \A w \in Watcher : At(w, "ack") => watcher[w].control \in told

\* The OA's commands run one at a time: while prune looks at claimed/, nothing can
\* come into incoming/ behind its back.
PruneLooked == oa = "prune" => incoming = None

Unsent == ~sent => /\ incoming = None /\ claimed = None /\ lease = None
                   /\ given = {} /\ doomed = {}
                   /\ \A w \in Watcher : watcher[w].attempt = None

Used(a) == a \in given \/ a = lease \/ \E w \in Watcher : watcher[w].attempt = a

\* There is one copy of the task, and its attempt is the newest of all.
OneCopy ==
    /\ incoming # None =>
           /\ claimed = None
           /\ \A a \in Attempt : (Used(a) => a < incoming) /\ (a \in doomed => a <= incoming)
    /\ claimed # None =>
           \A a \in Attempt : Used(a) \/ a \in doomed => a <= claimed

\* A watcher between its claim and its lease, or its archive, works on that copy alone.
IsClaiming(w) == watcher[w].pc \in {"moved", "lease", "cancel_publish", "cancel_lease", "cancel_archive"}
AloneAtWork ==
    \A w \in Watcher :
        /\ IsClaiming(w) =>
               /\ claimed = watcher[w].attempt
               /\ lease # watcher[w].attempt /\ watcher[w].attempt \notin given
               /\ \A v \in Watcher : v # w => watcher[v].attempt # watcher[w].attempt
        /\ At(w, "cancel_unlink") => incoming = None /\ claimed = None

\* The tombstone outlives the look for it, and what passed that look is not doomed.
DoomSeen ==
    /\ incoming \in doomed => tombstone
    /\ \A w \in Watcher :
           /\ At(w, "moved") /\ watcher[w].attempt \in doomed => tombstone
           /\ watcher[w].pc \in {"lease", "deliver"} => watcher[w].attempt \notin doomed
    /\ lease \notin doomed
    /\ given \cap doomed = {}

Orderly == OneCopy /\ AloneAtWork /\ DoomSeen

CancelInv ==
    /\ TypeOK /\ AckTold /\ ArchivedTold /\ PruneLooked /\ Unsent
    /\ overtaken \/ Orderly

-----------------------------------------------------------------------------
(* How a step moves one watcher *)

WatcherState == [pc : WatcherPc, control : Control \cup {None}, attempt : Attempt \cup {None}]

\* One watcher moves, the others stand.
Moves(w, p, c, a) ==
    /\ watcher' \in [Watcher -> WatcherState]
    /\ watcher'[w].pc = p /\ watcher'[w].control = c /\ watcher'[w].attempt = a
    /\ \A v \in Watcher : v # w => watcher'[v] = watcher[v]

LEMMA GotoMoves ==
  ASSUME TypeOK, NEW w \in Watcher, NEW p \in WatcherPc, Goto(w, p)
  PROVE  Moves(w, p, watcher[w].control, watcher[w].attempt)
  BY DEF Goto, Moves, WatcherState, TypeOK

LEMMA OffMoves ==
  ASSUME TypeOK, NEW w \in Watcher, watcher' = [watcher EXCEPT ![w] = Off]
  PROVE  Moves(w, "off", None, None)
  BY DEF Off, Moves, WatcherState, WatcherPc, TypeOK

LEMMA AttemptMoves ==
  ASSUME TypeOK, NEW w \in Watcher, NEW p \in WatcherPc, NEW a \in Attempt \cup {None},
         watcher' = [watcher EXCEPT ![w].pc = p, ![w].attempt = a]
  PROVE  Moves(w, p, watcher[w].control, a)
  BY DEF Moves, WatcherState, TypeOK

LEMMA ControlMoves ==
  ASSUME TypeOK, NEW w \in Watcher, NEW p \in WatcherPc, NEW c \in Control,
         watcher' = [watcher EXCEPT ![w].pc = p, ![w].control = c]
  PROVE  Moves(w, p, c, watcher[w].attempt)
  BY DEF Moves, WatcherState, TypeOK

\* The types, the flags apart from the rest.
Flags == tombstone \in BOOLEAN /\ expired \in BOOLEAN /\ overtaken \in BOOLEAN /\ sent \in BOOLEAN
Shapes ==
    /\ message \in [Control -> Place] /\ stale \subseteq Control
    /\ {incoming, claimed, lease, outgoing} \subseteq Attempt \cup {None}
    /\ current \in Watcher \cup {None}
    /\ watcher \in [Watcher -> WatcherState]
    /\ oa \in {"idle", "prune"} /\ faults \in 0..MaxFaults
    /\ told \subseteq Control /\ given \subseteq Attempt /\ doomed \subseteq Attempt
    /\ \A w \in Watcher :
           /\ watcher[w].control # None <=> watcher[w].pc \in {"message", "emit", "ack"}
           /\ watcher[w].attempt = None <=> watcher[w].pc \in {"off", "poll", "message", "emit", "ack"}

LEMMA NotDoomed == TypeOK => None \notin doomed
<1>1. \A n \in Attempt : n \in Nat
  BY CancelConstants DEF Attempt
<1>2. None \notin Nat
  BY CancelConstants
<1> QED
  BY <1>1, <1>2 DEF TypeOK

-----------------------------------------------------------------------------
(* One lemma for each step of the OA and of the time *)

LEMMA PublishTaskKeeps == ASSUME CancelInv, PublishTask PROVE CancelInv'
<1>0. TypeOK
  BY DEF CancelInv
<1>2. TypeOK'
  <2>1. Flags'
    BY <1>0, Zenon DEF PublishTask, files, history, Flags, TypeOK
  <2>2. Shapes'
    BY <1>0, CancelConstants DEF PublishTask, files, history, TypeOK, Shapes, WatcherState, WatcherPc, Place, Attempt, Doom, Fault
  <2> QED
    BY <2>1, <2>2 DEF TypeOK, Flags, Shapes, WatcherState
<1>3. AckTold' /\ ArchivedTold' /\ PruneLooked' /\ Unsent'
  BY <1>0, CancelConstants DEF PublishTask, files, history, CancelInv, TypeOK, AckTold, ArchivedTold, PruneLooked, Unsent, Doom, At
<1>4. ASSUME ~overtaken' PROVE Orderly'
  <2>0. OneCopy /\ AloneAtWork /\ DoomSeen /\ Unsent /\ PruneLooked
    BY <1>4 DEF PublishTask, files, history, CancelInv, Orderly
  <2>1. OneCopy'
    BY <1>0, <1>2, <2>0, CancelConstants DEF PublishTask, files, history, OneCopy, Used, AloneAtWork, IsClaiming, TypeOK, Attempt, Doom, Unsent, At
  <2>2. AloneAtWork'
    BY <1>0, <1>2, <2>0, CancelConstants DEF PublishTask, files, history, OneCopy, Used, AloneAtWork, IsClaiming, TypeOK, Attempt, Unsent, At
  <2>3. DoomSeen'
    BY <1>0, <1>2, <2>0, CancelConstants DEF PublishTask, files, history, OneCopy, Used, AloneAtWork, IsClaiming, DoomSeen, TypeOK, Attempt, Doom, Unsent, PruneLooked, At
  <2> QED
    BY <2>1, <2>2, <2>3 DEF Orderly
<1> QED
  BY <1>2, <1>3, <1>4 DEF CancelInv

LEMMA SendControlKeeps == ASSUME CancelInv, NEW c \in Control, SendControl(c) PROVE CancelInv'
<1>0. TypeOK
  BY DEF CancelInv
<1>2. TypeOK'
  <2>1. Flags'
    BY <1>0, Zenon DEF SendControl, files, history, Flags, TypeOK
  <2>2. Shapes'
    BY <1>0, CancelConstants DEF SendControl, files, history, TypeOK, Shapes, WatcherState, WatcherPc, Place, Attempt, Doom, Fault
  <2> QED
    BY <2>1, <2>2 DEF TypeOK, Flags, Shapes, WatcherState
<1>3. AckTold' /\ ArchivedTold' /\ PruneLooked' /\ Unsent'
  BY <1>0, CancelConstants DEF SendControl, files, history, CancelInv, TypeOK, AckTold, ArchivedTold, PruneLooked, Unsent, Doom, At
<1>4. ASSUME ~overtaken' PROVE Orderly'
  <2>0. OneCopy /\ AloneAtWork /\ DoomSeen /\ Unsent /\ PruneLooked
    BY <1>4 DEF SendControl, files, history, CancelInv, Orderly
  <2>1. OneCopy'
    BY <1>0, <1>2, <2>0, CancelConstants DEF SendControl, files, history, OneCopy, Used, AloneAtWork, IsClaiming, TypeOK, Attempt, Doom, Unsent, At
  <2>2. AloneAtWork'
    BY <1>0, <1>2, <2>0, CancelConstants DEF SendControl, files, history, OneCopy, Used, AloneAtWork, IsClaiming, TypeOK, Attempt, Unsent, At
  <2>3. DoomSeen'
    BY <1>0, <1>2, <2>0, CancelConstants DEF SendControl, files, history, OneCopy, Used, AloneAtWork, IsClaiming, DoomSeen, TypeOK, Attempt, Doom, Unsent, PruneLooked, At
  <2> QED
    BY <2>1, <2>2, <2>3 DEF Orderly
<1> QED
  BY <1>2, <1>3, <1>4 DEF CancelInv

LEMMA ExpireKeeps == ASSUME CancelInv, Expire PROVE CancelInv'
<1>0. TypeOK
  BY DEF CancelInv
<1>2. TypeOK'
  <2>1. Flags'
    BY <1>0, Zenon DEF Expire, files, history, Flags, TypeOK
  <2>2. Shapes'
    BY <1>0, CancelConstants DEF Expire, files, history, TypeOK, Shapes, WatcherState, WatcherPc, Place, Attempt, Doom, Fault
  <2> QED
    BY <2>1, <2>2 DEF TypeOK, Flags, Shapes, WatcherState
<1>3. AckTold' /\ ArchivedTold' /\ PruneLooked' /\ Unsent'
  BY <1>0, CancelConstants DEF Expire, files, history, CancelInv, TypeOK, AckTold, ArchivedTold, PruneLooked, Unsent, Doom, At
<1>4. ASSUME ~overtaken' PROVE Orderly'
  <2>0. OneCopy /\ AloneAtWork /\ DoomSeen /\ Unsent /\ PruneLooked
    BY <1>4 DEF Expire, files, history, CancelInv, Orderly
  <2>1. OneCopy'
    BY <1>0, <1>2, <2>0, CancelConstants DEF Expire, files, history, OneCopy, Used, AloneAtWork, IsClaiming, TypeOK, Attempt, Doom, Unsent, At
  <2>2. AloneAtWork'
    BY <1>0, <1>2, <2>0, CancelConstants DEF Expire, files, history, OneCopy, Used, AloneAtWork, IsClaiming, TypeOK, Attempt, Unsent, At
  <2>3. DoomSeen'
    BY <1>0, <1>2, <2>0, CancelConstants DEF Expire, files, history, OneCopy, Used, AloneAtWork, IsClaiming, DoomSeen, TypeOK, Attempt, Doom, Unsent, PruneLooked, At
  <2> QED
    BY <2>1, <2>2, <2>3 DEF Orderly
<1> QED
  BY <1>2, <1>3, <1>4 DEF CancelInv

LEMMA RecoverKeeps == ASSUME CancelInv, Recover PROVE CancelInv'
<1>0. TypeOK
  BY DEF CancelInv
<1>2. TypeOK'
  <2>1. Flags'
    BY <1>0, Zenon DEF Recover, files, history, Flags, TypeOK
  <2>2. Shapes'
    <3>1. incoming' \in Attempt \cup {None}
      BY <1>0, CancelConstants DEF Recover, TypeOK, Attempt
    <3>2. /\ UNCHANGED <<message, stale, outgoing, current, watcher, oa, faults, told, given>>
          /\ claimed' = None /\ lease' = None /\ doomed' \in {doomed, doomed \cup {incoming'}}
      BY DEF Recover, Doom
    <3>3. doomed' \subseteq Attempt
      <4>1. CASE incoming' = None
        BY <1>0, <4>1 DEF Recover, Doom, TypeOK
      <4>2. CASE incoming' # None
        BY <1>0, <3>1, <3>2, <4>2 DEF TypeOK
      <4> QED
        BY <4>1, <4>2
    <3> QED
      BY <1>0, <3>1, <3>2, <3>3 DEF TypeOK, Shapes, WatcherState
  <2> QED
    BY <2>1, <2>2 DEF TypeOK, Flags, Shapes, WatcherState
<1>3. AckTold' /\ ArchivedTold' /\ PruneLooked' /\ Unsent'
  BY <1>0, CancelConstants DEF Recover, files, history, CancelInv, TypeOK, AckTold, ArchivedTold, PruneLooked, Unsent, Doom, At
<1>4. ASSUME ~overtaken' PROVE Orderly'
  <2>0. OneCopy /\ AloneAtWork /\ DoomSeen /\ Unsent /\ PruneLooked
    BY <1>4 DEF Recover, files, history, CancelInv, Orderly
  <2>1. OneCopy'
    BY <1>0, <1>2, <2>0, CancelConstants DEF Recover, files, history, OneCopy, Used, AloneAtWork, IsClaiming, TypeOK, Attempt, Doom, Unsent, At
  <2>2. AloneAtWork'
    <3>1. \A w \in Watcher : ~IsClaiming(w)
      BY <1>4 DEF Recover, Claiming, IsClaiming
    <3>2. \A w \in Watcher : ~At(w, "cancel_unlink")
      BY <2>0 DEF Recover, AloneAtWork
    <3> QED
      BY <3>1, <3>2 DEF Recover, AloneAtWork, IsClaiming, At
  <2>3. DoomSeen'
    BY <1>0, <1>2, <2>0, CancelConstants DEF Recover, files, history, OneCopy, Used, AloneAtWork, IsClaiming, DoomSeen, TypeOK, Attempt, Doom, Unsent, PruneLooked, At
  <2> QED
    BY <2>1, <2>2, <2>3 DEF Orderly
<1> QED
  BY <1>2, <1>3, <1>4 DEF CancelInv

LEMMA CollectKeeps == ASSUME CancelInv, Collect PROVE CancelInv'
<1>0. TypeOK
  BY DEF CancelInv
<1>2. TypeOK'
  <2>1. Flags'
    BY <1>0, Zenon DEF Collect, files, history, Flags, TypeOK
  <2>2. Shapes'
    BY <1>0, CancelConstants DEF Collect, files, history, TypeOK, Shapes, WatcherState, WatcherPc, Place, Attempt, Doom, Fault
  <2> QED
    BY <2>1, <2>2 DEF TypeOK, Flags, Shapes, WatcherState
<1>3. AckTold' /\ ArchivedTold' /\ PruneLooked' /\ Unsent'
  BY <1>0, CancelConstants DEF Collect, files, history, CancelInv, TypeOK, AckTold, ArchivedTold, PruneLooked, Unsent, Doom, At
<1>4. ASSUME ~overtaken' PROVE Orderly'
  <2>0. OneCopy /\ AloneAtWork /\ DoomSeen /\ Unsent /\ PruneLooked
    BY <1>4 DEF Collect, files, history, CancelInv, Orderly
  <2>1. OneCopy'
    BY <1>0, <1>2, <2>0, CancelConstants DEF Collect, files, history, OneCopy, Used, AloneAtWork, IsClaiming, TypeOK, Attempt, Doom, Unsent, At
  <2>2. AloneAtWork'
    BY <1>0, <1>2, <2>0, CancelConstants DEF Collect, files, history, OneCopy, Used, AloneAtWork, IsClaiming, TypeOK, Attempt, Unsent, At
  <2>3. DoomSeen'
    BY <1>0, <1>2, <2>0, CancelConstants DEF Collect, files, history, OneCopy, Used, AloneAtWork, IsClaiming, DoomSeen, TypeOK, Attempt, Doom, Unsent, PruneLooked, At
  <2> QED
    BY <2>1, <2>2, <2>3 DEF Orderly
<1> QED
  BY <1>2, <1>3, <1>4 DEF CancelInv

LEMMA PruneLookKeeps == ASSUME CancelInv, PruneLook PROVE CancelInv'
<1>0. TypeOK
  BY DEF CancelInv
<1>2. TypeOK'
  <2>1. Flags'
    BY <1>0, Zenon DEF PruneLook, files, history, Flags, TypeOK
  <2>2. Shapes'
    BY <1>0, CancelConstants DEF PruneLook, files, history, TypeOK, Shapes, WatcherState, WatcherPc, Place, Attempt, Doom, Fault
  <2> QED
    BY <2>1, <2>2 DEF TypeOK, Flags, Shapes, WatcherState
<1>3. AckTold' /\ ArchivedTold' /\ PruneLooked' /\ Unsent'
  BY <1>0, CancelConstants DEF PruneLook, files, history, CancelInv, TypeOK, AckTold, ArchivedTold, PruneLooked, Unsent, Doom, At
<1>4. ASSUME ~overtaken' PROVE Orderly'
  <2>0. OneCopy /\ AloneAtWork /\ DoomSeen /\ Unsent /\ PruneLooked
    BY <1>4 DEF PruneLook, files, history, CancelInv, Orderly
  <2>1. OneCopy'
    BY <1>0, <1>2, <2>0, CancelConstants DEF PruneLook, files, history, OneCopy, Used, AloneAtWork, IsClaiming, TypeOK, Attempt, Doom, Unsent, At
  <2>2. AloneAtWork'
    BY <1>0, <1>2, <2>0, CancelConstants DEF PruneLook, files, history, OneCopy, Used, AloneAtWork, IsClaiming, TypeOK, Attempt, Unsent, At
  <2>3. DoomSeen'
    BY <1>0, <1>2, <2>0, CancelConstants DEF PruneLook, files, history, OneCopy, Used, AloneAtWork, IsClaiming, DoomSeen, TypeOK, Attempt, Doom, Unsent, PruneLooked, At
  <2> QED
    BY <2>1, <2>2, <2>3 DEF Orderly
<1> QED
  BY <1>2, <1>3, <1>4 DEF CancelInv

LEMMA PruneUnlinkKeeps == ASSUME CancelInv, PruneUnlink PROVE CancelInv'
<1>0. TypeOK
  BY DEF CancelInv
<1>2. TypeOK'
  <2>1. Flags'
    BY <1>0, Zenon DEF PruneUnlink, files, history, Flags, TypeOK
  <2>2. Shapes'
    BY <1>0, CancelConstants DEF PruneUnlink, files, history, TypeOK, Shapes, WatcherState, WatcherPc, Place, Attempt, Doom, Fault
  <2> QED
    BY <2>1, <2>2 DEF TypeOK, Flags, Shapes, WatcherState
<1>3. AckTold' /\ ArchivedTold' /\ PruneLooked' /\ Unsent'
  BY <1>0, CancelConstants DEF PruneUnlink, files, history, CancelInv, TypeOK, AckTold, ArchivedTold, PruneLooked, Unsent, Doom, At
<1>4. ASSUME ~overtaken' PROVE Orderly'
  <2>0. OneCopy /\ AloneAtWork /\ DoomSeen /\ Unsent /\ PruneLooked
    BY <1>4 DEF PruneUnlink, files, history, CancelInv, Orderly
  <2>1. OneCopy'
    BY <1>0, <1>2, <2>0, CancelConstants DEF PruneUnlink, files, history, OneCopy, Used, AloneAtWork, IsClaiming, TypeOK, Attempt, Doom, Unsent, At
  <2>2. AloneAtWork'
    BY <1>0, <1>2, <2>0, CancelConstants DEF PruneUnlink, files, history, OneCopy, Used, AloneAtWork, IsClaiming, TypeOK, Attempt, Unsent, At
  <2>3. DoomSeen'
    <3>1. /\ claimed = None \/ tombstone' = tombstone
          /\ UNCHANGED <<incoming, watcher, lease, given, doomed>>
      BY Zenon DEF PruneUnlink, history
    <3>2. incoming = None
      BY <2>0 DEF PruneUnlink, PruneLooked
    <3>3. None \notin doomed
      BY <1>0, NotDoomed
    <3>4. CASE claimed = None
      <4>1. \A v \in Watcher : ~At(v, "moved")
        BY <1>0, <2>0, <3>4, CancelConstants DEF AloneAtWork, IsClaiming, TypeOK, At
      <4> QED
        BY <2>0, <3>1, <3>2, <3>3, <4>1, Zenon DEF DoomSeen, At
    <3>5. CASE tombstone' = tombstone
      BY <2>0, <3>1, <3>5, Zenon DEF DoomSeen, At
    <3> QED
      BY <3>1, <3>4, <3>5
  <2> QED
    BY <2>1, <2>2, <2>3 DEF Orderly
<1> QED
  BY <1>2, <1>3, <1>4 DEF CancelInv

LEMMA SubmitKeeps == ASSUME CancelInv, NEW a \in Attempt, Submit(a) PROVE CancelInv'
<1>0. TypeOK
  BY DEF CancelInv
<1>2. TypeOK'
  <2>1. Flags'
    BY <1>0, Zenon DEF Submit, files, history, Flags, TypeOK
  <2>2. Shapes'
    BY <1>0, CancelConstants DEF Submit, files, history, TypeOK, Shapes, WatcherState, WatcherPc, Place, Attempt, Doom, Fault
  <2> QED
    BY <2>1, <2>2 DEF TypeOK, Flags, Shapes, WatcherState
<1>3. AckTold' /\ ArchivedTold' /\ PruneLooked' /\ Unsent'
  BY <1>0, CancelConstants DEF Submit, files, history, CancelInv, TypeOK, AckTold, ArchivedTold, PruneLooked, Unsent, Doom, At
<1>4. ASSUME ~overtaken' PROVE Orderly'
  <2>0. OneCopy /\ AloneAtWork /\ DoomSeen /\ Unsent /\ PruneLooked
    BY <1>4 DEF Submit, files, history, CancelInv, Orderly
  <2>1. OneCopy'
    BY <1>0, <1>2, <2>0, CancelConstants DEF Submit, files, history, OneCopy, Used, AloneAtWork, IsClaiming, TypeOK, Attempt, Doom, Unsent, At
  <2>2. AloneAtWork'
    BY <1>0, <1>2, <2>0, CancelConstants DEF Submit, files, history, OneCopy, Used, AloneAtWork, IsClaiming, TypeOK, Attempt, Unsent, At
  <2>3. DoomSeen'
    <3>1. lease' = None /\ UNCHANGED <<tombstone, incoming, watcher, given, doomed>>
      BY DEF Submit, history
    <3>2. None \notin doomed
      BY <1>0, NotDoomed
    <3> QED
      BY <2>0, <3>1, <3>2, Zenon DEF DoomSeen, At
  <2> QED
    BY <2>1, <2>2, <2>3 DEF Orderly
<1> QED
  BY <1>2, <1>3, <1>4 DEF CancelInv

-----------------------------------------------------------------------------
(* One lemma for each step of a watcher *)

LEMMA ClaimControlKeeps == ASSUME CancelInv, NEW w \in Watcher, ClaimControl(w) PROVE CancelInv'
<1>0. TypeOK
  BY DEF CancelInv
<1>1. \/ UNCHANGED watcher /\ \E c \in Control : message' = [message EXCEPT ![c] = "failed"]
      \/ \E c \in Control : /\ message' = [message EXCEPT ![c] = "claimed"]
                            /\ Moves(w, "message", c, watcher[w].attempt)
  <2>1. PICK c \in Candidates :
          IF c \in stale
          THEN message' = [message EXCEPT ![c] = "failed"] /\ UNCHANGED watcher
          ELSE /\ message' = [message EXCEPT ![c] = "claimed"]
               /\ watcher' = [watcher EXCEPT ![w].pc = "message", ![w].control = c]
    BY DEF ClaimControl
  <2>2. c \in Control /\ "message" \in WatcherPc
    BY DEF Candidates, InPlace, WatcherPc
  <2> QED
    BY <1>0, <2>1, <2>2, ControlMoves
<1>2. TypeOK'
  <2>1. Flags'
    BY <1>0, Zenon DEF ClaimControl, files, history, Flags, TypeOK
  <2>2. Shapes'
    BY <1>0, <1>1, CancelConstants DEF ClaimControl, files, history, Moves, At, TypeOK, Shapes, WatcherState, WatcherPc, Place, Attempt, Doom, Fault
  <2> QED
    BY <2>1, <2>2 DEF TypeOK, Flags, Shapes, WatcherState
<1>3. AckTold' /\ ArchivedTold' /\ PruneLooked' /\ Unsent'
  BY <1>0, <1>1, CancelConstants DEF ClaimControl, files, history, CancelInv, TypeOK, AckTold, ArchivedTold, PruneLooked, Unsent, Doom, Moves, At
<1>4. ASSUME ~overtaken' PROVE Orderly'
  <2>0. OneCopy /\ AloneAtWork /\ DoomSeen /\ Unsent /\ PruneLooked
    BY <1>4 DEF ClaimControl, files, history, CancelInv, Orderly
  <2>1. OneCopy'
    BY <1>0, <1>1, <1>2, <2>0, CancelConstants DEF ClaimControl, files, history, OneCopy, Used, AloneAtWork, IsClaiming, TypeOK, Attempt, Doom, Unsent, At, Moves, WatcherState
  <2>2. AloneAtWork'
    BY <1>0, <1>1, <1>2, <2>0, CancelConstants DEF ClaimControl, files, history, OneCopy, Used, AloneAtWork, IsClaiming, TypeOK, Attempt, Unsent, At, Moves, WatcherState
  <2>3. DoomSeen'
    BY <1>0, <1>1, <1>2, <2>0, CancelConstants DEF ClaimControl, files, history, OneCopy, Used, AloneAtWork, IsClaiming, DoomSeen, TypeOK, Attempt, Doom, Unsent, PruneLooked, At, Moves, WatcherState
  <2> QED
    BY <2>1, <2>2, <2>3 DEF Orderly
<1> QED
  BY <1>2, <1>3, <1>4 DEF CancelInv

LEMMA GuardMessageKeeps == ASSUME CancelInv, NEW w \in Watcher, GuardMessage(w) PROVE CancelInv'
<1>0. TypeOK
  BY DEF CancelInv
<1>1. \/ Moves(w, "emit", watcher[w].control, watcher[w].attempt) /\ tombstone'
      \/ Moves(w, "off", None, None) /\ UNCHANGED tombstone
  <2>1. \/ Goto(w, "emit") /\ tombstone'
        \/ watcher' = [watcher EXCEPT ![w] = Off] /\ UNCHANGED tombstone
    BY Zenon DEF GuardMessage
  <2>2. "emit" \in WatcherPc
    BY DEF WatcherPc
  <2> QED
    BY <1>0, <2>1, <2>2, GotoMoves, OffMoves
<1>2. TypeOK'
  <2>1. Flags'
    BY <1>0, Zenon DEF GuardMessage, files, history, Flags, TypeOK
  <2>2. Shapes'
    <3>1. /\ UNCHANGED <<message, stale, incoming, claimed, lease, outgoing, current, oa, faults, told, given>>
          /\ doomed' = doomed \/ (doomed' = doomed \cup {incoming} /\ incoming # None)
      BY DEF GuardMessage, Doom
    <3>2. At(w, "message")
      BY DEF GuardMessage
    <3> QED
      BY <1>0, <1>1, <3>1, <3>2, CancelConstants DEF Moves, At, TypeOK, Shapes, WatcherState
  <2> QED
    BY <2>1, <2>2 DEF TypeOK, Flags, Shapes, WatcherState
<1>3. AckTold' /\ ArchivedTold' /\ PruneLooked' /\ Unsent'
  BY <1>0, <1>1, CancelConstants DEF GuardMessage, files, history, CancelInv, TypeOK, AckTold, ArchivedTold, PruneLooked, Unsent, Doom, Moves, At
<1>4. ASSUME ~overtaken' PROVE Orderly'
  <2>0. OneCopy /\ AloneAtWork /\ DoomSeen /\ Unsent /\ PruneLooked
    BY <1>4 DEF GuardMessage, files, history, CancelInv, Orderly
  <2>1. OneCopy'
    BY <1>0, <1>1, <1>2, <2>0, CancelConstants DEF GuardMessage, files, history, OneCopy, Used, AloneAtWork, IsClaiming, TypeOK, Attempt, Doom, Unsent, At, Moves, WatcherState
  <2>2. AloneAtWork'
    <3>1. At(w, "message") /\ UNCHANGED <<incoming, claimed, lease, given>>
      BY DEF GuardMessage
    <3>2. \A v \in Watcher : watcher'[v].attempt = watcher[v].attempt
      BY <1>0, <1>1, <3>1 DEF Moves, TypeOK, At
    <3>3. \A v \in Watcher : IsClaiming(v)' \/ At(v, "cancel_unlink")' => watcher'[v].pc = watcher[v].pc
      BY <1>1 DEF Moves, IsClaiming, At
    <3> QED
      BY <2>0, <3>1, <3>2, <3>3 DEF AloneAtWork, IsClaiming, At
  <2>3. DoomSeen'
    BY <1>0, <1>1, <1>2, <2>0, CancelConstants DEF GuardMessage, files, history, OneCopy, Used, AloneAtWork, IsClaiming, DoomSeen, TypeOK, Attempt, Doom, Unsent, PruneLooked, At, Moves, WatcherState
  <2> QED
    BY <2>1, <2>2, <2>3 DEF Orderly
<1> QED
  BY <1>2, <1>3, <1>4 DEF CancelInv

LEMMA EmitKeeps == ASSUME CancelInv, NEW w \in Watcher, Emit(w) PROVE CancelInv'
<1>0. TypeOK
  BY DEF CancelInv
<1>1. Moves(w, "ack", watcher[w].control, watcher[w].attempt)
  BY <1>0, GotoMoves, CancelConstants DEF Emit, WatcherPc, TypeOK, At
<1>2. TypeOK'
  <2>1. Flags'
    BY <1>0, Zenon DEF Emit, files, history, Flags, TypeOK
  <2>2. Shapes'
    BY <1>0, <1>1, CancelConstants DEF Emit, files, history, Moves, At, TypeOK, Shapes, WatcherState, WatcherPc, Place, Attempt, Doom, Fault
  <2> QED
    BY <2>1, <2>2 DEF TypeOK, Flags, Shapes, WatcherState
<1>3. AckTold' /\ ArchivedTold' /\ PruneLooked' /\ Unsent'
  BY <1>0, <1>1, CancelConstants DEF Emit, files, history, CancelInv, TypeOK, AckTold, ArchivedTold, PruneLooked, Unsent, Doom, Moves, At
<1>4. ASSUME ~overtaken' PROVE Orderly'
  <2>0. OneCopy /\ AloneAtWork /\ DoomSeen /\ Unsent /\ PruneLooked
    BY <1>4 DEF Emit, files, history, CancelInv, Orderly
  <2>1. OneCopy'
    BY <1>0, <1>1, <1>2, <2>0, CancelConstants DEF Emit, files, history, OneCopy, Used, AloneAtWork, IsClaiming, TypeOK, Attempt, Doom, Unsent, At, Moves, WatcherState
  <2>2. AloneAtWork'
    BY <1>0, <1>1, <1>2, <2>0, CancelConstants DEF Emit, files, history, OneCopy, Used, AloneAtWork, IsClaiming, TypeOK, Attempt, Unsent, At, Moves, WatcherState
  <2>3. DoomSeen'
    BY <1>0, <1>1, <1>2, <2>0, CancelConstants DEF Emit, files, history, OneCopy, Used, AloneAtWork, IsClaiming, DoomSeen, TypeOK, Attempt, Doom, Unsent, PruneLooked, At, Moves, WatcherState
  <2> QED
    BY <2>1, <2>2, <2>3 DEF Orderly
<1> QED
  BY <1>2, <1>3, <1>4 DEF CancelInv

LEMMA AckKeeps == ASSUME CancelInv, NEW w \in Watcher, Ack(w) PROVE CancelInv'
<1>0. TypeOK
  BY DEF CancelInv
<1>1. Moves(w, "off", None, None)
  BY <1>0, OffMoves, CancelConstants DEF Ack, WatcherPc, TypeOK, At
<1>2. TypeOK'
  <2>1. Flags'
    BY <1>0, Zenon DEF Ack, files, history, Flags, TypeOK
  <2>2. Shapes'
    BY <1>0, <1>1, CancelConstants DEF Ack, files, history, Moves, At, TypeOK, Shapes, WatcherState, WatcherPc, Place, Attempt, Doom, Fault
  <2> QED
    BY <2>1, <2>2 DEF TypeOK, Flags, Shapes, WatcherState
<1>3. AckTold' /\ ArchivedTold' /\ PruneLooked' /\ Unsent'
  BY <1>0, <1>1, CancelConstants DEF Ack, files, history, CancelInv, TypeOK, AckTold, ArchivedTold, PruneLooked, Unsent, Doom, Moves, At
<1>4. ASSUME ~overtaken' PROVE Orderly'
  <2>0. OneCopy /\ AloneAtWork /\ DoomSeen /\ Unsent /\ PruneLooked
    BY <1>4 DEF Ack, files, history, CancelInv, Orderly
  <2>1. OneCopy'
    BY <1>0, <1>1, <1>2, <2>0, CancelConstants DEF Ack, files, history, OneCopy, Used, AloneAtWork, IsClaiming, TypeOK, Attempt, Doom, Unsent, At, Moves, WatcherState
  <2>2. AloneAtWork'
    BY <1>0, <1>1, <1>2, <2>0, CancelConstants DEF Ack, files, history, OneCopy, Used, AloneAtWork, IsClaiming, TypeOK, Attempt, Unsent, At, Moves, WatcherState
  <2>3. DoomSeen'
    BY <1>0, <1>1, <1>2, <2>0, CancelConstants DEF Ack, files, history, OneCopy, Used, AloneAtWork, IsClaiming, DoomSeen, TypeOK, Attempt, Doom, Unsent, PruneLooked, At, Moves, WatcherState
  <2> QED
    BY <2>1, <2>2, <2>3 DEF Orderly
<1> QED
  BY <1>2, <1>3, <1>4 DEF CancelInv

LEMMA ResumeKeeps == ASSUME CancelInv, NEW w \in Watcher, Resume(w) PROVE CancelInv'
<1>0. TypeOK
  BY DEF CancelInv
<1>1. Moves(w, "deliver", watcher[w].control, claimed)
  BY <1>0, AttemptMoves, CancelConstants DEF Resume, WatcherPc, TypeOK, At, Resumable
<1>2. TypeOK'
  <2>1. Flags'
    BY <1>0, Zenon DEF Resume, files, history, Flags, TypeOK
  <2>2. Shapes'
    <3>1. claimed # None
      BY DEF Resume, Resumable
    <3>2. UNCHANGED <<files, current, oa, faults, history>>
      BY DEF Resume
    <3> QED
      BY <1>0, <1>1, <3>1, <3>2, CancelConstants DEF Resume, files, history, Moves, At, TypeOK, Shapes, WatcherState
  <2> QED
    BY <2>1, <2>2 DEF TypeOK, Flags, Shapes, WatcherState
<1>3. AckTold' /\ ArchivedTold' /\ PruneLooked' /\ Unsent'
  BY <1>0, <1>1, CancelConstants DEF Resume, files, history, CancelInv, TypeOK, AckTold, ArchivedTold, PruneLooked, Unsent, Doom, Moves, At
<1>4. ASSUME ~overtaken' PROVE Orderly'
  <2>0. OneCopy /\ AloneAtWork /\ DoomSeen /\ Unsent /\ PruneLooked
    BY <1>4 DEF Resume, files, history, CancelInv, Orderly
  <2>1. OneCopy'
    BY <1>0, <1>1, <1>2, <2>0, CancelConstants DEF Resume, files, history, OneCopy, Used, AloneAtWork, IsClaiming, TypeOK, Attempt, Doom, Unsent, At, Moves, WatcherState
  <2>2. AloneAtWork'
    BY <1>0, <1>1, <1>2, <2>0, CancelConstants DEF Resume, files, history, OneCopy, Used, AloneAtWork, IsClaiming, TypeOK, Attempt, Unsent, At, Moves, WatcherState
  <2>3. DoomSeen'
    BY <1>0, <1>1, <1>2, <2>0, CancelConstants DEF Resume, files, history, OneCopy, Used, AloneAtWork, IsClaiming, DoomSeen, TypeOK, Attempt, Doom, Unsent, PruneLooked, At, Moves, WatcherState
  <2> QED
    BY <2>1, <2>2, <2>3 DEF Orderly
<1> QED
  BY <1>2, <1>3, <1>4 DEF CancelInv

LEMMA ClaimTaskKeeps == ASSUME CancelInv, NEW w \in Watcher, ClaimTask(w) PROVE CancelInv'
<1>0. TypeOK
  BY DEF CancelInv
<1>1. Moves(w, "moved", watcher[w].control, incoming)
  BY <1>0, AttemptMoves, CancelConstants DEF ClaimTask, WatcherPc, TypeOK, At
<1>2. TypeOK'
  <2>1. Flags'
    BY <1>0, Zenon DEF ClaimTask, files, history, Flags, TypeOK
  <2>2. Shapes'
    BY <1>0, <1>1, CancelConstants DEF ClaimTask, files, history, Moves, At, TypeOK, Shapes, WatcherState, WatcherPc, Place, Attempt, Doom, Fault
  <2> QED
    BY <2>1, <2>2 DEF TypeOK, Flags, Shapes, WatcherState
<1>3. AckTold' /\ ArchivedTold' /\ PruneLooked' /\ Unsent'
  BY <1>0, <1>1, CancelConstants DEF ClaimTask, files, history, CancelInv, TypeOK, AckTold, ArchivedTold, PruneLooked, Unsent, Doom, Moves, At
<1>4. ASSUME ~overtaken' PROVE Orderly'
  <2>0. OneCopy /\ AloneAtWork /\ DoomSeen /\ Unsent /\ PruneLooked
    BY <1>4 DEF ClaimTask, files, history, CancelInv, Orderly
  <2>1. OneCopy'
    BY <1>0, <1>1, <1>2, <2>0, CancelConstants DEF ClaimTask, files, history, OneCopy, Used, AloneAtWork, IsClaiming, TypeOK, Attempt, Doom, Unsent, At, Moves, WatcherState
  <2>2. AloneAtWork'
    BY <1>0, <1>1, <1>2, <2>0, CancelConstants DEF ClaimTask, files, history, OneCopy, Used, AloneAtWork, IsClaiming, TypeOK, Attempt, Unsent, At, Moves, WatcherState
  <2>3. DoomSeen'
    BY <1>0, <1>1, <1>2, <2>0, CancelConstants DEF ClaimTask, files, history, OneCopy, Used, AloneAtWork, IsClaiming, DoomSeen, TypeOK, Attempt, Doom, Unsent, PruneLooked, At, Moves, WatcherState
  <2> QED
    BY <2>1, <2>2, <2>3 DEF Orderly
<1> QED
  BY <1>2, <1>3, <1>4 DEF CancelInv

LEMMA IdleKeeps == ASSUME CancelInv, NEW w \in Watcher, Idle(w) PROVE CancelInv'
<1>0. TypeOK
  BY DEF CancelInv
<1>1. Moves(w, "off", None, None)
  BY <1>0, OffMoves, CancelConstants DEF Idle, WatcherPc, TypeOK, At
<1>2. TypeOK'
  <2>1. Flags'
    BY <1>0, Zenon DEF Idle, files, history, Flags, TypeOK
  <2>2. Shapes'
    BY <1>0, <1>1, CancelConstants DEF Idle, files, history, Moves, At, TypeOK, Shapes, WatcherState, WatcherPc, Place, Attempt, Doom, Fault
  <2> QED
    BY <2>1, <2>2 DEF TypeOK, Flags, Shapes, WatcherState
<1>3. AckTold' /\ ArchivedTold' /\ PruneLooked' /\ Unsent'
  BY <1>0, <1>1, CancelConstants DEF Idle, files, history, CancelInv, TypeOK, AckTold, ArchivedTold, PruneLooked, Unsent, Doom, Moves, At
<1>4. ASSUME ~overtaken' PROVE Orderly'
  <2>0. OneCopy /\ AloneAtWork /\ DoomSeen /\ Unsent /\ PruneLooked
    BY <1>4 DEF Idle, files, history, CancelInv, Orderly
  <2>1. OneCopy'
    BY <1>0, <1>1, <1>2, <2>0, CancelConstants DEF Idle, files, history, OneCopy, Used, AloneAtWork, IsClaiming, TypeOK, Attempt, Doom, Unsent, At, Moves, WatcherState
  <2>2. AloneAtWork'
    BY <1>0, <1>1, <1>2, <2>0, CancelConstants DEF Idle, files, history, OneCopy, Used, AloneAtWork, IsClaiming, TypeOK, Attempt, Unsent, At, Moves, WatcherState
  <2>3. DoomSeen'
    BY <1>0, <1>1, <1>2, <2>0, CancelConstants DEF Idle, files, history, OneCopy, Used, AloneAtWork, IsClaiming, DoomSeen, TypeOK, Attempt, Doom, Unsent, PruneLooked, At, Moves, WatcherState
  <2> QED
    BY <2>1, <2>2, <2>3 DEF Orderly
<1> QED
  BY <1>2, <1>3, <1>4 DEF CancelInv

LEMMA CheckTombstoneKeeps == ASSUME CancelInv, NEW w \in Watcher, CheckTombstone(w) PROVE CancelInv'
<1>0. TypeOK
  BY DEF CancelInv
<1>1. Moves(w, IF tombstone THEN "cancel_publish" ELSE "lease", watcher[w].control, watcher[w].attempt)
  BY <1>0, GotoMoves, CancelConstants DEF CheckTombstone, WatcherPc, TypeOK, At
<1>2. TypeOK'
  <2>1. Flags'
    BY <1>0, Zenon DEF CheckTombstone, files, history, Flags, TypeOK
  <2>2. Shapes'
    BY <1>0, <1>1, CancelConstants DEF CheckTombstone, files, history, Moves, At, TypeOK, Shapes, WatcherState, WatcherPc, Place, Attempt, Doom, Fault
  <2> QED
    BY <2>1, <2>2 DEF TypeOK, Flags, Shapes, WatcherState
<1>3. AckTold' /\ ArchivedTold' /\ PruneLooked' /\ Unsent'
  BY <1>0, <1>1, CancelConstants DEF CheckTombstone, files, history, CancelInv, TypeOK, AckTold, ArchivedTold, PruneLooked, Unsent, Doom, Moves, At
<1>4. ASSUME ~overtaken' PROVE Orderly'
  <2>0. OneCopy /\ AloneAtWork /\ DoomSeen /\ Unsent /\ PruneLooked
    BY <1>4 DEF CheckTombstone, files, history, CancelInv, Orderly
  <2>1. OneCopy'
    BY <1>0, <1>1, <1>2, <2>0, CancelConstants DEF CheckTombstone, files, history, OneCopy, Used, AloneAtWork, IsClaiming, TypeOK, Attempt, Doom, Unsent, At, Moves, WatcherState
  <2>2. AloneAtWork'
    BY <1>0, <1>1, <1>2, <2>0, CancelConstants DEF CheckTombstone, files, history, OneCopy, Used, AloneAtWork, IsClaiming, TypeOK, Attempt, Unsent, At, Moves, WatcherState
  <2>3. DoomSeen'
    BY <1>0, <1>1, <1>2, <2>0, CancelConstants DEF CheckTombstone, files, history, OneCopy, Used, AloneAtWork, IsClaiming, DoomSeen, TypeOK, Attempt, Doom, Unsent, PruneLooked, At, Moves, WatcherState
  <2> QED
    BY <2>1, <2>2, <2>3 DEF Orderly
<1> QED
  BY <1>2, <1>3, <1>4 DEF CancelInv

LEMMA WriteLeaseKeeps == ASSUME CancelInv, NEW w \in Watcher, WriteLease(w) PROVE CancelInv'
<1>0. TypeOK
  BY DEF CancelInv
<1>1. Moves(w, "deliver", watcher[w].control, watcher[w].attempt)
  BY <1>0, GotoMoves, CancelConstants DEF WriteLease, WatcherPc, TypeOK, At
<1>2. TypeOK'
  <2>1. Flags'
    BY <1>0, Zenon DEF WriteLease, files, history, Flags, TypeOK
  <2>2. Shapes'
    BY <1>0, <1>1, CancelConstants DEF WriteLease, files, history, Moves, At, TypeOK, Shapes, WatcherState, WatcherPc, Place, Attempt, Doom, Fault
  <2> QED
    BY <2>1, <2>2 DEF TypeOK, Flags, Shapes, WatcherState
<1>3. AckTold' /\ ArchivedTold' /\ PruneLooked' /\ Unsent'
  BY <1>0, <1>1, CancelConstants DEF WriteLease, files, history, CancelInv, TypeOK, AckTold, ArchivedTold, PruneLooked, Unsent, Doom, Moves, At
<1>4. ASSUME ~overtaken' PROVE Orderly'
  <2>0. OneCopy /\ AloneAtWork /\ DoomSeen /\ Unsent /\ PruneLooked
    BY <1>4 DEF WriteLease, files, history, CancelInv, Orderly
  <2>1. OneCopy'
    BY <1>0, <1>1, <1>2, <2>0, CancelConstants DEF WriteLease, files, history, OneCopy, Used, AloneAtWork, IsClaiming, TypeOK, Attempt, Doom, Unsent, At, Moves, WatcherState
  <2>2. AloneAtWork'
    BY <1>0, <1>1, <1>2, <2>0, CancelConstants DEF WriteLease, files, history, OneCopy, Used, AloneAtWork, IsClaiming, TypeOK, Attempt, Unsent, At, Moves, WatcherState
  <2>3. DoomSeen'
    BY <1>0, <1>1, <1>2, <2>0, CancelConstants DEF WriteLease, files, history, OneCopy, Used, AloneAtWork, IsClaiming, DoomSeen, TypeOK, Attempt, Doom, Unsent, PruneLooked, At, Moves, WatcherState
  <2> QED
    BY <2>1, <2>2, <2>3 DEF Orderly
<1> QED
  BY <1>2, <1>3, <1>4 DEF CancelInv

LEMMA DeliverKeeps == ASSUME CancelInv, NEW w \in Watcher, Deliver(w) PROVE CancelInv'
<1>0. TypeOK
  BY DEF CancelInv
<1>1. Moves(w, "off", None, None)
  BY <1>0, OffMoves, CancelConstants DEF Deliver, WatcherPc, TypeOK, At
<1>2. TypeOK'
  <2>1. Flags'
    BY <1>0, Zenon DEF Deliver, files, history, Flags, TypeOK
  <2>2. Shapes'
    <3>1. watcher[w].attempt \in Attempt
      BY <1>0 DEF Deliver, At, TypeOK
    <3>2. given' \in {given, given \cup {watcher[w].attempt}}
      BY DEF Deliver
    <3>3. UNCHANGED <<files, current, oa, faults, told, doomed>>
      BY DEF Deliver
    <3> QED
      BY <1>0, <1>1, <3>1, <3>2, <3>3, CancelConstants DEF files, Moves, At, TypeOK, Shapes, WatcherState
  <2> QED
    BY <2>1, <2>2 DEF TypeOK, Flags, Shapes, WatcherState
<1>3. AckTold' /\ ArchivedTold' /\ PruneLooked' /\ Unsent'
  BY <1>0, <1>1, CancelConstants DEF Deliver, files, history, CancelInv, TypeOK, AckTold, ArchivedTold, PruneLooked, Unsent, Doom, Moves, At
<1>4. ASSUME ~overtaken' PROVE Orderly'
  <2>0. OneCopy /\ AloneAtWork /\ DoomSeen /\ Unsent /\ PruneLooked
    BY <1>4 DEF Deliver, files, history, CancelInv, Orderly
  <2>1. OneCopy'
    BY <1>0, <1>1, <1>2, <2>0, CancelConstants DEF Deliver, files, history, OneCopy, Used, AloneAtWork, IsClaiming, TypeOK, Attempt, Doom, Unsent, At, Moves, WatcherState
  <2>2. AloneAtWork'
    BY <1>0, <1>1, <1>2, <2>0, CancelConstants DEF Deliver, files, history, OneCopy, Used, AloneAtWork, IsClaiming, TypeOK, Attempt, Unsent, At, Moves, WatcherState
  <2>3. DoomSeen'
    BY <1>0, <1>1, <1>2, <2>0, CancelConstants DEF Deliver, files, history, OneCopy, Used, AloneAtWork, IsClaiming, DoomSeen, TypeOK, Attempt, Doom, Unsent, PruneLooked, At, Moves, WatcherState
  <2> QED
    BY <2>1, <2>2, <2>3 DEF Orderly
<1> QED
  BY <1>2, <1>3, <1>4 DEF CancelInv

LEMMA CancelPublishKeeps == ASSUME CancelInv, NEW w \in Watcher, CancelPublish(w) PROVE CancelInv'
<1>0. TypeOK
  BY DEF CancelInv
<1>1. Moves(w, "cancel_lease", watcher[w].control, watcher[w].attempt)
  BY <1>0, GotoMoves, CancelConstants DEF CancelPublish, WatcherPc, TypeOK, At
<1>2. TypeOK'
  <2>1. Flags'
    BY <1>0, Zenon DEF CancelPublish, files, history, Flags, TypeOK
  <2>2. Shapes'
    BY <1>0, <1>1, CancelConstants DEF CancelPublish, files, history, Moves, At, TypeOK, Shapes, WatcherState, WatcherPc, Place, Attempt, Doom, Fault
  <2> QED
    BY <2>1, <2>2 DEF TypeOK, Flags, Shapes, WatcherState
<1>3. AckTold' /\ ArchivedTold' /\ PruneLooked' /\ Unsent'
  BY <1>0, <1>1, CancelConstants DEF CancelPublish, files, history, CancelInv, TypeOK, AckTold, ArchivedTold, PruneLooked, Unsent, Doom, Moves, At
<1>4. ASSUME ~overtaken' PROVE Orderly'
  <2>0. OneCopy /\ AloneAtWork /\ DoomSeen /\ Unsent /\ PruneLooked
    BY <1>4 DEF CancelPublish, files, history, CancelInv, Orderly
  <2>1. OneCopy'
    BY <1>0, <1>1, <1>2, <2>0, CancelConstants DEF CancelPublish, files, history, OneCopy, Used, AloneAtWork, IsClaiming, TypeOK, Attempt, Doom, Unsent, At, Moves, WatcherState
  <2>2. AloneAtWork'
    BY <1>0, <1>1, <1>2, <2>0, CancelConstants DEF CancelPublish, files, history, OneCopy, Used, AloneAtWork, IsClaiming, TypeOK, Attempt, Unsent, At, Moves, WatcherState
  <2>3. DoomSeen'
    BY <1>0, <1>1, <1>2, <2>0, CancelConstants DEF CancelPublish, files, history, OneCopy, Used, AloneAtWork, IsClaiming, DoomSeen, TypeOK, Attempt, Doom, Unsent, PruneLooked, At, Moves, WatcherState
  <2> QED
    BY <2>1, <2>2, <2>3 DEF Orderly
<1> QED
  BY <1>2, <1>3, <1>4 DEF CancelInv

LEMMA CancelLeaseKeeps == ASSUME CancelInv, NEW w \in Watcher, CancelLease(w) PROVE CancelInv'
<1>0. TypeOK
  BY DEF CancelInv
<1>1. Moves(w, "cancel_archive", watcher[w].control, watcher[w].attempt)
  BY <1>0, GotoMoves, CancelConstants DEF CancelLease, WatcherPc, TypeOK, At
<1>2. TypeOK'
  <2>1. Flags'
    BY <1>0, Zenon DEF CancelLease, files, history, Flags, TypeOK
  <2>2. Shapes'
    BY <1>0, <1>1, CancelConstants DEF CancelLease, files, history, Moves, At, TypeOK, Shapes, WatcherState, WatcherPc, Place, Attempt, Doom, Fault
  <2> QED
    BY <2>1, <2>2 DEF TypeOK, Flags, Shapes, WatcherState
<1>3. AckTold' /\ ArchivedTold' /\ PruneLooked' /\ Unsent'
  BY <1>0, <1>1, CancelConstants DEF CancelLease, files, history, CancelInv, TypeOK, AckTold, ArchivedTold, PruneLooked, Unsent, Doom, Moves, At
<1>4. ASSUME ~overtaken' PROVE Orderly'
  <2>0. OneCopy /\ AloneAtWork /\ DoomSeen /\ Unsent /\ PruneLooked
    BY <1>4 DEF CancelLease, files, history, CancelInv, Orderly
  <2>1. OneCopy'
    BY <1>0, <1>1, <1>2, <2>0, CancelConstants DEF CancelLease, files, history, OneCopy, Used, AloneAtWork, IsClaiming, TypeOK, Attempt, Doom, Unsent, At, Moves, WatcherState
  <2>2. AloneAtWork'
    BY <1>0, <1>1, <1>2, <2>0, CancelConstants DEF CancelLease, files, history, OneCopy, Used, AloneAtWork, IsClaiming, TypeOK, Attempt, Unsent, At, Moves, WatcherState
  <2>3. DoomSeen'
    <3>1. lease' = None /\ UNCHANGED <<tombstone, incoming, given, doomed>>
      BY DEF CancelLease, history
    <3>2. None \notin doomed
      BY <1>0, NotDoomed
    <3>3. \A v \in Watcher : /\ watcher'[v].attempt = watcher[v].attempt
                             /\ watcher'[v].pc \in {watcher[v].pc, "cancel_archive"}
      BY <1>1 DEF Moves
    <3>4. \A v \in Watcher : watcher'[v].pc \in {"moved", "lease", "deliver"} => watcher'[v].pc = watcher[v].pc
      BY <3>3
    <3> QED
      BY <2>0, <3>1, <3>2, <3>3, <3>4 DEF DoomSeen, At
  <2> QED
    BY <2>1, <2>2, <2>3 DEF Orderly
<1> QED
  BY <1>2, <1>3, <1>4 DEF CancelInv

LEMMA CancelArchiveKeeps == ASSUME CancelInv, NEW w \in Watcher, CancelArchive(w) PROVE CancelInv'
<1>0. TypeOK
  BY DEF CancelInv
<1>1. IF claimed = None THEN Moves(w, "poll", watcher[w].control, None)
                                 ELSE Moves(w, "cancel_unlink", watcher[w].control, watcher[w].attempt)
  BY <1>0, AttemptMoves, CancelConstants DEF CancelArchive, WatcherPc, TypeOK, At
<1>2. TypeOK'
  <2>1. Flags'
    BY <1>0, Zenon DEF CancelArchive, files, history, Flags, TypeOK
  <2>2. Shapes'
    <3>1. UNCHANGED <<message, stale, incoming, lease, outgoing, current, oa, faults, history>> /\ claimed' = None
      BY DEF CancelArchive
    <3>2. CASE claimed = None
      BY <1>0, <1>1, <3>1, <3>2, CancelConstants DEF CancelArchive, history, Moves, At, TypeOK, Shapes, WatcherState, WatcherPc, Attempt
    <3>3. CASE claimed # None
      BY <1>0, <1>1, <3>1, <3>3, CancelConstants DEF CancelArchive, history, Moves, At, TypeOK, Shapes, WatcherState, WatcherPc, Attempt
    <3> QED
      BY <3>2, <3>3
  <2> QED
    BY <2>1, <2>2 DEF TypeOK, Flags, Shapes, WatcherState
<1>3. AckTold' /\ ArchivedTold' /\ PruneLooked' /\ Unsent'
  BY <1>0, <1>1, CancelConstants DEF CancelArchive, files, history, CancelInv, TypeOK, AckTold, ArchivedTold, PruneLooked, Unsent, Doom, Moves, At
<1>4. ASSUME ~overtaken' PROVE Orderly'
  <2>0. OneCopy /\ AloneAtWork /\ DoomSeen /\ Unsent /\ PruneLooked
    BY <1>4 DEF CancelArchive, files, history, CancelInv, Orderly
  <2>1. OneCopy'
    BY <1>0, <1>1, <1>2, <2>0, CancelConstants DEF CancelArchive, files, history, OneCopy, Used, AloneAtWork, IsClaiming, TypeOK, Attempt, Doom, Unsent, At, Moves, WatcherState
  <2>2. AloneAtWork'
    BY <1>0, <1>1, <1>2, <2>0, CancelConstants DEF CancelArchive, files, history, OneCopy, Used, AloneAtWork, IsClaiming, TypeOK, Attempt, Unsent, At, Moves, WatcherState
  <2>3. DoomSeen'
    BY <1>0, <1>1, <1>2, <2>0, CancelConstants DEF CancelArchive, files, history, OneCopy, Used, AloneAtWork, IsClaiming, DoomSeen, TypeOK, Attempt, Doom, Unsent, PruneLooked, At, Moves, WatcherState
  <2> QED
    BY <2>1, <2>2, <2>3 DEF Orderly
<1> QED
  BY <1>2, <1>3, <1>4 DEF CancelInv

LEMMA CancelUnlinkKeeps == ASSUME CancelInv, NEW w \in Watcher, CancelUnlink(w) PROVE CancelInv'
<1>0. TypeOK
  BY DEF CancelInv
<1>1. Moves(w, "poll", watcher[w].control, None)
  BY <1>0, AttemptMoves, CancelConstants DEF CancelUnlink, WatcherPc, TypeOK, At
<1>2. TypeOK'
  <2>1. Flags'
    BY <1>0, Zenon DEF CancelUnlink, files, history, Flags, TypeOK
  <2>2. Shapes'
    BY <1>0, <1>1, CancelConstants DEF CancelUnlink, files, history, Moves, At, TypeOK, Shapes, WatcherState, WatcherPc, Place, Attempt, Doom, Fault
  <2> QED
    BY <2>1, <2>2 DEF TypeOK, Flags, Shapes, WatcherState
<1>3. AckTold' /\ ArchivedTold' /\ PruneLooked' /\ Unsent'
  BY <1>0, <1>1, CancelConstants DEF CancelUnlink, files, history, CancelInv, TypeOK, AckTold, ArchivedTold, PruneLooked, Unsent, Doom, Moves, At
<1>4. ASSUME ~overtaken' PROVE Orderly'
  <2>0. OneCopy /\ AloneAtWork /\ DoomSeen /\ Unsent /\ PruneLooked
    BY <1>4 DEF CancelUnlink, files, history, CancelInv, Orderly
  <2>1. OneCopy'
    BY <1>0, <1>1, <1>2, <2>0, CancelConstants DEF CancelUnlink, files, history, OneCopy, Used, AloneAtWork, IsClaiming, TypeOK, Attempt, Doom, Unsent, At, Moves, WatcherState
  <2>2. AloneAtWork'
    BY <1>0, <1>1, <1>2, <2>0, CancelConstants DEF CancelUnlink, files, history, OneCopy, Used, AloneAtWork, IsClaiming, TypeOK, Attempt, Unsent, At, Moves, WatcherState
  <2>3. DoomSeen'
    BY <1>0, <1>1, <1>2, <2>0, CancelConstants DEF CancelUnlink, files, history, OneCopy, Used, AloneAtWork, IsClaiming, DoomSeen, TypeOK, Attempt, Doom, Unsent, PruneLooked, At, Moves, WatcherState
  <2> QED
    BY <2>1, <2>2, <2>3 DEF Orderly
<1> QED
  BY <1>2, <1>3, <1>4 DEF CancelInv

LEMMA EnterKeeps == ASSUME CancelInv, NEW w \in Watcher, Enter(w) PROVE CancelInv'
<1>0. TypeOK
  BY DEF CancelInv
<1>1. Moves(w, "poll", watcher[w].control, watcher[w].attempt)
  BY <1>0, GotoMoves, CancelConstants DEF Enter, WatcherPc, TypeOK, At
<1>2. TypeOK'
  <2>1. Flags'
    BY <1>0, Zenon DEF Enter, files, history, Flags, TypeOK
  <2>2. Shapes'
    BY <1>0, <1>1, CancelConstants DEF Enter, files, history, Moves, At, TypeOK, Shapes, WatcherState, WatcherPc, Place, Attempt, Doom, Fault
  <2> QED
    BY <2>1, <2>2 DEF TypeOK, Flags, Shapes, WatcherState
<1>3. AckTold' /\ ArchivedTold' /\ PruneLooked' /\ Unsent'
  BY <1>0, <1>1, CancelConstants DEF Enter, files, history, CancelInv, TypeOK, AckTold, ArchivedTold, PruneLooked, Unsent, Doom, Moves, At
<1>4. ASSUME ~overtaken' PROVE Orderly'
  <2>0. OneCopy /\ AloneAtWork /\ DoomSeen /\ Unsent /\ PruneLooked
    BY <1>4 DEF Enter, files, history, CancelInv, Orderly
  <2>1. OneCopy'
    BY <1>0, <1>1, <1>2, <2>0, CancelConstants DEF Enter, files, history, OneCopy, Used, AloneAtWork, IsClaiming, TypeOK, Attempt, Doom, Unsent, At, Moves, WatcherState
  <2>2. AloneAtWork'
    BY <1>0, <1>1, <1>2, <2>0, CancelConstants DEF Enter, files, history, OneCopy, Used, AloneAtWork, IsClaiming, TypeOK, Attempt, Unsent, At, Moves, WatcherState
  <2>3. DoomSeen'
    BY <1>0, <1>1, <1>2, <2>0, CancelConstants DEF Enter, files, history, OneCopy, Used, AloneAtWork, IsClaiming, DoomSeen, TypeOK, Attempt, Doom, Unsent, PruneLooked, At, Moves, WatcherState
  <2> QED
    BY <2>1, <2>2, <2>3 DEF Orderly
<1> QED
  BY <1>2, <1>3, <1>4 DEF CancelInv

LEMMA KillKeeps == ASSUME CancelInv, NEW w \in Watcher, Kill(w) PROVE CancelInv'
<1>0. TypeOK
  BY DEF CancelInv
<1>1. Moves(w, "off", None, None)
  BY <1>0, OffMoves, CancelConstants DEF Kill, WatcherPc, TypeOK, At
<1>2. TypeOK'
  <2>1. Flags'
    BY <1>0, Zenon DEF Kill, files, history, Flags, TypeOK
  <2>2. Shapes'
    BY <1>0, <1>1, CancelConstants DEF Kill, files, history, Moves, At, TypeOK, Shapes, WatcherState, WatcherPc, Place, Attempt, Doom, Fault
  <2> QED
    BY <2>1, <2>2 DEF TypeOK, Flags, Shapes, WatcherState
<1>3. AckTold' /\ ArchivedTold' /\ PruneLooked' /\ Unsent'
  BY <1>0, <1>1, CancelConstants DEF Kill, files, history, CancelInv, TypeOK, AckTold, ArchivedTold, PruneLooked, Unsent, Doom, Moves, At
<1>4. ASSUME ~overtaken' PROVE Orderly'
  <2>0. OneCopy /\ AloneAtWork /\ DoomSeen /\ Unsent /\ PruneLooked
    BY <1>4 DEF Kill, files, history, CancelInv, Orderly
  <2>1. OneCopy'
    BY <1>0, <1>1, <1>2, <2>0, CancelConstants DEF Kill, files, history, OneCopy, Used, AloneAtWork, IsClaiming, TypeOK, Attempt, Doom, Unsent, At, Moves, WatcherState
  <2>2. AloneAtWork'
    BY <1>0, <1>1, <1>2, <2>0, CancelConstants DEF Kill, files, history, OneCopy, Used, AloneAtWork, IsClaiming, TypeOK, Attempt, Unsent, At, Moves, WatcherState
  <2>3. DoomSeen'
    BY <1>0, <1>1, <1>2, <2>0, CancelConstants DEF Kill, files, history, OneCopy, Used, AloneAtWork, IsClaiming, DoomSeen, TypeOK, Attempt, Doom, Unsent, PruneLooked, At, Moves, WatcherState
  <2> QED
    BY <2>1, <2>2, <2>3 DEF Orderly
<1> QED
  BY <1>2, <1>3, <1>4 DEF CancelInv

-----------------------------------------------------------------------------
(* The invariant, and what it gives *)

LEMMA CancelInit == Init => CancelInv
<1> SUFFICES ASSUME Init PROVE CancelInv
  OBVIOUS
<1>1. TypeOK
  <2>1. Flags
    BY Zenon DEF Init, Flags
  <2>2. Shapes
    BY CancelConstants DEF Init, Shapes, Off, Place, WatcherPc, WatcherState, Attempt
  <2> QED
    BY <2>1, <2>2 DEF TypeOK, Flags, Shapes, WatcherState
<1>2. AckTold /\ ArchivedTold /\ PruneLooked /\ Unsent
  BY DEF Init, AckTold, ArchivedTold, PruneLooked, Unsent, At, Off
<1>3. OneCopy /\ AloneAtWork /\ DoomSeen
  BY <1>1 DEF Init, OneCopy, AloneAtWork, IsClaiming, DoomSeen, At, Off
<1> QED
  BY <1>1, <1>2, <1>3 DEF CancelInv, Orderly

LEMMA CancelNext == CancelInv /\ [Next]_vars => CancelInv'
<1> SUFFICES ASSUME CancelInv, [Next]_vars PROVE CancelInv'
  OBVIOUS
<1>1. CASE PublishTask \/ Recover \/ Collect \/ PruneLook \/ PruneUnlink
  BY <1>1, PublishTaskKeeps, RecoverKeeps, CollectKeeps, PruneLookKeeps, PruneUnlinkKeeps
<1>2. CASE Expire \/ (\E c \in Control : SendControl(c)) \/ (\E a \in Attempt : Submit(a))
  BY <1>2, ExpireKeeps, SendControlKeeps, SubmitKeeps
<1>3. ASSUME NEW w \in Watcher, Enter(w) \/ Kill(w) PROVE CancelInv'
  BY <1>3, EnterKeeps, KillKeeps
<1>4. ASSUME NEW w \in Watcher, Watch(w) PROVE CancelInv'
  <2>1. CASE ClaimControl(w) \/ GuardMessage(w) \/ Emit(w) \/ Ack(w)
    BY <2>1, ClaimControlKeeps, GuardMessageKeeps, EmitKeeps, AckKeeps
  <2>2. CASE Resume(w) \/ ClaimTask(w) \/ Idle(w)
    BY <2>2, ResumeKeeps, ClaimTaskKeeps, IdleKeeps
  <2>3. CASE CheckTombstone(w) \/ WriteLease(w) \/ Deliver(w)
    BY <2>3, CheckTombstoneKeeps, WriteLeaseKeeps, DeliverKeeps
  <2>4. CASE CancelPublish(w) \/ CancelLease(w) \/ CancelArchive(w) \/ CancelUnlink(w)
    BY <2>4, CancelPublishKeeps, CancelLeaseKeeps, CancelArchiveKeeps, CancelUnlinkKeeps
  <2> QED
    BY <1>4, <2>1, <2>2, <2>3, <2>4 DEF Watch
<1>5. CASE UNCHANGED vars
  BY <1>5 DEF vars, files, CancelInv, TypeOK, AckTold, ArchivedTold, PruneLooked, Unsent, Orderly,
              OneCopy, Used, AloneAtWork, IsClaiming, DoomSeen, At
<1> QED
  BY <1>1, <1>2, <1>3, <1>4, <1>5 DEF Next

\* The strengthening of both properties holds in every reachable state.
THEOREM CancelInvariance == Spec => []CancelInv
  BY CancelInit, CancelNext, PTL DEF Spec

\* A control is archived only after its event reached the agent: ack_control runs in
\* the process that emitted it, and a kill between the two leaves the message in
\* control_claimed/ to be delivered again.
THEOREM ArchivedWasTold == Spec => []ArchivedTold
<1>1. CancelInv => ArchivedTold
  BY DEF CancelInv
<1> QED
  BY <1>1, CancelInvariance, PTL

\* A task cancelled while it waits is never handed to the agent, whatever the number
\* of watchers, cancels, kills and recoveries: the tombstone outlives claim_task's
\* look for it, since neither prune nor another watcher's auto-cancel removes it
\* while a copy of the task is there.
THEOREM CancelsHold == Spec => []CancelHolds
<1>1. CancelInv => CancelHolds
  BY DEF CancelInv, Orderly, DoomSeen, CancelHolds
<1> QED
  BY <1>1, CancelInvariance, PTL

=============================================================================
