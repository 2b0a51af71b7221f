----------------------------- MODULE PruneProofs ----------------------------
(***************************************************************************)
(* What AuditPrune and PruneHealth promise, for any number of segments,    *)
(* runs, faults and changes from outside.                                  *)
(***************************************************************************)
EXTENDS PruneHealth, WellFoundedInduction, TLAPS

-----------------------------------------------------------------------------
(* The inductive invariant *)

\* Rotation takes the next free number, and run numbers only grow.
Numbered ==
    /\ \A s \in Seg : s > spent.segments => segment[s] = None
    /\ receipt # None => receipt.run <= spent.runs
    /\ \A m \in markers : m.run <= spent.runs

\* What is or was in a file of the log has been logged.
Logged ==
    /\ LoggedKeys \subseteq past.logged
    /\ \A r \in past.removed : r[3].keys \subseteq past.logged

\* What is still to be removed is authorized by the receipt as it was prepared.
Applying ==
    oa.pc = "apply" =>
        /\ \A s \in oa.todo : receipt.out[s].kind = "remove" /\ oa.out[s] = receipt.out[s]
        /\ \A s \in Seg : oa.out[s].kind # "preserved"

\* A prepared run preserves nothing yet, has a witness of all it removes, and removes
\* nothing that is preserved.
Prepared ==
    receipt # None /\ receipt.phase = "prepared" =>
        /\ \A s \in Seg :
               /\ receipt.out[s].kind # "preserved"
               /\ receipt.out[s].kind = "remove" => receipt.out[s].content # None
        /\ \A m \in markers : m.run # receipt.run /\ receipt.out[m.seg].kind # "remove"

\* A marker of the pending run stands for the bytes its resolution kept, or for a
\* removed segment that came back and has not been resolved.
Applied ==
    receipt # None /\ receipt.phase = "applied" =>
        \A m \in markers : m.run = receipt.run =>
            \/ receipt.out[m.seg].kind = "preserved" /\ m.content = receipt.out[m.seg].content
            \/ receipt.out[m.seg].kind = "remove" /\ segment[m.seg] # None

OneMarker == \A m, n \in markers : m.run = n.run /\ m.seg = n.seg => m = n

\* A command that works on a marker has one, and a resolution has just written its own.
Resolving ==
    /\ oa.pc \in {"resolve_receipt", "resolve_prune", "record_resolve", "record_release",
                  "commit_release"} => oa.marker \in Marker
    /\ oa.pc = "resolve_receipt" =>
           /\ oa.marker \in markers /\ oa.marker.run = receipt.run
           /\ receipt.out[oa.marker.seg].kind = "remove"

\* A run that removed something is pending or on the log.
Settled ==
    \A r \in past.removed :
        \/ receipt # None /\ receipt.run = r[2]
        \/ PruneKey(r[2]) \in past.logged

PruneInv ==
    /\ TypeOK /\ Numbered /\ Logged /\ Applying /\ Prepared /\ Applied
    /\ OneMarker /\ Resolving /\ Settled /\ KeysAccounted

USE PruneConstants, PruneAbsent

-----------------------------------------------------------------------------
(* Lemmas about the operators *)

\* Min of FiniteSetsExt on a set of naturals, finite or not.
LEMMA MinIn ==
    ASSUME NEW S \in SUBSET Nat, S # {}
    PROVE Min(S) \in S /\ \A y \in S : Min(S) <= y
<1> DEFINE Less == {ss \in Nat \X Nat : ss[1] < ss[2]}
<1>1. IsWellFoundedOn(Less, Nat)
  BY NatLessThanWellFounded, Zenon DEF OpToRel
<1>2. PICK x \in S : \A y \in S : ~(<<y, x>> \in Less)
  <2> HIDE DEF Less
  <2> QED  BY <1>1, WFMin
<1>3. ASSUME NEW y \in S PROVE x <= y
  <2>1. <<y, x>> \notin Less /\ y \in Nat /\ x \in Nat
    BY <1>2
  <2>2. ~(y < x)
    BY <2>1
  <2> QED  BY <2>1, <2>2
<1> QED  BY <1>3, Zenon DEF Min

\* The segment that a run is about to look at is one it has left to look at.
LEMMA NextOf == ASSUME TypeOK, oa.todo # {} PROVE Min(oa.todo) \in oa.todo /\ Min(oa.todo) \in Seg
<1>1. oa.todo \subseteq Seg /\ Seg \subseteq Nat
  BY DEF TypeOK, Oa, Seg
<1> QED  BY <1>1, MinIn

\* A key is logged where some file of the log has it.
LEMMA InLog ==
    \A k : k \in LoggedKeys <=>
        k \in active \/ \E s \in Seg : segment[s] # None /\ k \in segment[s].keys
  BY DEF LoggedKeys, Present

LEMMA InLogNext ==
    \A k : k \in LoggedKeys' <=>
        k \in active' \/ \E s \in Seg : segment'[s] # None /\ k \in segment'[s].keys
  BY DEF LoggedKeys, Present

LEMMA KeyTypes ==
    /\ \A d \in Data : DataKey(d) \in Key
    /\ \A run \in Nat : PruneKey(run) \in Key
    /\ \A run \in Nat, s \in Seg, content \in Content : ResolveKey(run, s, content) \in Key
    /\ \A m \in Marker : ReleaseKey(m) \in Key
<1>1. Seg \subseteq Nat /\ \A content \in Content : content.version \in Nat
  BY DEF Seg, Content
<1> QED  BY <1>1 DEF DataKey, PruneKey, ResolveKey, ReleaseKey, Key, Marker

LEMMA IdleOa == OaIdle \in Oa /\ OaIdle.pc = "idle"
  BY DEF OaIdle, Oa, OaPc, Outcome, Undecided

\* What TypeOK says of the files and of where a command stands.
FilesOK ==
    /\ segment \in [Seg -> Content \cup {None}]
    /\ active \subseteq Key /\ pending \subseteq Key
    /\ receipt \in Receipt \cup {None}
    /\ markers \subseteq Marker
    /\ spent \in Spent /\ past \in Past
Stands ==
    /\ oa.pc = "apply" => receipt # None /\ receipt.phase = "prepared"
    /\ oa.pc \in {"record_prune", "record_resolve", "commit_prune", "resolve_receipt",
                  "resolve_prune"} => receipt # None /\ receipt.phase = "applied"
LEMMA TypeIs == TypeOK <=> FilesOK /\ oa \in Oa /\ Stands
  BY DEF TypeOK, FilesOK, Stands
LEMMA TypeIsNext == TypeOK' <=> FilesOK' /\ oa' \in Oa /\ Stands'
  BY DEF TypeOK, FilesOK, Stands

-----------------------------------------------------------------------------
(* What a step may leave alone *)

LEMMA OaMoves ==
    ASSUME PruneInv, NEW to \in OaPc, Goto(to)
    PROVE oa' \in Oa /\ oa'.pc = to /\ oa'.marker = oa.marker /\ oa'.todo = oa.todo /\ oa'.out = oa.out
  BY DEF PruneInv, TypeOK, Oa, Goto

LEMMA FilesStay ==
    ASSUME PruneInv, UNCHANGED <<segment, active, pending, receipt, markers, past>>,
           spent' \in Spent, spent'.segments = spent.segments, spent'.runs >= spent.runs
    PROVE /\ FilesOK' /\ Numbered' /\ Logged' /\ Prepared' /\ Applied' /\ OneMarker'
          /\ Settled' /\ KeysAccounted'
<1>1. FilesOK'
  BY DEF PruneInv, TypeOK, FilesOK
<1>2. Numbered'
  BY DEF PruneInv, TypeOK, Numbered, Receipt, Marker, Spent
<1>3. Logged' /\ KeysAccounted'
  BY DEF PruneInv, Logged, KeysAccounted, RemovalAccounted, ReleaseAccounted, LoggedKeys, Present
<1>4. Prepared' /\ Applied' /\ OneMarker' /\ Settled'
  BY DEF PruneInv, Prepared, Applied, OneMarker, Settled
<1> QED  BY <1>1, <1>2, <1>3, <1>4

\* A command that ends leaves nothing under way.
LEMMA OaEnds ==
    ASSUME oa' = OaIdle PROVE oa' \in Oa /\ Stands' /\ Applying' /\ Resolving'
  BY IdleOa DEF Stands, Applying, Resolving

LEMMA TallyAdds ==
    ASSUME PruneInv, NEW field \in {"segments", "runs", "outside", "faults"}, Tally(field)
    PROVE /\ spent' \in Spent /\ spent'.segments >= spent.segments /\ spent'.runs >= spent.runs
          /\ field # "segments" => spent'.segments = spent.segments
          /\ field # "runs" => spent'.runs = spent.runs
          /\ field = "segments" => spent'.segments = spent.segments + 1
          /\ field = "runs" => spent'.runs = spent.runs + 1
  BY DEF PruneInv, TypeOK, Tally, Spent

LEMMA AppendKeeps ==
    ASSUME PruneInv, NEW key \in Key, Append(key), UNCHANGED <<segment, receipt, markers, spent>>
    PROVE /\ FilesOK' /\ Numbered' /\ Logged' /\ Prepared' /\ Applied' /\ OneMarker'
          /\ Settled' /\ KeysAccounted' /\ key \in LoggedKeys'
<1>1. past'.logged = past.logged \cup {key} \cup pending /\ past'.removed = past.removed
      /\ past'.markers = past.markers /\ past' \in Past
  BY DEF Append, PruneInv, TypeOK, Past
<1>2. FilesOK'
  BY <1>1 DEF Append, PruneInv, TypeOK, FilesOK
<1>3. \A k : k \in LoggedKeys' <=> k \in LoggedKeys \/ k = key \/ k \in pending
  BY InLog, InLogNext DEF Append
<1>4. Logged' /\ key \in LoggedKeys'
  BY <1>1, <1>3 DEF PruneInv, Logged
<1>5. Settled'
  BY <1>1 DEF PruneInv, Settled
<1>6. KeysAccounted'
  BY <1>1, <1>3 DEF PruneInv, KeysAccounted, RemovalAccounted, ReleaseAccounted
<1>7. Numbered' /\ Prepared' /\ Applied' /\ OneMarker'
  BY DEF PruneInv, Numbered, Prepared, Applied, OneMarker
<1> QED  BY <1>2, <1>4, <1>5, <1>6, <1>7

LEMMA AppendFailsKeeps ==
    ASSUME PruneInv, NEW key \in Key, AppendFails(key),
           UNCHANGED <<segment, receipt, markers, active, past>>
    PROVE /\ FilesOK' /\ Numbered' /\ Logged' /\ Prepared' /\ Applied' /\ OneMarker'
          /\ Settled' /\ KeysAccounted'
<1>1. spent' \in Spent /\ spent'.segments = spent.segments /\ spent'.runs = spent.runs
  BY TallyAdds DEF AppendFails
<1>2. FilesOK'
  BY <1>1 DEF AppendFails, PruneInv, TypeOK, FilesOK
<1>3. Logged' /\ KeysAccounted'
  BY DEF PruneInv, Logged, KeysAccounted, RemovalAccounted, ReleaseAccounted, LoggedKeys, Present
<1>4. Numbered' /\ Prepared' /\ Applied' /\ OneMarker' /\ Settled'
  BY <1>1 DEF PruneInv, Numbered, Prepared, Applied, OneMarker, Settled
<1> QED  BY <1>2, <1>3, <1>4

LEMMA OaStays ==
    ASSUME PruneInv, UNCHANGED <<oa, receipt, markers>>
    PROVE oa' \in Oa /\ Stands' /\ Applying' /\ Resolving'
  BY DEF PruneInv, TypeOK, Stands, Applying, Resolving

-----------------------------------------------------------------------------
(* The log and what happens behind the program *)

LEMMA RecordDataKeeps == ASSUME PruneInv, NEW d \in Data, RecordData(d) PROVE PruneInv'
<1>1. oa' \in Oa /\ Stands' /\ Applying' /\ Resolving'
  BY OaStays DEF RecordData
<1>2. FilesOK' /\ Numbered' /\ Logged' /\ Prepared' /\ Applied' /\ OneMarker'
      /\ Settled' /\ KeysAccounted'
  BY KeyTypes, AppendKeeps, AppendFailsKeeps DEF RecordData
<1> QED  BY <1>1, <1>2, TypeIsNext DEF PruneInv

LEMMA RotateKeeps == ASSUME PruneInv, Rotate PROVE PruneInv'
<1> DEFINE n == spent.segments + 1
           new == [keys |-> active, version |-> 0]
<1>1. n \in Seg /\ new \in Content /\ new # None /\ new.keys = active /\ segment[n] = None
  BY DEF Rotate, PruneInv, TypeOK, Spent, Seg, Content, Numbered
<1>2. segment' = [segment EXCEPT ![n] = new] /\ active' = {}
      /\ UNCHANGED <<pending, receipt, markers, oa, past>>
  BY DEF Rotate
<1>3. spent' \in Spent /\ spent'.segments = n /\ spent'.runs = spent.runs
  BY TallyAdds DEF Rotate
<1> HIDE DEF n, new
<1>4. segment' \in [Seg -> Content \cup {None}] /\ segment'[n] = new
      /\ \A s \in Seg : s # n => segment'[s] = segment[s]
  BY <1>1, <1>2 DEF PruneInv, TypeOK
<1>5. \A k : k \in LoggedKeys' <=> k \in LoggedKeys
  BY <1>1, <1>2, <1>4, InLog, InLogNext
<1>6. FilesOK'
  BY <1>2, <1>3, <1>4 DEF PruneInv, TypeOK, FilesOK
<1>7. Numbered'
  <2>1. \A s \in Seg : s > n => s > spent.segments /\ s # n
    BY DEF n, Seg, PruneInv, TypeOK, Spent
  <2> QED  BY <1>2, <1>3, <1>4, <2>1 DEF PruneInv, Numbered
<1>8. Logged' /\ KeysAccounted'
  BY <1>2, <1>5 DEF PruneInv, Logged, KeysAccounted, RemovalAccounted, ReleaseAccounted
<1>9. Applied'
  BY <1>1, <1>2, <1>4 DEF PruneInv, TypeOK, Applied, Marker
<1>10. Prepared' /\ OneMarker' /\ Settled'
  BY <1>2 DEF PruneInv, Prepared, OneMarker, Settled
<1>11. oa' \in Oa /\ Stands' /\ Applying' /\ Resolving'
  BY <1>2, OaStays
<1> QED  BY <1>6, <1>7, <1>8, <1>9, <1>10, <1>11, TypeIsNext DEF PruneInv

\* A segment that comes back has keys that were logged when it was removed.
LEMMA RestoreKeeps == ASSUME PruneInv, NEW s \in Seg, Restore(s) PROVE PruneInv'
<1>1. PICK was \in past.removed, change \in {0, 1} :
        segment' = [segment EXCEPT ![s] = [was[3] EXCEPT !.version = @ + change]]
  BY DEF Restore
<1> DEFINE new == [was[3] EXCEPT !.version = @ + change]
<1>2. was[3] \in Content
  BY DEF PruneInv, TypeOK, Past
<1>3. new \in Content /\ new.keys = was[3].keys /\ new # None
  BY <1>2 DEF Content
<1> HIDE DEF new
<1>4. segment' = [segment EXCEPT ![s] = new]
  BY <1>1 DEF new
<1>5. spent' \in Spent /\ spent'.segments = spent.segments /\ spent'.runs = spent.runs
  BY TallyAdds DEF Restore
<1>6. segment[s] = None /\ s <= spent.segments
      /\ UNCHANGED <<active, pending, receipt, markers, oa, past>>
  BY DEF Restore
<1>7. segment' \in [Seg -> Content \cup {None}] /\ segment'[s] = new
      /\ \A u \in Seg : u # s => segment'[u] = segment[u]
  BY <1>3, <1>4 DEF PruneInv, TypeOK
<1>8. \A k : k \in LoggedKeys' <=> k \in LoggedKeys \/ k \in was[3].keys
  BY <1>3, <1>6, <1>7, InLog, InLogNext
<1>9. was[3].keys \subseteq past.logged
  BY DEF PruneInv, Logged
<1>10. Logged' /\ KeysAccounted'
  BY <1>6, <1>8, <1>9 DEF PruneInv, Logged, KeysAccounted, RemovalAccounted, ReleaseAccounted
<1>11. FilesOK'
  BY <1>5, <1>6, <1>7 DEF PruneInv, TypeOK, FilesOK
<1>12. Numbered'
  <2>1. \A u \in Seg : u > spent.segments => u # s
    BY <1>6 DEF Seg, PruneInv, TypeOK, Spent
  <2> QED  BY <1>5, <1>6, <1>7, <2>1 DEF PruneInv, Numbered
<1>13. Applied'
  BY <1>3, <1>6, <1>7 DEF PruneInv, TypeOK, Applied, Marker
<1>14. Prepared' /\ OneMarker' /\ Settled'
  BY <1>6 DEF PruneInv, Prepared, OneMarker, Settled
<1>15. oa' \in Oa /\ Stands' /\ Applying' /\ Resolving'
  BY <1>6, OaStays
<1> QED  BY <1>10, <1>11, <1>12, <1>13, <1>14, <1>15, TypeIsNext DEF PruneInv

LEMMA DriftKeeps == ASSUME PruneInv, NEW s \in Seg, Drift(s) PROVE PruneInv'
<1> DEFINE new == [segment[s] EXCEPT !.version = @ + 1]
<1>1. segment[s] \in Content
  BY DEF Drift, PruneInv, TypeOK
<1>2. new \in Content /\ new.keys = segment[s].keys /\ new # None
  BY <1>1 DEF Content
<1>3. segment' = [segment EXCEPT ![s] = new]
  BY DEF Drift
<1> HIDE DEF new
<1>4. spent' \in Spent /\ spent'.segments = spent.segments /\ spent'.runs = spent.runs
  BY TallyAdds DEF Drift
<1>5. segment[s] # None /\ UNCHANGED <<active, pending, receipt, markers, oa, past>>
  BY DEF Drift
<1>6. segment' \in [Seg -> Content \cup {None}] /\ segment'[s] = new
      /\ \A u \in Seg : u # s => segment'[u] = segment[u]
  BY <1>2, <1>3 DEF PruneInv, TypeOK
<1>7. \A k : k \in LoggedKeys' <=> k \in LoggedKeys
  BY <1>2, <1>5, <1>6, InLog, InLogNext
<1>8. Logged' /\ KeysAccounted'
  BY <1>5, <1>7 DEF PruneInv, Logged, KeysAccounted, RemovalAccounted, ReleaseAccounted
<1>9. FilesOK'
  BY <1>4, <1>5, <1>6 DEF PruneInv, TypeOK, FilesOK
<1>10. Numbered'
  BY <1>4, <1>5, <1>6 DEF PruneInv, Numbered
<1>11. Applied'
  BY <1>2, <1>5, <1>6 DEF PruneInv, TypeOK, Applied, Marker
<1>12. Prepared' /\ OneMarker' /\ Settled'
  BY <1>5 DEF PruneInv, Prepared, OneMarker, Settled
<1>13. oa' \in Oa /\ Stands' /\ Applying' /\ Resolving'
  BY <1>5, OaStays
<1> QED  BY <1>8, <1>9, <1>10, <1>11, <1>12, <1>13, TypeIsNext DEF PruneInv

LEMMA CrashKeeps == ASSUME PruneInv, Crash PROVE PruneInv'
<1>1. FilesOK' /\ Numbered' /\ Logged' /\ Prepared' /\ Applied' /\ OneMarker'
      /\ Settled' /\ KeysAccounted'
  <2>1. spent' \in Spent /\ spent'.segments = spent.segments /\ spent'.runs >= spent.runs
    BY TallyAdds DEF Crash
  <2> QED  BY <2>1, FilesStay DEF Crash
<1> QED  BY <1>1, OaEnds, TypeIsNext DEF Crash, PruneInv

-----------------------------------------------------------------------------
(* oa prune *)

\* A decision removes only what no marker stands for.
LEMMA DecisionIs ==
    ASSUME TypeOK, NEW s \in Seg
    PROVE LET d == IF s \in Present THEN Decision(s) ELSE Undecided IN
          /\ d \in Outcome /\ d.kind # "preserved"
          /\ d.kind = "remove" => d.content # None /\ \A m \in markers : m.seg # s
<1>1. CASE s \notin Present
  BY <1>1 DEF Undecided, Outcome
<1>2. CASE s \in Present
  <2>1. segment[s] \in Content
    BY <1>2 DEF Present, TypeOK
  <2> QED  BY <1>2, <2>1 DEF Decision, Outcome
<1> QED  BY <1>1, <1>2

LEMMA PrunePrepareKeeps == ASSUME PruneInv, PrunePrepare PROVE PruneInv'
<1>1. PICK candidates \in SUBSET Present :
        LET out == [s \in Seg |-> IF s \in candidates THEN Decision(s) ELSE Undecided]
        IN  /\ receipt' = [run |-> spent.runs + 1, phase |-> "prepared", out |-> out]
            /\ oa' = [OaIdle EXCEPT !.pc = "apply", !.todo = Removals(out), !.out = out]
  BY DEF PrunePrepare
<1> DEFINE out == [s \in Seg |-> IF s \in candidates THEN Decision(s) ELSE Undecided]
<1>2. \A s \in Seg : /\ out[s] \in Outcome /\ out[s].kind # "preserved"
                     /\ out[s].kind = "remove" =>
                           out[s].content # None /\ \A m \in markers : m.seg # s
  <2> SUFFICES ASSUME NEW s \in Seg
               PROVE  /\ out[s] \in Outcome /\ out[s].kind # "preserved"
                      /\ out[s].kind = "remove" =>
                           out[s].content # None /\ \A m \in markers : m.seg # s
    OBVIOUS
  <2>1. CASE s \in candidates
    BY <2>1, DecisionIs DEF PruneInv
  <2>2. CASE s \notin candidates
    BY <2>2 DEF Undecided, Outcome
  <2> QED  BY <2>1, <2>2
<1>3. out \in [Seg -> Outcome]
  BY <1>2
<1> HIDE DEF out
<1>4. /\ receipt' = [run |-> spent.runs + 1, phase |-> "prepared", out |-> out]
      /\ oa' = [OaIdle EXCEPT !.pc = "apply", !.todo = Removals(out), !.out = out]
  BY <1>1 DEF out
<1>5. receipt = None /\ UNCHANGED <<segment, active, pending, markers, past>>
  BY DEF PrunePrepare
<1>6. spent' \in Spent /\ spent'.segments = spent.segments /\ spent'.runs = spent.runs + 1
      /\ spent.runs \in Nat
  BY TallyAdds DEF PrunePrepare, PruneInv, TypeOK, Spent
<1>7. /\ receipt' \in Receipt /\ receipt' # None
      /\ receipt'.run = spent.runs + 1 /\ receipt'.phase = "prepared" /\ receipt'.out = out
  BY <1>3, <1>4, <1>6 DEF Receipt
<1>8. FilesOK'
  BY <1>5, <1>6, <1>7 DEF PruneInv, TypeOK, FilesOK
<1>9. \A m \in markers : m.run \in Nat /\ m.run <= spent.runs /\ m.seg \in Seg
  BY DEF PruneInv, TypeOK, Marker, Numbered
<1>10. Numbered'
  BY <1>5, <1>6, <1>7, <1>9 DEF PruneInv, Numbered
<1>11. Logged' /\ OneMarker'
  BY <1>5 DEF PruneInv, Logged, OneMarker, LoggedKeys, Present
<1>12. Settled' /\ KeysAccounted'
  BY <1>5 DEF PruneInv, Settled, KeysAccounted, RemovalAccounted, ReleaseAccounted, LoggedKeys, Present
<1>13. Prepared' /\ Applied'
  BY <1>2, <1>5, <1>6, <1>7, <1>9 DEF Prepared, Applied
<1>14. oa' \in Oa /\ oa'.pc = "apply" /\ oa'.todo = Removals(out) /\ oa'.out = out
  BY <1>3, <1>4, IdleOa DEF Oa, OaPc, Removals
<1>15. Stands' /\ Applying' /\ Resolving'
  BY <1>2, <1>7, <1>14 DEF Stands, Applying, Resolving, Removals
<1> QED  BY <1>8, <1>10, <1>11, <1>12, <1>13, <1>14, <1>15, TypeIsNext DEF PruneInv

LEMMA PruneResumeKeeps == ASSUME PruneInv, PruneResume PROVE PruneInv'
<1>1. FilesOK' /\ Numbered' /\ Logged' /\ Prepared' /\ Applied' /\ OneMarker'
      /\ Settled' /\ KeysAccounted'
  <2>1. spent \in Spent /\ spent.runs >= spent.runs
    BY DEF PruneInv, TypeOK, Spent
  <2> QED  BY <2>1, FilesStay DEF PruneResume
<1>2. receipt \in Receipt /\ receipt # None /\ receipt' = receipt
  BY DEF PruneResume, PruneInv, TypeOK
<1>3. CASE receipt.phase = "prepared"
  <2>1. oa' = [OaIdle EXCEPT !.pc = "apply", !.todo = Removals(receipt.out), !.out = receipt.out]
    BY <1>3 DEF PruneResume
  <2>2. oa' \in Oa /\ oa'.pc = "apply" /\ oa'.todo = Removals(receipt.out) /\ oa'.out = receipt.out
    BY <1>2, <2>1, IdleOa DEF Oa, OaPc, Removals, Receipt
  <2>3. Stands' /\ Applying' /\ Resolving'
    BY <1>2, <1>3, <2>2 DEF PruneInv, Prepared, Stands, Applying, Resolving, Removals
  <2> QED  BY <1>1, <2>2, <2>3, TypeIsNext DEF PruneInv
<1>4. CASE receipt.phase # "prepared"
  <2>1. Goto("record_prune") /\ receipt.phase = "applied"
    BY <1>2, <1>4 DEF PruneResume, Receipt
  <2>2. oa' \in Oa /\ oa'.pc = "record_prune"
    BY <2>1, OaMoves DEF OaPc
  <2>3. Stands' /\ Applying' /\ Resolving'
    BY <1>2, <2>1, <2>2 DEF Stands, Applying, Resolving
  <2> QED  BY <1>1, <2>2, <2>3, TypeIsNext DEF PruneInv
<1> QED  BY <1>3, <1>4

\* One segment less to look at: removed as it was listed, absent, or retained.
LEMMA ApplyNextKeeps == ASSUME PruneInv, ApplyNext PROVE PruneInv'
<1> DEFINE s == Min(oa.todo)
           kept == [oa EXCEPT !.todo = @ \ {s}, !.out[s] = [kind |-> "retain", content |-> None]]
           removed == [oa EXCEPT !.todo = @ \ {s}]
<1>1. s \in oa.todo /\ s \in Seg
  BY NextOf DEF ApplyNext, PruneInv
<1>2. receipt \in Receipt /\ receipt # None /\ receipt.phase = "prepared"
  BY DEF ApplyNext, PruneInv, TypeOK
<1>3. oa.pc = "apply" /\ UNCHANGED <<active, pending, receipt, markers>>
  BY DEF ApplyNext
<1>4. \/ /\ segment[s] = None /\ oa' = removed /\ UNCHANGED <<segment, past, spent>>
      \/ /\ segment[s] = oa.out[s].content /\ segment[s] # None /\ oa' = removed
         /\ segment' = [segment EXCEPT ![s] = None]
         /\ past' = [past EXCEPT !.removed = @ \cup {<<s, receipt.run, segment[s]>>}]
         /\ UNCHANGED spent
      \/ oa' = kept /\ UNCHANGED <<segment, past>> /\ (spent' = spent \/ Tally("faults"))
  <2>1. segment[s] = oa.out[s].content => segment[s] # None
    BY <1>1, <1>2, <1>3 DEF PruneInv, Applying, Prepared
  <2> QED  BY <2>1 DEF ApplyNext
<1> HIDE DEF s
<1>5. /\ removed \in Oa /\ removed.pc = "apply" /\ removed.todo = oa.todo \ {s}
      /\ removed.out = oa.out /\ removed.marker = oa.marker
  BY <1>3 DEF PruneInv, TypeOK, Oa
<1>6. /\ kept \in Oa /\ kept.pc = "apply" /\ kept.todo = oa.todo \ {s}
      /\ \A u \in Seg : u # s => kept.out[u] = oa.out[u]
      /\ kept.out[s].kind = "retain" /\ kept.marker = oa.marker
  <2>1. oa \in Oa /\ oa.out \in [Seg -> Outcome]
    BY DEF PruneInv, TypeOK, Oa
  <2>2. [kind |-> "retain", content |-> None] \in Outcome
    BY DEF Outcome
  <2> DEFINE out == [oa.out EXCEPT ![s] = [kind |-> "retain", content |-> None]]
  <2>3. out \in [Seg -> Outcome] /\ out[s].kind = "retain" /\ \A u \in Seg : u # s => out[u] = oa.out[u]
    BY <1>1, <2>1, <2>2
  <2> HIDE DEF out
  <2>4. kept = [oa EXCEPT !.todo = @ \ {s}, !.out = out]
    BY DEF out
  <2> QED  BY <1>3, <2>1, <2>3, <2>4 DEF Oa
<1> HIDE DEF kept, removed
<1>7. oa' \in Oa /\ oa'.pc = "apply" /\ oa'.todo = oa.todo \ {s}
      /\ \A u \in Seg : (u # s => oa'.out[u] = oa.out[u])
                        /\ (oa.out[u].kind # "preserved" => oa'.out[u].kind # "preserved")
  BY <1>4, <1>5, <1>6
<1>8. Stands' /\ Applying' /\ Resolving'
  <2>1. oa'.todo \subseteq Seg /\ s \notin oa'.todo
    BY <1>7 DEF Oa
  <2>2. Stands' /\ Resolving'
    BY <1>2, <1>3, <1>7 DEF Stands, Resolving
  <2>3. Applying'
    BY <1>3, <1>7, <2>1 DEF Applying, PruneInv
  <2> QED  BY <2>2, <2>3
<1>9. CASE segment' = segment /\ past' = past
  <2>1. spent \in Spent /\ spent.runs >= spent.runs
    BY DEF PruneInv, TypeOK, Spent
  <2>2. spent' \in Spent /\ spent'.segments = spent.segments /\ spent'.runs >= spent.runs
    BY <1>4, <2>1, TallyAdds
  <2>3. FilesOK' /\ Numbered' /\ Logged' /\ Prepared' /\ Applied' /\ OneMarker'
        /\ Settled' /\ KeysAccounted'
    BY <1>3, <1>9, <2>2, FilesStay
  <2> QED  BY <1>7, <1>8, <2>3, TypeIsNext DEF PruneInv
<1>10. CASE /\ segment[s] # None /\ spent' = spent
            /\ segment' = [segment EXCEPT ![s] = None]
            /\ past' = [past EXCEPT !.removed = @ \cup {<<s, receipt.run, segment[s]>>}]
  <2> DEFINE gone == <<s, receipt.run, segment[s]>>
  <2>1. gone \in Seg \X Nat \X Content /\ gone[2] = receipt.run /\ gone[3] = segment[s]
    BY <1>1, <1>2, <1>10 DEF PruneInv, TypeOK, Receipt
  <2> HIDE DEF gone
  <2>2. past' = [past EXCEPT !.removed = @ \cup {gone}]
    BY <1>10 DEF gone
  <2>3. past' \in Past /\ past'.removed = past.removed \cup {gone}
        /\ past'.logged = past.logged /\ past'.markers = past.markers
    BY <2>1, <2>2 DEF PruneInv, TypeOK, Past
  <2>4. segment' \in [Seg -> Content \cup {None}] /\ segment'[s] = None
        /\ \A u \in Seg : u # s => segment'[u] = segment[u]
    BY <1>1, <1>10 DEF PruneInv, TypeOK
  <2>5. \A k : k \in LoggedKeys => k \in LoggedKeys' \/ k \in segment[s].keys
    BY <1>3, <2>4, InLog, InLogNext
  <2>6. \A k : k \in LoggedKeys' => k \in LoggedKeys
    BY <1>3, <2>4, InLog, InLogNext
  <2>7. segment[s].keys \subseteq LoggedKeys
    BY <1>1, <1>10, InLog
  <2>8. Logged'
    BY <2>1, <2>3, <2>6, <2>7 DEF PruneInv, Logged
  <2>9. Settled'
    BY <1>2, <1>3, <2>1, <2>3 DEF PruneInv, Settled
  <2>10. RemovalAccounted'
    <3> SUFFICES ASSUME NEW k \in past'.logged \ LoggedKeys'
                 PROVE \E r \in past'.removed :
                          /\ k \in r[3].keys
                          /\ \/ receipt' # None /\ receipt'.run = r[2]
                             \/ PruneKey(r[2]) \in past'.logged
      BY DEF RemovalAccounted
    <3>1. CASE k \in LoggedKeys
      BY <1>2, <1>3, <2>1, <2>3, <2>5, <3>1
    <3>2. CASE k \notin LoggedKeys
      BY <1>3, <2>3, <3>2 DEF PruneInv, KeysAccounted, RemovalAccounted
    <3> QED  BY <3>1, <3>2
  <2>11. KeysAccounted'
    BY <1>3, <2>3, <2>10 DEF PruneInv, KeysAccounted, ReleaseAccounted
  <2>12. FilesOK' /\ Numbered'
    BY <1>3, <1>10, <2>3, <2>4 DEF PruneInv, TypeOK, FilesOK, Numbered
  <2>13. Prepared' /\ Applied' /\ OneMarker'
    BY <1>2, <1>3 DEF PruneInv, Prepared, Applied, OneMarker
  <2> QED  BY <1>7, <1>8, <2>8, <2>9, <2>11, <2>12, <2>13, TypeIsNext DEF PruneInv
<1> QED  BY <1>4, <1>9, <1>10

LEMMA ApplyDoneKeeps == ASSUME PruneInv, ApplyDone PROVE PruneInv'
<1>1. receipt \in Receipt /\ receipt # None /\ receipt.phase = "prepared"
      /\ oa.out \in [Seg -> Outcome]
  BY DEF ApplyDone, PruneInv, TypeOK, Oa
<1>2. /\ receipt' \in Receipt /\ receipt' # None /\ receipt'.run = receipt.run
      /\ receipt'.phase = "applied" /\ receipt'.out = oa.out
  BY <1>1 DEF ApplyDone, Receipt
<1>3. UNCHANGED <<segment, active, pending, markers, spent, past>>
  BY DEF ApplyDone
<1>4. oa' \in Oa /\ oa'.pc = "record_prune"
  BY IdleOa DEF ApplyDone, Oa, OaPc
<1>5. FilesOK' /\ Numbered' /\ OneMarker' /\ Logged'
  BY <1>1, <1>2, <1>3
  DEF PruneInv, TypeOK, FilesOK, Numbered, OneMarker, Logged, LoggedKeys, Present
<1>6. Settled' /\ KeysAccounted'
  BY <1>1, <1>2, <1>3
  DEF PruneInv, Settled, KeysAccounted, RemovalAccounted, ReleaseAccounted, LoggedKeys, Present
<1>7. Prepared' /\ Applied'
  BY <1>1, <1>2, <1>3 DEF PruneInv, Prepared, Applied
<1>8. Stands' /\ Applying' /\ Resolving'
  BY <1>2, <1>4 DEF Stands, Applying, Resolving
<1> QED  BY <1>4, <1>5, <1>6, <1>7, <1>8, TypeIsNext DEF PruneInv

\* Recording under a key moves the command on, or ends it.
LEMMA RecordKeeps ==
    ASSUME PruneInv, NEW key \in Key, NEW from,
           NEW to \in {"commit_prune", "record_resolve", "commit_release"}, Record(from, key, to),
           to # "commit_release" => receipt # None /\ receipt.phase = "applied",
           to # "commit_prune" => oa.marker \in Marker
    PROVE PruneInv'
<1>1. CASE Append(key) /\ Goto(to) /\ UNCHANGED spent
  <2>1. FilesOK' /\ Numbered' /\ Logged' /\ Prepared' /\ Applied' /\ OneMarker'
        /\ Settled' /\ KeysAccounted'
    BY <1>1, AppendKeeps DEF Record
  <2>2. oa' \in Oa /\ oa'.pc = to /\ oa'.marker = oa.marker
    BY <1>1, OaMoves DEF OaPc
  <2>3. Stands' /\ Applying' /\ Resolving'
    BY <2>2 DEF Record, Stands, Applying, Resolving
  <2> QED  BY <2>1, <2>2, <2>3, TypeIsNext DEF PruneInv
<1>2. CASE AppendFails(key) /\ oa' = OaIdle /\ UNCHANGED <<active, past>>
  <2>1. FilesOK' /\ Numbered' /\ Logged' /\ Prepared' /\ Applied' /\ OneMarker'
        /\ Settled' /\ KeysAccounted'
    BY <1>2, AppendFailsKeeps DEF Record
  <2> QED  BY <1>2, <2>1, OaEnds, TypeIsNext DEF PruneInv
<1> QED  BY <1>1, <1>2 DEF Record

LEMMA RecordPruneKeeps == ASSUME PruneInv, RecordPrune PROVE PruneInv'
<1>1. receipt \in Receipt /\ receipt # None /\ receipt.phase = "applied" /\ receipt.run \in Nat
  BY DEF RecordPrune, Record, PruneInv, TypeOK, Receipt
<1> QED  BY <1>1, KeyTypes, RecordKeeps DEF RecordPrune

\* The receipt goes only when the run's own event is in the log.
LEMMA CommitPruneKeeps == ASSUME PruneInv, CommitPrune PROVE PruneInv'
<1>1. \/ receipt' = receipt
      \/ receipt' = None /\ PruneKey(receipt.run) \in LoggedKeys
  <2> DEFINE keys == {PruneKey(receipt.run)} \cup
                     {ResolveKey(receipt.run, s, receipt.out[s].content) : s \in Resolved(receipt)}
  <2>1. receipt' = IF TopologyOk /\ keys \subseteq LoggedKeys THEN None ELSE receipt
    BY DEF CommitPrune
  <2>2. PruneKey(receipt.run) \in keys
    OBVIOUS
  <2> HIDE DEF keys
  <2> QED  BY <2>1, <2>2
<1>2. oa' = OaIdle /\ UNCHANGED <<segment, active, pending, markers, spent, past>>
  BY DEF CommitPrune
<1>3. FilesOK' /\ Numbered' /\ OneMarker' /\ Logged' /\ Prepared' /\ Applied'
  BY <1>1, <1>2 DEF PruneInv, TypeOK, FilesOK, Numbered, OneMarker, Logged, LoggedKeys, Present,
                    Prepared, Applied
<1>4. PruneKey(receipt.run) \in LoggedKeys => PruneKey(receipt.run) \in past.logged
  BY DEF PruneInv, Logged
<1>5. Settled'
  BY <1>1, <1>2, <1>4 DEF PruneInv, Settled
<1>6. KeysAccounted'
  <2>1. LoggedKeys' = LoggedKeys
    BY <1>2 DEF LoggedKeys, Present
  <2> QED  BY <1>1, <1>2, <1>4, <2>1 DEF PruneInv, KeysAccounted, RemovalAccounted, ReleaseAccounted
<1> QED  BY <1>2, <1>3, <1>5, <1>6, OaEnds, TypeIsNext DEF PruneInv

-----------------------------------------------------------------------------
(* oa audit-prune-resolve *)

LEMMA ResolveMarkKeeps == ASSUME PruneInv, NEW s \in Seg, ResolveMark(s) PROVE PruneInv'
<1> DEFINE marker == [run |-> receipt.run, seg |-> s, content |-> segment[s],
                      before |-> Resolved(receipt)]
<1>1. /\ receipt \in Receipt /\ receipt # None /\ receipt.phase = "applied"
      /\ segment[s] # None /\ segment[s] \in Content /\ receipt.out[s].kind = "remove"
  BY DEF ResolveMark, PruneInv, TypeOK
<1>2. /\ marker \in Marker /\ marker.run = receipt.run /\ marker.seg = s
      /\ marker.content = segment[s]
  BY <1>1 DEF Marker, Receipt, Resolved
<1>3. {m \in markers : Marks(m, receipt.run, s)} \subseteq {marker}
  BY DEF ResolveMark
<1>4. /\ markers' = markers \cup {marker}
      /\ past' = [past EXCEPT !.markers = @ \cup {marker}]
      /\ oa' = [OaIdle EXCEPT !.pc = "resolve_receipt", !.marker = marker]
      /\ UNCHANGED <<segment, active, pending, receipt, spent>>
  BY DEF ResolveMark
<1> HIDE DEF marker
<1>5. past' \in Past /\ past'.logged = past.logged /\ past'.removed = past.removed
      /\ past'.markers = past.markers \cup {marker}
  BY <1>2, <1>4 DEF PruneInv, TypeOK, Past
<1>6. FilesOK' /\ Numbered'
  BY <1>1, <1>2, <1>4, <1>5 DEF PruneInv, TypeOK, FilesOK, Numbered
<1>7. Logged' /\ KeysAccounted' /\ Settled'
  <2>1. LoggedKeys' = LoggedKeys
    BY <1>4 DEF LoggedKeys, Present
  <2> QED  BY <1>4, <1>5, <2>1
           DEF PruneInv, Logged, KeysAccounted, RemovalAccounted, ReleaseAccounted, Settled
<1>8. OneMarker'
  BY <1>2, <1>3, <1>4 DEF PruneInv, OneMarker, Marks
<1>9. Prepared' /\ Applied'
  BY <1>1, <1>2, <1>4 DEF PruneInv, Prepared, Applied
<1>10. oa' \in Oa /\ oa'.pc = "resolve_receipt" /\ oa'.marker = marker
  BY <1>2, <1>4, IdleOa DEF Oa, OaPc
<1>11. Stands' /\ Applying' /\ Resolving'
  BY <1>1, <1>2, <1>4, <1>10 DEF Stands, Applying, Resolving
<1> QED  BY <1>6, <1>7, <1>8, <1>9, <1>10, <1>11, TypeIsNext DEF PruneInv

LEMMA ResolveReceiptKeeps == ASSUME PruneInv, ResolveReceipt PROVE PruneInv'
<1> DEFINE m == oa.marker
           kept == [kind |-> "preserved", content |-> m.content]
           out == [receipt.out EXCEPT ![m.seg] = kept]
<1>1. /\ receipt \in Receipt /\ receipt # None /\ receipt.phase = "applied"
      /\ m \in Marker /\ m \in markers /\ m.run = receipt.run
      /\ receipt.out[m.seg].kind = "remove"
  BY DEF ResolveReceipt, PruneInv, TypeOK, Resolving
<1>2. kept \in Outcome /\ m.seg \in Seg
  BY <1>1 DEF Outcome, Marker
<1>3. out \in [Seg -> Outcome] /\ out[m.seg] = kept /\ \A s \in Seg : s # m.seg => out[s] = receipt.out[s]
  BY <1>1, <1>2 DEF Receipt
<1>4. receipt' = [receipt EXCEPT !.out = out]
  BY <1>1 DEF ResolveReceipt, Receipt
<1>5. Goto("resolve_prune") /\ UNCHANGED <<segment, active, pending, markers, spent, past>>
  BY DEF ResolveReceipt
<1>6. kept.kind = "preserved" /\ kept.content = m.content
  OBVIOUS
<1> HIDE DEF out, kept
<1>7. /\ receipt' \in Receipt /\ receipt' # None /\ receipt'.run = receipt.run
      /\ receipt'.phase = "applied" /\ receipt'.out = out
  BY <1>1, <1>3, <1>4 DEF Receipt
<1>8. FilesOK' /\ Numbered' /\ OneMarker' /\ Prepared'
  BY <1>1, <1>5, <1>7 DEF PruneInv, TypeOK, FilesOK, Numbered, OneMarker, Prepared
<1>9. Logged' /\ KeysAccounted' /\ Settled'
  <2>1. LoggedKeys' = LoggedKeys
    BY <1>5 DEF LoggedKeys, Present
  <2> QED  BY <1>1, <1>5, <1>7, <2>1
           DEF PruneInv, Logged, KeysAccounted, RemovalAccounted, ReleaseAccounted, Settled
<1>10. Applied'
  <2> SUFFICES ASSUME NEW n \in markers, n.run = receipt.run
               PROVE \/ out[n.seg].kind = "preserved" /\ n.content = out[n.seg].content
                     \/ out[n.seg].kind = "remove" /\ segment[n.seg] # None
    BY <1>5, <1>7 DEF Applied
  <2>1. CASE n.seg = m.seg
    <3>1. n = m
      BY <1>1, <2>1 DEF PruneInv, OneMarker
    <3> QED  BY <1>3, <1>6, <3>1
  <2>2. CASE n.seg # m.seg
    <3>1. n.seg \in Seg
      BY DEF PruneInv, TypeOK, Marker
    <3> QED  BY <1>1, <1>3, <2>2, <3>1 DEF PruneInv, Applied
  <2> QED  BY <2>1, <2>2
<1>11. oa' \in Oa /\ oa'.pc = "resolve_prune" /\ oa'.marker = m
  BY <1>5, OaMoves DEF OaPc
<1>12. Stands' /\ Applying' /\ Resolving'
  BY <1>1, <1>7, <1>11 DEF Stands, Applying, Resolving
<1> QED  BY <1>8, <1>9, <1>10, <1>11, <1>12, TypeIsNext DEF PruneInv

LEMMA ResolveAgainKeeps == ASSUME PruneInv, NEW s \in Seg, ResolveAgain(s) PROVE PruneInv'
<1>1. PICK m \in markers : oa' = [OaIdle EXCEPT !.pc = "resolve_prune", !.marker = m]
  BY DEF ResolveAgain
<1>2. m \in Marker /\ receipt # None /\ receipt.phase = "applied" /\ receipt' = receipt
  BY DEF ResolveAgain, PruneInv, TypeOK
<1>3. oa' \in Oa /\ oa'.pc = "resolve_prune" /\ oa'.marker = m
  BY <1>1, <1>2, IdleOa DEF Oa, OaPc
<1>4. Stands' /\ Applying' /\ Resolving'
  BY <1>2, <1>3 DEF Stands, Applying, Resolving
<1>5. FilesOK' /\ Numbered' /\ Logged' /\ Prepared' /\ Applied' /\ OneMarker'
      /\ Settled' /\ KeysAccounted'
  <2>1. spent \in Spent /\ spent.runs >= spent.runs
    BY DEF PruneInv, TypeOK, Spent
  <2> QED  BY <2>1, FilesStay DEF ResolveAgain
<1> QED  BY <1>3, <1>4, <1>5, TypeIsNext DEF PruneInv

LEMMA ResolveRecordsKeep ==
    ASSUME PruneInv, ResolveRecordPrune \/ ResolveRecord PROVE PruneInv'
<1>1. receipt \in Receipt /\ receipt # None /\ receipt.phase = "applied" /\ receipt.run \in Nat
  BY DEF ResolveRecordPrune, ResolveRecord, Record, PruneInv, TypeOK, Receipt
<1>2. oa.marker \in Marker /\ oa.marker.run \in Nat /\ oa.marker.seg \in Seg
      /\ oa.marker.content \in Content
  BY DEF ResolveRecordPrune, ResolveRecord, Record, PruneInv, Resolving, Marker
<1>3. CASE ResolveRecordPrune
  BY <1>1, <1>2, <1>3, KeyTypes, RecordKeeps DEF ResolveRecordPrune
<1>4. CASE ResolveRecord
  BY <1>1, <1>2, <1>4, KeyTypes, RecordKeeps DEF ResolveRecord
<1> QED  BY <1>3, <1>4

-----------------------------------------------------------------------------
(* oa audit-preserve-release *)

LEMMA ReleasePrepareKeeps == ASSUME PruneInv, NEW m \in markers, ReleasePrepare(m) PROVE PruneInv'
<1>1. m \in Marker
  BY DEF PruneInv, TypeOK
<1>2. oa' \in Oa /\ oa'.pc = "record_release" /\ oa'.marker = m
  BY <1>1, IdleOa DEF ReleasePrepare, Oa, OaPc
<1>3. Stands' /\ Applying' /\ Resolving'
  BY <1>1, <1>2 DEF Stands, Applying, Resolving
<1>4. FilesOK' /\ Numbered' /\ Logged' /\ Prepared' /\ Applied' /\ OneMarker'
      /\ Settled' /\ KeysAccounted'
  <2>1. spent \in Spent /\ spent.runs >= spent.runs
    BY DEF PruneInv, TypeOK, Spent
  <2> QED  BY <2>1, FilesStay DEF ReleasePrepare
<1> QED  BY <1>2, <1>3, <1>4, TypeIsNext DEF PruneInv

LEMMA RecordReleaseKeeps == ASSUME PruneInv, RecordRelease PROVE PruneInv'
<1>1. oa.marker \in Marker
  BY DEF RecordRelease, Record, PruneInv, Resolving
<1> QED  BY <1>1, KeyTypes, RecordKeeps DEF RecordRelease

\* A marker goes only when its release is in the log.
LEMMA CommitReleaseKeeps == ASSUME PruneInv, CommitRelease PROVE PruneInv'
<1>1. \/ markers' = markers
      \/ markers' = markers \ {oa.marker} /\ ReleaseKey(oa.marker) \in LoggedKeys
  BY DEF CommitRelease
<1>2. oa' = OaIdle /\ UNCHANGED <<segment, active, pending, receipt, spent, past>>
  BY DEF CommitRelease
<1>3. FilesOK' /\ Numbered' /\ OneMarker' /\ Prepared' /\ Applied' /\ Settled'
  BY <1>1, <1>2 DEF PruneInv, TypeOK, FilesOK, Numbered, OneMarker, Prepared, Applied, Settled
<1>4. LoggedKeys' = LoggedKeys
  BY <1>2 DEF LoggedKeys, Present
<1>5. Logged' /\ KeysAccounted'
  BY <1>1, <1>2, <1>4
  DEF PruneInv, Logged, KeysAccounted, RemovalAccounted, ReleaseAccounted
<1> QED  BY <1>2, <1>3, <1>5, OaEnds, TypeIsNext DEF PruneInv

-----------------------------------------------------------------------------
(* The theorems *)

LEMMA InitHolds == Init => PruneInv
<1> SUFFICES ASSUME Init PROVE PruneInv
  OBVIOUS
<1>1. FilesOK /\ oa \in Oa /\ Stands
  BY IdleOa DEF Init, FilesOK, Stands, Spent, Past
<1>2. LoggedKeys = {}
  BY DEF Init, LoggedKeys, Present
<1>3. Numbered /\ Logged /\ KeysAccounted /\ Settled
  BY <1>2 DEF Init, Numbered, Logged, KeysAccounted, RemovalAccounted, ReleaseAccounted, Settled
<1>4. Applying /\ Prepared /\ Applied /\ OneMarker /\ Resolving
  BY IdleOa DEF Init, Applying, Prepared, Applied, OneMarker, Resolving
<1> QED  BY <1>1, <1>3, <1>4, TypeIs DEF PruneInv

LEMMA StepKeeps == ASSUME PruneInv, [Next]_vars PROVE PruneInv'
<1>1. CASE PruneStep
  BY <1>1, PrunePrepareKeeps, PruneResumeKeeps, ApplyNextKeeps, ApplyDoneKeeps, RecordPruneKeeps,
     CommitPruneKeeps DEF PruneStep
<1>2. CASE ResolveStep
  BY <1>2, ResolveMarkKeeps, ResolveAgainKeeps, ResolveReceiptKeeps, ResolveRecordsKeep
  DEF ResolveStep
<1>3. CASE ReleaseStep
  BY <1>3, ReleasePrepareKeeps, RecordReleaseKeeps, CommitReleaseKeeps DEF ReleaseStep
<1>4. CASE Environment
  BY <1>4, RotateKeeps, RecordDataKeeps, RestoreKeeps, DriftKeeps, CrashKeeps DEF Environment
<1>5. CASE UNCHANGED vars
  <2>1. spent \in Spent /\ spent.runs >= spent.runs
    BY DEF PruneInv, TypeOK, Spent
  <2>2. FilesOK' /\ Numbered' /\ Logged' /\ Prepared' /\ Applied' /\ OneMarker'
        /\ Settled' /\ KeysAccounted'
    BY <1>5, <2>1, FilesStay DEF vars
  <2>3. oa' \in Oa /\ Stands' /\ Applying' /\ Resolving'
    BY <1>5, OaStays DEF vars
  <2> QED  BY <2>2, <2>3, TypeIsNext DEF PruneInv
<1> QED  BY <1>1, <1>2, <1>3, <1>4, <1>5 DEF Next

\* The invariant holds of every reachable state.
THEOREM PruneInvariance == Spec => []PruneInv
<1>1. PruneInv /\ [Next]_vars => PruneInv'
  BY StepKeeps
<1> QED  BY InitHolds, <1>1, PTL DEF Spec

\* Every key that was ever logged is still in the log, or in a segment removed by a
\* run that is pending or has its own event logged, and no marker disappears without
\* its release event.
THEOREM KeysStayAccounted == Spec => []KeysAccounted
<1>1. PruneInv => KeysAccounted
  BY DEF PruneInv
<1> QED  BY PruneInvariance, <1>1, PTL

\* A segment disappears only in the apply step of a prepared run, which looks for the
\* bytes the receipt lists.
LEMMA OnlyApplyRemoves ==
    ASSUME PruneInv, [Next]_vars, NEW s \in Seg, segment[s] # None, segment'[s] = None
    PROVE /\ ApplyNext /\ s \in oa.todo /\ segment[s] = oa.out[s].content
<1>1. segment \in [Seg -> Content \cup {None}]
  BY DEF PruneInv, TypeOK
<1>2. CASE ApplyNext
  <2>1. Min(oa.todo) \in oa.todo /\ Min(oa.todo) \in Seg
    BY <1>2, NextOf DEF ApplyNext, PruneInv
  <2>2. s = Min(oa.todo) /\ segment[s] = oa.out[s].content
    BY <1>1, <1>2, <2>1 DEF ApplyNext
  <2> QED  BY <1>2, <2>1, <2>2
<1>3. CASE Rotate
  <2> DEFINE new == [keys |-> active, version |-> 0]
  <2>1. new # None
    BY DEF PruneInv, TypeOK, Content
  <2>2. segment' = [segment EXCEPT ![spent.segments + 1] = new]
    BY <1>3 DEF Rotate
  <2> QED  BY <1>1, <2>1, <2>2
<1>4. ASSUME NEW u \in Seg, Restore(u) PROVE FALSE
  BY <1>1, <1>4 DEF Restore
<1>5. ASSUME NEW u \in Seg, Drift(u) PROVE FALSE
  <2> DEFINE new == [segment[u] EXCEPT !.version = @ + 1]
  <2>1. new # None
    BY <1>1, <1>5 DEF Drift, Content
  <2>2. segment' = [segment EXCEPT ![u] = new]
    BY <1>5 DEF Drift
  <2> HIDE DEF new
  <2> QED  BY <1>1, <2>1, <2>2
<1>6. CASE PrunePrepare \/ PruneResume \/ ApplyDone \/ RecordPrune \/ CommitPrune
  BY <1>6 DEF PrunePrepare, PruneResume, ApplyDone, RecordPrune, CommitPrune, Record
<1>7. CASE ResolveStep
  BY <1>7 DEF ResolveStep, ResolveMark, ResolveAgain, ResolveReceipt, ResolveRecordPrune,
              ResolveRecord, Record
<1>8. CASE ReleaseStep
  BY <1>8 DEF ReleaseStep, RecordRelease, CommitRelease, ReleasePrepare, Record
<1>9. CASE (\E d \in Data : RecordData(d)) \/ Crash \/ UNCHANGED vars
  BY <1>9 DEF RecordData, Crash, vars
<1> QED  BY <1>2, <1>3, <1>4, <1>5, <1>6, <1>7, <1>8, <1>9 DEF Next, PruneStep, Environment

\* Nothing is deleted but what the receipt listed, with the very bytes it listed.
THEOREM DeletionsAreWitnessed == Spec => DeletedAsWitnessed
<1>1. PruneInv /\ [Next]_vars =>
        [\A s \in Seg : segment[s] # None /\ segment'[s] = None =>
            /\ receipt # None /\ receipt.phase = "prepared"
            /\ receipt.out[s] = [kind |-> "remove", content |-> segment[s]]]_vars
  <2> SUFFICES ASSUME PruneInv, [Next]_vars, NEW s \in Seg, segment[s] # None, segment'[s] = None
               PROVE  /\ receipt # None /\ receipt.phase = "prepared"
                      /\ receipt.out[s] = [kind |-> "remove", content |-> segment[s]]
    OBVIOUS
  <2>1. ApplyNext /\ s \in oa.todo /\ segment[s] = oa.out[s].content
    BY OnlyApplyRemoves
  <2>2. /\ receipt \in Receipt /\ receipt # None /\ receipt.phase = "prepared"
        /\ receipt.out[s].kind = "remove" /\ oa.out[s] = receipt.out[s]
    BY <2>1 DEF ApplyNext, PruneInv, TypeOK, Applying
  <2>3. receipt.out[s] \in Outcome
    BY <2>2 DEF Receipt
  <2> QED  BY <2>1, <2>2, <2>3 DEF Outcome
<1> QED  BY PruneInvariance, <1>1, PTL DEF Spec, DeletedAsWitnessed

\* A preserved segment outlives every run while its marker stands.
THEOREM PreservedSegmentsStay == Spec => PreservedKept
<1>1. PruneInv /\ [Next]_vars => [\A m \in markers : Binds(m) => segment'[m.seg] # None]_vars
  <2> SUFFICES ASSUME PruneInv, [Next]_vars, NEW m \in markers, Binds(m), segment'[m.seg] = None
               PROVE  FALSE
    OBVIOUS
  <2>1. m.seg \in Seg /\ m.content \in Content /\ segment[m.seg] = m.content
    BY DEF Binds, PruneInv, TypeOK, Marker
  <2>2. ApplyNext /\ m.seg \in oa.todo
    BY <2>1, OnlyApplyRemoves
  <2> QED  BY <2>2 DEF ApplyNext, PruneInv, TypeOK, Applying, Prepared
<1> QED  BY PruneInvariance, <1>1, PTL DEF Spec, PreservedKept

-----------------------------------------------------------------------------
(* audit-health *)

\* What the reasons are of one outcome of the receipt.
LEMMA TargetIs ==
    \A s \in Seg : TargetReasons(s) = {} <=>
        /\ segment[s] \in {None, receipt.out[s].content}
        /\ receipt.phase = "applied" => segment[s] = None
  BY DEF TargetReasons, TargetState

\* A reason is looked for as what it says: any marker of the segment has to stand for
\* the bytes there and for those the receipt kept.
LEMMA ResolutionIs ==
    ASSUME NEW s \in Seg
    PROVE ResolutionReasons(s) = {} <=>
        /\ MarkersOf(s) # {}
        /\ \A m \in MarkersOf(s) : Binds(m) /\ m.content = receipt.out[s].content
        /\ ResolveKey(receipt.run, s, receipt.out[s].content) \in LoggedKeys
  BY DEF ResolutionReasons

LEMMA StatusIs ==
    ReceiptStatus = "resumable" <=>
        /\ \A s \in Removals(receipt.out) : TargetReasons(s) = {}
        /\ \A s \in Resolved(receipt) : ResolutionReasons(s) = {}
<1>1. ReceiptReasons = {} <=>
        /\ \A s \in Removals(receipt.out) : TargetReasons(s) = {}
        /\ \A s \in Resolved(receipt) : ResolutionReasons(s) = {}
  <2>1. \A x : x \in ReceiptReasons <=>
              \/ \E s \in Removals(receipt.out) : x \in TargetReasons(s)
              \/ \E s \in Resolved(receipt) : x \in ResolutionReasons(s)
    <3> DEFINE targets == UNION {TargetReasons(s) : s \in Removals(receipt.out)}
               resolutions == UNION {ResolutionReasons(s) : s \in Resolved(receipt)}
    <3>1. \A x : x \in targets <=> \E s \in Removals(receipt.out) : x \in TargetReasons(s)
      OBVIOUS
    <3>2. \A x : x \in resolutions <=> \E s \in Resolved(receipt) : x \in ResolutionReasons(s)
      OBVIOUS
    <3>3. ReceiptReasons = targets \cup resolutions
      BY DEF ReceiptReasons
    <3> HIDE DEF targets, resolutions
    <3> QED  BY <3>1, <3>2, <3>3
  <2> QED  BY <2>1, Zenon
<1> QED  BY <1>1 DEF ReceiptStatus

LEMMA StatusEither == ReceiptStatus \in {"resumable", "blocked"}
  BY DEF ReceiptStatus

\* Since there is one marker per segment of a run, and it agrees with the receipt, the
\* topology that a commit asks for and the markers that health asks for are the same.
LEMMA Diagnosed == PruneInv => ReceiptDiagnosed
<1> SUFFICES ASSUME PruneInv, oa.pc = "idle", receipt # None
             PROVE  /\ receipt.phase = "prepared" =>
                         (ReceiptStatus = "blocked" <=>
                              \E s \in Removals(receipt.out) : segment[s] \notin {None, receipt.out[s].content})
                    /\ receipt.phase = "applied" =>
                         (ReceiptStatus = "resumable" <=>
                              /\ TopologyOk
                              /\ \A s \in Resolved(receipt) :
                                     ResolveKey(receipt.run, s, receipt.out[s].content) \in LoggedKeys)
                    /\ Wedged => ReceiptStatus = "blocked"
  BY DEF ReceiptDiagnosed
<1>1. receipt \in Receipt /\ receipt.phase \in {"prepared", "applied"}
      /\ Removals(receipt.out) \subseteq Seg /\ Resolved(receipt) \subseteq Seg
  BY DEF PruneInv, TypeOK, Receipt, Removals, Resolved
<1>2. CASE receipt.phase = "prepared"
  <2>1. Resolved(receipt) = {}
    BY <1>2 DEF PruneInv, Prepared, Resolved
  <2>2. ReceiptStatus = "blocked" <=>
          \E s \in Removals(receipt.out) : segment[s] \notin {None, receipt.out[s].content}
    BY <1>1, <1>2, <2>1, StatusIs, StatusEither, TargetIs
  <2>3. ~Wedged
    BY <1>2 DEF PruneInv, Prepared, Wedged, Marks
  <2> QED  BY <1>2, <2>2, <2>3
<1>3. CASE receipt.phase = "applied"
  <2>1. \A s \in Removals(receipt.out) : TargetReasons(s) = {} <=> segment[s] = None
    BY <1>1, <1>3, TargetIs
  <2>2. ASSUME NEW s \in Resolved(receipt)
        PROVE  /\ MarkersOf(s) # {}
               /\ \A m \in MarkersOf(s) : Binds(m) /\ m.content = receipt.out[s].content
               <=> \E m \in markers : Marks(m, receipt.run, s) /\ Binds(m)
    <3>1. receipt.out[s].kind = "preserved"
      BY DEF Resolved
    <3>2. \A m \in markers : Marks(m, receipt.run, s) => m.content = receipt.out[s].content
      BY <1>3, <3>1 DEF PruneInv, Applied, Marks
    <3>3. \A m, n \in MarkersOf(s) : m = n
      BY DEF PruneInv, OneMarker, MarkersOf, Marks
    <3> QED  BY <3>2, <3>3 DEF MarkersOf
  <2>3. ReceiptStatus = "resumable" <=>
          /\ TopologyOk
          /\ \A s \in Resolved(receipt) :
                 ResolveKey(receipt.run, s, receipt.out[s].content) \in LoggedKeys
    BY <1>1, <2>1, <2>2, StatusIs, ResolutionIs DEF TopologyOk
  <2>4. Wedged => ~TopologyOk
    <3> SUFFICES ASSUME NEW s \in Seg, TopologyOk,
                   \/ receipt.out[s].kind = "preserved" /\ ~\E m \in markers : Marks(m, receipt.run, s) /\ Binds(m)
                   \/ receipt.out[s].kind = "remove" /\ \E m \in markers :
                          Marks(m, receipt.run, s) /\ (m.before # Resolved(receipt) \/ ~Binds(m))
                 PROVE FALSE
      BY DEF Wedged
    <3>1. CASE receipt.out[s].kind = "preserved" /\ ~\E m \in markers : Marks(m, receipt.run, s) /\ Binds(m)
      BY <3>1 DEF TopologyOk, Resolved
    <3>2. ASSUME receipt.out[s].kind = "remove", NEW m \in markers, Marks(m, receipt.run, s)
          PROVE  FALSE
      <4>1. segment[s] # None
        BY <1>3, <3>2 DEF PruneInv, Applied, Marks
      <4> QED  BY <3>2, <4>1 DEF TopologyOk, Removals
    <3> QED  BY <3>1, <3>2
  <2> QED  BY <1>3, <2>3, <2>4, StatusEither
<1> QED  BY <1>1, <1>2, <1>3

\* audit-health is right about pruning whenever no command runs: about what resuming
\* the pending run will do, and that a healthy report leaves nothing unsettled.
THEOREM PruneHealthIsTruthful == Spec => []HealthTruthful
<1>1. PruneInv => ReceiptDiagnosed
  BY Diagnosed
<1>2. PruneInv => HealthySettled
  <2> SUFFICES ASSUME PruneInv, Health = "healthy"
               PROVE  /\ \A r \in past.removed : PruneKey(r[2]) \in past.logged
                      /\ \A m \in past.markers : ReleaseKey(m) \in past.logged
    BY DEF HealthySettled
  <2>1. receipt = None /\ markers = {}
    BY DEF Health
  <2> QED  BY <2>1 DEF PruneInv, Settled, KeysAccounted, ReleaseAccounted
<1> QED  BY PruneInvariance, <1>1, <1>2, PTL DEF HealthTruthful
=============================================================================
