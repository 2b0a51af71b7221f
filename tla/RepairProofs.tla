---------------------------- MODULE RepairProofs -----------------------------
(***************************************************************************)
(* The audit log, the repair of a segment and the retention of its         *)
(* evidence proved for any number of writers, keys and events, any segment *)
(* size, and any number of crashes and I/O errors.                         *)
(***************************************************************************)
EXTENDS RepairHealth, FiniteSetTheorems, SequenceTheorems, TLAPS

\* The events that have bytes in a file.
Bytes(file) == UNION {file.lines[i].has : i \in DOMAIN file.lines}
InRotated == UNION {Bytes(rotated[i]) : i \in DOMAIN rotated}
\* A line that reads as an object is one event's; an unterminated line exists.
WellFormed(file) ==
    /\ file \in File
    /\ file.open => file.lines # <<>>
    /\ \A i \in DOMAIN file.lines : file.lines[i].ok => \E e \in Event : file.lines[i] = Whole(e)

Typed ==
    /\ RepairTypeOK
    /\ WellFormed(Text(active)) /\ WellFormed(Text(degraded))
    /\ \A i \in DOMAIN rotated : WellFormed(rotated[i])
    /\ \A w \in Writer : WellFormed(job[w].base)
    /\ \A w \in Writer : pc[w] \notin {"idle", "dead"} => job[w].event \in Event

\* Who works on the log has both locks, who works on the spool has the spool's; the
\* operator's command has both from its first look to its last write.
OnLog == {"rotate", "read", "fsync", "unlink"}
OnSpool == {"spooling", "spoolsync"}
Repairing == {"repair", "receipt", "replace", "mark", "retain"}
Locked ==
    /\ \A w \in Writer :
           /\ pc[w] \in OnLog \cup {"degraded"} => auditLock = w
           /\ pc[w] \in OnLog \cup OnSpool => degradedLock = w
    /\ op \in Repairing => auditLock = Operator /\ degradedLock = Operator
    /\ op \in Repairing \cup {"record", "commit"} => pc[Operator] = "idle"

\* What a writer between its append and the end of its call has put where.
Appending ==
    \A w \in Writer :
        /\ pc[w] = "fsync" =>
               /\ active = Grown(job[w].base, job[w].out, Len(job[w].out))
               /\ job[w].backlog <=> Text(degraded).lines # <<>>
        /\ pc[w] \in {"fsync", "unlink"} =>
               Readable(Text(degraded)) \cup {job[w].event} \subseteq Bytes(Text(active)) \cup InRotated
        /\ pc[w] = "spoolsync" => Bytes(job[w].base) \subseteq Bytes(Text(degraded))

\* The repair dropped an event's malformed line, and its evidence is there or was retired.
Preserved == BackupValid \/ staged \/ tombstone \in {"backup_staged", "removed"}
Dropped == IF fence # None /\ Preserved THEN MalformedEvents(fence.original) ELSE {}
\* What was reported has its bytes where no crash can reach them.
Secured == reported \subseteq corrupt \cup InRotated \cup Bytes(Durable) \cup Dropped

Single(file, e) ==
    \A m, n \in DOMAIN file.lines : file.lines[m] = Whole(e) /\ file.lines[n] = Whole(e) => m = n
\* On one readable line at most, over the rotated segments and this one.
Once(e, file) ==
    /\ Single(file, e)
    /\ \A i \in DOMAIN rotated :
           /\ Single(rotated[i], e)
           /\ e \in Readable(rotated[i]) =>
                  /\ e \notin Readable(file)
                  /\ \A j \in DOMAIN rotated : e \in Readable(rotated[j]) => i = j
\* An append has a key once, and only if no segment has it.
NewTo(e, out, file) ==
    \A m \in DOMAIN out : out[m] = e =>
        /\ \A n \in DOMAIN out : out[n] = e => m = n
        /\ e \notin Readable(file)
        /\ \A i \in DOMAIN rotated : e \notin Readable(rotated[i])
KeysOnce ==
    \A e \in Keyed :
        /\ Once(e, Durable)
        /\ \A w \in Writer : pc[w] = "fsync" => NewTo(e, job[w].out, job[w].base)

\* Without a fault nothing is torn, and an unkeyed event moves from its call to the
\* spool or to the log, and from the spool to the log.
Pending == {"audit", "degraded", "rotate", "read", "spool", "spooling"}
Clean(file) == ~file.open /\ ~Damaged(file)
InLog == Readable(Text(active)) \cup UNION {Readable(rotated[i]) : i \in DOMAIN rotated}
Settled(e) ==
    /\ Once(e, Text(active)) /\ Single(Text(degraded), e)
    /\ e \in InLog \cap Readable(Text(degraded)) => \E w \in Writer : pc[w] \in {"fsync", "unlink"}
    /\ e \in InLog \cup Readable(Text(degraded)) => e \in spent.tried
    /\ \A w \in Writer : pc[w] # "idle" /\ job[w].event = e =>
           /\ e \in spent.tried
           /\ \A v \in Writer : pc[v] # "idle" /\ job[v].event = e => v = w
           /\ pc[w] \in Pending => e \notin InLog \cup Readable(Text(degraded))
Untorn ==
    /\ Clean(Text(active)) /\ Clean(Text(degraded)) /\ \A i \in DOMAIN rotated : Clean(rotated[i])
    /\ \A w \in Writer : pc[w] # "dead"
Faultless ==
    spent.faults = 0 => fence = None /\ Untorn /\ \A e \in Plain : Settled(e)

\* The repair's event comes from its command only, so after the diagnosis.
Unheard(j) == RepairKey \notin Bytes(j.base) /\ j.event # RepairKey /\ \A i \in DOMAIN j.out : j.out[i] # RepairKey
Unseen ==
    /\ RepairKey \notin corrupt \cup InRotated \cup Bytes(Text(active)) \cup Bytes(Text(degraded)) \cup reported
    /\ \A w \in Writer : Unheard(job[w])
\* Where the operator's command is, and what evidence is on disk by then.
Underway == {"mark", "record", "recording", "commit"}
Phases ==
    /\ fence = None => op = "idle" /\ backup = "absent" /\ receipt = "none" /\ tombstone = "none" /\ ~staged
    /\ op \in {"receipt", "replace"} \cup Underway => backup = "whole" /\ tombstone = "none"
    /\ op = "receipt" => receipt = "none"
    /\ op = "replace" => receipt = "prepared"
    /\ op = "mark" => receipt # "none"
    /\ op \in Underway \ {"mark"} => receipt \in {"replaced", "committed"}
    /\ op = "repair" => tombstone = "none"
    /\ op = "retain" => tombstone \in {"authorized", "backup_staged"}
    /\ receipt # "none" => backup = "whole"
    /\ tombstone = "none" => ~staged
    /\ tombstone = "authorized" => /\ receipt \in {"none", "committed"}
                                   /\ \/ backup = "whole" /\ ~staged
                                      \/ receipt = "none" /\ backup = "absent" /\ staged
    /\ tombstone = "backup_staged" => receipt = "none" /\ backup = "absent"
    /\ tombstone = "removed" => receipt = "none" /\ backup = "absent" /\ ~staged
\* What the command has seen of the files, under its locks, and of its event.
Aimed == op \in {"receipt", "replace"} => FileOf(fence.segment) = fence.original
Retaining == op = "retain" => TargetState \in Proven /\ RepairKey \in Logged
Announced ==
    /\ op = "recording" => /\ pc[Operator] \notin {"idle", "dead"} => job[Operator].event = RepairKey
                           /\ job[Operator].answer => RepairKey \in reported
    /\ op = "commit" \/ receipt = "committed" => RepairKey \in reported
RepairKnown ==
    /\ fence = None => Unseen
    /\ fence # None => WellFormed(fence.original) /\ RepairKey \notin Bytes(fence.original)
    /\ Phases /\ Aimed /\ Retaining /\ Announced

RepairInv ==
    Typed /\ Locked /\ Appending /\ Secured /\ KeysOnce /\ Faultless /\ RepairKnown

-----------------------------------------------------------------------------
(* Sequences picked by positions *)

\* Picked has each picked position once.
LEMMA Picking ==
    ASSUME NEW S, NEW s \in Seq(S), NEW keep \in SUBSET DOMAIN s
    PROVE  /\ Picked(s, keep) \in Seq(S)
           /\ \E pos \in [1..Cardinality(keep) -> keep] :
                  /\ Len(Picked(s, keep)) = Cardinality(keep)
                  /\ \A n \in 1..Cardinality(keep) : Picked(s, keep)[n] = s[pos[n]]
                  /\ \A m, n \in 1..Cardinality(keep) : pos[m] = pos[n] => m = n
                  /\ \A i \in keep : \E n \in 1..Cardinality(keep) : pos[n] = i
<1> DEFINE N == Cardinality(keep)
           Upto(i) == {j \in keep : j <= i}
           rank == [i \in keep |-> Cardinality(Upto(i))]
           Nth(n) == CHOOSE i \in keep : Cardinality({j \in keep : j <= i}) = n
<1>1. keep \subseteq 1..Len(s) /\ Len(s) \in Nat
  OBVIOUS
<1>2. IsFiniteSet(keep) /\ N \in Nat
  <2>1. IsFiniteSet(1..Len(s))
    BY <1>1, FS_Interval
  <2> QED BY <1>1, <2>1, FS_Subset, FS_CardinalityType
<1>3. ASSUME NEW i \in keep PROVE Upto(i) \subseteq keep /\ IsFiniteSet(Upto(i)) /\ rank[i] \in 1..N
  <2>1. Upto(i) \subseteq keep /\ i \in Upto(i)
    BY <1>1
  <2>2. IsFiniteSet(Upto(i)) /\ Cardinality(Upto(i)) \in Nat /\ Cardinality(Upto(i)) <= N
    BY <1>2, <2>1, FS_Subset, FS_CardinalityType
  <2>3. Cardinality(Upto(i)) # 0
    BY <2>1, <2>2, FS_EmptySet
  <2> QED BY <1>2, <2>1, <2>2, <2>3
<1>4. ASSUME NEW i \in keep, NEW k \in keep, i < k PROVE rank[i] < rank[k]
  <2>1. Upto(i) \subseteq Upto(k) /\ k \in Upto(k) /\ k \notin Upto(i)
    BY <1>1, <1>4
  <2>2. Cardinality(Upto(i)) <= Cardinality(Upto(k)) /\ Cardinality(Upto(i)) # Cardinality(Upto(k))
    BY <1>3, <2>1, FS_Subset
  <2>3. Cardinality(Upto(i)) \in Nat /\ Cardinality(Upto(k)) \in Nat
    BY <1>3, FS_CardinalityType
  <2> QED BY <2>2, <2>3
<1>5. ASSUME NEW i \in keep, NEW k \in keep, rank[i] = rank[k] PROVE i = k
  <2>0. rank[i] \in 1..N /\ rank[k] \in 1..N
    BY <1>3
  <2> HIDE DEF rank
  <2>1. rank[i] \in Nat /\ rank[k] \in Nat
    BY <1>2, <2>0
  <2>2. ~(i < k) /\ ~(k < i)
    BY <1>4, <1>5, <2>1
  <2> QED BY <1>1, <2>2
<1>6. rank \in Injection(keep, 1..N)
  BY <1>3, <1>5 DEF Injection, IsInjective
<1>7. IsFiniteSet(1..N) /\ Cardinality(1..N) = N
  BY <1>2, FS_Interval
<1>8. rank \in Surjection(keep, 1..N)
  BY <1>6, <1>7, FS_Injection
<1>9. ASSUME NEW n \in 1..N PROVE \E i \in keep : Cardinality(Upto(i)) = n
  BY <1>8 DEF Surjection
<1>10. ASSUME NEW n \in 1..N PROVE Nth(n) \in keep /\ rank[Nth(n)] = n
  BY <1>9
<1> HIDE DEF Nth
<1>11. Picked(s, keep) = [n \in 1..N |-> s[Nth(n)]]
  BY DEF Picked, Nth
<1> DEFINE pos == [n \in 1..N |-> Nth(n)]
<1>12. pos \in [1..N -> keep] /\ \A m, n \in 1..N : pos[m] = pos[n] => m = n
  BY <1>10
<1>13. ASSUME NEW i \in keep PROVE \E n \in 1..N : pos[n] = i
  <2>1. rank[i] \in 1..N /\ rank[Nth(rank[i])] = rank[i] /\ Nth(rank[i]) \in keep
    BY <1>3, <1>10
  <2> QED BY <1>5, <2>1
<1>14. ASSUME NEW n \in 1..N PROVE s[Nth(n)] \in S
  <2>1. Nth(n) \in 1..Len(s)
    BY <1>1, <1>10
  <2> QED BY <2>1
<1>15. Picked(s, keep) \in [1..N -> S]
  BY <1>11, <1>14
<1>16. Picked(s, keep) \in Seq(S) /\ Len(Picked(s, keep)) = N
  BY <1>2, <1>15
<1> QED
  BY <1>11, <1>12, <1>13, <1>16

-----------------------------------------------------------------------------
(* Lines and files *)

LEMMA LineTypes ==
    /\ \A e \in Event : Whole(e) \in Line /\ Whole(e).ok /\ Whole(e).has = {e}
    /\ Fragment \in Line /\ ~Fragment.ok /\ Fragment.has = {}
    /\ \A a, b \in Line : Glued(a, b) \in Line /\ ~Glued(a, b).ok /\ Glued(a, b).has = a.has \cup b.has
  BY DEF Line, Whole, Fragment, Glued

LEMMA FileFacts ==
    ASSUME NEW f, WellFormed(f)
    PROVE  /\ f.lines \in Seq(Line) /\ f.open \in BOOLEAN /\ Len(f.lines) \in Nat
           /\ DOMAIN f.lines = 1..Len(f.lines) /\ (f.open => Len(f.lines) > 0)
           /\ \A i \in 1..Len(f.lines) : f.lines[i] \in Line /\ f.lines[i].has \subseteq Event
           /\ Bytes(f) \subseteq Event
<1>1. f \in File /\ (f.open => f.lines # <<>>)
  BY DEF WellFormed
<1>2. f.lines \in Seq(Line) /\ f.open \in BOOLEAN
  BY <1>1 DEF File
<1>3. Len(f.lines) \in Nat /\ DOMAIN f.lines = 1..Len(f.lines) /\ (f.open => Len(f.lines) > 0)
  BY <1>1, <1>2
<1>4. \A i \in 1..Len(f.lines) : f.lines[i] \in Line
  BY <1>2
<1>5. \A i \in 1..Len(f.lines) : f.lines[i].has \subseteq Event
  BY <1>4 DEF Line
<1> QED
  BY <1>2, <1>3, <1>4, <1>5 DEF Bytes

\* What has bytes in a file is on a readable line of it or on a malformed one.
LEMMA BytesSplit ==
    ASSUME NEW f, WellFormed(f)
    PROVE  /\ Bytes(f) = Readable(f) \cup MalformedEvents(f)
           /\ ~Damaged(f) => Bytes(f) = Readable(f)
           /\ \A e : e \in Readable(f) <=> e \in Event /\ \E i \in 1..Len(f.lines) : f.lines[i] = Whole(e)
<1>1. DOMAIN f.lines = 1..Len(f.lines)
  BY FileFacts
<1>2. \A i \in 1..Len(f.lines) : f.lines[i] \in Line
  BY FileFacts
<1>3. Bytes(f) = Readable(f) \cup MalformedEvents(f)
  BY <1>1, <1>2 DEF Bytes, Readable, MalformedEvents, Line
<1>4. ~Damaged(f) => Bytes(f) = Readable(f)
  BY <1>1, <1>2 DEF Bytes, Readable, Damaged, Line
<1>5. ASSUME NEW e, e \in Readable(f)
      PROVE  e \in Event /\ \E i \in 1..Len(f.lines) : f.lines[i] = Whole(e)
  <2>1. PICK i \in 1..Len(f.lines) : f.lines[i].ok /\ e \in f.lines[i].has
    BY <1>5 DEF Readable
  <2>2. PICK d \in Event : f.lines[i] = Whole(d)
    BY <1>1, <2>1 DEF WellFormed
  <2> QED BY <2>1, <2>2 DEF Whole
<1>6. ASSUME NEW e \in Event, NEW i \in 1..Len(f.lines), f.lines[i] = Whole(e)
      PROVE  e \in Readable(f)
  BY <1>6 DEF Readable, Whole
<1> QED
  BY <1>3, <1>4, <1>5, <1>6

LEMMA EmptyFile ==
    WellFormed(Empty) /\ Bytes(Empty) = {} /\ Readable(Empty) = {} /\ Clean(Empty)
  BY DEF Empty, WellFormed, File, Bytes, Readable, Clean, Damaged

\* Where AddLine puts a line.
LEMMA Adding ==
    ASSUME NEW f, WellFormed(f), NEW line \in Line
    PROVE  LET n == Len(f.lines)
               g == AddLine(f, line)
           IN  /\ g \in Seq(Line)
               /\ f.open => /\ Len(g) = n /\ g[n] = Glued(f.lines[n], line)
                            /\ \A i \in 1..(n - 1) : g[i] = f.lines[i]
               /\ ~f.open => /\ Len(g) = n + 1 /\ g[n + 1] = line
                             /\ \A i \in 1..n : g[i] = f.lines[i]
<1>1. f.lines \in Seq(Line) /\ f.open \in BOOLEAN /\ Len(f.lines) \in Nat /\ (f.open => Len(f.lines) > 0)
  BY FileFacts
<1> DEFINE s == f.lines
           n == Len(s)
<1>2. CASE f.open
  <2>1. Front(s) = SubSeq(s, 1, n - 1) /\ Last(s) = s[n]
    BY DEF Front, Last
  <2>2. n \in 1..n /\ s[n] \in Line
    BY <1>1, <1>2
  <2>3. Front(s) \in Seq(Line) /\ Len(Front(s)) = n - 1 /\ \A i \in 1..(n - 1) : Front(s)[i] = s[i]
    BY <1>1, <1>2, <2>1, SubSeqProperties
  <2>4. Glued(Last(s), line) \in Line
    BY <2>1, <2>2, LineTypes
  <2> DEFINE t == Front(s)
             x == Glued(Last(s), line)
  <2>5. AddLine(f, line) = t \o <<x>>
    BY <1>2 DEF AddLine
  <2>6. x = Glued(s[n], line)
    BY <2>1
  <2>7. t \in Seq(Line) /\ x \in Line /\ Len(t) = n - 1 /\ n \in Nat /\ \A i \in 1..(n - 1) : t[i] = s[i]
    BY <1>1, <2>3, <2>4
  <2> HIDE DEF t, x, s
  <2>8. t \o <<x>> \in Seq(Line) /\ Len(t \o <<x>>) = n /\ (t \o <<x>>)[n] = x
    BY <2>7
  <2>9. \A i \in 1..(n - 1) : (t \o <<x>>)[i] = s[i]
    BY <2>7
  <2> QED BY <1>2, <2>5, <2>6, <2>8, <2>9 DEF s
<1>3. CASE ~f.open
  BY <1>1, <1>3 DEF AddLine
<1> QED
  BY <1>1, <1>2, <1>3

-----------------------------------------------------------------------------
(* Appends: what they keep, add and can leave torn *)

\* The position of the k-th line appended to a file: the first continues a line
\* that has no newline.
Shift(f) == IF f.open THEN 1 ELSE 0
At(f, k) == Len(f.lines) + k - Shift(f)
LEMMA Shifts ==
    ASSUME NEW f, WellFormed(f)
    PROVE  /\ Shift(f) \in 0..1 /\ (f.open <=> Shift(f) = 1) /\ (Shift(f) = 1 => Len(f.lines) > 0)
           /\ Len(f.lines) \in Nat
  BY FileFacts DEF Shift

LEMMA Joining ==
    ASSUME NEW S, NEW a \in Seq(S), NEW b \in Seq(S)
    PROVE  /\ a \o b \in Seq(S) /\ Len(a \o b) = Len(a) + Len(b)
           /\ \A i \in 1..Len(a) : (a \o b)[i] = a[i]
           /\ \A i \in 1..Len(b) : (a \o b)[Len(a) + i] = b[i]
  OBVIOUS

\* g is f with some lines of an append, of which the last one may be torn.
Extends(g, f, out) ==
    /\ WellFormed(g)
    /\ Bytes(f) \subseteq Bytes(g) /\ Bytes(g) \subseteq Bytes(f) \cup ToSet(out)
    /\ \A i \in 1..Len(g.lines) : g.lines[i].ok =>
           \/ i <= Len(f.lines) /\ g.lines[i] = f.lines[i]
           \/ \E k \in 1..Len(out) : i = At(f, k) /\ i > Len(f.lines) /\ g.lines[i] = Whole(out[k])

\* The lines of a file that an append has grown by n lines.
LEMMA GrownLines ==
    ASSUME NEW f, WellFormed(f), NEW out \in Seq(Event), NEW n \in 1..Len(out)
    PROVE  LET g == Grown(f, out, n)
           IN  /\ g.lines \in Seq(Line) /\ g.open = FALSE /\ g \in File /\ Len(g.lines) = At(f, n)
               /\ \A i \in 1..Len(f.lines) : ~f.open \/ i < Len(f.lines) => g.lines[i] = f.lines[i]
               /\ f.open => g.lines[Len(f.lines)] = Glued(f.lines[Len(f.lines)], Whole(out[1]))
               /\ \A k \in 1..n : At(f, k) > Len(f.lines) => g.lines[At(f, k)] = Whole(out[k])
<1> DEFINE a == AddLine(f, Whole(out[1]))
           b == [i \in 1..(n - 1) |-> Whole(out[i + 1])]
           N == Len(f.lines)
<1>1. f.open \in BOOLEAN /\ N \in Nat /\ (f.open => N > 0)
  BY FileFacts
<1>2. n \in Nat /\ n >= 1 /\ \A i \in 1..n : out[i] \in Event
  OBVIOUS
<1>3. Whole(out[1]) \in Line
  BY <1>2, LineTypes
<1>4. /\ a \in Seq(Line)
      /\ f.open => /\ Len(a) = N /\ a[N] = Glued(f.lines[N], Whole(out[1]))
                   /\ \A i \in 1..(N - 1) : a[i] = f.lines[i]
      /\ ~f.open => /\ Len(a) = N + 1 /\ a[N + 1] = Whole(out[1])
                    /\ \A i \in 1..N : a[i] = f.lines[i]
  BY <1>3, Adding
<1>5. \A i \in 1..(n - 1) : Whole(out[i + 1]) \in Line
  BY <1>2, LineTypes
<1>6. b \in Seq(Line) /\ Len(b) = n - 1 /\ \A i \in 1..(n - 1) : b[i] = Whole(out[i + 1])
  BY <1>2, <1>5
<1>7. Grown(f, out, n) = [lines |-> a \o b, open |-> FALSE]
  BY <1>2 DEF Grown
<1> HIDE DEF a, b
<1>8. /\ a \o b \in Seq(Line) /\ Len(a \o b) = Len(a) + (n - 1)
      /\ \A i \in 1..Len(a) : (a \o b)[i] = a[i]
      /\ \A i \in 1..(n - 1) : (a \o b)[Len(a) + i] = Whole(out[i + 1])
  <2>1. a \in Seq(Line) /\ b \in Seq(Line)
    BY <1>4, <1>6
  <2>2. /\ a \o b \in Seq(Line) /\ Len(a \o b) = Len(a) + Len(b)
        /\ \A i \in 1..Len(a) : (a \o b)[i] = a[i]
        /\ \A i \in 1..Len(b) : (a \o b)[Len(a) + i] = b[i]
    BY <2>1, Joining
  <2> QED BY <1>6, <2>2
<1> DEFINE t == Shift(f)
<1>0. t \in 0..1 /\ (f.open <=> t = 1)
  BY Shifts
<1> HIDE DEF N, t
<1>9. Len(a) = N + 1 - t /\ Len(a \o b) = N + n - t
  <2>1. Len(a) = N + 1 - t
    <3>1. CASE f.open
      BY <1>0, <1>1, <1>4, <3>1
    <3>2. CASE ~f.open
      BY <1>0, <1>1, <1>4, <3>2
    <3> QED BY <3>1, <3>2
  <2>2. Len(a \o b) = Len(a) + (n - 1)
    BY <1>8
  <2> QED BY <1>0, <1>1, <1>2, <2>1, <2>2
<1>10. ASSUME NEW i \in 1..N, ~f.open \/ i < N PROVE (a \o b)[i] = f.lines[i]
  <2>1. i \in 1..Len(a)
    BY <1>1, <1>4, <1>10
  <2>2. a[i] = f.lines[i]
    BY <1>1, <1>4, <1>10
  <2> QED BY <1>8, <2>1, <2>2
<1>11. ASSUME f.open PROVE (a \o b)[N] = Glued(f.lines[N], Whole(out[1]))
  BY <1>1, <1>4, <1>8, <1>11
<1>12. ASSUME NEW k \in 1..n, N + k - t > N PROVE (a \o b)[N + k - t] = Whole(out[k])
  <2>1. CASE k = 1
    <3>1. t = 0
      BY <1>0, <1>1, <1>12, <2>1
    <3>2. Len(a) = N + 1 /\ a[N + 1] = Whole(out[1])
      BY <1>0, <1>4, <3>1
    <3>3. N + 1 \in 1..Len(a) /\ N + k - t = N + 1
      BY <1>1, <2>1, <3>1, <3>2
    <3> QED BY <1>8, <2>1, <3>2, <3>3
  <2>2. CASE k # 1
    <3>1. k - 1 \in 1..(n - 1) /\ N + k - t = Len(a) + (k - 1) /\ (k - 1) + 1 = k
      BY <1>0, <1>1, <1>2, <1>9, <2>2
    <3> QED BY <1>8, <3>1
  <2> QED BY <2>1, <2>2
<1>13. Grown(f, out, n) \in File
  BY <1>7, <1>8 DEF File
<1> QED
  <2>1. \A k : At(f, k) = N + k - t
    BY DEF At, N, t
  <2>2. Grown(f, out, n).lines = a \o b /\ Grown(f, out, n).open = FALSE
    BY <1>7
  <2> HIDE DEF At
  <2> QED BY <1>8, <1>9, <1>10, <1>11, <1>12, <1>13, <2>1, <2>2 DEF N

\* Any part of an append that ended with a newline extends the file.
LEMMA GrownExtends ==
    ASSUME NEW f, WellFormed(f), NEW out \in Seq(Event), NEW n \in 0..Len(out)
    PROVE  /\ Extends(Grown(f, out, n), f, out)
           /\ \A k \in 1..n : out[k] \in Bytes(Grown(f, out, n))
           /\ Clean(f) => Clean(Grown(f, out, n))
<1> DEFINE g == Grown(f, out, n)
           N == Len(f.lines)
<1>1. N \in Nat /\ f.open \in BOOLEAN /\ (f.open => N > 0) /\ DOMAIN f.lines = 1..N
  BY FileFacts
<1>0. Shift(f) \in 0..1 /\ (f.open <=> Shift(f) = 1) /\ \A k : At(f, k) = N + k - Shift(f)
  BY Shifts DEF At
<1>2. CASE n = 0
  <2>1. g = f
    BY <1>2 DEF Grown
  <2> QED BY <1>1, <1>2, <2>1 DEF Extends
<1>3. CASE n # 0
  <2>0. n \in 1..Len(out) /\ n \in Nat /\ n > 0
    BY <1>3
  <2>1. /\ g.lines \in Seq(Line) /\ g.open = FALSE /\ g \in File /\ Len(g.lines) = At(f, n)
        /\ \A i \in 1..N : ~f.open \/ i < N => g.lines[i] = f.lines[i]
        /\ f.open => g.lines[N] = Glued(f.lines[N], Whole(out[1]))
        /\ \A k \in 1..n : At(f, k) > N => g.lines[At(f, k)] = Whole(out[k])
    BY <2>0, GrownLines
  <2> HIDE DEF g
  <2>2. At(f, n) \in Nat /\ At(f, n) >= N /\ DOMAIN g.lines = 1..At(f, n)
    BY <1>0, <1>1, <2>0, <2>1
  <2>3. \A k \in 1..n : out[k] \in Event /\ Whole(out[k]) \in Line
                        /\ Whole(out[k]).ok /\ Whole(out[k]).has = {out[k]}
    BY <2>0, LineTypes
  <2>4. \A i \in 1..N : f.lines[i] \in Line
    BY FileFacts
  <2>5. ASSUME NEW i \in 1..At(f, n)
        PROVE  \/ i <= N /\ g.lines[i] = f.lines[i] /\ (~f.open \/ i < N)
               \/ f.open /\ i = N /\ g.lines[i] = Glued(f.lines[N], Whole(out[1]))
               \/ \E k \in 1..n : i = At(f, k) /\ i > N /\ g.lines[i] = Whole(out[k])
    <3>1. CASE i <= N
      BY <1>1, <2>1, <3>1
    <3>2. CASE i > N
      <4> DEFINE k == i - N + Shift(f)
      <4>1. k \in 1..n /\ i = At(f, k)
        BY <1>0, <1>1, <2>0, <2>2, <3>2
      <4> QED BY <2>1, <3>2, <4>1
    <3> QED BY <1>1, <3>1, <3>2
  <2>6. ASSUME f.open PROVE /\ ~Glued(f.lines[N], Whole(out[1])).ok
                            /\ Glued(f.lines[N], Whole(out[1])).has = f.lines[N].has \cup {out[1]}
    BY <1>1, <2>0, <2>3, <2>4, <2>6, LineTypes
  <2>7. WellFormed(g)
    <3>1. ASSUME NEW i \in DOMAIN g.lines, g.lines[i].ok PROVE \E e \in Event : g.lines[i] = Whole(e)
      <4>1. CASE i <= N /\ g.lines[i] = f.lines[i]
        BY <1>1, <2>2, <3>1, <4>1 DEF WellFormed
      <4>2. CASE \E k \in 1..n : g.lines[i] = Whole(out[k])
        BY <2>3, <4>2
      <4> QED BY <2>2, <2>5, <2>6, <3>1, <4>1, <4>2
    <3> QED BY <2>1, <3>1 DEF WellFormed
  <2>8. ASSUME NEW e \in Bytes(f) PROVE e \in Bytes(g)
    <3>1. PICK i \in 1..N : e \in f.lines[i].has
      BY <1>1 DEF Bytes
    <3>2. i \in DOMAIN g.lines /\ e \in g.lines[i].has
      BY <1>1, <2>1, <2>2, <2>6, <3>1
    <3> QED BY <3>2 DEF Bytes
  <2>9. ASSUME NEW e \in Bytes(g) PROVE e \in Bytes(f) \cup ToSet(out)
    <3>1. PICK i \in 1..At(f, n) : e \in g.lines[i].has
      BY <2>2 DEF Bytes
    <3>2. CASE i <= N /\ g.lines[i] = f.lines[i]
      BY <1>1, <3>1, <3>2 DEF Bytes
    <3>3. CASE f.open /\ i = N /\ g.lines[i] = Glued(f.lines[N], Whole(out[1]))
      <4>1. e \in f.lines[N].has \/ e = out[1]
        BY <2>6, <3>1, <3>3
      <4> QED BY <1>1, <2>0, <3>3, <4>1 DEF Bytes, ToSet
    <3>4. CASE \E k \in 1..n : g.lines[i] = Whole(out[k])
      <4>1. PICK k \in 1..n : g.lines[i] = Whole(out[k])
        BY <3>4
      <4>2. e = out[k]
        BY <2>3, <3>1, <4>1
      <4> QED BY <2>0, <4>2 DEF ToSet
    <3> QED BY <2>5, <3>2, <3>3, <3>4
  <2>10. ASSUME NEW k \in 1..n PROVE out[k] \in Bytes(g)
    <3>1. CASE At(f, k) > N
      <4>1. At(f, k) \in 1..At(f, n) /\ g.lines[At(f, k)] = Whole(out[k])
        BY <1>0, <1>1, <2>0, <2>1, <3>1
      <4> QED BY <2>2, <2>3, <4>1 DEF Bytes
    <3>2. CASE ~(At(f, k) > N)
      <4>1. f.open /\ k = 1 /\ N \in 1..At(f, n)
        BY <1>0, <1>1, <2>0, <2>2, <3>2
      <4>2. out[k] \in g.lines[N].has
        BY <2>1, <2>6, <4>1
      <4> QED BY <2>2, <4>1, <4>2 DEF Bytes
    <3> QED BY <3>1, <3>2
  <2>11. ASSUME NEW i \in 1..Len(g.lines), g.lines[i].ok
         PROVE  \/ i <= N /\ g.lines[i] = f.lines[i]
                \/ \E k \in 1..Len(out) : i = At(f, k) /\ i > N /\ g.lines[i] = Whole(out[k])
    BY <2>0, <2>1, <2>5, <2>6, <2>11
  <2>12. ASSUME Clean(f) PROVE Clean(g)
    <3>1. ~f.open /\ \A i \in 1..N : f.lines[i].ok
      BY <2>12 DEF Clean, Damaged
    <3>2. \A i \in 1..At(f, n) : g.lines[i].ok
      BY <2>3, <2>5, <3>1
    <3> QED BY <2>1, <3>2 DEF Clean, Damaged
  <2>13. Extends(g, f, out)
    BY <2>7, <2>8, <2>9, <2>11 DEF Extends
  <2> QED BY <2>10, <2>12, <2>13 DEF g
<1> QED
  BY <1>2, <1>3

\* So does what a torn append can leave.
LEMMA TornExtends ==
    ASSUME NEW f, WellFormed(f), NEW out \in Seq(Event), NEW g \in TornAppends(f, out)
    PROVE  Extends(g, f, out)
<1>1. CASE \E n \in 0..Len(out) : g = Grown(f, out, n)
  BY <1>1, GrownExtends
<1>2. ASSUME NEW n \in 0..(Len(out) - 1), NEW line \in {Fragment, Whole(out[n + 1])},
             g = [lines |-> AddLine(Grown(f, out, n), line), open |-> TRUE]
      PROVE  Extends(g, f, out)
  <2> DEFINE h == Grown(f, out, n)
             N == Len(h.lines)
  <2>1. n \in 0..Len(out) /\ n \in Nat /\ n + 1 \in 1..Len(out) /\ out[n + 1] \in Event
    OBVIOUS
  <2>2. Extends(h, f, out)
    BY <2>1, GrownExtends
  <2>3. WellFormed(h) /\ h.open \in BOOLEAN /\ N \in Nat /\ (h.open => N > 0) /\ DOMAIN h.lines = 1..N
        /\ \A i \in 1..N : h.lines[i] \in Line
    BY <2>2, FileFacts DEF Extends
  <2>4. /\ line \in Line /\ line.has \subseteq {out[n + 1]}
        /\ line.ok => line = Whole(out[n + 1])
    BY <2>1, LineTypes
  <2>5. /\ g.lines \in Seq(Line) /\ g.open = TRUE
        /\ h.open => /\ Len(g.lines) = N /\ g.lines[N] = Glued(h.lines[N], line)
                     /\ \A i \in 1..(N - 1) : g.lines[i] = h.lines[i]
        /\ ~h.open => /\ Len(g.lines) = N + 1 /\ g.lines[N + 1] = line
                      /\ \A i \in 1..N : g.lines[i] = h.lines[i]
    <3> DEFINE a == AddLine(h, line)
    <3>1. /\ a \in Seq(Line)
          /\ h.open => /\ Len(a) = N /\ a[N] = Glued(h.lines[N], line)
                       /\ \A i \in 1..(N - 1) : a[i] = h.lines[i]
          /\ ~h.open => /\ Len(a) = N + 1 /\ a[N + 1] = line
                        /\ \A i \in 1..N : a[i] = h.lines[i]
      <4> HIDE DEF h
      <4> QED BY <2>3, <2>4, Adding
    <3>2. g = [lines |-> a, open |-> TRUE]
      BY <1>2
    <3> HIDE DEF a, h
    <3>3. g.lines = a /\ g.open = TRUE
      BY <3>2
    <3> QED BY <3>1, <3>3
  <2>6. ~h.open => N + 1 = At(f, n + 1) /\ N + 1 > Len(f.lines)
    <3>1. Shift(f) \in 0..1 /\ (f.open <=> Shift(f) = 1) /\ Len(f.lines) \in Nat
      BY Shifts
    <3>2. CASE n = 0
      BY <2>1, <3>1, <3>2 DEF Grown, At
    <3>3. CASE n # 0
      <4>1. n \in 1..Len(out)
        BY <2>1, <3>3
      <4>2. N = At(f, n)
        BY <4>1, GrownLines
      <4> HIDE DEF N
      <4>3. N = Len(f.lines) + n - Shift(f) /\ At(f, n + 1) = Len(f.lines) + (n + 1) - Shift(f)
        BY <4>2 DEF At
      <4>4. \A L, m \in Nat, x \in 0..1 : m # 0 =>
                (L + m - x) + 1 = L + (m + 1) - x /\ (L + m - x) + 1 > L
        OBVIOUS
      <4>5. N + 1 = (Len(f.lines) + n - Shift(f)) + 1
        BY <4>3
      <4>6. (Len(f.lines) + n - Shift(f)) + 1 = Len(f.lines) + (n + 1) - Shift(f)
            /\ (Len(f.lines) + n - Shift(f)) + 1 > Len(f.lines)
        <5> HIDE DEF Shift
        <5> QED BY <2>1, <3>1, <3>3, <4>4
      <4> HIDE DEF At, Shift
      <4> QED BY <4>3, <4>5, <4>6
    <3> QED BY <3>2, <3>3
  <2>7. g \in File /\ DOMAIN g.lines = 1..Len(g.lines) /\ Len(g.lines) >= N /\ Len(g.lines) > 0
    BY <1>2, <2>3, <2>5 DEF File
  <2>8. h.open => /\ ~g.lines[N].ok /\ g.lines[N].has = h.lines[N].has \cup line.has
    BY <2>3, <2>4, <2>5, LineTypes
  <2>9. ASSUME NEW i \in 1..Len(g.lines)
        PROVE  \/ i <= N /\ g.lines[i] = h.lines[i]
               \/ h.open /\ i = N
               \/ ~h.open /\ i = N + 1 /\ g.lines[i] = line
    <3> HIDE DEF h
    <3>1. i \in Nat /\ 1 <= i /\ i <= Len(g.lines) /\ N \in Nat
      BY <2>3, <2>5
    <3> HIDE DEF N
    <3>2. CASE h.open
      BY <2>5, <3>1, <3>2
    <3>3. CASE ~h.open
      BY <2>5, <3>1, <3>3
    <3> QED BY <3>2, <3>3
  <2> HIDE DEF h
  <2>10. \A i \in 1..N : h.lines[i].ok => \E e \in Event : h.lines[i] = Whole(e)
    BY <2>3 DEF WellFormed
  <2>11. WellFormed(g)
    <3>1. ASSUME NEW i \in DOMAIN g.lines, g.lines[i].ok PROVE \E e \in Event : g.lines[i] = Whole(e)
      BY <2>1, <2>3, <2>4, <2>7, <2>8, <2>9, <2>10, <3>1
    <3>2. g.lines # <<>>
      BY <2>5, <2>7
    <3> QED BY <2>7, <3>1, <3>2 DEF WellFormed
  <2>12. ASSUME NEW e \in Bytes(h) PROVE e \in Bytes(g)
    <3>1. PICK i \in 1..N : e \in h.lines[i].has
      BY <2>3 DEF Bytes
    <3>2. i \in DOMAIN g.lines /\ e \in g.lines[i].has
      BY <2>3, <2>5, <2>7, <2>8, <3>1
    <3> QED BY <3>2 DEF Bytes
  <2>13. ASSUME NEW e \in Bytes(g) PROVE e \in Bytes(h) \cup ToSet(out)
    <3>1. PICK i \in 1..Len(g.lines) : e \in g.lines[i].has
      BY <2>7 DEF Bytes
    <3>2. e \in line.has => e \in ToSet(out)
      BY <2>1, <2>4 DEF ToSet
    <3>3. CASE i <= N /\ g.lines[i] = h.lines[i]
      BY <2>3, <3>1, <3>3 DEF Bytes
    <3>4. CASE h.open /\ i = N
      <4>1. e \in h.lines[N].has \/ e \in line.has
        BY <2>8, <3>1, <3>4
      <4> QED BY <2>3, <3>2, <3>4, <4>1 DEF Bytes
    <3>5. CASE g.lines[i] = line
      BY <3>1, <3>2, <3>5
    <3> QED BY <2>9, <3>3, <3>4, <3>5
  <2>14. Bytes(f) \subseteq Bytes(g) /\ Bytes(g) \subseteq Bytes(f) \cup ToSet(out)
    BY <2>2, <2>12, <2>13 DEF Extends
  <2>15. ASSUME NEW i \in 1..Len(g.lines), g.lines[i].ok
         PROVE  \/ i <= Len(f.lines) /\ g.lines[i] = f.lines[i]
                \/ \E k \in 1..Len(out) : i = At(f, k) /\ i > Len(f.lines) /\ g.lines[i] = Whole(out[k])
    <3>1. CASE i <= N /\ g.lines[i] = h.lines[i]
      <4>1. i \in 1..N /\ h.lines[i].ok
        BY <2>3, <2>15, <3>1
      <4>2. \/ i <= Len(f.lines) /\ h.lines[i] = f.lines[i]
            \/ \E k \in 1..Len(out) : i = At(f, k) /\ i > Len(f.lines) /\ h.lines[i] = Whole(out[k])
        BY <2>2, <4>1 DEF Extends
      <4> QED BY <3>1, <4>2
    <3>2. CASE h.open /\ i = N
      BY <2>8, <2>15, <3>2
    <3>3. CASE ~h.open /\ i = N + 1 /\ g.lines[i] = line
      BY <2>1, <2>4, <2>6, <2>15, <3>3
    <3> QED BY <2>9, <3>1, <3>2, <3>3
  <2> QED BY <2>11, <2>14, <2>15 DEF Extends
<1> QED
  BY <1>1, <1>2 DEF TornAppends

\* Dropping a torn tail, or all malformed lines, keeps every readable line; what else
\* the file had is in the tail, or in the malformed lines.
LEMMA RepairedFile ==
    ASSUME NEW f, WellFormed(f)
    PROVE  /\ WellFormed(Repaired(f)) /\ Readable(Repaired(f)) = Readable(f)
           /\ Bytes(Repaired(f)) \subseteq Bytes(f) /\ Quarantined(f) \subseteq Bytes(f)
           /\ Bytes(f) = Bytes(Repaired(f)) \cup Quarantined(f)
           /\ Repaired(f) = f => Quarantined(f) = {}
           /\ ~Damaged(f) => Repaired(f) = f
           /\ \A e : Single(f, e) => Single(Repaired(f), e)
<1> DEFINE N == Len(f.lines)
           g == Repaired(f)
<1>1. f.lines \in Seq(Line) /\ f.open \in BOOLEAN /\ N \in Nat /\ (f.open => N > 0) /\ DOMAIN f.lines = 1..N
      /\ \A i \in 1..N : f.lines[i] \in Line
  BY FileFacts
<1>2. CASE ~TruncatedTail(f)
  BY <1>2 DEF Repaired, Quarantined
<1>3. CASE TruncatedTail(f)
  <2>1. f.open /\ ~f.lines[N].ok /\ N \in 1..N /\ g.lines = SubSeq(f.lines, 1, N - 1) /\ g.open = FALSE
        /\ Quarantined(f) = f.lines[N].has /\ g = [lines |-> g.lines, open |-> FALSE]
    <3>1. f.open /\ ~f.lines[N].ok /\ N \in 1..N
      BY <1>1, <1>3 DEF TruncatedTail, Last
    <3>2. g = [lines |-> SubSeq(f.lines, 1, N - 1), open |-> FALSE]
      BY <1>3 DEF Repaired, Front
    <3>3. Quarantined(f) = f.lines[N].has
      BY <1>3 DEF Quarantined, Last
    <3> HIDE DEF g
    <3> QED BY <3>1, <3>2, <3>3
  <2>2. g.lines \in Seq(Line) /\ Len(g.lines) = N - 1 /\ DOMAIN g.lines = 1..(N - 1)
        /\ \A i \in 1..(N - 1) : g.lines[i] = f.lines[i]
    BY <1>1, <2>1, SubSeqProperties
  <2> HIDE DEF g
  <2>3. WellFormed(g)
    <3>1. g \in File /\ ~g.open
      BY <2>1, <2>2 DEF File
    <3>2. \A i \in 1..(N - 1) : i \in DOMAIN f.lines
      BY <1>1
    <3> QED BY <2>2, <3>1, <3>2 DEF WellFormed
  <2>4. \A i \in 1..N : i \in 1..(N - 1) \/ i = N
    BY <1>1
  <2>5. 1..(N - 1) \subseteq 1..N
    BY <1>1
  <2>6. Readable(g) = Readable(f)
    <3>1. ASSUME NEW e \in Readable(g) PROVE e \in Readable(f)
      <4>1. PICK i \in 1..(N - 1) : g.lines[i].ok /\ e \in g.lines[i].has
        BY <2>2 DEF Readable
      <4> QED BY <2>2, <2>5, <4>1 DEF Readable
    <3>2. ASSUME NEW e \in Readable(f) PROVE e \in Readable(g)
      <4>1. PICK i \in 1..N : f.lines[i].ok /\ e \in f.lines[i].has
        BY DEF Readable
      <4>2. i \in 1..(N - 1)
        BY <2>1, <2>4, <4>1
      <4> QED BY <2>2, <4>1, <4>2 DEF Readable
    <3> QED BY <3>1, <3>2
  <2>7. Bytes(f) = Bytes(g) \cup Quarantined(f)
    <3>1. ASSUME NEW e \in Bytes(g) PROVE e \in Bytes(f)
      BY <1>1, <2>2, <2>5 DEF Bytes
    <3>2. ASSUME NEW e \in Quarantined(f) PROVE e \in Bytes(f)
      BY <1>1, <2>1 DEF Bytes
    <3>3. ASSUME NEW e \in Bytes(f) PROVE e \in Bytes(g) \cup Quarantined(f)
      <4>1. PICK i \in 1..N : e \in f.lines[i].has
        BY <1>1 DEF Bytes
      <4>2. CASE i = N
        BY <2>1, <4>1, <4>2
      <4>3. CASE i \in 1..(N - 1)
        BY <2>2, <4>1, <4>3 DEF Bytes
      <4> QED BY <2>4, <4>2, <4>3
    <3> QED BY <3>1, <3>2, <3>3
  <2>8. g # f
    BY <2>1
  <2>9. Damaged(f)
    BY <2>1 DEF Damaged
  <2>10. ASSUME NEW e, Single(f, e) PROVE Single(g, e)
    BY <1>1, <2>2, <2>5, <2>10 DEF Single
  <2> QED BY <2>3, <2>6, <2>7, <2>8, <2>9, <2>10 DEF g
<1> QED
  BY <1>2, <1>3

LEMMA CandidateFile ==
    ASSUME NEW f, WellFormed(f)
    PROVE  /\ WellFormed(Candidate(f)) /\ Clean(Candidate(f))
           /\ Readable(Candidate(f)) = Readable(f) /\ Bytes(Candidate(f)) = Readable(f)
           /\ Candidate(f).open = FALSE
           /\ \A e : Single(f, e) => Single(Candidate(f), e)
<1> DEFINE good == {i \in DOMAIN f.lines : f.lines[i].ok}
           g == Candidate(f)
           N == Cardinality(good)
<1>1. f.lines \in Seq(Line) /\ DOMAIN f.lines = 1..Len(f.lines)
  BY FileFacts
<1>2. g.lines = Picked(f.lines, good) /\ g.open = FALSE /\ g = [lines |-> g.lines, open |-> FALSE]
  BY DEF Candidate
<1>0. good \in SUBSET DOMAIN f.lines
  OBVIOUS
<1>a. \A i \in good : f.lines[i].ok
  OBVIOUS
<1>b. \A i \in DOMAIN f.lines : f.lines[i].ok => i \in good
  OBVIOUS
<1> HIDE DEF good
<1>3. g.lines \in Seq(Line)
  BY <1>0, <1>1, <1>2, Picking
<1>c. \E pos \in [1..Cardinality(good) -> good] :
          /\ Len(Picked(f.lines, good)) = Cardinality(good)
          /\ \A n \in 1..Cardinality(good) : Picked(f.lines, good)[n] = f.lines[pos[n]]
          /\ \A m, n \in 1..Cardinality(good) : pos[m] = pos[n] => m = n
          /\ \A i \in good : \E n \in 1..Cardinality(good) : pos[n] = i
  <2> DEFINE s == f.lines
  <2>1. s \in Seq(Line) /\ good \in SUBSET DOMAIN s
    BY <1>0, <1>1
  <2> HIDE DEF s
  <2>2. \E pos \in [1..Cardinality(good) -> good] :
          /\ Len(Picked(s, good)) = Cardinality(good)
          /\ \A n \in 1..Cardinality(good) : Picked(s, good)[n] = s[pos[n]]
          /\ \A m, n \in 1..Cardinality(good) : pos[m] = pos[n] => m = n
          /\ \A i \in good : \E n \in 1..Cardinality(good) : pos[n] = i
    BY <2>1, Picking, SMTT(120)
  <2> QED BY <2>2 DEF s
<1>4. PICK pos \in [1..N -> good] :
          /\ Len(Picked(f.lines, good)) = N
          /\ \A n \in 1..N : Picked(f.lines, good)[n] = f.lines[pos[n]]
          /\ \A m, n \in 1..N : pos[m] = pos[n] => m = n
          /\ \A i \in good : \E n \in 1..N : pos[n] = i
  BY <1>c
<1>5. Len(g.lines) = N /\ DOMAIN g.lines = 1..N /\ \A n \in 1..N : g.lines[n] = f.lines[pos[n]] /\ pos[n] \in good
  <2> HIDE DEF g
  <2>1. DOMAIN g.lines = 1..Len(g.lines)
    BY <1>3
  <2> QED BY <1>2, <1>4, <2>1
<1> HIDE DEF g
<1>6. \A n \in 1..N : g.lines[n].ok /\ \E e \in Event : g.lines[n] = Whole(e)
  BY <1>0, <1>a, <1>5 DEF WellFormed
<1>7. WellFormed(g) /\ Clean(g)
  BY <1>2, <1>3, <1>5, <1>6 DEF WellFormed, File, Clean, Damaged
<1>8. Readable(g) = Readable(f)
  <2>1. ASSUME NEW e \in Readable(g) PROVE e \in Readable(f)
    <3>1. PICK n \in 1..N : e \in g.lines[n].has
      BY <1>5 DEF Readable
    <3>2. pos[n] \in 1..Len(f.lines) /\ f.lines[pos[n]].ok /\ e \in f.lines[pos[n]].has
      BY <1>0, <1>1, <1>a, <1>5, <3>1
    <3> QED BY <3>2 DEF Readable
  <2>2. ASSUME NEW e \in Readable(f) PROVE e \in Readable(g)
    <3>1. PICK i \in good : e \in f.lines[i].has
      BY <1>1, <1>b DEF Readable
    <3>2. PICK n \in 1..N : pos[n] = i
      BY <1>4
    <3>3. n \in 1..Len(g.lines) /\ g.lines[n].ok /\ e \in g.lines[n].has
      BY <1>5, <1>6, <3>1, <3>2
    <3> QED BY <3>3 DEF Readable
  <2> QED BY <2>1, <2>2
<1>9. ASSUME NEW e, Single(f, e) PROVE Single(g, e)
  BY <1>0, <1>4, <1>5, <1>9 DEF Single
<1>10. Bytes(g) = Readable(g)
  BY <1>7, BytesSplit DEF Clean
<1> QED
  BY <1>2, <1>7, <1>8, <1>9, <1>10 DEF g

LEMMA LeastNumber == ASSUME NEW T \in SUBSET Nat, T # {} PROVE \E x \in T : \A y \in T : x <= y
<1> DEFINE R == OpToRel(<, Nat)
<1>1. IsWellFoundedOn(R, Nat)
  BY NatLessThanWellFounded
<1> HIDE DEF R
<1>2. PICK x \in T : \A y \in T : ~(<<y, x>> \in R)
  BY <1>1, WFMin
<1>3. \A y \in T : ~(y < x)
  BY <1>2 DEF R, OpToRel
<1> QED
  BY <1>3

\* The replay of a backlog has its unkeyed lines, and each key that is not committed
\* once.
LEMMA Replay ==
    ASSUME NEW b \in Seq(Event), NEW committed
    PROVE  LET r == Replayable(b, committed)
           IN  /\ r \in Seq(Event) /\ ToSet(r) \subseteq ToSet(b)
               /\ ToSet(b) \subseteq ToSet(r) \cup committed
               /\ \A m, n \in DOMAIN r : /\ r[m] \in Keyed => r[m] \notin committed
                                         /\ r[m] \in Keyed /\ r[m] = r[n] => m = n
               /\ \A e : (\A i, j \in DOMAIN b : b[i] = e /\ b[j] = e => i = j) =>
                             \A m, n \in DOMAIN r : r[m] = e /\ r[n] = e => m = n
<1> DEFINE keep == {i \in DOMAIN b : \/ b[i] \in Plain
                                     \/ b[i] \notin committed /\ \A j \in 1..(i - 1) : b[j] # b[i]}
           r == Replayable(b, committed)
           N == Cardinality(keep)
<1>1. r = Picked(b, keep)
  BY DEF Replayable
<1>0. keep \in SUBSET DOMAIN b
  OBVIOUS
<1>a. \A i \in keep : \/ b[i] \in Plain
                      \/ b[i] \notin committed /\ \A j \in 1..(i - 1) : b[j] # b[i]
  OBVIOUS
<1>b. \A i \in DOMAIN b : b[i] \notin committed /\ (\A j \in 1..(i - 1) : b[j] # b[i]) => i \in keep
  OBVIOUS
<1> HIDE DEF keep
<1>2. r \in Seq(Event)
  BY <1>0, <1>1, Picking
<1>c. \E pos \in [1..Cardinality(keep) -> keep] :
          /\ Len(Picked(b, keep)) = Cardinality(keep)
          /\ \A n \in 1..Cardinality(keep) : Picked(b, keep)[n] = b[pos[n]]
          /\ \A m, n \in 1..Cardinality(keep) : pos[m] = pos[n] => m = n
          /\ \A i \in keep : \E n \in 1..Cardinality(keep) : pos[n] = i
  <2> HIDE DEF r
  <2> QED BY <1>0, Picking
<1>3. PICK pos \in [1..N -> keep] :
          /\ Len(Picked(b, keep)) = N
          /\ \A n \in 1..N : Picked(b, keep)[n] = b[pos[n]]
          /\ \A m, n \in 1..N : pos[m] = pos[n] => m = n
          /\ \A i \in keep : \E n \in 1..N : pos[n] = i
  BY <1>c
<1>d. Len(r) = N /\ \A n \in 1..N : r[n] = b[pos[n]]
  BY <1>1, <1>3
<1>4. DOMAIN r = 1..N /\ DOMAIN b = 1..Len(b) /\ Len(b) \in Nat /\ keep \subseteq 1..Len(b)
      /\ \A n \in 1..N : pos[n] \in keep
  <2> HIDE DEF r
  <2>1. DOMAIN r = 1..Len(r) /\ DOMAIN b = 1..Len(b) /\ Len(b) \in Nat
    BY <1>2
  <2> QED BY <1>0, <1>3, <1>d, <2>1
<1> HIDE DEF r
<1>5. ToSet(r) \subseteq ToSet(b)
  <2>1. ASSUME NEW e \in ToSet(r) PROVE e \in ToSet(b)
    <3>1. PICK n \in 1..N : r[n] = e
      BY <1>4 DEF ToSet
    <3>2. pos[n] \in 1..Len(b) /\ b[pos[n]] = e
      BY <1>d, <1>4, <3>1
    <3> QED BY <1>4, <3>2 DEF ToSet
  <2> QED BY <2>1
<1>6. ASSUME NEW e \in ToSet(b), e \notin committed PROVE e \in ToSet(r)
  <2> DEFINE T == {i \in 1..Len(b) : b[i] = e}
  <2>1. T # {} /\ T \in SUBSET Nat
    BY <1>4 DEF ToSet
  <2>2. PICK i \in T : \A j \in T : i <= j
    BY <2>1, LeastNumber
  <2>3. \A j \in 1..(i - 1) : b[j] # b[i]
    BY <1>4, <2>2
  <2>4. i \in keep
    BY <1>4, <1>6, <1>b, <2>3
  <2>5. PICK n \in 1..N : pos[n] = i
    BY <1>3, <2>4
  <2>6. r[n] = e
    BY <1>d, <2>2, <2>5
  <2> QED BY <1>4, <2>6 DEF ToSet
<1>7. ASSUME NEW m \in 1..N, NEW n \in 1..N, r[m] \in Keyed
      PROVE  r[m] \notin committed /\ (r[m] = r[n] => m = n)
  <2>1. b[pos[m]] \notin Plain /\ pos[m] \in keep /\ pos[n] \in keep
    BY <1>d, <1>4, <1>7, AuditConstants
  <2>2. b[pos[m]] \notin committed /\ \A j \in 1..(pos[m] - 1) : b[j] # b[pos[m]]
    BY <1>a, <2>1
  <2>3. ASSUME r[m] = r[n] PROVE m = n
    <3>1. b[pos[n]] = b[pos[m]]
      BY <1>d, <2>3
    <3>2. \A j \in 1..(pos[n] - 1) : b[j] # b[pos[n]]
      BY <1>a, <2>1, <3>1
    <3>3. pos[m] \in Nat \ {0} /\ pos[n] \in Nat \ {0}
      <4>1. \A i \in 1..Len(b) : i \in Nat \ {0}
        OBVIOUS
      <4> QED BY <1>4, <2>1, <4>1
    <3>4. ~(pos[m] < pos[n]) /\ ~(pos[n] < pos[m])
      BY <2>2, <3>1, <3>2, <3>3
    <3>5. pos[m] = pos[n]
      BY <3>3, <3>4
    <3> QED BY <1>3, <3>5
  <2> QED BY <1>d, <2>2, <2>3
<1>8. ASSUME NEW e, \A i, j \in DOMAIN b : b[i] = e /\ b[j] = e => i = j,
             NEW m \in 1..N, NEW n \in 1..N, r[m] = e, r[n] = e
      PROVE  m = n
  <2>1. pos[m] \in DOMAIN b /\ pos[n] \in DOMAIN b /\ b[pos[m]] = e /\ b[pos[n]] = e
    BY <1>0, <1>d, <1>4, <1>8
  <2>2. pos[m] = pos[n]
    BY <1>8, <2>1
  <2> QED BY <1>3, <2>2
<1> QED
  BY <1>2, <1>4, <1>5, <1>6, <1>7, <1>8 DEF r

-----------------------------------------------------------------------------
(* Who may touch which file, and which steps do *)

LEMMA Texts ==
    /\ Text(None) = Empty
    /\ \A f : f # None => Text(f) = f
    /\ \A f : WellFormed(f) => f # None
  BY AuditAbsent DEF Text, WellFormed

\* The log and the spool are worked on by one writer at a time, and by none while the
\* operator's command has its locks.
Working == OnLog \cup OnSpool
LEMMA Exclusive ==
    ASSUME Locked
    PROVE  /\ \A v, w \in Writer : pc[v] \in Working /\ pc[w] \in Working => v = w
           /\ op \in Repairing \/ degradedLock = None => \A w \in Writer : pc[w] \notin Working
<1>1. \A w \in Writer : pc[w] \in Working => degradedLock = w
  BY DEF Locked, Working
<1>2. \A w \in Writer : w # None
  BY AuditConstants
<1>3. op \in Repairing => degradedLock = Operator /\ pc[Operator] \notin Working
  BY DEF Locked, Working, OnLog, OnSpool
<1> QED
  BY <1>1, <1>2, <1>3

LEMMA DurableIs ==
    ASSUME Locked
    PROVE  /\ \A w \in Writer : pc[w] = "fsync" => Durable = job[w].base
           /\ (\A w \in Writer : pc[w] # "fsync") => Durable = Text(active)
<1>1. \A v, w \in Writer : pc[v] = "fsync" /\ pc[w] = "fsync" => v = w
  BY Exclusive DEF Working, OnLog
<1>2. ASSUME NEW w \in Writer, pc[w] = "fsync" PROVE Durable = job[w].base
  <2>1. (CHOOSE v \in Writer : pc[v] = "fsync") = w
    BY <1>1, <1>2
  <2> QED BY <1>2, <2>1 DEF Durable
<1> QED
  BY <1>2 DEF Durable

LEMMA DurableIsNext ==
    ASSUME Locked'
    PROVE  /\ \A w \in Writer : pc'[w] = "fsync" => Durable' = job'[w].base
           /\ (\A w \in Writer : pc'[w] # "fsync") => Durable' = Text(active')
<1>1. \A w \in Writer : pc'[w] = "fsync" => degradedLock' = w
  BY DEF Locked, OnLog
<1>2. ASSUME NEW w \in Writer, pc'[w] = "fsync" PROVE Durable' = job'[w].base
  <2>1. (CHOOSE v \in Writer : pc'[v] = "fsync") = w
    BY <1>1, <1>2
  <2> QED BY <1>2, <2>1 DEF Durable
<1> QED
  BY <1>2 DEF Durable, Text

\* A step that neither changes a file nor moves a writer across an append.
Special == {"fsync", "unlink", "spoolsync"}
Calm ==
    /\ UNCHANGED <<files, reported>>
    /\ \A w \in Writer : pc'[w] \in Special => pc'[w] = pc[w] /\ job'[w] = job[w]
    /\ \A w \in Writer : pc[w] = "fsync" => pc'[w] = "fsync"
\* A fault that loses a part of an append.
Tear(w) ==
    /\ pc[w] \in {"fsync", "spoolsync"} /\ LoseTail(w) /\ reported' = reported
    /\ pc'[w] \notin Special
    /\ \A v \in Writer \ {w} : pc'[v] = pc[v] /\ job'[v] = job[v]

LEMMA CalmOperator ==
    ASSUME Typed, Locked, OperatorStep, ~ReplaceTarget, ~PruneStart
    PROVE  Calm
<1>0. pc \in [Writer -> Pc] /\ job \in [Writer -> Job] /\ Operator \in Writer
  BY RepairConstants DEF Typed, RepairTypeOK, TypeOK
<1>1. CASE RecordRepair
  BY <1>0, <1>1 DEF RecordRepair, Call, Goto, Calm, Special
<1>2. CASE OpCrash
  <2>1. pc[Operator] \in {"idle", "dead"} \/ op \in {"idle", "recording"}
    BY <1>2 DEF OpCrash, Locked, Repairing, Typed, RepairTypeOK, OpPc
  <2> QED BY <1>0, <1>2, <2>1 DEF OpCrash, Calm, Special
<1>3. CASE Diagnose \/ RepairStart \/ Resume \/ Backup \/ PrepareReceipt \/ MarkReplaced \/ Recorded
  BY <1>3 DEF Diagnose, RepairStart, Resume, Backup, PrepareReceipt, MarkReplaced, Recorded, Calm, vars
<1>4. CASE CommitReceipt \/ CommitRefused \/ RetainReceipt \/ RetainStage \/ RetainMark
           \/ RetainUnstage \/ RetainDone
  BY <1>4 DEF CommitReceipt, CommitRefused, RetainReceipt, RetainStage, RetainMark, RetainUnstage,
              RetainDone, Calm, vars
<1> QED
  BY <1>1, <1>2, <1>3, <1>4 DEF OperatorStep

LEMMA Classified ==
    ASSUME Typed, Locked, NEW w \in Writer, Proceed(w)
    PROVE  Calm \/ Rotate(w) \/ Write(w) \/ Fsync(w) \/ Unlink(w) \/ Spool(w) \/ Tear(w)
<1>0. pc \in [Writer -> Pc] /\ job \in [Writer -> Job]
  BY DEF Typed, RepairTypeOK, TypeOK
<1>1. CASE TakeAuditLock(w) \/ TakeDegradedLock(w) \/ LockTimeout(w) \/ TakeSpoolLock(w)
           \/ BreakStaleLocks(w)
  BY <1>0, <1>1 DEF TakeAuditLock, TakeDegradedLock, LockTimeout, TakeSpoolLock, BreakStaleLocks, Goto,
                    Calm, Special
<1>2. CASE DropEvent(w) \/ SpoolFsync(w)
  BY <1>0, <1>2 DEF DropEvent, SpoolFsync, Return, Goto, Calm, Special
<1>3. CASE Crash(w)
  BY <1>0, <1>3 DEF Crash, LoseTail, Goto, Calm, Tear, Special, files
<1>4. CASE AppendError(w)
  BY <1>0, <1>4 DEF AppendError, LoseTail, Goto, Calm, Tear, Special, files
<1>5. CASE LateError(w)
  BY <1>0, <1>5 DEF LateError, Return, LoseTail, Goto, Calm, Tear, Special, files
<1> QED
  BY <1>1, <1>2, <1>3, <1>4, <1>5 DEF Proceed

LEMMA CalmCall ==
    ASSUME Typed, NEW w \in Writer, NEW e \in Event, Call(w, e)
    PROVE  Calm
<1>0. pc \in [Writer -> Pc] /\ job \in [Writer -> Job]
  BY DEF Typed, RepairTypeOK, TypeOK
<1> QED
  BY <1>0 DEF Call, Goto, Calm, Special

\* The steps that change a file, or move a writer across an append.
Step(w) == Rotate(w) \/ Write(w) \/ Fsync(w) \/ Unlink(w) \/ Spool(w) \/ Tear(w)
LEMMA Moves ==
    ASSUME Typed, Locked, RepairNext
    PROVE  \/ Calm /\ (OperatorStep \/ UNCHANGED repairVars)
           \/ \E w \in Writer : Step(w) /\ UNCHANGED repairVars
           \/ ReplaceTarget \/ PruneStart
<1>1. CASE OperatorStep
  BY <1>1, CalmOperator
<1>2. CASE UNCHANGED repairVars /\ \E w \in Writer, e \in Event : Call(w, e)
  BY <1>2, CalmCall
<1>3. CASE UNCHANGED repairVars /\ \E w \in Writer : Proceed(w)
  BY <1>3, Classified DEF Step
<1> QED
  BY <1>1, <1>2, <1>3 DEF RepairNext, LogStep

\* Such a step of a writer works under the lock, and leaves the other writers alone.
LEMMA Alone ==
    ASSUME Typed, Locked, NEW w \in Writer, Step(w)
    PROVE  /\ pc[w] \in Working /\ op \notin Repairing
           /\ \A v \in Writer \ {w} : /\ pc'[v] = pc[v] /\ job'[v] = job[v]
                                      /\ pc[v] \notin Special /\ pc'[v] \notin Special
<1>0. pc \in [Writer -> Pc] /\ job \in [Writer -> Job]
  BY DEF Typed, RepairTypeOK, TypeOK
<1>1. pc[w] \in Working
  BY DEF Step, Rotate, Write, Fsync, Unlink, Spool, Tear, Working, OnLog, OnSpool
<1>2. op \notin Repairing /\ \A v \in Writer \ {w} : pc[v] \notin Special
  BY <1>1, Exclusive DEF Working, Special, OnLog, OnSpool
<1>3. ASSUME NEW v \in Writer \ {w} PROVE pc'[v] = pc[v] /\ job'[v] = job[v]
  <2>1. CASE Rotate(w)
    BY <1>0, <2>1 DEF Rotate, Goto
  <2>2. CASE Write(w)
    <3>1. pc' = [pc EXCEPT ![w] = "fsync"] \/ pc' = [pc EXCEPT ![w] = "spool"]
      BY <2>2 DEF Write, Goto
    <3>2. \E out, base, backlog :
              \/ job' = [job EXCEPT ![w].out = out, ![w].base = base, ![w].backlog = backlog]
              \/ job' = job
      BY <2>2 DEF Write
    <3> QED BY <1>0, <3>1, <3>2
  <2>3. CASE Fsync(w) \/ Unlink(w)
    BY <1>0, <2>3 DEF Fsync, Unlink, Return, Goto
  <2>4. CASE Spool(w)
    <3>1. \E out, base : job' = [job EXCEPT ![w].out = out, ![w].base = base]
      BY <2>4 DEF Spool
    <3> QED BY <1>0, <2>4, <3>1 DEF Spool, Goto
  <2>5. CASE Tear(w)
    BY <2>5 DEF Tear
  <2> QED BY <2>1, <2>2, <2>3, <2>4, <2>5 DEF Step
<1> QED
  BY <1>1, <1>2, <1>3

-----------------------------------------------------------------------------
(* Locks *)

LEMMA LockedStep ==
    ASSUME Typed, Locked, RepairNext
    PROVE  Locked'
<1>0. /\ pc \in [Writer -> Pc] /\ Operator \in Writer /\ None \notin Writer
      /\ op \in OpPc
  BY RepairConstants, AuditConstants DEF Typed, RepairTypeOK, TypeOK
<1> DEFINE Kept(w) == \A v \in Writer \ {w} :
                          /\ pc'[v] = pc[v]
                          /\ auditLock = v => auditLock' = v
                          /\ degradedLock = v => degradedLock' = v
\* A writer's step keeps what the others hold; the operator's writer is not working.
<1>1. ASSUME NEW w \in Writer, Kept(w), op' = op,
             op \in Repairing \cup {"record", "commit"} => pc[Operator] = "idle",
             pc[w] # "idle",
             pc'[w] \in OnLog \cup {"degraded"} => auditLock' = w,
             pc'[w] \in OnLog \cup OnSpool => degradedLock' = w
      PROVE  Locked'
  <2>1. op \in Repairing \cup {"record", "commit"} => w # Operator
    BY <1>1
  <2>2. ASSUME NEW v \in Writer
        PROVE  /\ pc'[v] \in OnLog \cup {"degraded"} => auditLock' = v
               /\ pc'[v] \in OnLog \cup OnSpool => degradedLock' = v
    BY <1>1 DEF Locked
  <2>3. op' \in Repairing => auditLock' = Operator /\ degradedLock' = Operator
    BY <1>0, <1>1, <2>1 DEF Locked
  <2>4. op' \in Repairing \cup {"record", "commit"} => pc'[Operator] = "idle"
    BY <1>0, <1>1, <2>1
  <2> QED BY <2>2, <2>3, <2>4 DEF Locked
<1>2. ASSUME NEW w \in Writer, Proceed(w), UNCHANGED repairVars PROVE Locked'
  <2>0. op' = op /\ (op \in Repairing \cup {"record", "commit"} => pc[Operator] = "idle")
    BY <1>2 DEF repairVars, Locked
  <2>1. pc[w] # "idle"
    BY <1>2 DEF Proceed, TakeAuditLock, TakeDegradedLock, LockTimeout, Rotate, Write, Fsync, Unlink,
                TakeSpoolLock, DropEvent, Spool, SpoolFsync, Crash, BreakStaleLocks, AppendError, LateError
  <2> DEFINE Own == /\ pc'[w] \in OnLog \cup {"degraded"} => auditLock' = w
                    /\ pc'[w] \in OnLog \cup OnSpool => degradedLock' = w
  <2>2. Kept(w) /\ Own
    <3>0. /\ pc[w] \in OnLog \cup {"degraded"} => auditLock = w
          /\ pc[w] \in OnLog \cup OnSpool => degradedLock = w
      BY DEF Locked
    <3>1. CASE TakeAuditLock(w)
      BY <1>0, <3>0, <3>1 DEF TakeAuditLock, Goto, OnLog, OnSpool
    <3>2. CASE TakeDegradedLock(w)
      BY <1>0, <3>0, <3>2 DEF TakeDegradedLock, Goto, OnLog, OnSpool
    <3>3. CASE LockTimeout(w)
      BY <1>0, <3>0, <3>3 DEF LockTimeout, Goto, OnLog, OnSpool
    <3>4. CASE Rotate(w)
      BY <1>0, <3>0, <3>4 DEF Rotate, Goto, locks, OnLog, OnSpool
    <3>5. CASE Write(w)
      <4>1. \/ pc' = [pc EXCEPT ![w] = "fsync"] /\ UNCHANGED locks
            \/ pc' = [pc EXCEPT ![w] = "spool"] /\ Release(w)
        BY <3>5 DEF Write, Goto
      <4> QED BY <1>0, <3>0, <3>5, <4>1 DEF Write, Release, locks, OnLog, OnSpool
    <3>6. CASE Fsync(w) \/ Unlink(w)
      BY <1>0, <3>0, <3>6 DEF Fsync, Unlink, Return, Release, Goto, locks, OnLog, OnSpool
    <3>7. CASE TakeSpoolLock(w) \/ DropEvent(w)
      BY <1>0, <3>0, <3>7 DEF TakeSpoolLock, DropEvent, Return, Release, Goto, OnLog, OnSpool
    <3>8. CASE Spool(w)
      BY <1>0, <3>0, <3>8 DEF Spool, Goto, locks, OnLog, OnSpool
    <3>9. CASE SpoolFsync(w) \/ BreakStaleLocks(w)
      BY <1>0, <3>0, <3>9 DEF SpoolFsync, BreakStaleLocks, Return, Release, Goto, OnLog, OnSpool
    <3>10. CASE Crash(w)
      BY <1>0, <3>0, <3>10 DEF Crash, Goto, locks, OnLog, OnSpool
    <3>11. CASE AppendError(w) \/ LateError(w)
      BY <1>0, <3>0, <3>11 DEF AppendError, LateError, Return, Release, Goto, OnLog, OnSpool
    <3> QED BY <1>2, <3>1, <3>2, <3>3, <3>4, <3>5, <3>6, <3>7, <3>8, <3>9, <3>10, <3>11 DEF Proceed
  <2> QED BY <1>1, <2>0, <2>1, <2>2
<1>3. ASSUME NEW w \in Writer, NEW e \in Event, Call(w, e),
             op' \notin Repairing \cup {"record", "commit"} \/ (w # Operator /\ op' = op)
      PROVE  Locked'
  <2>1. pc' = [pc EXCEPT ![w] = "audit"] /\ UNCHANGED locks
    BY <1>3 DEF Call, Goto
  <2> QED BY <1>0, <1>3, <2>1 DEF Locked, locks, OnLog, OnSpool
<1>4. CASE LogStep
  <2>1. ASSUME NEW w \in Writer, NEW e \in Event, w = Operator => op = "idle", Call(w, e), UNCHANGED repairVars
        PROVE  Locked'
    BY <1>3, <2>1 DEF repairVars, Repairing
  <2> QED BY <1>2, <1>4, <2>1 DEF LogStep
<1>5. CASE RecordRepair
  BY <1>0, <1>3, <1>5, RepairConstants DEF RecordRepair, OpGoto, Repairing, Event
<1>6. CASE Diagnose \/ Resume \/ Backup \/ PrepareReceipt \/ ReplaceTarget \/ MarkReplaced
  <2>1. pc' = pc /\ (UNCHANGED locks \/ OpRelease)
        /\ \/ op' = op /\ UNCHANGED locks
           \/ op \in Repairing /\ op' \in Repairing /\ UNCHANGED locks
           \/ op \in Repairing /\ op' \in {"idle", "record"} /\ OpRelease
    BY <1>0, <1>6 DEF Diagnose, Resume, Backup, PrepareReceipt, ReplaceTarget, MarkReplaced, OpGoto, OpEnd,
                      vars, locks, Repairing
  <2>2. op \in Repairing => pc[Operator] = "idle"
    BY DEF Locked
  <2>3. CASE UNCHANGED locks /\ (op' = op \/ (op \in Repairing /\ op' \in Repairing))
    BY <1>0, <2>1, <2>2, <2>3 DEF Locked, locks
  <2>4. CASE op \in Repairing /\ op' \in {"idle", "record"} /\ OpRelease
    <3>1. ASSUME NEW v \in Writer
          PROVE  /\ pc[v] \in OnLog \cup {"degraded"} => auditLock' = v
                 /\ pc[v] \in OnLog \cup OnSpool => degradedLock' = v
      <4>1. pc[v] \in OnLog \cup OnSpool \cup {"degraded"} => v # Operator
        BY <2>2, <2>4 DEF OnLog, OnSpool
      <4>2. (auditLock # Operator => auditLock' = auditLock) /\ (degradedLock # Operator => degradedLock' = degradedLock)
        BY <2>4 DEF OpRelease, Release
      <4> QED BY <4>1, <4>2 DEF Locked
    <3>2. pc' = pc /\ op' \notin Repairing /\ pc'[Operator] = "idle"
      BY <2>1, <2>2, <2>4 DEF Repairing
    <3> QED BY <3>1, <3>2 DEF Locked
  <2> QED BY <2>1, <2>3, <2>4
<1>7. CASE RepairStart \/ PruneStart
  <2>1. pc' = pc /\ pc[Operator] = "idle" /\ auditLock = None /\ degradedLock = None
        /\ \/ op' \in Repairing /\ auditLock' = Operator /\ degradedLock' = Operator
           \/ op' = "idle" /\ UNCHANGED locks
    BY <1>7 DEF RepairStart, PruneStart, TakeLocks, OpGoto, Repairing
  <2>2. \A w \in Writer : pc[w] \notin OnLog \cup OnSpool \cup {"degraded"}
    BY <1>0, <2>1 DEF Locked
  <2> QED BY <1>0, <2>1, <2>2 DEF Locked, locks, Repairing
<1>8. CASE Recorded \/ CommitReceipt \/ CommitRefused
  BY <1>0, <1>8 DEF Recorded, CommitReceipt, CommitRefused, OpGoto, vars, locks, Locked, Repairing
<1>9. CASE RetainReceipt \/ RetainStage \/ RetainMark \/ RetainUnstage
  BY <1>0, <1>9 DEF RetainReceipt, RetainStage, RetainMark, RetainUnstage, vars, locks, Locked, Repairing
<1>10. CASE RetainDone
  <2>1. pc' = pc /\ op = "retain" /\ op' = "idle" /\ OpRelease
    BY <1>10 DEF RetainDone, OpEnd, OpGoto
  <2> QED BY <1>0, <2>1 DEF Locked, OpRelease, Release, OnLog, OnSpool, Repairing
<1>11. CASE OpCrash
  BY <1>0, <1>11 DEF OpCrash, OpGoto, locks, Locked, OnLog, OnSpool, Repairing
<1> QED
  BY <1>4, <1>5, <1>6, <1>7, <1>8, <1>9, <1>10, <1>11 DEF RepairNext, OperatorStep

-----------------------------------------------------------------------------
(* What an append consists of *)

\* The backlog is the readable lines, one event each.
LEMMA BacklogFile ==
    ASSUME NEW f, WellFormed(f), ~Damaged(f)
    PROVE  /\ Backlog(f) \in Seq(Event) /\ Len(Backlog(f)) = Len(f.lines)
           /\ ToSet(Backlog(f)) = Readable(f)
           /\ \A e : Single(f, e) =>
                  \A i, j \in DOMAIN Backlog(f) : Backlog(f)[i] = e /\ Backlog(f)[j] = e => i = j
<1> DEFINE b == Backlog(f)
           N == Len(f.lines)
<1>1. N \in Nat /\ DOMAIN f.lines = 1..N /\ \A i \in 1..N : f.lines[i] \in Line /\ f.lines[i].ok
  BY FileFacts DEF Damaged, Line
<1>2. \A i \in 1..N : \E e \in Event : f.lines[i] = Whole(e)
  BY <1>1 DEF WellFormed
<1>3. ASSUME NEW i \in 1..N PROVE EventOf(f.lines[i]) \in Event /\ f.lines[i] = Whole(EventOf(f.lines[i]))
  <2>1. PICK e \in Event : f.lines[i] = Whole(e)
    BY <1>2
  <2>2. EventOf(f.lines[i]) = e
    BY <2>1 DEF EventOf, Whole
  <2> QED BY <2>1, <2>2
<1>4. b = [i \in 1..N |-> EventOf(f.lines[i])]
  BY DEF Backlog
<1> HIDE DEF b
<1>5. b \in Seq(Event) /\ Len(b) = N /\ DOMAIN b = 1..N
  BY <1>1, <1>3, <1>4
<1>6. \A i \in 1..N : f.lines[i] = Whole(b[i]) /\ b[i] \in Event
  BY <1>3, <1>4
<1>7. ToSet(b) = Readable(f)
  <2>1. ToSet(b) = {b[i] : i \in 1..N}
    BY <1>5 DEF ToSet
  <2>2. ASSUME NEW i \in 1..N PROVE b[i] \in Readable(f)
    BY <1>6, BytesSplit
  <2>3. ASSUME NEW e \in Readable(f) PROVE \E i \in 1..N : b[i] = e
    <3>1. PICK i \in 1..N : f.lines[i] = Whole(e)
      BY BytesSplit
    <3>2. Whole(b[i]).has = Whole(e).has
      BY <1>6, <3>1
    <3> QED BY <3>2 DEF Whole
  <2> QED BY <2>1, <2>2, <2>3
<1>8. ASSUME NEW e, Single(f, e), NEW i \in 1..N, NEW j \in 1..N, b[i] = e, b[j] = e PROVE i = j
  BY <1>1, <1>6, <1>8 DEF Single
<1> QED
  BY <1>5, <1>7, <1>8 DEF b

\* An append writes the backlog and its own event, except the keys that are committed,
\* and writes each key once.
Outgoes(out, b, e, committed) ==
    /\ out \in Seq(Event)
    /\ ToSet(out) \subseteq ToSet(b) \cup {e}
    /\ ToSet(b) \cup {e} \subseteq ToSet(out) \cup committed
    /\ \A k \in Keyed : \A m, n \in DOMAIN out :
           out[m] = k => k \notin committed /\ (out[n] = k => m = n)
    /\ \A p : (\A i, j \in DOMAIN b : b[i] = p /\ b[j] = p => i = j) /\ (p = e => p \notin ToSet(b)) =>
           \A m, n \in DOMAIN out : out[m] = p /\ out[n] = p => m = n
LEMMA Outgoings ==
    ASSUME NEW b \in Seq(Event), NEW e \in Event, NEW committed
    PROVE  Outgoes(Outgoing(e, b, committed), b, e, committed)
<1> DEFINE r == Replayable(b, committed)
           t == IF e \in Keyed /\ e \in committed \cup ToSet(b) THEN <<>> ELSE <<e>>
           out == Outgoing(e, b, committed)
           M == Len(r)
<1>1. out = r \o t
  BY DEF Outgoing
<1>2. /\ r \in Seq(Event) /\ ToSet(r) \subseteq ToSet(b)
      /\ ToSet(b) \subseteq ToSet(r) \cup committed
      /\ \A m, n \in DOMAIN r : /\ r[m] \in Keyed => r[m] \notin committed
                                /\ r[m] \in Keyed /\ r[m] = r[n] => m = n
      /\ \A p : (\A i, j \in DOMAIN b : b[i] = p /\ b[j] = p => i = j) =>
                    \A m, n \in DOMAIN r : r[m] = p /\ r[n] = p => m = n
  BY Replay
<1>3. /\ t \in Seq(Event)
      /\ t = <<>> => Len(t) = 0 /\ e \in Keyed /\ e \in committed \cup ToSet(b)
      /\ t # <<>> => Len(t) = 1 /\ t[1] = e /\ (e \in Keyed => e \notin committed \cup ToSet(b))
  OBVIOUS
<1> HIDE DEF r, t, out
<1>4. DOMAIN r = 1..M /\ M \in Nat /\ \A i \in 1..M : r[i] \in ToSet(r)
  BY <1>2 DEF ToSet
<1>5. /\ out \in Seq(Event) /\ Len(out) = M + Len(t) /\ DOMAIN out = 1..Len(out)
      /\ \A i \in 1..M : out[i] = r[i]
      /\ \A i \in 1..Len(t) : out[M + i] = t[i]
  BY <1>1, <1>2, <1>3, Joining
<1>6. /\ 1..M \subseteq DOMAIN out
      /\ \A i \in DOMAIN out : i \in 1..M \/ (t # <<>> /\ i = M + 1)
      /\ t # <<>> => M + 1 \in DOMAIN out /\ out[M + 1] = e
  <2> HIDE DEF M
  <2>1. CASE t = <<>>
    BY <1>3, <1>4, <1>5, <2>1
  <2>2. CASE t # <<>>
    <3>1. Len(t) = 1 /\ t[1] = e
      BY <1>3, <2>2
    <3>2. Len(out) = M + 1 /\ DOMAIN out = 1..(M + 1) /\ out[M + 1] = e
      BY <1>5, <3>1
    <3>3. M \in Nat
      BY <1>4
    <3> QED BY <2>2, <3>2, <3>3
  <2> QED BY <2>1, <2>2
<1>7. ToSet(out) \subseteq ToSet(b) \cup {e}
  <2>1. ASSUME NEW x \in ToSet(out) PROVE x \in ToSet(b) \cup {e}
    <3>1. PICK i \in DOMAIN out : out[i] = x
      BY DEF ToSet
    <3>2. CASE i \in 1..M
      BY <1>2, <1>4, <1>5, <3>1, <3>2
    <3>3. CASE t # <<>> /\ i = M + 1
      BY <1>6, <3>1, <3>3
    <3> QED BY <1>6, <3>2, <3>3
  <2> QED BY <2>1
<1>8. ToSet(b) \cup {e} \subseteq ToSet(out) \cup committed
  <2>1. ToSet(r) \subseteq ToSet(out)
    BY <1>4, <1>5, <1>6 DEF ToSet
  <2>2. t # <<>> => e \in ToSet(out)
    BY <1>6 DEF ToSet
  <2>3. t = <<>> => e \in ToSet(b) \cup committed
    BY <1>3
  <2> QED BY <1>2, <2>1, <2>2, <2>3
<1>9. ASSUME NEW k \in Keyed, NEW m \in DOMAIN out, NEW n \in DOMAIN out, out[m] = k
      PROVE  k \notin committed /\ (out[n] = k => m = n)
  <2>1. CASE m \in 1..M
    <3>1. r[m] = k /\ k \in ToSet(r) /\ k \in ToSet(b)
      BY <1>2, <1>4, <1>5, <1>9, <2>1
    <3>2. k \notin committed
      BY <1>2, <1>4, <2>1, <3>1
    <3>3. ASSUME out[n] = k PROVE m = n
      <4>1. n \in 1..M
        BY <1>3, <1>6, <3>1, <3>3
      <4>2. r[n] = k
        BY <1>5, <3>3, <4>1
      <4> QED BY <1>2, <1>4, <2>1, <3>1, <4>1, <4>2
    <3> QED BY <3>2, <3>3
  <2>2. CASE t # <<>> /\ m = M + 1
    <3>1. k = e /\ e \notin committed \cup ToSet(b)
      BY <1>3, <1>6, <1>9, <2>2
    <3>2. ASSUME n \in 1..M PROVE out[n] # k
      BY <1>2, <1>4, <1>5, <3>1, <3>2
    <3> QED BY <1>6, <2>2, <3>1, <3>2
  <2> QED BY <1>6, <2>1, <2>2
<1>10. ASSUME NEW p, \A i, j \in DOMAIN b : b[i] = p /\ b[j] = p => i = j, p = e => p \notin ToSet(b),
              NEW m \in DOMAIN out, NEW n \in DOMAIN out, out[m] = p, out[n] = p
       PROVE  m = n
  <2>1. \A i \in 1..M : out[i] = p => p \in ToSet(b) /\ r[i] = p
    BY <1>2, <1>4, <1>5
  <2>2. CASE m \in 1..M
    <3>1. p # e /\ r[m] = p
      BY <1>10, <2>1, <2>2
    <3>2. n \in 1..M
      BY <1>6, <1>10, <3>1
    <3>3. r[n] = p
      BY <1>10, <2>1, <3>2
    <3> QED BY <1>2, <1>4, <1>10, <2>2, <3>1, <3>2, <3>3
  <2>3. CASE t # <<>> /\ m = M + 1
    <3>1. p = e
      BY <1>6, <1>10, <2>3
    <3>2. n \notin 1..M
      BY <1>10, <2>1, <3>1
    <3> QED BY <1>6, <2>3, <3>2
  <2> QED BY <1>6, <2>2, <2>3
<1> QED
  BY <1>5, <1>7, <1>8, <1>9, <1>10 DEF out, Outgoes

-----------------------------------------------------------------------------
(* What the steps do to the files *)

\* An event of a file that was extended was there before, or is of the append.
LEMMA ReadableExtends ==
    ASSUME NEW f, WellFormed(f), NEW out \in Seq(Event), NEW g, Extends(g, f, out)
    PROVE  Readable(g) \subseteq Readable(f) \cup ToSet(out)
<1>1. ASSUME NEW e \in Readable(g) PROVE e \in Readable(f) \cup ToSet(out)
  <2>0. WellFormed(g) /\ Len(g.lines) \in Nat /\ Len(f.lines) \in Nat
    BY FileFacts DEF Extends
  <2>1. PICK i \in 1..Len(g.lines) : g.lines[i] = Whole(e) /\ e \in Event
    BY <1>1, <2>0, BytesSplit
  <2>2. g.lines[i].ok
    BY <2>1 DEF Whole
  <2>3. CASE i <= Len(f.lines) /\ g.lines[i] = f.lines[i]
    <3>1. i \in 1..Len(f.lines) /\ f.lines[i] = Whole(e)
      BY <2>0, <2>1, <2>3
    <3> QED BY <2>1, <3>1, BytesSplit
  <2>4. CASE \E k \in 1..Len(out) : g.lines[i] = Whole(out[k])
    <3>1. PICK k \in 1..Len(out) : Whole(out[k]) = Whole(e)
      BY <2>1, <2>4
    <3>2. out[k] = e
      BY <3>1 DEF Whole
    <3> QED BY <3>2 DEF ToSet
  <2> QED BY <2>2, <2>3, <2>4 DEF Extends
<1> QED
  BY <1>1

\* An append of an event that neither the file nor the rest of the append has.
LEMMA SingleExtends ==
    ASSUME NEW f, WellFormed(f), NEW out \in Seq(Event), NEW g, Extends(g, f, out),
           NEW e \in Event, Single(f, e),
           \A m, n \in DOMAIN out : out[m] = e => e \notin Readable(f) /\ (out[n] = e => m = n)
    PROVE  Single(g, e)
<1>1. WellFormed(g) /\ DOMAIN g.lines = 1..Len(g.lines) /\ DOMAIN f.lines = 1..Len(f.lines)
      /\ Len(g.lines) \in Nat /\ Len(f.lines) \in Nat /\ DOMAIN out = 1..Len(out)
  BY FileFacts DEF Extends
<1> DEFINE Old(i) == i \in 1..Len(f.lines) /\ f.lines[i] = Whole(e)
           New(i) == \E k \in 1..Len(out) : i = At(f, k) /\ out[k] = e
<1>2. ASSUME NEW i \in 1..Len(g.lines), g.lines[i] = Whole(e) PROVE Old(i) \/ New(i)
  <2>1. g.lines[i].ok
    BY <1>2 DEF Whole
  <2>2. CASE i <= Len(f.lines) /\ g.lines[i] = f.lines[i]
    BY <1>1, <1>2, <2>2
  <2>3. ASSUME NEW k \in 1..Len(out), i = At(f, k), g.lines[i] = Whole(out[k]) PROVE New(i)
    <3>1. out[k] = e
      BY <1>2, <2>3 DEF Whole
    <3> QED BY <2>3, <3>1
  <2> QED BY <2>1, <2>2, <2>3 DEF Extends
<1>3. ASSUME NEW i, Old(i) PROVE ~\E m \in 1..Len(out) : out[m] = e
  <2>1. e \in Readable(f)
    BY <1>3, BytesSplit
  <2> QED BY <1>1, <2>1
<1>4. ASSUME NEW i, NEW j, New(i), New(j) PROVE i = j
  <2>1. PICK k \in 1..Len(out) : i = At(f, k) /\ out[k] = e
    BY <1>4
  <2>2. PICK l \in 1..Len(out) : j = At(f, l) /\ out[l] = e
    BY <1>4
  <2>3. k = l
    BY <1>1, <2>1, <2>2
  <2> QED BY <2>1, <2>2, <2>3
<1>5. ASSUME NEW i, NEW j, Old(i), Old(j) PROVE i = j
  BY <1>1, <1>5 DEF Single
<1> HIDE DEF Old, New
<1>6. ASSUME NEW i, NEW j, Old(i) PROVE ~New(j)
  BY <1>3, <1>6 DEF New
<1>7. ASSUME NEW i \in 1..Len(g.lines), NEW j \in 1..Len(g.lines), g.lines[i] = Whole(e), g.lines[j] = Whole(e)
      PROVE  i = j
  BY <1>2, <1>4, <1>5, <1>6, <1>7
<1> QED
  BY <1>1, <1>7 DEF Single

LEMMA OnceExtends ==
    ASSUME NEW f, WellFormed(f), NEW out \in Seq(Event), NEW g, Extends(g, f, out),
           NEW e \in Event, Once(e, f), NewTo(e, out, f)
    PROVE  Once(e, g)
<1>1. Single(f, e) /\ \A m, n \in DOMAIN out : out[m] = e => e \notin Readable(f) /\ (out[n] = e => m = n)
  BY DEF Once, NewTo
<1>2. Single(g, e)
  BY <1>1, SingleExtends
<1>3. ASSUME NEW i \in DOMAIN rotated, e \in Readable(rotated[i]) PROVE e \notin Readable(g)
  <2>1. e \notin Readable(f)
    BY <1>3 DEF Once
  <2>2. e \notin ToSet(out)
    BY <1>3 DEF NewTo, ToSet
  <2> QED BY <2>1, <2>2, ReadableExtends
<1> QED
  BY <1>2, <1>3 DEF Once

LEMMA OnceKept ==
    ASSUME NEW f, NEW g, NEW e, Once(e, f), Single(g, e), Readable(g) \subseteq Readable(f)
    PROVE  Once(e, g)
  BY DEF Once

\* The log has an event on its readable lines.
RotatedKeys == UNION {Readable(rotated[i]) : i \in DOMAIN rotated}

\* What Write quarantines and appends.
Wrote(w, base, out) ==
    LET spool == Repaired(Text(degraded))
    IN  /\ WellFormed(base) /\ base \in {Text(active), Repaired(Text(active))}
        /\ corrupt \subseteq corrupt' /\ Bytes(Text(active)) \subseteq Bytes(base) \cup corrupt'
        /\ corrupt' \subseteq corrupt \cup Bytes(Text(active)) \cup Bytes(Text(degraded))
        /\ Bytes(Text(degraded)) \subseteq Bytes(spool) \cup corrupt'
        /\ \/ /\ pc' = [pc EXCEPT ![w] = "fsync"] /\ UNCHANGED locks
              /\ out \in Seq(Event) /\ active' = Grown(base, out, Len(out))
              /\ job' = [job EXCEPT ![w].out = out, ![w].base = base, ![w].backlog = spool.lines # <<>>]
              /\ ~Damaged(spool)
              /\ ToSet(out) \subseteq Readable(spool) \cup {job[w].event}
              /\ Readable(spool) \cup {job[w].event} \subseteq ToSet(out) \cup Readable(base) \cup RotatedKeys
              /\ \A k \in Keyed : NewTo(k, out, base)
              /\ \A p \in Plain :
                     /\ Single(spool, p) /\ (p = job[w].event => p \notin Readable(spool))
                     /\ p \in Readable(spool) \cup {job[w].event} =>
                            p \notin Readable(base) \cup RotatedKeys
                     => NewTo(p, out, base)
           \/ /\ pc' = [pc EXCEPT ![w] = "spool"] /\ Release(w) /\ UNCHANGED job
              /\ active' \in {None, base} /\ Text(active') = base
              /\ \/ Damaged(spool) \/ Damaged(base)
                 \/ \E i \in DOMAIN rotated : Damaged(rotated[i])
LEMMA Writing ==
    ASSUME Typed, NEW w \in Writer, Write(w)
    PROVE  LET spool == Repaired(Text(degraded))
           IN  /\ WellFormed(spool) /\ Text(degraded') = spool /\ degraded' \in {None, spool}
               /\ UNCHANGED <<rotated, reported, spent>>
               /\ \E base, out : Wrote(w, base, out)
<1> DEFINE e == job[w].event
           spool == Repaired(Text(degraded))
           keyed == e \in Keyed \/ Readable(spool) \cap Keyed # {}
           evid == \A i \in 1..Len(rotated) : ~Damaged(rotated[i])
           base == IF ~Damaged(spool) /\ keyed /\ evid THEN Repaired(Text(active)) ELSE Text(active)
           readable == ~Damaged(spool) /\ (keyed => evid /\ ~Damaged(base))
           committed == IF keyed THEN Readable(base) \cup UNION {Readable(rotated[i]) : i \in 1..Len(rotated)}
                        ELSE {}
           out == Outgoing(e, Backlog(spool), committed)
<1>1. /\ degraded' = IF degraded = None THEN None ELSE spool
      /\ corrupt' = corrupt \cup Quarantined(Text(degraded))
                        \cup (IF base = Text(active) THEN {} ELSE Quarantined(Text(active)))
      /\ IF readable
         THEN /\ active' = Grown(base, out, Len(out))
              /\ job' = [job EXCEPT ![w].out = out, ![w].base = base, ![w].backlog = spool.lines # <<>>]
              /\ pc' = [pc EXCEPT ![w] = "fsync"]
              /\ UNCHANGED locks
         ELSE /\ active' = IF active = None THEN None ELSE base
              /\ pc' = [pc EXCEPT ![w] = "spool"]
              /\ Release(w)
              /\ UNCHANGED job
      /\ UNCHANGED <<rotated, reported, spent>> /\ pc[w] = "read"
  BY DEF Write, Goto
<1>2. /\ WellFormed(Text(active)) /\ WellFormed(Text(degraded)) /\ e \in Event
      /\ rotated \in Seq(File) /\ DOMAIN rotated = 1..Len(rotated)
  <2>1. /\ rotated \in Seq(File) /\ WellFormed(Text(active)) /\ WellFormed(Text(degraded))
        /\ pc[w] \notin {"idle", "dead"} => job[w].event \in Event
    BY DEF Typed, RepairTypeOK, TypeOK
  <2>2. DOMAIN rotated = 1..Len(rotated)
    BY <2>1
  <2>3. e \in Event
    BY <1>1, <2>1
  <2> HIDE DEF e
  <2> QED BY <2>1, <2>2, <2>3
<1>3. base \in {Text(active), Repaired(Text(active))} /\ (~(base = Text(active)) => base = Repaired(Text(active)))
  OBVIOUS
<1>0. RotatedKeys = UNION {Readable(rotated[i]) : i \in 1..Len(rotated)} /\ (evid <=> ~\E i \in DOMAIN rotated : Damaged(rotated[i]))
  BY <1>2 DEF RotatedKeys
<1>4. /\ e \in Keyed \/ (\E k \in Keyed : k \in Readable(spool)) => keyed
      /\ readable => ~Damaged(spool)
      /\ ~readable => Damaged(spool) \/ Damaged(base) \/ ~evid
      /\ committed \subseteq Readable(base) \cup RotatedKeys
      /\ keyed => committed = Readable(base) \cup RotatedKeys
  BY <1>0
<1>5. /\ WellFormed(spool) /\ Readable(spool) = Readable(Text(degraded))
      /\ Bytes(Text(degraded)) = Bytes(spool) \cup Quarantined(Text(degraded))
  BY <1>2, RepairedFile
<1>6. /\ WellFormed(base)
      /\ Bytes(Text(active)) = Bytes(base) \cup Quarantined(Text(active)) \/ base = Text(active)
  BY <1>2, <1>3, RepairedFile
<1>7. /\ Text(degraded') = spool /\ degraded' \in {None, spool}
      /\ active = None => base = Empty
  <2>1. Repaired(Empty) = Empty
    BY EmptyFile, RepairedFile DEF Clean
  <2>2. degraded = None => spool = Empty
    BY <2>1, Texts
  <2>3. active = None => Text(active) = Empty
    BY Texts
  <2>4. spool # None
    BY <1>5, Texts
  <2> HIDE DEF base, spool
  <2> QED BY <1>1, <1>3, <2>1, <2>2, <2>3, <2>4, Texts
<1>8. /\ corrupt \subseteq corrupt' /\ Bytes(Text(active)) \subseteq Bytes(base) \cup corrupt'
      /\ corrupt' \subseteq corrupt \cup Bytes(Text(active)) \cup Bytes(Text(degraded))
      /\ Bytes(Text(degraded)) \subseteq Bytes(spool) \cup corrupt'
  <2>1. Quarantined(Text(active)) \subseteq Bytes(Text(active))
    BY <1>2, RepairedFile
  <2> HIDE DEF base, spool
  <2> QED BY <1>1, <1>5, <1>6, <2>1
<1> HIDE DEF base, keyed, evid, readable, committed, spool
<1>9. CASE readable
  <2>1. /\ Backlog(spool) \in Seq(Event) /\ ToSet(Backlog(spool)) = Readable(spool)
        /\ \A p : Single(spool, p) =>
               \A i, j \in DOMAIN Backlog(spool) : Backlog(spool)[i] = p /\ Backlog(spool)[j] = p => i = j
    BY <1>4, <1>5, <1>9, BacklogFile
  <2> DEFINE b == Backlog(spool)
  <2>2. /\ out \in Seq(Event)
        /\ ToSet(out) \subseteq ToSet(b) \cup {e}
        /\ ToSet(b) \cup {e} \subseteq ToSet(out) \cup committed
        /\ \A k \in Keyed : \A m, n \in DOMAIN out :
               out[m] = k => k \notin committed /\ (out[n] = k => m = n)
        /\ \A p : (\A i, j \in DOMAIN b : b[i] = p /\ b[j] = p => i = j) /\ (p = e => p \notin ToSet(b)) =>
               \A m, n \in DOMAIN out : out[m] = p /\ out[n] = p => m = n
    <3>1. b \in Seq(Event)
      BY <2>1
    <3> HIDE DEF b, e
    <3>2. e \in Event
      BY <1>2
    <3> HIDE DEF out
    <3>3. out = Outgoing(e, b, committed)
      BY DEF out, b, e
    <3>4. Outgoes(out, b, e, committed)
      BY <3>1, <3>2, <3>3, Outgoings
    <3> QED BY <3>4 DEF Outgoes
  <2> HIDE DEF out, b
  <2>3. \A m \in DOMAIN out : out[m] \in ToSet(out)
    BY <2>2 DEF ToSet
  <2>4. ASSUME NEW k \in Keyed PROVE NewTo(k, out, base)
    <3>1. ASSUME NEW m \in DOMAIN out, out[m] = k
          PROVE  k \notin Readable(base) /\ \A i \in DOMAIN rotated : k \notin Readable(rotated[i])
      <4>1. k \in Readable(spool) \cup {e}
        BY <2>1, <2>2, <2>3, <3>1 DEF b
      <4>2. keyed
        BY <1>4, <4>1
      <4>3. k \notin Readable(base) \cup RotatedKeys
        BY <1>4, <2>2, <3>1, <4>2
      <4> QED BY <4>3 DEF RotatedKeys
    <3> QED BY <2>2, <3>1 DEF NewTo
  <2>5. ASSUME NEW p \in Plain, Single(spool, p), p = e => p \notin Readable(spool),
               p \in Readable(spool) \cup {e} => p \notin Readable(base) \cup RotatedKeys
        PROVE  NewTo(p, out, base)
    <3>1. ASSUME NEW m \in DOMAIN out, out[m] = p
          PROVE  p \notin Readable(base) /\ \A i \in DOMAIN rotated : p \notin Readable(rotated[i])
      <4>1. p \in Readable(spool) \cup {e}
        BY <2>1, <2>2, <2>3, <3>1 DEF b
      <4>2. p \notin Readable(base) \cup RotatedKeys
        BY <2>5, <4>1
      <4> QED BY <4>2 DEF RotatedKeys
    <3>2. \A m, n \in DOMAIN out : out[m] = p /\ out[n] = p => m = n
      BY <2>1, <2>2, <2>5 DEF b
    <3> QED BY <3>1, <3>2 DEF NewTo
  <2>6. /\ ToSet(out) \subseteq Readable(spool) \cup {e}
        /\ Readable(spool) \cup {e} \subseteq ToSet(out) \cup Readable(base) \cup RotatedKeys
    BY <1>4, <2>1, <2>2 DEF b
  <2>7. /\ pc' = [pc EXCEPT ![w] = "fsync"] /\ UNCHANGED locks /\ active' = Grown(base, out, Len(out))
        /\ job' = [job EXCEPT ![w].out = out, ![w].base = base, ![w].backlog = spool.lines # <<>>]
        /\ ~Damaged(spool)
    BY <1>1, <1>4, <1>9
  <2>8. Wrote(w, base, out)
    BY <1>3, <1>5, <1>6, <1>8, <2>2, <2>4, <2>5, <2>6, <2>7 DEF spool, Wrote
  <2> QED BY <1>1, <1>5, <1>7, <2>8 DEF spool
<1>10. CASE ~readable
  <2>1. active' \in {None, base} /\ Text(active') = base
    BY <1>1, <1>6, <1>7, <1>10, Texts
  <2>2. pc' = [pc EXCEPT ![w] = "spool"] /\ Release(w) /\ UNCHANGED job
    BY <1>1, <1>10
  <2>3. Damaged(spool) \/ Damaged(base) \/ \E i \in DOMAIN rotated : Damaged(rotated[i])
    BY <1>0, <1>4, <1>10
  <2>4. Wrote(w, base, out)
    BY <1>3, <1>5, <1>6, <1>8, <2>1, <2>2, <2>3 DEF spool, Wrote
  <2> QED BY <1>1, <1>5, <1>7, <2>4 DEF spool
<1> QED
  BY <1>9, <1>10

LEMMA Spooling ==
    ASSUME Typed, NEW w \in Writer, Spool(w)
    PROVE  LET base == Repaired(Text(degraded))
           IN  /\ WellFormed(base) /\ Readable(base) = Readable(Text(degraded))
               /\ UNCHANGED <<active, rotated, locks, reported, spent>>
               /\ pc' = [pc EXCEPT ![w] = "spoolsync"] /\ pc[w] = "spooling"
               /\ corrupt \subseteq corrupt' /\ corrupt' \subseteq corrupt \cup Bytes(Text(degraded))
               /\ Bytes(Text(degraded)) \subseteq Bytes(base) \cup corrupt'
               /\ \E out \in Seq(Event) :
                      /\ ToSet(out) \subseteq {job[w].event} /\ \A m, n \in DOMAIN out : m = n
                      /\ job' = [job EXCEPT ![w].out = out, ![w].base = base]
                      /\ degraded' \in {None, Text(degraded')}
                      /\ Extends(Text(degraded'), base, out)
                      /\ Clean(base) => Clean(Text(degraded'))
<1> DEFINE e == job[w].event
           base == Repaired(Text(degraded))
           out == IF Damaged(base) \/ (e \in Keyed /\ e \in Readable(base)) THEN <<>> ELSE <<e>>
<1>1. /\ degraded' = IF degraded = None /\ out = <<>> THEN None ELSE Grown(base, out, Len(out))
      /\ corrupt' = corrupt \cup Quarantined(Text(degraded))
      /\ job' = [job EXCEPT ![w].out = out, ![w].base = base]
      /\ pc' = [pc EXCEPT ![w] = "spoolsync"] /\ pc[w] = "spooling"
      /\ UNCHANGED <<active, rotated, locks, reported, spent>>
  BY DEF Spool, Goto
<1>2. WellFormed(Text(degraded)) /\ (pc[w] \notin {"idle", "dead"} => job[w].event \in Event)
  BY DEF Typed
<1>3. e \in Event
  BY <1>1, <1>2
<1>4. out \in Seq(Event) /\ out \in {<<>>, <<e>>}
  <2> HIDE DEF e
  <2> QED BY <1>3
<1>5. ToSet(out) \subseteq {e} /\ (\A m, n \in DOMAIN out : m = n) /\ Len(out) \in Nat
      /\ (out = <<>> => Len(out) = 0)
  <2> HIDE DEF e, out
  <2>1. CASE out = <<>>
    BY <2>1 DEF ToSet
  <2>2. CASE out = <<e>>
    BY <2>2 DEF ToSet
  <2> QED BY <1>4, <2>1, <2>2
<1>6. /\ WellFormed(base) /\ Readable(base) = Readable(Text(degraded))
      /\ Bytes(Text(degraded)) = Bytes(base) \cup Quarantined(Text(degraded))
  BY <1>2, RepairedFile
<1>7. degraded = None => base = Empty
  <2>1. Repaired(Empty) = Empty
    BY EmptyFile, RepairedFile DEF Clean
  <2> QED BY <2>1, Texts
<1> HIDE DEF base, out
<1> DEFINE g == Grown(base, out, Len(out))
<1>8. Extends(g, base, out) /\ (Clean(base) => Clean(g))
  BY <1>4, <1>5, <1>6, GrownExtends
<1>9. WellFormed(g) /\ g # None
  BY <1>8, Texts DEF Extends
<1>10. Text(degraded') = g /\ degraded' \in {None, g}
  <2>1. CASE degraded = None /\ out = <<>>
    <3>1. g = Empty
      BY <1>5, <1>7, <2>1 DEF Grown
    <3> HIDE DEF g
    <3> QED BY <1>1, <2>1, <3>1, Texts
  <2>2. CASE ~(degraded = None /\ out = <<>>)
    <3>1. degraded' = g
      BY <1>1, <2>2
    <3> HIDE DEF g
    <3> QED BY <1>9, <3>1, Texts
  <2> QED BY <2>1, <2>2
<1> HIDE DEF g
<1> QED
  BY <1>1, <1>4, <1>5, <1>6, <1>8, <1>10 DEF base

\* What is left of an append that a fault interrupts.
LEMMA Tearing ==
    ASSUME Typed, NEW w \in Writer, Tear(w)
    PROVE  /\ UNCHANGED <<rotated, corrupt, reported>>
           /\ job[w].out \in Seq(Event) /\ WellFormed(job[w].base)
           /\ pc[w] = "fsync" =>
                  degraded' = degraded /\ Text(active') = active' /\ Extends(active', job[w].base, job[w].out)
           /\ pc[w] = "spoolsync" =>
                  active' = active /\ Text(degraded') = degraded' /\ Extends(degraded', job[w].base, job[w].out)
<1>1. WellFormed(job[w].base) /\ job[w].out \in Seq(Event)
  BY DEF Typed, RepairTypeOK, TypeOK, Job
<1>2. \A g \in TornAppends(job[w].base, job[w].out) :
          Extends(g, job[w].base, job[w].out) /\ Text(g) = g
  <2>1. ASSUME NEW g \in TornAppends(job[w].base, job[w].out)
        PROVE  Extends(g, job[w].base, job[w].out) /\ Text(g) = g
    <3>1. Extends(g, job[w].base, job[w].out)
      BY <1>1, TornExtends
    <3>2. WellFormed(g)
      BY <3>1 DEF Extends
    <3> QED BY <3>1, <3>2, Texts
  <2> QED BY <2>1
<1>3. UNCHANGED <<rotated, corrupt, reported>>
  BY DEF Tear, LoseTail
<1>4. CASE pc[w] = "fsync"
  <2>1. active' \in TornAppends(job[w].base, job[w].out) /\ degraded' = degraded
    BY <1>4 DEF Tear, LoseTail
  <2> QED BY <1>1, <1>2, <1>3, <1>4, <2>1
<1>5. CASE pc[w] = "spoolsync"
  <2>1. degraded' \in TornAppends(job[w].base, job[w].out) /\ active' = active
    BY <1>5 DEF Tear, LoseTail
  <2> QED BY <1>1, <1>2, <1>3, <1>5, <2>1
<1> QED
  BY <1>4, <1>5 DEF Tear

\* A file without some of its malformed lines.
Mended(old, new) ==
    /\ WellFormed(new) /\ Readable(new) = Readable(old) /\ Bytes(new) \subseteq Bytes(old)
    /\ \A e : Single(old, e) => Single(new, e)
LEMMA Pruning ==
    ASSUME Typed, PruneStart
    PROVE  /\ Mended(Text(active), Text(active')) /\ active' \in {None, Text(active')}
           /\ corrupt \subseteq corrupt' /\ corrupt' \subseteq corrupt \cup Bytes(Text(active))
           /\ Bytes(Text(active)) \subseteq Bytes(Text(active')) \cup corrupt'
           /\ active' = active \/ Damaged(Text(active))
           /\ UNCHANGED <<rotated, degraded, pc, job, reported, spent, fence, backup, receipt, staged>>
           /\ op = "idle" /\ pc[Operator] = "idle" /\ fence # None /\ auditLock = None /\ degradedLock = None
           /\ \/ UNCHANGED <<locks, tombstone, op>>
              \/ /\ TakeLocks /\ op' = "retain" /\ ~Damaged(Text(active'))
                 /\ tombstone' = IF tombstone = "none" THEN "authorized" ELSE tombstone
                 /\ \/ tombstone \in RetentionPhase
                    \/ tombstone # "removed" /\ receipt = "committed" /\ BackupValid
                 /\ RepairKey \in Readable(Text(active')) \cup RotatedKeys /\ TargetState \in Proven
<1> DEFINE evid == \A i \in 1..Len(rotated) : ~Damaged(rotated[i])
           log == IF evid THEN Repaired(Text(active)) ELSE Text(active)
           keys == Readable(log) \cup UNION {Readable(rotated[i]) : i \in 1..Len(rotated)}
           due == \/ tombstone \in RetentionPhase
                  \/ tombstone # "removed" /\ receipt = "committed" /\ BackupValid
<1>1. /\ active' = IF active = None THEN None ELSE log
      /\ corrupt' = corrupt \cup (IF log = Text(active) THEN {} ELSE Quarantined(Text(active)))
      /\ IF (evid /\ ~Damaged(log)) /\ due /\ RepairKey \in keys /\ TargetState \in Proven
         THEN /\ TakeLocks
              /\ tombstone' = IF tombstone = "none" THEN "authorized" ELSE tombstone
              /\ op' = "retain"
         ELSE UNCHANGED <<locks, tombstone, op>>
      /\ UNCHANGED <<rotated, degraded, pc, job, reported, spent, fence, backup, receipt, staged>>
      /\ op = "idle" /\ pc[Operator] = "idle" /\ fence # None /\ auditLock = None /\ degradedLock = None
  BY DEF PruneStart, OpGoto
<1>2. WellFormed(Text(active)) /\ rotated \in Seq(File)
  BY DEF Typed, RepairTypeOK, TypeOK
<1>3. UNION {Readable(rotated[i]) : i \in 1..Len(rotated)} = RotatedKeys
  BY <1>2 DEF RotatedKeys
<1>4. Repaired(Empty) = Empty
  BY EmptyFile, RepairedFile DEF Clean
<1>5. log \in {Text(active), Repaired(Text(active))} /\ (log # Text(active) => log = Repaired(Text(active)))
  OBVIOUS
<1>6. active = None => log = Empty
  BY <1>4, Texts
<1>7. /\ Mended(Text(active), log) /\ (log = Text(active) \/ Damaged(Text(active)))
      /\ log = Text(active) \/ Bytes(Text(active)) = Bytes(log) \cup Quarantined(Text(active))
      /\ Quarantined(Text(active)) \subseteq Bytes(Text(active))
  <2> HIDE DEF log
  <2> QED BY <1>2, <1>5, RepairedFile DEF Mended
<1>8. RepairKey \in keys => RepairKey \in Readable(log) \cup RotatedKeys
  BY <1>3
<1> HIDE DEF log, keys, evid, due
<1>9. WellFormed(log) /\ log # None
  BY <1>7, Texts DEF Mended
<1>10. Text(active') = log /\ active' \in {None, log} /\ (log = Text(active) => active' = active)
  BY <1>1, <1>6, <1>9, Texts
<1>11. \/ UNCHANGED <<locks, tombstone, op>>
       \/ /\ TakeLocks /\ op' = "retain" /\ ~Damaged(log)
          /\ tombstone' = IF tombstone = "none" THEN "authorized" ELSE tombstone
          /\ due /\ RepairKey \in Readable(log) \cup RotatedKeys /\ TargetState \in Proven
  BY <1>1, <1>8
<1>12. /\ corrupt \subseteq corrupt' /\ corrupt' \subseteq corrupt \cup Bytes(Text(active))
       /\ Bytes(Text(active)) \subseteq Bytes(log) \cup corrupt'
  BY <1>1, <1>7
<1> QED
  BY <1>1, <1>7, <1>10, <1>11, <1>12 DEF due

\* The repair changes the segment that it was told to, from the bytes that it was told.
LEMMA Replacing ==
    ASSUME Typed, RepairKnown, ReplaceTarget
    PROVE  /\ UNCHANGED <<corrupt, locks, pc, job, reported, spent, fence, evidence>>
           /\ op = "replace" /\ op' = "mark" /\ fence # None /\ WellFormed(fence.original)
           /\ Mended(Text(active), Text(active')) /\ active' \in {active, Text(active')}
           /\ Mended(Text(degraded), Text(degraded')) /\ degraded' \in {degraded, Text(degraded')}
           /\ rotated' \in Seq(File) /\ DOMAIN rotated' = DOMAIN rotated
           /\ \A i \in DOMAIN rotated : Mended(rotated[i], rotated'[i])
           /\ Bytes(Text(active)) \subseteq Bytes(Text(active')) \cup MalformedEvents(fence.original)
           /\ \A i \in DOMAIN rotated :
                  Bytes(rotated[i]) \subseteq Bytes(rotated'[i]) \cup MalformedEvents(fence.original)
<1> DEFINE o == fence.original
           c == Candidate(o)
           s == fence.segment
<1>1. /\ op = "replace" /\ op' = "mark" /\ SetTarget(c)
      /\ UNCHANGED <<corrupt, locks, pc, job, reported, spent, fence, evidence>>
  BY DEF ReplaceTarget, OpGoto
<1>2. fence # None /\ WellFormed(o) /\ FileOf(s) = o
  BY <1>1 DEF RepairKnown, Phases, Aimed
<1>3. s \in Nat
  BY <1>2 DEF Typed, RepairTypeOK, Fence
<1>4. Mended(o, c) /\ WellFormed(c) /\ Bytes(o) \subseteq Bytes(c) \cup MalformedEvents(o)
  <2> HIDE DEF o
  <2>1. /\ WellFormed(Candidate(o)) /\ Readable(Candidate(o)) = Readable(o) /\ Bytes(Candidate(o)) = Readable(o)
        /\ \A e : Single(o, e) => Single(Candidate(o), e)
    BY <1>2, CandidateFile
  <2>2. Bytes(o) = Readable(o) \cup MalformedEvents(o)
    BY <1>2, BytesSplit
  <2> QED BY <2>1, <2>2 DEF Mended
<1>5. \A f : WellFormed(f) => Mended(f, f)
  BY DEF Mended
<1>6. /\ WellFormed(Text(active)) /\ WellFormed(Text(degraded)) /\ rotated \in Seq(File)
      /\ \A i \in DOMAIN rotated : WellFormed(rotated[i])
  BY DEF Typed, RepairTypeOK, TypeOK
<1> HIDE DEF c, o
<1>7. /\ active' = IF s = 0 THEN c ELSE active
      /\ degraded' = IF s = 1 THEN c ELSE degraded
      /\ rotated' = [i \in DOMAIN rotated |-> IF s - 1 = i THEN c ELSE rotated[i]]
  BY <1>1 DEF SetTarget, EventsSegment, SpoolSegment, Rotated
<1>8. /\ s = 0 => active = o
      /\ s = 1 => degraded = o
      /\ s # 0 /\ s # 1 => rotated[s - 1] = o
  BY <1>2 DEF FileOf, EventsSegment, SpoolSegment, Rotated
<1>9. o # None /\ c # None /\ Text(o) = o /\ Text(c) = c
  BY <1>2, <1>4, Texts
<1>10. /\ Mended(Text(active), Text(active')) /\ active' \in {active, Text(active')}
       /\ Bytes(Text(active)) \subseteq Bytes(Text(active')) \cup MalformedEvents(o)
  BY <1>4, <1>5, <1>6, <1>7, <1>8, <1>9
<1>11. Mended(Text(degraded), Text(degraded')) /\ degraded' \in {degraded, Text(degraded')}
  BY <1>4, <1>5, <1>6, <1>7, <1>8, <1>9
<1>12. DOMAIN rotated = 1..Len(rotated) /\ Len(rotated) \in Nat
  BY <1>6
<1>13. ASSUME NEW i \in DOMAIN rotated
       PROVE  /\ Mended(rotated[i], rotated'[i])
              /\ Bytes(rotated[i]) \subseteq Bytes(rotated'[i]) \cup MalformedEvents(o)
              /\ rotated'[i] \in File
  <2>1. CASE s - 1 = i
    <3>1. s # 0 /\ s # 1
      BY <1>3, <1>12, <2>1
    <3>2. rotated[i] = o /\ rotated'[i] = c
      BY <1>7, <1>8, <2>1, <3>1
    <3> QED BY <1>4, <3>2 DEF WellFormed
  <2>2. CASE s - 1 # i
    <3>1. rotated'[i] = rotated[i]
      BY <1>7, <2>2
    <3> QED BY <1>5, <1>6, <3>1 DEF WellFormed
  <2> QED BY <2>1, <2>2
<1>14. rotated' \in Seq(File) /\ DOMAIN rotated' = DOMAIN rotated
  <2>1. DOMAIN rotated' = 1..Len(rotated)
    BY <1>7, <1>12
  <2>2. rotated' = [i \in 1..Len(rotated) |-> rotated'[i]]
    BY <1>7, <1>12
  <2> QED BY <1>12, <1>13, <2>1, <2>2
<1> QED
  BY <1>1, <1>2, <1>10, <1>11, <1>13, <1>14 DEF o

-----------------------------------------------------------------------------
(* Types *)

\* Everything but the files and the calls' locals.
LEMMA SmallTypes ==
    ASSUME Typed, RepairNext
    PROVE  /\ auditLock' \in Writer \cup {None} /\ degradedLock' \in Writer \cup {None}
           /\ pc' \in [Writer -> Pc] /\ spent' \in Spent /\ reported' \subseteq Event
           /\ fence' \in Fence \cup {None} /\ backup' \in {"absent", "partial", "whole"}
           /\ receipt' \in {"none", "prepared", "replaced", "committed"}
           /\ tombstone' \in RetentionPhase \cup {"none", "removed"}
           /\ staged' \in BOOLEAN /\ op' \in OpPc
<1> DEFINE Logs == /\ auditLock' \in Writer \cup {None} /\ degradedLock' \in Writer \cup {None}
                   /\ pc' \in [Writer -> Pc] /\ spent' \in Spent /\ reported' \subseteq Event
           Repairs == /\ fence' \in Fence \cup {None} /\ backup' \in {"absent", "partial", "whole"}
                      /\ receipt' \in {"none", "prepared", "replaced", "committed"}
                      /\ tombstone' \in RetentionPhase \cup {"none", "removed"}
                      /\ staged' \in BOOLEAN /\ op' \in OpPc
<1>0. /\ auditLock \in Writer \cup {None} /\ degradedLock \in Writer \cup {None}
      /\ pc \in [Writer -> Pc] /\ spent \in Spent /\ reported \subseteq Event
      /\ fence \in Fence \cup {None} /\ backup \in {"absent", "partial", "whole"}
      /\ receipt \in {"none", "prepared", "replaced", "committed"}
      /\ tombstone \in RetentionPhase \cup {"none", "removed"}
      /\ staged \in BOOLEAN /\ op \in OpPc
      /\ Operator \in Writer
  BY RepairConstants DEF Typed, RepairTypeOK, TypeOK
<1>1. ASSUME NEW w \in Writer, NEW e \in Event, Call(w, e) PROVE Logs
  <2>1. spent' \in Spent
    <3>1. spent' = [spent EXCEPT !.calls = @ + 1, !.tried = @ \cup ({e} \cap Plain)]
      BY <1>1 DEF Call
    <3> DEFINE tried == spent.tried \cup ({e} \cap Plain)
               calls == spent.calls + 1
    <3>2. tried \in SUBSET Plain /\ calls \in Nat
      BY <1>0 DEF Spent
    <3>3. spent' = [spent EXCEPT !.calls = calls, !.tried = tried]
      BY <3>1
    <3> HIDE DEF tried, calls
    <3> QED BY <1>0, <3>2, <3>3 DEF Spent
  <2>2. pc' = [pc EXCEPT ![w] = "audit"] /\ UNCHANGED <<locks, reported>>
    BY <1>1 DEF Call, Goto
  <2>3. pc' \in [Writer -> Pc]
    BY <1>0, <2>2 DEF Pc
  <2> QED BY <1>0, <2>1, <2>2, <2>3 DEF locks
<1>2. ASSUME Fault PROVE spent' \in Spent
  <2>1. spent' = [spent EXCEPT !["faults"] = @ + 1]
    BY <1>2 DEF Fault, Tally
  <2> QED BY <1>0, <2>1 DEF Spent
<1>3. ASSUME NEW w \in Writer, Release(w)
      PROVE  auditLock' \in Writer \cup {None} /\ degradedLock' \in Writer \cup {None}
  BY <1>0, <1>3 DEF Release
<1>4. ASSUME NEW w \in Writer, NEW ok \in BOOLEAN, Return(w, ok), pc[w] \notin {"idle", "dead"}
      PROVE  /\ auditLock' \in Writer \cup {None} /\ degradedLock' \in Writer \cup {None}
             /\ pc' \in [Writer -> Pc] /\ reported' \subseteq Event
  <2>1. pc' = [pc EXCEPT ![w] = "idle"] /\ Release(w) /\ reported' \subseteq reported \cup {job[w].event}
    BY <1>4 DEF Return, Goto
  <2>2. job[w].event \in Event
    BY <1>4 DEF Typed
  <2>3. pc' \in [Writer -> Pc]
    BY <1>0, <2>1 DEF Pc
  <2> QED BY <1>0, <1>3, <2>1, <2>2, <2>3
<1>5. ASSUME NEW w \in Writer, NEW l \in Pc, Goto(w, l) PROVE pc' \in [Writer -> Pc]
  BY <1>0, <1>5 DEF Goto
<1>6. {"idle", "audit", "degraded", "rotate", "read", "fsync", "unlink",
       "spool", "spooling", "spoolsync", "dead"} \subseteq Pc
  BY DEF Pc
<1>7. ASSUME NEW w \in Writer, Proceed(w) PROVE Logs
  <2>1. CASE TakeAuditLock(w)
    BY <1>0, <1>5, <1>6, <2>1 DEF TakeAuditLock
  <2>2. CASE TakeDegradedLock(w)
    BY <1>0, <1>5, <1>6, <2>2 DEF TakeDegradedLock
  <2>3. CASE LockTimeout(w)
    BY <1>0, <1>5, <1>6, <2>3 DEF LockTimeout
  <2>4. CASE Rotate(w)
    BY <1>0, <1>5, <1>6, <2>4 DEF Rotate, locks
  <2>5. CASE Write(w)
    <3>1. /\ (Goto(w, "fsync") /\ UNCHANGED locks) \/ (Goto(w, "spool") /\ Release(w))
          /\ UNCHANGED <<reported, spent>>
      BY <2>5 DEF Write
    <3> QED BY <1>0, <1>3, <1>5, <1>6, <3>1 DEF locks
  <2>6. CASE Fsync(w)
    <3>1. /\ pc[w] = "fsync" /\ spent' = spent
          /\ (Goto(w, "unlink") /\ UNCHANGED <<locks, reported>>) \/ Return(w, TRUE)
      BY <2>6 DEF Fsync
    <3> QED BY <1>0, <1>4, <1>5, <1>6, <3>1 DEF locks
  <2>7. CASE Unlink(w)
    BY <1>0, <1>4, <2>7 DEF Unlink
  <2>8. CASE TakeSpoolLock(w)
    BY <1>0, <1>5, <1>6, <2>8 DEF TakeSpoolLock
  <2>9. CASE DropEvent(w)
    BY <1>0, <1>4, <2>9 DEF DropEvent
  <2>10. CASE Spool(w)
    BY <1>0, <1>5, <1>6, <2>10 DEF Spool, locks
  <2>11. CASE SpoolFsync(w)
    BY <1>0, <1>4, <2>11 DEF SpoolFsync
  <2>12. CASE Crash(w)
    BY <1>0, <1>2, <1>5, <1>6, <2>12 DEF Crash, locks
  <2>13. CASE BreakStaleLocks(w)
    BY <1>0, <1>3, <1>5, <1>6, <2>13 DEF BreakStaleLocks
  <2>14. CASE AppendError(w)
    BY <1>0, <1>2, <1>3, <1>5, <1>6, <2>14 DEF AppendError
  <2>15. CASE LateError(w)
    BY <1>0, <1>2, <1>4, <2>15 DEF LateError
  <2> QED BY <1>7, <2>1, <2>2, <2>3, <2>4, <2>5, <2>6, <2>7, <2>8, <2>9, <2>10, <2>11, <2>12, <2>13,
             <2>14, <2>15 DEF Proceed
<1>8. CASE LogStep
  BY <1>0, <1>1, <1>7, <1>8 DEF LogStep, repairVars, evidence
<1>9. ASSUME OpRelease
      PROVE  auditLock' \in Writer \cup {None} /\ degradedLock' \in Writer \cup {None}
  BY <1>0, <1>3, <1>9 DEF OpRelease
<1>10. CASE Diagnose
  <2>1. PICK s \in 0..(Len(rotated) + 1) :
            FileOf(s) # None /\ fence' = [segment |-> s, original |-> FileOf(s)]
    BY <1>10 DEF Diagnose
  <2>2. /\ active \in File \cup {None} /\ degraded \in File \cup {None} /\ rotated \in Seq(File)
    BY DEF Typed, RepairTypeOK, TypeOK
  <2>3. FileOf(s) \in File
    <3>1. CASE s = 0
      BY <2>1, <2>2, <3>1 DEF FileOf, EventsSegment
    <3>2. CASE s = 1
      BY <2>1, <2>2, <3>2 DEF FileOf, EventsSegment, SpoolSegment
    <3>3. CASE s # 0 /\ s # 1
      <4>1. s - 1 \in 1..Len(rotated) /\ FileOf(s) = rotated[s - 1]
        BY <2>1, <2>2, <3>3 DEF FileOf, EventsSegment, SpoolSegment, Rotated
      <4> QED BY <2>2, <4>1
    <3> QED BY <3>1, <3>2, <3>3
  <2>4. fence' \in Fence
    BY <2>1, <2>3 DEF Fence
  <2> QED BY <1>0, <1>10, <2>4 DEF Diagnose, vars, locks, evidence
<1>11. CASE RepairStart
  BY <1>0, <1>11 DEF RepairStart, TakeLocks, OpGoto, OpPc, evidence
<1>12. CASE Resume \/ Backup \/ MarkReplaced
  BY <1>0, <1>9, <1>12 DEF Resume, Backup, MarkReplaced, OpGoto, OpEnd, OpPc, evidence, locks
<1>13. CASE PrepareReceipt \/ ReplaceTarget \/ Recorded \/ CommitReceipt \/ CommitRefused
  BY <1>0, <1>13 DEF PrepareReceipt, ReplaceTarget, Recorded, CommitReceipt, CommitRefused, OpGoto, OpPc,
                     evidence, locks, vars
<1>14. CASE RecordRepair
  <2>1. RepairKey \in Event
    BY RepairConstants DEF Event
  <2> QED BY <1>0, <1>1, <1>14, <2>1 DEF RecordRepair, OpGoto, OpPc, evidence
<1>15. CASE PruneStart
  <2>1. /\ UNCHANGED <<pc, reported, spent, fence, backup, receipt, staged>>
        /\ \/ UNCHANGED <<locks, tombstone, op>>
           \/ /\ TakeLocks /\ op' = "retain"
              /\ tombstone' = IF tombstone = "none" THEN "authorized" ELSE tombstone
    BY <1>15, Pruning
  <2> QED BY <1>0, <2>1 DEF TakeLocks, OpPc, locks, RetentionPhase
<1>16. CASE RetainReceipt \/ RetainStage \/ RetainMark \/ RetainUnstage
  BY <1>0, <1>16 DEF RetainReceipt, RetainStage, RetainMark, RetainUnstage, vars, locks, RetentionPhase
<1>17. CASE RetainDone
  BY <1>0, <1>9, <1>17 DEF RetainDone, OpGoto, OpEnd, OpPc
<1>18. CASE OpCrash
  BY <1>0, <1>2, <1>18 DEF OpCrash, OpGoto, OpPc, Pc, locks
<1> QED
  BY <1>8, <1>10, <1>11, <1>12, <1>13, <1>14, <1>15, <1>16, <1>17, <1>18 DEF RepairNext, OperatorStep

\* The locals of the calls.
JobsTyped ==
    /\ job \in [Writer -> Job]
    /\ \A w \in Writer : WellFormed(job[w].base)
    /\ \A w \in Writer : pc[w] \notin {"idle", "dead"} => job[w].event \in Event
LEMMA JobTypes ==
    ASSUME Typed, Locked, RepairNext
    PROVE  JobsTyped'
<1>0. /\ pc \in [Writer -> Pc] /\ job \in [Writer -> Job] /\ Operator \in Writer
      /\ \A w \in Writer : WellFormed(job[w].base)
      /\ \A w \in Writer : pc[w] \notin {"idle", "dead"} => job[w].event \in Event
  BY RepairConstants DEF Typed, RepairTypeOK, TypeOK
<1>1. WellFormed(Empty) /\ Empty \in File
  BY EmptyFile DEF WellFormed
<1>a. NoJob \in Job /\ NoJob.base = Empty
  BY <1>1 DEF NoJob, Job
\* A step of one writer leaves the others' locals alone.
<1>2. ASSUME NEW w \in Writer, NEW j \in Job, NEW l \in Pc, WellFormed(j.base),
             l \notin {"idle", "dead"} => j.event \in Event,
             pc' = [pc EXCEPT ![w] = l], job' = [job EXCEPT ![w] = j]
      PROVE  JobsTyped'
  <2>1. job' \in [Writer -> Job]
    BY <1>0, <1>2
  <2>2. \A v \in Writer : /\ v = w => job'[v] = j /\ pc'[v] = l
                          /\ v # w => job'[v] = job[v] /\ pc'[v] = pc[v]
    BY <1>0, <1>2
  <2> QED BY <1>0, <1>2, <2>1, <2>2 DEF JobsTyped
<1>3. ASSUME NEW w \in Writer, NEW l, pc' = [pc EXCEPT ![w] = l], job' = job,
             l \in {"idle", "dead"} \/ pc[w] \notin {"idle", "dead"}
      PROVE  JobsTyped'
  <2>1. \A v \in Writer : pc'[v] \notin {"idle", "dead"} => pc[v] \notin {"idle", "dead"}
    BY <1>0, <1>3
  <2> QED BY <1>0, <1>3, <2>1 DEF JobsTyped
<1>4. ASSUME pc' = pc, job' = job PROVE JobsTyped'
  BY <1>0, <1>4 DEF JobsTyped
<1>5. ASSUME NEW w \in Writer, NEW ok \in BOOLEAN, Return(w, ok) PROVE JobsTyped'
  <2> DEFINE j == [NoJob EXCEPT !.answer = ok]
  <2>1. j \in Job /\ j.base = Empty
    BY <1>a DEF Job
  <2>2. pc' = [pc EXCEPT ![w] = "idle"] /\ job' = [job EXCEPT ![w] = j]
    BY <1>5 DEF Return, Goto
  <2> HIDE DEF j
  <2> QED BY <1>1, <1>2, <2>1, <2>2 DEF Pc
<1>6. ASSUME NEW w \in Writer, NEW e \in Event, Call(w, e) PROVE JobsTyped'
  <2> DEFINE j == [NoJob EXCEPT !.event = e]
  <2>1. j \in Job /\ j.base = Empty /\ j.event \in Event
    BY <1>a DEF Job
  <2>2. pc' = [pc EXCEPT ![w] = "audit"] /\ job' = [job EXCEPT ![w] = j]
    BY <1>6 DEF Call, Goto
  <2> HIDE DEF j
  <2> QED BY <1>1, <1>2, <2>1, <2>2 DEF Pc
<1>7. ASSUME NEW w \in Writer, Write(w) PROVE JobsTyped'
  <2>1. pc[w] = "read" /\ job[w].event \in Event
    BY <1>0, <1>7 DEF Write
  <2>w. PICK base, out : Wrote(w, base, out)
    BY <1>7, Writing
  <2>2.
            /\ WellFormed(base)
            /\ \/ /\ pc' = [pc EXCEPT ![w] = "fsync"] /\ out \in Seq(Event)
                  /\ job' = [job EXCEPT ![w].out = out, ![w].base = base,
                                        ![w].backlog = Repaired(Text(degraded)).lines # <<>>]
               \/ pc' = [pc EXCEPT ![w] = "spool"] /\ job' = job
    BY <2>w DEF Wrote
  <2>3. CASE job' = job /\ pc' = [pc EXCEPT ![w] = "spool"]
    BY <1>3, <2>1, <2>3
  <2>4. CASE /\ pc' = [pc EXCEPT ![w] = "fsync"] /\ out \in Seq(Event)
             /\ job' = [job EXCEPT ![w].out = out, ![w].base = base,
                                   ![w].backlog = Repaired(Text(degraded)).lines # <<>>]
    <3> DEFINE pending == Repaired(Text(degraded)).lines # <<>>
               j == [job[w] EXCEPT !.out = out, !.base = base, !.backlog = pending]
    <3>1. pending \in BOOLEAN
      OBVIOUS
    <3> HIDE DEF pending
    <3>2. job' = [job EXCEPT ![w] = j]
      BY <1>0, <2>4 DEF pending
    <3>3. base \in File
      BY <2>2 DEF WellFormed
    <3>4. j \in Job /\ j.base = base /\ j.event = job[w].event
      BY <1>0, <2>4, <3>1, <3>3 DEF Job
    <3> HIDE DEF j
    <3> QED BY <1>2, <2>1, <2>2, <2>4, <3>2, <3>4 DEF Pc
  <2> QED BY <2>2, <2>3, <2>4
<1>8. ASSUME NEW w \in Writer, Spool(w) PROVE JobsTyped'
  <2>1. pc' = [pc EXCEPT ![w] = "spoolsync"] /\ pc[w] = "spooling" /\ WellFormed(Repaired(Text(degraded)))
    BY <1>8, Spooling
  <2>2. PICK out \in Seq(Event) : job' = [job EXCEPT ![w].out = out, ![w].base = Repaired(Text(degraded))]
    BY <1>8, Spooling
  <2> DEFINE base == Repaired(Text(degraded))
             j == [job[w] EXCEPT !.out = out, !.base = base]
  <2>3. WellFormed(base) /\ base \in File
    BY <2>1 DEF WellFormed
  <2>4. job' = [job EXCEPT ![w] = j]
    BY <1>0, <2>2
  <2> HIDE DEF base
  <2>5. j \in Job /\ j.base = base /\ j.event \in Event
    BY <1>0, <2>1, <2>2, <2>3 DEF Job
  <2> HIDE DEF j
  <2> QED BY <1>2, <2>1, <2>3, <2>4, <2>5 DEF Pc
<1>9. ASSUME NEW w \in Writer, Crash(w) PROVE JobsTyped'
  <2>1. pc' = [pc EXCEPT ![w] = "dead"] /\ job' = [job EXCEPT ![w] = NoJob]
    BY <1>9 DEF Crash, Goto
  <2>2. NoJob \in Job /\ WellFormed(NoJob.base)
    BY <1>1 DEF NoJob, Job
  <2> QED BY <1>2, <2>1, <2>2 DEF Pc
<1>10. ASSUME NEW w \in Writer, Proceed(w) PROVE JobsTyped'
  <2>1. CASE TakeAuditLock(w) \/ TakeDegradedLock(w) \/ LockTimeout(w) \/ Rotate(w)
    BY <1>3, <2>1 DEF TakeAuditLock, TakeDegradedLock, LockTimeout, Rotate, Goto
  <2>2. CASE TakeSpoolLock(w) \/ BreakStaleLocks(w) \/ AppendError(w)
    BY <1>3, <2>2 DEF TakeSpoolLock, BreakStaleLocks, AppendError, Goto
  <2>3. CASE Fsync(w)
    <3>1. pc[w] = "fsync" /\ ((Goto(w, "unlink") /\ job' = job) \/ Return(w, TRUE))
      BY <2>3 DEF Fsync
    <3> QED BY <1>3, <1>5, <3>1 DEF Goto
  <2>4. CASE Unlink(w) \/ DropEvent(w) \/ SpoolFsync(w) \/ LateError(w)
    BY <1>5, <2>4 DEF Unlink, DropEvent, SpoolFsync, LateError
  <2> QED BY <1>7, <1>8, <1>9, <1>10, <2>1, <2>2, <2>3, <2>4 DEF Proceed
<1>11. CASE LogStep
  BY <1>6, <1>10, <1>11 DEF LogStep
<1>12. CASE RecordRepair
  BY <1>0, <1>6, <1>12, RepairConstants DEF RecordRepair, Event
<1>13. CASE OpCrash
  BY <1>0, <1>3, <1>13 DEF OpCrash
<1>14. CASE PruneStart
  BY <1>4, <1>14, Pruning
<1>15. CASE Diagnose \/ RepairStart \/ Resume \/ Backup \/ PrepareReceipt \/ ReplaceTarget \/ MarkReplaced
            \/ Recorded \/ CommitReceipt \/ CommitRefused
  BY <1>4, <1>15 DEF Diagnose, RepairStart, Resume, Backup, PrepareReceipt, ReplaceTarget, MarkReplaced,
                     Recorded, CommitReceipt, CommitRefused, vars
<1>16. CASE RetainReceipt \/ RetainStage \/ RetainMark \/ RetainUnstage \/ RetainDone
  BY <1>4, <1>16 DEF RetainReceipt, RetainStage, RetainMark, RetainUnstage, RetainDone, vars
<1> QED
  BY <1>11, <1>12, <1>13, <1>14, <1>15, <1>16 DEF RepairNext, OperatorStep

LEMMA Rotating ==
    ASSUME Typed, NEW w \in Writer, Rotate(w)
    PROVE  /\ UNCHANGED <<degraded, corrupt, locks, job, reported, spent>>
           /\ pc' = [pc EXCEPT ![w] = "read"] /\ pc[w] = "rotate"
           /\ \/ UNCHANGED <<rotated, active>>
              \/ /\ active # None /\ WellFormed(active) /\ Text(active) = active
                 /\ active' = None /\ Text(active') = Empty
                 /\ rotated' = Append(rotated, active) /\ rotated' \in Seq(File)
                 /\ DOMAIN rotated' = DOMAIN rotated \cup {Len(rotated) + 1}
                 /\ \A i \in DOMAIN rotated : rotated'[i] = rotated[i] /\ i # Len(rotated) + 1
                 /\ rotated'[Len(rotated) + 1] = active
<1>1. /\ UNCHANGED <<degraded, corrupt, locks, job, reported, spent>>
      /\ pc' = [pc EXCEPT ![w] = "read"] /\ pc[w] = "rotate"
      /\ IF Len(Text(active).lines) >= SegmentLines
         THEN rotated' = Append(rotated, active) /\ active' = None
         ELSE UNCHANGED <<rotated, active>>
  BY DEF Rotate, Goto
<1>2. rotated \in Seq(File) /\ active \in File \cup {None} /\ WellFormed(Text(active))
  BY DEF Typed, RepairTypeOK, TypeOK
<1>3. CASE Len(Text(active).lines) >= SegmentLines
  <2>1. active # None
    <3>1. ASSUME active = None PROVE FALSE
      <4>1. Len(Text(active).lines) = 0
        BY <3>1, Texts DEF Empty
      <4> QED BY <1>3, <4>1, AuditConstants
    <3> QED BY <3>1
  <2>2. active \in File /\ Text(active) = active /\ Text(None) = Empty
    BY <1>2, <2>1, Texts
  <2>3. rotated' = Append(rotated, active) /\ active' = None
    BY <1>1, <1>3
  <2>4. /\ rotated' \in Seq(File) /\ DOMAIN rotated' = DOMAIN rotated \cup {Len(rotated) + 1}
        /\ \A i \in DOMAIN rotated : rotated'[i] = rotated[i] /\ i # Len(rotated) + 1
        /\ rotated'[Len(rotated) + 1] = active
    <3>1. Len(rotated) \in Nat /\ DOMAIN rotated = 1..Len(rotated)
      BY <1>2
    <3>2. Append(rotated, active) \in Seq(File) /\ Len(Append(rotated, active)) = Len(rotated) + 1
          /\ (\A i \in 1..Len(rotated) : Append(rotated, active)[i] = rotated[i])
          /\ Append(rotated, active)[Len(rotated) + 1] = active
      BY <1>2, <2>2
    <3>3. DOMAIN rotated' = 1..(Len(rotated) + 1)
      BY <2>3, <3>2
    <3> QED BY <2>3, <3>1, <3>2, <3>3
  <2> QED BY <1>1, <1>2, <2>1, <2>2, <2>3, <2>4
<1> QED
  BY <1>1, <1>3

FilesTyped ==
    /\ active \in File \cup {None} /\ degraded \in File \cup {None} /\ rotated \in Seq(File)
    /\ corrupt \subseteq Event
    /\ WellFormed(Text(active)) /\ WellFormed(Text(degraded))
    /\ \A i \in DOMAIN rotated : WellFormed(rotated[i])
LEMMA FileTypes ==
    ASSUME Typed, Locked, RepairKnown, RepairNext
    PROVE  FilesTyped'
<1>0. FilesTyped
  BY DEF Typed, RepairTypeOK, TypeOK, FilesTyped
<1>1. /\ Bytes(Text(active)) \subseteq Event /\ Bytes(Text(degraded)) \subseteq Event
      /\ \A f : WellFormed(f) => f \in File
      /\ Text(None) = Empty /\ WellFormed(Empty)
  BY <1>0, FileFacts, Texts, EmptyFile DEF FilesTyped, WellFormed
\* From the parts: what active and degraded become, and rotated.
<1>2. ASSUME active' \in {None, Text(active')}, WellFormed(Text(active')), UNCHANGED <<rotated, degraded>>,
             corrupt' \subseteq Event
      PROVE  FilesTyped'
  BY <1>0, <1>1, <1>2 DEF FilesTyped, Text
<1>3. ASSUME degraded' \in {None, Text(degraded')}, WellFormed(Text(degraded')),
             UNCHANGED <<rotated, active>>, corrupt' \subseteq Event
      PROVE  FilesTyped'
  BY <1>0, <1>1, <1>3 DEF FilesTyped, Text
<1>4. CASE Calm
  BY <1>0, <1>4 DEF Calm, files, FilesTyped, Text
<1>5. ASSUME NEW w \in Writer, Rotate(w) PROVE FilesTyped'
  <2>1. /\ UNCHANGED <<degraded, corrupt>>
        /\ \/ UNCHANGED <<rotated, active>>
           \/ /\ WellFormed(active) /\ active' = None /\ rotated' \in Seq(File)
              /\ DOMAIN rotated' = DOMAIN rotated \cup {Len(rotated) + 1}
              /\ \A i \in DOMAIN rotated : rotated'[i] = rotated[i] /\ i # Len(rotated) + 1
              /\ rotated'[Len(rotated) + 1] = active
    BY <1>5, Rotating
  <2>2. CASE UNCHANGED <<rotated, active>>
    BY <1>0, <2>1, <2>2 DEF FilesTyped, Text
  <2>3. CASE ~UNCHANGED <<rotated, active>>
    <3>1. \A i \in DOMAIN rotated' : WellFormed(rotated'[i])
      BY <1>0, <2>1, <2>3 DEF FilesTyped
    <3>2. /\ active' = None /\ rotated' \in Seq(File) /\ degraded' = degraded /\ corrupt' = corrupt
      BY <2>1, <2>3
    <3> QED BY <1>0, <1>1, <3>1, <3>2 DEF FilesTyped, Text
  <2> QED BY <2>2, <2>3
<1>6. ASSUME NEW w \in Writer, Write(w) PROVE FilesTyped'
  <2> DEFINE spool == Repaired(Text(degraded))
  <2>1. /\ WellFormed(spool) /\ Text(degraded') = spool /\ degraded' \in {None, spool}
        /\ rotated' = rotated
    BY <1>6, Writing
  <2>w. PICK base, out : Wrote(w, base, out)
    BY <1>6, Writing
  <2>2.
            /\ WellFormed(base)
            /\ corrupt' \subseteq corrupt \cup Bytes(Text(active)) \cup Bytes(Text(degraded))
            /\ \/ out \in Seq(Event) /\ active' = Grown(base, out, Len(out))
               \/ active' \in {None, base} /\ Text(active') = base
    BY <2>w DEF Wrote
  <2>3. active' \in {None, Text(active')} /\ WellFormed(Text(active'))
    <3>1. CASE out \in Seq(Event) /\ active' = Grown(base, out, Len(out))
      <4>1. Len(out) \in 0..Len(out)
        BY <3>1
      <4>2. WellFormed(Grown(base, out, Len(out)))
        BY <2>2, <3>1, <4>1, GrownExtends DEF Extends
      <4> QED BY <3>1, <4>2, Texts
    <3>2. CASE active' \in {None, base} /\ Text(active') = base
      BY <2>2, <3>2
    <3> QED BY <2>2, <3>1, <3>2
  <2>4. corrupt' \subseteq Event
    BY <1>0, <1>1, <2>2 DEF FilesTyped
  <2> HIDE DEF spool
  <2>5. active' \in File \cup {None} /\ degraded' \in File \cup {None}
    BY <1>1, <2>1, <2>3
  <2> QED BY <1>0, <2>1, <2>3, <2>4, <2>5 DEF FilesTyped
<1>7. ASSUME NEW w \in Writer, Unlink(w) PROVE FilesTyped'
  <2>1. degraded' = None /\ UNCHANGED <<active, rotated, corrupt>>
    BY <1>7 DEF Unlink
  <2> QED BY <1>0, <1>1, <2>1 DEF FilesTyped, Text
<1>8. ASSUME NEW w \in Writer, Spool(w) PROVE FilesTyped'
  <2>1. /\ UNCHANGED <<active, rotated>> /\ corrupt' \subseteq corrupt \cup Bytes(Text(degraded))
        /\ degraded' \in {None, Text(degraded')} /\ WellFormed(Text(degraded'))
    BY <1>8, Spooling DEF Extends
  <2>2. corrupt' \subseteq Event
    BY <1>0, <1>1, <2>1 DEF FilesTyped
  <2> QED BY <1>3, <2>1, <2>2
<1>9. ASSUME NEW w \in Writer, Tear(w) PROVE FilesTyped'
  <2>0. pc[w] \in {"fsync", "spoolsync"} /\ UNCHANGED <<rotated, corrupt>> /\ corrupt' \subseteq Event
    BY <1>0, <1>9, Tearing DEF Tear, FilesTyped
  <2>1. CASE pc[w] = "fsync"
    <3>1. degraded' = degraded /\ Text(active') = active' /\ WellFormed(active')
      BY <1>9, <2>1, Tearing DEF Extends
    <3> QED BY <1>2, <2>0, <3>1
  <2>2. CASE pc[w] = "spoolsync"
    <3>1. active' = active /\ Text(degraded') = degraded' /\ WellFormed(degraded')
      BY <1>9, <2>2, Tearing DEF Extends
    <3> QED BY <1>3, <2>0, <3>1
  <2> QED BY <2>0, <2>1, <2>2
<1>10. CASE ReplaceTarget
  <2>1. /\ corrupt' = corrupt /\ WellFormed(Text(active')) /\ active' \in {active, Text(active')}
        /\ WellFormed(Text(degraded')) /\ degraded' \in {degraded, Text(degraded')}
        /\ rotated' \in Seq(File) /\ DOMAIN rotated' = DOMAIN rotated
        /\ \A i \in DOMAIN rotated : WellFormed(rotated'[i])
    BY <1>10, Replacing DEF Mended
  <2>2. active' \in File \cup {None} /\ degraded' \in File \cup {None}
    BY <1>0, <1>1, <2>1 DEF FilesTyped
  <2> QED BY <1>0, <2>1, <2>2 DEF FilesTyped
<1>11. CASE PruneStart
  <2>1. /\ WellFormed(Text(active')) /\ active' \in {None, Text(active')}
        /\ corrupt' \subseteq corrupt \cup Bytes(Text(active)) /\ UNCHANGED <<rotated, degraded>>
    BY <1>11, Pruning DEF Mended
  <2>2. corrupt' \subseteq Event
    BY <1>0, <1>1, <2>1 DEF FilesTyped
  <2> QED BY <1>2, <2>1, <2>2
<1>12. ASSUME NEW w \in Writer, Fsync(w) PROVE FilesTyped'
  BY <1>0, <1>12 DEF Fsync, files, FilesTyped, Text
<1> QED
  BY <1>4, <1>5, <1>6, <1>7, <1>8, <1>9, <1>10, <1>11, <1>12, Moves DEF Step

LEMMA TypedStep ==
    ASSUME Typed, Locked, RepairKnown, RepairNext
    PROVE  Typed'
<1>1. FilesTyped' /\ JobsTyped'
  BY FileTypes, JobTypes
<1> QED
  BY <1>1, SmallTypes DEF Typed, RepairTypeOK, TypeOK, FilesTyped, JobsTyped

-----------------------------------------------------------------------------
(* What an append has put where, and what was reported *)

LEMMA NobodyWorks ==
    ASSUME Locked, RepairNext, ReplaceTarget \/ PruneStart
    PROVE  /\ \A w \in Writer : pc[w] \notin Working /\ pc[w] \notin Special
           /\ UNCHANGED <<pc, job, reported>>
<1>1. op \in Repairing \/ degradedLock = None
  BY DEF ReplaceTarget, PruneStart, Repairing
<1> QED
  BY <1>1, Exclusive DEF ReplaceTarget, PruneStart, Working, OnLog, OnSpool, Special

Appended(w) ==
    /\ pc[w] = "fsync" =>
           /\ active = Grown(job[w].base, job[w].out, Len(job[w].out))
           /\ job[w].backlog <=> Text(degraded).lines # <<>>
    /\ pc[w] \in {"fsync", "unlink"} =>
           Readable(Text(degraded)) \cup {job[w].event} \subseteq Bytes(Text(active)) \cup InRotated
    /\ pc[w] = "spoolsync" => Bytes(job[w].base) \subseteq Bytes(Text(degraded))

LEMMA AppendingIs == Appending <=> \A w \in Writer : Appended(w)
  BY DEF Appending, Appended

\* What a full append leaves in the file.
LEMMA GrownHas ==
    ASSUME NEW f, WellFormed(f), NEW out \in Seq(Event)
    PROVE  LET g == Grown(f, out, Len(out))
           IN  /\ Extends(g, f, out) /\ Text(g) = g /\ WellFormed(g)
               /\ Bytes(f) \cup ToSet(out) \subseteq Bytes(g)
<1> DEFINE g == Grown(f, out, Len(out))
<1>1. Len(out) \in 0..Len(out) /\ DOMAIN out = 1..Len(out)
  OBVIOUS
<1>2. Extends(g, f, out) /\ \A k \in 1..Len(out) : out[k] \in Bytes(g)
  BY <1>1, GrownExtends
<1> HIDE DEF g
<1>3. ToSet(out) \subseteq Bytes(g)
  BY <1>1, <1>2 DEF ToSet
<1>4. WellFormed(g) /\ Bytes(f) \subseteq Bytes(g)
  BY <1>2 DEF Extends
<1> QED
  BY <1>2, <1>3, <1>4, Texts DEF g

LEMMA RotatedHas ==
    ASSUME Typed
    PROVE  /\ RotatedKeys \subseteq InRotated
           /\ Readable(Text(active)) \subseteq Bytes(Text(active))
           /\ Readable(Text(degraded)) \subseteq Bytes(Text(degraded))
<1>1. \A f : WellFormed(f) => Readable(f) \subseteq Bytes(f)
  BY BytesSplit
<1>2. /\ WellFormed(Text(active)) /\ WellFormed(Text(degraded))
      /\ \A i \in DOMAIN rotated : WellFormed(rotated[i])
  BY DEF Typed
<1> QED
  BY <1>1, <1>2 DEF RotatedKeys, InRotated

LEMMA AppendingStep ==
    ASSUME Typed, Locked, Appending, RepairNext
    PROVE  Appending'
<1>0. pc \in [Writer -> Pc] /\ job \in [Writer -> Job]
  BY DEF Typed, RepairTypeOK, TypeOK
<1>1. CASE Calm
  <2>1. ASSUME NEW w \in Writer, pc'[w] \in Special PROVE Appended(w)'
    <3>1. pc'[w] = pc[w] /\ job'[w] = job[w] /\ UNCHANGED <<active, degraded, rotated>>
      BY <1>1, <2>1 DEF Calm, files
    <3>2. Appended(w)
      BY AppendingIs
    <3> QED BY <3>1, <3>2 DEF Appended, Text, InRotated
  <2>2. ASSUME NEW w \in Writer, pc'[w] \notin Special PROVE Appended(w)'
    BY <2>2 DEF Appended, Special
  <2> QED BY <2>1, <2>2 DEF Appending, Appended
<1>2. ASSUME NEW w \in Writer, Step(w) PROVE Appending'
  <2>1. ASSUME NEW v \in Writer \ {w} PROVE Appended(v)'
    <3>1. pc'[v] \notin Special
      BY <1>2, Alone
    <3> QED BY <3>1 DEF Appended, Special
  <2>2. Appended(w)'
    <3>1. ASSUME pc'[w] \notin Special PROVE Appended(w)'
      BY <3>1 DEF Appended, Special
    <3>2. CASE Rotate(w) \/ Unlink(w) \/ Tear(w)
      <4>1. pc'[w] \notin Special
        BY <1>0, <3>2 DEF Rotate, Unlink, Return, Goto, Tear, Special
      <4> QED BY <3>1, <4>1
    <3>3. CASE Write(w)
      <4> DEFINE spool == Repaired(Text(degraded))
      <4>1. Text(degraded') = spool /\ rotated' = rotated
        BY <3>3, Writing
      <4>w. PICK base, out : Wrote(w, base, out)
        BY <3>3, Writing
      <4>2.
              /\ WellFormed(base)
              /\ \/ /\ pc' = [pc EXCEPT ![w] = "fsync"]
                    /\ out \in Seq(Event) /\ active' = Grown(base, out, Len(out))
                    /\ job' = [job EXCEPT ![w].out = out, ![w].base = base,
                                          ![w].backlog = spool.lines # <<>>]
                    /\ Readable(spool) \cup {job[w].event}
                           \subseteq ToSet(out) \cup Readable(base) \cup RotatedKeys
                 \/ pc' = [pc EXCEPT ![w] = "spool"]
        BY <4>w DEF Wrote
      <4>3. CASE pc' = [pc EXCEPT ![w] = "spool"]
        <5>1. pc'[w] = "spool"
          BY <1>0, <4>3
        <5> QED BY <3>1, <5>1 DEF Special
      <4>4. CASE /\ pc' = [pc EXCEPT ![w] = "fsync"]
                 /\ out \in Seq(Event) /\ active' = Grown(base, out, Len(out))
                 /\ job' = [job EXCEPT ![w].out = out, ![w].base = base,
                                       ![w].backlog = spool.lines # <<>>]
                 /\ Readable(spool) \cup {job[w].event}
                        \subseteq ToSet(out) \cup Readable(base) \cup RotatedKeys
        <5>1. /\ pc'[w] = "fsync" /\ job'[w].out = out /\ job'[w].base = base
              /\ job'[w].backlog = (spool.lines # <<>>) /\ job'[w].event = job[w].event
          BY <1>0, <4>4 DEF Job
        <5>2. Bytes(base) \cup ToSet(out) \subseteq Bytes(active') /\ Text(active') = active'
          BY <4>2, <4>4, GrownHas
        <5>3. Readable(base) \subseteq Bytes(base)
          BY <4>2, BytesSplit
        <5>4. RotatedKeys \subseteq InRotated'
          BY <4>1, RotatedHas DEF InRotated
        <5> HIDE DEF spool
        <5>5. Readable(spool) \cup {job[w].event} \subseteq Bytes(active') \cup InRotated'
          BY <4>4, <5>2, <5>3, <5>4
        <5>6. Text(active)' = active' /\ Text(degraded)' = spool
          BY <4>1, <5>2 DEF Text
        <5> QED BY <4>4, <5>1, <5>5, <5>6 DEF Appended
      <4> QED BY <4>2, <4>3, <4>4
    <3>4. CASE Fsync(w)
      <4>1. CASE job[w].backlog
        <5>1. pc'[w] = "unlink" /\ job' = job /\ pc[w] = "fsync" /\ UNCHANGED <<active, degraded, rotated>>
          BY <1>0, <3>4, <4>1 DEF Fsync, Goto, files
        <5>2. Appended(w)
          BY AppendingIs
        <5> QED BY <5>1, <5>2 DEF Appended, Text, InRotated
      <4>2. CASE ~job[w].backlog
        <5>1. pc'[w] = "idle"
          BY <1>0, <3>4, <4>2 DEF Fsync, Return, Goto
        <5> QED BY <3>1, <5>1 DEF Special
      <4> QED BY <4>1, <4>2
    <3>5. CASE Spool(w)
      <4> DEFINE base == Repaired(Text(degraded))
      <4>1. PICK out \in Seq(Event) : /\ job' = [job EXCEPT ![w].out = out, ![w].base = base]
                                      /\ Extends(Text(degraded'), base, out)
        BY <3>5, Spooling
      <4>2. pc'[w] = "spoolsync" /\ job'[w].base = base
        BY <1>0, <3>5, <4>1 DEF Spool, Goto, Job
      <4>3. Bytes(base) \subseteq Bytes(Text(degraded'))
        BY <4>1 DEF Extends
      <4> HIDE DEF base
      <4> QED BY <4>2, <4>3 DEF Appended, Text
    <3> QED BY <1>2, <3>2, <3>3, <3>4, <3>5 DEF Step
  <2> QED BY <2>1, <2>2 DEF Appending, Appended
<1>3. CASE ReplaceTarget \/ PruneStart
  <2>1. \A w \in Writer : pc'[w] \notin Special
    BY <1>3, NobodyWorks
  <2> QED BY <2>1 DEF Appending, Special
<1> QED
  BY <1>1, <1>2, <1>3, Moves

\* Preserved evidence stays so.
LEMMA DroppedKept ==
    ASSUME Typed, Locked, RepairNext
    PROVE  Dropped \subseteq Dropped'
<1>1. (fence # None => fence' = fence) /\ (Preserved => Preserved')
  <2>1. CASE LogStep
    BY <2>1 DEF LogStep, repairVars, evidence, Preserved, BackupValid
  <2>2. CASE Diagnose \/ RepairStart \/ Resume \/ Backup \/ PrepareReceipt \/ ReplaceTarget \/ MarkReplaced
             \/ RecordRepair \/ Recorded \/ CommitReceipt \/ CommitRefused
    BY <2>2 DEF Diagnose, RepairStart, Resume, Backup, PrepareReceipt, ReplaceTarget, MarkReplaced,
                RecordRepair, Recorded, CommitReceipt, CommitRefused, evidence, Preserved, BackupValid
  <2>3. CASE PruneStart
    <3>1. /\ UNCHANGED <<fence, backup, staged>>
          /\ \/ tombstone' = tombstone
             \/ tombstone' = IF tombstone = "none" THEN "authorized" ELSE tombstone
      BY <2>3, Pruning
    <3> QED BY <3>1 DEF Preserved, BackupValid
  <2>4. CASE RetainReceipt \/ RetainStage \/ RetainMark \/ RetainUnstage \/ RetainDone
    BY <2>4 DEF RetainReceipt, RetainStage, RetainMark, RetainUnstage, RetainDone, Preserved, BackupValid
  <2>5. CASE OpCrash
    BY <2>5 DEF OpCrash, Preserved, BackupValid
  <2> QED BY <2>1, <2>2, <2>3, <2>4, <2>5 DEF RepairNext, OperatorStep
<1> QED
  BY <1>1 DEF Dropped, MalformedEvents

\* Who is at the fsync of the log, before and after a step.
LEMMA CalmDurable ==
    ASSUME Locked, Locked', Calm
    PROVE  Durable' = Durable
<1>1. CASE \E w \in Writer : pc[w] = "fsync"
  <2>1. PICK w \in Writer : pc[w] = "fsync"
    BY <1>1
  <2>2. pc'[w] = "fsync" /\ job'[w] = job[w]
    BY <2>1 DEF Calm, Special
  <2> QED BY <2>1, <2>2, DurableIs, DurableIsNext
<1>2. CASE ~\E w \in Writer : pc[w] = "fsync"
  <2>1. \A w \in Writer : pc'[w] # "fsync"
    BY <1>2 DEF Calm, Special
  <2>2. active' = active
    BY DEF Calm, files
  <2> QED BY <1>2, <2>1, <2>2, DurableIs, DurableIsNext
<1> QED
  BY <1>1, <1>2

\* Between appends the whole active segment is durable; so it is after a step that
\* leaves nobody at an fsync.
LEMMA NobodyAtFsync ==
    ASSUME Typed, Locked, Locked', NEW w \in Writer, Step(w)
    PROVE  /\ pc[w] # "fsync" => Durable = Text(active)
           /\ pc[w] = "fsync" => Durable = job[w].base
           /\ pc'[w] # "fsync" => Durable' = Text(active')
           /\ pc'[w] = "fsync" => Durable' = job'[w].base
<1>1. \A v \in Writer \ {w} : pc[v] # "fsync" /\ pc'[v] # "fsync"
  BY Alone DEF Special
<1>2. pc[w] # "fsync" => \A v \in Writer : pc[v] # "fsync"
  BY <1>1
<1>3. pc'[w] # "fsync" => \A v \in Writer : pc'[v] # "fsync"
  BY <1>1
<1> QED
  BY <1>2, <1>3, DurableIs, DurableIsNext

LEMMA SecuredStep ==
    ASSUME Typed, Locked, Locked', Appending, Secured, RepairKnown, RepairNext
    PROVE  Secured'
<1>0. /\ pc \in [Writer -> Pc] /\ job \in [Writer -> Job]
      /\ WellFormed(Text(active)) /\ WellFormed(Text(degraded))
      /\ \A i \in DOMAIN rotated : WellFormed(rotated[i])
      /\ rotated \in Seq(File) /\ \A w \in Writer : WellFormed(job[w].base)
  BY DEF Typed, RepairTypeOK, TypeOK
<1>1. Dropped \subseteq Dropped'
  BY DroppedKept
<1> DEFINE Safe == corrupt \cup InRotated \cup Bytes(Durable)
           SafeNext == corrupt' \cup InRotated' \cup Bytes(Durable')
<1>2. ASSUME reported' \subseteq reported \cup SafeNext, Safe \subseteq SafeNext \cup Dropped'
      PROVE  Secured'
  <2>1. reported \subseteq Safe \cup Dropped
    BY DEF Secured
  <2>2. Bytes(Durable') = Bytes(Durable)' /\ SafeNext = (corrupt \cup InRotated \cup Bytes(Durable))'
    BY DEF Bytes
  <2> HIDE DEF Safe, SafeNext
  <2>3. reported' \subseteq SafeNext \cup Dropped'
    BY <1>1, <1>2, <2>1
  <2> QED BY <2>2, <2>3 DEF Secured
<1>3. CASE Calm
  <2>1. Durable' = Durable
    BY <1>3, CalmDurable
  <2>2. UNCHANGED <<corrupt, rotated, reported>> /\ InRotated' = InRotated
    BY <1>3 DEF Calm, files, InRotated, Bytes
  <2>3. Safe = SafeNext
    BY <2>1, <2>2
  <2> QED BY <1>2, <2>2, <2>3
<1>a. ASSUME UNCHANGED rotated PROVE InRotated' = InRotated
  BY <1>a DEF InRotated, Bytes
<1>4. ASSUME NEW w \in Writer, Rotate(w) PROVE Secured'
  <2>1. /\ UNCHANGED <<corrupt, reported>> /\ pc[w] # "fsync" /\ pc'[w] # "fsync"
        /\ \/ UNCHANGED <<rotated, active>>
           \/ /\ Text(active) = active /\ Text(active') = Empty
              /\ DOMAIN rotated' = DOMAIN rotated \cup {Len(rotated) + 1}
              /\ \A i \in DOMAIN rotated : rotated'[i] = rotated[i] /\ i # Len(rotated) + 1
              /\ rotated'[Len(rotated) + 1] = active
    BY <1>0, <1>4, Rotating
  <2>2. Durable = Text(active) /\ Durable' = Text(active')
    BY <1>4, <2>1, NobodyAtFsync DEF Step
  <2>3. CASE UNCHANGED <<rotated, active>>
    <3>1. Safe = SafeNext
      BY <1>a, <2>1, <2>2, <2>3
    <3> QED BY <1>2, <2>1, <3>1
  <2>4. CASE ~UNCHANGED <<rotated, active>>
    <3>1. InRotated \cup Bytes(active) \subseteq InRotated'
      BY <2>1, <2>4 DEF InRotated, Bytes
    <3>2. Durable = active
      BY <2>1, <2>2, <2>4
    <3> QED BY <1>2, <2>1, <3>1, <3>2
  <2> QED BY <2>3, <2>4
<1>5. ASSUME NEW w \in Writer, Write(w) PROVE Secured'
  <2>0. pc[w] # "fsync" /\ rotated' = rotated /\ reported' = reported
    BY <1>5, Writing DEF Write
  <2>w. PICK base, out : Wrote(w, base, out)
    BY <1>5, Writing
  <2>1.
            /\ WellFormed(base)
            /\ corrupt \subseteq corrupt' /\ Bytes(Text(active)) \subseteq Bytes(base) \cup corrupt'
            /\ \/ /\ pc' = [pc EXCEPT ![w] = "fsync"]
                  /\ job' = [job EXCEPT ![w].out = out, ![w].base = base,
                                        ![w].backlog = Repaired(Text(degraded)).lines # <<>>]
               \/ pc' = [pc EXCEPT ![w] = "spool"] /\ Text(active') = base
    BY <2>w DEF Wrote
  <2>2. Durable' = base
    <3>1. CASE /\ pc' = [pc EXCEPT ![w] = "fsync"]
               /\ job' = [job EXCEPT ![w].out = out, ![w].base = base,
                                     ![w].backlog = Repaired(Text(degraded)).lines # <<>>]
      <4>1. pc'[w] = "fsync" /\ job'[w].base = base
        BY <1>0, <3>1 DEF Job
      <4> QED BY <1>5, <4>1, NobodyAtFsync DEF Step
    <3>2. CASE pc' = [pc EXCEPT ![w] = "spool"] /\ Text(active') = base
      <4>1. pc'[w] # "fsync"
        BY <1>0, <3>2
      <4> QED BY <1>5, <3>2, <4>1, NobodyAtFsync DEF Step
    <3> QED BY <2>1, <3>1, <3>2
  <2>3. Durable = Text(active)
    BY <1>5, <2>0, NobodyAtFsync DEF Step
  <2>4. InRotated' = InRotated
    BY <1>a, <2>0
  <2> QED BY <1>2, <2>0, <2>1, <2>2, <2>3, <2>4
<1>6. ASSUME NEW w \in Writer, Fsync(w) PROVE Secured'
  <2>1. /\ pc[w] = "fsync" /\ pc'[w] # "fsync" /\ UNCHANGED <<active, rotated, corrupt>>
        /\ reported' \subseteq reported \cup {job[w].event}
    BY <1>0, <1>6 DEF Fsync, Return, Goto, files
  <2>2. Durable = job[w].base /\ Durable' = Text(active')
    BY <1>6, <2>1, NobodyAtFsync DEF Step
  <2>3. /\ active = Grown(job[w].base, job[w].out, Len(job[w].out))
        /\ job[w].event \in Bytes(Text(active)) \cup InRotated
    BY <2>1 DEF Appending
  <2>4. Bytes(job[w].base) \subseteq Bytes(active) /\ Text(active) = active
    BY <1>0, <2>3, GrownHas DEF Job
  <2>5. InRotated' = InRotated /\ Text(active') = Text(active)
    BY <1>a, <2>1
  <2> QED BY <1>2, <2>1, <2>2, <2>3, <2>4, <2>5
<1>7. ASSUME NEW w \in Writer, Unlink(w) PROVE Secured'
  <2>1. /\ pc[w] = "unlink" /\ pc'[w] # "fsync" /\ UNCHANGED <<active, rotated, corrupt>>
        /\ reported' \subseteq reported \cup {job[w].event}
    BY <1>0, <1>7 DEF Unlink, Return, Goto
  <2>2. Durable = Text(active) /\ Durable' = Text(active')
    BY <1>7, <2>1, NobodyAtFsync DEF Step
  <2>3. job[w].event \in Bytes(Text(active)) \cup InRotated
    BY <2>1 DEF Appending
  <2>4. InRotated' = InRotated /\ Text(active') = Text(active)
    BY <1>a, <2>1
  <2> QED BY <1>2, <2>1, <2>2, <2>3, <2>4
<1>8. ASSUME NEW w \in Writer, Spool(w) PROVE Secured'
  <2>1. /\ pc[w] # "fsync" /\ pc'[w] # "fsync" /\ UNCHANGED <<active, rotated, reported>>
        /\ corrupt \subseteq corrupt'
    BY <1>0, <1>8, Spooling
  <2>2. Durable = Text(active) /\ Durable' = Text(active')
    BY <1>8, <2>1, NobodyAtFsync DEF Step
  <2>3. InRotated' = InRotated /\ Text(active') = Text(active)
    BY <1>a, <2>1
  <2> QED BY <1>2, <2>1, <2>2, <2>3
<1>9. ASSUME NEW w \in Writer, Tear(w) PROVE Secured'
  <2>1. UNCHANGED <<rotated, corrupt, reported>> /\ pc'[w] # "fsync" /\ pc[w] \in {"fsync", "spoolsync"}
    BY <1>9, Tearing DEF Tear, Special
  <2>2. Bytes(Durable) \subseteq Bytes(Durable')
    <3>1. CASE pc[w] = "fsync"
      <4>1. Text(active') = active' /\ Bytes(job[w].base) \subseteq Bytes(active')
        BY <1>9, <3>1, Tearing DEF Extends
      <4> QED BY <1>9, <2>1, <3>1, <4>1, NobodyAtFsync DEF Step
    <3>2. CASE pc[w] = "spoolsync"
      <4>1. active' = active
        BY <1>9, <3>2, Tearing
      <4> QED BY <1>9, <2>1, <3>2, <4>1, NobodyAtFsync DEF Step
    <3> QED BY <2>1, <3>1, <3>2
  <2>3. InRotated' = InRotated
    BY <1>a, <2>1
  <2> QED BY <1>2, <2>1, <2>2, <2>3
<1>b. ASSUME ReplaceTarget \/ PruneStart PROVE Durable = Text(active) /\ Durable' = Text(active')
  <2>1. \A w \in Writer : pc[w] # "fsync" /\ pc'[w] # "fsync"
    BY <1>b, NobodyWorks DEF Special
  <2> QED BY <2>1, DurableIs, DurableIsNext
<1>10. CASE ReplaceTarget
  <2>1. /\ UNCHANGED <<corrupt, reported, fence, backup, staged, tombstone>>
        /\ fence # None /\ op = "replace" /\ DOMAIN rotated' = DOMAIN rotated
        /\ Bytes(Text(active)) \subseteq Bytes(Text(active')) \cup MalformedEvents(fence.original)
        /\ \A i \in DOMAIN rotated :
               Bytes(rotated[i]) \subseteq Bytes(rotated'[i]) \cup MalformedEvents(fence.original)
    BY <1>10, Replacing DEF evidence
  <2>2. Preserved' /\ Dropped' = MalformedEvents(fence.original)
    <3>1. Preserved'
      BY <2>1 DEF RepairKnown, Phases, Preserved, BackupValid
    <3> QED BY <2>1, <3>1 DEF Dropped, MalformedEvents
  <2>3. InRotated \subseteq InRotated' \cup MalformedEvents(fence.original)
    <3>1. ASSUME NEW i \in DOMAIN rotated PROVE Bytes(rotated'[i]) \subseteq InRotated'
      BY <2>1 DEF InRotated, Bytes
    <3>2. InRotated = UNION {Bytes(rotated[i]) : i \in DOMAIN rotated}
      BY DEF InRotated
    <3> QED BY <2>1, <3>1, <3>2
  <2> QED BY <1>2, <1>10, <1>b, <2>1, <2>2, <2>3
<1>11. CASE PruneStart
  <2>1. /\ UNCHANGED <<rotated, reported>> /\ corrupt \subseteq corrupt'
        /\ Bytes(Text(active)) \subseteq Bytes(Text(active')) \cup corrupt'
    BY <1>11, Pruning
  <2>2. InRotated' = InRotated
    BY <1>a, <2>1
  <2> QED BY <1>2, <1>11, <1>b, <2>1, <2>2
<1> QED
  BY <1>3, <1>4, <1>5, <1>6, <1>7, <1>8, <1>9, <1>10, <1>11, Moves DEF Step

-----------------------------------------------------------------------------
(* A key on one line at most *)

\* No segment has the key on another line than before.
LEMMA OnceMended ==
    ASSUME NEW e, NEW f, NEW g, Once(e, f), Single(g, e), Readable(g) \subseteq Readable(f),
           DOMAIN rotated' = DOMAIN rotated,
           \A i \in DOMAIN rotated : rotated'[i] = rotated[i] \/ Mended(rotated[i], rotated'[i])
    PROVE  /\ Single(g, e)
           /\ \A i \in DOMAIN rotated' :
                  /\ Single(rotated'[i], e)
                  /\ e \in Readable(rotated'[i]) =>
                         /\ e \notin Readable(g)
                         /\ \A j \in DOMAIN rotated' : e \in Readable(rotated'[j]) => i = j
<1>1. ASSUME NEW i \in DOMAIN rotated
      PROVE  Readable(rotated'[i]) = Readable(rotated[i]) /\ Single(rotated'[i], e)
  <2>1. Single(rotated[i], e)
    BY DEF Once
  <2> QED BY <2>1 DEF Mended
<1> QED
  BY <1>1 DEF Once

\* The rotated segment is the one that had the active lines.
LEMMA OnceRotated ==
    ASSUME NEW e, NEW f, Once(e, f), NEW n,
           DOMAIN rotated' = DOMAIN rotated \cup {n},
           \A i \in DOMAIN rotated : rotated'[i] = rotated[i] /\ i # n,
           rotated'[n] = f
    PROVE  /\ Single(Empty, e)
           /\ \A i \in DOMAIN rotated' :
                  /\ Single(rotated'[i], e)
                  /\ e \in Readable(rotated'[i]) =>
                         /\ e \notin Readable(Empty)
                         /\ \A j \in DOMAIN rotated' : e \in Readable(rotated'[j]) => i = j
<1>1. Single(Empty, e) /\ Readable(Empty) = {}
  BY EmptyFile DEF Single, Empty
<1>2. ASSUME NEW i \in DOMAIN rotated'
      PROVE  Single(rotated'[i], e)
  BY DEF Once
<1>3. ASSUME NEW i \in DOMAIN rotated', e \in Readable(rotated'[i]),
             NEW j \in DOMAIN rotated', e \in Readable(rotated'[j])
      PROVE  i = j
  <2>1. CASE i = n
    BY <1>3, <2>1 DEF Once
  <2>2. CASE j = n
    BY <1>3, <2>2 DEF Once
  <2>3. CASE i # n /\ j # n
    BY <1>3, <2>3 DEF Once
  <2> QED BY <2>1, <2>2, <2>3
<1> QED
  BY <1>1, <1>2, <1>3

LEMMA RepairedOnce ==
    ASSUME NEW f, WellFormed(f), NEW g, g \in {f, Repaired(f)}
    PROVE  Mended(f, g)
<1>1. CASE g = f
  BY <1>1 DEF Mended
<1>2. CASE g = Repaired(f)
  BY <1>2, RepairedFile DEF Mended
<1> QED
  BY <1>1, <1>2

LEMMA KeysOnceStep ==
    ASSUME Typed, Locked, Locked', Appending, KeysOnce, RepairKnown, RepairNext
    PROVE  KeysOnce'
<1>0. /\ pc \in [Writer -> Pc] /\ job \in [Writer -> Job]
      /\ WellFormed(Text(active)) /\ \A w \in Writer : WellFormed(job[w].base)
  BY DEF Typed, RepairTypeOK, TypeOK
<1>1. ASSUME NEW e \in Keyed
      PROVE  /\ Once(e, Durable)'
             /\ \A w \in Writer : pc'[w] = "fsync" => NewTo(e, job[w].out, job[w].base)'
  <2>0. e \in Event /\ Once(e, Durable)
        /\ \A w \in Writer : pc[w] = "fsync" => NewTo(e, job[w].out, job[w].base)
    BY DEF Event, KeysOnce
  <2> DEFINE OnceNext(g) ==
                 /\ Single(g, e)
                 /\ \A i \in DOMAIN rotated' :
                        /\ Single(rotated'[i], e)
                        /\ e \in Readable(rotated'[i]) =>
                               /\ e \notin Readable(g)
                               /\ \A j \in DOMAIN rotated' : e \in Readable(rotated'[j]) => i = j
  <2>1. ASSUME NEW g, Durable' = g, OnceNext(g) PROVE Once(e, Durable)'
    BY <2>1 DEF Once
  <2>2. ASSUME NEW g, rotated' = rotated, Once(e, g) PROVE OnceNext(g)
    BY <2>2 DEF Once
  <2>3. ASSUME NEW g, rotated' = rotated, Mended(Durable, g) PROVE OnceNext(g)
    <3>1. Single(g, e) /\ Readable(g) \subseteq Readable(Durable)
      BY <2>0, <2>3 DEF Mended, Once
    <3>2. Once(e, g)
      BY <2>0, <3>1, OnceKept
    <3> QED BY <2>2, <2>3, <3>2
  <2>4. ASSUME NEW w \in Writer, NEW o, NEW f, NewTo(e, o, f), rotated' = rotated,
               job'[w].out = o, job'[w].base = f
        PROVE  NewTo(e, job[w].out, job[w].base)'
    BY <2>4 DEF NewTo
  <2>5. CASE Calm
    <3>1. Durable' = Durable /\ rotated' = rotated
      BY <2>5, CalmDurable DEF Calm, files
    <3>2. ASSUME NEW w \in Writer, pc'[w] = "fsync" PROVE NewTo(e, job[w].out, job[w].base)'
      <4>1. pc[w] = "fsync" /\ job'[w] = job[w]
        BY <2>5, <3>2 DEF Calm, Special
      <4> QED BY <2>0, <2>4, <3>1, <4>1
    <3>3. Once(e, Durable)'
      <4> DEFINE g == Durable
      <4>1. Once(e, g) /\ Durable' = g
        BY <2>0, <3>1
      <4> HIDE DEF g
      <4>2. OnceNext(g)
        BY <2>2, <3>1, <4>1
      <4> HIDE DEF OnceNext
      <4> QED BY <2>1, <4>1, <4>2
    <3> QED BY <3>2, <3>3
  <2> HIDE DEF OnceNext
  <2>6. ASSUME NEW w \in Writer, Step(w) PROVE \A v \in Writer \ {w} : pc'[v] # "fsync"
    BY <2>6, Alone DEF Special
  <2>7. ASSUME NEW w \in Writer, Rotate(w)
        PROVE  Once(e, Durable)' /\ \A v \in Writer : pc'[v] # "fsync"
    <3>1. /\ pc[w] # "fsync" /\ pc'[w] # "fsync"
          /\ \/ UNCHANGED <<rotated, active>>
             \/ /\ Text(active) = active /\ Text(active') = Empty
                /\ DOMAIN rotated' = DOMAIN rotated \cup {Len(rotated) + 1}
                /\ \A i \in DOMAIN rotated : rotated'[i] = rotated[i] /\ i # Len(rotated) + 1
                /\ rotated'[Len(rotated) + 1] = active
      BY <1>0, <2>7, Rotating
    <3>2. Durable = Text(active) /\ Durable' = Text(active')
      BY <2>7, <3>1, NobodyAtFsync DEF Step
    <3>3. CASE UNCHANGED <<rotated, active>>
      <4>1. Mended(Durable, Durable') /\ rotated' = rotated
        BY <1>0, <3>2, <3>3 DEF Mended
      <4> QED BY <2>1, <2>3, <2>6, <2>7, <3>1, <4>1 DEF Step
    <3>4. CASE ~UNCHANGED <<rotated, active>>
      <4>1. Once(e, active) /\ Durable' = Empty
        BY <2>0, <3>1, <3>2, <3>4
      <4>2. OnceNext(Empty)
        <5> DEFINE f == active
                   n == Len(rotated) + 1
        <5>1. /\ Once(e, f) /\ DOMAIN rotated' = DOMAIN rotated \cup {n}
              /\ \A i \in DOMAIN rotated : rotated'[i] = rotated[i] /\ i # n
              /\ rotated'[n] = f
          BY <3>1, <3>4, <4>1
        <5> HIDE DEF f, n
        <5> QED BY <5>1, OnceRotated DEF OnceNext
      <4> QED BY <2>1, <2>6, <2>7, <3>1, <4>1, <4>2 DEF Step
    <3> QED BY <3>3, <3>4
  <2>8. ASSUME NEW w \in Writer, Write(w)
        PROVE  Once(e, Durable)' /\ \A v \in Writer : pc'[v] = "fsync" => NewTo(e, job[v].out, job[v].base)'
    <3>1. pc[w] # "fsync" /\ rotated' = rotated
      BY <2>8, Writing DEF Write
    <3>w. PICK base, out : Wrote(w, base, out)
      BY <2>8, Writing
    <3>2.
              /\ base \in {Text(active), Repaired(Text(active))}
              /\ \/ /\ pc' = [pc EXCEPT ![w] = "fsync"]
                    /\ job' = [job EXCEPT ![w].out = out, ![w].base = base,
                                          ![w].backlog = Repaired(Text(degraded)).lines # <<>>]
                    /\ \A k \in Keyed : NewTo(k, out, base)
                 \/ pc' = [pc EXCEPT ![w] = "spool"] /\ Text(active') = base
      BY <3>w DEF Wrote
    <3>3. Durable = Text(active)
      BY <2>8, <3>1, NobodyAtFsync DEF Step
    <3>4. Mended(Durable, base)
      BY <1>0, <3>2, <3>3, RepairedOnce
    <3>5. CASE /\ pc' = [pc EXCEPT ![w] = "fsync"]
               /\ job' = [job EXCEPT ![w].out = out, ![w].base = base,
                                     ![w].backlog = Repaired(Text(degraded)).lines # <<>>]
               /\ \A k \in Keyed : NewTo(k, out, base)
      <4>1. pc'[w] = "fsync" /\ job'[w].base = base /\ job'[w].out = out
        BY <1>0, <3>5 DEF Job
      <4>2. Durable' = base
        BY <2>8, <4>1, NobodyAtFsync DEF Step
      <4>3. Once(e, Durable)'
        BY <2>1, <2>3, <3>1, <3>4, <4>2
      <4>4. NewTo(e, job[w].out, job[w].base)'
        BY <2>4, <3>1, <3>5, <4>1
      <4> QED BY <2>6, <2>8, <4>3, <4>4 DEF Step
    <3>6. CASE pc' = [pc EXCEPT ![w] = "spool"] /\ Text(active') = base
      <4>1. pc'[w] # "fsync"
        BY <1>0, <3>6
      <4>2. Durable' = base
        BY <2>8, <3>6, <4>1, NobodyAtFsync DEF Step
      <4>3. Once(e, Durable)'
        BY <2>1, <2>3, <3>1, <3>4, <4>2
      <4> QED BY <2>6, <2>8, <4>1, <4>3 DEF Step
    <3> QED BY <3>2, <3>5, <3>6
  <2>9. ASSUME NEW w \in Writer, Fsync(w) \/ Tear(w), pc[w] = "fsync"
        PROVE  Once(e, Durable)' /\ \A v \in Writer : pc'[v] # "fsync"
    <3> DEFINE f == job[w].base
               out == job[w].out
    <3>1. WellFormed(f) /\ out \in Seq(Event) /\ Durable = f
      BY <1>0, <2>9, NobodyAtFsync DEF Job, Step
    <3>2. pc'[w] # "fsync" /\ rotated' = rotated
      <4>1. CASE Fsync(w)
        BY <1>0, <4>1 DEF Fsync, Return, Goto, files
      <4>2. CASE Tear(w)
        BY <4>2, Tearing DEF Tear, Special
      <4> QED BY <2>9, <4>1, <4>2
    <3>3. Durable' = Text(active')
      BY <2>9, <3>2, NobodyAtFsync DEF Step
    <3>4. Extends(Text(active'), f, out)
      <4>1. CASE Fsync(w)
        <5>1. active' = active /\ active = Grown(f, out, Len(out))
          BY <2>9, <4>1 DEF Fsync, files, Appending
        <5> HIDE DEF f, out
        <5> QED BY <3>1, <5>1, GrownHas
      <4>2. CASE Tear(w)
        BY <2>9, <4>2, Tearing
      <4> QED BY <2>9, <4>1, <4>2
    <3>5. NewTo(e, out, f) /\ Once(e, f)
      BY <2>0, <2>9, <3>1
    <3> DEFINE g == Text(active')
    <3> HIDE DEF f, out, g
    <3>6. Once(e, g)
      BY <2>0, <3>1, <3>4, <3>5, OnceExtends DEF g
    <3>7. Durable' = g
      BY <3>3 DEF g
    <3>8. OnceNext(g)
      BY <2>2, <3>2, <3>6
    <3> QED BY <2>1, <2>6, <2>9, <3>2, <3>7, <3>8 DEF Step
  <2>10. ASSUME NEW w \in Writer, Unlink(w) \/ Spool(w) \/ (Tear(w) /\ pc[w] = "spoolsync")
         PROVE  Once(e, Durable)' /\ \A v \in Writer : pc'[v] # "fsync"
    <3>1. /\ pc[w] # "fsync" /\ pc'[w] # "fsync" /\ rotated' = rotated /\ active' = active
      <4>1. CASE Unlink(w)
        BY <1>0, <4>1 DEF Unlink, Return, Goto
      <4>2. CASE Spool(w)
        BY <1>0, <4>2 DEF Spool, Goto
      <4>3. CASE Tear(w) /\ pc[w] = "spoolsync"
        BY <4>3, Tearing DEF Tear, Special
      <4> QED BY <2>10, <4>1, <4>2, <4>3
    <3>2. Durable = Text(active) /\ Durable' = Text(active')
      BY <2>10, <3>1, NobodyAtFsync DEF Step
    <3>3. Mended(Durable, Durable')
      BY <1>0, <3>1, <3>2 DEF Mended
    <3> QED BY <2>1, <2>3, <2>6, <2>10, <3>1, <3>3 DEF Step
  <2>11. CASE ReplaceTarget \/ PruneStart
    <3>1. \A w \in Writer : pc[w] # "fsync" /\ pc'[w] # "fsync"
      BY <2>11, NobodyWorks DEF Special
    <3>2. Durable = Text(active) /\ Durable' = Text(active')
      BY <3>1, DurableIs, DurableIsNext
    <3>3. Mended(Text(active), Text(active')) /\ DOMAIN rotated' = DOMAIN rotated
          /\ \A i \in DOMAIN rotated : rotated'[i] = rotated[i] \/ Mended(rotated[i], rotated'[i])
      <4>1. CASE ReplaceTarget
        BY <4>1, Replacing
      <4>2. CASE PruneStart
        BY <4>2, Pruning
      <4> QED BY <2>11, <4>1, <4>2
    <3> DEFINE f == Durable
               g == Durable'
    <3>4. Once(e, f) /\ Single(g, e) /\ Readable(g) \subseteq Readable(f)
      BY <2>0, <3>2, <3>3 DEF Mended, Once
    <3> HIDE DEF f, g
    <3>5. OnceNext(g)
      BY <3>3, <3>4, OnceMended DEF OnceNext
    <3>6. Durable' = g
      BY DEF g
    <3> QED BY <2>1, <3>1, <3>5, <3>6
  <2>12. ASSUME NEW w \in Writer, Step(w)
         PROVE  Once(e, Durable)' /\ \A v \in Writer : pc'[v] = "fsync" => NewTo(e, job[v].out, job[v].base)'
    <3>1. Tear(w) => pc[w] = "fsync" \/ pc[w] = "spoolsync"
      BY DEF Tear
    <3>2. Fsync(w) => pc[w] = "fsync"
      BY DEF Fsync
    <3> QED BY <2>7, <2>8, <2>9, <2>10, <2>12, <3>1, <3>2 DEF Step
  <2> QED BY <2>5, <2>11, <2>12, Moves, NobodyWorks DEF Special
<1> QED
  BY <1>1 DEF KeysOnce

-----------------------------------------------------------------------------
(* Without a fault *)

\* A step of one writer that moves events only to where its call brings them.
LEMMA SettledBy ==
    ASSUME NEW e, Settled(e), NEW w \in Writer,
           Once(e, Text(active))', Single(Text(degraded'), e), spent' = spent,
           e \in InLog' \cap Readable(Text(degraded')) => \E v \in Writer : pc'[v] \in {"fsync", "unlink"},
           e \in InLog' \cup Readable(Text(degraded')) =>
               \/ e \in InLog \cup Readable(Text(degraded))
               \/ pc[w] # "idle" /\ job[w].event = e /\ pc'[w] \notin Pending,
           \A v \in Writer : pc'[v] # "idle" =>
               /\ pc[v] # "idle" /\ job'[v].event = job[v].event
               /\ pc'[v] \in Pending => pc[v] \in Pending
    PROVE  Settled(e)'
<1>1. e \in InLog' \cup Readable(Text(degraded')) => e \in spent.tried
  BY DEF Settled
<1>2. ASSUME NEW v \in Writer, pc'[v] # "idle", job'[v].event = e
      PROVE  /\ e \in spent.tried
             /\ \A u \in Writer : pc'[u] # "idle" /\ job'[u].event = e => u = v
             /\ pc'[v] \in Pending => e \notin InLog' \cup Readable(Text(degraded'))
  <2>1. pc[v] # "idle" /\ job[v].event = e
    BY <1>2
  <2>2. e \in spent.tried /\ \A u \in Writer : pc[u] # "idle" /\ job[u].event = e => u = v
    BY <2>1 DEF Settled
  <2>3. pc'[v] \in Pending => e \notin InLog \cup Readable(Text(degraded))
    BY <1>2, <2>1 DEF Settled
  <2>4. pc'[v] \in Pending => e \notin InLog' \cup Readable(Text(degraded'))
    BY <2>2, <2>3
  <2> QED BY <2>2, <2>4
<1>3. Text(degraded)' = Text(degraded')
  BY DEF Text
<1>4. Readable(Text(degraded))' = Readable(Text(degraded'))
  BY <1>3 DEF Readable
<1>5. Single(Text(degraded), e)'
  BY <1>3 DEF Single
<1> QED
  BY <1>1, <1>2, <1>4, <1>5 DEF Settled, Pending

\* A step that changes no file.
LEMMA SettledCalm ==
    ASSUME NEW e, Settled(e), NEW w \in Writer, UNCHANGED <<active, rotated, degraded>>, spent' = spent,
           \/ \A v \in Writer : pc[v] \in {"fsync", "unlink"} => pc'[v] \in {"fsync", "unlink"}
           \/ Readable(Text(degraded)) = {},
           \A v \in Writer : pc'[v] # "idle" =>
               /\ pc[v] # "idle" /\ job'[v].event = job[v].event
               /\ pc'[v] \in Pending => pc[v] \in Pending
    PROVE  Settled(e)'
<1>1. InLog' = InLog /\ Text(degraded') = Text(degraded)
  BY DEF InLog, Text, Readable
<1>2. Once(e, Text(active))' /\ Single(Text(degraded'), e)
  BY <1>1 DEF Settled, Once, Text, Single, Readable
<1>3. e \in InLog' \cap Readable(Text(degraded')) => \E v \in Writer : pc'[v] \in {"fsync", "unlink"}
  BY <1>1 DEF Settled
<1> QED
  BY <1>1, <1>2, <1>3, SettledBy

\* What a step without a fault is.
FaultFree(w) ==
    \/ TakeAuditLock(w) \/ TakeDegradedLock(w) \/ LockTimeout(w) \/ TakeSpoolLock(w)
    \/ DropEvent(w) \/ SpoolFsync(w)
    \/ Rotate(w) \/ Write(w) \/ Fsync(w) \/ Unlink(w) \/ Spool(w)
LEMMA FaultFrees ==
    ASSUME Typed, Locked, Faultless, RepairKnown, RepairNext, spent'.faults = 0
    PROVE  /\ spent.faults = 0 /\ fence = None /\ Untorn /\ (\A e \in Plain : Settled(e))
           /\ UNCHANGED repairVars
           /\ \/ \E w \in Writer : FaultFree(w) /\ spent' = spent
              \/ \E w \in Writer, e \in Event : Call(w, e)
<1>0. spent \in Spent /\ spent.faults \in Nat /\ rotated \in Seq(File)
  BY DEF Typed, RepairTypeOK, TypeOK, Spent
<1>1. ASSUME Fault PROVE FALSE
  <2>1. spent' = [spent EXCEPT !["faults"] = @ + 1]
    BY <1>1 DEF Fault, Tally
  <2>2. spent'.faults = spent.faults + 1
    BY <1>0, <2>1 DEF Spent
  <2> QED BY <1>0, <2>2
<1>2. ASSUME NEW w \in Writer, NEW e \in Event, Call(w, e) PROVE spent'.faults = spent.faults
  BY <1>0, <1>2 DEF Call, Spent
<1>3. ASSUME NEW w \in Writer, Proceed(w)
      PROVE  (FaultFree(w) \/ BreakStaleLocks(w)) /\ spent' = spent
  <2>1. FaultFree(w) \/ BreakStaleLocks(w)
    BY <1>1, <1>3 DEF Proceed, FaultFree, Crash, AppendError, LateError
  <2>2. ASSUME \/ TakeAuditLock(w) \/ TakeDegradedLock(w) \/ LockTimeout(w) \/ TakeSpoolLock(w)
               \/ DropEvent(w) \/ SpoolFsync(w) \/ BreakStaleLocks(w)
        PROVE  spent' = spent
    BY <2>2 DEF TakeAuditLock, TakeDegradedLock, LockTimeout, TakeSpoolLock, DropEvent, SpoolFsync,
                BreakStaleLocks
  <2>3. ASSUME Rotate(w) \/ Fsync(w) \/ Unlink(w) \/ Spool(w) PROVE spent' = spent
    BY <2>3 DEF Rotate, Fsync, Unlink, Spool
  <2>4. ASSUME Write(w) PROVE spent' = spent
    BY <2>4 DEF Write
  <2> QED BY <2>1, <2>2, <2>3, <2>4 DEF FaultFree
<1>4. spent.faults = 0
  <2>1. CASE LogStep
    BY <1>2, <1>3, <2>1 DEF LogStep
  <2>2. CASE RecordRepair
    BY <1>2, <2>2, RepairConstants DEF RecordRepair, Event
  <2>3. CASE OpCrash
    BY <1>1, <2>3 DEF OpCrash
  <2>4. CASE Diagnose \/ RepairStart \/ Resume \/ Backup \/ PrepareReceipt \/ ReplaceTarget \/ MarkReplaced
             \/ Recorded \/ CommitReceipt \/ CommitRefused
    BY <2>4 DEF Diagnose, RepairStart, Resume, Backup, PrepareReceipt, ReplaceTarget, MarkReplaced,
                Recorded, CommitReceipt, CommitRefused, vars
  <2>5. CASE PruneStart
    BY <2>5, Pruning
  <2>6. CASE RetainReceipt \/ RetainStage \/ RetainMark \/ RetainUnstage \/ RetainDone
    BY <2>6 DEF RetainReceipt, RetainStage, RetainMark, RetainUnstage, RetainDone, vars
  <2> QED BY <2>1, <2>2, <2>3, <2>4, <2>5, <2>6 DEF RepairNext, OperatorStep
<1>5. fence = None /\ Untorn /\ \A e \in Plain : Settled(e)
  BY <1>4 DEF Faultless
<1>6. op = "idle"
  BY <1>5 DEF RepairKnown, Phases
<1>7. ~Diagnose
  <2>1. ASSUME NEW s \in 0..(Len(rotated) + 1), FileOf(s) # None PROVE ~Damaged(FileOf(s))
    <3>1. CASE s = 0
      BY <1>5, <2>1, <3>1, Texts DEF FileOf, EventsSegment, Untorn, Clean
    <3>2. CASE s = 1
      BY <1>5, <2>1, <3>2, Texts DEF FileOf, EventsSegment, SpoolSegment, Untorn, Clean
    <3>3. CASE s \notin {0, 1}
      <4>1. FileOf(s) = rotated[s - 1] /\ s - 1 \in DOMAIN rotated
        BY <1>0, <2>1, <3>3 DEF FileOf, EventsSegment, SpoolSegment, Rotated
      <4> QED BY <1>5, <4>1 DEF Untorn, Clean
    <3> QED BY <3>1, <3>2, <3>3
  <2> QED BY <2>1 DEF Diagnose
<1>8. LogStep
  <2>1. ~OpCrash
    BY <1>1 DEF OpCrash
  <2>2. ~RepairStart /\ ~Resume /\ ~Backup /\ ~PrepareReceipt /\ ~ReplaceTarget /\ ~MarkReplaced
        /\ ~RecordRepair /\ ~Recorded /\ ~CommitReceipt /\ ~CommitRefused
    BY <1>5, <1>6 DEF RepairStart, Resume, Backup, PrepareReceipt, ReplaceTarget, MarkReplaced,
                      RecordRepair, Recorded, CommitReceipt, CommitRefused
  <2>3. ~PruneStart /\ ~RetainReceipt /\ ~RetainStage /\ ~RetainMark /\ ~RetainUnstage /\ ~RetainDone
    BY <1>5, <1>6 DEF PruneStart, RetainReceipt, RetainStage, RetainMark, RetainUnstage, RetainDone
  <2> QED BY <1>7, <2>1, <2>2, <2>3 DEF RepairNext, OperatorStep
<1>9. \A w \in Writer : ~BreakStaleLocks(w)
  BY <1>5 DEF Untorn, BreakStaleLocks
<1> QED
  BY <1>3, <1>4, <1>5, <1>8, <1>9 DEF LogStep

LEMMA FaultlessStep ==
    ASSUME Typed, Locked, Appending, Faultless, RepairKnown, RepairNext
    PROVE  Faultless'
<1>1. SUFFICES ASSUME spent'.faults = 0
               PROVE  fence' = None /\ Untorn' /\ \A e \in Plain : Settled(e)'
  BY DEF Faultless
<1>2. /\ fence = None /\ Untorn /\ (\A e \in Plain : Settled(e)) /\ fence' = None
      /\ \/ \E w \in Writer : FaultFree(w) /\ spent' = spent
         \/ \E w \in Writer, e \in Event : Call(w, e)
  BY <1>1, FaultFrees DEF repairVars
<1>0. /\ pc \in [Writer -> Pc] /\ job \in [Writer -> Job] /\ spent \in Spent
      /\ WellFormed(Text(active)) /\ WellFormed(Text(degraded)) /\ Plain \subseteq Event
  BY DEF Typed, RepairTypeOK, TypeOK, Event
<1>a. /\ Clean(Text(active)) /\ Clean(Text(degraded)) /\ \A i \in DOMAIN rotated : Clean(rotated[i])
      /\ \A w \in Writer : pc[w] # "dead"
      /\ Repaired(Text(active)) = Text(active) /\ Repaired(Text(degraded)) = Text(degraded)
  BY <1>0, <1>2, RepairedFile DEF Untorn, Clean
\* Who works on the log or the spool is the only one.
<1>b. ASSUME NEW w \in Writer, pc[w] \in Working, pc[w] \notin {"fsync", "unlink"},
             NEW e \in Plain
      PROVE  e \notin InLog \cap Readable(Text(degraded))
  <2>1. \A v \in Writer : pc[v] \notin {"fsync", "unlink"}
    BY <1>b, Exclusive DEF Working, OnLog
  <2> QED BY <1>2, <2>1 DEF Settled
<1>c. InLog = Readable(Text(active)) \cup RotatedKeys
  BY DEF InLog, RotatedKeys
<1>3. ASSUME NEW w \in Writer, NEW d \in Event, Call(w, d)
      PROVE  Untorn' /\ \A e \in Plain : Settled(e)'
  <2>1. /\ pc[w] = "idle" /\ d \notin spent.tried /\ UNCHANGED <<active, rotated, degraded>>
        /\ spent'.tried = spent.tried \cup ({d} \cap Plain)
        /\ pc' = [pc EXCEPT ![w] = "audit"] /\ job' = [job EXCEPT ![w] = [NoJob EXCEPT !.event = d]]
    BY <1>0, <1>3 DEF Call, Goto, files, Spent
  <2>2. Untorn'
    BY <1>0, <1>2, <2>1 DEF Untorn, Text
  <2>3. InLog' = InLog /\ Readable(Text(degraded))' = Readable(Text(degraded))
    BY <2>1 DEF InLog, Text, Readable
  <2>4. /\ pc'[w] = "audit" /\ job'[w].event = d
        /\ \A v \in Writer \ {w} : pc'[v] = pc[v] /\ job'[v] = job[v]
    BY <1>0, <2>1 DEF NoJob
  <2>5. ASSUME NEW e \in Plain PROVE Settled(e)'
    <3>1. Once(e, Text(active))' /\ Single(Text(degraded), e)'
      BY <1>2, <2>1 DEF Settled, Once, Text, Single, Readable
    <3>2. e \in InLog' \cap Readable(Text(degraded))' => \E v \in Writer : pc'[v] \in {"fsync", "unlink"}
      BY <1>2, <2>1, <2>3, <2>4 DEF Settled
    <3>3. e \in InLog' \cup Readable(Text(degraded))' => e \in spent'.tried
      BY <1>2, <2>1, <2>3 DEF Settled
    <3>4. ASSUME NEW v \in Writer, pc'[v] # "idle", job'[v].event = e
          PROVE  /\ e \in spent'.tried
                 /\ \A u \in Writer : pc'[u] # "idle" /\ job'[u].event = e => u = v
                 /\ pc'[v] \in Pending => e \notin InLog' \cup Readable(Text(degraded))'
      <4>1. CASE v = w
        <5>1. e = d /\ e \notin spent.tried /\ e \in spent'.tried
          BY <2>1, <2>4, <3>4, <4>1
        <5>2. \A u \in Writer \ {w} : ~(pc[u] # "idle" /\ job[u].event = e)
          BY <1>2, <5>1 DEF Settled
        <5>3. e \notin InLog' \cup Readable(Text(degraded))'
          BY <1>2, <2>3, <5>1 DEF Settled
        <5> QED BY <2>4, <4>1, <5>1, <5>2, <5>3
      <4>2. CASE v # w
        <5>1. pc[v] # "idle" /\ job[v].event = e /\ pc'[v] = pc[v]
          BY <2>4, <3>4, <4>2
        <5>2. /\ e \in spent.tried
              /\ \A u \in Writer : pc[u] # "idle" /\ job[u].event = e => u = v
              /\ pc[v] \in Pending => e \notin InLog \cup Readable(Text(degraded))
          BY <1>2, <5>1 DEF Settled
        <5>3. e # d
          BY <2>1, <5>2
        <5> QED BY <2>1, <2>3, <2>4, <5>1, <5>2, <5>3
      <4> QED BY <4>1, <4>2
    <3> QED BY <3>1, <3>2, <3>3, <3>4 DEF Settled, Pending
  <2> QED BY <2>2, <2>5
<1>4. ASSUME NEW w \in Writer, spent' = spent,
             \/ TakeAuditLock(w) \/ TakeDegradedLock(w) \/ LockTimeout(w) \/ TakeSpoolLock(w)
             \/ DropEvent(w) \/ SpoolFsync(w)
      PROVE  Untorn' /\ \A e \in Plain : Settled(e)'
  <2>1. /\ UNCHANGED <<active, rotated, degraded>> /\ pc[w] \notin {"fsync", "unlink", "idle"}
        /\ \A v \in Writer \ {w} : pc'[v] = pc[v] /\ job'[v] = job[v]
        /\ \/ pc'[w] \in Pending /\ pc[w] \in Pending /\ job'[w] = job[w]
           \/ pc'[w] = "rotate" /\ pc[w] \in Pending /\ job'[w] = job[w]
           \/ pc'[w] = "idle"
    <3>1. CASE TakeAuditLock(w) \/ TakeDegradedLock(w) \/ LockTimeout(w) \/ TakeSpoolLock(w)
      BY <1>0, <3>1 DEF TakeAuditLock, TakeDegradedLock, LockTimeout, TakeSpoolLock, Goto, files, Pending
    <3>2. CASE DropEvent(w) \/ SpoolFsync(w)
      BY <1>0, <3>2 DEF DropEvent, SpoolFsync, Return, Goto, files
    <3> QED BY <1>4, <3>1, <3>2
  <2>2. Untorn'
    <3>1. \A v \in Writer : pc'[v] # "dead"
      BY <1>a, <2>1 DEF Pending
    <3> QED BY <1>2, <2>1, <3>1 DEF Untorn, Text
  <2>3. \A v \in Writer : pc'[v] # "idle" =>
            /\ pc[v] # "idle" /\ job'[v].event = job[v].event
            /\ pc'[v] \in Pending => pc[v] \in Pending
    BY <2>1
  <2>4. \A v \in Writer : pc[v] \in {"fsync", "unlink"} => pc'[v] \in {"fsync", "unlink"}
    BY <2>1
  <2> QED BY <1>2, <1>4, <2>1, <2>2, <2>3, <2>4, SettledCalm
<1>5. ASSUME NEW w \in Writer, Rotate(w)
      PROVE  Untorn' /\ \A e \in Plain : Settled(e)'
  <2>1. /\ UNCHANGED <<degraded, job, spent>> /\ pc' = [pc EXCEPT ![w] = "read"] /\ pc[w] = "rotate"
        /\ \/ UNCHANGED <<rotated, active>>
           \/ /\ active' = None /\ Text(active) = active /\ Text(active') = Empty
              /\ DOMAIN rotated' = DOMAIN rotated \cup {Len(rotated) + 1}
              /\ \A i \in DOMAIN rotated : rotated'[i] = rotated[i] /\ i # Len(rotated) + 1
              /\ rotated'[Len(rotated) + 1] = active
    BY <1>5, Rotating
  <2>2. /\ pc'[w] = "read" /\ pc[w] \in Pending /\ \A v \in Writer \ {w} : pc'[v] = pc[v]
        /\ \A v \in Writer : pc'[v] # "dead"
    BY <1>0, <1>a, <2>1 DEF Pending
  <2>3. \A v \in Writer : pc'[v] # "idle" =>
            /\ pc[v] # "idle" /\ job'[v].event = job[v].event
            /\ pc'[v] \in Pending => pc[v] \in Pending
    BY <2>1, <2>2
  <2>4. CASE UNCHANGED <<rotated, active>>
    <3>1. Untorn'
      BY <1>2, <2>1, <2>2, <2>4 DEF Untorn, Text
    <3>2. \A v \in Writer : pc[v] \in {"fsync", "unlink"} => pc'[v] \in {"fsync", "unlink"}
      BY <2>1, <2>2
    <3> QED BY <1>2, <2>1, <2>3, <2>4, <3>1, <3>2, SettledCalm
  <2>5. CASE ~UNCHANGED <<rotated, active>>
    <3> DEFINE n == Len(rotated) + 1
    <3>1. /\ Text(active) = active /\ Text(active)' = Empty /\ Text(degraded)' = Text(degraded)
          /\ DOMAIN rotated' = DOMAIN rotated \cup {n}
          /\ \A i \in DOMAIN rotated : rotated'[i] = rotated[i] /\ i # n
          /\ rotated'[n] = active
      BY <2>1, <2>5, Texts DEF Text
    <3> HIDE DEF n
    <3>2. Untorn'
      <4>1. \A i \in DOMAIN rotated' : Clean(rotated'[i])
        BY <1>a, <3>1
      <4>2. Clean(Empty)
        BY EmptyFile
      <4> QED BY <1>a, <2>2, <3>1, <4>1, <4>2 DEF Untorn
    <3>3. InLog' = InLog /\ Text(degraded') = Text(degraded)
      <4>1. Readable(Empty) = {}
        BY EmptyFile
      <4>2. InLog' = UNION {Readable(rotated'[i]) : i \in DOMAIN rotated'}
        BY <3>1, <4>1 DEF InLog
      <4> QED BY <2>1, <3>1, <4>2 DEF InLog
    <3>4. ASSUME NEW e \in Plain PROVE Settled(e)'
      <4> DEFINE f == Text(active)
      <4>1. Once(e, f) /\ Single(Text(degraded'), e)
        BY <1>2, <3>3 DEF Settled
      <4>2. rotated'[n] = f
        BY <3>1
      <4> HIDE DEF f
      <4>3. /\ Single(Empty, e)
            /\ \A i \in DOMAIN rotated' :
                  /\ Single(rotated'[i], e)
                  /\ e \in Readable(rotated'[i]) =>
                         /\ e \notin Readable(Empty)
                         /\ \A j \in DOMAIN rotated' : e \in Readable(rotated'[j]) => i = j
        BY <3>1, <4>1, <4>2, OnceRotated
      <4>4. Once(e, Text(active))'
        BY <3>1, <4>3 DEF Once
      <4>5. e \notin InLog' \cap Readable(Text(degraded'))
        BY <1>b, <2>1, <3>3 DEF Working, OnLog
      <4> QED BY <1>2, <2>1, <2>3, <3>3, <4>1, <4>4, <4>5, SettledBy
    <3> QED BY <3>2, <3>4
  <2> QED BY <2>4, <2>5
<1>7. ASSUME NEW w \in Writer, Fsync(w)
      PROVE  Untorn' /\ \A e \in Plain : Settled(e)'
  <2>1. /\ UNCHANGED <<active, rotated, degraded, spent>> /\ pc[w] = "fsync"
        /\ job[w].backlog <=> Text(degraded).lines # <<>>
    BY <1>7 DEF Fsync, files, Appending
  <2>2. \/ pc' = [pc EXCEPT ![w] = "unlink"] /\ job' = job
        \/ /\ ~job[w].backlog /\ pc' = [pc EXCEPT ![w] = "idle"]
           /\ job' = [job EXCEPT ![w] = [NoJob EXCEPT !.answer = TRUE]]
    BY <1>7 DEF Fsync, Return, Goto
  <2>3. /\ \/ pc'[w] = "unlink" /\ job'[w] = job[w]
           \/ pc'[w] = "idle" /\ Text(degraded).lines = <<>>
        /\ \A v \in Writer \ {w} : pc'[v] = pc[v] /\ job'[v] = job[v]
    BY <1>0, <2>1, <2>2
  <2>4. Untorn'
    <3>1. \A v \in Writer : pc'[v] # "dead"
      BY <1>a, <2>3
    <3> QED BY <1>2, <2>1, <3>1 DEF Untorn, Text
  <2>5. \/ \A v \in Writer : pc[v] \in {"fsync", "unlink"} => pc'[v] \in {"fsync", "unlink"}
        \/ Readable(Text(degraded)) = {}
    <3>1. Text(degraded).lines = <<>> => Readable(Text(degraded)) = {}
      BY DEF Readable
    <3> QED BY <2>3, <3>1
  <2>6. \A v \in Writer : pc'[v] # "idle" =>
            /\ pc[v] # "idle" /\ job'[v].event = job[v].event
            /\ pc'[v] \in Pending => pc[v] \in Pending
    BY <2>1, <2>3 DEF Pending
  <2> QED BY <1>2, <2>1, <2>4, <2>5, <2>6, SettledCalm
<1>8. ASSUME NEW w \in Writer, Unlink(w)
      PROVE  Untorn' /\ \A e \in Plain : Settled(e)'
  <2>1. /\ UNCHANGED <<active, rotated, spent>> /\ degraded' = None
        /\ pc' = [pc EXCEPT ![w] = "idle"] /\ job' = [job EXCEPT ![w] = [NoJob EXCEPT !.answer = TRUE]]
    BY <1>8 DEF Unlink, Return, Goto
  <2>2. pc'[w] = "idle" /\ \A v \in Writer \ {w} : pc'[v] = pc[v] /\ job'[v] = job[v]
    BY <1>0, <2>1
  <2>3. Text(degraded') = Empty /\ Readable(Empty) = {} /\ Clean(Empty) /\ InLog' = InLog
        /\ \A e : Single(Empty, e)
    BY <2>1, Texts, EmptyFile DEF InLog, Text, Readable, Single, Empty
  <2>4. Untorn'
    <3>1. Text(degraded)' = Empty /\ Text(active)' = Text(active)
      BY <2>1, <2>3 DEF Text
    <3> QED BY <1>a, <2>1, <2>2, <2>3, <3>1 DEF Untorn
  <2>5. \A v \in Writer : pc'[v] # "idle" =>
            /\ pc[v] # "idle" /\ job'[v].event = job[v].event
            /\ pc'[v] \in Pending => pc[v] \in Pending
    BY <2>2
  <2>6. ASSUME NEW e \in Plain PROVE Settled(e)'
    <3>1. Once(e, Text(active))'
      BY <1>2, <2>1 DEF Settled, Once, Text, Single, Readable
    <3> QED BY <1>2, <2>1, <2>3, <2>5, <3>1, SettledBy
  <2> QED BY <2>4, <2>6
<1>9. ASSUME NEW w \in Writer, Spool(w)
      PROVE  Untorn' /\ \A e \in Plain : Settled(e)'
  <2> DEFINE f == Text(degraded)
             g == Text(degraded')
             d == job[w].event
  <2>1. /\ UNCHANGED <<active, rotated, spent>> /\ pc[w] = "spooling"
        /\ pc' = [pc EXCEPT ![w] = "spoolsync"]
    BY <1>9, Spooling
  <2> DEFINE base == Repaired(Text(degraded))
  <2>b. PICK out \in Seq(Event) :
              /\ ToSet(out) \subseteq {d} /\ \A m, n \in DOMAIN out : m = n
              /\ job' = [job EXCEPT ![w].out = out, ![w].base = base]
              /\ Extends(g, base, out) /\ (Clean(base) => Clean(g))
    BY <1>9, Spooling
  <2>2. /\ ToSet(out) \subseteq {d} /\ \A m, n \in DOMAIN out : m = n
        /\ job' = [job EXCEPT ![w].out = out, ![w].base = base]
        /\ Extends(g, f, out) /\ Clean(g)
    BY <1>a, <2>b
  <2> HIDE DEF base
  <2>3. /\ pc'[w] = "spoolsync" /\ job'[w].event = d
        /\ \A v \in Writer \ {w} : pc'[v] = pc[v] /\ job'[v] = job[v]
    BY <1>0, <2>1, <2>2 DEF Job
  <2>4. Untorn'
    <3>1. Text(degraded)' = g /\ Text(active)' = Text(active)
      BY <2>1 DEF Text
    <3> HIDE DEF g
    <3> QED BY <1>a, <2>1, <2>2, <2>3, <3>1 DEF Untorn
  <2>5. \A v \in Writer : pc'[v] # "idle" =>
            /\ pc[v] # "idle" /\ job'[v].event = job[v].event
            /\ pc'[v] \in Pending => pc[v] \in Pending
    BY <2>1, <2>3 DEF Pending
  <2>6. InLog' = InLog /\ pc'[w] \notin Pending /\ pc[w] \in Pending /\ pc[w] # "idle"
    BY <2>1, <2>3 DEF InLog, Text, Readable, Pending
  <2>7. WellFormed(f) /\ Readable(g) \subseteq Readable(f) \cup {d}
    <3>1. WellFormed(f)
      BY <1>0
    <3> HIDE DEF f, g
    <3> QED BY <2>2, <3>1, ReadableExtends
  <2>8. ASSUME NEW e \in Plain PROVE Settled(e)'
    <3>1. d = e => e \notin InLog \cup Readable(f)
      BY <1>2, <2>6 DEF Settled
    <3>2. Single(f, e) /\ e \in Event
      BY <1>0, <1>2 DEF Settled
    <3>3. \A m, n \in DOMAIN out : out[m] = e => e \notin Readable(f) /\ (out[n] = e => m = n)
      BY <2>2, <3>1 DEF ToSet
    <3>4. Single(g, e)
      <4> HIDE DEF f, g
      <4> QED BY <2>2, <2>7, <3>2, <3>3, SingleExtends
    <3>5. e \notin InLog \cap Readable(f)
      BY <1>b, <2>1 DEF Working, OnSpool
    <3>6. e \notin InLog' \cap Readable(g)
      BY <2>6, <2>7, <3>1, <3>5
    <3>7. Once(e, Text(active))'
      BY <1>2, <2>1 DEF Settled, Once, Text, Single, Readable
    <3>8. e \in InLog' \cup Readable(g) =>
              \/ e \in InLog \cup Readable(f)
              \/ pc[w] # "idle" /\ job[w].event = e /\ pc'[w] \notin Pending
      BY <2>6, <2>7
    <3> QED BY <1>2, <2>1, <2>5, <3>4, <3>6, <3>7, <3>8, SettledBy
  <2> QED BY <2>4, <2>8
<1>6. ASSUME NEW w \in Writer, Write(w)
      PROVE  Untorn' /\ \A e \in Plain : Settled(e)'
  <2> DEFINE f == Text(active)
             s == Text(degraded)
             d == job[w].event
  <2>1. UNCHANGED <<rotated, spent>> /\ pc[w] = "read" /\ Text(degraded') = s
    BY <1>6, <1>a, Writing DEF Write
  <2>w. PICK base, out : Wrote(w, base, out)
    BY <1>6, Writing
  <2>2. base = f
    BY <1>a, <2>w DEF Wrote
  <2>3. /\ pc' = [pc EXCEPT ![w] = "fsync"]
        /\ out \in Seq(Event) /\ active' = Grown(f, out, Len(out))
        /\ job' = [job EXCEPT ![w].out = out, ![w].base = base, ![w].backlog = s.lines # <<>>]
        /\ ToSet(out) \subseteq Readable(s) \cup {d}
        /\ \A p \in Plain :
               /\ Single(s, p) /\ (p = d => p \notin Readable(s))
               /\ p \in Readable(s) \cup {d} => p \notin Readable(f) \cup RotatedKeys
               => NewTo(p, out, f)
    BY <1>a, <2>w, <2>2 DEF Wrote, Clean
  <2>4. /\ pc'[w] = "fsync" /\ job'[w].event = d
        /\ \A v \in Writer \ {w} : pc'[v] = pc[v] /\ job'[v] = job[v]
    BY <1>0, <2>3 DEF Job
  <2> DEFINE g == Grown(f, out, Len(out))
  <2>5. WellFormed(f) /\ Extends(g, f, out) /\ Text(g) = g /\ Clean(g)
    <3>1. WellFormed(f) /\ Clean(f) /\ Len(out) \in 0..Len(out)
      BY <1>0, <1>a, <2>3
    <3> HIDE DEF f
    <3> QED BY <2>3, <3>1, GrownHas, GrownExtends
  <2>6. active' = g /\ Text(active)' = g /\ Text(degraded)' = s
    BY <2>1, <2>3, <2>5 DEF Text
  <2> HIDE DEF g
  <2>7. Untorn'
    BY <1>a, <2>1, <2>4, <2>5, <2>6 DEF Untorn
  <2>8. \A v \in Writer : pc'[v] # "idle" =>
            /\ pc[v] # "idle" /\ job'[v].event = job[v].event
            /\ pc'[v] \in Pending => pc[v] \in Pending
    BY <2>1, <2>4 DEF Pending
  <2>9. Readable(g) \subseteq Readable(f) \cup Readable(s) \cup {d}
    <3>1. WellFormed(f) /\ Extends(g, f, out) /\ out \in Seq(Event)
      BY <2>3, <2>5
    <3>2. Readable(g) \subseteq Readable(f) \cup ToSet(out)
      <4> HIDE DEF f
      <4> QED BY <3>1, ReadableExtends
    <3> QED BY <2>3, <3>2
  <2>10. InLog' = Readable(g) \cup RotatedKeys /\ pc'[w] \notin Pending /\ pc[w] \in Pending /\ pc[w] # "idle"
    BY <2>1, <2>4, <2>6 DEF InLog, RotatedKeys, Pending
  <2>11. ASSUME NEW e \in Plain PROVE Settled(e)'
    <3>1. d = e => e \notin InLog \cup Readable(s)
      BY <1>2, <2>10 DEF Settled
    <3>2. Single(s, e) /\ e \in Event /\ Once(e, f)
      BY <1>0, <1>2 DEF Settled
    <3>3. e \notin InLog \cap Readable(s)
      BY <1>b, <2>1 DEF Working, OnLog
    <3>4. NewTo(e, out, f)
      BY <1>c, <2>3, <3>1, <3>2, <3>3
    <3>5. Once(e, g)
      <4> HIDE DEF f
      <4> QED BY <2>3, <2>5, <3>2, <3>4, OnceExtends
    <3>6. Once(e, Text(active))'
      BY <2>1, <2>6, <3>5 DEF Once
    <3>7. e \in InLog' \cup Readable(s) =>
              \/ e \in InLog \cup Readable(s)
              \/ pc[w] # "idle" /\ job[w].event = e /\ pc'[w] \notin Pending
      BY <1>c, <2>9, <2>10
    <3> QED BY <1>2, <2>1, <2>4, <2>8, <3>2, <3>6, <3>7, SettledBy
  <2> QED BY <2>7, <2>11
<1> QED
  BY <1>2, <1>3, <1>4, <1>5, <1>6, <1>7, <1>8, <1>9 DEF FaultFree

-----------------------------------------------------------------------------
(* The operator's command, its evidence and its event *)

\* Where the lines of the segments are, and which events they have.
LEMMA SegmentsHave ==
    ASSUME NEW r \in Seq(File), NEW f, WellFormed(f), \A i \in DOMAIN r : WellFormed(r[i])
    PROVE  LET S == r \o <<f>>
           IN  /\ Len(S) = Len(r) + 1 /\ S[Len(r) + 1] = f /\ \A i \in 1..Len(r) : S[i] = r[i]
               /\ \A e : e \in Readable(f) \cup UNION {Readable(r[i]) : i \in DOMAIN r}
                      <=> e \in Event /\ \E i \in 1..Len(S) : \E m \in 1..Len(S[i].lines) : S[i].lines[m] = Whole(e)
<1> DEFINE S == r \o <<f>>
           n == Len(r)
<1>1. f \in File /\ n \in Nat /\ DOMAIN r = 1..n
  BY DEF WellFormed
<1>2. Len(S) = n + 1 /\ S[n + 1] = f /\ \A i \in 1..n : S[i] = r[i]
  BY <1>1
<1> HIDE DEF S, n
<1>3. 1..Len(S) = 1..n \cup {n + 1}
  BY <1>1, <1>2
<1>4. \A i \in 1..Len(S) : WellFormed(S[i])
  BY <1>1, <1>2, <1>3
<1>5. \A e : \A i \in 1..Len(S) :
          e \in Readable(S[i]) <=> e \in Event /\ \E m \in 1..Len(S[i].lines) : S[i].lines[m] = Whole(e)
  BY <1>4, BytesSplit
<1>6. \A e : e \in Readable(f) \cup UNION {Readable(r[i]) : i \in DOMAIN r} <=> \E i \in 1..Len(S) : e \in Readable(S[i])
  BY <1>1, <1>2, <1>3
<1> QED
  BY <1>2, <1>5, <1>6 DEF S, n

\* The places of the lines.
LEMMA Places ==
    ASSUME NEW S, NEW e
    PROVE  LET L == UNION {{i} \X (1..Len(S[i].lines)) : i \in 1..Len(S)}
           IN  /\ \A p \in L : p = <<p[1], p[2]>> /\ p[1] \in 1..Len(S) /\ p[2] \in 1..Len(S[p[1]].lines)
               /\ {p \in L : S[p[1]].lines[p[2]] = Whole(e)} # {} <=>
                      \E i \in 1..Len(S) : \E m \in 1..Len(S[i].lines) : S[i].lines[m] = Whole(e)
<1> DEFINE L == UNION {{i} \X (1..Len(S[i].lines)) : i \in 1..Len(S)}
           O == {p \in L : S[p[1]].lines[p[2]] = Whole(e)}
<1>1. ASSUME NEW p \in L
      PROVE  p = <<p[1], p[2]>> /\ p[1] \in 1..Len(S) /\ p[2] \in 1..Len(S[p[1]].lines)
  <2>1. PICK i \in 1..Len(S) : p \in {i} \X (1..Len(S[i].lines))
    OBVIOUS
  <2> QED BY <2>1
<1>2. ASSUME NEW i \in 1..Len(S), NEW m \in 1..Len(S[i].lines) PROVE <<i, m>> \in L
  BY <1>2
<1>3. ASSUME NEW p \in O
      PROVE  \E i \in 1..Len(S) : \E m \in 1..Len(S[i].lines) : S[i].lines[m] = Whole(e)
  BY <1>1, <1>3
<1>4. ASSUME NEW i \in 1..Len(S), NEW m \in 1..Len(S[i].lines), S[i].lines[m] = Whole(e) PROVE O # {}
  <2>1. <<i, m>> \in L
    BY <1>2
  <2> HIDE DEF L
  <2>2. <<i, m>> \in O
    BY <1>4, <2>1
  <2> QED BY <2>2
<1> QED
  BY <1>1, <1>3, <1>4

LEMMA LoggedIs ==
    ASSUME Typed
    PROVE  Logged = InLog
<1>1. rotated \in Seq(File) /\ WellFormed(Text(active)) /\ \A i \in DOMAIN rotated : WellFormed(rotated[i])
  BY DEF Typed, RepairTypeOK, TypeOK
<1>2. \A e : e \in InLog <=>
          e \in Event /\ \E i \in 1..Len(Segments) : \E m \in 1..Len(Segments[i].lines) : Segments[i].lines[m] = Whole(e)
  BY <1>1, SegmentsHave DEF InLog, Segments
<1>3. \A e : Occurrences(e) # {} <=>
          \E i \in 1..Len(Segments) : \E m \in 1..Len(Segments[i].lines) : Segments[i].lines[m] = Whole(e)
  BY Places DEF Occurrences, Lines, LineAt
<1> QED
  BY <1>2, <1>3 DEF Logged
LEMMA LoggedIsNext ==
    ASSUME Typed'
    PROVE  Logged' = Readable(Text(active')) \cup UNION {Readable(rotated'[i]) : i \in DOMAIN rotated'}
<1>1. rotated' \in Seq(File) /\ WellFormed(Text(active')) /\ \A i \in DOMAIN rotated' : WellFormed(rotated'[i])
  BY DEF Typed, RepairTypeOK, TypeOK, Text
<1> DEFINE S == rotated' \o <<Text(active')>>
           A == Readable(Text(active')) \cup UNION {Readable(rotated'[i]) : i \in DOMAIN rotated'}
<1>2. \A e : e \in A <=>
          e \in Event /\ \E i \in 1..Len(S) : \E m \in 1..Len(S[i].lines) : S[i].lines[m] = Whole(e)
  BY <1>1, SegmentsHave
<1>3. Segments' = S
  BY DEF Segments, Text
<1> HIDE DEF S, A
<1>4. \A e : Occurrences(e)' # {} <=>
          \E i \in 1..Len(S) : \E m \in 1..Len(S[i].lines) : S[i].lines[m] = Whole(e)
  BY <1>3, Places DEF Occurrences, Lines, LineAt
<1>5. Logged' = A
  BY <1>2, <1>4 DEF Logged
<1> QED
  BY <1>5 DEF A

\* What a step of a call does to its locals.
LEMMA Locals ==
    ASSUME Typed, NEW w \in Writer, Proceed(w)
    PROVE  /\ \A v \in Writer \ {w} : pc'[v] = pc[v] /\ job'[v] = job[v]
           /\ pc[w] # "idle" /\ reported \subseteq reported' /\ reported' \subseteq reported \cup {job[w].event}
           /\ \/ /\ pc[w] # "dead" /\ job'[w].event = job[w].event /\ job'[w].answer = job[w].answer
                 /\ job'[w] = job[w] \/ Write(w) \/ Spool(w)
              \/ /\ pc[w] # "dead" /\ pc'[w] \in {"idle", "dead"}
                 /\ job'[w].event = None /\ job'[w].out = <<>> /\ job'[w].base = Empty
                 /\ job'[w].answer => job[w].event \in reported'
              \/ pc[w] = "dead" /\ pc'[w] = "idle" /\ job'[w] = job[w] /\ reported' = reported
           /\ pc[w] = "dead" => reported' = reported
<1>0. pc \in [Writer -> Pc] /\ job \in [Writer -> Job]
  BY DEF Typed, RepairTypeOK, TypeOK
<1>a. /\ \A ok \in BOOLEAN : LET j == [NoJob EXCEPT !.answer = ok]
                              IN  j.answer = ok /\ j.event = None /\ j.out = <<>> /\ j.base = Empty
      /\ NoJob.answer = FALSE /\ NoJob.event = None /\ NoJob.out = <<>> /\ NoJob.base = Empty
  BY DEF NoJob
<1>1. CASE TakeAuditLock(w) \/ TakeDegradedLock(w) \/ LockTimeout(w) \/ TakeSpoolLock(w) \/ Rotate(w)
           \/ BreakStaleLocks(w)
  BY <1>0, <1>1 DEF TakeAuditLock, TakeDegradedLock, LockTimeout, TakeSpoolLock, Rotate, BreakStaleLocks, Goto
<1>2. CASE DropEvent(w) \/ SpoolFsync(w) \/ LateError(w)
  <2>1. /\ pc[w] \notin {"idle", "dead"} /\ pc' = [pc EXCEPT ![w] = "idle"] /\ reported' = reported
        /\ job' = [job EXCEPT ![w] = [NoJob EXCEPT !.answer = FALSE]]
    BY <1>2 DEF DropEvent, SpoolFsync, LateError, Return, Goto
  <2> QED BY <1>0, <1>a, <2>1
<1>3. CASE Unlink(w) \/ (Fsync(w) /\ ~job[w].backlog)
  <2>1. /\ pc[w] \notin {"idle", "dead"} /\ pc' = [pc EXCEPT ![w] = "idle"]
        /\ reported' = reported \cup {job[w].event}
        /\ job' = [job EXCEPT ![w] = [NoJob EXCEPT !.answer = TRUE]]
    BY <1>3 DEF Unlink, Fsync, Return, Goto
  <2> QED BY <1>0, <1>a, <2>1
<1>4. CASE Fsync(w) /\ job[w].backlog
  BY <1>0, <1>4 DEF Fsync, Goto
<1>5. CASE Write(w)
  <2>1. pc[w] = "read" /\ reported' = reported
    BY <1>5 DEF Write
  <2>2. PICK base, out : Wrote(w, base, out)
    BY <1>5, Writing
  <2>3. (pc' = [pc EXCEPT ![w] = "fsync"] \/ pc' = [pc EXCEPT ![w] = "spool"])
        /\ \/ job' = [job EXCEPT ![w].out = out, ![w].base = base,
                                 ![w].backlog = Repaired(Text(degraded)).lines # <<>>]
           \/ job' = job
    BY <2>2 DEF Wrote
  <2> QED BY <1>0, <1>5, <2>1, <2>3 DEF Job
<1>6. CASE Spool(w)
  <2>1. pc[w] = "spooling" /\ reported' = reported /\ pc' = [pc EXCEPT ![w] = "spoolsync"]
    BY <1>6, Spooling
  <2>2. \E out, base : job' = [job EXCEPT ![w].out = out, ![w].base = base]
    BY <1>6 DEF Spool
  <2> QED BY <1>0, <1>6, <2>1, <2>2 DEF Job
<1>7. CASE Crash(w)
  <2>1. /\ pc[w] \notin {"idle", "dead"} /\ pc' = [pc EXCEPT ![w] = "dead"] /\ reported' = reported
        /\ job' = [job EXCEPT ![w] = NoJob]
    BY <1>7 DEF Crash, Goto
  <2> QED BY <1>0, <1>a, <2>1
<1>8. CASE AppendError(w)
  BY <1>0, <1>8 DEF AppendError, Goto
<1> QED
  BY <1>1, <1>2, <1>3, <1>4, <1>5, <1>6, <1>7, <1>8 DEF Proceed

\* The diagnosis names a segment of the log and its bytes.
LEMMA Diagnosed ==
    ASSUME Typed, Diagnose
    PROVE  /\ fence' # None /\ WellFormed(fence'.original)
           /\ Bytes(fence'.original) \subseteq Bytes(Text(active)) \cup Bytes(Text(degraded)) \cup InRotated
           /\ op = "idle" /\ UNCHANGED <<vars, evidence, op>>
<1>1. PICK s \in 0..(Len(rotated) + 1) : FileOf(s) # None /\ fence' = [segment |-> s, original |-> FileOf(s)]
  BY DEF Diagnose
<1>2. /\ Len(rotated) \in Nat /\ rotated \in Seq(File)
      /\ WellFormed(Text(active)) /\ WellFormed(Text(degraded)) /\ \A i \in DOMAIN rotated : WellFormed(rotated[i])
  BY DEF Typed, RepairTypeOK, TypeOK
<1>3. WellFormed(FileOf(s)) /\ Bytes(FileOf(s)) \subseteq Bytes(Text(active)) \cup Bytes(Text(degraded)) \cup InRotated
  <2>1. CASE s \in {0, 1}
    BY <1>1, <1>2, <2>1, Texts DEF FileOf, EventsSegment, SpoolSegment
  <2>2. CASE s \notin {0, 1}
    <3>1. FileOf(s) = rotated[s - 1] /\ s - 1 \in DOMAIN rotated
      BY <1>2, <2>2 DEF FileOf, EventsSegment, SpoolSegment, Rotated
    <3> QED BY <1>2, <3>1 DEF InRotated
  <2> QED BY <2>1, <2>2
<1>4. fence' \in Fence
  BY <1>1, <1>2, <1>3 DEF Fence, WellFormed
<1> QED
  BY <1>1, <1>3, <1>4, NoFence DEF Diagnose

LEMMA PhasesStep ==
    ASSUME Typed, Phases, RepairNext
    PROVE  Phases'
<1>0. /\ backup \in {"absent", "partial", "whole"} /\ receipt \in {"none", "prepared", "replaced", "committed"}
      /\ tombstone \in {"authorized", "backup_staged", "none", "removed"} /\ staged \in BOOLEAN /\ op \in OpPc
  BY DEF Typed, RepairTypeOK, RetentionPhase
<1>1. CASE LogStep
  BY <1>1 DEF LogStep, repairVars, evidence, Phases, Underway
<1>2. CASE Diagnose
  <2>1. UNCHANGED <<backup, receipt, tombstone, staged, op>> /\ fence' # None
    BY <1>2, Diagnosed DEF evidence
  <2> QED BY <2>1 DEF Phases, Underway
<1>3. CASE RepairStart
  BY <1>0, <1>3 DEF RepairStart, OpGoto, evidence, Phases, Underway
<1>4. CASE Resume
  <2>1. op = "repair" /\ receipt # "none" /\ UNCHANGED <<fence, backup, receipt, tombstone, staged>>
        /\ \/ op' = "replace" /\ receipt = "prepared"
           \/ op' = "mark"
           \/ op' = "idle"
    BY <1>4 DEF Resume, OpGoto, OpEnd, evidence
  <2> QED BY <1>0, <2>1 DEF Phases, Underway
<1>5. CASE Backup
  <2>1. op = "repair" /\ receipt = "none" /\ UNCHANGED <<fence, receipt, tombstone, staged>>
        /\ \/ op' = "receipt" /\ backup' = "whole"
           \/ op' = "idle" /\ backup' = backup
    BY <1>5 DEF Backup, OpGoto, OpEnd
  <2> QED BY <1>0, <2>1 DEF Phases, Underway
<1>6. CASE PrepareReceipt \/ ReplaceTarget \/ MarkReplaced
  BY <1>0, <1>6 DEF PrepareReceipt, ReplaceTarget, MarkReplaced, OpGoto, evidence, Phases, Underway
<1>7. CASE RecordRepair \/ CommitRefused
  BY <1>0, <1>7 DEF RecordRepair, CommitRefused, OpGoto, evidence, Phases, Underway
<1>8. CASE Recorded
  <2>1. op = "recording" /\ op' \in {"commit", "idle"} /\ UNCHANGED <<fence, backup, receipt, tombstone, staged>>
    BY <1>8 DEF Recorded, OpGoto, evidence
  <2> QED BY <1>0, <2>1 DEF Phases, Underway
<1>9. CASE CommitReceipt
  <2>1. op = "commit" /\ op' = "idle" /\ receipt' \in {receipt, "committed"}
        /\ UNCHANGED <<fence, backup, tombstone, staged>>
    BY <1>9 DEF CommitReceipt, OpGoto
  <2> QED BY <1>0, <2>1 DEF Phases, Underway
<1>10. CASE PruneStart
  <2>1. op = "idle" /\ fence # None /\ UNCHANGED <<fence, backup, receipt, staged>>
        /\ \/ UNCHANGED <<tombstone, op>>
           \/ /\ op' = "retain" /\ tombstone' = IF tombstone = "none" THEN "authorized" ELSE tombstone
              /\ \/ tombstone \in RetentionPhase
                 \/ tombstone # "removed" /\ receipt = "committed" /\ backup = "whole"
    BY <1>10, Pruning DEF BackupValid
  <2> QED BY <1>0, <2>1 DEF Phases, Underway, RetentionPhase
<1>11. CASE RetainReceipt \/ RetainStage
  BY <1>0, <1>11 DEF RetainReceipt, RetainStage, BackupValid, Phases, Underway
<1>12. CASE RetainMark \/ RetainUnstage
  BY <1>0, <1>12 DEF RetainMark, RetainUnstage, BackupValid, Phases, Underway
<1>13. CASE RetainDone
  BY <1>0, <1>13 DEF RetainDone, OpEnd, OpGoto, Phases, Underway
<1>14. CASE OpCrash
  <2>1. op # "idle" /\ op' = "idle" /\ UNCHANGED <<fence, receipt, tombstone, staged>>
        /\ \/ backup' = backup
           \/ op = "repair" /\ receipt = "none"
    BY <1>14 DEF OpCrash, OpGoto
  <2> QED BY <1>0, <2>1 DEF Phases, Underway
<1> QED
  BY <1>1, <1>2, <1>3, <1>4, <1>5, <1>6, <1>7, <1>8, <1>9, <1>10, <1>11, <1>12, <1>13, <1>14
     DEF RepairNext, OperatorStep

\* Before the diagnosis only the writers run, and none records the repair's event.
LEMMA BeforeFence ==
    ASSUME Typed, Phases, RepairNext, fence' = None
    PROVE  /\ fence = None /\ UNCHANGED repairVars
           /\ \/ \E w \in Writer, e \in Event \ {RepairKey} : Call(w, e)
              \/ \E w \in Writer : Proceed(w)
<1>1. CASE LogStep
  BY <1>1 DEF LogStep, repairVars
<1>2. ~Diagnose
  BY Diagnosed
<1>3. CASE OperatorStep
  <2>1. fence' = fence
    <3>1. CASE RepairStart \/ Resume \/ Backup \/ PrepareReceipt \/ ReplaceTarget \/ MarkReplaced \/ RecordRepair
               \/ Recorded \/ CommitReceipt \/ CommitRefused
      BY <3>1 DEF RepairStart, Resume, Backup, PrepareReceipt, ReplaceTarget, MarkReplaced, RecordRepair,
                  Recorded, CommitReceipt, CommitRefused
    <3>2. CASE PruneStart \/ RetainReceipt \/ RetainStage \/ RetainMark \/ RetainUnstage \/ RetainDone \/ OpCrash
      BY <3>2 DEF PruneStart, RetainReceipt, RetainStage, RetainMark, RetainUnstage, RetainDone, OpCrash
    <3> QED BY <1>2, <1>3, <3>1, <3>2 DEF OperatorStep
  <2>2. op = "idle"
    BY <2>1 DEF Phases
  <2>3. ~RepairStart /\ ~Resume /\ ~Backup /\ ~PrepareReceipt /\ ~ReplaceTarget /\ ~MarkReplaced
        /\ ~RecordRepair /\ ~Recorded /\ ~CommitReceipt /\ ~CommitRefused
    BY <2>1, <2>2 DEF RepairStart, Resume, Backup, PrepareReceipt, ReplaceTarget, MarkReplaced,
                      RecordRepair, Recorded, CommitReceipt, CommitRefused
  <2>4. ~PruneStart /\ ~RetainReceipt /\ ~RetainStage /\ ~RetainMark /\ ~RetainUnstage /\ ~RetainDone /\ ~OpCrash
    BY <2>1, <2>2 DEF PruneStart, RetainReceipt, RetainStage, RetainMark, RetainUnstage, RetainDone, OpCrash
  <2> QED BY <1>2, <1>3, <2>3, <2>4 DEF OperatorStep
<1> QED
  BY <1>1, <1>3 DEF RepairNext

LEMMA UnseenStep ==
    ASSUME Typed, Unseen, Phases, RepairNext, fence' = None
    PROVE  Unseen'
<1> DEFINE Files == corrupt \cup InRotated \cup Bytes(Text(active)) \cup Bytes(Text(degraded))
           k == RepairKey
<1>0. /\ pc \in [Writer -> Pc] /\ job \in [Writer -> Job]
      /\ WellFormed(Text(active)) /\ WellFormed(Text(degraded)) /\ \A i \in DOMAIN rotated : WellFormed(rotated[i])
  BY DEF Typed, RepairTypeOK, TypeOK
<1>a. /\ k \notin corrupt /\ k \notin InRotated /\ k \notin Bytes(Text(active)) /\ k \notin Bytes(Text(degraded))
      /\ k \notin reported /\ \A w \in Writer : Unheard(job[w])
  BY DEF Unseen
<1>b. k # None
  BY RepairConstants, AuditAbsent DEF Event
<1>c. Text(degraded)' = Text(degraded') /\ Text(active)' = Text(active')
  BY DEF Text
\* What is left to show of a step.
<1>1. ASSUME k \notin Files', k \notin reported', \A w \in Writer : Unheard(job'[w])
      PROVE  Unseen'
  BY <1>1 DEF Unseen, Unheard, Bytes
<1>2. ASSUME NEW w \in Writer, NEW e \in Event \ {k}, Call(w, e) PROVE Unseen'
  <2>1. /\ UNCHANGED <<active, degraded, rotated, corrupt, reported>>
        /\ job' = [job EXCEPT ![w] = [NoJob EXCEPT !.event = e]]
    BY <1>2 DEF Call, files
  <2>2. k \notin Files'
    BY <1>a, <2>1 DEF InRotated, Text, Bytes
  <2>3. Unheard([NoJob EXCEPT !.event = e])
    BY <1>2, EmptyFile DEF Unheard, NoJob
  <2>4. \A v \in Writer : job'[v] = job[v] \/ job'[v] = [NoJob EXCEPT !.event = e]
    BY <1>0, <2>1
  <2> HIDE DEF Files
  <2>5. \A v \in Writer : Unheard(job'[v])
    BY <1>a, <2>3, <2>4
  <2> QED BY <1>1, <1>a, <2>1, <2>2, <2>5
<1>3. ASSUME NEW w \in Writer, Proceed(w) PROVE Unseen'
  <2>1. k \notin reported'
    <3>1. job[w].event # k
      BY <1>a DEF Unheard
    <3> QED BY <1>3, <1>a, <3>1, Locals
  <2>2. CASE Write(w)
    <3> DEFINE s == Repaired(Text(degraded))
               d == job[w].event
    <3>1. WellFormed(s) /\ Text(degraded') = s /\ rotated' = rotated
      BY <2>2, Writing
    <3>2. PICK base, out : Wrote(w, base, out)
      BY <2>2, Writing
    <3>3. Bytes(s) \subseteq Bytes(Text(degraded)) /\ Readable(s) \subseteq Bytes(Text(degraded))
          /\ Bytes(Repaired(Text(active))) \subseteq Bytes(Text(active))
      <4>1. Bytes(s) \subseteq Bytes(Text(degraded)) /\ Bytes(Repaired(Text(active))) \subseteq Bytes(Text(active))
        BY <1>0, RepairedFile
      <4> HIDE DEF s
      <4>2. Readable(s) \subseteq Bytes(s)
        BY <3>1, BytesSplit
      <4> QED BY <4>1, <4>2
    <3>4. WellFormed(base) /\ k \notin Bytes(base) /\ k \notin corrupt'
      BY <1>a, <3>2, <3>3 DEF Wrote
    <3>5. d # k
      BY <1>a DEF Unheard
    <3>6. CASE /\ out \in Seq(Event) /\ active' = Grown(base, out, Len(out))
               /\ job' = [job EXCEPT ![w].out = out, ![w].base = base, ![w].backlog = s.lines # <<>>]
               /\ ToSet(out) \subseteq Readable(s) \cup {d}
      <4>1. k \notin ToSet(out)
        BY <1>a, <3>3, <3>5, <3>6
      <4>2. Extends(active', base, out) /\ Text(active') = active'
        BY <3>4, <3>6, GrownHas
      <4>3. k \notin Bytes(Text(active'))
        BY <3>4, <4>1, <4>2 DEF Extends
      <4>4. k \notin Files'
        BY <1>a, <1>c, <3>1, <3>3, <3>4, <4>3 DEF InRotated, Bytes
      <4>5. job'[w].base = base /\ job'[w].out = out /\ job'[w].event = d
            /\ \A v \in Writer \ {w} : job'[v] = job[v]
        BY <1>0, <3>6 DEF Job
      <4>6. Unheard(job'[w])
        BY <3>4, <3>5, <3>6, <4>1, <4>5 DEF Unheard, ToSet
      <4> HIDE DEF Files
      <4> QED BY <1>1, <1>a, <2>1, <4>4, <4>5, <4>6
    <3>7. CASE UNCHANGED job /\ Text(active') = base
      <4>1. k \notin Files'
        BY <1>a, <1>c, <3>1, <3>3, <3>4, <3>7 DEF InRotated, Bytes
      <4> HIDE DEF Files
      <4> QED BY <1>1, <1>a, <2>1, <3>7, <4>1
    <3> QED BY <3>2, <3>6, <3>7 DEF Wrote
  <2>3. CASE Spool(w)
    <3> DEFINE base == Repaired(Text(degraded))
               d == job[w].event
    <3>1. /\ WellFormed(base) /\ UNCHANGED <<active, rotated>>
          /\ corrupt' \subseteq corrupt \cup Bytes(Text(degraded))
      BY <2>3, Spooling
    <3>2. PICK out \in Seq(Event) : /\ ToSet(out) \subseteq {d}
                                    /\ job' = [job EXCEPT ![w].out = out, ![w].base = base]
                                    /\ Extends(Text(degraded'), base, out)
      BY <2>3, Spooling
    <3>3. Bytes(base) \subseteq Bytes(Text(degraded))
      BY <1>0, RepairedFile
    <3>4. d # k
      BY <1>a DEF Unheard
    <3>5. job'[w].base = base /\ job'[w].out = out /\ job'[w].event = d
          /\ \A v \in Writer \ {w} : job'[v] = job[v]
      BY <1>0, <3>2 DEF Job
    <3> HIDE DEF base
    <3>6. k \notin Bytes(Text(degraded')) /\ k \notin Bytes(base) /\ k \notin ToSet(out)
      BY <1>a, <3>2, <3>3, <3>4 DEF Extends
    <3>7. k \notin Files'
      BY <1>a, <1>c, <3>1, <3>6 DEF InRotated, Text, Bytes
    <3>8. Unheard(job'[w])
      BY <3>4, <3>5, <3>6 DEF Unheard, ToSet
    <3> HIDE DEF Files
    <3> QED BY <1>1, <1>a, <2>1, <3>5, <3>7, <3>8
  <2>4. CASE ~Write(w) /\ ~Spool(w)
    <3>1. \A v \in Writer : \/ job'[v] = job[v]
                            \/ job'[v].event = None /\ job'[v].out = <<>> /\ job'[v].base = Empty
      BY <1>3, <2>4, Locals
    <3>2. \A v \in Writer : Unheard(job'[v])
      BY <1>a, <1>b, <3>1, EmptyFile DEF Unheard
    <3>3. k \notin Files'
      <4>1. CASE UNCHANGED <<active, degraded, rotated, corrupt>>
        BY <1>a, <4>1 DEF InRotated, Text, Bytes
      <4>2. CASE Rotate(w)
        <5>1. /\ UNCHANGED <<degraded, corrupt>>
              /\ \/ UNCHANGED <<rotated, active>>
                 \/ /\ Text(active) = active /\ Text(active') = Empty
                    /\ DOMAIN rotated' = DOMAIN rotated \cup {Len(rotated) + 1}
                    /\ \A i \in DOMAIN rotated : rotated'[i] = rotated[i]
                    /\ rotated'[Len(rotated) + 1] = active
          BY <4>2, Rotating
        <5>2. CASE UNCHANGED <<rotated, active>>
          BY <4>1, <5>1, <5>2
        <5>3. CASE ~UNCHANGED <<rotated, active>>
          <6>1. \A i \in DOMAIN rotated' : k \notin Bytes(rotated'[i])
            BY <1>a, <5>1, <5>3 DEF InRotated
          <6>2. k \notin Bytes(Empty)
            BY EmptyFile
          <6> QED BY <1>a, <1>c, <5>1, <5>3, <6>1, <6>2 DEF InRotated, Text, Bytes
        <5> QED BY <5>2, <5>3
      <4>3. CASE Unlink(w)
        <5>1. UNCHANGED <<active, rotated, corrupt>> /\ Text(degraded') = Empty
          BY <4>3, Texts DEF Unlink
        <5>2. k \notin Bytes(Empty)
          BY EmptyFile
        <5> QED BY <1>a, <1>c, <5>1, <5>2 DEF InRotated, Text, Bytes
      <4>4. CASE Crash(w) \/ AppendError(w) \/ LateError(w)
        <5>1. LoseTail(w)
          BY <4>4 DEF Crash, AppendError, LateError
        <5>2. /\ UNCHANGED <<rotated, corrupt>>
              /\ active' = active \/ active' \in TornAppends(job[w].base, job[w].out)
              /\ degraded' = degraded \/ degraded' \in TornAppends(job[w].base, job[w].out)
          BY <5>1 DEF LoseTail
        <5>3. WellFormed(job[w].base) /\ job[w].out \in Seq(Event) /\ Unheard(job[w])
          BY <1>0, <1>a DEF Job, Typed
        <5>4. k \notin ToSet(job[w].out) /\ k \notin Bytes(job[w].base)
          BY <5>3 DEF Unheard, ToSet
        <5>5. \A g \in TornAppends(job[w].base, job[w].out) : k \notin Bytes(Text(g))
          <6>1. ASSUME NEW g \in TornAppends(job[w].base, job[w].out) PROVE k \notin Bytes(Text(g))
            <7>1. Extends(g, job[w].base, job[w].out)
              BY <5>3, TornExtends
            <7>2. WellFormed(g) /\ k \notin Bytes(g)
              BY <5>4, <7>1 DEF Extends
            <7> QED BY <7>2, Texts
          <6> QED BY <6>1
        <5>6. k \notin Bytes(Text(active')) /\ k \notin Bytes(Text(degraded'))
          BY <1>a, <5>2, <5>5
        <5> QED BY <1>a, <1>c, <5>2, <5>6 DEF InRotated, Bytes
      <4>5. UNCHANGED <<active, degraded, rotated, corrupt>> \/ Rotate(w) \/ Unlink(w)
            \/ Crash(w) \/ AppendError(w) \/ LateError(w)
        BY <1>3, <2>4 DEF Proceed, TakeAuditLock, TakeDegradedLock, LockTimeout, Fsync, TakeSpoolLock, DropEvent,
                          SpoolFsync, BreakStaleLocks, files
      <4> QED BY <4>1, <4>2, <4>3, <4>4, <4>5
    <3> HIDE DEF Files
    <3> QED BY <1>1, <2>1, <3>2, <3>3
  <2> QED BY <2>2, <2>3, <2>4
<1> QED
  BY <1>2, <1>3, BeforeFence

\* The segment and the bytes diagnosed are kept, and do not have the repair's event.
LEMMA FencedStep ==
    ASSUME Typed, Phases, RepairNext, fence = None => Unseen,
           fence # None => WellFormed(fence.original) /\ RepairKey \notin Bytes(fence.original)
    PROVE  /\ fence # None => fence' = fence
           /\ fence' # None => WellFormed(fence'.original) /\ RepairKey \notin Bytes(fence'.original)
<1>1. CASE Diagnose
  BY <1>1, Diagnosed DEF Diagnose, Unseen
<1>2. CASE LogStep
  BY <1>2 DEF LogStep, repairVars
<1>3. CASE RepairStart \/ Resume \/ Backup \/ PrepareReceipt \/ ReplaceTarget \/ MarkReplaced \/ RecordRepair
           \/ Recorded \/ CommitReceipt \/ CommitRefused
  BY <1>3 DEF RepairStart, Resume, Backup, PrepareReceipt, ReplaceTarget, MarkReplaced, RecordRepair,
              Recorded, CommitReceipt, CommitRefused
<1>4. CASE PruneStart \/ RetainReceipt \/ RetainStage \/ RetainMark \/ RetainUnstage \/ RetainDone \/ OpCrash
  BY <1>4 DEF PruneStart, RetainReceipt, RetainStage, RetainMark, RetainUnstage, RetainDone, OpCrash
<1> QED
  BY <1>1, <1>2, <1>3, <1>4 DEF RepairNext, OperatorStep

\* A step of a writer while the command has its locks changes no file.
LEMMA QuietLog ==
    ASSUME Typed, Locked, LogStep, op \in Repairing
    PROVE  UNCHANGED files /\ UNCHANGED repairVars
<1>1. UNCHANGED repairVars
  BY DEF LogStep
<1>2. ASSUME NEW w \in Writer, NEW e \in Event, Call(w, e) PROVE UNCHANGED files
  BY <1>2 DEF Call
<1>3. ASSUME NEW w \in Writer, Proceed(w) PROVE UNCHANGED files
  <2>1. Calm \/ Step(w)
    BY <1>3, Classified DEF Step
  <2>2. ~Step(w)
    BY Alone
  <2> QED BY <2>1, <2>2 DEF Calm
<1> QED
  BY <1>1, <1>2, <1>3 DEF LogStep

LEMMA AimedStep ==
    ASSUME Typed, Locked, Phases, Aimed, RepairNext
    PROVE  Aimed'
<1>1. CASE LogStep /\ op \in Repairing
  <2>1. UNCHANGED <<active, rotated, degraded, fence, op>>
    BY <1>1, QuietLog DEF files, repairVars
  <2> QED BY <2>1 DEF Aimed, FileOf
<1>2. CASE op' \notin {"receipt", "replace"}
  BY <1>2 DEF Aimed
<1>3. CASE LogStep /\ op \notin Repairing
  BY <1>2, <1>3 DEF LogStep, repairVars, Repairing
<1>4. CASE Resume
  <2>1. UNCHANGED <<active, rotated, degraded, fence>> /\ (op' \in {"receipt", "replace"} => TargetState = "original")
    BY <1>4 DEF Resume, files, OpGoto, OpEnd
  <2>2. TargetState = "original" => FileOf(fence.segment) = fence.original
    BY DEF TargetState
  <2> QED BY <2>1, <2>2 DEF Aimed, FileOf
<1>5. CASE Backup
  <2>1. UNCHANGED <<active, rotated, degraded, fence>>
        /\ (op' \in {"receipt", "replace"} => FileOf(fence.segment) = fence.original)
    BY <1>5 DEF Backup, files, OpGoto, OpEnd
  <2> QED BY <2>1 DEF Aimed, FileOf
<1>6. CASE PrepareReceipt
  <2>1. UNCHANGED <<active, rotated, degraded, fence>> /\ op = "receipt"
    BY <1>6 DEF PrepareReceipt, vars, files
  <2> QED BY <2>1 DEF Aimed, FileOf
<1>7. CASE Diagnose \/ RepairStart \/ ReplaceTarget \/ MarkReplaced \/ RecordRepair
           \/ Recorded \/ CommitReceipt \/ CommitRefused
  BY <1>2, <1>7 DEF Diagnose, RepairStart, ReplaceTarget, MarkReplaced, RecordRepair, Recorded, CommitReceipt,
                    CommitRefused, OpGoto
<1>8. CASE PruneStart
  <2>1. op = "idle" /\ op' \in {"idle", "retain"}
    BY <1>8, Pruning
  <2> QED BY <1>2, <2>1
<1>9. CASE RetainReceipt \/ RetainStage \/ RetainMark \/ RetainUnstage \/ RetainDone \/ OpCrash
  BY <1>2, <1>9 DEF RetainReceipt, RetainStage, RetainMark, RetainUnstage, RetainDone, OpCrash, OpEnd, OpGoto
<1> QED
  BY <1>1, <1>3, <1>4, <1>5, <1>6, <1>7, <1>8, <1>9 DEF RepairNext, OperatorStep

\* The cleanup starts on a segment that it leaves alone.
LEMMA PruneLeavesTarget ==
    ASSUME Typed, PruneStart, fence # None => WellFormed(fence.original), TargetState \in Proven
    PROVE  TargetState' = TargetState
<1>1. /\ active' = active \/ Damaged(Text(active))
      /\ UNCHANGED <<rotated, degraded, fence>> /\ fence # None
  BY Pruning
<1>2. ASSUME fence.segment = EventsSegment PROVE ~Damaged(Text(active)) \/ active = None
  <2>1. FileOf(fence.segment) = active
    BY <1>2 DEF FileOf, EventsSegment, SpoolSegment
  <2>2. CASE active = Candidate(fence.original)
    <3>1. Clean(active) /\ WellFormed(active)
      BY <1>1, <2>2, CandidateFile
    <3> QED BY <3>1, Texts DEF Clean
  <2>3. CASE active # None /\ ~Damaged(active)
    BY <2>3, Texts
  <2>4. active = None \/ active = Candidate(fence.original) \/ ~Damaged(active)
    BY <2>1 DEF TargetState, Proven
  <2> QED BY <2>2, <2>3, <2>4
<1>3. active = None => ~Damaged(Text(active))
  BY Texts, EmptyFile DEF Clean
<1>4. FileOf(fence.segment)' = FileOf(fence.segment)
  <2>1. CASE fence.segment = EventsSegment
    <3>1. active' = active
      BY <1>1, <1>2, <1>3, <2>1
    <3> QED BY <1>1, <3>1 DEF FileOf
  <2>2. CASE fence.segment # EventsSegment
    BY <1>1, <2>2 DEF FileOf
  <2> QED BY <2>1, <2>2
<1> QED
  BY <1>1, <1>4 DEF TargetState

LEMMA RetainingStep ==
    ASSUME Typed, Typed', Locked, Phases, Retaining, RepairNext,
           fence # None => WellFormed(fence.original)
    PROVE  Retaining'
<1>1. ASSUME UNCHANGED <<active, rotated, degraded, fence>>, op = "retain" PROVE Retaining'
  <2>1. TargetState' = TargetState
    BY <1>1 DEF TargetState, FileOf
  <2>2. Logged' = Logged
    BY <1>1 DEF Logged, Occurrences, Lines, LineAt, Segments, Text
  <2> QED BY <1>1, <2>1, <2>2 DEF Retaining
<1>2. CASE op' # "retain"
  BY <1>2 DEF Retaining
<1>3. CASE LogStep
  <2>1. op' = op
    BY <1>3 DEF LogStep, repairVars
  <2>2. CASE op = "retain"
    BY <1>1, <1>3, <2>2, QuietLog DEF files, repairVars, Repairing
  <2> QED BY <1>2, <2>1, <2>2
<1>4. CASE PruneStart
  <2>1. CASE op' = "retain"
    <3>1. RepairKey \in Readable(Text(active')) \cup RotatedKeys /\ TargetState \in Proven /\ rotated' = rotated
      BY <1>4, <2>1, Pruning
    <3>2. TargetState' \in Proven
      BY <1>4, <3>1, PruneLeavesTarget
    <3>3. RepairKey \in Logged'
      BY <3>1, LoggedIsNext DEF RotatedKeys
    <3> QED BY <3>2, <3>3 DEF Retaining, Proven
  <2> QED BY <1>2, <2>1
<1>5. CASE RetainReceipt \/ RetainStage \/ RetainMark \/ RetainUnstage
  BY <1>1, <1>5 DEF RetainReceipt, RetainStage, RetainMark, RetainUnstage, vars, files
<1>6. CASE Diagnose \/ RepairStart \/ Resume \/ Backup \/ PrepareReceipt \/ ReplaceTarget \/ MarkReplaced
           \/ RecordRepair \/ Recorded \/ CommitReceipt \/ CommitRefused \/ RetainDone \/ OpCrash
  BY <1>2, <1>6 DEF Diagnose, RepairStart, Resume, Backup, PrepareReceipt, ReplaceTarget, MarkReplaced,
        RecordRepair, Recorded, CommitReceipt, CommitRefused, RetainDone, OpCrash, OpEnd, OpGoto
<1> QED
  BY <1>3, <1>4, <1>5, <1>6 DEF RepairNext, OperatorStep

LEMMA AnnouncedStep ==
    ASSUME Typed, Announced, Phases, RepairNext
    PROVE  Announced'
<1>0. pc \in [Writer -> Pc] /\ job \in [Writer -> Job] /\ Operator \in Writer
  BY RepairConstants DEF Typed, RepairTypeOK, TypeOK
<1>1. CASE LogStep
  <2>1. op' = op /\ receipt' = receipt
    BY <1>1 DEF LogStep, repairVars, evidence
  <2>2. ASSUME NEW w \in Writer, NEW e \in Event, Call(w, e), w = Operator => op = "idle" PROVE Announced'
    <3>1. reported' = reported /\ \A v \in Writer \ {w} : pc'[v] = pc[v] /\ job'[v] = job[v]
      BY <1>0, <2>2 DEF Call, Goto
    <3> QED BY <1>0, <2>1, <2>2, <3>1 DEF Announced
  <2>3. ASSUME NEW w \in Writer, Proceed(w) PROVE Announced'
    <3>1. /\ reported \subseteq reported'
          /\ \A v \in Writer \ {w} : pc'[v] = pc[v] /\ job'[v] = job[v]
      BY <2>3, Locals
    <3>2. CASE w # Operator
      BY <1>0, <2>1, <3>1, <3>2 DEF Announced
    <3>3. CASE w = Operator
      <4>1. /\ pc[w] # "idle"
            /\ \/ pc[w] # "dead" /\ job'[w].event = job[w].event /\ job'[w].answer = job[w].answer
               \/ /\ pc[w] # "dead" /\ pc'[w] \in {"idle", "dead"}
                  /\ job'[w].answer => job[w].event \in reported'
               \/ pc'[w] = "idle" /\ job'[w] = job[w]
        BY <2>3, Locals
      <4> QED BY <2>1, <3>1, <3>3, <4>1 DEF Announced
    <3> QED BY <3>2, <3>3
  <2> QED BY <1>1, <2>2, <2>3 DEF LogStep
<1>2. CASE RecordRepair
  <2>1. /\ op' = "recording" /\ UNCHANGED <<reported, receipt>>
        /\ job' = [job EXCEPT ![Operator] = [NoJob EXCEPT !.event = RepairKey]]
    BY <1>2 DEF RecordRepair, Call, OpGoto, evidence
  <2>2. job'[Operator].event = RepairKey /\ job'[Operator].answer = FALSE
    BY <1>0, <2>1 DEF NoJob
  <2> QED BY <2>1, <2>2 DEF Announced
<1>3. CASE Recorded
  <2>1. UNCHANGED <<reported, receipt>> /\ op = "recording"
        /\ op' = IF job[Operator].answer THEN "commit" ELSE "idle"
    BY <1>3 DEF Recorded, OpGoto, evidence, vars
  <2> QED BY <2>1 DEF Announced
<1>4. CASE CommitReceipt
  <2>1. reported' = reported /\ op = "commit" /\ op' = "idle"
    BY <1>4 DEF CommitReceipt, OpGoto, vars
  <2> QED BY <2>1 DEF Announced
<1>5. ASSUME UNCHANGED reported, op' \notin {"recording", "commit"}, receipt' = "committed" => receipt = "committed"
      PROVE  Announced'
  BY <1>5 DEF Announced
<1>6. CASE Diagnose
  BY <1>5, <1>6 DEF Diagnose, evidence, vars
<1>7. CASE RepairStart \/ Resume \/ Backup \/ PrepareReceipt \/ ReplaceTarget \/ MarkReplaced
           \/ CommitRefused
  <2>1. UNCHANGED reported /\ op' \notin {"recording", "commit"}
    BY <1>7 DEF RepairStart, Resume, Backup, PrepareReceipt, ReplaceTarget, MarkReplaced, CommitRefused,
                OpGoto, OpEnd, vars
  <2>2. receipt' = "committed" => receipt = "committed"
    BY <1>7 DEF RepairStart, Resume, Backup, PrepareReceipt, ReplaceTarget, MarkReplaced, CommitRefused, evidence
  <2> QED BY <1>5, <2>1, <2>2
<1>8. CASE PruneStart
  <2>1. UNCHANGED <<reported, receipt>> /\ op = "idle" /\ op' \in {"idle", "retain"}
    BY <1>8, Pruning
  <2> QED BY <1>5, <2>1
<1>9. CASE RetainReceipt \/ RetainStage \/ RetainMark \/ RetainUnstage \/ RetainDone \/ OpCrash
  BY <1>5, <1>9 DEF RetainReceipt, RetainStage, RetainMark, RetainUnstage, RetainDone, OpCrash, OpEnd, OpGoto, vars
<1> QED
  BY <1>1, <1>2, <1>3, <1>4, <1>6, <1>7, <1>8, <1>9 DEF RepairNext, OperatorStep

LEMMA RepairKnownStep ==
    ASSUME Typed, Typed', Locked, RepairKnown, RepairNext
    PROVE  RepairKnown'
<1>0. /\ fence = None => Unseen
      /\ fence # None => WellFormed(fence.original) /\ RepairKey \notin Bytes(fence.original)
      /\ Phases /\ Aimed /\ Retaining /\ Announced
  BY DEF RepairKnown
<1>1. fence' = None => Unseen'
  BY <1>0, BeforeFence, UnseenStep
<1>2. fence' # None => WellFormed(fence'.original) /\ RepairKey \notin Bytes(fence'.original)
  BY <1>0, FencedStep
<1>3. Phases' /\ Aimed' /\ Retaining' /\ Announced'
  BY <1>0, PhasesStep, AimedStep, RetainingStep, AnnouncedStep
<1> QED
  BY <1>1, <1>2, <1>3 DEF RepairKnown, WellFormed, Bytes

-----------------------------------------------------------------------------
(* The invariant *)

LEMMA RepairInvInit == RepairInit => RepairInv
<1> SUFFICES ASSUME RepairInit PROVE RepairInv
  OBVIOUS
<1>1. /\ active = None /\ rotated = <<>> /\ degraded = None /\ corrupt = {}
      /\ auditLock = None /\ degradedLock = None
      /\ pc = [w \in Writer |-> "idle"] /\ job = [w \in Writer |-> NoJob] /\ reported = {}
      /\ spent = [calls |-> 0, faults |-> 0, tried |-> {}]
      /\ fence = None /\ backup = "absent" /\ receipt = "none" /\ tombstone = "none" /\ staged = FALSE /\ op = "idle"
  BY DEF RepairInit, Init
<1>2. Text(None) = Empty /\ WellFormed(Empty) /\ Bytes(Empty) = {} /\ Readable(Empty) = {} /\ Clean(Empty)
      /\ Empty \in File /\ \A e : Single(Empty, e)
  BY Texts, EmptyFile DEF WellFormed, Single, Empty
<1>3. NoJob \in Job /\ NoJob.base = Empty /\ NoJob.out = <<>> /\ NoJob.event = None /\ NoJob.answer = FALSE
  BY <1>2 DEF NoJob, Job
<1>4. DOMAIN rotated = {} /\ rotated \in Seq(File) /\ InRotated = {} /\ InLog = {}
  BY <1>1, <1>2 DEF InRotated, InLog
<1>5. Typed
  BY <1>1, <1>2, <1>3, <1>4 DEF Typed, RepairTypeOK, TypeOK, Pc, Spent, OpPc, RetentionPhase
<1>6. Locked
  BY <1>1 DEF Locked, OnLog, OnSpool, Repairing
<1>7. Appending
  BY <1>1 DEF Appending
<1>8. Secured
  BY <1>1 DEF Secured
<1>9. Durable = Empty
  BY <1>1, <1>2, <1>6, DurableIs
<1>10. KeysOnce
  BY <1>1, <1>2, <1>4, <1>9 DEF KeysOnce, Once
<1>11. Faultless
  BY <1>1, <1>2, <1>4 DEF Faultless, Untorn, Settled, Once
<1>12. RepairKey # None
  BY RepairConstants, AuditAbsent DEF Event
<1>13. RepairKnown
  <2>1. Unseen
    BY <1>1, <1>2, <1>3, <1>4, <1>12 DEF Unseen, Unheard
  <2>2. Phases /\ Aimed /\ Retaining /\ Announced
    BY <1>1 DEF Phases, Aimed, Retaining, Announced, Underway
  <2> QED BY <1>1, <2>1, <2>2 DEF RepairKnown
<1> QED
  BY <1>5, <1>6, <1>7, <1>8, <1>10, <1>11, <1>13 DEF RepairInv

LEMMA RepairInvStep == RepairInv /\ [RepairNext]_allVars => RepairInv'
<1> SUFFICES ASSUME RepairInv, [RepairNext]_allVars PROVE RepairInv'
  OBVIOUS
<1>1. CASE RepairNext
  <2>0. Typed /\ Locked /\ Appending /\ Secured /\ KeysOnce /\ Faultless /\ RepairKnown
    BY DEF RepairInv
  <2>1. Typed' /\ Locked'
    BY <1>1, <2>0, TypedStep, LockedStep
  <2>2. Appending' /\ Secured' /\ KeysOnce'
    BY <1>1, <2>0, <2>1, AppendingStep, SecuredStep, KeysOnceStep
  <2>3. Faultless' /\ RepairKnown'
    BY <1>1, <2>0, <2>1, FaultlessStep, RepairKnownStep
  <2> QED BY <2>1, <2>2, <2>3 DEF RepairInv
<1>2. CASE UNCHANGED allVars
  <2>0. Typed /\ Locked /\ Appending /\ Secured /\ KeysOnce /\ Faultless /\ RepairKnown
    BY DEF RepairInv
  <2>1. UNCHANGED <<active, rotated, degraded, corrupt, auditLock, degradedLock, pc, job, reported, spent,
                    fence, backup, receipt, tombstone, staged, op>>
    BY <1>2 DEF allVars, vars, files, locks, repairVars, evidence
  <2>a. Durable' = Durable
    BY <2>1 DEF Durable, Text
  <2>2. Typed'
    BY <2>0, <2>1 DEF Typed, RepairTypeOK, TypeOK, Text
  <2>3. Locked' /\ Appending'
    BY <2>0, <2>1 DEF Locked, Appending, Text, InRotated
  <2>4. Secured'
    BY <2>0, <2>1, <2>a DEF Secured, InRotated, Dropped, Preserved, BackupValid, Bytes
  <2>5. KeysOnce'
    BY <2>0, <2>1, <2>a DEF KeysOnce, Once, NewTo, Single, Readable
  <2>6. Faultless'
    BY <2>0, <2>1 DEF Faultless, Untorn, Settled, Once, Text, InLog
  <2>7. RepairKnown'
    <3>1. TargetState' = TargetState /\ Logged' = Logged
      BY <2>1 DEF TargetState, FileOf, Logged, Occurrences, Lines, LineAt, Segments, Text
    <3> QED BY <2>0, <2>1, <3>1 DEF RepairKnown, Unseen, Unheard, Phases, Aimed, Retaining, Announced, Text, InRotated,
                                    FileOf
  <2> QED BY <2>2, <2>3, <2>4, <2>5, <2>6, <2>7 DEF RepairInv
<1> QED
  BY <1>1, <1>2

\* The invariant of the log, its repair and its cleanup: types, locks, what an append
\* has put where, where each reported event's bytes are, keys on one line, no duplicate
\* without a fault, and the phases of the operator's command.
THEOREM RepairInvariance == RepairSpec => []RepairInv
<1> QED
  BY RepairInvInit, RepairInvStep, PTL DEF RepairSpec

-----------------------------------------------------------------------------
(* No line twice *)

\* The whole active segment has a key once, if its durable part has: an append adds
\* it to none that has it.
LEMMA OnceActive ==
    ASSUME RepairInv, NEW e \in Event, e \in Keyed \/ spent.faults = 0
    PROVE  Once(e, Text(active))
<1>0. Typed /\ Locked /\ Appending /\ KeysOnce /\ Faultless
  BY DEF RepairInv
<1>1. CASE e \in Keyed
  <2>1. Once(e, Durable) /\ \A w \in Writer : pc[w] = "fsync" => NewTo(e, job[w].out, job[w].base)
    BY <1>0, <1>1 DEF KeysOnce
  <2>2. CASE \E w \in Writer : pc[w] = "fsync"
    <3>1. PICK w \in Writer : pc[w] = "fsync"
      BY <2>2
    <3> DEFINE f == job[w].base
               out == job[w].out
               g == Grown(f, out, Len(out))
    <3>2. active = g /\ Durable = f
      BY <1>0, <3>1, DurableIs DEF Appending
    <3>3. WellFormed(f) /\ out \in Seq(Event) /\ Once(e, f) /\ NewTo(e, out, f)
      BY <1>0, <2>1, <3>1, <3>2 DEF Typed, RepairTypeOK, TypeOK, Job
    <3> HIDE DEF f, out
    <3>4. Extends(g, f, out) /\ Text(g) = g
      BY <3>3, GrownHas
    <3> HIDE DEF g
    <3>5. Once(e, g)
      BY <3>3, <3>4, OnceExtends
    <3> QED BY <3>2, <3>4, <3>5
  <2>3. CASE ~\E w \in Writer : pc[w] = "fsync"
    <3> DEFINE d == Durable
    <3>1. d = Text(active)
      BY <1>0, <2>3, DurableIs
    <3>2. Once(e, d)
      BY <2>1
    <3> HIDE DEF d
    <3> QED BY <3>1, <3>2
  <2> QED BY <2>2, <2>3
<1>2. CASE e \notin Keyed
  BY <1>0, <1>2 DEF Faultless, Settled, Event
<1> QED
  BY <1>1, <1>2

\* An event that is on one readable line of the log at most occurs at one place.
LEMMA OnePlace ==
    ASSUME Typed, NEW e \in Event, Once(e, Text(active)),
           NEW p \in Occurrences(e), NEW q \in Occurrences(e)
    PROVE  p = q
<1> DEFINE S == Segments
           n == Len(rotated)
<1>1. /\ rotated \in Seq(File) /\ n \in Nat /\ DOMAIN rotated = 1..n
      /\ WellFormed(Text(active)) /\ \A i \in DOMAIN rotated : WellFormed(rotated[i])
  BY DEF Typed, RepairTypeOK, TypeOK
<1>2. Len(S) = n + 1 /\ S[n + 1] = Text(active) /\ \A i \in 1..n : S[i] = rotated[i]
  BY <1>1, SegmentsHave DEF Segments
<1>3. ASSUME NEW x \in Occurrences(e)
      PROVE  /\ x = <<x[1], x[2]>> /\ x[1] \in 1..(n + 1) /\ x[2] \in 1..Len(S[x[1]].lines)
             /\ S[x[1]].lines[x[2]] = Whole(e)
  BY <1>2, <1>3, Places DEF Occurrences, Lines, LineAt
<1> HIDE DEF S, n
<1>4. \A i \in 1..(n + 1) : WellFormed(S[i]) /\ Single(S[i], e)
  BY <1>1, <1>2 DEF Once
<1>5. \A x \in Occurrences(e) : e \in Readable(S[x[1]])
  BY <1>3, <1>4, BytesSplit
<1>6. p[1] = q[1]
  <2>1. ASSUME NEW x \in Occurrences(e), NEW y \in Occurrences(e), x[1] # y[1], x[1] # n + 1 PROVE FALSE
    <3>1. x[1] \in 1..n /\ e \in Readable(rotated[x[1]])
      BY <1>1, <1>2, <1>3, <1>5, <2>1
    <3>2. CASE y[1] = n + 1
      BY <1>1, <1>2, <1>5, <3>1, <3>2 DEF Once
    <3>3. CASE y[1] # n + 1
      <4>1. y[1] \in 1..n /\ e \in Readable(rotated[y[1]])
        BY <1>1, <1>2, <1>3, <1>5, <3>3
      <4> QED BY <1>1, <2>1, <3>1, <4>1 DEF Once
    <3> QED BY <3>2, <3>3
  <2> QED BY <2>1
<1>7. p[2] = q[2]
  <2>1. DOMAIN S[p[1]].lines = 1..Len(S[p[1]].lines)
    BY <1>3, <1>4, FileFacts
  <2> QED BY <1>3, <1>4, <1>6, <2>1 DEF Single
<1> QED
  BY <1>3, <1>6, <1>7

\* A key is never on two readable lines of the log, over all its segments, whatever
\* crashes, errors, torn appends, replays of the spool and repairs happen; and without
\* a crash or an error no event at all is (_record, _replayable_backlog).
THEOREM KeysAreLoggedOnce == RepairSpec => []KeyLoggedOnce
<1>1. RepairInv => KeyLoggedOnce
  BY OnceActive, OnePlace DEF KeyLoggedOnce, RepairInv
<1> QED
  BY <1>1, RepairInvariance, PTL

-----------------------------------------------------------------------------
(* No valid line is lost *)

\* Bytes that are not on a readable line are in evidence.
LEMMA Burials ==
    ASSUME NEW r \in Seq(File), NEW f, WellFormed(f), \A i \in DOMAIN r : WellFormed(r[i]), NEW d, WellFormed(d)
    PROVE  LET S == r \o <<f>>
               B == MalformedEvents(d) \cup UNION {MalformedEvents(S[i]) : i \in 1..Len(S)}
           IN  /\ Bytes(d) \subseteq Readable(d) \cup B
               /\ Bytes(f) \subseteq Readable(f) \cup B
               /\ \A i \in DOMAIN r : Bytes(r[i]) \subseteq Readable(r[i]) \cup B
<1> DEFINE S == r \o <<f>>
           n == Len(r)
<1>1. n \in Nat /\ DOMAIN r = 1..n /\ Len(S) = n + 1 /\ S[n + 1] = f /\ \A i \in 1..n : S[i] = r[i]
  BY SegmentsHave
<1> HIDE DEF S, n
<1> DEFINE M == UNION {MalformedEvents(S[i]) : i \in 1..Len(S)}
<1>2. \A i \in 1..Len(S) : MalformedEvents(S[i]) \subseteq M
  OBVIOUS
<1> HIDE DEF M
<1>3. MalformedEvents(f) \subseteq M /\ \A i \in DOMAIN r : MalformedEvents(r[i]) \subseteq M
  BY <1>1, <1>2
<1>4. /\ Bytes(d) = Readable(d) \cup MalformedEvents(d) /\ Bytes(f) = Readable(f) \cup MalformedEvents(f)
      /\ \A i \in DOMAIN r : Bytes(r[i]) = Readable(r[i]) \cup MalformedEvents(r[i])
  BY BytesSplit
<1> QED
  BY <1>3, <1>4 DEF M, S

LEMMA Kept ==
    ASSUME RepairInv
    PROVE  reported \subseteq Logged \cup Buried \cup Dropped
<1>0. Typed /\ Locked /\ Appending /\ Secured
  BY DEF RepairInv
<1>1. /\ rotated \in Seq(File) /\ WellFormed(Text(active)) /\ WellFormed(Text(degraded))
      /\ \A i \in DOMAIN rotated : WellFormed(rotated[i])
      /\ job \in [Writer -> Job] /\ \A w \in Writer : WellFormed(job[w].base)
  BY <1>0 DEF Typed, RepairTypeOK, TypeOK
<1>2. Bytes(Durable) \subseteq Bytes(Text(active))
  <2>1. CASE \E w \in Writer : pc[w] = "fsync"
    <3>1. PICK w \in Writer : pc[w] = "fsync"
      BY <2>1
    <3> DEFINE f == job[w].base
               out == job[w].out
    <3>2. active = Grown(f, out, Len(out)) /\ Durable = f /\ WellFormed(f) /\ out \in Seq(Event)
      BY <1>0, <1>1, <3>1, DurableIs DEF Appending, Job
    <3> HIDE DEF f, out
    <3> QED BY <3>2, GrownHas
  <2>2. CASE ~\E w \in Writer : pc[w] = "fsync"
    BY <1>0, <2>2, DurableIs
  <2> QED BY <2>1, <2>2
<1>3. /\ Bytes(Text(active)) \subseteq Readable(Text(active)) \cup Buried
      /\ \A i \in DOMAIN rotated : Bytes(rotated[i]) \subseteq Readable(rotated[i]) \cup Buried
      /\ corrupt \subseteq Buried
  BY <1>1, Burials DEF Buried, Segments
<1>4. InRotated \subseteq InLog \cup Buried /\ Bytes(Durable) \subseteq InLog \cup Buried
  BY <1>2, <1>3 DEF InRotated, InLog
<1>5. Logged = InLog
  BY <1>0, LoggedIs
<1> QED
  BY <1>0, <1>3, <1>4, <1>5 DEF Secured

\* What a call reported stays readable or in evidence: a repair that races with appends,
\* the rotation, the replay and a torn append drop no valid line, and the malformed ones
\* go only with the evidence of a repair, which only a completed retention removes.
THEOREM EvidenceIsKept == RepairSpec => []EvidenceKept
<1>1. RepairInv => EvidenceKept
  <2>1. ASSUME RepairInv, NEW e \in reported
        PROVE  \/ e \in Logged \cup Buried
               \/ /\ fence # None /\ e \in MalformedEvents(fence.original)
                  /\ BackupValid \/ staged \/ tombstone \in {"backup_staged", "removed"}
    <3>1. e \in Logged \cup Buried \cup Dropped
      BY <2>1, Kept
    <3> QED BY <3>1 DEF Dropped, Preserved
  <2> QED BY <2>1 DEF EvidenceKept
<1> QED
  BY <1>1, RepairInvariance, PTL

\* A committed receipt has its event in the log; a receipt has its whole backup; and a
\* pending cleanup is in a state that the next prune resumes (audit-health).
THEOREM EvidenceIsConsistent == RepairSpec => []EvidenceConsistent
<1>1. RepairInv => EvidenceConsistent
  <2> SUFFICES ASSUME RepairInv PROVE EvidenceConsistent
    OBVIOUS
  <2>0. Typed /\ RepairKnown /\ Phases /\ Announced
    BY DEF RepairInv, RepairKnown
  <2>1. ASSUME receipt = "committed" PROVE RepairKey \in Logged \cup Buried
    <3>1. RepairKey \in reported /\ fence # None
      BY <2>0, <2>1 DEF Announced, Phases
    <3>2. WellFormed(fence.original) /\ RepairKey \notin Bytes(fence.original)
      BY <2>0, <3>1 DEF RepairKnown
    <3>3. RepairKey \notin MalformedEvents(fence.original)
      BY <3>2, BytesSplit
    <3> QED BY <3>1, <3>3, Kept DEF Dropped
  <2>2. receipt # "none" => backup = "whole"
    BY <2>0 DEF Phases
  <2>3. CleanupPending => CleanupTopology
    BY <2>0 DEF Phases, CleanupPending, CleanupTopology
  <2> QED BY <2>1, <2>2, <2>3 DEF EvidenceConsistent
<1> QED
  BY <1>1, RepairInvariance, PTL

\* audit-health says healthy only when each reported event is on a readable line, or was
\* on a malformed one that a repair dropped and whose evidence was retired since.
THEOREM HealthHidesNothing == RepairSpec => []HealthyHidesNothing
<1>1. RepairInv => HealthyHidesNothing
  <2> SUFFICES ASSUME RepairInv, Health = "healthy", \A w \in Writer : pc[w] = "idle"
               PROVE  reported \subseteq Logged \cup
                          (IF tombstone = "removed" THEN MalformedEvents(fence.original) ELSE {})
    BY DEF HealthyHidesNothing
  <2>0. Typed /\ Locked /\ Secured /\ RepairKnown /\ Phases
    BY DEF RepairInv, RepairKnown
  <2>1. /\ Malformed = {} /\ corrupt = {} /\ backup = "absent" /\ tombstone \notin {"authorized", "backup_staged"}
    BY DEF Health, KeyedAppendBlocked, CleanupPending
  <2>2. /\ rotated \in Seq(File) /\ Len(rotated) \in Nat /\ DOMAIN rotated = 1..Len(rotated)
        /\ WellFormed(Text(active)) /\ \A i \in DOMAIN rotated : WellFormed(rotated[i])
        /\ tombstone \in {"authorized", "backup_staged", "none", "removed"}
    BY <2>0 DEF Typed, RepairTypeOK, TypeOK, RetentionPhase
  <2>3. \A s \in 0..(Len(rotated) + 1) : FileOf(s) # None => ~Damaged(FileOf(s))
    BY <2>1 DEF Malformed, Inspected
  <2>4. ~Damaged(Text(active))
    <3>1. FileOf(0) = active /\ 0 \in 0..(Len(rotated) + 1)
      BY <2>2 DEF FileOf, EventsSegment, SpoolSegment
    <3>2. active # None => ~Damaged(active)
      BY <2>3, <3>1
    <3> QED BY <3>2, Texts, EmptyFile DEF Clean
  <2>5. ASSUME NEW i \in DOMAIN rotated PROVE ~Damaged(rotated[i])
    <3>1. i + 1 \in 0..(Len(rotated) + 1) /\ i + 1 \notin {0, 1} /\ (i + 1) - 1 = i
      BY <2>2
    <3>2. FileOf(i + 1) = rotated[i]
      BY <3>1 DEF FileOf, EventsSegment, SpoolSegment, Rotated
    <3>3. rotated[i] # None
      BY <2>2, Texts
    <3> QED BY <2>3, <3>1, <3>2, <3>3
  <2>6. Bytes(Text(active)) = Readable(Text(active)) /\ \A i \in DOMAIN rotated : Bytes(rotated[i]) = Readable(rotated[i])
    BY <2>2, <2>4, <2>5, BytesSplit
  <2>7. Bytes(Durable) \cup InRotated \subseteq Logged
    <3>1. Durable = Text(active)
      BY <2>0, DurableIs
    <3> QED BY <2>0, <2>6, <3>1, LoggedIs DEF InRotated, InLog
  <2>8. Dropped \subseteq (IF tombstone = "removed" THEN MalformedEvents(fence.original) ELSE {})
    BY <2>0, <2>1, <2>2 DEF Dropped, Preserved, BackupValid, Phases
  <2> QED BY <2>0, <2>1, <2>7, <2>8 DEF Secured
<1> QED
  BY <1>1, RepairInvariance, PTL

-----------------------------------------------------------------------------
(* What is removed has been replaced *)

LEMMA SpooledIs ==
    ASSUME Typed, Locked, Appending
    PROVE  /\ \A w \in Writer : pc[w] = "spoolsync" => Spooled = Readable(job[w].base)
           /\ (\A w \in Writer : pc[w] # "spoolsync") => Spooled = Readable(Text(degraded))
           /\ Spooled \subseteq Bytes(Text(degraded))
<1>1. \A v, w \in Writer : pc[v] = "spoolsync" /\ pc[w] = "spoolsync" => v = w
  BY Exclusive DEF Working, OnSpool
<1>2. ASSUME NEW w \in Writer, pc[w] = "spoolsync" PROVE Spooled = Readable(job[w].base)
  <2>1. (CHOOSE v \in Writer : pc[v] = "spoolsync") = w
    BY <1>1, <1>2
  <2> QED BY <1>2, <2>1 DEF Spooled
<1>3. (\A w \in Writer : pc[w] # "spoolsync") => Spooled = Readable(Text(degraded))
  BY DEF Spooled
<1>4. ASSUME NEW w \in Writer, pc[w] = "spoolsync" PROVE Spooled \subseteq Bytes(Text(degraded))
  <2>1. WellFormed(job[w].base)
    BY DEF Typed
  <2>2. Readable(job[w].base) \subseteq Bytes(job[w].base)
    BY <2>1, BytesSplit
  <2> QED BY <1>2, <1>4, <2>2 DEF Appending
<1>5. Readable(Text(degraded)) \subseteq Bytes(Text(degraded))
  BY RotatedHas
<1> QED
  BY <1>2, <1>3, <1>4, <1>5

LEMMA Promoted ==
    ASSUME Typed, Typed', Locked, Locked', Appending, RepairKnown, RepairNext
    PROVE  SpoolPromoted
<1>0. /\ pc \in [Writer -> Pc] /\ job \in [Writer -> Job]
      /\ WellFormed(Text(active)) /\ WellFormed(Text(degraded))
  BY DEF Typed, RepairTypeOK, TypeOK
<1>1. /\ Bytes(Text(degraded')) \subseteq Readable(Text(degraded')) \cup Buried'
      /\ Bytes(Text(active')) \subseteq Readable(Text(active')) \cup Buried'
      /\ \A i \in DOMAIN rotated' : Bytes(rotated'[i]) \subseteq Readable(rotated'[i]) \cup Buried'
      /\ corrupt' \subseteq Buried'
  <2>1. /\ rotated' \in Seq(File) /\ WellFormed(Text(active')) /\ WellFormed(Text(degraded'))
        /\ \A i \in DOMAIN rotated' : WellFormed(rotated'[i])
    BY DEF Typed, RepairTypeOK, TypeOK, Text
  <2> DEFINE S == rotated' \o <<Text(active')>>
             B == MalformedEvents(Text(degraded')) \cup UNION {MalformedEvents(S[i]) : i \in 1..Len(S)}
  <2>2. /\ Bytes(Text(degraded')) \subseteq Readable(Text(degraded')) \cup B
        /\ Bytes(Text(active')) \subseteq Readable(Text(active')) \cup B
        /\ \A i \in DOMAIN rotated' : Bytes(rotated'[i]) \subseteq Readable(rotated'[i]) \cup B
    BY <2>1, Burials
  <2>3. Buried' = corrupt' \cup B
    BY DEF Buried, Segments, Text, MalformedEvents
  <2> HIDE DEF B
  <2> QED BY <2>2, <2>3
\* It is enough that the spool keeps its bytes, or that the durable log has them.
<1>2. ASSUME Spooled \subseteq Bytes(Text(degraded')) \cup corrupt' PROVE SpoolPromoted
  BY <1>1, <1>2 DEF SpoolPromoted
<1>3. CASE degraded' = degraded
  BY <1>2, <1>3, SpooledIs
<1>4. ASSUME NEW w \in Writer, Write(w) PROVE SpoolPromoted
  <2> DEFINE spool == Repaired(Text(degraded))
  <2>1. Text(degraded') = spool
    BY <1>4, Writing
  <2>2. Bytes(Text(degraded)) \subseteq Bytes(spool) \cup corrupt'
    <3>1. PICK base, out : Wrote(w, base, out)
      BY <1>4, Writing
    <3> QED BY <3>1 DEF Wrote
  <2> HIDE DEF spool
  <2> QED BY <1>2, <2>1, <2>2, SpooledIs
<1>5. ASSUME NEW w \in Writer, Spool(w) PROVE SpoolPromoted
  <2> DEFINE base == Repaired(Text(degraded))
  <2>1. Bytes(Text(degraded)) \subseteq Bytes(base) \cup corrupt'
    BY <1>5, Spooling
  <2>2. PICK out \in Seq(Event) : Extends(Text(degraded'), base, out)
    BY <1>5, Spooling
  <2>3. Bytes(base) \subseteq Bytes(Text(degraded'))
    BY <2>2 DEF Extends
  <2> HIDE DEF base
  <2> QED BY <1>2, <2>1, <2>3, SpooledIs
<1>6. ASSUME NEW w \in Writer, Tear(w), pc[w] = "spoolsync" PROVE SpoolPromoted
  <2>1. WellFormed(job[w].base) /\ Extends(Text(degraded'), job[w].base, job[w].out)
    BY <1>6, Tearing
  <2>2. Readable(job[w].base) \subseteq Bytes(job[w].base)
    BY <2>1, BytesSplit
  <2>3. Spooled = Readable(job[w].base)
    BY <1>6, SpooledIs
  <2> QED BY <1>2, <2>1, <2>2, <2>3 DEF Extends
<1>7. ASSUME NEW w \in Writer, Unlink(w) PROVE SpoolPromoted
  <2>1. UNCHANGED <<active, rotated>> /\ pc[w] = "unlink" /\ pc'[w] = "idle"
    BY <1>0, <1>7 DEF Unlink, Return, Goto
  <2>2. Durable' = Text(active')
    BY <1>7, <2>1, NobodyAtFsync DEF Step
  <2>3. Spooled = Readable(Text(degraded))
    <3>1. \A v \in Writer : pc[v] # "spoolsync"
      BY <1>7, <2>1, Exclusive DEF Working, OnLog, OnSpool
    <3> QED BY <3>1, SpooledIs
  <2>4. Readable(Text(degraded)) \subseteq Bytes(Text(active')) \cup UNION {Bytes(rotated'[i]) : i \in DOMAIN rotated'}
    BY <2>1 DEF Appending, InRotated
  <2>5. Readable(Durable)' = Readable(Text(active'))
    BY <2>2 DEF Readable
  <2>6. DOMAIN rotated' = 1..Len(rotated')
    BY DEF Typed, RepairTypeOK, TypeOK
  <2> QED BY <1>1, <2>3, <2>4, <2>5, <2>6 DEF SpoolPromoted
<1>8. CASE ReplaceTarget
  <2>1. Mended(Text(degraded), Text(degraded'))
    BY <1>8, Replacing
  <2>2. Spooled = Readable(Text(degraded))
    BY <1>8, NobodyWorks, SpooledIs DEF Special
  <2> QED BY <2>1, <2>2 DEF SpoolPromoted, Mended
<1>9. CASE PruneStart
  BY <1>3, <1>9, Pruning
<1>10. CASE Calm
  BY <1>3, <1>10 DEF Calm, files
<1>11. ASSUME NEW w \in Writer, Step(w) PROVE SpoolPromoted
  <2>1. CASE Rotate(w) \/ Fsync(w)
    BY <1>3, <2>1 DEF Rotate, Fsync, files
  <2>2. CASE Tear(w) /\ pc[w] # "spoolsync"
    <3>1. degraded' = degraded
      BY <2>2, Tearing DEF Tear
    <3> QED BY <1>3, <3>1
  <2> QED BY <1>4, <1>5, <1>6, <1>7, <1>11, <2>1, <2>2 DEF Step
<1> QED
  BY <1>8, <1>9, <1>10, <1>11, Moves

\* The staged evidence of a repair goes only while the log has the repair's event and the
\* segment proves the repair, and a line leaves the spool only once the log has it past
\* an fsync, or it is in evidence that is kept.
THEOREM RetirementIsProven == RepairSpec => RetiredProven
<1> DEFINE A == /\ staged /\ ~staged' => TargetState \in Proven /\ RepairKey \in Logged
                /\ SpoolPromoted
<1>1. RepairInv /\ RepairInv' /\ [RepairNext]_allVars => [A]_allVars
  <2> SUFFICES ASSUME RepairInv, RepairInv', RepairNext PROVE A
    OBVIOUS
  <2>1. Typed /\ Locked /\ Appending /\ RepairKnown /\ Phases /\ Retaining /\ Typed' /\ Locked'
    BY DEF RepairInv, RepairKnown
  <2>2. ASSUME staged, ~staged' PROVE TargetState \in Proven /\ RepairKey \in Logged
    <3>1. CASE LogStep \/ Diagnose \/ RepairStart \/ Resume \/ Backup \/ PrepareReceipt \/ ReplaceTarget
               \/ MarkReplaced \/ RecordRepair \/ Recorded \/ CommitReceipt \/ CommitRefused
      BY <2>2, <3>1 DEF LogStep, repairVars, Diagnose, RepairStart, Resume, Backup, PrepareReceipt,
            ReplaceTarget, MarkReplaced, RecordRepair, Recorded, CommitReceipt, CommitRefused, evidence
    <3>2. CASE PruneStart \/ RetainReceipt \/ RetainStage \/ RetainMark \/ RetainDone \/ OpCrash
      BY <2>2, <3>2 DEF PruneStart, RetainReceipt, RetainStage, RetainMark, RetainDone, OpCrash
    <3>3. CASE RetainUnstage
      BY <2>1, <3>3 DEF RetainUnstage, Retaining
    <3> QED BY <3>1, <3>2, <3>3 DEF RepairNext, OperatorStep
  <2> QED BY <2>1, <2>2, Promoted
<1> QED
  BY <1>1, RepairInvariance, PTL DEF RetiredProven, RepairSpec
=============================================================================
