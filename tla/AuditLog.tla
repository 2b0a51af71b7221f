------------------------------ MODULE AuditLog ------------------------------
(***************************************************************************)
(* The audit log of the OA host: var/audit/events.jsonl, its rotated       *)
(* segments and the degraded spool.                                        *)
(*                                                                         *)
(* WHO: the commands that record an event (record, record_once). Each call *)
(* is made by a writer process; several run at once.                       *)
(*                                                                         *)
(* A call takes .audit.lock, then .degraded.lock, rotates a full active    *)
(* segment, reads the backlog of the spool and the keys already logged,    *)
(* appends the backlog and its own line in one write, crosses fsync and    *)
(* unlinks the spool. A call that fails before its line is durable spools  *)
(* the line under .degraded.lock instead, and reports failure.             *)
(*                                                                         *)
(* An append reaches the disk in pieces: a crash, a power failure before   *)
(* the fsync, or a full disk leaves any prefix of its bytes. Lines are the *)
(* unit here, and a prefix can end inside a line (an unterminated          *)
(* fragment) or right before its newline (a whole line, unterminated).     *)
(* What is appended next to an unterminated line continues that line.      *)
(***************************************************************************)
EXTENDS Naturals, SequencesExt

CONSTANTS
    Writer,         \* processes that record events
    Keyed,          \* deterministic idempotency keys (record_once); one event each
    Plain,          \* events without a key (record); one call each
    None,           \* no lock holder, no event, no file
    SegmentLines,   \* an active segment of this many lines is rotated
    MaxCalls,       \* bound: calls made
    MaxFaults       \* bound: crashes and I/O errors

Event == Keyed \cup Plain

ASSUME AuditConstants ==
    /\ Keyed \cap Plain = {}
    /\ None \notin Writer
    /\ SegmentLines \in Nat \ {0}
    /\ MaxCalls \in Nat
    /\ MaxFaults \in Nat

VARIABLES
    active,         \* events.jsonl, or None
    rotated,        \* the rotated segments events.<ns>.jsonl, oldest first
    degraded,       \* degraded.jsonl, or None
    corrupt,        \* the events whose bytes went to .corrupt/*.tail
    auditLock,      \* holder of .audit.lock
    degradedLock,   \* holder of .degraded.lock
    pc,             \* program counter of each writer's call
    job,            \* locals of each writer's call, and what the last one returned
    reported,       \* history: the events a call returned True for
    spent           \* history: calls made, faults suffered, plain events tried

files == <<active, rotated, degraded, corrupt>>
locks == <<auditLock, degradedLock>>
vars == <<files, locks, pc, job, reported, spent>>

\* A line: whether it reads as a JSON object, and the events whose bytes it has.
Line == [ok : BOOLEAN, has : SUBSET Event]
\* A file: its lines, and whether the last one lacks its newline.
File == [lines : Seq(Line), open : BOOLEAN]
Pc == {"idle", "audit", "degraded", "rotate", "read", "fsync", "unlink",
       "spool", "spooling", "spoolsync", "dead"}
\* The event recorded, the lines being appended, the file before the append
\* whether the spool had a backlog, and the value returned.
Job == [event : Event \cup {None}, out : Seq(Event), base : File, backlog : BOOLEAN,
        answer : BOOLEAN]
Spent == [calls : Nat, faults : Nat, tried : SUBSET Plain]

\* No event and no file is absent.
ASSUME AuditAbsent == None \notin Event /\ None \notin File

Empty == [lines |-> <<>>, open |-> FALSE]
NoJob == [event |-> None, out |-> <<>>, base |-> Empty, backlog |-> FALSE, answer |-> FALSE]

Whole(e) == [ok |-> TRUE, has |-> {e}]
Fragment == [ok |-> FALSE, has |-> {}]
Glued(a, b) == [ok |-> FALSE, has |-> a.has \cup b.has]

Init ==
    /\ active = None /\ rotated = <<>> /\ degraded = None /\ corrupt = {}
    /\ auditLock = None /\ degradedLock = None
    /\ pc = [w \in Writer |-> "idle"]
    /\ job = [w \in Writer |-> NoJob]
    /\ reported = {}
    /\ spent = [calls |-> 0, faults |-> 0, tried |-> {}]

-----------------------------------------------------------------------------
(* Bytes and lines *)

Text(file) == IF file = None THEN Empty ELSE file

\* One more line at the end of a file.
AddLine(file, line) ==
    IF file.open THEN Front(file.lines) \o <<Glued(Last(file.lines), line)>>
    ELSE Append(file.lines, line)

\* The file after its first n lines of the append were written.
Grown(file, out, n) ==
    IF n = 0 THEN file
    ELSE [lines |-> AddLine(file, Whole(out[1])) \o [i \in 1..(n - 1) |-> Whole(out[i + 1])],
          open |-> FALSE]

\* What an append can have written of its lines: n of them with their newline,
\* and of the next one nothing, a fragment, or all but the newline.
TornAppends(file, out) ==
    {Grown(file, out, n) : n \in 0..Len(out)} \cup
    UNION {{[lines |-> AddLine(Grown(file, out, n), line), open |-> TRUE] :
               line \in {Fragment, Whole(out[n + 1])}} : n \in 0..(Len(out) - 1)}

Damaged(file) == \E i \in 1..Len(file.lines) : ~file.lines[i].ok
Readable(file) == UNION {file.lines[i].has : i \in {j \in 1..Len(file.lines) : file.lines[j].ok}}

\* _quarantine_truncated_tail by way of _validated_lines: only a malformed last
\* line without a newline, with no other malformed line before it.
TruncatedTail(file) ==
    /\ file.open /\ ~Last(file.lines).ok
    /\ \A i \in 1..(Len(file.lines) - 1) : file.lines[i].ok
Repaired(file) == IF TruncatedTail(file) THEN [lines |-> Front(file.lines), open |-> FALSE] ELSE file
Quarantined(file) == IF TruncatedTail(file) THEN Last(file.lines).has ELSE {}

\* mutant: a keyed line is replayed whether or not it is already logged
ReplayAll(backlog, committed) == backlog
\* The elements of s at the positions in keep, in their order.
Picked(s, keep) ==
    LET Nth(n) == CHOOSE i \in keep : Cardinality({j \in keep : j <= i}) = n
    IN [n \in 1..Cardinality(keep) |-> s[Nth(n)]]

\* _replayable_backlog: every unkeyed line, and each uncommitted key once.
Replayable(backlog, committed) ==
    Picked(backlog, {i \in DOMAIN backlog :
        \/ backlog[i] \in Plain
        \/ backlog[i] \notin committed /\ \A j \in 1..(i - 1) : backlog[j] # backlog[i]})

EventOf(line) == CHOOSE e \in line.has : TRUE
Backlog(file) == [i \in 1..Len(file.lines) |-> EventOf(file.lines[i])]

-----------------------------------------------------------------------------
(* A call *)

Goto(w, label) == pc' = [pc EXCEPT ![w] = label]
Tally(field) == spent' = [spent EXCEPT ![field] = @ + 1]

\* record / record_once is called.
Call(w, e) ==
    /\ pc[w] = "idle"
    /\ spent.calls < MaxCalls
    /\ e \notin spent.tried
    /\ spent' = [spent EXCEPT !.calls = @ + 1, !.tried = @ \cup ({e} \cap Plain)]
    /\ job' = [job EXCEPT ![w] = [NoJob EXCEPT !.event = e]]
    /\ Goto(w, "audit")
    /\ UNCHANGED <<files, locks, reported>>

TakeAuditLock(w) ==
    /\ pc[w] = "audit" /\ auditLock = None
    /\ auditLock' = w
    /\ Goto(w, "degraded")
    /\ UNCHANGED <<files, degradedLock, job, reported, spent>>

TakeDegradedLock(w) ==
    /\ pc[w] = "degraded" /\ degradedLock = None
    /\ degradedLock' = w
    /\ Goto(w, "rotate")
    /\ UNCHANGED <<files, auditLock, job, reported, spent>>

\* FileLock gives up on a lock that stays taken: the call goes on to spool.
LockTimeout(w) ==
    /\ \/ pc[w] = "audit" /\ auditLock # None
       \/ pc[w] = "degraded" /\ degradedLock # None
    /\ auditLock' = IF auditLock = w THEN None ELSE auditLock
    /\ Goto(w, "spool")
    /\ UNCHANGED <<files, degradedLock, job, reported, spent>>

Rotate(w) ==
    /\ pc[w] = "rotate"
    /\ IF Len(Text(active).lines) >= SegmentLines
       THEN /\ rotated' = Append(rotated, active)
            /\ active' = None
       ELSE UNCHANGED <<rotated, active>>
    /\ Goto(w, "read")
    /\ UNCHANGED <<degraded, corrupt, locks, job, reported, spent>>

Release(w) ==
    /\ auditLock' = IF auditLock = w THEN None ELSE auditLock
    /\ degradedLock' = IF degradedLock = w THEN None ELSE degradedLock

\* The lines this call appends, given the repaired spool and the logged keys.
Outgoing(e, backlog, committed) ==
    Replayable(backlog, committed)
        \o (IF e \in Keyed /\ e \in committed \cup ToSet(backlog) THEN <<>> ELSE <<e>>)

\* Validate the spool and, if a key is involved, every segment (rotated ones
\* first: only the active one may have its tail repaired); then append.
Write(w) ==
    /\ pc[w] = "read"
    /\ LET e == job[w].event
           spool == Repaired(Text(degraded))
           keyed == e \in Keyed \/ Readable(spool) \cap Keyed # {}
           evidence == \A i \in 1..Len(rotated) : ~Damaged(rotated[i])
           base == IF ~Damaged(spool) /\ keyed /\ evidence THEN Repaired(Text(active)) ELSE Text(active)
           readable == ~Damaged(spool) /\ (keyed => evidence /\ ~Damaged(base))
           committed == IF keyed THEN Readable(base) \cup UNION {Readable(rotated[i]) : i \in 1..Len(rotated)}
                        ELSE {}
           out == Outgoing(e, Backlog(spool), committed)
       IN /\ degraded' = IF degraded = None THEN None ELSE spool
          /\ corrupt' = corrupt \cup Quarantined(Text(degraded))
                        \cup (IF base = Text(active) THEN {} ELSE Quarantined(Text(active)))
          /\ IF readable
             THEN /\ active' = Grown(base, out, Len(out))
                  /\ job' = [job EXCEPT ![w].out = out, ![w].base = base,
                                        ![w].backlog = spool.lines # <<>>]
                  /\ Goto(w, "fsync")
                  /\ UNCHANGED locks
             ELSE /\ active' = IF active = None THEN None ELSE base
                  /\ Goto(w, "spool")
                  /\ Release(w)
                  /\ UNCHANGED job
    /\ UNCHANGED <<rotated, reported, spent>>

Return(w, ok) ==
    /\ Goto(w, "idle")
    /\ job' = [job EXCEPT ![w] = [NoJob EXCEPT !.answer = ok]]
    /\ reported' = IF ok THEN reported \cup {job[w].event} ELSE reported
    /\ Release(w)

\* The appended lines are durable; without a backlog the call is done.
Fsync(w) ==
    /\ pc[w] = "fsync"
    /\ IF job[w].backlog
       THEN Goto(w, "unlink") /\ UNCHANGED <<locks, job, reported>>
       ELSE Return(w, TRUE)
    /\ UNCHANGED <<files, spent>>

\* The spool is unlinked after the fsync, and the call returns True.
Unlink(w) ==
    /\ pc[w] = "unlink"
    /\ degraded' = None
    /\ Return(w, TRUE)
    /\ UNCHANGED <<active, rotated, corrupt, spent>>

-----------------------------------------------------------------------------
(* _spool_degraded, after a call that did not commit *)

TakeSpoolLock(w) ==
    /\ pc[w] = "spool" /\ degradedLock = None
    /\ degradedLock' = w
    /\ Goto(w, "spooling")
    /\ UNCHANGED <<files, auditLock, job, reported, spent>>

\* The spool stays locked: the line is dropped and the call returns False.
DropEvent(w) ==
    /\ pc[w] = "spool" /\ degradedLock # None
    /\ Return(w, FALSE)
    /\ UNCHANGED <<files, spent>>

\* One pending line per key; a damaged spool takes no line.
Spool(w) ==
    /\ pc[w] = "spooling"
    /\ LET base == Repaired(Text(degraded))
           e == job[w].event
           out == IF Damaged(base) \/ (e \in Keyed /\ e \in Readable(base)) THEN <<>> ELSE <<e>>
       IN /\ degraded' = IF degraded = None /\ out = <<>> THEN None ELSE Grown(base, out, Len(out))
          /\ corrupt' = corrupt \cup Quarantined(Text(degraded))
          /\ job' = [job EXCEPT ![w].out = out, ![w].base = base]
    /\ Goto(w, "spoolsync")
    /\ UNCHANGED <<active, rotated, locks, reported, spent>>

SpoolFsync(w) ==
    /\ pc[w] = "spoolsync"
    /\ Return(w, FALSE)
    /\ UNCHANGED <<files, spent>>

-----------------------------------------------------------------------------
(* Faults *)

\* What is left of the append that was not yet durable.
LoseTail(w) ==
    /\ IF pc[w] = "fsync" THEN active' \in TornAppends(job[w].base, job[w].out)
       ELSE active' = active
    /\ IF pc[w] = "spoolsync" THEN degraded' \in TornAppends(job[w].base, job[w].out)
       ELSE degraded' = degraded
    /\ UNCHANGED <<rotated, corrupt>>

Fault ==
    /\ spent.faults < MaxFaults
    /\ Tally("faults")

\* The writer dies, or the host loses power. Its locks stay behind.
Crash(w) ==
    /\ Fault
    /\ pc[w] \notin {"idle", "dead"}
    /\ LoseTail(w)
    /\ Goto(w, "dead")
    /\ job' = [job EXCEPT ![w] = NoJob]
    /\ UNCHANGED <<locks, reported>>

\* FileLock removes the lock of a dead pid once it is stale.
BreakStaleLocks(w) ==
    /\ pc[w] = "dead"
    /\ Goto(w, "idle")
    /\ Release(w)
    /\ UNCHANGED <<files, job, reported, spent>>

\* An OSError of the call: not committed yet, so the line is spooled.
AppendError(w) ==
    /\ Fault
    /\ pc[w] \in {"rotate", "read", "fsync"}
    /\ LoseTail(w)
    /\ Goto(w, "spool")
    /\ Release(w)
    /\ UNCHANGED <<job, reported>>

\* An OSError once committed, or while spooling: the call returns False.
LateError(w) ==
    /\ Fault
    /\ pc[w] \in {"unlink", "spooling", "spoolsync"}
    /\ LoseTail(w)
    /\ Return(w, FALSE)

\* A step of a call under way.
Proceed(w) ==
    \/ TakeAuditLock(w) \/ TakeDegradedLock(w) \/ LockTimeout(w)
    \/ Rotate(w) \/ Write(w) \/ Fsync(w) \/ Unlink(w)
    \/ TakeSpoolLock(w) \/ DropEvent(w) \/ Spool(w) \/ SpoolFsync(w)
    \/ Crash(w) \/ BreakStaleLocks(w) \/ AppendError(w) \/ LateError(w)

Next == \E w \in Writer : Proceed(w) \/ \E e \in Event : Call(w, e)

Spec == Init /\ [][Next]_vars

-----------------------------------------------------------------------------
(* Properties *)

TypeOK ==
    /\ active \in File \cup {None} /\ degraded \in File \cup {None} /\ rotated \in Seq(File)
    /\ corrupt \subseteq Event
    /\ auditLock \in Writer \cup {None} /\ degradedLock \in Writer \cup {None}
    /\ pc \in [Writer -> Pc]
    /\ job \in [Writer -> Job]
    /\ reported \subseteq Event
    /\ spent \in Spent

\* The active segment up to its last fsync.
Durable == IF \E w \in Writer : pc[w] = "fsync"
           THEN job[CHOOSE w \in Writer : pc[w] = "fsync"].base
           ELSE Text(active)
Segments == rotated \o <<Text(active)>>
Lines == UNION {{i} \X (1..Len(Segments[i].lines)) : i \in 1..Len(Segments)}
LineAt(p) == Segments[p[1]].lines[p[2]]
Occurrences(e) == {p \in Lines : LineAt(p) = Whole(e)}
Logged == {e \in Event : Occurrences(e) # {}}
\* Events whose bytes are in a malformed line or in quarantine.
MalformedEvents(file) == UNION {file.lines[i].has : i \in {j \in 1..Len(file.lines) : ~file.lines[j].ok}}
Buried == corrupt \cup MalformedEvents(Text(degraded))
                  \cup UNION {MalformedEvents(Segments[i]) : i \in 1..Len(Segments)}
\* The lines of the spool that crossed its fsync.
Spooled == IF \E w \in Writer : pc[w] = "spoolsync"
           THEN Readable(job[CHOOSE w \in Writer : pc[w] = "spoolsync"].base)
           ELSE Readable(Text(degraded))

\* A key is never logged on two readable lines, over all segments, whatever
\* crashes, write errors and replays of the spool happen (audit.py, _record:
\* "optionally once per deterministic key"); and without a crash or an I/O error
\* (lock timeouts and spooling included) no event at all is logged twice: the
\* spool and the log never both keep a line, and no replay is repeated.
KeyLoggedOnce ==
    \A e \in Event : (e \in Keyed \/ spent.faults = 0) =>
        \A p, q \in Occurrences(e) : p = q

\* A durable line leaves the degraded spool only once the log has it past an
\* fsync (or as evidence that is kept).
SpoolPromoted ==
    \A e \in Spooled \ Readable(Text(degraded')) :
        \/ e \in Buried' \cup Readable(Durable)'
        \/ \E i \in 1..Len(rotated') : e \in Readable(rotated'[i])
=============================================================================
