------------------------------- MODULE AuditLog -------------------------------
(***************************************************************************)
(* The audit file sink (internal/audit) and its verifier (cmd/auditctl).   *)
(* Each day has one file of event records and one of checkpoints.  A       *)
(* record carries a sequence number, the previous record's hash and its    *)
(* own; the chain starts afresh with each file and an emitter that opens a *)
(* file takes the chain up from its last line.                             *)
(*                                                                         *)
(* The hash of a record is modelled by what it commits to: the sequence of *)
(* events of its chain.  Writes may fail, leaving nothing, a part of the   *)
(* line, or all of it but the newline; what is written next continues the  *)
(* unfinished line.  Emit runs under the emitter's mutex and is one step.  *)
(***************************************************************************)
EXTENDS Integers, Sequences

CONSTANTS
  Procs,       \* processes with an emitter on the same directory and stream
  Events,      \* audit events
  CheckEveryN, \* AUDIT_CHECKPOINT_EVERY_N
  MaxDay,      \* bound: days are 1..MaxDay
  MaxLines,    \* bound: lines per events file
  MaxFaults,   \* bound: failed writes and opens
  MaxStarts    \* bound: starts of each process

ASSUME ConstantsAssumption ==
  /\ CheckEveryN \in Nat \ {0}
  /\ MaxDay \in Nat \ {0}
  /\ MaxLines \in Nat
  /\ MaxFaults \in Nat
  /\ MaxStarts \in Nat

VARIABLES
  today,   \* the UTC date
  events,  \* events-<stream>-<date>.jsonl of each day
  checks,  \* checkpoints-<stream>-<date>.jsonl of each day
  emitter, \* the fileEmitter of each process
  starts,  \* starts of each process so far
  faults   \* failed writes and opens so far

auditVars == <<today, events, checks, emitter, starts, faults>>

Days == 1..MaxDay

Hash == Seq(Events)

ZeroHash == <<>>

\* A line: a record that parses, or something else.
Record == [kind: {"rec"}, seq: Nat, prev: Hash, hash: Hash, event: Events]
Checkpoint == [kind: {"rec"}, seq: Nat, hash: Hash]
Junk == [kind |-> "junk"]

\* A file: its lines, and whether the last one lacks its newline.
File(L) == [lines: Seq(L \cup {Junk}), open: BOOLEAN]

EmptyFile == [lines |-> <<>>, open |-> FALSE]

\* up: the process runs; date, seq, prev: openDate, seq and prevHash; open: the
\* handles are not closed; fresh: lastCheckpoint is the zero time.
Emitter == [up: BOOLEAN, date: Days \cup {0}, open: BOOLEAN, seq: Nat, prev: Hash,
            fresh: BOOLEAN]

Down == [up |-> FALSE, date |-> 0, open |-> FALSE, seq |-> 0, prev |-> ZeroHash,
         fresh |-> TRUE]

-----------------------------------------------------------------------------
(* Files *)

LastLine(f) == f.lines[Len(f.lines)]

\* A line is added at the end, or runs on from an unfinished one, which then
\* does not parse.
Extend(f, line, unfinished) ==
  [lines |-> IF f.open THEN [f.lines EXCEPT ![Len(f.lines)] = Junk]
             ELSE Append(f.lines, line),
   open  |-> unfinished]

\* What a failed write of a line may leave behind.
FailedWrites(f, line) == {f, Extend(f, Junk, TRUE), Extend(f, line, TRUE)}

\* readLastAuditState: no error unless the last line does not parse.
Readable(f) == f.lines # <<>> => LastLine(f).kind = "rec"

\* Mutant: numbers start at 0.
LastSeqFromZero(f) == IF f.lines = <<>> THEN -1 ELSE LastLine(f).seq

LastSeq(f) == IF f.lines = <<>> THEN 0 ELSE LastLine(f).seq

\* Mutant: the chain is not taken up from the last line.
LastHashNotSeeded(f) == ZeroHash

LastHash(f) == IF f.lines = <<>> THEN ZeroHash ELSE LastLine(f).hash

-----------------------------------------------------------------------------
(* The emitter *)

Fault == faults < MaxFaults /\ faults' = faults + 1

\* The emitter after rotateLocked opened today's files.
Opened ==
  [up |-> TRUE, date |-> today, open |-> TRUE, seq |-> LastSeq(events[today]),
   prev |-> LastHash(events[today]), fresh |-> TRUE]

\* newFileEmitter; on an error the process exits (log.Fatalf) and is started anew.
Start(p) ==
  /\ ~emitter[p].up
  /\ starts[p] < MaxStarts
  /\ starts' = [starts EXCEPT ![p] = @ + 1]
  /\ \/ /\ Readable(events[today])
        /\ emitter' = [emitter EXCEPT ![p] = Opened]
        /\ UNCHANGED faults
     \/ /\ ~Readable(events[today])
        /\ UNCHANGED <<emitter, faults>>
     \/ /\ Fault
        /\ UNCHANGED emitter
  /\ UNCHANGED <<today, events, checks>>

\* The process ends, with or without Close.
Stop(p) ==
  /\ emitter[p].up
  /\ emitter' = [emitter EXCEPT ![p] = Down]
  /\ UNCHANGED <<today, events, checks, starts, faults>>

\* rotateLocked has nothing to do (it looks at the date, and that the handles are
\* not nil; that they are closed it does not see).
Current(p) == emitter[p].date = today

\* The emitter that writes the event.
Rotated(p) == IF Current(p) THEN emitter[p] ELSE Opened

\* Mutant: openDate is set before the files are open.
RotateFailsDateSet(p) ==
  /\ emitter[p].up
  /\ ~Current(p)
  /\ IF Readable(events[today]) THEN Fault ELSE UNCHANGED faults
  /\ emitter' = [emitter EXCEPT ![p].open = FALSE, ![p].date = today]
  /\ UNCHANGED <<today, events, checks, starts>>

\* Emit drops the event because rotateLocked fails: the old handles are closed,
\* the date is not changed.
RotateFails(p) ==
  /\ emitter[p].up
  /\ ~Current(p)
  /\ IF Readable(events[today]) THEN Fault ELSE UNCHANGED faults
  /\ emitter' = [emitter EXCEPT ![p].open = FALSE]
  /\ UNCHANGED <<today, events, checks, starts>>

NextRecord(e, ev) ==
  [kind |-> "rec", seq |-> e.seq + 1, prev |-> e.prev, hash |-> Append(e.prev, ev),
   event |-> ev]

\* Emit is about to write the event.
CanEmit(p) ==
  /\ emitter[p].up
  /\ Current(p) \/ Readable(events[today])
  /\ Len(events[today].lines) < MaxLines

\* Mutant: the chain state is advanced although the write failed.
EmitFailsAdvancing(p, ev) ==
  LET rec == NextRecord(Rotated(p), ev)
  IN  /\ CanEmit(p)
      /\ Fault
      /\ events' \in {[events EXCEPT ![today] = f] : f \in FailedWrites(events[today], rec)}
      /\ emitter' = [emitter EXCEPT ![p] =
                       [Rotated(p) EXCEPT !.seq = rec.seq, !.prev = rec.hash]]
      /\ UNCHANGED <<today, checks, starts>>

\* The write fails: the chain state is not advanced.
EmitFails(p, ev) ==
  /\ CanEmit(p)
  /\ Fault
  /\ events' \in {[events EXCEPT ![today] = f] :
                    f \in FailedWrites(events[today], NextRecord(Rotated(p), ev))}
  /\ emitter' = [emitter EXCEPT ![p] = Rotated(p)]
  /\ UNCHANGED <<today, checks, starts>>

\* Mutant: the checkpoint is numbered for the record to come.
CheckpointOfNext(e) == [kind |-> "rec", seq |-> e.seq + 1, hash |-> e.prev]

CheckpointOf(e) == [kind |-> "rec", seq |-> e.seq, hash |-> e.prev]

\* The event is written, then a checkpoint if one is due: by count, because the
\* file was just opened, or because enough time has passed ("elapsed"). The error
\* of a failed checkpoint write is dropped.
Emit(p, ev, elapsed) ==
  LET rec == NextRecord(Rotated(p), ev)
      e   == [Rotated(p) EXCEPT !.seq = rec.seq, !.prev = rec.hash]
      due == rec.seq % CheckEveryN = 0 \/ e.fresh \/ elapsed
  IN  /\ CanEmit(p)
      /\ Rotated(p).open
      /\ events' = [events EXCEPT ![today] = Extend(events[today], rec, FALSE)]
      /\ \/ /\ ~due
            /\ emitter' = [emitter EXCEPT ![p] = e]
            /\ UNCHANGED <<checks, faults>>
         \/ /\ due
            /\ emitter' = [emitter EXCEPT ![p] = [e EXCEPT !.fresh = FALSE]]
            /\ checks' = [checks EXCEPT ![today] =
                            Extend(checks[today], CheckpointOf(e), FALSE)]
            /\ UNCHANGED faults
         \/ /\ due
            /\ Fault
            /\ emitter' = [emitter EXCEPT ![p] = e]
            /\ checks' \in {[checks EXCEPT ![today] = f] :
                              f \in FailedWrites(checks[today], CheckpointOf(e))}
      /\ UNCHANGED <<today, starts>>

Midnight ==
  /\ today < MaxDay
  /\ today' = today + 1
  /\ UNCHANGED <<events, checks, emitter, starts, faults>>

-----------------------------------------------------------------------------

AuditInit ==
  /\ today = 1
  /\ events = [d \in Days |-> EmptyFile]
  /\ checks = [d \in Days |-> EmptyFile]
  /\ emitter = [p \in Procs |-> Down]
  /\ starts = [p \in Procs |-> 0]
  /\ faults = 0

AuditNext ==
  \/ \E p \in Procs :
       \/ Start(p) \/ Stop(p) \/ RotateFails(p)
       \/ \E ev \in Events : EmitFails(p, ev) \/ \E b \in BOOLEAN : Emit(p, ev, b)
  \/ Midnight

AuditSpec == AuditInit /\ [][AuditNext]_auditVars

-----------------------------------------------------------------------------
(* auditctl verify *)

\* verifyEvents accepts line i: it parses, has the next number, the previous
\* line's hash and the hash of both.
LineVerifies(lines, i) ==
  /\ lines[i].kind = "rec"
  /\ lines[i].seq = i
  /\ lines[i].prev = IF i = 1 THEN ZeroHash ELSE lines[i - 1].hash
  /\ lines[i].hash = Append(lines[i].prev, lines[i].event)

\* The checkpoint file parses, and of the checkpoints for one number the last
\* has the hash of that record; checkpoints past the end are not looked at.
CheckpointsVerify(lines, cps) ==
  \A j \in 1..Len(cps) :
    /\ cps[j].kind = "rec"
    /\ \/ \E k \in j + 1..Len(cps) : cps[k].kind = "rec" /\ cps[k].seq = cps[j].seq
       \/ cps[j].seq \notin 1..Len(lines)
       \/ cps[j].hash = lines[cps[j].seq].hash

\* "ok" from auditctl verify for the files of day d, apart from an empty file.
Verifies(d) ==
  /\ \A i \in 1..Len(events[d].lines) : LineVerifies(events[d].lines, i)
  /\ CheckpointsVerify(events[d].lines, checks[d].lines)

-----------------------------------------------------------------------------
(* Properties *)

TypeOK ==
  /\ today \in Days
  /\ events \in [Days -> File(Record)]
  /\ checks \in [Days -> File(Checkpoint)]
  /\ emitter \in [Procs -> Emitter]
  /\ starts \in [Procs -> Nat]
  /\ faults \in 0..MaxFaults

\* As long as no write or open has failed, every file verifies at every moment:
\* across restarts that take the chain up from the last line, and across days.
ChainVerifies == faults = 0 => \A d \in Days : Verifies(d)

\* Failed writes spoil nothing that was written before: up to the first line that
\* does not parse the chain verifies, whatever was written after it.
PrefixVerifies ==
  \A d \in Days : \A i \in 1..Len(events[d].lines) :
    (\A j \in 1..i : events[d].lines[j].kind = "rec") => LineVerifies(events[d].lines, i)

\* A checkpoint is never ahead of its events, also when checkpoint writes fail
\* and processes stop in between: unless an event line was spoilt, the record
\* with the checkpoint's number is in the file and has the checkpoint's hash.
CheckpointsBacked ==
  \A d \in Days :
    (\A i \in 1..Len(events[d].lines) : events[d].lines[i].kind = "rec") =>
      \A j \in 1..Len(checks[d].lines) :
        LET cp == checks[d].lines[j] IN
        cp.kind = "rec" => /\ cp.seq \in 1..Len(events[d].lines)
                           /\ cp.hash = events[d].lines[cp.seq].hash


\* A rotation that failed half way, its old handles closed, never leaves an
\* emitter that takes the closed handles for today's: the next event tries again.
HandlesUsable ==
  \A p \in Procs : emitter[p].up /\ Current(p) => emitter[p].open

-----------------------------------------------------------------------------
(* What a comment or a document says and the code does not do *)

\* docs/audit.md: "a tamper-evident local file sink that writes JSONL with a hash
\* chain": without failed writes the records of a file form one chain.
HashChain ==
  faults = 0 => \A d \in Days : \A i \in 1..Len(events[d].lines) :
                  LineVerifies(events[d].lines, i)

=============================================================================
